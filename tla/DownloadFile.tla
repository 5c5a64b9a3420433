---------------------------- MODULE DownloadFile ----------------------------
(***************************************************************************)
(* One file of a download, over several attempts, crashes of the program   *)
(* and changes of the file on the server: downloadFile,                    *)
(* cleanStaleDownloadParts and commitDownloadedFile of                     *)
(* internal/sshclient/download.go, with the files they leave on the disk.  *)
(*                                                                         *)
(* A version is a state of the remote file: its size and time are what the *)
(* part file's name is made of, and they are never those of an earlier     *)
(* version again.  Contents are sequences of pieces; a piece is the number *)
(* of the version it was read from.                                        *)
(***************************************************************************)
EXTENDS Naturals, Sequences

CONSTANTS Size,         \* pieces of the file
          MaxVersions,  \* bound on the changes of the remote file
          MaxAttempts   \* bound on the attempts

DownloadAssumption == {Size, MaxVersions, MaxAttempts} \subseteq Nat \ {0}

Versions == 1 .. MaxVersions
Contents == UNION {[1 .. n -> Versions] : n \in 0 .. Size}
Nothing == <<0>>   \* no file
Old == <<0, 0>>    \* the file that was there before

VARIABLES
  overwrite, \* the request's flag; a destination exists iff it is set
  remote,    \* the version on the server
  plan,      \* the version the attempt has listed
  resume,    \* the attempt's flag
  phase,
  parts,     \* the part file of each version, or Nothing
  dest,      \* the destination
  backup,    \* .labremote-backup-...
  attempts

disk == <<parts, dest, backup>>
vars == <<overwrite, remote, plan, resume, phase, disk, attempts>>

Phases == {"idle", "cleaning", "opening", "copying", "verifying", "committing",
           "swapping", "tidying"}

TypeOK ==
  /\ overwrite \in BOOLEAN
  /\ remote \in Versions /\ plan \in 0 .. remote /\ resume \in BOOLEAN
  /\ phase \in Phases
  /\ parts \in [Versions -> Contents \cup {Nothing}]
  /\ dest \in Contents \cup {Nothing, Old} /\ backup \in {Nothing, Old}
  /\ attempts \in 0 .. MaxAttempts
  /\ phase \in {"copying", "verifying"} => parts[plan] # Nothing

Init ==
  /\ overwrite \in BOOLEAN
  /\ remote = 1 /\ plan = 0 /\ resume = FALSE /\ phase = "idle"
  /\ parts = [v \in Versions |-> Nothing]
  /\ dest = IF overwrite THEN Old ELSE Nothing
  /\ backup = Nothing /\ attempts = 0

-----------------------------------------------------------------------------
\* Somebody writes the remote file.
RemoteChanges ==
  /\ remote < MaxVersions
  /\ remote' = remote + 1
  /\ UNCHANGED <<overwrite, plan, resume, phase, disk, attempts>>

\* The job lists the remote file and finds no conflict.
Begin(again) ==
  /\ phase = "idle" /\ attempts < MaxAttempts
  /\ dest \in {Nothing, Old}
  /\ attempts' = attempts + 1
  /\ plan' = remote
  /\ resume' = again
  /\ phase' = "cleaning"
  /\ UNCHANGED <<overwrite, remote, disk>>

\* Part files of this destination with another fingerprint are removed.
CleanStaleParts ==
  /\ phase = "cleaning"
  /\ parts' = [v \in Versions |-> IF v = plan THEN parts[v] ELSE Nothing]
  /\ phase' = "opening"
  /\ UNCHANGED <<overwrite, remote, plan, resume, dest, backup, attempts>>

\* The part file of this version is gone on with, or begun anew.
OpenPart ==
  /\ phase = "opening"
  /\ parts' = [parts EXCEPT ![plan] = IF resume /\ @ # Nothing THEN @ ELSE <<>>]
  /\ phase' = "copying"
  /\ UNCHANGED <<overwrite, remote, plan, resume, dest, backup, attempts>>

\* The remote file is read in order and appended.
Copy ==
  /\ phase = "copying" /\ Len(parts[plan]) < Size
  /\ parts' = [parts EXCEPT ![plan] = Append(@, remote)]
  /\ UNCHANGED <<overwrite, remote, plan, resume, phase, dest, backup, attempts>>

SyncAndClose ==
  /\ phase = "copying" /\ Len(parts[plan]) = Size
  /\ phase' = "verifying"
  /\ UNCHANGED <<overwrite, remote, plan, resume, disk, attempts>>

\* A bug: the remote file is not looked at again.
TrustRemote ==
  /\ phase = "verifying"
  /\ phase' = "committing"
  /\ UNCHANGED <<overwrite, remote, plan, resume, disk, attempts>>

\* The remote file must still be the listed one.
Verify ==
  /\ phase = "verifying"
  /\ IF remote = plan
     THEN phase' = "committing" /\ UNCHANGED parts
     ELSE phase' = "idle" /\ parts' = [parts EXCEPT ![plan] = Nothing]
  /\ UNCHANGED <<overwrite, remote, plan, resume, dest, backup, attempts>>

Rename ==
  /\ dest' = parts[plan]
  /\ parts' = [parts EXCEPT ![plan] = Nothing]

\* A bug: the old file is deleted to make room.
RemoveOld ==
  /\ phase = "committing" /\ dest # Nothing
  /\ dest' = Nothing
  /\ phase' = "swapping"
  /\ UNCHANGED <<overwrite, remote, plan, resume, parts, backup, attempts>>

\* A file at the destination steps aside first.
SetAside ==
  /\ phase = "committing" /\ dest # Nothing
  /\ backup' = dest /\ dest' = Nothing
  /\ phase' = "swapping"
  /\ UNCHANGED <<overwrite, remote, plan, resume, parts, attempts>>

CommitFresh ==
  /\ phase = "committing" /\ dest = Nothing
  /\ Rename
  /\ phase' = "idle"
  /\ UNCHANGED <<overwrite, remote, plan, resume, backup, attempts>>

Swap ==
  /\ phase = "swapping"
  /\ Rename
  /\ phase' = "tidying"
  /\ UNCHANGED <<overwrite, remote, plan, resume, backup, attempts>>

\* The second rename fails: the old file is put back.
SwapFails ==
  /\ phase = "swapping"
  /\ dest' = backup /\ backup' = Nothing
  /\ phase' = "idle"
  /\ UNCHANGED <<overwrite, remote, plan, resume, parts, attempts>>

Tidy ==
  /\ phase = "tidying"
  /\ backup' = Nothing
  /\ phase' = "idle"
  /\ UNCHANGED <<overwrite, remote, plan, resume, parts, dest, attempts>>

\* Cancelled, the connection or the disk fail, a rename is refused: the part
\* file stays for the next attempt.
Fails ==
  /\ phase \in Phases \ {"idle", "swapping", "tidying"}
  /\ phase' = "idle"
  /\ UNCHANGED <<overwrite, remote, plan, resume, disk, attempts>>

\* The program is killed; nothing is cleaned up, and it has no memory of it.
Crash ==
  /\ phase # "idle"
  /\ phase' = "idle"
  /\ UNCHANGED <<overwrite, remote, plan, resume, disk, attempts>>

Next ==
  \/ RemoteChanges \/ \E again \in BOOLEAN : Begin(again)
  \/ CleanStaleParts \/ OpenPart \/ Copy \/ SyncAndClose \/ Verify
  \/ SetAside \/ CommitFresh \/ Swap \/ SwapFails \/ Tidy
  \/ Fails \/ Crash

Spec == Init /\ [][Next]_vars

-----------------------------------------------------------------------------
(* Properties                                                              *)

\* What is put in place is one version of the remote file, whole, whatever was
\* changed, interrupted and resumed on the way ("when the source has changed a
\* new part is used, so that nothing wrong is joined", user manual, line 131).
CommittedIsOneVersion ==
  dest \notin {Nothing, Old} => \E v \in Versions : dest = [i \in 1 .. Size |-> v]

\* Until the new file is in place the old one is still on the disk, at the
\* destination or under its backup name, also after a crash.
OldIsNeverLost == overwrite /\ dest \in {Nothing, Old} => Old \in {dest, backup}
=============================================================================
