----------------------------- MODULE UploadFile -----------------------------
(***************************************************************************)
(* One file of an upload, over several attempts: uploadFile and            *)
(* writeUploadFileWithConcurrency of internal/sshclient/upload.go, with    *)
(* watchTransfer of connection_health.go and the part file on the server.  *)
(*                                                                         *)
(* A chunk is one 32 KiB write request.  The server executes the requests  *)
(* in any order relative to the file, because several workers send them.   *)
(* The part file's name contains a fingerprint of the local file, so the   *)
(* attempts modelled here all send the same contents.                      *)
(***************************************************************************)
EXTENDS Naturals, FiniteSets

CONSTANTS Size,         \* chunks of the local file
          Workers,      \* concurrent requests (uploadRequestConcurrency)
          MaxAttempts   \* bound on the jobs that upload this file

UploadAssumption == {Size, Workers, MaxAttempts} \subseteq Nat \ {0}

VARIABLES
  overwrite,    \* the request's flag; a destination exists iff it is set
  posix,        \* the server knows posix-rename
  phase,        \* of the attempt
  offset,       \* resumeOffset, in chunks
  next,         \* the chunk the dispatcher hands out next
  sent,         \* requests on their way
  answered,     \* requests executed whose answer is on its way
  acked,        \* requests whose answer has arrived
  failed,       \* firstErr # nil
  ended,        \* the job's context is done: cancelled, or another file failed
  transport,    \* the SSH transport of the job is open
  orphans,      \* requests of a closed transport the server may yet execute
  present,      \* the part file exists
  partSize,     \* its size, in chunks
  stored,       \* its chunks that hold their data; the others read as zeros
  dest,         \* the destination file
  transferred,  \* progress.BytesTransferred, in chunks
  torn,         \* an attempt that wrote to this part lost its transport before
                \* it could truncate it
  attempts

setting == <<overwrite, posix>>
requests == <<next, sent, answered, acked, failed>>
part == <<present, partSize, stored>>
outcome == <<dest, transferred, torn, attempts>>
vars == <<setting, phase, offset, requests, ended, transport, orphans, part, outcome>>

Chunks == 0 .. Size - 1
Phases == {"idle", "writing", "stopped", "syncing", "committing", "replacing"}

TypeOK ==
  /\ overwrite \in BOOLEAN /\ posix \in BOOLEAN
  /\ phase \in Phases /\ offset \in 0 .. Size /\ next \in offset .. Size
  /\ sent \subseteq Chunks /\ answered \subseteq Chunks /\ acked \subseteq Chunks
  /\ Cardinality(sent \cup answered) <= Workers
  /\ failed \in BOOLEAN /\ ended \in BOOLEAN /\ transport \in BOOLEAN
  /\ orphans \subseteq Chunks
  /\ present \in BOOLEAN /\ partSize \in 0 .. Size /\ stored \subseteq 0 .. partSize - 1
  /\ dest \in {"none", "old", "whole", "corrupt"}
  /\ transferred \in 0 .. Size /\ torn \in BOOLEAN /\ attempts \in 0 .. MaxAttempts

Init ==
  /\ overwrite \in BOOLEAN /\ posix \in BOOLEAN
  /\ phase = "idle" /\ offset = 0 /\ next = 0
  /\ sent = {} /\ answered = {} /\ acked = {}
  /\ failed = FALSE /\ ended = FALSE /\ transport = FALSE /\ orphans = {}
  /\ present = FALSE /\ partSize = 0 /\ stored = {}
  /\ dest = IF overwrite THEN "old" ELSE "none"
  /\ transferred = 0 /\ torn = FALSE /\ attempts = 0

-----------------------------------------------------------------------------
(* An attempt begins: look at the part file, open it, seek                 *)

Begin(resume) ==
  LET kept == resume /\ present /\ partSize > 0 IN
  /\ phase = "idle" /\ attempts < MaxAttempts
  /\ dest \notin {"whole", "corrupt"}
  /\ attempts' = attempts + 1
  /\ phase' = "writing"
  /\ offset' = IF kept THEN partSize ELSE 0
  /\ present' = TRUE
  /\ IF kept
     THEN UNCHANGED <<partSize, stored>>
     ELSE partSize' = 0 /\ stored' = {}
  \* Without resume the old file is removed: late writes go to no file.
  /\ orphans' = IF resume THEN orphans ELSE {}
  /\ next' = offset' /\ transferred' = offset'
  /\ sent' = {} /\ answered' = {} /\ acked' = {}
  /\ failed' = FALSE /\ ended' = FALSE /\ transport' = TRUE
  /\ torn' = (torn /\ resume)
  /\ UNCHANGED <<setting, dest>>

-----------------------------------------------------------------------------
(* Concurrent writing                                                      *)

Stopping == failed \/ ended

Send ==
  /\ phase = "writing" /\ ~Stopping /\ transport
  /\ next < Size
  /\ Cardinality(sent \cup answered) < Workers
  /\ sent' = sent \cup {next}
  /\ next' = next + 1
  /\ UNCHANGED <<setting, phase, offset, answered, acked, failed, ended, transport, orphans, part,
                 outcome>>

SendFails ==
  /\ phase = "writing" /\ ~Stopping /\ ~transport
  /\ next < Size
  /\ failed' = TRUE
  /\ UNCHANGED <<setting, phase, offset, next, sent, answered, acked, ended, transport, orphans, part,
                 outcome>>

\* The server writes chunk i: what lies between the end and i reads as zeros.
WriteAt(i) ==
  /\ stored' = stored \cup {i}
  /\ partSize' = IF partSize > i THEN partSize ELSE i + 1

Execute(i) ==
  /\ i \in sent
  /\ sent' = sent \ {i}
  /\ answered' = answered \cup {i}
  /\ WriteAt(i)
  /\ UNCHANGED <<setting, phase, offset, next, acked, failed, ended, transport, orphans, present,
                 outcome>>

\* Disk full, quota, permission.
Refuse(i) ==
  /\ i \in sent /\ transport
  /\ sent' = sent \ {i}
  /\ failed' = TRUE
  /\ UNCHANGED <<setting, phase, offset, next, answered, acked, ended, transport, orphans, part,
                 outcome>>

Answer(i) ==
  /\ i \in answered /\ transport
  /\ answered' = answered \ {i}
  /\ acked' = acked \cup {i}
  /\ transferred' = transferred + 1
  /\ UNCHANGED <<setting, phase, offset, next, sent, failed, ended, transport, orphans, part,
                 dest, torn, attempts>>

\* The transport is gone: every waiting worker gets an error.
BreakRequest(i) ==
  /\ i \in sent \cup answered /\ ~transport
  /\ sent' = sent \ {i} /\ answered' = answered \ {i}
  /\ orphans' = IF i \in sent THEN orphans \cup {i} ELSE orphans
  /\ failed' = TRUE
  /\ UNCHANGED <<setting, phase, offset, next, acked, ended, transport, part, outcome>>

\* The server executes, after all, a request it had received.
ExecuteOrphan(i) ==
  /\ i \in orphans /\ present
  /\ orphans' = orphans \ {i}
  /\ WriteAt(i)
  /\ UNCHANGED <<setting, phase, offset, requests, ended, transport, present, outcome>>

Cancel ==
  /\ phase # "idle" /\ ~ended
  /\ ended' = TRUE
  /\ UNCHANGED <<setting, phase, offset, requests, transport, orphans, part, outcome>>

\* A bug: only a cancelled transfer is given up, a stalled one waits for ever.
WatchTransferCancelOnly ==
  /\ phase # "idle" /\ transport
  /\ ended
  /\ transport' = FALSE
  /\ UNCHANGED <<setting, phase, offset, requests, ended, orphans, part, outcome>>

\* watchTransfer closes the transport when the context is done, or after 60 s
\* without a byte in either direction.
WatchTransfer ==
  /\ phase # "idle" /\ transport
  /\ transport' = FALSE
  /\ UNCHANGED <<setting, phase, offset, requests, ended, orphans, part, outcome>>

\* The chunks before the first one that is not acknowledged.
Safe == CHOOSE n \in offset .. Size :
          /\ offset .. n - 1 \subseteq acked
          /\ n \notin acked

\* A bug: what arrived counts as transferred, also behind a gap.
SettleCountingAll ==
  /\ phase = "writing"
  /\ sent \cup answered = {}
  /\ Stopping \/ next = Size
  /\ phase' = IF ~Stopping /\ Safe = Size THEN "syncing" ELSE "stopped"
  /\ UNCHANGED <<setting, offset, requests, ended, transport, orphans, part, outcome>>

\* All workers have returned: the progress goes back to the safe prefix.
Settle ==
  /\ phase = "writing"
  /\ sent \cup answered = {}
  /\ Stopping \/ next = Size
  /\ transferred' = Safe
  /\ phase' = IF ~Stopping /\ Safe = Size THEN "syncing" ELSE "stopped"
  /\ UNCHANGED <<setting, offset, requests, ended, transport, orphans, part, dest, torn, attempts>>

-----------------------------------------------------------------------------
(* The end of an attempt                                                   *)

\* Truncate to the safe prefix; its error is ignored, and with the transport
\* closed it can only fail.
TruncateTail ==
  /\ phase = "stopped"
  /\ IF transport
     THEN partSize' = Safe /\ stored' = stored \cap (0 .. Safe - 1) /\ UNCHANGED torn
     ELSE torn' = TRUE /\ UNCHANGED <<partSize, stored>>
  /\ phase' = "idle"
  /\ transport' = FALSE
  /\ UNCHANGED <<setting, offset, requests, ended, orphans, present, dest, transferred, attempts>>

Contents == IF stored = Chunks THEN "whole" ELSE "corrupt"

\* Fsync and close; the context is looked at once more.
Sync ==
  /\ phase = "syncing"
  /\ phase' = IF transport /\ ~ended THEN "committing" ELSE "idle"
  /\ UNCHANGED <<setting, offset, requests, ended, transport, orphans, part, outcome>>

SyncRefused ==
  /\ phase = "syncing"
  /\ phase' = "idle"
  /\ UNCHANGED <<setting, offset, requests, ended, transport, orphans, part, outcome>>

Rename ==
  /\ dest' = Contents
  /\ present' = FALSE /\ partSize' = 0 /\ stored' = {}
  /\ orphans' = {}
  /\ phase' = "idle"

\* A destination that must not be replaced does not exist here.  One that may
\* be replaced is replaced at once only by a server with posix-rename.
Commit ==
  /\ phase = "committing" /\ transport
  /\ ~overwrite \/ posix
  /\ Rename
  /\ UNCHANGED <<setting, offset, requests, ended, transport, transferred, torn, attempts>>

RemoveOld ==
  /\ phase = "committing" /\ transport
  /\ overwrite /\ ~posix
  /\ dest' = "none"
  /\ phase' = "replacing"
  /\ UNCHANGED <<setting, offset, requests, ended, transport, orphans, part, transferred, torn, attempts>>

RenameOverRemoved ==
  /\ phase = "replacing" /\ transport
  /\ Rename
  /\ UNCHANGED <<setting, offset, requests, ended, transport, transferred, torn, attempts>>

CommitFails ==
  /\ phase \in {"committing", "replacing"}
  /\ phase' = "idle"
  /\ UNCHANGED <<setting, offset, requests, ended, transport, orphans, part, outcome>>

-----------------------------------------------------------------------------
Next ==
  \/ \E resume \in BOOLEAN : Begin(resume)
  \/ Send \/ SendFails
  \/ \E i \in Chunks : Execute(i) \/ Refuse(i) \/ Answer(i) \/ BreakRequest(i) \/ ExecuteOrphan(i)
  \/ Cancel \/ WatchTransfer \/ Settle
  \/ TruncateTail \/ Sync \/ SyncRefused
  \/ Commit \/ RemoveOld \/ RenameOverRemoved \/ CommitFails

Spec == Init /\ [][Next]_vars

\* The client's goroutines run and the watch fires; the server may stop
\* answering for ever.
Fairness ==
  /\ WF_vars(Send \/ SendFails) /\ WF_vars(\E i \in Chunks : BreakRequest(i))
  /\ WF_vars(WatchTransfer)
  /\ WF_vars(\/ Settle \/ TruncateTail \/ Sync \/ SyncRefused
             \/ Commit \/ RemoveOld \/ RenameOverRemoved \/ CommitFails)

LiveSpec == Spec /\ Fairness

-----------------------------------------------------------------------------
(* Properties                                                              *)

\* Between attempts the part file is a prefix of the local file without holes,
\* and as long as the progress says ("only the safe prefix the server has
\* acknowledged is kept, the tail that arrived out of order is cut off",
\* CHANGELOG.md:38): a resumed upload takes its size for the place to go on
\* from (upload.go:678).  Except for a part that was torn.
SafePrefix ==
  phase = "idle" /\ present /\ ~torn =>
    0 .. partSize - 1 \subseteq stored /\ transferred <= partSize

\* A file that is put in place is the local file, whatever attempts led there,
\* if none of them tore the part.
CommittedIsWhole == torn \/ dest # "corrupt"

\* An attempt ends, also when the server never answers again.
AttemptEnds == []<>(phase = "idle")

\* "A cancel or an error that can be recovered from truncates the part to a
\* safe position and keeps it" (user manual, line 131): no upload that goes on
\* from there puts a file with a hole in place.
CutIsHarmless == dest # "corrupt"
=============================================================================
