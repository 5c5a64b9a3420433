----------------------------- MODULE DataPathsMC -----------------------------
(* The ways data takes, each on a small instance: the plan of a transfer,   *)
(* one file of an upload and of a download, the worker pool, the jobs of a  *)
(* profile (TransferJobs, extended), the output of a terminal.  They share  *)
(* nothing, so a behaviour follows one of them, chosen at its beginning,    *)
(* and leaves the variables of the others as they are: the state spaces     *)
(* add up.                                                                  *)
EXTENDS TransferJobs, Sequences, TLC

CONSTANTS UploadSize, UploadRequests, UploadAttempts,
          Size, MaxVersions, MaxAttempts,
          Files, Workers, None,
          Length, Capacity, ReadSize, MaxPieces,
          Folders, Names, MaxSelected

VARIABLES
  path,
  upOverwrite, posix, upPhase, offset, next, sent, answered, acked, failed, upEnded,
  upTransport, orphans, present, partSize, stored, upDest, transferred, torn, upAttempts,
  overwrite, remote, plan, resume, phase, parts, dest, backup, attempts,
  queued, dispatch, worker, file, done, slot, stopped, cancelled, result,
  written, exited, taken, data, start, closed, notify,
  cursor, reader, channel, received, flagged,
  direction, mayReplace, disk, selection, turn, scanned, entries, existing, verdict

Upload == INSTANCE UploadFile WITH
  Size <- UploadSize, Workers <- UploadRequests, MaxAttempts <- UploadAttempts,
  overwrite <- upOverwrite, phase <- upPhase, ended <- upEnded, transport <- upTransport,
  dest <- upDest, attempts <- upAttempts
Download == INSTANCE DownloadFile
Pool == INSTANCE TransferWorkers
Output == INSTANCE TerminalOutput

\* Two spellings of a name, which the local disk takes for the same.
Lowered(name) == IF name = "A" THEN "a" ELSE name
Planning == INSTANCE TransferPlan WITH
  Lower <- Lowered, Valid <- Names \ {"aux"},
  overwrite <- mayReplace, next <- turn, plan <- entries

ASSUME DataAssumption ==
  /\ Upload!UploadAssumption /\ Download!DownloadAssumption
  /\ Pool!PoolAssumption /\ Output!OutputAssumption

uploadVars ==
  <<upOverwrite, posix, upPhase, offset, next, sent, answered, acked, failed, upEnded,
    upTransport, orphans, present, partSize, stored, upDest, transferred, torn, upAttempts>>
downloadVars == <<overwrite, remote, plan, resume, phase, parts, dest, backup, attempts>>
poolVars == <<queued, dispatch, worker, file, done, slot, stopped, cancelled, result>>
outputVars ==
  <<written, exited, taken, data, start, closed, notify,
    cursor, reader, channel, received, flagged>>
planVars ==
  <<direction, mayReplace, disk, selection, turn, scanned, entries, existing, verdict>>
allVars == <<path, vars, uploadVars, downloadVars, poolVars, outputVars, planVars>>

\* What a step of one path leaves alone.
Only(chosen) ==
  /\ path = chosen /\ UNCHANGED path
  /\ chosen # "jobs" => UNCHANGED vars
  /\ chosen # "upload" => UNCHANGED uploadVars
  /\ chosen # "download" => UNCHANGED downloadVars
  /\ chosen # "workers" => UNCHANGED poolVars
  /\ chosen # "output" => UNCHANGED outputVars
  /\ chosen # "plan" => UNCHANGED planVars

MCInit ==
  /\ path \in {"jobs", "upload", "download", "workers", "output", "plan"}
  /\ Init /\ Upload!Init /\ Download!Init /\ Pool!Init /\ Output!Init /\ Planning!Init
  /\ path # "upload" => ~upOverwrite /\ ~posix
  /\ path # "download" => ~overwrite

MCNext ==
  \/ Only("jobs") /\ Next
  \/ Only("upload") /\ Upload!Next
  \/ Only("download") /\ Download!Next
  \/ Only("workers") /\ Pool!Next
  \/ Only("output") /\ Output!Next
  \/ Only("plan") /\ Planning!Next

\* A path that was not chosen stays in its initial state, where none of the
\* actions with fairness is enabled.
MCSpec ==
  /\ MCInit /\ [][MCNext]_allVars
  /\ Fairness /\ Upload!Fairness /\ Pool!Fairness /\ Output!Fairness

-----------------------------------------------------------------------------
(* The properties of the instances, under names of their own               *)

\* Every variable of the six components has its type.
AllTyped ==
  /\ TypeOK /\ Upload!TypeOK /\ Download!TypeOK
  /\ Pool!TypeOK /\ Output!TypeOK /\ Planning!TypeOK

\* UploadFile!SafePrefix: the part of an upload has no hole below its size.
SafePrefix == Upload!SafePrefix

\* What is put in place is whole: of an upload the local file
\* (UploadFile!CommittedIsWhole), of a download one version of the remote file
\* (DownloadFile!CommittedIsOneVersion).
CommittedWhole == Upload!CommittedIsWhole /\ Download!CommittedIsOneVersion

\* UploadFile!CutIsHarmless: a cancel keeps only what a resume can go on from.
CutIsHarmless == Upload!CutIsHarmless

\* DownloadFile!OldIsNeverLost: the file that was there survives a crash.
OldIsNeverLost == Download!OldIsNeverLost

\* TransferWorkers!CompletedMeansAll: "completed" is said of all files.
CompletedMeansAll == Pool!CompletedMeansAll

\* TerminalOutput!NoSilentGap: a client knows of every piece it has missed.
NoSilentGap == Output!NoSilentGap

\* TransferPlan!PlanIsWhole: what is carried out is what was selected, once.
PlanIsWhole == Planning!PlanIsWhole

\* Nobody waits for ever: a server that stops answering cannot hold an upload
\* (UploadFile!AttemptEnds), runner and workers do not block each other
\* (TransferWorkers!JobConcludes), no read sleeps through what it waits for
\* (TerminalOutput!WaitingReaderWakes).
NobodyWaits == Upload!AttemptEnds /\ Pool!JobConcludes /\ Output!WaitingReaderWakes
=============================================================================
