-------------------------- MODULE TransferWorkers --------------------------
(***************************************************************************)
(* How one job spreads its files over workers: the dispatch loop, the      *)
(* worker goroutines and the error channel of runUpload (upload.go) and    *)
(* runDownload (download.go), which are built alike.  The transfer of one  *)
(* file is a single step here; its inside is the module UploadFile or      *)
(* DownloadFile.                                                           *)
(***************************************************************************)
EXTENDS Naturals, FiniteSets

CONSTANTS Files, Workers, None

\* fileConcurrency == min(3, len(plan.files))
PoolAssumption ==
  /\ IsFiniteSet(Files) /\ IsFiniteSet(Workers) /\ None \notin Files
  /\ Cardinality(Workers) <= 3 /\ Cardinality(Workers) <= Cardinality(Files)
  /\ Files # {} => Workers # {}

VARIABLES
  queued,     \* files the dispatcher still has
  dispatch,   \* the runner: planning, sending, waiting (entries is closed), over
  worker,     \* where each worker is
  file,       \* the entry a worker has received
  done,       \* files that have been transferred
  slot,       \* errorsChannel, which holds one error
  stopped,    \* transferContext is done
  cancelled,  \* the job's context is done
  result      \* the state the job ends in, or "none"

vars == <<queued, dispatch, worker, file, done, slot, stopped, cancelled, result>>

TypeOK ==
  /\ queued \subseteq Files /\ done \subseteq Files \ queued
  /\ dispatch \in {"planning", "sending", "waiting", "over"}
  /\ worker \in [Workers -> {"none", "receiving", "received", "busy", "failed",
                          "stopping", "gone"}]
  /\ file \in [Workers -> Files \cup {None}]
  /\ \A w \in Workers : file[w] # None <=> worker[w] \in {"received", "busy"}
  /\ slot \in {"empty", "error"}
  /\ stopped \in BOOLEAN /\ cancelled \in BOOLEAN /\ (cancelled => stopped)
  /\ result \in {"none", "completed", "failed", "cancelled"}

Init ==
  /\ queued = Files /\ dispatch = "planning"
  /\ worker = [w \in Workers |-> "none"]
  /\ file = [w \in Workers |-> None]
  /\ done = {} /\ slot = "empty"
  /\ stopped = FALSE /\ cancelled = FALSE /\ result = "none"

Goto(w, place) == worker' = [worker EXCEPT ![w] = place]
Drop(w) == file' = [file EXCEPT ![w] = None]

-----------------------------------------------------------------------------
(* The dispatch loop                                                       *)

\* The plan is made; the workers are started before the first file is sent.
StartWorkers ==
  /\ dispatch = "planning"
  /\ dispatch' = "sending"
  /\ worker' = [w \in Workers |-> "receiving"]
  /\ UNCHANGED <<queued, file, done, slot, stopped, cancelled, result>>

\* entries has no buffer: sender and receiver meet.
HandOver(w, f) ==
  /\ dispatch = "sending" /\ f \in queued
  /\ worker[w] = "receiving"
  /\ queued' = queued \ {f}
  /\ file' = [file EXCEPT ![w] = f]
  /\ Goto(w, "received")
  /\ UNCHANGED <<dispatch, done, slot, stopped, cancelled, result>>

\* All sent, or transferContext is done; then close(entries).
CloseEntries ==
  /\ dispatch = "sending"
  /\ queued = {} \/ stopped
  /\ dispatch' = "waiting"
  /\ UNCHANGED <<queued, worker, file, done, slot, stopped, cancelled, result>>

\* A bug: a cancelled job without an error counts as completed.
ConcludeByErrorOnly ==
  /\ dispatch = "waiting"
  /\ \A w \in Workers : worker[w] = "gone"
  /\ result' = IF slot = "error" THEN "failed" ELSE "completed"
  /\ dispatch' = "over"
  /\ UNCHANGED <<queued, worker, file, done, slot, stopped, cancelled>>

\* After workers.Wait: the error first, then the job's context.
Conclude ==
  /\ dispatch = "waiting"
  /\ \A w \in Workers : worker[w] = "gone"
  /\ result' = IF cancelled THEN "cancelled"
               ELSE IF slot = "error" THEN "failed" ELSE "completed"
  /\ dispatch' = "over"
  /\ UNCHANGED <<queued, worker, file, done, slot, stopped, cancelled>>

-----------------------------------------------------------------------------
(* A worker                                                                *)

\* With the context done the worker returns, and its entry with it.
CheckContext(w) ==
  /\ worker[w] = "received"
  /\ IF stopped
     THEN Goto(w, "gone") /\ Drop(w)
     ELSE Goto(w, "busy") /\ UNCHANGED file
  /\ UNCHANGED <<queued, dispatch, done, slot, stopped, cancelled, result>>

Transferred(w) ==
  /\ worker[w] = "busy"
  /\ done' = done \cup {file[w]}
  /\ Goto(w, "receiving") /\ Drop(w)
  /\ UNCHANGED <<queued, dispatch, slot, stopped, cancelled, result>>

\* The transfer of the file ends with an error, its own or the context's.
TransferFails(w) ==
  /\ worker[w] = "busy"
  /\ Goto(w, "failed") /\ Drop(w)
  /\ UNCHANGED <<queued, dispatch, done, slot, stopped, cancelled, result>>

\* The first error is kept, later ones are dropped without waiting.
ReportError(w) ==
  /\ worker[w] = "failed"
  /\ IF slot = "empty" THEN Goto(w, "stopping") ELSE Goto(w, "gone")
  /\ slot' = "error"
  /\ UNCHANGED <<queued, dispatch, file, done, stopped, cancelled, result>>

StopTransfers(w) ==
  /\ worker[w] = "stopping"
  /\ stopped' = TRUE
  /\ Goto(w, "gone")
  /\ UNCHANGED <<queued, dispatch, file, done, slot, cancelled, result>>

EntriesClosed(w) ==
  /\ worker[w] = "receiving" /\ dispatch = "waiting"
  /\ Goto(w, "gone")
  /\ UNCHANGED <<queued, dispatch, file, done, slot, stopped, cancelled, result>>

\* A bug: transferContext does not descend from the job's context.
CancelJobOnly ==
  /\ ~cancelled /\ result = "none"
  /\ cancelled' = TRUE
  /\ UNCHANGED <<queued, dispatch, worker, file, done, slot, stopped, result>>

\* CancelUpload, a disconnect or the end of the program.
Cancel ==
  /\ ~cancelled /\ result = "none"
  /\ cancelled' = TRUE /\ stopped' = TRUE
  /\ UNCHANGED <<queued, dispatch, worker, file, done, slot, result>>

-----------------------------------------------------------------------------
WorkerStep(w) ==
  \/ CheckContext(w) \/ Transferred(w) \/ TransferFails(w)
  \/ ReportError(w) \/ StopTransfers(w) \/ EntriesClosed(w)

Next ==
  \/ \E w \in Workers, f \in Files : HandOver(w, f)
  \/ StartWorkers \/ CloseEntries \/ Conclude \/ Cancel
  \/ \E w \in Workers : WorkerStep(w)

Spec == Init /\ [][Next]_vars

\* Goroutines run, and the transfer of a file ends (UploadFile!AttemptEnds).
Fairness ==
  /\ WF_vars(CloseEntries) /\ WF_vars(Conclude)
  /\ WF_vars(\E w \in Workers, f \in Files : HandOver(w, f))
  /\ \A w \in Workers : WF_vars(WorkerStep(w))

LiveSpec == Spec /\ Fairness

-----------------------------------------------------------------------------
(* Properties                                                              *)

\* A job is reported as completed only when every file of its plan is: an
\* entry dropped by a worker that saw the context end is never lost silently.
CompletedMeansAll == result = "completed" => done = Files

\* Runner and workers never wait for each other for ever, and the job ends: not when all workers
\* have left on errors while the dispatcher still has files, not when several
\* of them have an error and the channel holds one.
JobConcludes == []<>(dispatch = "sending" => result # "none")
=============================================================================
