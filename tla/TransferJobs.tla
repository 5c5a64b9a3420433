---------------------------- MODULE TransferJobs ----------------------------
(***************************************************************************)
(* The uploads and downloads of ONE profile and the disconnect that ends   *)
(* them: StartUpload, runUpload, finishUpload, expireUpload of             *)
(* internal/sshclient/upload.go, their twins in download.go, and           *)
(* CloseProfile with waitProfileTransfers of manager.go.  The connection   *)
(* itself is the module SshRuntime; here whoever looks at it finds it, or  *)
(* does not.                                                               *)
(*                                                                         *)
(* Every job transfers over an SSH transport of its own (newSFTPClient),   *)
(* so it does not die with the shared connection.                          *)
(***************************************************************************)
EXTENDS FiniteSets

CONSTANTS Uploads, Downloads  \* identities of jobs

Jobs == Uploads \cup Downloads

ASSUME JobsAssumption == Uploads \cap Downloads = {}

VARIABLES
  state,      \* progress.State; "none": not in the table
  ended,      \* jobs whose context is done
  place,      \* where the job's goroutine, or the call that starts it, is
  transport,  \* jobs whose SSH transport is open
  teardown    \* CloseProfile's place

vars == <<state, ended, place, transport, teardown>>

Active == {"queued", "scanning", "running"}
Final == {"completed", "failed", "cancelled"}
\* A job that has looked at its context for the last time is at what it will report.
Places == {"none", "starting", "begin", "plan", "look", "dial", "transfer", "close"} \cup Final
Teardowns == {"idle", "uploads", "downloads", "wait", "cut"}

ActiveJobs == {j \in Jobs : state[j] \in Active}
SameKind(j) == IF j \in Uploads THEN Uploads ELSE Downloads

TypeOK ==
  /\ state \in [Jobs -> Active \cup Final \cup {"none"}]
  /\ ended \subseteq Jobs
  /\ place \in [Jobs -> Places]
  /\ transport \subseteq Jobs
  /\ teardown \in Teardowns
  /\ \A j \in Jobs : place[j] = "close" => state[j] \in Final

Init ==
  /\ state = [j \in Jobs |-> "none"]
  /\ ended = {}
  /\ place = [j \in Jobs |-> "none"]
  /\ transport = {}
  /\ teardown = "idle"

-----------------------------------------------------------------------------
(* Starting                                                                *)

\* The first part of StartUpload has found a connection; without one it returns.
BeginStart(j) ==
  /\ place[j] = "none" /\ state[j] = "none"
  /\ place' = [place EXCEPT ![j] = "starting"]
  /\ UNCHANGED <<state, ended, transport, teardown>>

Enter(j) ==
  /\ state' = [state EXCEPT ![j] = "queued"]
  /\ place' = [place EXCEPT ![j] = "begin"]

\* The second part, under uploadMu: one active job of a kind, or UPLOAD_BUSY.
Register(j) ==
  /\ place[j] = "starting"
  /\ IF ActiveJobs \cap SameKind(j) # {}
     THEN place' = [place EXCEPT ![j] = "none"] /\ UNCHANGED state
     ELSE Enter(j)
  /\ UNCHANGED <<ended, transport, teardown>>

-----------------------------------------------------------------------------
(* The job's goroutine                                                     *)

\* finishUpload looks at the context: whatever went wrong, a job that was cancelled
\* before is going to be reported as cancelled.
Finish(j) ==
  /\ place' = [place EXCEPT ![j] = IF j \in ended THEN "cancelled" ELSE "failed"]
  /\ UNCHANGED <<state, ended, transport, teardown>>

\* updateUpload, after which the context ends.  A cancel may come between the look and
\* this.  The transport is closed later, by the deferred closeSFTP.
Report(j) ==
  /\ place[j] \in Final
  /\ state' = [state EXCEPT ![j] = place[j]]
  /\ ended' = ended \cup {j}
  /\ place' = [place EXCEPT ![j] = "close"]
  /\ UNCHANGED <<transport, teardown>>

\* An upload reads the local tree before it looks at the connection, a
\* download asks the server for the tree over its transport.
BeginJob(j) ==
  /\ place[j] = "begin"
  /\ state' = [state EXCEPT ![j] = "scanning"]
  /\ place' = [place EXCEPT ![j] = IF j \in Uploads THEN "plan" ELSE "look"]
  /\ UNCHANGED <<ended, transport, teardown>>

PlanUpload(j) ==
  /\ place[j] = "plan"
  /\ state' = [state EXCEPT ![j] = "running"]
  /\ place' = [place EXCEPT ![j] = "look"]
  /\ UNCHANGED <<ended, transport, teardown>>

LookAtClient(j) ==
  /\ place[j] = "look"
  /\ place' = [place EXCEPT ![j] = "dial"]
  /\ UNCHANGED <<state, ended, transport, teardown>>

NoClient(j) ==
  /\ place[j] = "look"
  /\ Finish(j)

\* newSFTPClient brings up tunnel and transport anew, whatever has become of
\* the client that was looked at.
DialSucceeds(j) ==
  /\ place[j] = "dial" /\ j \notin ended
  /\ transport' = transport \cup {j}
  /\ place' = [place EXCEPT ![j] = "transfer"]
  /\ UNCHANGED <<state, ended, teardown>>

PlanDownload(j) ==
  /\ place[j] = "transfer" /\ state[j] = "scanning"
  /\ state' = [state EXCEPT ![j] = "running"]
  /\ UNCHANGED <<ended, place, transport, teardown>>

\* The local tree, the dial, the remote side or the local disk fail; or the
\* context is found done.
JobFails(j) ==
  /\ place[j] \in {"plan", "dial", "transfer"}
  /\ Finish(j)

\* All files are through, and the context is looked at once more.
JobCompletes(j) ==
  /\ place[j] = "transfer" /\ state[j] = "running"
  /\ j \notin ended
  /\ place' = [place EXCEPT ![j] = "completed"]
  /\ UNCHANGED <<state, ended, transport, teardown>>

\* watchTransfer: the context is done, or 60 s went by without a byte.
WatchTransfer(j) ==
  /\ j \in transport
  /\ transport' = transport \ {j}
  /\ UNCHANGED <<state, ended, place, teardown>>

\* A bug: the transport outlives its job.
CloseNothing(j) ==
  /\ place[j] = "close"
  /\ place' = [place EXCEPT ![j] = "none"]
  /\ UNCHANGED <<state, ended, transport, teardown>>

CloseSFTP(j) ==
  /\ place[j] = "close"
  /\ transport' = transport \ {j}
  /\ place' = [place EXCEPT ![j] = "none"]
  /\ UNCHANGED <<state, ended, teardown>>

\* Half an hour after the end the entry goes, and its context with it.
Expire(j) ==
  /\ place[j] = "none" /\ state[j] \in Final
  /\ state' = [state EXCEPT ![j] = "none"]
  /\ ended' = ended \ {j}
  /\ UNCHANGED <<place, transport, teardown>>

-----------------------------------------------------------------------------
(* Cancelling, and CloseProfile                                            *)

\* CancelUpload and CancelDownload.
Cancel(j) ==
  /\ state[j] \in Active
  /\ ended' = ended \cup {j}
  /\ UNCHANGED <<state, place, transport, teardown>>

BeginTeardown ==
  /\ teardown = "idle"
  /\ teardown' = "uploads"
  /\ UNCHANGED <<state, ended, place, transport>>

\* CancelProfileUploads, then CancelProfileDownloads.  The cancellations that
\* follow the listing change nothing else, so they are one step with it.
CancelKind(kind, from, to) ==
  /\ teardown = from
  /\ ended' = ended \cup (ActiveJobs \cap kind)
  /\ teardown' = to
  /\ UNCHANGED <<state, place, transport>>

\* A bug: the downloads are forgotten.
CancelNoDownloads == CancelKind({}, "downloads", "wait")

CancelUploads == CancelKind(Uploads, "uploads", "downloads")
CancelDownloads == CancelKind(Downloads, "downloads", "wait")

\* waitProfileTransfers looks every 25 ms; after 3 s it gives up.
WaitTransfers ==
  /\ teardown = "wait"
  /\ teardown' = "cut"
  /\ UNCHANGED <<state, ended, place, transport>>

\* CloseProfileSessions and invalidateClient, of which the jobs notice nothing.
Cut ==
  /\ teardown = "cut"
  /\ teardown' = "idle"
  /\ UNCHANGED <<state, ended, place, transport>>

-----------------------------------------------------------------------------
JobStep(j) ==
  \/ Register(j) \/ BeginJob(j) \/ PlanUpload(j) \/ LookAtClient(j) \/ NoClient(j)
  \/ DialSucceeds(j) \/ PlanDownload(j) \/ JobFails(j) \/ JobCompletes(j)
  \/ Report(j) \/ CloseSFTP(j)

TeardownStep == CancelUploads \/ CancelDownloads \/ WaitTransfers \/ Cut

Next ==
  \/ \E j \in Jobs : BeginStart(j) \/ JobStep(j) \/ WatchTransfer(j) \/ Expire(j) \/ Cancel(j)
  \/ BeginTeardown \/ TeardownStep

Spec == Init /\ [][Next]_vars

\* Goroutines run; scans and dials are bounded.  A transfer may go on for as
\* long as bytes flow, but once its transport is closed its requests fail, and
\* watchTransfer closes it when the context is done.
Fairness ==
  /\ \A j \in Jobs :
       /\ WF_vars((place[j] = "transfer" => j \notin transport) /\ JobStep(j))
       /\ WF_vars(j \in ended /\ WatchTransfer(j))
  /\ WF_vars(TeardownStep)

LiveSpec == Spec /\ Fairness

-----------------------------------------------------------------------------
(* Properties                                                              *)

\* Every open transport and every active job has a goroutine that will end it: no
\* way out of runUpload or runDownload leaves a transport open, or a job that looks
\* active, which would answer UPLOAD_BUSY until the program is restarted.
JobsAttended ==
  \A j \in Jobs :
    /\ j \in transport => place[j] \in {"transfer", "close"} \cup Final
    /\ j \in ActiveJobs => place[j] \notin {"none", "starting", "close"}

\* A disconnect comes to its end, also while a transfer hangs, and a job that was
\* active when it began is over then or soon after, also if it did not react
\* within the 3 s.
TeardownEndsJobs ==
  /\ []<>(teardown = "idle")
  /\ \A j \in Jobs : teardown = "uploads" /\ state[j] \in Active ~> state[j] \notin Active
=============================================================================
