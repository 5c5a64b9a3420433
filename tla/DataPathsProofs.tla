---------------------------- MODULE DataPathsProofs ----------------------------
(***************************************************************************)
(* Theorems about the ways data takes, of any size and for any number of   *)
(* workers, attempts and versions.  Each part has an invariant of its own  *)
(* that its steps keep and the steps of the other parts do not touch.      *)
(***************************************************************************)
EXTENDS DataPathsMC, FiniteSetTheorems, SequenceTheorems, TLAPS

-----------------------------------------------------------------------------
(* The jobs                                                                *)

USE DEF Active, Final, Places, Teardowns

\* The places at which a job's goroutine works for a job that looks active.
Working == {"begin", "plan", "look", "dial", "transfer"} \cup Final

\* A goroutine works for exactly as long as its job looks active.
WorkingIsActive == \A j \in Jobs : place[j] \in Working <=> state[j] \in Active

\* At most one job of a kind is active: the others were told UPLOAD_BUSY.
OneOfAKind ==
  \A i, j \in Jobs : state[i] \in Active /\ state[j] \in Active /\ SameKind(i) = SameKind(j) => i = j

IInv == TypeOK /\ WorkingIsActive /\ OneOfAKind /\ JobsAttended

-----------------------------------------------------------------------------
\* A job that goes on keeps its transport and looks active as before.
LEMMA GoesOnKeepsInvariant ==
  ASSUME IInv, NEW j \in Jobs, place[j] \in Working,
         NEW to \in Working, NEW now \in Active,
         state' = [state EXCEPT ![j] = now], place' = [place EXCEPT ![j] = to],
         transport' \in {transport, transport \cup {j}},
         j \in transport' => to \in {"transfer"} \cup Final,
         UNCHANGED <<ended, teardown>>
  PROVE  IInv'
<1> USE DEF IInv, Working
<1>1. TypeOK'
  BY DEF TypeOK
<1>2. WorkingIsActive'
  BY DEF TypeOK, WorkingIsActive
<1>3. OneOfAKind'
  BY DEF TypeOK, OneOfAKind, WorkingIsActive
<1>4. JobsAttended'
  BY DEF TypeOK, JobsAttended, ActiveJobs, WorkingIsActive
<1> QED
  BY <1>1, <1>2, <1>3, <1>4

\* StartUpload under uploadMu: the only step that makes a job active.
LEMMA RegisterKeepsInvariant ==
  ASSUME IInv, NEW j \in Jobs, Register(j)
  PROVE  IInv'
<1> USE DEF IInv, Register
<1>1. CASE ActiveJobs \cap SameKind(j) # {}
  BY <1>1 DEF TypeOK, WorkingIsActive, OneOfAKind, JobsAttended, ActiveJobs, Working
<1>2. CASE ActiveJobs \cap SameKind(j) = {}
  <2> USE <1>2 DEF Enter
  <2>1. TypeOK'
    BY DEF TypeOK
  <2>2. WorkingIsActive'
    BY DEF TypeOK, WorkingIsActive, Working
  <2>3. ASSUME NEW i \in Jobs \ {j}, state[i] \in Active PROVE SameKind(i) # SameKind(j)
    BY <2>3 DEF ActiveJobs, SameKind, Jobs
  <2>4. OneOfAKind'
    BY <2>3 DEF TypeOK, OneOfAKind
  <2>5. JobsAttended'
    BY DEF TypeOK, JobsAttended, ActiveJobs
  <2> QED
    BY <2>1, <2>2, <2>4, <2>5
<1> QED
  BY <1>1, <1>2

LEMMA JobStepKeepsInvariant ==
  ASSUME IInv, NEW j \in Jobs,
         BeginStart(j) \/ JobStep(j) \/ WatchTransfer(j) \/ Expire(j) \/ Cancel(j)
  PROVE  IInv'
<1> USE DEF IInv, Working
<1>1. CASE Register(j)
  BY <1>1, RegisterKeepsInvariant
<1>2. CASE BeginJob(j)
  BY <1>2, GoesOnKeepsInvariant DEF BeginJob, TypeOK, JobsAttended
<1>3. CASE PlanUpload(j)
  BY <1>3, GoesOnKeepsInvariant DEF PlanUpload, TypeOK, JobsAttended
<1>4. CASE LookAtClient(j)
  <2>1. /\ place[j] = "look" /\ state[j] \in Active /\ j \notin transport
        /\ state' = [state EXCEPT ![j] = state[j]] /\ place' = [place EXCEPT ![j] = "dial"]
        /\ UNCHANGED <<ended, transport, teardown>>
    BY <1>4 DEF LookAtClient, TypeOK, JobsAttended, WorkingIsActive
  <2> QED
    BY <2>1, GoesOnKeepsInvariant
<1>5. CASE NoClient(j) \/ JobFails(j) \/ JobCompletes(j)
  <2>1. PICK to \in Final : /\ place' = [place EXCEPT ![j] = to]
                            /\ UNCHANGED <<state, ended, transport, teardown>>
    BY <1>5 DEF NoClient, JobFails, JobCompletes, Finish
  <2>2. /\ place[j] \in Working /\ state[j] \in Active
        /\ state' = [state EXCEPT ![j] = state[j]] /\ to \in Working
    BY <1>5, <2>1 DEF NoClient, JobFails, JobCompletes, TypeOK, WorkingIsActive
  <2> HIDE DEF Working, IInv, Active, Final
  <2> QED
    BY <2>1, <2>2, GoesOnKeepsInvariant
<1>6. CASE DialSucceeds(j)
  <2>1. /\ place[j] = "dial" /\ state[j] \in Active /\ transport' = transport \cup {j}
        /\ state' = [state EXCEPT ![j] = state[j]] /\ place' = [place EXCEPT ![j] = "transfer"]
        /\ UNCHANGED <<ended, teardown>>
    BY <1>6 DEF DialSucceeds, TypeOK, WorkingIsActive
  <2> QED
    BY <2>1, GoesOnKeepsInvariant
<1>7. CASE PlanDownload(j)
  <2>1. /\ place[j] = "transfer" /\ place' = [place EXCEPT ![j] = "transfer"]
        /\ state' = [state EXCEPT ![j] = "running"]
        /\ UNCHANGED <<ended, transport, teardown>>
    BY <1>7 DEF PlanDownload, TypeOK
  <2> QED
    BY <2>1, GoesOnKeepsInvariant
<1>8. CASE Report(j)
  BY <1>8 DEF Report, TypeOK, WorkingIsActive, OneOfAKind, JobsAttended, ActiveJobs
<1>9. CASE BeginStart(j) \/ WatchTransfer(j) \/ Expire(j) \/ Cancel(j)
  BY <1>9
  DEF BeginStart, WatchTransfer, Expire, Cancel, TypeOK, WorkingIsActive, OneOfAKind,
      JobsAttended, ActiveJobs
<1>10. CASE CloseSFTP(j)
  BY <1>10 DEF CloseSFTP, TypeOK, WorkingIsActive, OneOfAKind, JobsAttended, ActiveJobs
<1> QED
  BY <1>1, <1>2, <1>3, <1>4, <1>5, <1>6, <1>7, <1>8, <1>9, <1>10 DEF JobStep

\* A disconnect only ends contexts.
LEMMA TeardownKeepsInvariant ==
  ASSUME IInv, BeginTeardown \/ TeardownStep \/ UNCHANGED vars
  PROVE  IInv'
<1>1. UNCHANGED <<state, place, transport>>
  BY DEF BeginTeardown, TeardownStep, CancelUploads, CancelDownloads, CancelKind, WaitTransfers,
         Cut, vars
<1>2. TypeOK'
  BY <1>1
  DEF IInv, TypeOK, ActiveJobs, BeginTeardown, TeardownStep, CancelUploads, CancelDownloads,
      CancelKind, WaitTransfers, Cut, vars
<1> QED
  BY <1>1, <1>2 DEF IInv, WorkingIsActive, OneOfAKind, JobsAttended, ActiveJobs

LEMMA InductiveInvariant == Spec => []IInv
<1>1. Init => IInv
  BY DEF Init, IInv, TypeOK, WorkingIsActive, Working, OneOfAKind, JobsAttended, ActiveJobs
<1>2. IInv /\ [Next]_vars => IInv'
  BY JobStepKeepsInvariant, TeardownKeepsInvariant DEF Next
<1> QED
  BY <1>1, <1>2, PTL DEF Spec

\* Every open transport and every job that looks active has a goroutine that
\* will end it: no way out of runUpload or runDownload leaves one behind
\* (upload.go:250).
THEOREM JobsAreAttended == Spec => []JobsAttended
BY InductiveInvariant, PTL DEF IInv

\* However calls, jobs and disconnects interleave, at most one upload and one
\* download of a profile are active (upload.go:142).
THEOREM OneJobOfAKind == Spec => []OneOfAKind
BY InductiveInvariant, PTL DEF IInv

\* The cancel of an active job stays, and the job says "cancelled" in the end, unless it had
\* looked at its context for the last time before.
CancelSticks ==
  \A j \in Jobs :
    state[j] \in Active /\ j \in ended /\ place[j] \notin {"completed", "failed"} =>
      \/ state'[j] \in Active /\ j \in ended' /\ place'[j] \notin {"completed", "failed"}
      \/ state'[j] = "cancelled"

LEMMA StepHonoursCancel == IInv /\ [Next]_vars => CancelSticks
<1> SUFFICES ASSUME IInv, [Next]_vars, NEW j \in Jobs, state[j] \in Active, j \in ended,
                    place[j] \notin {"completed", "failed"}
             PROVE  \/ /\ state'[j] \in Active /\ j \in ended'
                       /\ place'[j] \notin {"completed", "failed"}
                    \/ state'[j] = "cancelled"
  BY DEF CancelSticks
<1>1. TypeOK /\ place[j] \in Working
  BY DEF IInv, WorkingIsActive
<1>2. ASSUME NEW i \in Jobs,
             BeginStart(i) \/ JobStep(i) \/ WatchTransfer(i) \/ Expire(i) \/ Cancel(i)
      PROVE  \/ /\ state'[j] \in Active /\ j \in ended'
                /\ place'[j] \notin {"completed", "failed"}
             \/ state'[j] = "cancelled"
  <2>1. CASE i # j
    BY <1>1, <1>2, <2>1
    DEF TypeOK, BeginStart, JobStep, WatchTransfer, Expire, Cancel, Register, Enter, BeginJob,
        PlanUpload, LookAtClient, NoClient, DialSucceeds, PlanDownload, JobFails, Finish,
        JobCompletes, Report, CloseSFTP
  <2>2. CASE i = j
    BY <1>1, <1>2, <2>2
    DEF TypeOK, Working, BeginStart, JobStep, WatchTransfer, Expire, Cancel, Register, BeginJob,
        PlanUpload, LookAtClient, NoClient, DialSucceeds, PlanDownload, JobFails, Finish,
        JobCompletes, Report, CloseSFTP
  <2> QED
    BY <2>1, <2>2
<1>3. CASE UNCHANGED <<state, place, transport>> /\ ended \subseteq ended'
  BY <1>3
<1> QED
  BY <1>2, <1>3
  DEF Next, BeginTeardown, TeardownStep, CancelUploads, CancelDownloads, CancelKind,
      WaitTransfers, Cut, vars

\* An active job that a user or a disconnect cancelled before it looked at its context for
\* the last time does not come back: it never completes after that, does not report another
\* failure, and its cancel is not forgotten before it has ended (upload.go:380, :393).
THEOREM CancelIsHonoured == Spec => [][CancelSticks]_vars
BY InductiveInvariant, StepHonoursCancel, PTL DEF Spec

HIDE DEF Active, Final, Places, Teardowns

-----------------------------------------------------------------------------
(* The worker pool                                                         *)

\* A file that the dispatcher no longer has, and that is not transferred, is
\* with a worker, or there is a reason why the job cannot be completed.
FilesAccounted ==
  \A f \in Files :
    \/ f \in queued \cup done
    \/ \E w \in Workers : file[w] = f
    \/ stopped \/ slot = "error" \/ \E w \in Workers : worker[w] = "failed"

\* The context ends by a cancel, or by an error that was kept.
StopHasReason ==
  /\ stopped => cancelled \/ slot = "error"
  /\ \A w \in Workers : worker[w] = "stopping" => slot = "error"

ClosedIsSent == dispatch \in {"waiting", "over"} => queued = {} \/ stopped

NoneWorkYet == dispatch = "planning" => \A w \in Workers : worker[w] = "none"

HeldIsNotQueued == \A w \in Workers : file[w] \notin queued

PoolInv ==
  /\ Pool!TypeOK /\ HeldIsNotQueued /\ FilesAccounted /\ StopHasReason /\ ClosedIsSent
  /\ NoneWorkYet
  /\ Pool!CompletedMeansAll

LEMMA PoolInit == DataAssumption /\ Pool!Init => PoolInv
BY DEF DataAssumption, Pool!PoolAssumption, Pool!Init, PoolInv, Pool!TypeOK, HeldIsNotQueued,
       FilesAccounted, StopHasReason, ClosedIsSent, NoneWorkYet, Pool!CompletedMeansAll

LEMMA PoolStutters == PoolInv /\ UNCHANGED poolVars => PoolInv'
BY DEF PoolInv, poolVars, Pool!TypeOK, HeldIsNotQueued, FilesAccounted, StopHasReason, ClosedIsSent, NoneWorkYet,
       Pool!CompletedMeansAll

LEMMA PoolStep == DataAssumption /\ PoolInv /\ Pool!Next => PoolInv'
<1> SUFFICES ASSUME DataAssumption, PoolInv, Pool!Next PROVE PoolInv'
  OBVIOUS
<1> None \notin Files
  BY DEF DataAssumption, Pool!PoolAssumption
<1> USE DEF PoolInv, Pool!TypeOK, HeldIsNotQueued, FilesAccounted, StopHasReason, ClosedIsSent, NoneWorkYet,
            Pool!CompletedMeansAll, Pool!Goto, Pool!Drop
<1>1. ASSUME NEW w \in Workers, NEW f \in Files, Pool!HandOver(w, f) PROVE PoolInv'
  <2> USE <1>1 DEF Pool!HandOver
  <2>1. Pool!TypeOK' /\ HeldIsNotQueued'
    OBVIOUS
  <2>2. file'[w] = f /\ \A v \in Workers : v # w => file'[v] = file[v] /\ worker'[v] = worker[v]
    OBVIOUS
  <2>3. file[w] = None
    OBVIOUS
  <2>4. FilesAccounted'
    BY <2>2, <2>3
  <2>5. worker'[w] = "received" /\ UNCHANGED <<stopped, cancelled, slot, dispatch, result, done>>
    OBVIOUS
  <2>6. StopHasReason'
    BY <2>2, <2>5
  <2>7. ClosedIsSent' /\ NoneWorkYet' /\ Pool!CompletedMeansAll'
    BY <2>5
  <2> QED
    BY <2>1, <2>4, <2>6, <2>7
<1>2. CASE Pool!StartWorkers
  BY <1>2 DEF Pool!StartWorkers
<1>3. CASE Pool!CloseEntries
  BY <1>3 DEF Pool!CloseEntries
<1>4. CASE Pool!Conclude
  BY <1>4 DEF Pool!Conclude
<1>5. CASE Pool!Cancel
  BY <1>5 DEF Pool!Cancel
<1>6. ASSUME NEW w \in Workers, Pool!WorkerStep(w) PROVE PoolInv'
  <2>1. CASE Pool!CheckContext(w)
    BY <2>1 DEF Pool!CheckContext
  <2>2. CASE Pool!Transferred(w)
    BY <2>2 DEF Pool!Transferred
  <2>3. CASE Pool!TransferFails(w)
    BY <2>3 DEF Pool!TransferFails
  <2>4. CASE Pool!ReportError(w)
    BY <2>4 DEF Pool!ReportError
  <2>5. CASE Pool!StopTransfers(w)
    BY <2>5 DEF Pool!StopTransfers
  <2>6. CASE Pool!EntriesClosed(w)
    BY <2>6 DEF Pool!EntriesClosed
  <2> QED
    BY <1>6, <2>1, <2>2, <2>3, <2>4, <2>5, <2>6 DEF Pool!WorkerStep
<1> QED
  BY <1>1, <1>2, <1>3, <1>4, <1>5, <1>6 DEF Pool!Next

LEMMA PoolInvariant == MCSpec => []PoolInv
<1>1. MCInit => PoolInv
  BY PoolInit, DataAssumption DEF MCInit
<1>2. PoolInv /\ [MCNext]_allVars => PoolInv'
  <2> SUFFICES ASSUME PoolInv, [MCNext]_allVars PROVE PoolInv'
    OBVIOUS
  <2>1. Pool!Next \/ UNCHANGED poolVars
    BY DEF MCNext, Only, allVars
  <2> QED
    BY <2>1, PoolStep, PoolStutters, DataAssumption
<1> QED
  BY <1>1, <1>2, PTL DEF MCSpec

\* "completed" is said of all files of the plan: an entry that a worker dropped
\* because the context had ended is never lost silently, whatever the number
\* of files (upload.go:330, download.go:299).
THEOREM CompletedJobsAreWhole == MCSpec => []CompletedMeansAll
<1>1. PoolInv => CompletedMeansAll
  BY DEF PoolInv, CompletedMeansAll
<1> QED
  BY <1>1, PoolInvariant, PTL

\* A worker that has left before the end saw an error that was kept, or the context's end;
\* and who kept an error goes on to end the context.
LeavingHasReason ==
  /\ dispatch = "sending" =>
       \A w \in Workers : worker[w] # "none" /\ (worker[w] = "gone" => stopped \/ slot = "error")
  /\ slot = "error" => stopped \/ \E w \in Workers : worker[w] = "stopping"

\* A dispatcher with files left has somebody to wait for.
DispatcherIsServed ==
  dispatch = "sending" /\ queued # {} /\ ~stopped =>
    \E w \in Workers : worker[w] \notin {"none", "gone"}

LEMMA LeavingStep ==
  ASSUME PoolInv, LeavingHasReason, Pool!Next \/ UNCHANGED poolVars
  PROVE  LeavingHasReason'
<1> USE DEF LeavingHasReason, Pool!Goto, Pool!Drop
<1>1. Pool!TypeOK /\ NoneWorkYet
  BY DEF PoolInv
<1>2. ASSUME NEW w \in Workers, NEW f \in Files, Pool!HandOver(w, f) PROVE LeavingHasReason'
  BY <1>1, <1>2 DEF Pool!HandOver, Pool!TypeOK
<1>3. CASE Pool!StartWorkers
  BY <1>1, <1>3 DEF Pool!StartWorkers, NoneWorkYet
<1>4. CASE Pool!CloseEntries \/ Pool!Conclude \/ Pool!Cancel \/ UNCHANGED poolVars
  BY <1>4 DEF Pool!CloseEntries, Pool!Conclude, Pool!Cancel, poolVars
<1>5. ASSUME NEW w \in Workers, Pool!WorkerStep(w) PROVE LeavingHasReason'
  <2>1. CASE Pool!ReportError(w)
    BY <1>1, <2>1 DEF Pool!ReportError, Pool!TypeOK
  <2>2. CASE Pool!StopTransfers(w)
    BY <1>1, <2>2 DEF Pool!StopTransfers, Pool!TypeOK
  <2>3. CASE Pool!CheckContext(w) \/ Pool!Transferred(w) \/ Pool!TransferFails(w)
             \/ Pool!EntriesClosed(w)
    <3>1. /\ UNCHANGED <<dispatch, slot, stopped>>
          /\ worker[w] \notin {"none", "stopping"} /\ worker'[w] # "none"
          /\ \A v \in Workers : v # w => worker'[v] = worker[v]
          /\ worker'[w] = "gone" => stopped \/ dispatch = "waiting"
      BY <1>1, <2>3 DEF Pool!CheckContext, Pool!Transferred, Pool!TransferFails,
                        Pool!EntriesClosed, Pool!TypeOK
    <3> QED
      BY <3>1
  <2> QED
    BY <1>5, <2>1, <2>2, <2>3 DEF Pool!WorkerStep
<1> QED
  BY <1>2, <1>3, <1>4, <1>5 DEF Pool!Next

\* The dispatcher is never left alone with files nobody will take: of the workers that leave
\* on errors, one ends the context, which the dispatcher looks at too (upload.go:347, :364).
THEOREM FilesFindWorkers == MCSpec => []DispatcherIsServed
<1>1. MCInit => LeavingHasReason
  BY DEF MCInit, Pool!Init, LeavingHasReason
<1>2. PoolInv /\ LeavingHasReason /\ [MCNext]_allVars => LeavingHasReason'
  <2> SUFFICES ASSUME PoolInv, LeavingHasReason, [MCNext]_allVars PROVE LeavingHasReason'
    OBVIOUS
  <2>1. Pool!Next \/ UNCHANGED poolVars
    BY DEF MCNext, Only, allVars
  <2> QED
    BY <2>1, LeavingStep
<1>3. PoolInv /\ LeavingHasReason => DispatcherIsServed
  <2> SUFFICES ASSUME PoolInv, LeavingHasReason, dispatch = "sending", queued # {}, ~stopped
               PROVE  \E w \in Workers : worker[w] \notin {"none", "gone"}
    BY DEF DispatcherIsServed
  <2>1. Workers # {}
    BY DataAssumption DEF DataAssumption, Pool!PoolAssumption, PoolInv, Pool!TypeOK
  <2> QED
    BY <2>1 DEF LeavingHasReason
<1> QED
  BY <1>1, <1>2, <1>3, PoolInvariant, PTL DEF MCSpec

-----------------------------------------------------------------------------
(* One file of a download                                                  *)

Held == Seq(Download!Versions)

\* What a part holds was read no earlier than the version it is named after,
\* and there is no part of a version that is still to come.
PartsInv ==
  \A v \in Download!Versions : parts[v] # Download!Nothing =>
    /\ v <= remote
    /\ parts[v] \in Held /\ Len(parts[v]) <= Size
    /\ \A i \in 1 .. Len(parts[v]) : parts[v][i] \in v .. remote

\* An attempt works on a part of its own version; once that was compared with
\* the server's, the whole part is of that version, whatever happens there.
AttemptInv ==
  /\ phase # "idle" => plan \in Download!Versions
  /\ phase = "verifying" => Len(parts[plan]) = Size
  /\ phase \in {"committing", "swapping"} => parts[plan] = [i \in 1 .. Size |-> plan]

\* Where the old file is during an attempt.
OldFileInv ==
  /\ phase \notin {"idle", "tidying"} => dest \in {Download!Nothing, Download!Old}
  /\ phase = "swapping" => backup = Download!Old
  /\ phase = "tidying" => dest \notin {Download!Nothing, Download!Old}

DownloadInv ==
  /\ Download!TypeOK /\ PartsInv /\ AttemptInv /\ OldFileInv
  /\ Download!CommittedIsOneVersion /\ Download!OldIsNeverLost

\* Contents are the sequences of versions that are not longer than the file.
LEMMA ContentsAreShort ==
  ASSUME DataAssumption
  PROVE  \A c : c \in Download!Contents <=> c \in Held /\ Len(c) <= Size
<1> Size \in Nat
  BY DEF DataAssumption, Download!DownloadAssumption
<1>1. ASSUME NEW c \in Download!Contents PROVE c \in Held /\ Len(c) <= Size
  BY DEF Download!Contents, Held
<1>2. ASSUME NEW c \in Held, Len(c) <= Size PROVE c \in Download!Contents
  <2>1. c \in [1 .. Len(c) -> Download!Versions] /\ Len(c) \in 0 .. Size
    BY <1>2 DEF Held
  <2> QED
    BY <2>1 DEF Download!Contents
<1> QED
  BY <1>1, <1>2

\* No contents are taken for one of the two marks.
LEMMA MarksAreNoContents ==
  ASSUME DataAssumption, NEW c \in Held PROVE c \notin {Download!Nothing, Download!Old}
<1> MaxVersions \in Nat
  BY DEF DataAssumption, Download!DownloadAssumption
<1>1. Len(c) > 0 => c[1] # 0
  BY DEF Held, Download!Versions
<1>2. Len(<<0>>) = 1 /\ <<0>>[1] = 0 /\ Len(<<0, 0>>) = 2 /\ <<0, 0>>[1] = 0
  OBVIOUS
<1> QED
  BY <1>1, <1>2 DEF Download!Nothing, Download!Old

LEMMA DownloadInit == DataAssumption /\ Download!Init => DownloadInv
<1> SUFFICES ASSUME DataAssumption, Download!Init PROVE DownloadInv
  OBVIOUS
<1> {Size, MaxVersions, MaxAttempts} \subseteq Nat \ {0}
  BY DEF DataAssumption, Download!DownloadAssumption
<1> USE DEF Download!Init
<1>1. Download!TypeOK
  <2>1. remote \in Download!Versions /\ plan \in 0 .. remote /\ attempts \in 0 .. MaxAttempts
    BY DEF Download!Versions
  <2>2. parts \in [Download!Versions -> Download!Contents \cup {Download!Nothing}]
    OBVIOUS
  <2> QED
    BY <2>1, <2>2 DEF Download!TypeOK, Download!Phases
<1>2. PartsInv /\ AttemptInv /\ OldFileInv
  BY DEF PartsInv, AttemptInv, OldFileInv
<1>3. Download!CommittedIsOneVersion /\ Download!OldIsNeverLost
  BY DEF Download!CommittedIsOneVersion, Download!OldIsNeverLost
<1> QED
  BY <1>1, <1>2, <1>3 DEF DownloadInv

LEMMA DownloadStutters == DownloadInv /\ UNCHANGED downloadVars => DownloadInv'
BY DEF DownloadInv, downloadVars, Download!TypeOK, PartsInv, AttemptInv, OldFileInv,
       Download!CommittedIsOneVersion, Download!OldIsNeverLost

\* A rename puts the part in place, which is one version.
LEMMA RenamePlacesOneVersion ==
  ASSUME DataAssumption, DownloadInv, phase \in {"committing", "swapping"}, Download!Rename
  PROVE  /\ dest' \in Held /\ dest' \in Download!Contents
         /\ dest' \notin {Download!Nothing, Download!Old}
         /\ Download!CommittedIsOneVersion'
         /\ parts' \in [Download!Versions -> Download!Contents \cup {Download!Nothing}]
<1> Size \in Nat
  BY DEF DataAssumption, Download!DownloadAssumption
<1>1. dest' = [i \in 1 .. Size |-> plan] /\ plan \in Download!Versions
  BY DEF DownloadInv, AttemptInv, Download!Rename
<1>2. dest' \in Held /\ Len(dest') = Size
  BY <1>1 DEF Held
<1>3. dest' \in Download!Contents
  BY <1>2, ContentsAreShort
<1>4. parts' \in [Download!Versions -> Download!Contents \cup {Download!Nothing}]
  BY DEF DownloadInv, Download!TypeOK, Download!Rename
<1> QED
  BY <1>1, <1>2, <1>3, <1>4, MarksAreNoContents DEF Download!CommittedIsOneVersion

\* Steps that write no part file and put no file in place.
LEMMA DiskKeepingStep ==
  ASSUME DataAssumption, DownloadInv,
         \/ Download!RemoteChanges \/ \E again \in BOOLEAN : Download!Begin(again)
         \/ Download!SyncAndClose \/ Download!SetAside \/ Download!SwapFails \/ Download!Tidy
         \/ Download!Fails \/ Download!Crash
  PROVE  DownloadInv'
<1> MaxVersions \in Nat /\ MaxAttempts \in Nat
  BY DEF DataAssumption, Download!DownloadAssumption
<1> USE DEF DownloadInv, Download!TypeOK, PartsInv, AttemptInv, OldFileInv, Download!disk,
            Download!CommittedIsOneVersion, Download!OldIsNeverLost, Download!Versions,
            Download!Phases
<1> parts' = parts
  BY DEF Download!RemoteChanges, Download!Begin, Download!SyncAndClose, Download!SetAside,
         Download!SwapFails, Download!Tidy, Download!Fails, Download!Crash
<1>1. CASE Download!RemoteChanges
  BY <1>1 DEF Download!RemoteChanges
<1>2. ASSUME NEW again \in BOOLEAN, Download!Begin(again) PROVE DownloadInv'
  BY <1>2 DEF Download!Begin
<1>3. CASE Download!SyncAndClose
  BY <1>3 DEF Download!SyncAndClose
<1>4. CASE Download!SetAside
  BY <1>4 DEF Download!SetAside
<1>5. CASE Download!SwapFails
  BY <1>5 DEF Download!SwapFails
<1>6. CASE Download!Tidy
  BY <1>6 DEF Download!Tidy
<1>7. CASE Download!Fails
  BY <1>7 DEF Download!Fails
<1>8. CASE Download!Crash
  BY <1>8 DEF Download!Crash
<1> QED
  BY <1>1, <1>2, <1>3, <1>4, <1>5, <1>6, <1>7, <1>8

\* Steps that write a part file.
LEMMA PartWritingStep ==
  ASSUME DataAssumption, DownloadInv,
         \/ Download!CleanStaleParts \/ Download!OpenPart \/ Download!Copy \/ Download!Verify
  PROVE  DownloadInv'
<1> Size \in Nat /\ MaxVersions \in Nat
  BY DEF DataAssumption, Download!DownloadAssumption
<1> USE DEF DownloadInv, AttemptInv, OldFileInv
<1> plan \in Download!Versions /\ plan <= remote
  BY DEF Download!CleanStaleParts, Download!OpenPart, Download!Copy, Download!Verify,
         Download!TypeOK
<1>1. CASE Download!CleanStaleParts
  BY <1>1 DEF Download!CleanStaleParts, Download!TypeOK, PartsInv, Download!Phases,
              Download!CommittedIsOneVersion, Download!OldIsNeverLost
<1>2. CASE Download!OpenPart
  <2> USE <1>2 DEF Download!OpenPart
  <2>1. <<>> \in Held /\ Len(<<>>) = 0 /\ <<>> \in Download!Contents
    <3> DEFINE none == <<>>
    <3>1. none \in Held /\ Len(none) = 0
      BY DEF Held
    <3> HIDE DEF none
    <3>2. none \in Download!Contents
      BY <3>1, ContentsAreShort
    <3> QED
      BY <3>1, <3>2 DEF none
  <2>2. parts'[plan] \in Download!Contents /\ parts'[plan] # Download!Nothing
    BY <2>1, MarksAreNoContents DEF Download!TypeOK
  <2>3. Download!TypeOK'
    BY <2>2 DEF Download!TypeOK, Download!Phases
  <2>4. PartsInv'
    BY <2>1 DEF PartsInv, Download!TypeOK
  <2> QED
    BY <2>3, <2>4 DEF Download!CommittedIsOneVersion, Download!OldIsNeverLost
<1>3. CASE Download!Copy
  <2> USE <1>3 DEF Download!Copy
  <2> DEFINE longer == Append(parts[plan], remote)
  <2>1. parts[plan] # Download!Nothing /\ remote \in Download!Versions
    BY DEF Download!TypeOK
  <2>2. /\ parts[plan] \in Held
        /\ \A i \in 1 .. Len(parts[plan]) : parts[plan][i] \in plan .. remote
    BY <2>1 DEF PartsInv
  <2>3. longer \in Held /\ Len(longer) <= Size
    BY <2>1, <2>2 DEF Held
  <2>4. ASSUME NEW i \in 1 .. Len(longer) PROVE longer[i] \in plan .. remote
    <3>1. (i \in 1 .. Len(parts[plan]) /\ longer[i] = parts[plan][i]) \/ longer[i] = remote
      BY <2>2 DEF Held
    <3> QED
      BY <3>1, <2>1, <2>2 DEF Download!Versions
  <2>5. longer \in Download!Contents /\ longer # Download!Nothing
    BY <2>3, ContentsAreShort, MarksAreNoContents
  <2>6. parts' = [parts EXCEPT ![plan] = longer]
    OBVIOUS
  <2> HIDE DEF longer
  <2>7. Download!TypeOK'
    BY <2>5, <2>6 DEF Download!TypeOK
  <2>8. PartsInv'
    BY <2>3, <2>4, <2>6 DEF PartsInv, Download!TypeOK
  <2> QED
    BY <2>7, <2>8 DEF Download!CommittedIsOneVersion, Download!OldIsNeverLost
<1>4. CASE Download!Verify
  <2> USE <1>4 DEF Download!Verify
  <2>1. Download!TypeOK'
    BY DEF Download!TypeOK, Download!Phases
  <2>2. PartsInv'
    BY DEF PartsInv, Download!TypeOK
  <2>3. ASSUME remote = plan PROVE parts[plan] = [i \in 1 .. Size |-> plan]
    <3>1. /\ parts[plan] \in Held /\ Len(parts[plan]) = Size
          /\ \A i \in 1 .. Len(parts[plan]) : parts[plan][i] \in plan .. plan
      BY <2>3 DEF PartsInv, Download!TypeOK
    <3> QED
      BY <3>1 DEF Held, Download!Versions
  <2>4. AttemptInv'
    BY <2>3
  <2> QED
    BY <2>1, <2>2, <2>4 DEF Download!CommittedIsOneVersion, Download!OldIsNeverLost
<1> QED
  BY <1>1, <1>2, <1>3, <1>4

LEMMA DownloadStep == DataAssumption /\ DownloadInv /\ Download!Next => DownloadInv'
<1> SUFFICES ASSUME DataAssumption, DownloadInv, Download!Next PROVE DownloadInv'
  OBVIOUS
<1>1. CASE Download!CommitFresh \/ Download!Swap
  <2>1. phase \in {"committing", "swapping"} /\ Download!Rename
    BY <1>1 DEF Download!CommitFresh, Download!Swap
  <2>2. /\ dest' \in Download!Contents /\ dest' \notin {Download!Nothing, Download!Old}
        /\ Download!CommittedIsOneVersion'
        /\ parts' \in [Download!Versions -> Download!Contents \cup {Download!Nothing}]
    BY <2>1, RenamePlacesOneVersion
  <2>3. phase' \in {"idle", "tidying"}
        /\ UNCHANGED <<overwrite, remote, plan, resume, backup, attempts>>
    BY <1>1 DEF Download!CommitFresh, Download!Swap
  <2>4. Download!TypeOK'
    BY <2>2, <2>3 DEF DownloadInv, Download!TypeOK, Download!Phases
  <2>5. PartsInv'
    BY <2>1, <2>3 DEF DownloadInv, Download!TypeOK, PartsInv, Download!Rename
  <2> QED
    BY <2>2, <2>3, <2>4, <2>5, <1>1
    DEF DownloadInv, AttemptInv, OldFileInv, Download!OldIsNeverLost, Download!CommitFresh,
        Download!Swap
<1> QED
  BY <1>1, DiskKeepingStep, PartWritingStep DEF Download!Next

LEMMA DownloadInvariant == MCSpec => []DownloadInv
<1>1. MCInit => DownloadInv
  BY DownloadInit, DataAssumption DEF MCInit
<1>2. DownloadInv /\ [MCNext]_allVars => DownloadInv'
  <2> SUFFICES ASSUME DownloadInv, [MCNext]_allVars PROVE DownloadInv'
    OBVIOUS
  <2>1. Download!Next \/ UNCHANGED downloadVars
    BY DEF MCNext, Only, allVars
  <2> QED
    BY <2>1, DownloadStep, DownloadStutters, DataAssumption
<1> QED
  BY <1>1, <1>2, PTL DEF MCSpec

\* Until the new file is in place the old one is on the disk, under its own name
\* or under that of the backup, wherever an attempt failed or the program was
\* killed (commitDownloadedFile, download.go:768).
THEOREM OldFileSurvives == MCSpec => []OldIsNeverLost
<1>1. DownloadInv => OldIsNeverLost
  BY DEF DownloadInv, OldIsNeverLost
<1> QED
  BY <1>1, DownloadInvariant, PTL

-----------------------------------------------------------------------------
(* The output of a terminal                                                *)

\* A stretch of the output: consecutive pieces, the first after the piece b.
Follows(seq, b) == seq \in Seq(Nat) /\ \A i \in 1 .. Len(seq) : seq[i] = b + i

\* The buffer holds the pieces after its start, and while it is open no piece
\* that was taken from the channel is missing at its end.
BufferInv ==
  /\ Follows(data, start)
  /\ ~closed => Output!End = taken

FinalOf(seq) == IF seq = <<>> THEN 0 ELSE seq[Len(seq)]
Latest == FinalOf(received)

\* The cursor is at the piece the client got last; if it is beyond that one, the
\* client was told.
CursorInv == Latest <= cursor /\ (Latest = cursor \/ Len(received) \in flagged)

OutputInv == Output!TypeOK /\ BufferInv /\ CursorInv /\ Output!NoSilentGap

LEMMA OutputConstants ==
  DataAssumption => {Length, Capacity, ReadSize, MaxPieces} \subseteq Nat \ {0}
BY DEF DataAssumption, Output!OutputAssumption

LEMMA OutputInit == DataAssumption /\ Output!Init => OutputInv
<1> SUFFICES ASSUME DataAssumption, Output!Init PROVE OutputInv
  OBVIOUS
<1> Length \in Nat /\ Capacity \in Nat
  BY OutputConstants
<1> USE DEF Output!Init
<1>1. Output!TypeOK
  <2>1. <<>> \in Seq(1 .. Length) /\ Len(<<>>) = 0
    OBVIOUS
  <2>2. Output!End = 0
    BY <2>1 DEF Output!End
  <2>3. /\ data \in Seq(1 .. Length) /\ Len(data) <= Capacity
        /\ received \in Seq(1 .. Length) /\ flagged \subseteq 0 .. Len(received)
    BY <2>1
  <2>4. /\ written \in 0 .. Length /\ taken \in 0 .. written /\ start \in Nat /\ notify \in Nat
        /\ channel \in 0 .. notify /\ cursor \in 0 .. Output!End /\ Output!End <= taken
    BY <2>2
  <2>5. exited \in BOOLEAN /\ closed \in BOOLEAN /\ reader \in {"idle", "waiting"}
    OBVIOUS
  <2> HIDE DEF Output!Init
  <2> QED
    BY <2>3, <2>4, <2>5 DEF Output!TypeOK
<1>2. BufferInv
  BY DEF BufferInv, Follows, Output!End
<1>3. CursorInv /\ Output!NoSilentGap
  BY DEF CursorInv, Latest, FinalOf, Output!NoSilentGap
<1> QED
  BY <1>1, <1>2, <1>3 DEF OutputInv

LEMMA OutputStutters == OutputInv /\ UNCHANGED outputVars => OutputInv'
BY DEF OutputInv, outputVars, Output!TypeOK, Output!End, BufferInv, CursorInv, Latest, FinalOf,
       Output!NoSilentGap

LEMMA ConcatFollows ==
  ASSUME NEW b \in Nat, NEW seq, NEW more, Follows(seq, b), Follows(more, b + Len(seq))
  PROVE  Follows(seq \o more, b) /\ Len(seq \o more) = Len(seq) + Len(more)
<1> DEFINE all == seq \o more
<1>1. seq \in Seq(Nat) /\ more \in Seq(Nat) /\ Len(seq) \in Nat /\ Len(more) \in Nat
  BY DEF Follows
<1>2. all \in Seq(Nat) /\ Len(all) = Len(seq) + Len(more)
  BY <1>1, ConcatProperties
<1>3. \A i \in 1 .. Len(seq) + Len(more) :
        all[i] = IF i <= Len(seq) THEN seq[i] ELSE more[i - Len(seq)]
  BY <1>1, ConcatProperties
<1> HIDE DEF all
<1>4. ASSUME NEW i \in 1 .. Len(all) PROVE all[i] = b + i
  <2>1. CASE i <= Len(seq)
    <3>1. i \in 1 .. Len(seq) /\ all[i] = seq[i]
      BY <2>1, <1>1, <1>2, <1>3
    <3> QED
      BY <3>1 DEF Follows
  <2>2. CASE i > Len(seq)
    <3>1. i - Len(seq) \in 1 .. Len(more) /\ all[i] = more[i - Len(seq)]
      BY <2>2, <1>1, <1>2, <1>3
    <3>2. more[i - Len(seq)] = b + Len(seq) + (i - Len(seq))
      BY <3>1 DEF Follows
    <3> QED
      BY <3>1, <3>2, <1>1, <1>2
  <2> QED
    BY <2>1, <2>2, <1>1, <1>2
<1>5. Follows(all, b)
  BY <1>2, <1>4 DEF Follows
<1> QED
  BY <1>2, <1>5 DEF all

LEMMA SubSeqFollows ==
  ASSUME NEW b \in Nat, NEW seq, Follows(seq, b),
         NEW m \in Nat, NEW n \in Nat, m <= n, n <= Len(seq)
  PROVE  /\ Follows(SubSeq(seq, m + 1, n), b + m) /\ Len(SubSeq(seq, m + 1, n)) = n - m
         /\ m < n => SubSeq(seq, m + 1, n)[1] = b + m + 1
<1> DEFINE cut == SubSeq(seq, m + 1, n)
<1>1. seq \in Seq(Nat) /\ Len(seq) \in Nat /\ m + 1 \in Int /\ n \in Int
  BY DEF Follows
<1>2. \A i \in m + 1 .. n : seq[i] \in Nat
  BY <1>1
<1>3. /\ cut \in Seq(Nat)
      /\ Len(cut) = IF m + 1 <= n THEN n - (m + 1) + 1 ELSE 0
      /\ \A i \in 1 .. n - (m + 1) + 1 : cut[i] = seq[(m + 1) + i - 1]
  BY <1>1, <1>2, SubSeqProperties
<1> HIDE DEF cut
<1>4. Len(cut) = n - m
  BY <1>3
<1>5. ASSUME NEW i \in 1 .. Len(cut) PROVE cut[i] = b + m + i
  <2>1. m + i \in 1 .. Len(seq) /\ (m + 1) + i - 1 = m + i /\ i \in 1 .. n - (m + 1) + 1
    BY <1>1, <1>4
  <2>2. cut[i] = seq[m + i]
    BY <2>1, <1>3
  <2> QED
    BY <2>1, <2>2 DEF Follows
<1>6. Follows(cut, b + m)
  BY <1>3, <1>5 DEF Follows
<1> QED
  BY <1>4, <1>5, <1>6 DEF cut

LEMMA FollowsTyped ==
  ASSUME NEW b \in Nat, NEW seq, Follows(seq, b), NEW most \in Nat, b + Len(seq) <= most
  PROVE  seq \in Seq(1 .. most)
<1>1. Len(seq) \in Nat /\ seq = [i \in 1 .. Len(seq) |-> seq[i]]
  BY DEF Follows
<1>2. \A i \in 1 .. Len(seq) : seq[i] \in 1 .. most
  BY <1>1 DEF Follows
<1> QED
  BY <1>1, <1>2

\* Append keeps the end of what there was and what is new.
LEMMA AppendKeeps ==
  ASSUME NEW n \in Nat \ {0}, Capacity \in Nat,
         start \in Nat, Follows(data, start), start + Len(data) = taken,
         Output!AppendTo([i \in 1 .. n |-> taken + i])
  PROVE  /\ start' \in Nat /\ Follows(data', start') /\ Len(data') <= Capacity
         /\ start' + Len(data') = taken + n
<1> DEFINE new == [i \in 1 .. n |-> taken + i]
           all == data \o new
           drop == IF Len(all) > Capacity THEN Len(all) - Capacity ELSE 0
<1>1. Len(data) \in Nat /\ taken \in Nat
  BY DEF Follows
<1>2. Follows(new, taken) /\ Len(new) = n
  BY <1>1 DEF Follows
<1>3. data' = SubSeq(all, drop + 1, Len(all)) /\ start' = start + drop
  BY DEF Output!AppendTo
<1> HIDE DEF new
<1>4. Follows(all, start) /\ Len(all) = Len(data) + n
  BY <1>2, ConcatFollows
<1> HIDE DEF all
<1>5. /\ drop \in Nat /\ Len(all) \in Nat /\ drop <= Len(all)
      /\ Len(all) - drop <= Capacity
  BY <1>1, <1>4
<1> HIDE DEF drop
<1>6. Follows(data', start') /\ Len(data') = Len(all) - drop
  <2> DEFINE m == Len(all)
  <2>1. m \in Nat /\ m <= Len(all) /\ drop <= m
    BY <1>5
  <2> HIDE DEF m
  <2>2. Follows(SubSeq(all, drop + 1, m), start + drop) /\ Len(SubSeq(all, drop + 1, m)) = m - drop
    BY <1>4, <1>5, <2>1, SubSeqFollows
  <2> QED
    BY <2>2, <1>3 DEF m
<1>7. start' \in Nat /\ Len(data') <= Capacity
  BY <1>3, <1>5, <1>6
<1>8. start' + Len(data') = taken + n
  <2>1. start' + Len(data') = start + Len(all)
    <3>1. start' = start + drop /\ Len(data') = Len(all) - drop
      BY <1>3, <1>6
    <3>2. (start + drop) + (Len(all) - drop) = start + Len(all)
      BY <1>5
    <3> QED
      BY <3>1, <3>2
  <2>2. start + (Len(data) + n) = taken + n
    BY <1>1
  <2> QED
    BY <2>1, <2>2, <1>4
<1> QED
  BY <1>6, <1>7, <1>8

\* Deliver hands out the pieces after the cursor, or after the start of the buffer
\* when the cursor has fallen behind.
LEMMA DeliverGives ==
  ASSUME OutputInv, NEW max \in Nat \ {0}, Output!Deliver(max)
  PROVE  \E from, piece :
           /\ from \in Nat /\ Follows(piece, from) /\ received' = received \o piece
           /\ cursor' = from + Len(piece) /\ cursor' <= Output!End
           /\ flagged' \in {flagged, flagged \cup {Len(received)}}
           /\ \/ from = cursor
              \/ from > cursor /\ flagged' = flagged \cup {Len(received)}
<1> DEFINE from == IF cursor < start THEN start ELSE cursor
           count == IF Output!End - from > max THEN max ELSE Output!End - from
           piece == SubSeq(data, from - start + 1, from - start + count)
<1>1. /\ start \in Nat /\ Follows(data, start) /\ Output!End = start + Len(data)
      /\ Len(data) \in Nat /\ cursor \in Nat /\ cursor < Output!End
  BY DEF OutputInv, Output!TypeOK, BufferInv, Output!Deliver, Output!End
<1>2. /\ received' = received \o piece /\ cursor' = from + count
      /\ flagged' = IF cursor < start THEN flagged \cup {Len(received)} ELSE flagged
  BY DEF Output!Deliver
<1>3. /\ from \in Nat /\ from >= start /\ from >= cursor /\ from <= Output!End
      /\ from = cursor \/ (from > cursor /\ cursor < start)
  BY <1>1
<1> HIDE DEF from
<1>4. count \in Nat /\ from + count <= Output!End
  BY <1>1, <1>3
<1> HIDE DEF count
<1>5. /\ from - start \in Nat /\ from - start + count \in Nat
      /\ from - start <= from - start + count /\ from - start + count <= Len(data)
      /\ start + (from - start) = from /\ (from - start + count) - (from - start) = count
  BY <1>1, <1>3, <1>4
<1>6. Follows(piece, from) /\ Len(piece) = count
  <2> DEFINE m == from - start
             n == from - start + count
  <2>1. m \in Nat /\ n \in Nat /\ m <= n /\ n <= Len(data) /\ start + m = from /\ n - m = count
    BY <1>5
  <2>2. piece = SubSeq(data, m + 1, n)
    OBVIOUS
  <2> HIDE DEF m, n, piece
  <2>3. Follows(piece, start + m) /\ Len(piece) = n - m
    BY <1>1, <2>1, <2>2, SubSeqFollows
  <2> QED
    BY <2>1, <2>3
<1> HIDE DEF piece
<1> QED
  BY <1>2, <1>3, <1>4, <1>6

\* NoSilentGap of a sequence and its marks.
Gapless(seq, marks) ==
  \A i \in 1 .. Len(seq) :
    LET before == IF i = 1 THEN 0 ELSE seq[i - 1]
    IN seq[i] = before + 1 \/ (i - 1 \in marks /\ seq[i] > before)

\* A stretch after the last piece leaves no gap that is not marked.
LEMMA GaplessExtended ==
  ASSUME NEW seq \in Seq(Nat), NEW marks, Gapless(seq, marks),
         NEW b \in Nat, NEW piece, Follows(piece, b),
         NEW more, marks \subseteq more,
         FinalOf(seq) <= b, FinalOf(seq) = b \/ Len(seq) \in more
  PROVE  /\ seq \o piece \in Seq(Nat) /\ Len(seq \o piece) = Len(seq) + Len(piece)
         /\ Gapless(seq \o piece, more)
         /\ FinalOf(seq \o piece) = IF Len(piece) = 0 THEN FinalOf(seq) ELSE b + Len(piece)
<1> DEFINE all == seq \o piece
           len == Len(seq)
<1>1. len \in Nat /\ piece \in Seq(Nat) /\ Len(piece) \in Nat
  BY DEF Follows
<1>2. all \in Seq(Nat) /\ Len(all) = len + Len(piece)
  BY <1>1, ConcatProperties
<1>3. \A i \in 1 .. len + Len(piece) : all[i] = IF i <= len THEN seq[i] ELSE piece[i - len]
  BY <1>1, ConcatProperties
<1>4. FinalOf(seq) \in Nat /\ (len > 0 => FinalOf(seq) = seq[len]) /\ (len = 0 => FinalOf(seq) = 0)
  BY DEF FinalOf
<1> HIDE DEF all
<1>5. ASSUME NEW i \in 1 .. len PROVE all[i] = seq[i]
  <2>1. i \in 1 .. len + Len(piece) /\ i <= len
    BY <1>1
  <2> QED
    BY <1>3, <2>1
<1>6. ASSUME NEW k \in 1 .. Len(piece) PROVE all[len + k] = b + k
  <2>1. len + k \in 1 .. len + Len(piece) /\ ~(len + k <= len) /\ (len + k) - len = k
    BY <1>1
  <2>2. all[len + k] = piece[k]
    BY <2>1, <1>3
  <2> QED
    BY <2>2 DEF Follows
<1> HIDE DEF len
<1>7. Gapless(all, more)
  <2> SUFFICES ASSUME NEW i \in 1 .. Len(all)
               PROVE  LET before == IF i = 1 THEN 0 ELSE all[i - 1]
                      IN all[i] = before + 1 \/ (i - 1 \in more /\ all[i] > before)
    BY DEF Gapless
  <2>1. CASE i <= len
    <3>1. i \in 1 .. len /\ (i # 1 => i - 1 \in 1 .. len)
      BY <2>1, <1>1
    <3> QED
      BY <3>1, <1>5 DEF Gapless, len
  <2>2. CASE i = len + 1
    <3>1. all[i] = b + 1
      BY <2>2, <1>1, <1>2, <1>6
    <3>2. (IF i = 1 THEN 0 ELSE all[i - 1]) = FinalOf(seq)
      BY <2>2, <1>1, <1>4, <1>5
    <3>3. i - 1 = len
      BY <2>2, <1>1
    <3> QED
      BY <3>1, <3>2, <3>3, <1>4 DEF len
  <2>3. CASE i > len + 1
    <3> DEFINE k == i - len
    <3>1. k \in 1 .. Len(piece) /\ k - 1 \in 1 .. Len(piece) /\ len + k = i /\ len + (k - 1) = i - 1
          /\ i # 1
      BY <2>3, <1>1, <1>2
    <3>2. all[i] = b + k /\ all[i - 1] = b + (k - 1)
      BY <3>1, <1>6
    <3> QED
      BY <3>1, <3>2
  <2> QED
    BY <2>1, <2>2, <2>3, <1>1, <1>2
<1>8. FinalOf(all) = IF Len(piece) = 0 THEN FinalOf(seq) ELSE b + Len(piece)
  <2>1. CASE Len(piece) = 0
    <3>1. Len(all) = len /\ (all = <<>> <=> len = 0)
      BY <2>1, <1>1, <1>2
    <3> QED
      BY <3>1, <2>1, <1>1, <1>4, <1>5 DEF FinalOf
  <2>2. CASE Len(piece) # 0
    <3>1. Len(piece) \in 1 .. Len(piece) /\ Len(all) = len + Len(piece) /\ all # <<>>
      BY <2>2, <1>1, <1>2
    <3>2. all[len + Len(piece)] = b + Len(piece)
      BY <3>1, <1>6
    <3> QED
      BY <3>1, <3>2, <2>2 DEF FinalOf
  <2> QED
    BY <2>1, <2>2
<1> QED
  BY <1>2, <1>7, <1>8 DEF all, len

LEMMA DeliverKeeps ==
  ASSUME DataAssumption, OutputInv, NEW max \in 1 .. MaxPieces, Output!Deliver(max),
         UNCHANGED <<written, exited, taken, data, start, closed, notify>>
  PROVE  OutputInv'
<1>1. Length \in Nat /\ max \in Nat \ {0}
  BY OutputConstants
<1>2. PICK from, piece :
        /\ from \in Nat /\ Follows(piece, from) /\ received' = received \o piece
        /\ cursor' = from + Len(piece) /\ cursor' <= Output!End
        /\ flagged' \in {flagged, flagged \cup {Len(received)}}
        /\ \/ from = cursor
           \/ from > cursor /\ flagged' = flagged \cup {Len(received)}
  BY <1>1, DeliverGives
<1>3. /\ received \in Seq(1 .. Length) /\ received \in Seq(Nat) /\ Len(received) \in Nat
      /\ cursor \in Nat /\ flagged \subseteq 0 .. Len(received) /\ Output!End \in Nat
      /\ Output!End <= Length
  BY <1>1 DEF OutputInv, Output!TypeOK, Output!End
<1>4. Len(piece) \in Nat /\ Latest \in Nat /\ Latest <= from /\ flagged \subseteq flagged'
      /\ (Latest = from \/ Len(received) \in flagged')
  BY <1>2, <1>3 DEF OutputInv, CursorInv, Latest, FinalOf, Follows
<1>5. Gapless(received, flagged)
  BY DEF OutputInv, Output!NoSilentGap, Gapless
<1>6. /\ Len(received') = Len(received) + Len(piece) /\ Gapless(received', flagged')
      /\ Latest' = IF Len(piece) = 0 THEN Latest ELSE from + Len(piece)
  BY <1>2, <1>3, <1>4, <1>5, GaplessExtended DEF Latest
<1>7. received' \in Seq(1 .. Length)
  <2>1. piece \in Seq(1 .. Length)
    BY <1>1, <1>2, <1>3, FollowsTyped
  <2> QED
    BY <2>1, <1>2, <1>3, ConcatProperties
<1>8. Output!TypeOK'
  <2>1. Output!End' = Output!End
    BY DEF Output!End
  <2>2. cursor' \in 0 .. Output!End /\ flagged' \subseteq 0 .. Len(received')
    BY <1>2, <1>3, <1>4, <1>6
  <2>3. reader' = "idle" /\ channel' = channel
    BY DEF Output!Deliver
  <2> QED
    BY <2>1, <2>2, <2>3, <1>7 DEF OutputInv, Output!TypeOK
<1>9. BufferInv'
  BY DEF OutputInv, BufferInv, Output!End, Follows
<1>10. CursorInv'
  <2>1. CASE Len(piece) = 0
    BY <2>1, <1>2, <1>3, <1>4, <1>6 DEF CursorInv
  <2>2. CASE Len(piece) # 0
    BY <2>2, <1>2, <1>6 DEF CursorInv
  <2> QED
    BY <2>1, <2>2
<1>11. Output!NoSilentGap'
  BY <1>6 DEF Gapless, Output!NoSilentGap
<1> QED
  BY <1>8, <1>9, <1>10, <1>11 DEF OutputInv

LEMMA ReadChannelKeeps ==
  ASSUME DataAssumption, OutputInv, NEW n \in 1 .. ReadSize, Output!ReadChannel(n)
  PROVE  OutputInv'
<1> Length \in Nat /\ Capacity \in Nat /\ ReadSize \in Nat
  BY OutputConstants
<1> USE DEF Output!ReadChannel
<1>1. CursorInv' /\ Output!NoSilentGap'
  BY DEF OutputInv, CursorInv, Latest, FinalOf, Output!NoSilentGap, Output!client
<1>2. taken' = taken + n /\ n \in Nat \ {0} /\ taken' <= written
  OBVIOUS
<1>3. CASE closed
  <2>1. Output!TypeOK'
    BY <1>2, <1>3 DEF OutputInv, Output!TypeOK, Output!End, Output!client
  <2>2. BufferInv'
    BY <1>3 DEF OutputInv, BufferInv, Follows
  <2> QED
    BY <2>1, <2>2, <1>1 DEF OutputInv
<1>4. CASE ~closed
  <2>1. /\ start \in Nat /\ Follows(data, start) /\ start + Len(data) = taken
        /\ Output!AppendTo([i \in 1 .. n |-> taken + i]) /\ taken \in Nat /\ written \in Nat
        /\ written <= Length
    BY <1>4 DEF OutputInv, BufferInv, Output!TypeOK, Output!End
  <2>2. /\ start' \in Nat /\ Follows(data', start') /\ Len(data') <= Capacity
        /\ start' + Len(data') = taken + n
    BY <1>2, <2>1, AppendKeeps
  <2>3. data' \in Seq(1 .. Length)
    BY <1>2, <2>1, <2>2, FollowsTyped
  <2>4. Output!TypeOK'
    <3>1. notify' \in Nat /\ channel' \in 0 .. notify'
      BY <2>1 DEF OutputInv, Output!TypeOK, Output!AppendTo, Output!client
    <3>2. Output!End' = taken' /\ cursor' \in 0 .. Output!End'
      BY <1>2, <2>1, <2>2 DEF OutputInv, Output!TypeOK, Output!End, Output!client
    <3> QED
      BY <1>2, <2>1, <2>2, <2>3, <3>1, <3>2 DEF OutputInv, Output!TypeOK, Output!client
  <2>5. BufferInv'
    BY <1>2, <2>2 DEF BufferInv, Output!End
  <2> QED
    BY <2>4, <2>5, <1>1 DEF OutputInv
<1> QED
  BY <1>3, <1>4

LEMMA OutputStep == DataAssumption /\ OutputInv /\ Output!Next => OutputInv'
<1> SUFFICES ASSUME DataAssumption, OutputInv, Output!Next PROVE OutputInv'
  OBVIOUS
<1> Length \in Nat
  BY OutputConstants
<1>1. ASSUME NEW max \in 1 .. MaxPieces, Output!Read(max) \/ Output!Woken(max) PROVE OutputInv'
  <2>1. UNCHANGED <<written, exited, taken, data, start, closed, notify>>
    BY <1>1 DEF Output!Read, Output!Woken, Output!source, Output!buffer
  <2>2. CASE ~Output!Deliver(max)
    <3>1. /\ UNCHANGED <<cursor, received, flagged>>
          /\ reader' \in {"idle", "waiting"} /\ channel' = notify
      BY <2>2, <1>1 DEF Output!Read, Output!Woken
    <3>2. Output!TypeOK'
      <4>1. Output!End' = Output!End
        BY <2>1 DEF Output!End
      <4>2. channel' \in 0 .. notify'
        BY <2>1, <3>1 DEF OutputInv, Output!TypeOK
      <4> QED
        BY <2>1, <3>1, <4>1, <4>2 DEF OutputInv, Output!TypeOK
    <3>3. BufferInv' /\ CursorInv' /\ Output!NoSilentGap'
      BY <2>1, <3>1 DEF OutputInv, Output!End, BufferInv, Follows, CursorInv, Latest, FinalOf,
                        Output!NoSilentGap
    <3> QED
      BY <3>2, <3>3 DEF OutputInv
  <2> QED
    BY <2>1, <2>2, DeliverKeeps
<1>2. CASE Output!GivesUp \/ Output!ShellWrites \/ Output!ShellExits
           \/ Output!WaitReturns \/ Output!CloseSession
  <2>1. UNCHANGED <<taken, data, start, cursor, channel, received, flagged>>
    BY <1>2 DEF Output!GivesUp, Output!ShellWrites, Output!ShellExits, Output!WaitReturns,
                Output!CloseSession, Output!CloseBuffer, Output!source, Output!buffer, Output!client
  <2>2. Output!TypeOK'
    <3>1. Output!End' = Output!End
      BY <2>1 DEF Output!End
    <3>2. written' \in written .. Length /\ notify' \in {notify, notify + 1}
      BY <1>2
      DEF OutputInv, Output!TypeOK, Output!GivesUp, Output!ShellWrites, Output!ShellExits,
          Output!WaitReturns, Output!CloseSession, Output!CloseBuffer, Output!source,
          Output!buffer, Output!client
    <3>3. exited' \in BOOLEAN /\ closed' \in BOOLEAN /\ reader' \in {"idle", "waiting"}
      BY <1>2
      DEF OutputInv, Output!TypeOK, Output!GivesUp, Output!ShellWrites, Output!ShellExits,
          Output!WaitReturns, Output!CloseSession, Output!CloseBuffer, Output!source,
          Output!buffer, Output!client
    <3> QED
      BY <2>1, <3>1, <3>2, <3>3 DEF OutputInv, Output!TypeOK
  <2>3. closed => closed'
    BY <1>2 DEF Output!GivesUp, Output!ShellWrites, Output!ShellExits, Output!WaitReturns,
                Output!CloseSession, Output!CloseBuffer, Output!source, Output!buffer, Output!client
  <2>4. BufferInv' /\ CursorInv' /\ Output!NoSilentGap'
    BY <2>1, <2>3 DEF OutputInv, Output!End, BufferInv, Follows, CursorInv, Latest, FinalOf,
                      Output!NoSilentGap
  <2> QED
    BY <2>2, <2>4 DEF OutputInv
<1> QED
  BY <1>1, <1>2, ReadChannelKeeps DEF Output!Next

LEMMA OutputInvariant == MCSpec => []OutputInv
<1>1. MCInit => OutputInv
  BY OutputInit, DataAssumption DEF MCInit
<1>2. OutputInv /\ [MCNext]_allVars => OutputInv'
  <2> SUFFICES ASSUME OutputInv, [MCNext]_allVars PROVE OutputInv'
    OBVIOUS
  <2>1. Output!Next \/ UNCHANGED outputVars
    BY DEF MCNext, Only, allVars
  <2> QED
    BY <2>1, OutputStep, OutputStutters, DataAssumption
<1> QED
  BY <1>1, <1>2, PTL DEF MCSpec

\* A client that follows its cursor gets every piece once and in order, or was
\* told where some are missing, however small the buffer, however much is written
\* between two reads and whenever the terminal closes (RingBuffer.Read).
THEOREM EveryGapIsReported == MCSpec => []NoSilentGap
<1>1. OutputInv => NoSilentGap
  BY DEF OutputInv, NoSilentGap
<1> QED
  BY <1>1, OutputInvariant, PTL

\* A read that sleeps on the present channel has nothing to get: no piece has come and the
\* buffer was not closed since it looked.
SleepsForAReason == reader = "waiting" /\ channel = notify => cursor = Output!End /\ ~closed

LEMMA SleepStep ==
  ASSUME OutputInv, SleepsForAReason, Output!Next \/ UNCHANGED outputVars
  PROVE  SleepsForAReason'
<1> USE DEF SleepsForAReason
<1>1. notify \in Nat /\ channel \in 0 .. notify
  BY DEF OutputInv, Output!TypeOK
<1>2. ASSUME NEW max \in 1 .. MaxPieces, Output!Read(max) \/ Output!Woken(max)
      PROVE  SleepsForAReason'
  BY <1>2 DEF Output!Read, Output!Woken, Output!Deliver, Output!source, Output!buffer, Output!End
<1>3. ASSUME NEW n \in 1 .. ReadSize, Output!ReadChannel(n)
      PROVE  SleepsForAReason'
  <2>1. UNCHANGED <<closed, cursor, reader, channel>>
    BY <1>3 DEF Output!ReadChannel, Output!client
  <2>2. CASE closed
    <3>1. UNCHANGED notify
      BY <1>3, <2>2 DEF Output!ReadChannel
    <3> QED
      BY <2>1, <2>2, <3>1
  <2>3. CASE ~closed
    <3>1. notify' = notify + 1
      BY <1>3, <2>3 DEF Output!ReadChannel, Output!AppendTo
    <3>2. channel' # notify'
      BY <1>1, <2>1, <3>1
    <3> QED
      BY <3>2
  <2> QED
    BY <2>2, <2>3
<1>4. CASE Output!WaitReturns \/ Output!CloseSession
  <2>1. notify' = notify + 1 /\ UNCHANGED channel
    BY <1>4 DEF Output!WaitReturns, Output!CloseSession, Output!CloseBuffer, Output!client
  <2>2. channel' # notify'
    BY <1>1, <2>1
  <2> QED
    BY <2>2
<1>5. CASE Output!ShellWrites \/ Output!ShellExits \/ Output!GivesUp \/ UNCHANGED outputVars
  BY <1>5 DEF Output!ShellWrites, Output!ShellExits, Output!GivesUp, Output!source,
              Output!buffer, Output!client, Output!End, outputVars
<1> QED
  BY <1>2, <1>3, <1>4, <1>5 DEF Output!Next

\* No wake-up is lost: whatever a writer, the end of the shell and a close do between the look
\* of a read and its sleep, it sleeps on a channel that is going to be closed when there is
\* something to get (ring_buffer.go:92).
THEOREM NoWakeUpIsLost == MCSpec => []SleepsForAReason
<1>1. MCInit => SleepsForAReason
  BY DEF MCInit, Output!Init, SleepsForAReason
<1>2. OutputInv /\ SleepsForAReason /\ [MCNext]_allVars => SleepsForAReason'
  <2> SUFFICES ASSUME OutputInv, SleepsForAReason, [MCNext]_allVars PROVE SleepsForAReason'
    OBVIOUS
  <2>1. Output!Next \/ UNCHANGED outputVars
    BY DEF MCNext, Only, allVars
  <2> QED
    BY <2>1, SleepStep
<1> QED
  BY <1>1, <1>2, OutputInvariant, PTL DEF MCSpec

-----------------------------------------------------------------------------
(* One file of an upload                                                   *)

\* n is the first number from lo on that is not in S.
FirstGap(S, lo, n) == n >= lo /\ lo .. n - 1 \subseteq S /\ n \notin S

LEMMA GapExists ==
  ASSUME NEW S, NEW lo \in Nat, NEW hi \in Nat, lo <= hi, hi \notin S
  PROVE  \E n \in lo .. hi : FirstGap(S, lo, n)
<1> DEFINE Up(n) == lo .. n
           holes == {n \in lo .. hi : n \notin S}
           ups == {Up(n) : n \in holes}
           R == StrictSubsetOrdering(Nat)
           F == FiniteSubsetsOf(Nat)
<1>1. ups \subseteq F
  <2> SUFFICES ASSUME NEW n \in holes PROVE Up(n) \in F
    OBVIOUS
  <2>1. IsFiniteSet(lo .. n)
    BY FS_Interval
  <2> QED
    BY <2>1 DEF FiniteSubsetsOf
<1>2. ups # {}
  BY hi \in holes
<1>3. IsWellFoundedOn(R, F)
  BY FS_StrictSubsetOrderingWellFounded
<1> HIDE DEF R, F
<1>4. PICK least \in ups : \A up \in ups : ~(<<up, least>> \in R)
  <2> HIDE DEF ups
  <2> QED
    BY <1>1, <1>2, <1>3, WFMin
<1>5. PICK n \in holes : least = Up(n)
  OBVIOUS
<1>6. ASSUME NEW m \in lo .. n - 1 PROVE m \in S
  <2> SUFFICES ASSUME m \notin S PROVE FALSE
    OBVIOUS
  <2>1. m \in holes /\ m < n
    OBVIOUS
  <2>2. Up(m) \subseteq Up(n) /\ n \in Up(n) /\ n \notin Up(m) /\ Up(n) \subseteq Nat
    BY <2>1
  <2>3. <<Up(m), Up(n)>> \in R
    <3> HIDE DEF Up
    <3> QED
      BY <2>2 DEF R, StrictSubsetOrdering
  <2> QED
    BY <1>4, <1>5, <2>1, <2>3
<1> QED
  BY <1>6 DEF FirstGap

LEMMA GapIsUnique ==
  ASSUME NEW S, NEW lo \in Nat, NEW n \in Nat, NEW m \in Nat, FirstGap(S, lo, n), FirstGap(S, lo, m)
  PROVE  n = m
BY DEF FirstGap

\* The phases in which every request of the attempt has come back.
Settled == {"stopped", "syncing", "committing", "replacing"}
Whole == {"syncing", "committing", "replacing"}

\* A request is for a chunk that the dispatcher has handed out, and is in one
\* place; what was executed is in the part file.
RequestsInv ==
  /\ upPhase # "idle" =>
       /\ sent \cup answered \cup acked \subseteq offset .. next - 1
       /\ sent \cap answered = {} /\ acked \cap (sent \cup answered) = {}
       /\ answered \cup acked \subseteq stored
  /\ upPhase # "writing" => sent \cup answered = {}

\* The progress counts the answers, and goes back to the first gap among them.
ProgressInv ==
  /\ upPhase = "writing" => transferred = offset + Cardinality(acked)
  /\ upPhase \in Settled => FirstGap(acked, offset, transferred)
  /\ upPhase \in Whole => transferred = UploadSize

\* A part that was not torn has no hole below the place an attempt goes on from,
\* and no request of an earlier transport is under way to it.
PartInv ==
  ~torn =>
    /\ upPhase # "idle" => 0 .. offset - 1 \subseteq stored
    /\ orphans # {} => upPhase \in {"writing", "stopped"} /\ failed /\ ~upTransport

UploadInv ==
  /\ Upload!TypeOK /\ RequestsInv /\ ProgressInv /\ PartInv
  /\ Upload!SafePrefix /\ Upload!CommittedIsWhole

LEMMA UploadConstants ==
  /\ UploadSize \in Nat \ {0} /\ UploadRequests \in Nat \ {0} /\ UploadAttempts \in Nat \ {0}
  /\ IsFiniteSet(Upload!Chunks)
<1>1. UploadSize \in Nat \ {0} /\ UploadRequests \in Nat \ {0} /\ UploadAttempts \in Nat \ {0}
  BY DataAssumption DEF DataAssumption, Upload!UploadAssumption
<1>2. IsFiniteSet(Upload!Chunks)
  BY <1>1, FS_Interval DEF Upload!Chunks
<1> QED
  BY <1>1, <1>2

\* The module's Cardinality is the one that the theorems on finite sets speak of.
LEMMA SameCardinality == ASSUME NEW S PROVE Upload!Cardinality(S) = Cardinality(S)
BY DEF Cardinality, Upload!Cardinality

LEMMA UploadInit == Upload!Init => UploadInv
<1> SUFFICES ASSUME Upload!Init PROVE UploadInv
  OBVIOUS
<1> USE UploadConstants DEF Upload!Init
<1>1. Upload!Cardinality(sent \cup answered) = 0
  BY FS_EmptySet, SameCardinality
<1>2. Upload!TypeOK
  <2>1. /\ upOverwrite \in BOOLEAN /\ posix \in BOOLEAN /\ failed \in BOOLEAN /\ upEnded \in BOOLEAN
        /\ upTransport \in BOOLEAN /\ present \in BOOLEAN /\ torn \in BOOLEAN
    OBVIOUS
  <2>2. /\ upPhase \in Upload!Phases /\ offset \in 0 .. UploadSize /\ next \in offset .. UploadSize
        /\ partSize \in 0 .. UploadSize /\ stored \subseteq 0 .. partSize - 1
        /\ transferred \in 0 .. UploadSize /\ upAttempts \in 0 .. UploadAttempts
    BY DEF Upload!Phases
  <2>3. /\ sent \subseteq Upload!Chunks /\ answered \subseteq Upload!Chunks
        /\ acked \subseteq Upload!Chunks /\ orphans \subseteq Upload!Chunks
        /\ upDest \in {"none", "old", "whole", "corrupt"}
    OBVIOUS
  <2>4. Upload!Cardinality(sent \cup answered) <= UploadRequests
    BY <1>1
  <2> HIDE DEF Upload!Init
  <2> QED
    BY <2>1, <2>2, <2>3, <2>4 DEF Upload!TypeOK
<1>3. RequestsInv /\ ProgressInv /\ PartInv
  BY DEF RequestsInv, ProgressInv, PartInv, Settled, Whole
<1>4. Upload!SafePrefix /\ Upload!CommittedIsWhole
  BY DEF Upload!SafePrefix, Upload!CommittedIsWhole
<1> QED
  BY <1>2, <1>3, <1>4 DEF UploadInv

LEMMA UploadStutters == UploadInv /\ UNCHANGED uploadVars => UploadInv'
BY DEF UploadInv, uploadVars, Upload!TypeOK, RequestsInv, ProgressInv, FirstGap, PartInv,
       Upload!SafePrefix, Upload!CommittedIsWhole

\* The safe prefix ends at the first gap among the acknowledged chunks.
LEMMA SafeIsFirstGap ==
  ASSUME UploadInv, upPhase # "idle"
  PROVE  Upload!Safe \in offset .. UploadSize /\ FirstGap(acked, offset, Upload!Safe)
<1>1. offset \in Nat /\ UploadSize \in Nat /\ offset <= UploadSize /\ UploadSize \notin acked
  BY UploadConstants DEF UploadInv, Upload!TypeOK, Upload!Chunks
<1>2. \E n \in offset .. UploadSize : offset .. n - 1 \subseteq acked /\ n \notin acked
  BY <1>1, GapExists DEF FirstGap
<1> QED
  BY <1>1, <1>2 DEF Upload!Safe, FirstGap

LEMMA BeginKeeps ==
  ASSUME UploadInv, NEW again \in BOOLEAN, Upload!Begin(again)
  PROVE  UploadInv'
<1> USE UploadConstants DEF Upload!Begin, Upload!setting
<1>1. upPhase = "idle" /\ upPhase' = "writing" /\ sent' = {} /\ answered' = {} /\ acked' = {}
  OBVIOUS
<1>2. Upload!Cardinality(sent' \cup answered') = 0 /\ Cardinality(acked') = 0
  BY <1>1, FS_EmptySet, SameCardinality
<1>3. /\ partSize' \in 0 .. UploadSize /\ stored' \subseteq 0 .. partSize' - 1
      /\ offset' \in 0 .. UploadSize
  <2> USE DEF UploadInv, Upload!TypeOK
  <2>1. CASE again /\ present /\ partSize > 0
    BY <2>1
  <2>2. CASE ~(again /\ present /\ partSize > 0)
    BY <2>2
  <2> QED
    BY <2>1, <2>2
<1>4. Upload!TypeOK'
  <2>1. /\ upOverwrite' \in BOOLEAN /\ posix' \in BOOLEAN /\ failed' \in BOOLEAN
        /\ upEnded' \in BOOLEAN /\ upTransport' \in BOOLEAN /\ present' \in BOOLEAN
        /\ torn' \in BOOLEAN
    BY DEF UploadInv, Upload!TypeOK
  <2>2. /\ upPhase' \in Upload!Phases /\ next' \in offset' .. UploadSize
        /\ transferred' \in 0 .. UploadSize /\ upAttempts' \in 0 .. UploadAttempts
    BY <1>3 DEF UploadInv, Upload!TypeOK, Upload!Phases
  <2>3. /\ orphans' \subseteq Upload!Chunks /\ upDest' \in {"none", "old", "whole", "corrupt"}
    BY DEF UploadInv, Upload!TypeOK
  <2>4. Upload!Cardinality(sent' \cup answered') <= UploadRequests
    BY <1>2
  <2>5. sent' \subseteq Upload!Chunks /\ answered' \subseteq Upload!Chunks /\ acked' \subseteq Upload!Chunks
    BY <1>1
  <2> HIDE DEF Upload!Begin
  <2> QED
    BY <1>3, <2>1, <2>2, <2>3, <2>4, <2>5 DEF Upload!TypeOK
<1>5. RequestsInv' /\ ProgressInv'
  BY <1>1, <1>2, <1>3 DEF RequestsInv, ProgressInv, Settled, Whole
<1>6. PartInv'
  BY DEF UploadInv, PartInv, Upload!SafePrefix, Upload!TypeOK
<1>7. Upload!SafePrefix' /\ Upload!CommittedIsWhole'
  BY DEF UploadInv, Upload!SafePrefix, Upload!CommittedIsWhole
<1> QED
  BY <1>4, <1>5, <1>6, <1>7 DEF UploadInv

\* The variables that no request touches.
Apart == <<upOverwrite, posix, upPhase, offset, upEnded, upTransport, present, upDest, torn, upAttempts>>

LEMMA WriteExtendsPart ==
  ASSUME UploadInv, NEW i \in Upload!Chunks, Upload!WriteAt(i)
  PROVE  /\ partSize' \in 0 .. UploadSize /\ stored' \subseteq 0 .. partSize' - 1
         /\ stored \subseteq stored' /\ i \in stored'
BY UploadConstants DEF UploadInv, Upload!TypeOK, Upload!Chunks, Upload!WriteAt

\* The sets of requests are finite, and taking some away leaves no more of them.
LEMMA RequestsAreFinite ==
  ASSUME NEW S, S \subseteq Upload!Chunks, NEW T, T \subseteq S
  PROVE  /\ IsFiniteSet(S) /\ Cardinality(S) \in Nat /\ Cardinality(T) \in Nat
         /\ Cardinality(T) <= Cardinality(S)
<1>1. IsFiniteSet(S)
  BY UploadConstants, FS_Subset
<1>2. IsFiniteSet(T) /\ Cardinality(T) <= Cardinality(S)
  BY <1>1, FS_Subset
<1> QED
  BY <1>1, <1>2, FS_CardinalityType

\* The chunks of an attempt are handed out in order, so there are no more answers
\* than chunks before the next one.
LEMMA AnswersAreFew ==
  ASSUME NEW S, NEW lo \in Nat, NEW hi \in Nat, lo <= hi, S \subseteq lo .. hi - 1
  PROVE  IsFiniteSet(S) /\ Cardinality(S) \in Nat /\ lo + Cardinality(S) <= hi
<1>1. IsFiniteSet(lo .. hi - 1) /\ Cardinality(lo .. hi - 1) = hi - lo
  <2>1. lo \in Int /\ hi - 1 \in Int
    OBVIOUS
  <2>2. /\ IsFiniteSet(lo .. hi - 1)
        /\ Cardinality(lo .. hi - 1) = IF lo > hi - 1 THEN 0 ELSE (hi - 1) - lo + 1
    BY <2>1, FS_Interval
  <2> QED
    BY <2>2
<1>2. IsFiniteSet(S) /\ Cardinality(S) <= Cardinality(lo .. hi - 1)
  BY <1>1, FS_Subset
<1>3. Cardinality(S) \in Nat
  BY <1>2, FS_CardinalityType
<1> QED
  BY <1>1, <1>2, <1>3

\* While requests are out the attempt is writing.
LEMMA RequestsWhileWriting ==
  ASSUME UploadInv, sent \cup answered # {}
  PROVE  upPhase = "writing"
BY DEF UploadInv, RequestsInv

LEMMA SendKeeps ==
  ASSUME UploadInv, Upload!Send
  PROVE  UploadInv'
<1> USE UploadConstants DEF Upload!Send, Upload!setting, Upload!part, Upload!outcome
<1>1. Upload!TypeOK'
  <2>1. /\ next \in Upload!Chunks /\ next' \in offset .. UploadSize
        /\ sent' \subseteq Upload!Chunks /\ answered \subseteq Upload!Chunks
    BY DEF UploadInv, Upload!TypeOK, Upload!Chunks
  <2>2. Cardinality(sent' \cup answered) <= UploadRequests
    <3>1. IsFiniteSet(sent \cup answered) /\ Cardinality(sent \cup answered) \in Nat
      BY RequestsAreFinite DEF UploadInv, Upload!TypeOK
    <3>2. sent' \cup answered = (sent \cup answered) \cup {next}
      OBVIOUS
    <3>3. Cardinality((sent \cup answered) \cup {next})
            \in {Cardinality(sent \cup answered), Cardinality(sent \cup answered) + 1}
      BY <3>1, FS_AddElement
    <3>4. Cardinality(sent \cup answered) < UploadRequests
      BY SameCardinality
    <3> QED
      BY <3>1, <3>2, <3>3, <3>4
  <2>3. Upload!Cardinality(sent' \cup answered') <= UploadRequests
    BY <2>2, SameCardinality
  <2> QED
    BY <2>1, <2>3 DEF UploadInv, Upload!TypeOK
<1>2. RequestsInv'
  BY DEF UploadInv, Upload!TypeOK, RequestsInv
<1>3. ProgressInv' /\ PartInv' /\ Upload!SafePrefix' /\ Upload!CommittedIsWhole'
  BY DEF UploadInv, ProgressInv, PartInv, Upload!SafePrefix, Upload!CommittedIsWhole, Settled, Whole
<1> QED
  BY <1>1, <1>2, <1>3 DEF UploadInv

LEMMA ExecuteKeeps ==
  ASSUME UploadInv, NEW i \in Upload!Chunks, Upload!Execute(i)
  PROVE  UploadInv'
<1> USE UploadConstants DEF Upload!Execute, Upload!setting, Upload!outcome
<1>1. upPhase = "writing"
  BY RequestsWhileWriting
<1>2. sent' \cup answered' = sent \cup answered
  OBVIOUS
<1>3. Upload!TypeOK'
  BY <1>2, WriteExtendsPart DEF UploadInv, Upload!TypeOK
<1>4. RequestsInv'
  BY <1>1, WriteExtendsPart DEF UploadInv, RequestsInv
<1>5. ProgressInv' /\ PartInv' /\ Upload!SafePrefix' /\ Upload!CommittedIsWhole'
  BY <1>1, WriteExtendsPart
  DEF UploadInv, ProgressInv, PartInv, Upload!SafePrefix, Upload!CommittedIsWhole, Settled, Whole
<1> QED
  BY <1>3, <1>4, <1>5 DEF UploadInv

LEMMA AnswerKeeps ==
  ASSUME UploadInv, NEW i \in Upload!Chunks, Upload!Answer(i)
  PROVE  UploadInv'
<1> USE UploadConstants DEF Upload!Answer, Upload!setting, Upload!part
<1>1. upPhase = "writing"
  BY RequestsWhileWriting
<1>2. RequestsInv'
  BY <1>1 DEF UploadInv, RequestsInv
<1>3. /\ acked \subseteq offset .. next - 1 /\ acked' \subseteq offset .. next - 1 /\ i \notin acked
      /\ offset \in Nat /\ next \in Nat /\ offset <= next /\ next <= UploadSize
  BY <1>1 DEF UploadInv, RequestsInv, Upload!TypeOK
<1>4. /\ Cardinality(acked') = Cardinality(acked) + 1 /\ Cardinality(acked) \in Nat
      /\ offset + Cardinality(acked') <= UploadSize
  BY <1>3, AnswersAreFew, FS_AddElement
<1>5. transferred' = offset + Cardinality(acked') /\ transferred' \in 0 .. UploadSize
  BY <1>1, <1>3, <1>4 DEF UploadInv, ProgressInv
<1>6. Upload!TypeOK'
  <2>1. Cardinality(sent' \cup answered') <= Cardinality(sent \cup answered)
        /\ Cardinality(sent \cup answered) \in Nat /\ Cardinality(sent' \cup answered') \in Nat
    BY RequestsAreFinite DEF UploadInv, Upload!TypeOK
  <2>2. Upload!Cardinality(sent' \cup answered') <= UploadRequests
    BY <2>1, SameCardinality DEF UploadInv, Upload!TypeOK
  <2> QED
    BY <1>5, <2>2 DEF UploadInv, Upload!TypeOK
<1>7. ProgressInv'
  BY <1>1, <1>5 DEF ProgressInv, Settled, Whole
<1>8. PartInv' /\ Upload!SafePrefix' /\ Upload!CommittedIsWhole'
  BY <1>1 DEF UploadInv, PartInv, Upload!SafePrefix, Upload!CommittedIsWhole
<1> QED
  BY <1>2, <1>6, <1>7, <1>8 DEF UploadInv

LEMMA LostRequestKeeps ==
  ASSUME UploadInv, NEW i \in Upload!Chunks, Upload!Refuse(i) \/ Upload!BreakRequest(i)
  PROVE  UploadInv'
<1> USE UploadConstants
        DEF Upload!Refuse, Upload!BreakRequest, Upload!setting, Upload!part, Upload!outcome
<1>1. upPhase = "writing"
  BY RequestsWhileWriting
<1>2. /\ sent' \subseteq sent /\ answered' \subseteq answered /\ failed' = TRUE
      /\ orphans' \subseteq orphans \cup {i}
      /\ orphans' = orphans \/ ~upTransport
      /\ UNCHANGED <<Apart, next, acked, partSize, stored, transferred>>
  BY DEF Apart
<1> HIDE DEF Upload!Refuse, Upload!BreakRequest
<1> USE DEF Apart
<1>3. Upload!TypeOK'
  <2>1. Cardinality(sent' \cup answered') <= Cardinality(sent \cup answered)
        /\ Cardinality(sent \cup answered) \in Nat /\ Cardinality(sent' \cup answered') \in Nat
    BY <1>2, RequestsAreFinite DEF UploadInv, Upload!TypeOK
  <2>2. Upload!Cardinality(sent' \cup answered') <= UploadRequests
    BY <2>1, SameCardinality DEF UploadInv, Upload!TypeOK
  <2> QED
    BY <1>2, <2>2 DEF UploadInv, Upload!TypeOK
<1>4. RequestsInv'
  BY <1>1, <1>2 DEF UploadInv, RequestsInv
<1>5. ProgressInv' /\ PartInv' /\ Upload!SafePrefix' /\ Upload!CommittedIsWhole'
  BY <1>1, <1>2
  DEF UploadInv, ProgressInv, PartInv, Upload!SafePrefix, Upload!CommittedIsWhole, Settled, Whole
<1> QED
  BY <1>3, <1>4, <1>5 DEF UploadInv

LEMMA OrphanKeeps ==
  ASSUME UploadInv, NEW i \in Upload!Chunks, Upload!ExecuteOrphan(i)
  PROVE  UploadInv'
<1> USE DEF Upload!ExecuteOrphan, Upload!setting, Upload!outcome, Upload!requests
<1>1. Upload!TypeOK'
  BY WriteExtendsPart DEF UploadInv, Upload!TypeOK
<1>2. RequestsInv' /\ ProgressInv'
  BY WriteExtendsPart DEF UploadInv, RequestsInv, ProgressInv, FirstGap
<1>3. torn \/ upPhase \in {"writing", "stopped"}
  BY DEF UploadInv, PartInv
<1>4. PartInv' /\ Upload!SafePrefix' /\ Upload!CommittedIsWhole'
  BY <1>3, WriteExtendsPart DEF UploadInv, PartInv, Upload!SafePrefix, Upload!CommittedIsWhole
<1> QED
  BY <1>1, <1>2, <1>4 DEF UploadInv

\* The server, the user and the watch of the transport only make an attempt fail.
LEMMA DisturbanceKeeps ==
  ASSUME UploadInv, Upload!SendFails \/ Upload!Cancel \/ Upload!WatchTransfer
  PROVE  UploadInv'
<1> USE DEF Upload!setting, Upload!part, Upload!outcome, Upload!requests
<1>1. /\ UNCHANGED <<upOverwrite, posix, upPhase, offset, next, sent, answered, acked, orphans, present,
                     partSize, stored, upDest, transferred, torn, upAttempts>>
      /\ upPhase # "idle"
      /\ failed' \in {TRUE, failed} /\ upEnded' \in {TRUE, upEnded} /\ upTransport' \in {FALSE, upTransport}
  BY DEF Upload!SendFails, Upload!Cancel, Upload!WatchTransfer
<1> (failed => failed') /\ (~upTransport => ~upTransport')
  BY DEF Upload!SendFails, Upload!Cancel, Upload!WatchTransfer
<1>2. Upload!TypeOK'
  BY <1>1 DEF UploadInv, Upload!TypeOK
<1>3. RequestsInv' /\ ProgressInv'
  BY <1>1 DEF UploadInv, RequestsInv, ProgressInv, FirstGap
<1>4. PartInv'
  BY <1>1 DEF UploadInv, PartInv
<1>5. Upload!SafePrefix' /\ Upload!CommittedIsWhole'
  BY <1>1 DEF UploadInv, Upload!SafePrefix, Upload!CommittedIsWhole
<1> QED
  BY <1>2, <1>3, <1>4, <1>5 DEF UploadInv

LEMMA SettleKeeps ==
  ASSUME UploadInv, Upload!Settle
  PROVE  UploadInv'
<1> USE UploadConstants DEF Upload!Settle, Upload!setting, Upload!part, Upload!requests
<1>1. Upload!Safe \in offset .. UploadSize /\ FirstGap(acked, offset, Upload!Safe)
  BY SafeIsFirstGap
<1>2. transferred' \in 0 .. UploadSize /\ upPhase' \in {"stopped", "syncing"}
  BY <1>1 DEF UploadInv, Upload!TypeOK
<1>3. Upload!TypeOK'
  BY <1>2 DEF UploadInv, Upload!TypeOK, Upload!Phases
<1>4. RequestsInv'
  BY DEF UploadInv, RequestsInv
<1>5. ProgressInv'
  BY <1>1, <1>2 DEF ProgressInv, Settled, Whole, FirstGap
<1>6. PartInv'
  BY <1>2 DEF UploadInv, PartInv, Upload!Stopping
<1>7. Upload!SafePrefix' /\ Upload!CommittedIsWhole'
  BY <1>2 DEF UploadInv, Upload!SafePrefix, Upload!CommittedIsWhole
<1> QED
  BY <1>3, <1>4, <1>5, <1>6, <1>7 DEF UploadInv

LEMMA TruncateKeeps ==
  ASSUME UploadInv, Upload!TruncateTail
  PROVE  UploadInv'
<1> USE UploadConstants DEF Upload!TruncateTail, Upload!setting, Upload!requests
<1>1. /\ Upload!Safe \in offset .. UploadSize /\ FirstGap(acked, offset, Upload!Safe)
      /\ FirstGap(acked, offset, transferred)
  BY SafeIsFirstGap DEF UploadInv, ProgressInv, Settled
<1>2. Upload!Safe = transferred
  BY <1>1, GapIsUnique DEF UploadInv, Upload!TypeOK
<1>3. Upload!TypeOK'
  BY <1>1, <1>2 DEF UploadInv, Upload!TypeOK, Upload!Phases
<1>4. RequestsInv' /\ ProgressInv'
  BY DEF UploadInv, RequestsInv, ProgressInv, Settled, Whole
<1>5. PartInv'
  BY DEF UploadInv, PartInv, Upload!TypeOK
<1>6. Upload!SafePrefix'
  <2> SUFFICES ASSUME ~torn' PROVE 0 .. partSize' - 1 \subseteq stored' /\ transferred' <= partSize'
    BY DEF Upload!SafePrefix
  <2>1. /\ partSize' = transferred /\ transferred' = transferred /\ transferred \in Nat
        /\ stored' = stored \cap (0 .. transferred - 1) /\ ~torn
    BY <1>2 DEF UploadInv, Upload!TypeOK
  <2>2. 0 .. offset - 1 \subseteq stored /\ offset .. transferred - 1 \subseteq stored /\ offset \in Nat
    BY <1>1, <2>1 DEF UploadInv, PartInv, RequestsInv, FirstGap, Upload!TypeOK
  <2> QED
    BY <2>1, <2>2
<1>7. Upload!CommittedIsWhole'
  BY DEF UploadInv, Upload!CommittedIsWhole
<1> QED
  BY <1>3, <1>4, <1>5, <1>6, <1>7 DEF UploadInv

\* A part of which every chunk was acknowledged is the whole file.
LEMMA WholePart ==
  ASSUME UploadInv, upPhase \in Whole, ~torn
  PROVE  stored = Upload!Chunks /\ partSize = UploadSize /\ transferred = UploadSize
<1>1. transferred = UploadSize /\ FirstGap(acked, offset, UploadSize)
  BY DEF UploadInv, ProgressInv, Whole, Settled
<1>2. 0 .. offset - 1 \subseteq stored /\ offset .. UploadSize - 1 \subseteq stored
  BY <1>1 DEF UploadInv, PartInv, RequestsInv, FirstGap, Whole
<1>3. /\ offset \in Nat /\ partSize \in 0 .. UploadSize /\ stored \subseteq 0 .. partSize - 1
      /\ UploadSize \in Nat \ {0}
  BY UploadConstants DEF UploadInv, Upload!TypeOK
<1>4. 0 .. UploadSize - 1 \subseteq stored
  BY <1>2, <1>3
<1>5. UploadSize - 1 \in stored
  BY <1>3, <1>4
<1>6. partSize = UploadSize
  BY <1>3, <1>5
<1> QED
  BY <1>1, <1>3, <1>4, <1>6 DEF Upload!Chunks

LEMMA EndKeeps ==
  ASSUME UploadInv,
         \/ Upload!Sync \/ Upload!SyncRefused \/ Upload!CommitFails \/ Upload!RemoveOld
  PROVE  UploadInv'
<1> USE DEF Upload!setting, Upload!part, Upload!outcome, Upload!requests
<1>1. /\ UNCHANGED <<upOverwrite, posix, offset, next, sent, answered, acked, failed, upEnded, upTransport,
                     orphans, present, partSize, stored, transferred, torn, upAttempts>>
      /\ upPhase \in Whole /\ upPhase' \in {"idle", "committing", "replacing"}
      /\ upDest' \in {upDest, "none"}
  BY DEF Upload!Sync, Upload!SyncRefused, Upload!CommitFails, Upload!RemoveOld, Whole
<1>2. Upload!TypeOK'
  BY <1>1 DEF UploadInv, Upload!TypeOK, Upload!Phases
<1>3. RequestsInv' /\ ProgressInv'
  BY <1>1 DEF UploadInv, RequestsInv, ProgressInv, FirstGap, Whole, Settled
<1>4. PartInv'
  BY <1>1 DEF UploadInv, PartInv, Whole
<1>5. Upload!SafePrefix'
  BY <1>1, WholePart, UploadConstants DEF Upload!SafePrefix, Upload!Chunks
<1>6. Upload!CommittedIsWhole'
  BY <1>1 DEF UploadInv, Upload!CommittedIsWhole
<1> QED
  BY <1>2, <1>3, <1>4, <1>5, <1>6 DEF UploadInv

LEMMA RenameKeeps ==
  ASSUME UploadInv, Upload!Commit \/ Upload!RenameOverRemoved
  PROVE  UploadInv'
<1> USE DEF Upload!setting, Upload!requests, Upload!Rename
<1>1. /\ UNCHANGED <<upOverwrite, posix, offset, next, sent, answered, acked, failed, upEnded, upTransport,
                     transferred, torn, upAttempts>>
      /\ upPhase \in Whole /\ upPhase' = "idle"
      /\ upDest' = Upload!Contents /\ present' = FALSE /\ partSize' = 0 /\ stored' = {} /\ orphans' = {}
  BY DEF Upload!Commit, Upload!RenameOverRemoved, Whole
<1>2. Upload!TypeOK'
  <2>1. /\ partSize' \in 0 .. UploadSize /\ stored' \subseteq 0 .. partSize' - 1
        /\ orphans' \subseteq Upload!Chunks /\ upPhase' \in Upload!Phases
        /\ upDest' \in {"whole", "corrupt"}
    BY <1>1, UploadConstants DEF Upload!Phases, Upload!Contents
  <2>2. present' \in BOOLEAN
    BY <1>1
  <2> QED
    BY <1>1, <2>1, <2>2 DEF UploadInv, Upload!TypeOK
<1>3. RequestsInv' /\ ProgressInv' /\ PartInv' /\ Upload!SafePrefix'
  BY <1>1 DEF UploadInv, RequestsInv, ProgressInv, PartInv, Upload!SafePrefix, Whole, Settled
<1>4. Upload!CommittedIsWhole'
  BY <1>1, WholePart DEF Upload!CommittedIsWhole, Upload!Contents
<1> QED
  BY <1>2, <1>3, <1>4 DEF UploadInv

LEMMA UploadStep == UploadInv /\ Upload!Next => UploadInv'
<1> SUFFICES ASSUME UploadInv, Upload!Next PROVE UploadInv'
  OBVIOUS
<1>1. CASE \E again \in BOOLEAN : Upload!Begin(again)
  BY <1>1, BeginKeeps
<1>2. ASSUME NEW i \in Upload!Chunks,
             \/ Upload!Execute(i) \/ Upload!Refuse(i) \/ Upload!Answer(i) \/ Upload!BreakRequest(i)
             \/ Upload!ExecuteOrphan(i)
      PROVE  UploadInv'
  BY <1>2, ExecuteKeeps, AnswerKeeps, LostRequestKeeps, OrphanKeeps
<1> QED
  BY <1>1, <1>2, SendKeeps, DisturbanceKeeps, SettleKeeps, TruncateKeeps, EndKeeps, RenameKeeps
  DEF Upload!Next

LEMMA UploadInvariant == MCSpec => []UploadInv
<1>1. MCInit => UploadInv
  BY UploadInit DEF MCInit
<1>2. UploadInv /\ [MCNext]_allVars => UploadInv'
  <2> SUFFICES ASSUME UploadInv, [MCNext]_allVars PROVE UploadInv'
    OBVIOUS
  <2>1. Upload!Next \/ UNCHANGED uploadVars
    BY DEF MCNext, Only, allVars
  <2> QED
    BY <2>1, UploadStep, UploadStutters
<1> QED
  BY <1>1, <1>2, PTL DEF MCSpec

\* Whatever order the requests were executed and answered in, and wherever an
\* attempt was cancelled or failed, a part that was not torn has no hole and is at
\* least as long as the progress says (upload.go:678 goes on from its size).
THEOREM ResumedPartsHaveNoHoles == MCSpec => []SafePrefix
<1>1. UploadInv => SafePrefix
  BY DEF UploadInv, SafePrefix
<1> QED
  BY <1>1, UploadInvariant, PTL

\* What an upload or a download puts in place is whole and of one version, for any
\* size of the file and any number of interrupted attempts.
THEOREM CommittedFilesAreWhole == MCSpec => []CommittedWhole
<1>1. UploadInv /\ DownloadInv => CommittedWhole
  BY DEF UploadInv, DownloadInv, CommittedWhole
<1> QED
  BY <1>1, UploadInvariant, DownloadInvariant, PTL

\* How much an attempt has left to do, and how far the request for a chunk has come:
\* not handed out, on its way, executed, over.
PhaseLeft ==
  [idle |-> 0, stopped |-> 1, replacing |-> 1, committing |-> 2, syncing |-> 3, writing |-> 4]

RequestStage(i) ==
  IF i \in sent THEN 1 ELSE IF i \in answered THEN 2 ELSE IF i < next THEN 3 ELSE 0

\* An attempt goes on to a later phase, or stays, with its requests and its transport no
\* less far than before.
AttemptMovesOn ==
  upPhase # "idle" =>
    \/ PhaseLeft[upPhase'] < PhaseLeft[upPhase]
    \/ /\ upPhase' = upPhase /\ offset' = offset /\ (upTransport' => upTransport)
       /\ \A i \in Upload!Chunks : RequestStage(i) <= RequestStage(i)'

LEMMA RequestsGoForward ==
  ASSUME UploadInv, upPhase # "idle", NEW i \in Upload!Chunks,
         Upload!Execute(i) \/ Upload!Refuse(i) \/ Upload!Answer(i) \/ Upload!BreakRequest(i)
  PROVE  AttemptMovesOn
<1>1. sent \cup answered \subseteq offset .. next - 1 /\ sent \cap answered = {}
  BY DEF UploadInv, RequestsInv
<1>2. offset \in Nat /\ next \in Nat /\ i \in Nat
  BY UploadConstants DEF UploadInv, Upload!TypeOK, Upload!Chunks
<1>3. UNCHANGED <<upPhase, offset, next, upTransport>>
  BY DEF Upload!Execute, Upload!Refuse, Upload!Answer, Upload!BreakRequest
<1>4. ASSUME NEW k \in Upload!Chunks PROVE RequestStage(k) <= RequestStage(k)'
  <2>1. CASE k # i
    BY <1>3, <2>1
    DEF Upload!Execute, Upload!Refuse, Upload!Answer, Upload!BreakRequest, RequestStage
  <2>2. CASE k = i
    BY <1>1, <1>2, <1>3, <2>2
    DEF Upload!Execute, Upload!Refuse, Upload!Answer, Upload!BreakRequest, RequestStage
  <2> QED
    BY <2>1, <2>2
<1> QED
  BY <1>3, <1>4 DEF AttemptMovesOn

LEMMA AttemptStep ==
  ASSUME UploadInv, Upload!Next \/ UNCHANGED uploadVars
  PROVE  AttemptMovesOn
<1> SUFFICES ASSUME upPhase # "idle"
             PROVE  AttemptMovesOn
  BY DEF AttemptMovesOn
<1>1. CASE \E i \in Upload!Chunks :
             Upload!Execute(i) \/ Upload!Refuse(i) \/ Upload!Answer(i) \/ Upload!BreakRequest(i)
  BY <1>1, RequestsGoForward
<1>2. CASE Upload!Send
  <2>1. offset \in Nat /\ next \in Nat /\ next' = next + 1 /\ sent' = sent \cup {next}
        /\ UNCHANGED <<upPhase, offset, answered, upTransport>>
    BY <1>2, UploadConstants DEF Upload!Send, UploadInv, Upload!TypeOK
  <2>2. sent \cup answered \subseteq offset .. next - 1
    BY DEF UploadInv, RequestsInv
  <2>3. ASSUME NEW i \in Upload!Chunks PROVE RequestStage(i) <= RequestStage(i)'
    <3>1. i \in Nat
      BY UploadConstants DEF Upload!Chunks
    <3>2. CASE i = next
      BY <2>1, <2>2, <3>2 DEF RequestStage
    <3>3. CASE i # next
      BY <2>1, <2>2, <3>1, <3>3 DEF RequestStage
    <3> QED
      BY <3>2, <3>3
  <2> QED
    BY <2>1, <2>3 DEF AttemptMovesOn
<1>3. CASE UNCHANGED <<upPhase, offset, next, sent, answered>> /\ (upTransport' => upTransport)
  <2>1. ASSUME NEW i \in Upload!Chunks PROVE RequestStage(i) <= RequestStage(i)'
    BY <1>3 DEF RequestStage
  <2> QED
    BY <1>3, <2>1 DEF AttemptMovesOn
<1>4. CASE \/ Upload!Settle \/ Upload!TruncateTail \/ Upload!Sync \/ Upload!SyncRefused
           \/ Upload!Commit \/ Upload!RemoveOld \/ Upload!RenameOverRemoved \/ Upload!CommitFails
  <2>1. PhaseLeft[upPhase'] < PhaseLeft[upPhase]
    BY <1>4
    DEF Upload!Settle, Upload!TruncateTail, Upload!Sync, Upload!SyncRefused, Upload!Commit,
        Upload!RemoveOld, Upload!RenameOverRemoved, Upload!CommitFails, Upload!Rename, PhaseLeft
  <2> QED
    BY <2>1 DEF AttemptMovesOn
<1>5. CASE \/ Upload!SendFails \/ Upload!Cancel \/ Upload!WatchTransfer \/ UNCHANGED uploadVars
           \/ \E i \in Upload!Chunks : Upload!ExecuteOrphan(i)
  <2>1. UNCHANGED <<upPhase, offset, next, sent, answered>> /\ (upTransport' => upTransport)
    BY <1>5
    DEF Upload!SendFails, Upload!Cancel, Upload!WatchTransfer, Upload!ExecuteOrphan,
        Upload!requests, uploadVars
  <2> QED
    BY <1>3, <2>1
<1>6. ~\E again \in BOOLEAN : Upload!Begin(again)
  BY DEF Upload!Begin
<1> QED
  BY <1>1, <1>2, <1>4, <1>5, <1>6 DEF Upload!Next

\* The safety half of AttemptEnds: within an attempt no chunk is sent twice and no request that
\* is over comes back, and no phase is gone through again, whatever the server, late answers,
\* cancels and the watch do (upload.go:632, :782).
THEOREM AttemptsCannotSpin == MCSpec => [][AttemptMovesOn]_allVars
<1>1. UploadInv /\ [MCNext]_allVars => AttemptMovesOn
  <2> SUFFICES ASSUME UploadInv, [MCNext]_allVars PROVE AttemptMovesOn
    OBVIOUS
  <2>1. Upload!Next \/ UNCHANGED uploadVars
    BY DEF MCNext, Only, allVars
  <2> QED
    BY <2>1, AttemptStep
<1> QED
  BY <1>1, UploadInvariant, PTL DEF MCSpec

-----------------------------------------------------------------------------
(* The plan of a transfer                                                  *)

Scanned == 1 .. turn - 1

\* An entry comes from a selected item that can be transferred.
EntriesComeFromItems ==
  \A e \in entries :
    /\ \E i \in Scanned : e.source = selection[i]
    /\ ~Planning!Unsupported(e.source) /\ e \in Planning!Entries(e.source)

\* The keys are those of the items so far, and for each of them one item has been
\* entered as a whole.
ItemsAreEntered ==
  /\ scanned = {Planning!SourceKey(selection[i]) : i \in Scanned}
  /\ \A i \in Scanned : \E j \in Scanned :
       /\ Planning!SourceKey(selection[j]) = Planning!SourceKey(selection[i])
       /\ ~Planning!Unsupported(selection[j])
       /\ Planning!Entries(selection[j]) \subseteq entries

\* No item was entered under two spellings, no two entries go to one place.
EntriesDiffer ==
  \A e, f \in entries :
    /\ Planning!SourceKey(e.source) = Planning!SourceKey(f.source) => e.source = f.source
    /\ e # f => Planning!Destination(e) # Planning!Destination(f)

NothingIsLost ==
  \A x \in existing : verdict = "ready" => (x[1].folder <=> x[2]) /\ (mayReplace \/ x[2])

PlanInv ==
  /\ Planning!TypeOK
  /\ direction = "none" => turn = 1 /\ entries = {} /\ scanned = {} /\ verdict = "scanning"
  /\ direction = "none" => existing = {}
  /\ verdict # "refused" => EntriesComeFromItems /\ ItemsAreEntered /\ EntriesDiffer
  /\ verdict = "ready" => turn = Len(selection) + 1
  /\ NothingIsLost

LEMMA PlanInit == Planning!Init => PlanInv
<1> SUFFICES ASSUME Planning!Init PROVE PlanInv
  OBVIOUS
<1> USE DEF Planning!Init
<1>1. Planning!TypeOK
  <2>1. selection \in Seq(Planning!Paths) /\ turn \in 1 .. Len(selection) + 1
    OBVIOUS
  <2>2. disk \in [Planning!Paths -> Planning!Kinds]
    BY DEF Planning!Kinds
  <2> QED
    BY <2>1, <2>2 DEF Planning!TypeOK
<1>2. Scanned = {}
  BY DEF Scanned
<1>3. EntriesComeFromItems /\ ItemsAreEntered /\ EntriesDiffer /\ NothingIsLost
  BY <1>2 DEF EntriesComeFromItems, ItemsAreEntered, EntriesDiffer, NothingIsLost
<1> QED
  BY <1>1, <1>3 DEF PlanInv

\* Spellings at a path of the local disk; Kind looks at one of them.
Spellings(p) == {q \in Planning!Paths : Planning!SameLocal(p, q) /\ disk[q] # "none"}
OneOf(S) == CHOOSE q \in S : TRUE

LEMMA KindByDefinition ==
  \A p : Planning!Kind(p) = IF direction = "download" THEN disk[p]
                            ELSE IF Spellings(p) = {} THEN "none" ELSE disk[OneOf(Spellings(p))]
BY DEF Planning!Kind, Spellings, OneOf

\* What is read stays the same during a plan.
LEMMA ReadingIsStable ==
  ASSUME UNCHANGED <<direction, disk>>
  PROVE  /\ \A p : /\ Planning!Kind(p)' = Planning!Kind(p)
                   /\ Planning!SourceKey(p)' = Planning!SourceKey(p)
                   /\ Planning!Unsupported(p)' = Planning!Unsupported(p)
                   /\ Planning!Entries(p)' = Planning!Entries(p)
         /\ \A e : Planning!Destination(e)' = Planning!Destination(e)
<1>1. ASSUME NEW p PROVE Planning!Kind(p)' = Planning!Kind(p)
  <2>1. Spellings(p)' = Spellings(p)
    BY DEF Spellings
  <2>2. Planning!Kind(p)' = IF direction' = "download" THEN disk'[p]
                            ELSE IF Spellings(p)' = {} THEN "none" ELSE disk'[OneOf(Spellings(p)')]
    BY DEF Planning!Kind, Spellings, OneOf
  <2>3. Planning!Kind(p) = IF direction = "download" THEN disk[p]
                           ELSE IF Spellings(p) = {} THEN "none" ELSE disk[OneOf(Spellings(p))]
    BY KindByDefinition
  <2> QED
    BY <2>1, <2>2, <2>3
<1>2. ASSUME NEW p PROVE Planning!SourceKey(p)' = Planning!SourceKey(p)
  BY DEF Planning!SourceKey
<1>3. ASSUME NEW p PROVE Planning!Unsupported(p)' = Planning!Unsupported(p)
  BY <1>1 DEF Planning!Unsupported
<1>4. ASSUME NEW p PROVE Planning!Entries(p)' = Planning!Entries(p)
  BY <1>1 DEF Planning!Entries
<1>5. ASSUME NEW e PROVE Planning!Destination(e)' = Planning!Destination(e)
  BY DEF Planning!Destination
<1> QED
  BY <1>1, <1>2, <1>3, <1>4, <1>5

LEMMA PlanStutters == PlanInv /\ UNCHANGED planVars => PlanInv'
<1> SUFFICES ASSUME PlanInv, UNCHANGED planVars PROVE PlanInv'
  OBVIOUS
<1> USE DEF planVars
<1>1. EntriesComeFromItems => EntriesComeFromItems'
  BY ReadingIsStable DEF EntriesComeFromItems, Scanned
<1>2. ItemsAreEntered => ItemsAreEntered'
  BY ReadingIsStable DEF ItemsAreEntered, Scanned
<1>3. EntriesDiffer => EntriesDiffer'
  BY ReadingIsStable DEF EntriesDiffer
<1> QED
  BY <1>1, <1>2, <1>3 DEF PlanInv, Planning!TypeOK, NothingIsLost

LEMMA EntriesOfItem ==
  ASSUME NEW p, NEW e \in Planning!Entries(p)
  PROVE  /\ e.source = p /\ e.folder \in BOOLEAN
         /\ \E rest : e = Planning!Entry(p, rest, e.folder) /\ (rest = <<>> \/ \E n : rest = <<n>>)
<1>1. ASSUME NEW rest, NEW folder \in BOOLEAN, e = Planning!Entry(p, rest, folder),
             rest = <<>> \/ \E n : rest = <<n>>
      PROVE  /\ e.source = p /\ e.folder \in BOOLEAN
             /\ e = Planning!Entry(p, rest, e.folder) /\ (rest = <<>> \/ \E n : rest = <<n>>)
  BY <1>1 DEF Planning!Entry
<1>2. CASE e = Planning!Entry(p, <<>>, FALSE) \/ e = Planning!Entry(p, <<>>, TRUE)
  BY <1>1, <1>2
<1>3. ASSUME NEW n, e = Planning!Entry(p, <<n>>, FALSE)
      PROVE  /\ e.source = p /\ e.folder \in BOOLEAN
             /\ \E rest : e = Planning!Entry(p, rest, e.folder) /\ (rest = <<>> \/ \E m : rest = <<m>>)
  BY <1>1, <1>3
<1>4. \/ e = Planning!Entry(p, <<>>, FALSE) \/ e = Planning!Entry(p, <<>>, TRUE)
      \/ \E n : e = Planning!Entry(p, <<n>>, FALSE)
  BY DEF Planning!Entries
<1> QED
  BY <1>2, <1>3, <1>4

LEMMA RequestKeepsPlan ==
  ASSUME PlanInv, Planning!Request
  PROVE  PlanInv'
<1> USE DEF Planning!Request
<1>1. /\ turn' = 1 /\ entries' = {} /\ scanned' = {} /\ existing' = {} /\ verdict' = "scanning"
      /\ direction' \in {"upload", "download"} /\ mayReplace' \in BOOLEAN
  BY DEF PlanInv
<1>2. selection' \in Seq(Planning!Paths) /\ disk' \in [Planning!Paths -> Planning!Kinds]
  BY DEF Planning!Disks
<1>3. Planning!TypeOK'
  BY <1>1, <1>2 DEF Planning!TypeOK
<1>4. Scanned' = {}
  BY <1>1 DEF Scanned
<1>5. EntriesComeFromItems' /\ ItemsAreEntered' /\ EntriesDiffer' /\ NothingIsLost'
  BY <1>1, <1>4 DEF EntriesComeFromItems, ItemsAreEntered, EntriesDiffer, NothingIsLost
<1> QED
  BY <1>1, <1>3, <1>5 DEF PlanInv

LEMMA ScanKeepsPlan ==
  ASSUME PlanInv, Planning!Scan
  PROVE  PlanInv'
<1> DEFINE p == selection[turn]
<1> USE DEF Planning!Scan
<1>1. /\ UNCHANGED <<direction, disk, mayReplace, selection, existing>> /\ verdict = "scanning"
      /\ direction # "none" /\ turn \in 1 .. Len(selection) /\ turn' = turn + 1 /\ p \in Planning!Paths
      /\ scanned' = scanned \cup {Planning!SourceKey(p)}
  BY DEF PlanInv, Planning!TypeOK
<1>2. Scanned' = Scanned \cup {turn} /\ Scanned \subseteq Scanned' /\ turn \in Scanned'
  BY <1>1 DEF Scanned
<1>3. EntriesComeFromItems /\ ItemsAreEntered /\ EntriesDiffer
  BY <1>1 DEF PlanInv
<1>4. NothingIsLost'
  <2>1. existing = {} \/ verdict' # "ready"
    BY <1>1
  <2> QED
    BY <2>1, <1>1 DEF NothingIsLost
<1>5. turn' \in 1 .. Len(selection') + 1 /\ verdict' \in {"scanning", "refused"}
  BY <1>1
<1>6. CASE Planning!SourceKey(p) \in scanned
  <2>1. UNCHANGED <<entries, verdict>>
    BY <1>6
  <2>2. Planning!TypeOK'
    BY <2>1, <1>1, <1>5 DEF PlanInv, Planning!TypeOK
  <2>3. EntriesComeFromItems'
    BY <2>1, <1>1, <1>2, <1>3, ReadingIsStable DEF EntriesComeFromItems
  <2>4. ItemsAreEntered'
    <3>1. PICK i \in Scanned : Planning!SourceKey(selection[i]) = Planning!SourceKey(p)
      BY <1>3, <1>6 DEF ItemsAreEntered
    <3>2. scanned' = {Planning!SourceKey(selection[k]) : k \in Scanned'}
      BY <1>1, <1>2, <1>3 DEF ItemsAreEntered
    <3>3. \A k \in Scanned' : \E j \in Scanned :
            /\ Planning!SourceKey(selection[j]) = Planning!SourceKey(selection[k])
            /\ ~Planning!Unsupported(selection[j])
            /\ Planning!Entries(selection[j]) \subseteq entries
      BY <3>1, <1>2, <1>3 DEF ItemsAreEntered
    <3> QED
      BY <3>2, <3>3, <2>1, <1>1, <1>2, ReadingIsStable DEF ItemsAreEntered
  <2>5. EntriesDiffer'
    BY <2>1, <1>1, <1>3, ReadingIsStable DEF EntriesDiffer
  <2> QED
    BY <2>1, <2>2, <2>3, <2>4, <2>5, <1>1, <1>4 DEF PlanInv
<1>7. CASE /\ Planning!SourceKey(p) \notin scanned
           /\ Planning!Unsupported(p) \/ Planning!Conflicting(Planning!Entries(p))
  <2>1. verdict' = "refused" /\ UNCHANGED entries
    BY <1>7
  <2>2. Planning!TypeOK'
    BY <2>1, <1>1, <1>5 DEF PlanInv, Planning!TypeOK
  <2> QED
    BY <2>1, <2>2, <1>1, <1>4 DEF PlanInv
<1>8. CASE /\ Planning!SourceKey(p) \notin scanned
           /\ ~Planning!Unsupported(p) /\ ~Planning!Conflicting(Planning!Entries(p))
  <2>1. entries' = entries \cup Planning!Entries(p) /\ UNCHANGED verdict
    BY <1>8
  <2>2. Planning!TypeOK'
    BY <2>1, <1>1, <1>5, EntriesOfItem DEF PlanInv, Planning!TypeOK
  <2>3. EntriesComeFromItems'
    <3>1. \A e \in entries' : /\ \E i \in Scanned' : e.source = selection[i]
                             /\ ~Planning!Unsupported(e.source) /\ e \in Planning!Entries(e.source)
      BY <2>1, <1>2, <1>3, <1>8, EntriesOfItem DEF EntriesComeFromItems
    <3> QED
      BY <3>1, <1>1, ReadingIsStable DEF EntriesComeFromItems
  <2>4. ItemsAreEntered'
    <3>1. scanned' = {Planning!SourceKey(selection[k]) : k \in Scanned'}
      BY <1>1, <1>2, <1>3 DEF ItemsAreEntered
    <3>2. \A k \in Scanned' : \E j \in Scanned' :
            /\ Planning!SourceKey(selection[j]) = Planning!SourceKey(selection[k])
            /\ ~Planning!Unsupported(selection[j])
            /\ Planning!Entries(selection[j]) \subseteq entries'
      BY <2>1, <1>2, <1>3, <1>8 DEF ItemsAreEntered
    <3> QED
      BY <3>1, <3>2, <1>1, ReadingIsStable DEF ItemsAreEntered
  <2>5. \A e \in entries, f \in Planning!Entries(p) :
          /\ Planning!SourceKey(e.source) # Planning!SourceKey(f.source)
          /\ Planning!Destination(e) # Planning!Destination(f)
    <3> TAKE e \in entries, f \in Planning!Entries(p)
    <3>1. Planning!SourceKey(e.source) \in scanned
      BY <1>3 DEF EntriesComeFromItems, ItemsAreEntered
    <3> QED
      BY <3>1, <1>8, EntriesOfItem DEF Planning!Conflicting
  <2>6. \A e, f \in Planning!Entries(p) :
          e.source = f.source /\ (e # f => Planning!Destination(e) # Planning!Destination(f))
    BY <1>8, EntriesOfItem DEF Planning!Conflicting
  <2>7. EntriesDiffer'
    <3>1. \A e, f \in entries' :
            /\ Planning!SourceKey(e.source) = Planning!SourceKey(f.source) => e.source = f.source
            /\ e # f => Planning!Destination(e) # Planning!Destination(f)
      BY <2>1, <2>5, <2>6, <1>3 DEF EntriesDiffer
    <3> QED
      BY <3>1, <1>1, ReadingIsStable DEF EntriesDiffer
  <2> QED
    BY <2>1, <2>2, <2>3, <2>4, <2>7, <1>1, <1>4 DEF PlanInv
<1> QED
  BY <1>6, <1>7, <1>8

LEMMA PreflightKeepsPlan ==
  ASSUME PlanInv, Planning!Preflight
  PROVE  PlanInv'
<1> USE DEF Planning!Preflight
<1>1. /\ UNCHANGED <<direction, mayReplace, disk, selection, turn, scanned, entries>>
      /\ direction # "none" /\ verdict = "scanning" /\ verdict' \in {"refused", "ready"}
      /\ turn > Len(selection)
  OBVIOUS
<1>2. Planning!TypeOK'
  BY <1>1 DEF PlanInv, Planning!TypeOK
<1>3. EntriesComeFromItems' /\ ItemsAreEntered' /\ EntriesDiffer'
  BY <1>1, ReadingIsStable DEF PlanInv, EntriesComeFromItems, ItemsAreEntered, EntriesDiffer, Scanned
<1>4. turn' = Len(selection') + 1
  BY <1>1 DEF PlanInv, Planning!TypeOK
<1>5. NothingIsLost'
  <2> SUFFICES ASSUME NEW x \in existing', verdict' = "ready"
               PROVE  (x[1].folder <=> x[2]) /\ (mayReplace' \/ x[2])
    BY DEF NothingIsLost
  <2>1. PICK e \in entries, folder \in BOOLEAN : x = <<e, folder>>
    OBVIOUS
  <2>2. ~Planning!Conflict(x[1], x[2])
    OBVIOUS
  <2>3. e.folder \in BOOLEAN /\ x[1] = e /\ x[2] = folder
    BY <2>1 DEF PlanInv, Planning!TypeOK
  <2> QED
    BY <2>2, <2>3, <1>1 DEF Planning!Conflict
<1> QED
  BY <1>1, <1>2, <1>3, <1>4, <1>5 DEF PlanInv

LEMMA PlanInvariant == MCSpec => []PlanInv
<1>1. MCInit => PlanInv
  BY PlanInit DEF MCInit
<1>2. PlanInv /\ [MCNext]_allVars => PlanInv'
  <2> SUFFICES ASSUME PlanInv, [MCNext]_allVars PROVE PlanInv'
    OBVIOUS
  <2>1. Planning!Next \/ UNCHANGED planVars
    BY DEF MCNext, Only, allVars
  <2> QED
    BY <2>1, RequestKeepsPlan, ScanKeepsPlan, PreflightKeepsPlan, PlanStutters DEF Planning!Next
<1> QED
  BY <1>1, <1>2, PTL DEF MCSpec

\* Two spellings of one item are read as the same.
LEMMA SameItemReadsAlike ==
  ASSUME PlanInv, direction # "none",
         NEW p \in Planning!Paths, NEW q \in Planning!Paths,
         Planning!SourceKey(p) = Planning!SourceKey(q)
  PROVE  Planning!Kind(p) = Planning!Kind(q)
<1>1. CASE direction = "download"
  BY <1>1 DEF Planning!SourceKey
<1>2. CASE direction = "upload"
  <2>1. p[1] = q[1] /\ Lowered(p[2]) = Lowered(q[2])
    BY <1>2 DEF Planning!SourceKey
  <2>2. Spellings(p) = Spellings(q)
    BY <2>1 DEF Spellings, Planning!SameLocal
  <2> QED
    BY <1>2, <2>2, KindByDefinition
<1> QED
  BY <1>1, <1>2 DEF PlanInv, Planning!TypeOK

LEMMA SameSourceIsSameKey ==
  ASSUME PlanInv, direction # "none",
         NEW p \in Planning!Paths, NEW q \in Planning!Paths
  PROVE  Planning!SameSource(p, q) <=> Planning!SourceKey(p) = Planning!SourceKey(q)
BY DEF PlanInv, Planning!TypeOK, Planning!SameSource, Planning!SourceKey, Planning!SameLocal

LEMMA TailOfEntry ==
  ASSUME NEW p, NEW rest, NEW folder, rest = <<>> \/ \E n : rest = <<n>>
  PROVE  Tail(Planning!Entry(p, rest, folder).path) = rest
<1>1. Planning!Entry(p, rest, folder).path = <<p[2]>> \o rest
  BY DEF Planning!Entry
<1>2. ASSUME NEW x PROVE Tail(<<x>> \o <<>>) = <<>>
  OBVIOUS
<1>3. ASSUME NEW x, NEW n PROVE Tail(<<x>> \o <<n>>) = <<n>>
  <2> DEFINE S == {x, n}
  <2>1. <<x>> \o <<n>> = Append(<<x>>, n)
    <3>1. <<x>> \in Seq(S) /\ n \in S
      OBVIOUS
    <3> QED
      BY <3>1, AppendIsConcat
  <2>2. Tail(Append(<<x>>, n)) = <<n>>
    <3>1. <<x>> \in Seq(S) /\ <<x>> # <<>> /\ Tail(<<x>>) = <<>> /\ Append(<<>>, n) = <<n>>
      OBVIOUS
    <3>2. Tail(Append(<<x>>, n)) = IF <<x>> = <<>> THEN <<>> ELSE Append(Tail(<<x>>), n)
      BY <3>1, HeadTailAppend
    <3> QED
      BY <3>1, <3>2
  <2> QED
    BY <2>1, <2>2
<1> QED
  BY <1>1, <1>2, <1>3

\* The files of an item that can be transferred are among its entries.
LEMMA FilesAreEntries ==
  ASSUME PlanInv, direction # "none",
         NEW p \in Planning!Paths, ~Planning!Unsupported(p), NEW rest \in Planning!FilesAt(p)
  PROVE  /\ Planning!Entry(p, rest, FALSE) \in Planning!Entries(p)
         /\ rest = <<>> \/ \E n : rest = <<n>>
<1>1. Planning!Kind(p) \in Planning!Kinds
  <2>1. disk \in [Planning!Paths -> Planning!Kinds]
    BY DEF PlanInv, Planning!TypeOK
  <2>2. Spellings(p) # {} => OneOf(Spellings(p)) \in Planning!Paths
    BY DEF Spellings, OneOf
  <2> QED
    BY <2>1, <2>2, KindByDefinition DEF Planning!Kinds
<1>2. Planning!Kind(p) \notin {"none", "link", "linked"}
  BY DEF Planning!Unsupported
<1>3. CASE Planning!Kind(p) = "file"
  BY <1>3 DEF Planning!FilesAt, Planning!Entries, Planning!IsFolder, Planning!Content
<1>4. CASE Planning!Kind(p) # "file"
  <2>1. Planning!IsFolder(Planning!Kind(p))
    BY <1>1, <1>2, <1>4 DEF Planning!IsFolder, Planning!Content, Planning!Kinds
  <2>2. PICK n \in Planning!Content[Planning!Kind(p)] : rest = <<n>>
    BY <1>4 DEF Planning!FilesAt
  <2> QED
    BY <2>1, <2>2 DEF Planning!Entries
<1> QED
  BY <1>3, <1>4

LEMMA SamePlanCardinality == ASSUME NEW S PROVE Planning!Cardinality(S) = Cardinality(S)
  BY DEF Planning!Cardinality, Cardinality

\* The plan that is carried out has every file of every selected item once, in
\* whatever spelling and however often the item was selected, no two entries that
\* fall together on the other side, and replaces only what the user allowed
\* (upload.go:544, download.go:541).
THEOREM PlansAreWhole == MCSpec => []PlanIsWhole
<1>1. ASSUME PlanInv, verdict = "ready" PROVE PlanIsWhole
  <2>1. direction # "none" /\ direction \in {"upload", "download", "none"}
        /\ selection \in Seq(Planning!Paths) /\ Scanned = DOMAIN selection
    BY <1>1 DEF PlanInv, Planning!TypeOK, Scanned
  <2>2. EntriesComeFromItems /\ ItemsAreEntered /\ EntriesDiffer
    BY <1>1 DEF PlanInv
  <2>3. ASSUME NEW i \in DOMAIN selection, NEW rest \in Planning!FilesAt(selection[i])
        PROVE  Planning!Cardinality({e \in entries :
                  /\ Planning!SameSource(e.source, selection[i])
                  /\ Tail(e.path) = rest /\ ~e.folder}) = 1
    <3> DEFINE p == selection[i]
               Found == {e \in entries : /\ Planning!SameSource(e.source, p)
                                         /\ Tail(e.path) = rest /\ ~e.folder}
    <3>1. p \in Planning!Paths
      BY <2>1
    <3>2. PICK j \in Scanned : /\ Planning!SourceKey(selection[j]) = Planning!SourceKey(p)
                               /\ ~Planning!Unsupported(selection[j])
                               /\ Planning!Entries(selection[j]) \subseteq entries
      BY <2>1, <2>2 DEF ItemsAreEntered
    <3> DEFINE q == selection[j]
               entry == Planning!Entry(q, rest, FALSE)
    <3>3. q \in Planning!Paths
      BY <2>1
    <3>4. rest \in Planning!FilesAt(q)
      BY <1>1, <2>1, <3>1, <3>2, <3>3, SameItemReadsAlike DEF Planning!FilesAt
    <3>5. entry \in Planning!Entries(q) /\ (rest = <<>> \/ \E n : rest = <<n>>)
      BY <1>1, <2>1, <3>2, <3>3, <3>4, FilesAreEntries
    <3>6. entry \in entries /\ entry.source = q /\ ~entry.folder /\ Tail(entry.path) = rest
      BY <3>2, <3>5, TailOfEntry DEF Planning!Entry
    <3>7. entry \in Found
      BY <1>1, <2>1, <3>1, <3>2, <3>3, <3>6, SameSourceIsSameKey
    <3>8. ASSUME NEW e \in Found PROVE e = entry
      <4>1. /\ e \in entries /\ Planning!SameSource(e.source, p) /\ Tail(e.path) = rest /\ ~e.folder
            /\ e.source \in Planning!Paths /\ e \in Planning!Entries(e.source)
        BY <1>1, <2>2 DEF PlanInv, Planning!TypeOK, EntriesComeFromItems
      <4>2. Planning!SourceKey(e.source) = Planning!SourceKey(q)
        BY <1>1, <2>1, <3>1, <3>2, <4>1, SameSourceIsSameKey
      <4>3. e.source = q
        BY <2>2, <3>6, <4>1, <4>2 DEF EntriesDiffer
      <4>4. PICK tail : e = Planning!Entry(q, tail, e.folder) /\ (tail = <<>> \/ \E n : tail = <<n>>)
        BY <4>1, <4>3, EntriesOfItem
      <4>5. tail = rest
        <5>1. Tail(Planning!Entry(q, tail, e.folder).path) = tail
          BY <4>4, TailOfEntry
        <5>2. Tail(e.path) = tail
          BY <4>4, <5>1
        <5> QED
          BY <4>1, <5>2
      <4>6. e.folder = FALSE
        BY <4>1, <4>3, EntriesOfItem
      <4> QED
        BY <4>4, <4>5, <4>6
    <3>9. Found = {entry}
      BY <3>7, <3>8
    <3> HIDE DEF Found, entry
    <3>10. Cardinality(Found) = 1
      BY <3>9, FS_Singleton
    <3> QED
      BY <3>10, SamePlanCardinality DEF Found
  <2>4. \A e, f \in entries : e # f =>
          IF direction = "upload" THEN e.path # f.path ELSE Planning!Fold(e.path) # Planning!Fold(f.path)
    BY <2>2 DEF EntriesDiffer, Planning!Destination
  <2>5. \A e \in entries : \E i \in DOMAIN selection : e.source = selection[i]
    BY <2>1, <2>2 DEF EntriesComeFromItems
  <2>6. \A x \in existing : (x[1].folder <=> x[2]) /\ (mayReplace \/ x[2])
    BY <1>1 DEF PlanInv, NothingIsLost
  <2> QED
    BY <2>3, <2>4, <2>5, <2>6 DEF PlanIsWhole, Planning!PlanIsWhole
<1>2. ASSUME verdict # "ready" PROVE PlanIsWhole
  BY <1>2 DEF PlanIsWhole, Planning!PlanIsWhole
<1>3. PlanInv => PlanIsWhole
  BY <1>1, <1>2
<1> QED
  BY <1>3, PlanInvariant, PTL

-----------------------------------------------------------------------------
(* The types of all of them                                                *)

LEMMA JobsInvariant == MCSpec => []IInv
<1>1. MCInit => Init
  BY DEF MCInit
<1>2. [MCNext]_allVars => [Next]_vars
  BY DEF MCNext, Only, allVars
<1> QED
  BY <1>1, <1>2, InductiveInvariant, PTL DEF MCSpec, Spec

\* Every variable of the ways data takes keeps its type, for any size of a file, of
\* the buffer and of a selection: offsets stay inside the file, cursors inside the
\* output, places inside the code of a job (upload.go:678, manager.go:373,
\* upload.go:250).
THEOREM PathsTyped == MCSpec => []AllTyped
<1>1. IInv /\ UploadInv /\ DownloadInv /\ PoolInv /\ OutputInv /\ PlanInv => AllTyped
  BY DEF IInv, UploadInv, DownloadInv, PoolInv, OutputInv, PlanInv, AllTyped
<1> QED
  BY <1>1, JobsInvariant, UploadInvariant, DownloadInvariant, PoolInvariant, OutputInvariant,
     PlanInvariant, PTL
=============================================================================
