---------------------------- MODULE McpController ----------------------------
(***************************************************************************)
(* The MCP server's life cycle and the resources its clients own:          *)
(* Controller of internal/mcpserver/server.go and the tools of tools.go    *)
(* that create or end something (ssh_session_open, ssh_session_close,      *)
(* file_upload_start, file_download_start and their cancel), with the      *)
(* engine below reduced to which jobs and terminals exist.                 *)
(*                                                                         *)
(* A call is one tool handler.  An administrator is a goroutine of the     *)
(* desktop window inside Start, Stop or RegenerateToken: nothing in app.go *)
(* keeps two of them from running at once.                                 *)
(***************************************************************************)
EXTENDS Naturals, FiniteSets

CONSTANTS Calls, Admins,
          Uploads, Downloads, Sessions,  \* identities of jobs and terminals
          None,
          SessionLimit,   \* 8 in sessionOpen
          MaxServers,     \* bound on the servers started
          MaxTokens       \* bound on the tokens generated

Jobs == Uploads \cup Downloads
Ids == Jobs \cup Sessions

ASSUME ControllerAssumption ==
  /\ Calls \cap Admins = {}
  /\ Uploads \cap Downloads = {} /\ Jobs \cap Sessions = {}
  /\ None \notin Ids
  /\ SessionLimit \in Nat
  /\ MaxServers \in Nat /\ MaxTokens \in Nat

VARIABLES
  server,    \* c.server: the number of the server that listens, or 0
  servers,   \* how many have been started
  token,     \* the token in the secret store
  accepted,  \* the token the running server compares with
  owned,     \* uploadJobs, downloadJobs and sessions of the controller
  live,      \* jobs that are active and not cancelled, terminals not closed
  ended,     \* terminals that are over, still kept for their last output
  pc,        \* where each call and each administrator is
  hand,      \* the resource a call is about
  serves,    \* the server a call, or a Stop, belongs to
  known,     \* the token a Start has read
  renewing,  \* the administrators inside RegenerateToken
  overlapped, \* two of them have been at work at the same time
  hurried    \* a Stop has gone on before every handler was back

store == <<token, accepted>>
engine == <<live, ended>>
history == <<overlapped, hurried>>
vars == <<server, servers, store, owned, engine, pc, hand, serves, known, renewing, history>>

Stopping == {"draining", "uploads", "downloads", "terminals", "quota"}
Places == Stopping \cup {"idle", "limit", "open", "record", "close", "starting",
                         "renewed", "failed"}

TypeOK ==
  /\ server \in 0 .. servers /\ servers \in 0 .. MaxServers
  /\ token \in 1 .. MaxTokens + 1 /\ accepted \in 0 .. token
  /\ owned \subseteq Ids /\ live \subseteq Ids
  /\ ended \subseteq Sessions \ live
  /\ pc \in [Calls \cup Admins -> Places]
  /\ hand \in [Calls -> Ids \cup {None}]
  /\ serves \in [Calls \cup Admins -> 0 .. MaxServers]
  /\ known \in [Admins -> 0 .. token] /\ renewing \subseteq Admins
  /\ overlapped \in BOOLEAN /\ hurried \in BOOLEAN

Init ==
  /\ server = 0 /\ servers = 0 /\ token = 1 /\ accepted = 0
  /\ owned = {} /\ live = {} /\ ended = {}
  /\ pc = [p \in Calls \cup Admins |-> "idle"]
  /\ hand = [c \in Calls |-> None]
  /\ serves = [p \in Calls \cup Admins |-> 0]
  /\ known = [a \in Admins |-> 0] /\ renewing = {}
  /\ overlapped = FALSE /\ hurried = FALSE

Goto(p, place) == pc' = [pc EXCEPT ![p] = place]

Arrives(a) ==
  /\ pc[a] = "idle"
  /\ overlapped' = (overlapped \/ \E b \in Admins : pc[b] # "idle")
  /\ UNCHANGED hurried

CallReturns(c) ==
  /\ Goto(c, "idle")
  /\ hand' = [hand EXCEPT ![c] = None]
  /\ serves' = [serves EXCEPT ![c] = 0]

AdminReturns(a) ==
  /\ Goto(a, "idle")
  /\ serves' = [serves EXCEPT ![a] = 0]
  /\ known' = [known EXCEPT ![a] = 0]
  /\ renewing' = renewing \ {a}

-----------------------------------------------------------------------------
(* Tool calls                                                              *)

\* Identifiers are random: a new one is one nothing refers to.
Fresh(id) ==
  /\ id \notin owned \cup live \cup ended
  /\ \A c \in Calls : hand[c] # id

\* file_upload_start, file_download_start, ssh_session_open.
BeginOpen(c, id) ==
  /\ pc[c] = "idle" /\ server # 0
  /\ Fresh(id)
  /\ hand' = [hand EXCEPT ![c] = id]
  /\ serves' = [serves EXCEPT ![c] = server]
  /\ Goto(c, IF id \in Sessions THEN "limit" ELSE "open")
  /\ UNCHANGED <<server, servers, store, owned, engine, known, renewing, history>>

\* The number of sessions is looked at under sessionMu, which is then released.
CheckLimit(c) ==
  /\ pc[c] = "limit"
  /\ IF Cardinality(owned \cap Sessions) >= SessionLimit
     THEN CallReturns(c)
     ELSE Goto(c, "open") /\ UNCHANGED <<hand, serves>>
  /\ UNCHANGED <<server, servers, store, owned, engine, known, renewing, history>>

\* Policy, connection or engine refuse; or the call ends with its client.
OpenFails(c) ==
  /\ pc[c] = "open"
  /\ CallReturns(c)
  /\ UNCHANGED <<server, servers, store, owned, engine, known, renewing, history>>

\* Jobs run on a context that outlives the call (service.go:794, :852).
OpenSucceeds(c) ==
  /\ pc[c] = "open"
  /\ live' = live \cup {hand[c]}
  /\ Goto(c, "record")
  /\ UNCHANGED <<server, servers, store, owned, ended, hand, serves, known, renewing, history>>

Record(c) ==
  /\ pc[c] = "record"
  /\ owned' = owned \cup {hand[c]}
  /\ CallReturns(c)
  /\ UNCHANGED <<server, servers, store, engine, known, renewing, history>>

\* file_upload_cancel and file_download_cancel: only of a job in the table.
CancelJob(id) ==
  /\ server # 0
  /\ id \in owned \cap Jobs
  /\ live' = live \ {id}
  /\ UNCHANGED <<server, servers, store, owned, ended, pc, hand, serves, known, renewing, history>>

\* A status call on a job the engine has forgotten drops it from the table.
ForgetJob(id) ==
  /\ server # 0
  /\ id \in (owned \cap Jobs) \ live
  /\ owned' = owned \ {id}
  /\ UNCHANGED <<server, servers, store, engine, pc, hand, serves, known, renewing, history>>

BeginClose(c, id) ==
  /\ pc[c] = "idle" /\ server # 0
  /\ id \in owned \cap Sessions
  /\ hand' = [hand EXCEPT ![c] = id]
  /\ serves' = [serves EXCEPT ![c] = server]
  /\ Goto(c, "close")
  /\ UNCHANGED <<server, servers, store, owned, engine, known, renewing, history>>

\* ssh_session_close: the engine's answer "no such session" is returned before
\* the table is touched.
CloseSession(c) ==
  /\ pc[c] = "close"
  /\ live' = live \ {hand[c]}
  /\ owned' = IF hand[c] \in live \cup ended THEN owned \ {hand[c]} ELSE owned
  /\ ended' = IF hand[c] \in live THEN ended \cup {hand[c]} ELSE ended
  /\ CallReturns(c)
  /\ UNCHANGED <<server, servers, store, known, renewing, history>>

\* A job finishes by itself; a remote shell exits.
EndsByItself(id) ==
  /\ id \in live
  /\ live' = live \ {id}
  /\ ended' = IF id \in Sessions THEN ended \cup {id} ELSE ended
  /\ UNCHANGED <<server, servers, store, owned, pc, hand, serves, known, renewing, history>>

\* Five minutes later the engine forgets the terminal (manager.go:381).
ForgetSession(id) ==
  /\ id \in ended
  /\ ended' = ended \ {id}
  /\ UNCHANGED <<server, servers, store, owned, live, pc, hand, serves, known, renewing, history>>

-----------------------------------------------------------------------------
(* Start, Stop, RegenerateToken                                            *)

\* Start reads the token before it takes the lock.
BeginStart(a) ==
  /\ Arrives(a) /\ servers < MaxServers
  /\ known' = [known EXCEPT ![a] = token]
  /\ Goto(a, "starting")
  /\ UNCHANGED <<server, servers, store, owned, engine, hand, serves, renewing>>

\* A server that runs already is kept.
StartServer(a) ==
  /\ pc[a] = "starting"
  /\ IF server # 0 \/ servers = MaxServers
     THEN UNCHANGED <<server, servers, accepted>>
     ELSE server' = servers + 1 /\ servers' = servers + 1 /\ accepted' = known[a]
  /\ AdminReturns(a)
  /\ UNCHANGED <<token, owned, engine, hand, history>>

StartFails(a) ==
  /\ pc[a] = "starting" /\ server = 0
  /\ AdminReturns(a)
  /\ UNCHANGED <<server, servers, store, owned, engine, hand, history>>

\* Stop takes the server out of the controller and closes its listener.
Detach(a) ==
  /\ server # 0
  /\ server' = 0
  /\ serves' = [serves EXCEPT ![a] = server]
  /\ Goto(a, "draining")

BeginStop(a) ==
  /\ Arrives(a)
  /\ Detach(a)
  /\ UNCHANGED <<servers, store, owned, engine, hand, known, renewing>>

Busy(n) == \E c \in Calls : serves[c] = n

\* A bug: the tables are read without waiting for the handlers.
DrainedAtOnce(a) ==
  /\ pc[a] = "draining"
  /\ Goto(a, "uploads")
  /\ UNCHANGED <<server, servers, store, owned, engine, hand, serves, known, renewing, history>>

\* Shutdown returns when every handler of this server has returned.
Drained(a) ==
  /\ pc[a] = "draining" /\ ~Busy(serves[a])
  /\ Goto(a, "uploads")
  /\ UNCHANGED <<server, servers, store, owned, engine, hand, serves, known, renewing, history>>

\* A bug: Shutdown is given no deadline, a handler that hangs holds it up.
NeverTimesOut(a) == FALSE /\ pc[a] = "draining" /\ UNCHANGED vars

\* After 10 s Close drops the connections; a handler past its last look at the
\* context goes on.  RegenerateToken will then report the error and not restart.
DrainTimesOut(a) ==
  /\ pc[a] = "draining" /\ Busy(serves[a])
  /\ Goto(a, "uploads")
  /\ renewing' = renewing \ {a}
  /\ hurried' = TRUE
  /\ UNCHANGED <<overlapped, server, servers, store, owned, engine, hand, serves, known>>

\* Snapshot of a table under its lock, and the cancellation of what is in it.
TakeJobs(a, from, kind, to) ==
  /\ pc[a] = from
  /\ live' = live \ (owned \cap kind)
  /\ owned' = owned \ kind
  /\ Goto(a, to)
  /\ UNCHANGED <<server, servers, store, ended, hand, serves, known, renewing, history>>

TakeUploads(a) == TakeJobs(a, "uploads", Uploads, "downloads")
TakeDownloads(a) == TakeJobs(a, "downloads", Downloads, "terminals")

\* A bug: the terminals are marked as over and their shells go on.
MarkTerminals(a) ==
  /\ pc[a] = "terminals"
  /\ ended' = ended \cup (live \cap Sessions)
  /\ Goto(a, "quota")
  /\ UNCHANGED <<server, servers, store, owned, live, hand, serves, known, renewing, history>>

\* CloseOwnerSessions closes every MCP terminal, in the table or not.
CloseTerminals(a) ==
  /\ pc[a] = "terminals"
  /\ live' = live \ Sessions
  /\ ended' = ended \cup (live \cap Sessions)
  /\ Goto(a, "quota")
  /\ UNCHANGED <<server, servers, store, owned, hand, serves, known, renewing, history>>

\* The end of Stop; RegenerateToken goes on with Start.
ClearQuota(a) ==
  /\ pc[a] = "quota"
  /\ owned' = owned \ Sessions
  /\ IF a \in renewing
     THEN /\ Goto(a, "starting")
          /\ known' = [known EXCEPT ![a] = token]
          /\ serves' = [serves EXCEPT ![a] = 0]
          /\ UNCHANGED renewing
     ELSE AdminReturns(a)
  /\ UNCHANGED <<server, servers, store, engine, hand, history>>

BeginRenew(a) ==
  /\ Arrives(a) /\ token <= MaxTokens
  /\ token' = token + 1
  /\ renewing' = renewing \cup {a}
  /\ Goto(a, "renewed")
  /\ UNCHANGED <<server, servers, accepted, owned, engine, hand, serves, known>>

\* A bug: the running server is left alone.
RenewOnly(a) ==
  /\ pc[a] = "renewed"
  /\ AdminReturns(a)
  /\ UNCHANGED <<server, servers, store, owned, engine, hand, history>>

\* "A running server must be restarted so that the old token stops working."
Renew(a) ==
  /\ pc[a] = "renewed"
  /\ \/ Detach(a) /\ UNCHANGED <<known, renewing>>
     \/ server = 0 /\ AdminReturns(a) /\ UNCHANGED server
  /\ UNCHANGED <<servers, store, owned, engine, hand, history>>

-----------------------------------------------------------------------------
CallStep(c) ==
  CheckLimit(c) \/ OpenFails(c) \/ OpenSucceeds(c) \/ Record(c) \/ CloseSession(c)

AdminStep(a) ==
  \/ StartServer(a) \/ StartFails(a)
  \/ Drained(a) \/ DrainTimesOut(a) \/ TakeUploads(a) \/ TakeDownloads(a)
  \/ CloseTerminals(a) \/ ClearQuota(a) \/ Renew(a)

Next ==
  \/ \E c \in Calls, id \in Ids : BeginOpen(c, id) \/ BeginClose(c, id)
  \/ \E c \in Calls : CallStep(c)
  \/ \E id \in Ids : CancelJob(id) \/ ForgetJob(id) \/ EndsByItself(id) \/ ForgetSession(id)
  \/ \E a \in Admins : BeginStart(a) \/ BeginStop(a) \/ BeginRenew(a) \/ AdminStep(a)

Spec == Init /\ [][Next]_vars

\* Handlers are bounded by their own deadlines (connection 45 s, command at
\* most 5 min), far longer than Shutdown's 10 s; what the user does is free.
Fairness == \A a \in Admins : WF_vars(AdminStep(a))

LiveSpec == Spec /\ Fairness

-----------------------------------------------------------------------------
(* Properties                                                              *)

Quiet == \A p \in Calls \cup Admins : pc[p] = "idle"

\* Once the server is stopped and its handlers are back, none of its jobs runs
\* and none of its terminals is open, if no Stop had to go on without them
\* (server.go:113 promises it for that case too, see StopIsClean).
StopLeavesNothing == Quiet /\ server = 0 /\ ~hurried => live = {} /\ owned = {}

\* As long as the window's operations come one after the other, a running server
\* accepts the token that is stored and no older one (server.go:190).
TokenInEffect == Quiet /\ server # 0 /\ ~overlapped => accepted = token

\* Every operation of the window comes to an end, also while a handler hangs.
AdminReturnsEventually == \A a \in Admins : []<>(pc[a] = "idle")

\* "After the timeout the remaining requests are closed, so that no MCP task is
\* added after the snapshot of the resources" (server.go:113).
StopIsClean == Quiet /\ server = 0 => live = {} /\ owned = {}
=============================================================================
