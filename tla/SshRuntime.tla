----------------------------- MODULE SshRuntime -----------------------------
(***************************************************************************)
(* The shared SSH connection of ONE profile: profileRuntime of             *)
(* internal/sshclient/manager.go and the health checks of                  *)
(* connection_health.go.  Profiles share nothing but the table they are    *)
(* kept in, so one profile shows every interleaving.                       *)
(*                                                                         *)
(* A caller is one goroutine inside a public method (Connect,              *)
(* ProbeTerminal, OpenTerminal, Exec, DialWebContext).  Beside the callers *)
(* run, per transport, watchClient, keepClientAlive and                    *)
(* checkClientAfterSessionFailure, per terminal waitTerminal, and          *)
(* CloseProfile for a disconnect.  A step is what one of them does between *)
(* two waits, or under one hold of runtime.mu.                             *)
(***************************************************************************)
EXTENDS Naturals

CONSTANTS Callers,        \* goroutines that use the profile
          Clients,        \* identities of *ssh.Client values
          None,           \* nil
          Ops,            \* the public methods a run lets callers use
          MaxGeneration   \* bound on the disconnects of a behaviour

AllOps == {"connect", "test", "terminal", "exec", "web", "retry"}

ASSUME RuntimeAssumption ==
  /\ None \notin Callers \cup Clients
  /\ Ops \subseteq AllOps \ {"retry"}
  /\ MaxGeneration \in Nat

VARIABLES
  gate,        \* holder of runtime.connectGate, or None
  client,      \* runtime.client
  generation,  \* runtime.generation
  up,          \* transports whose Wait has not returned
  hung,        \* transports in up whose peer has stopped answering
  closing,     \* transports in up on which Close has been called
  watching,    \* transports with a watchClient goroutine
  keeping,     \* transports with a keepClientAlive goroutine
  checking,    \* transports with a checkClientAfterSessionFailure goroutine
  pc,          \* where each caller is
  op,          \* the method each caller is in ("retry": second try of "web")
  hand,        \* the transport the caller's local variable holds
  seen,        \* the generation the caller read when it got the gate
  cancelled,   \* the caller's context is done
  session,     \* the terminal a caller opened: none, open, closed or ended
  teardown,    \* CloseProfile: idle or closing
  victims      \* terminals CloseProfile has listed and not closed yet

transports == <<up, hung, closing>>
tasks == <<watching, keeping, checking>>
calls == <<pc, op, hand, seen, cancelled>>
vars == <<gate, client, generation, transports, tasks, calls, session, teardown, victims>>

\* The places of Connect, and those at which the caller holds the gate.
Holding == {"probe", "recheck", "dial", "install", "announce"}
Connecting == Holding \cup {"queued"}
\* The places at which the caller waits for an answer on hand[c].
Requesting == {"probe", "request", "start", "webprobe"}
Places == Connecting \cup Requesting \cup {"idle", "pick", "running", "attached"}

CacheTyped == client \in Clients \cup {None} /\ closing \subseteq up

CallsTyped ==
  /\ pc \in [Callers -> Places]
  /\ op \in [Callers -> AllOps \cup {"none"}]
  /\ hand \in [Callers -> Clients \cup {None}]
  /\ seen \in [Callers -> Nat]
  /\ cancelled \in [Callers -> BOOLEAN]

TasksTyped == watching \subseteq Clients /\ keeping \subseteq Clients /\ checking \subseteq Clients

TypeOK ==
  /\ gate \in Callers \cup {None} /\ generation \in Nat
  /\ up \subseteq Clients /\ hung \subseteq up
  /\ CacheTyped /\ CallsTyped /\ TasksTyped
  /\ session \in [Callers -> {"none", "open", "closed", "ended"}]
  /\ teardown \in {"idle", "closing"} /\ victims \subseteq Callers

Init ==
  /\ gate = None /\ client = None /\ generation = 0
  /\ up = {} /\ hung = {} /\ closing = {}
  /\ watching = {} /\ keeping = {} /\ checking = {}
  /\ pc = [c \in Callers |-> "idle"]
  /\ op = [c \in Callers |-> "none"]
  /\ hand = [c \in Callers |-> None]
  /\ seen = [c \in Callers |-> 0]
  /\ cancelled = [c \in Callers |-> FALSE]
  /\ session = [c \in Callers |-> "none"]
  /\ teardown = "idle" /\ victims = {}

-----------------------------------------------------------------------------
(* Helpers                                                                 *)

Goto(c, place) == pc' = [pc EXCEPT ![c] = place]

Take(c, cl) == hand' = [hand EXCEPT ![c] = cl]

\* The method returns; its locals are gone.
Return(c) ==
  /\ Goto(c, "idle")
  /\ Take(c, None)
  /\ op' = [op EXCEPT ![c] = "none"]
  /\ seen' = [seen EXCEPT ![c] = 0]
  /\ cancelled' = [cancelled EXCEPT ![c] = FALSE]

\* Connect returns nil; a method built on it goes on to read runtime.client.
\* DialWebContext has no deadline of its own: the one that may have run out
\* here was Connect's.
Connected(c) ==
  IF op[c] = "connect"
  THEN Return(c)
  ELSE /\ Goto(c, "pick")
       /\ Take(c, None)
       /\ seen' = [seen EXCEPT ![c] = 0]
       /\ cancelled' = [cancelled EXCEPT ![c] = @ /\ op[c] \notin {"web", "retry"}]
       /\ UNCHANGED op

\* An answer can only come from a transport that is up and whose peer reacts.
Answering(cl) == cl \in up \ hung

\* A transport nothing refers to: what a dial may return.
Fresh(cl) ==
  /\ cl # client
  /\ cl \notin up \cup watching \cup keeping \cup checking
  /\ \A c \in Callers : hand[c] # cl

\* A bug: Close is called on a transport that has ended, as if it were up.
CloseEndedTransport(cl) == closing' = closing \cup {cl}

\* Close only starts the end of a transport: Wait returns later.
CloseTransport(cl) == closing' = closing \cup ({cl} \cap up)

\* A bug the design excludes: the cleanup closes whatever is cached now.
EvictCurrent(expected) ==
  /\ client' = None
  /\ closing' = closing \cup (IF client = None THEN {} ELSE {client} \cap up)

\* invalidateClientIf: clear the cache only if it still holds this transport,
\* close the transport in any case.
Evict(expected) ==
  /\ client' = IF client = expected THEN None ELSE client
  /\ CloseTransport(expected)

-----------------------------------------------------------------------------
(* Connect                                                                 *)

Begin(c, method) ==
  /\ pc[c] = "idle"
  /\ method \in Ops
  /\ Goto(c, "queued")
  /\ op' = [op EXCEPT ![c] = method]
  /\ UNCHANGED <<gate, client, generation, transports, tasks, hand, seen, cancelled,
                 session, teardown, victims>>

\* The context of a call ends: its caller gives up, or a deadline passes
\* (Connect 45 s, terminal setup and terminal requests 15 s, Exec at most
\* 5 min).  Go's HTTP transport dials with a detached context, so a web call
\* is bounded by Connect's deadline only.
ContextEnds(c) ==
  /\ pc[c] \notin {"idle", "attached"}
  /\ op[c] \in {"web", "retry"} => pc[c] \in Connecting
  /\ ~cancelled[c]
  /\ cancelled' = [cancelled EXCEPT ![c] = TRUE]
  /\ UNCHANGED <<gate, client, generation, transports, tasks, pc, op, hand, seen,
                 session, teardown, victims>>

LeaveQueue(c) ==
  /\ pc[c] = "queued" /\ cancelled[c]
  /\ Return(c)
  /\ UNCHANGED <<gate, client, generation, transports, tasks, session, teardown, victims>>

\* The call gets the gate and reads the cache and the generation under
\* runtime.mu.
EnterGate(c) ==
  /\ pc[c] = "queued"
  /\ gate = None
  /\ gate' = c
  /\ seen' = [seen EXCEPT ![c] = generation]
  /\ Take(c, client)
  /\ Goto(c, IF client = None THEN "dial" ELSE "probe")
  /\ UNCHANGED <<client, generation, transports, tasks, op, cancelled,
                 session, teardown, victims>>

ProbeAnswered(c) ==
  /\ pc[c] = "probe" /\ ~cancelled[c]
  /\ Answering(hand[c])
  /\ Goto(c, "recheck")
  /\ UNCHANGED <<gate, client, generation, transports, tasks, op, hand, seen, cancelled,
                 session, teardown, victims>>

\* No answer in time, a broken transport, or the caller's own context ended
\* while it waited: the cached transport is given up in every case.
ProbeFailed(c) ==
  /\ pc[c] = "probe"
  /\ ~Answering(hand[c]) \/ cancelled[c]
  /\ Evict(hand[c])
  /\ IF cancelled[c]
     THEN Return(c) /\ gate' = None
     ELSE /\ Goto(c, "dial")
          /\ Take(c, None)
          /\ UNCHANGED <<gate, op, seen, cancelled>>
  /\ UNCHANGED <<generation, up, hung, tasks, session, teardown, victims>>

Recheck(c) ==
  /\ pc[c] = "recheck"
  /\ \/ /\ client = hand[c] /\ generation = seen[c]
        /\ Connected(c)
        /\ gate' = None
     \/ /\ ~(client = hand[c] /\ generation = seen[c])
        /\ cancelled[c]
        /\ Return(c)
        /\ gate' = None
     \/ /\ ~(client = hand[c] /\ generation = seen[c])
        /\ ~cancelled[c]
        /\ Goto(c, "dial")
        /\ Take(c, None)
        /\ UNCHANGED <<gate, op, seen, cancelled>>
  /\ UNCHANGED <<client, generation, transports, tasks, session, teardown, victims>>

\* dialSSH: tunnel, TCP, handshake.  A failed dial closes what it opened.
DialSucceeds(c, cl) ==
  /\ pc[c] = "dial"
  /\ Fresh(cl)
  /\ up' = up \cup {cl}
  /\ Take(c, cl)
  /\ Goto(c, "install")
  /\ UNCHANGED <<gate, client, generation, hung, closing, tasks, op, seen, cancelled,
                 session, teardown, victims>>

\* A bug: the error return leaves the gate closed behind it.
DialFailsHoldingGate(c) ==
  /\ pc[c] = "dial"
  /\ Return(c)
  /\ UNCHANGED <<gate, client, generation, transports, tasks, session, teardown, victims>>

DialFails(c) ==
  /\ pc[c] = "dial"
  /\ Return(c)
  /\ gate' = None
  /\ UNCHANGED <<client, generation, transports, tasks, session, teardown, victims>>

\* A bug the generation excludes: the new transport is registered although the
\* profile was disconnected while it was dialled.
InstallWithoutGeneration(c) ==
  /\ pc[c] = "install"
  /\ IF cancelled[c]
     THEN /\ CloseTransport(hand[c])
          /\ Return(c)
          /\ gate' = None
          /\ UNCHANGED client
     ELSE /\ client' = hand[c]
          /\ Goto(c, "announce")
          /\ UNCHANGED <<gate, op, hand, seen, cancelled, closing>>
  /\ UNCHANGED <<generation, up, hung, tasks, session, teardown, victims>>

\* Under runtime.mu: register the transport, unless the profile was
\* disconnected or the context ended meanwhile.
Install(c) ==
  /\ pc[c] = "install"
  /\ IF seen[c] # generation \/ cancelled[c]
     THEN /\ CloseTransport(hand[c])
          /\ Return(c)
          /\ gate' = None
          /\ UNCHANGED client
     ELSE /\ client' = hand[c]
          /\ Goto(c, "announce")
          /\ UNCHANGED <<gate, op, hand, seen, cancelled, closing>>
  /\ UNCHANGED <<generation, up, hung, tasks, session, teardown, victims>>

\* A bug: nobody waits for the end of the registered transport.
AnnounceUnwatched(c) ==
  /\ pc[c] = "announce"
  /\ keeping' = keeping \cup {hand[c]}
  /\ gate' = None
  /\ Connected(c)
  /\ UNCHANGED <<client, generation, transports, watching, checking, session, teardown, victims>>

\* After the unlock: start the two guardians, emit the event, leave the gate.
Announce(c) ==
  /\ pc[c] = "announce"
  /\ watching' = watching \cup {hand[c]}
  /\ keeping' = keeping \cup {hand[c]}
  /\ gate' = None
  /\ Connected(c)
  /\ UNCHANGED <<client, generation, transports, checking, session, teardown, victims>>

-----------------------------------------------------------------------------
(* What the methods do on the transport                                    *)

\* The method reads runtime.client.  sessionRequest returns at once when the
\* context is over already; DialWebContext goes on to the dial in any case.
Pick(c) ==
  /\ pc[c] = "pick"
  /\ IF client = None \/ cancelled[c]
     THEN Return(c)
     ELSE /\ Take(c, client)
          /\ Goto(c, "request")
          /\ UNCHANGED <<op, seen, cancelled>>
  /\ UNCHANGED <<gate, client, generation, transports, tasks, session, teardown, victims>>

\* The server grants the channel (and PTY, and shell).  A terminal is
\* registered without looking at the runtime again.
RequestGranted(c) ==
  /\ pc[c] = "request"
  /\ Answering(hand[c])
  /\ \/ /\ op[c] \in {"test", "web", "retry"}
        /\ Return(c)
        /\ UNCHANGED session
     \/ /\ op[c] = "exec"
        /\ Goto(c, "start")
        /\ UNCHANGED <<op, hand, seen, cancelled, session>>
     \/ /\ op[c] = "terminal"
        /\ Goto(c, "attached")
        /\ session' = [session EXCEPT ![c] = "open"]
        /\ cancelled' = [cancelled EXCEPT ![c] = FALSE]
        /\ UNCHANGED <<op, hand, seen>>
  /\ UNCHANGED <<gate, client, generation, transports, tasks, teardown, victims>>

\* The request ends with an error other than the context's: the server
\* refused, or the transport is down.  DialWebContext then asks whether the
\* transport still answers before it blames the target; its second try does not.
RequestRefused(c) ==
  /\ pc[c] \in {"request", "start"}
  /\ hand[c] \notin hung
  /\ IF op[c] = "web"
     THEN Goto(c, "webprobe") /\ UNCHANGED <<op, hand, seen, cancelled>>
     ELSE Return(c)
  /\ UNCHANGED <<gate, client, generation, transports, tasks, session, teardown, victims>>

\* sessionRequest on ctx.Done(): whoever waits no longer gives up the whole
\* transport, for the others too.
RequestAbandoned(c) ==
  /\ pc[c] \in {"request", "start"} /\ cancelled[c]
  /\ Evict(hand[c])
  /\ Return(c)
  /\ UNCHANGED <<gate, generation, up, hung, tasks, session, teardown, victims>>

WebProbeAnswered(c) ==
  /\ pc[c] = "webprobe"
  /\ Answering(hand[c])
  /\ Return(c)
  /\ UNCHANGED <<gate, client, generation, transports, tasks, session, teardown, victims>>

WebProbeFailed(c) ==
  /\ pc[c] = "webprobe"
  /\ ~Answering(hand[c])
  /\ Evict(hand[c])
  /\ Take(c, None)
  /\ op' = [op EXCEPT ![c] = "retry"]
  /\ Goto(c, "queued")
  /\ UNCHANGED <<gate, generation, up, hung, tasks, seen, cancelled, session, teardown, victims>>

\* Exec: activeCommands counts the callers at "start" and "running".
CommandStarts(c) ==
  /\ pc[c] = "start"
  /\ Answering(hand[c])
  /\ Goto(c, "running")
  /\ UNCHANGED <<gate, client, generation, transports, tasks, op, hand, seen, cancelled,
                 session, teardown, victims>>

\* The command ends, its transport breaks, or its time is over: here a
\* timeout leaves the transport alone.
CommandEnds(c) ==
  /\ pc[c] = "running"
  /\ Answering(hand[c]) \/ hand[c] \notin up \/ cancelled[c]
  /\ Return(c)
  /\ UNCHANGED <<gate, client, generation, transports, tasks, session, teardown, victims>>

-----------------------------------------------------------------------------
(* Terminals                                                               *)

CloseSession(c) ==
  /\ session[c] = "open"
  /\ session' = [session EXCEPT ![c] = "closed"]
  /\ UNCHANGED <<gate, client, generation, transports, tasks, calls, teardown, victims>>

\* WriteTerminal or ResizeTerminal waits until its 15 s, or its caller, give up.
TerminalRequestAbandoned(c) ==
  /\ session[c] # "none"
  /\ hand[c] \in up
  /\ Evict(hand[c])
  /\ UNCHANGED <<gate, generation, up, hung, tasks, calls, session, teardown, victims>>

\* waitTerminal: the remote shell has ended, our Close was answered, or the
\* transport is down.  A terminal nobody closed that ended with an error has
\* its transport looked at.
WaitTerminal(c) ==
  /\ session[c] \in {"open", "closed"}
  /\ hand[c] \notin hung
  /\ \/ /\ session[c] = "closed" \/ hand[c] \in up
        /\ UNCHANGED checking
     \/ /\ session[c] = "open"
        /\ checking' = checking \cup {hand[c]}
  /\ session' = [session EXCEPT ![c] = "ended"]
  /\ UNCHANGED <<gate, client, generation, transports, watching, keeping, calls,
                 teardown, victims>>

\* Five minutes after its end the entry is deleted.
ForgetSession(c) ==
  /\ session[c] = "ended"
  /\ session' = [session EXCEPT ![c] = "none"]
  /\ Return(c)
  /\ victims' = victims \ {c}
  /\ UNCHANGED <<gate, client, generation, transports, tasks, teardown>>

-----------------------------------------------------------------------------
(* The guardians of a transport, and the network                           *)

\* A bug: the end of an old transport clears whatever is cached now.
WatchClientWithoutMatch(cl) ==
  /\ cl \in watching /\ cl \notin up
  /\ client' = None
  /\ watching' = watching \ {cl}
  /\ UNCHANGED <<gate, generation, transports, keeping, checking, calls, session, teardown, victims>>

WatchClient(cl) ==
  /\ cl \in watching /\ cl \notin up
  /\ client' = IF client = cl THEN None ELSE client
  /\ watching' = watching \ {cl}
  /\ UNCHANGED <<gate, generation, transports, keeping, checking, calls, session, teardown, victims>>

\* A bug: a peer that stops answering is never noticed.
KeepAliveTrusting(cl) ==
  /\ cl \in keeping /\ cl \notin up
  /\ Evict(cl)
  /\ keeping' = keeping \ {cl}
  /\ UNCHANGED <<gate, generation, up, hung, watching, checking, calls, session, teardown, victims>>

KeepAliveFails(cl) ==
  /\ cl \in keeping /\ ~Answering(cl)
  /\ Evict(cl)
  /\ keeping' = keeping \ {cl}
  /\ UNCHANGED <<gate, generation, up, hung, watching, checking, calls, session, teardown, victims>>

KeepAliveStops(cl) ==
  /\ cl \in keeping /\ cl \notin up
  /\ keeping' = keeping \ {cl}
  /\ UNCHANGED <<gate, client, generation, transports, watching, checking, calls, session,
                 teardown, victims>>

CheckAfterSessionFailure(cl) ==
  /\ cl \in checking
  /\ IF Answering(cl) THEN UNCHANGED <<client, closing>> ELSE Evict(cl)
  /\ checking' = checking \ {cl}
  /\ UNCHANGED <<gate, generation, up, hung, watching, keeping, calls, session, teardown, victims>>

\* The transport's read loop ends: our Close, or the network, ended it.
TransportEnds(cl) ==
  /\ cl \in up
  /\ up' = up \ {cl} /\ hung' = hung \ {cl} /\ closing' = closing \ {cl}
  /\ UNCHANGED <<gate, client, generation, tasks, calls, session, teardown, victims>>

PeerStalls(cl) ==
  /\ Answering(cl)
  /\ hung' = hung \cup {cl}
  /\ UNCHANGED <<gate, client, generation, up, closing, tasks, calls, session, teardown, victims>>

PeerRecovers(cl) ==
  /\ cl \in hung
  /\ hung' = hung \ {cl}
  /\ UNCHANGED <<gate, client, generation, up, closing, tasks, calls, session, teardown, victims>>

-----------------------------------------------------------------------------
(* CloseProfile: transfers are cancelled first (module TransferJobs)       *)

ListSessions ==
  /\ teardown = "idle" /\ generation < MaxGeneration
  /\ teardown' = "closing"
  /\ victims' = {c \in Callers : session[c] # "none"}
  /\ UNCHANGED <<gate, client, generation, transports, tasks, calls, session>>

CloseVictim(c) ==
  /\ c \in victims
  /\ victims' = victims \ {c}
  /\ session' = [session EXCEPT ![c] = IF @ = "open" THEN "closed" ELSE @]
  /\ UNCHANGED <<gate, client, generation, transports, tasks, calls, teardown>>

\* A bug: the reference is dropped and the transport stays open.
InvalidateWithoutClose ==
  /\ teardown = "closing" /\ victims = {}
  /\ client' = None
  /\ generation' = generation + 1
  /\ teardown' = "idle"
  /\ UNCHANGED <<gate, transports, tasks, calls, session, victims>>

\* invalidateClient, under runtime.mu, then the Close.
Invalidate ==
  /\ teardown = "closing" /\ victims = {}
  /\ client' = None
  /\ generation' = generation + 1
  /\ IF client = None THEN UNCHANGED closing ELSE CloseTransport(client)
  /\ teardown' = "idle"
  /\ UNCHANGED <<gate, up, hung, tasks, calls, session, victims>>

-----------------------------------------------------------------------------
\* The steps of a caller's own goroutine, once a method has begun.
CallerStep(c) ==
  \/ LeaveQueue(c) \/ EnterGate(c)
  \/ ProbeAnswered(c) \/ ProbeFailed(c) \/ Recheck(c)
  \/ \E cl \in Clients : DialSucceeds(c, cl)
  \/ DialFails(c) \/ Install(c) \/ Announce(c)
  \/ Pick(c) \/ RequestGranted(c) \/ RequestRefused(c) \/ RequestAbandoned(c)
  \/ WebProbeAnswered(c) \/ WebProbeFailed(c)
  \/ CommandStarts(c) \/ CommandEnds(c)

TerminalStep(c) ==
  CloseSession(c) \/ TerminalRequestAbandoned(c) \/ WaitTerminal(c) \/ ForgetSession(c)

TransportStep(cl) ==
  \/ WatchClient(cl) \/ KeepAliveFails(cl) \/ KeepAliveStops(cl)
  \/ CheckAfterSessionFailure(cl)
  \/ TransportEnds(cl) \/ PeerStalls(cl) \/ PeerRecovers(cl)

Next ==
  \/ \E c \in Callers : (\E method \in Ops : Begin(c, method)) \/ ContextEnds(c)
  \/ \E c \in Callers : CallerStep(c)
  \/ \E c \in Callers : TerminalStep(c) \/ CloseVictim(c)
  \/ \E cl \in Clients : TransportStep(cl)
  \/ ListSessions \/ Invalidate

Spec == Init /\ [][Next]_vars

\* Goroutines run, deadlines pass, a closed transport ends.  Nothing is assumed
\* of the user, or of a peer that has stalled: it may stay so for ever, and a
\* healthy terminal need not end.  A peer that answers again and again answers
\* the requests it has received, which TCP has kept (strong fairness).
Fairness ==
  /\ \A c \in Callers :
       /\ WF_vars(CallerStep(c)) /\ WF_vars(ContextEnds(c)) /\ WF_vars(CloseVictim(c))
       /\ SF_vars(RequestGranted(c) \/ RequestRefused(c))
       /\ WF_vars((hand[c] \notin up \/ session[c] = "closed") /\ WaitTerminal(c))
  /\ \A cl \in Clients :
       /\ WF_vars(WatchClient(cl)) /\ WF_vars(KeepAliveFails(cl))
       /\ WF_vars(cl \in closing /\ TransportEnds(cl))
  /\ WF_vars(Invalidate)

LiveSpec == Spec /\ Fairness

-----------------------------------------------------------------------------
(* Properties                                                              *)

\* The gate is held exactly by the call between entering Connect's critical
\* part and leaving it: no early return of Connect (manager.go:90-140) leaves
\* the gate closed for the next caller, and no two calls dial at once.
GateDiscipline ==
  \A c \in Callers : gate = c <=> pc[c] \in Holding

\* No SSH transport is left open behind the program's back: whatever is up is
\* the cached one, or being closed, or still in the hands of the dial.
\* Registering over another transport, dropping a late one, or clearing the
\* cache without closing would all leave one.
NoStrayTransport ==
  \A cl \in up : \/ cl = client
                 \/ cl \in closing
                 \/ \E c \in Callers : pc[c] = "install" /\ hand[c] = cl

\* Seen from outside, the runtime keeps the promise of ConnectionPromise: a
\* call that began before a disconnect never registers its transport after it
\* (connection_health_test.go:228), and none is registered over another one.
Link == IF client = None THEN "down" ELSE "up"
Pending == {c \in Callers : pc[c] \in Holding \ {"announce"} /\ seen[c] = generation}

Promise == INSTANCE ConnectionPromise WITH
  Attempts <- Callers, link <- Link, pending <- Pending

KeepsPromise == Promise!Spec

\* "Old requests must not close the connection a concurrent call has
\* restored" (connection_health.go:82): a call that gives up on one transport
\* neither drops nor closes another one that is cached.
SparesReplacement ==
  \A c \in Callers :
    /\ pc[c] \in Requesting /\ pc'[c] # pc[c]
    /\ client # None /\ hand[c] # client
    => client' = client /\ (client \in closing' => client \in closing)

StaleWorkSparesReplacement == [][SparesReplacement]_vars

\* A cached transport that has died, or whose peer no longer answers, does not
\* stay cached: watchClient or keepClientAlive clears it.
UnusableClientReplaced ==
  \A cl \in Clients : client = cl /\ ~Answering(cl) ~> client # cl \/ Answering(cl)

\* A terminal ends with the connection it was opened on, also one that is
\* registered only after CloseProfile has listed the terminals.
TerminalFollowsConnection ==
  \A c \in Callers :
    session[c] \in {"open", "closed"} /\ hand[c] # client ~> session[c] \notin {"open", "closed"}

\* Every call returns (or has opened its terminal), whatever the peer does.
CallReturns ==
  \A c \in Callers : pc[c] \notin {"idle", "attached"} ~> pc[c] \in {"idle", "attached"}
=============================================================================
