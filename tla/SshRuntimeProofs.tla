-------------------------- MODULE SshRuntimeProofs --------------------------
(***************************************************************************)
(* Theorems about SshRuntime, for any set of callers and transports and    *)
(* any number of disconnects.                                              *)
(***************************************************************************)
EXTENDS SshRuntime, TLAPS

USE DEF Places, Connecting, Holding, Requesting, AllOps, transports, tasks, calls

-----------------------------------------------------------------------------
(* Types.  The invariant is TypeOK with what a caller's hand holds: at the *)
(* places where it waits for a transport, and while a terminal is entered  *)
(* in the table, it is a transport.                                        *)

HandFilled ==
  \A c \in Callers :
    pc[c] \in Requesting \cup {"recheck", "install", "announce", "running", "attached"}
      => hand[c] \in Clients

\* A terminal is entered in the table for a call that has nothing else to do.
SessionAttached == \A c \in Callers : session[c] # "none" => pc[c] = "attached"

TypeInv == TypeOK /\ HandFilled /\ SessionAttached

\* What a step that changes only a caller's own variables must keep.
CallInv == CallsTyped /\ HandFilled

LEMMA ReturnTyped ==
  ASSUME CallInv, NEW c \in Callers, Return(c)
  PROVE  CallInv'
BY DEF CallInv, CallsTyped, HandFilled, Return, Goto, Take

LEMMA ConnectedTyped ==
  ASSUME CallInv, NEW c \in Callers, Connected(c)
  PROVE  CallInv'
<1>1. CASE op[c] = "connect"
  BY <1>1, ReturnTyped DEF Connected
<1>2. CASE op[c] # "connect"
  <2> DEFINE b == cancelled[c] /\ op[c] \notin {"web", "retry"}
  <2>1. b \in BOOLEAN
    OBVIOUS
  <2>2. cancelled' = [cancelled EXCEPT ![c] = b]
    BY <1>2 DEF Connected
  <2>3. cancelled' \in [Callers -> BOOLEAN]
    <3> HIDE DEF b
    <3> QED
      BY <2>1, <2>2 DEF CallInv, CallsTyped
  <2> QED
    BY <1>2, <2>3 DEF Connected, CallInv, CallsTyped, HandFilled, Goto, Take
<1> QED
  BY <1>1, <1>2

LEMMA EvictTyped ==
  ASSUME CacheTyped, NEW expected, Evict(expected), up' = up
  PROVE  CacheTyped'
BY DEF CacheTyped, Evict, CloseTransport

\* Where a return leads, no terminal is entered: the steps that return start
\* from places at which the caller has none.
LEMMA ReturnAttached ==
  ASSUME TypeInv, NEW c \in Callers, Return(c) \/ Connected(c), session' = session,
         pc[c] # "attached"
  PROVE  SessionAttached'
BY DEF TypeInv, TypeOK, CallsTyped, SessionAttached, Return, Connected, Goto

\* The steps of Connect keep the invariant.
LEMMA ConnectStepTyped ==
  ASSUME RuntimeAssumption, TypeInv, NEW c \in Callers,
         \/ LeaveQueue(c) \/ EnterGate(c) \/ ProbeAnswered(c) \/ ProbeFailed(c) \/ Recheck(c)
         \/ (\E cl \in Clients : DialSucceeds(c, cl))
         \/ DialFails(c) \/ Install(c) \/ Announce(c)
  PROVE  TypeInv'
<1> CallInv
  BY DEF TypeInv, TypeOK, CallInv
<1> USE DEF TypeInv, TypeOK
<1>1. CASE LeaveQueue(c)
  BY <1>1, ReturnTyped, ReturnAttached DEF LeaveQueue, CallInv, CacheTyped, TasksTyped
<1>2. CASE EnterGate(c)
  BY <1>2 DEF EnterGate, CacheTyped, CallsTyped, TasksTyped, HandFilled, SessionAttached, Goto, Take
<1>3. CASE ProbeAnswered(c)
  BY <1>3 DEF ProbeAnswered, CacheTyped, CallsTyped, TasksTyped, HandFilled, SessionAttached, Goto
<1>4. CASE ProbeFailed(c)
  <2>1. CacheTyped'
    BY <1>4, EvictTyped DEF ProbeFailed
  <2>2. CASE cancelled[c]
    BY <1>4, <2>1, <2>2, ReturnTyped, ReturnAttached DEF ProbeFailed, CallInv, TasksTyped
  <2>3. CASE ~cancelled[c]
    BY <1>4, <2>1, <2>3
    DEF ProbeFailed, CallsTyped, TasksTyped, HandFilled, SessionAttached, Goto, Take
  <2> QED
    BY <2>2, <2>3
<1>5. CASE Recheck(c)
  <2>1. CASE Connected(c) /\ gate' = None
    BY <1>5, <2>1, ConnectedTyped, ReturnAttached DEF Recheck, CallInv, CacheTyped, TasksTyped
  <2>2. CASE Return(c) /\ gate' = None
    BY <1>5, <2>2, ReturnTyped, ReturnAttached DEF Recheck, CallInv, CacheTyped, TasksTyped
  <2>3. CASE Goto(c, "dial") /\ Take(c, None) /\ UNCHANGED <<gate, op, seen, cancelled>>
    BY <1>5, <2>3
    DEF Recheck, CacheTyped, CallsTyped, TasksTyped, HandFilled, SessionAttached, Goto, Take
  <2> QED
    BY <1>5, <2>1, <2>2, <2>3 DEF Recheck
<1>6. CASE \E cl \in Clients : DialSucceeds(c, cl)
  BY <1>6
  DEF DialSucceeds, CacheTyped, CallsTyped, TasksTyped, HandFilled, SessionAttached, Goto, Take
<1>7. CASE DialFails(c)
  BY <1>7, ReturnTyped, ReturnAttached DEF DialFails, CallInv, CacheTyped, TasksTyped
<1>8. CASE Install(c)
  <2>1. CASE seen[c] # generation \/ cancelled[c]
    BY <1>8, <2>1, ReturnTyped, ReturnAttached
    DEF Install, CallInv, CacheTyped, CloseTransport, TasksTyped
  <2>2. CASE ~(seen[c] # generation \/ cancelled[c])
    BY <1>8, <2>2
    DEF Install, CacheTyped, CallsTyped, TasksTyped, HandFilled, SessionAttached, Goto
  <2> QED
    BY <2>1, <2>2
<1>9. CASE Announce(c)
  <2>1. hand[c] \in Clients
    BY <1>9 DEF Announce, HandFilled
  <2> QED
    BY <1>9, <2>1, ConnectedTyped, ReturnAttached
    DEF Announce, CallInv, CacheTyped, TasksTyped
<1> QED
  BY <1>1, <1>2, <1>3, <1>4, <1>5, <1>6, <1>7, <1>8, <1>9

\* So do the steps of the methods on the transport.
LEMMA MethodStepTyped ==
  ASSUME RuntimeAssumption, TypeInv, NEW c \in Callers,
         \/ Pick(c) \/ RequestGranted(c) \/ RequestRefused(c) \/ RequestAbandoned(c)
         \/ WebProbeAnswered(c) \/ WebProbeFailed(c) \/ CommandStarts(c) \/ CommandEnds(c)
  PROVE  TypeInv'
<1> CallInv
  BY DEF TypeInv, TypeOK, CallInv
<1> USE DEF TypeInv, TypeOK
<1>1. CASE Pick(c)
  <2>1. CASE client = None \/ cancelled[c]
    BY <1>1, <2>1, ReturnTyped, ReturnAttached DEF Pick, CallInv, CacheTyped, TasksTyped
  <2>2. CASE ~(client = None \/ cancelled[c])
    BY <1>1, <2>2
    DEF Pick, CacheTyped, CallsTyped, TasksTyped, HandFilled, SessionAttached, Goto, Take
  <2> QED
    BY <2>1, <2>2
<1>2. CASE RequestGranted(c)
  <2>1. CASE Return(c) /\ UNCHANGED session
    BY <1>2, <2>1, ReturnTyped, ReturnAttached
    DEF RequestGranted, CallInv, CacheTyped, TasksTyped
  <2>2. CASE Goto(c, "start") /\ UNCHANGED <<op, hand, seen, cancelled, session>>
    BY <1>2, <2>2
    DEF RequestGranted, CacheTyped, CallsTyped, TasksTyped, HandFilled, SessionAttached, Goto
  <2>3. CASE /\ Goto(c, "attached") /\ session' = [session EXCEPT ![c] = "open"]
             /\ cancelled' = [cancelled EXCEPT ![c] = FALSE] /\ UNCHANGED <<op, hand, seen>>
    BY <1>2, <2>3
    DEF RequestGranted, CacheTyped, CallsTyped, TasksTyped, HandFilled, SessionAttached, Goto
  <2> QED
    BY <1>2, <2>1, <2>2, <2>3 DEF RequestGranted
<1>3. CASE RequestRefused(c)
  <2>1. CASE op[c] = "web"
    BY <1>3, <2>1
    DEF RequestRefused, CacheTyped, CallsTyped, TasksTyped, HandFilled, SessionAttached, Goto
  <2>2. CASE op[c] # "web"
    BY <1>3, <2>2, ReturnTyped, ReturnAttached
    DEF RequestRefused, CallInv, CacheTyped, TasksTyped
  <2> QED
    BY <2>1, <2>2
<1>4. CASE RequestAbandoned(c)
  BY <1>4, ReturnTyped, ReturnAttached, EvictTyped DEF RequestAbandoned, CallInv, TasksTyped
<1>5. CASE WebProbeAnswered(c)
  BY <1>5, ReturnTyped, ReturnAttached DEF WebProbeAnswered, CallInv, CacheTyped, TasksTyped
<1>6. CASE WebProbeFailed(c)
  <2>1. CacheTyped'
    BY <1>6, EvictTyped DEF WebProbeFailed
  <2> QED
    BY <1>6, <2>1
    DEF WebProbeFailed, CallsTyped, TasksTyped, HandFilled, SessionAttached, Goto, Take
<1>7. CASE CommandStarts(c)
  BY <1>7
  DEF CommandStarts, CacheTyped, CallsTyped, TasksTyped, HandFilled, SessionAttached, Goto
<1>8. CASE CommandEnds(c)
  BY <1>8, ReturnTyped, ReturnAttached DEF CommandEnds, CallInv, CacheTyped, TasksTyped
<1> QED
  BY <1>1, <1>2, <1>3, <1>4, <1>5, <1>6, <1>7, <1>8

\* So do the steps of the terminals.
LEMMA TerminalStepTyped ==
  ASSUME RuntimeAssumption, TypeInv, NEW c \in Callers, TerminalStep(c) \/ CloseVictim(c)
  PROVE  TypeInv'
<1> CallInv
  BY DEF TypeInv, TypeOK, CallInv
<1> USE DEF TypeInv, TypeOK
<1>1. CASE CloseSession(c)
  BY <1>1 DEF CloseSession, CacheTyped, CallsTyped, TasksTyped, HandFilled, SessionAttached
<1>2. CASE TerminalRequestAbandoned(c)
  BY <1>2, EvictTyped
  DEF TerminalRequestAbandoned, CallsTyped, TasksTyped, HandFilled, SessionAttached
<1>3. CASE WaitTerminal(c)
  <2>1. hand[c] \in Clients
    BY <1>3 DEF WaitTerminal, SessionAttached, HandFilled
  <2>2. TasksTyped' /\ checking' \subseteq Clients
    BY <1>3, <2>1 DEF WaitTerminal, TasksTyped
  <2> QED
    BY <1>3, <2>2 DEF WaitTerminal, CacheTyped, CallsTyped, HandFilled, SessionAttached
<1>4. CASE ForgetSession(c)
  <2>1. SessionAttached'
    BY <1>4 DEF ForgetSession, SessionAttached, Return, Goto, CallsTyped
  <2> QED
    BY <1>4, <2>1, ReturnTyped DEF ForgetSession, CallInv, CacheTyped, TasksTyped
<1>5. CASE CloseVictim(c)
  BY <1>5 DEF CloseVictim, CacheTyped, CallsTyped, TasksTyped, HandFilled, SessionAttached
<1> QED
  BY <1>1, <1>2, <1>3, <1>4, <1>5 DEF TerminalStep

\* So do the guardians, the network and the disconnect.
LEMMA TransportStepTyped ==
  ASSUME RuntimeAssumption, TypeInv,
         (\E cl \in Clients : TransportStep(cl)) \/ ListSessions \/ Invalidate
  PROVE  TypeInv'
<1> USE DEF TypeInv, TypeOK, HandFilled, SessionAttached
<1>1. ASSUME NEW cl \in Clients, TransportStep(cl) PROVE TypeInv'
  <2>1. CASE WatchClient(cl)
    BY <2>1 DEF WatchClient, CacheTyped, CallsTyped, TasksTyped
  <2>2. CASE KeepAliveFails(cl)
    BY <2>2, EvictTyped DEF KeepAliveFails, CallsTyped, TasksTyped
  <2>3. CASE KeepAliveStops(cl)
    BY <2>3 DEF KeepAliveStops, CacheTyped, CallsTyped, TasksTyped
  <2>4. CASE CheckAfterSessionFailure(cl)
    <3>1. CacheTyped'
      BY <2>4, EvictTyped DEF CheckAfterSessionFailure, CacheTyped
    <3> QED
      BY <2>4, <3>1 DEF CheckAfterSessionFailure, CallsTyped, TasksTyped
  <2>5. CASE TransportEnds(cl)
    BY <2>5 DEF TransportEnds, CacheTyped, CallsTyped, TasksTyped
  <2>6. CASE PeerStalls(cl)
    BY <2>6 DEF PeerStalls, Answering, CacheTyped, CallsTyped, TasksTyped
  <2>7. CASE PeerRecovers(cl)
    BY <2>7 DEF PeerRecovers, CacheTyped, CallsTyped, TasksTyped
  <2> QED
    BY <1>1, <2>1, <2>2, <2>3, <2>4, <2>5, <2>6, <2>7 DEF TransportStep
<1>2. CASE ListSessions
  BY <1>2 DEF ListSessions, CacheTyped, CallsTyped, TasksTyped
<1>3. CASE Invalidate
  BY <1>3 DEF Invalidate, CloseTransport, CacheTyped, CallsTyped, TasksTyped
<1> QED
  BY <1>1, <1>2, <1>3

\* The calls that begin, and the contexts that end, too.
LEMMA BeginTyped ==
  ASSUME RuntimeAssumption, TypeInv, NEW c \in Callers,
         (\E method \in Ops : Begin(c, method)) \/ ContextEnds(c)
  PROVE  TypeInv'
<1> USE DEF TypeInv, TypeOK, CacheTyped, CallsTyped, TasksTyped, HandFilled, SessionAttached
<1>1. CASE \E method \in Ops : Begin(c, method)
  BY <1>1 DEF Begin, Goto, RuntimeAssumption
<1>2. CASE ContextEnds(c)
  BY <1>2 DEF ContextEnds
<1> QED
  BY <1>1, <1>2

LEMMA TypeStep ==
  ASSUME RuntimeAssumption, TypeInv, [Next]_vars
  PROVE  TypeInv'
<1>1. CASE UNCHANGED vars
  BY <1>1
  DEF vars, TypeInv, TypeOK, CacheTyped, CallsTyped, TasksTyped, HandFilled, SessionAttached
<1> QED
  BY <1>1, ConnectStepTyped, MethodStepTyped, TerminalStepTyped, TransportStepTyped, BeginTyped
  DEF Next, CallerStep

LEMMA TypeInvariant == Spec => []TypeInv
<1>1. Init => TypeInv
  BY RuntimeAssumption
  DEF RuntimeAssumption, Init, TypeInv, TypeOK, CacheTyped, CallsTyped, TasksTyped,
      HandFilled, SessionAttached
<1> QED
  BY <1>1, TypeStep, RuntimeAssumption, PTL DEF Spec

\* The variables of the shared connection keep their types: a transport that
\* is being closed or has stalled is one that is up, and a guardian started
\* for a transport is never started for nil.
THEOREM TypeCorrect == Spec => []TypeOK
BY TypeInvariant, PTL DEF TypeInv

-----------------------------------------------------------------------------
(* The inductive invariant: the gate, and what the call that holds it may  *)
(* believe of the cache as long as its generation is the current one.      *)

SeenBound == \A c \in Callers : seen[c] <= generation

\* A call that dials since the last disconnect has an empty cache to fill.
DialFindsNone ==
  \A c \in Callers : pc[c] \in {"dial", "install"} /\ seen[c] = generation => client = None

\* While a call probes, no other transport can take the cached one's place.
ProbeFindsSame ==
  \A c \in Callers :
    pc[c] \in {"probe", "recheck"} /\ seen[c] = generation => client \in {None, hand[c]}

CacheInv == SeenBound /\ DialFindsNone /\ ProbeFindsSame

IInv == TypeInv /\ GateDiscipline /\ CacheInv /\ NoStrayTransport

\* A step of a call: only Install fills the cache, only EnterGate reads the
\* generation, and the gate keeps every other call away from both.
LEMMA CallerKeepsCache ==
  ASSUME RuntimeAssumption, IInv, NEW c \in Callers, CallerStep(c)
  PROVE  (GateDiscipline /\ CacheInv)'
<1> USE DEF IInv, TypeInv, TypeOK, CallsTyped, GateDiscipline, CacheInv, SeenBound, DialFindsNone, ProbeFindsSame, Goto, Take, RuntimeAssumption
<1>1. CASE LeaveQueue(c)
  BY <1>1 DEF LeaveQueue, Return
<1>2. CASE EnterGate(c)
  BY <1>2 DEF EnterGate
<1>3. CASE ProbeAnswered(c)
  BY <1>3 DEF ProbeAnswered
<1>4. CASE ProbeFailed(c)
  BY <1>4 DEF ProbeFailed, Evict, Return, CloseTransport
<1>5. CASE Recheck(c)
  BY <1>5 DEF Recheck, Return, Connected
<1>6. CASE \E cl \in Clients : DialSucceeds(c, cl)
  BY <1>6 DEF DialSucceeds
<1>7. CASE DialFails(c)
  BY <1>7 DEF DialFails, Return
<1>8. CASE Install(c)
  BY <1>8 DEF Install, Return, CloseTransport
<1>9. CASE Announce(c)
  BY <1>9 DEF Announce, Connected, Return
<1>10. CASE Pick(c)
  BY <1>10 DEF Pick, Return
<1>11. CASE RequestGranted(c)
  BY <1>11 DEF RequestGranted, Return
<1>12. CASE RequestRefused(c)
  BY <1>12 DEF RequestRefused, Return
<1>13. CASE RequestAbandoned(c)
  BY <1>13 DEF RequestAbandoned, Return, Evict, CloseTransport
<1>14. CASE WebProbeAnswered(c)
  BY <1>14 DEF WebProbeAnswered, Return
<1>15. CASE WebProbeFailed(c)
  BY <1>15 DEF WebProbeFailed, Evict, CloseTransport
<1>16. CASE CommandStarts(c)
  BY <1>16 DEF CommandStarts
<1>17. CASE CommandEnds(c)
  BY <1>17 DEF CommandEnds, Return
<1> QED
  BY <1>1, <1>2, <1>3, <1>4, <1>5, <1>6, <1>7, <1>8, <1>9, <1>10, <1>11, <1>12,
     <1>13, <1>14, <1>15, <1>16, <1>17 DEF CallerStep

\* A step of a call never leaves an open transport out of sight: a late one is
\* closed, and one that is registered replaces nothing (DialFindsNone).
LEMMA CallerKeepsTransports ==
  ASSUME RuntimeAssumption, IInv, NEW c \in Callers, CallerStep(c)
  PROVE  NoStrayTransport'
<1> USE DEF IInv, TypeInv, TypeOK, CallsTyped, CacheTyped, NoStrayTransport, CacheInv, SeenBound, DialFindsNone, Goto, Take, RuntimeAssumption
<1>1. CASE LeaveQueue(c)
  BY <1>1 DEF LeaveQueue, Return
<1>2. CASE EnterGate(c)
  BY <1>2 DEF EnterGate
<1>3. CASE ProbeAnswered(c)
  BY <1>3 DEF ProbeAnswered
<1>4. CASE ProbeFailed(c)
  BY <1>4 DEF ProbeFailed, Evict, Return, CloseTransport
<1>5. CASE Recheck(c)
  BY <1>5 DEF Recheck, Return, Connected
<1>6. CASE \E cl \in Clients : DialSucceeds(c, cl)
  BY <1>6 DEF DialSucceeds
<1>7. CASE DialFails(c)
  BY <1>7 DEF DialFails, Return
<1>8. CASE Install(c)
  BY <1>8 DEF Install, Return, CloseTransport
<1>9. CASE Announce(c)
  BY <1>9 DEF Announce, Connected, Return
<1>10. CASE Pick(c)
  BY <1>10 DEF Pick, Return
<1>11. CASE RequestGranted(c)
  BY <1>11 DEF RequestGranted, Return
<1>12. CASE RequestRefused(c)
  BY <1>12 DEF RequestRefused, Return
<1>13. CASE RequestAbandoned(c)
  BY <1>13 DEF RequestAbandoned, Return, Evict, CloseTransport
<1>14. CASE WebProbeAnswered(c)
  BY <1>14 DEF WebProbeAnswered, Return
<1>15. CASE WebProbeFailed(c)
  BY <1>15 DEF WebProbeFailed, Evict, CloseTransport
<1>16. CASE CommandStarts(c)
  BY <1>16 DEF CommandStarts
<1>17. CASE CommandEnds(c)
  BY <1>17 DEF CommandEnds, Return
<1> QED
  BY <1>1, <1>2, <1>3, <1>4, <1>5, <1>6, <1>7, <1>8, <1>9, <1>10, <1>11, <1>12,
     <1>13, <1>14, <1>15, <1>16, <1>17 DEF CallerStep

\* The other steps: they only clear the cache, and close what they clear.
LEMMA OthersKeepInvariant ==
  ASSUME RuntimeAssumption, IInv,
         \/ \E c \in Callers : \/ \E method \in Ops : Begin(c, method)
                               \/ ContextEnds(c) \/ TerminalStep(c) \/ CloseVictim(c)
         \/ \E cl \in Clients : TransportStep(cl)
         \/ ListSessions \/ Invalidate
  PROVE  (GateDiscipline /\ CacheInv /\ NoStrayTransport)'
<1> USE DEF IInv, TypeInv, TypeOK, CacheTyped, CallsTyped, GateDiscipline, CacheInv, SeenBound,
            DialFindsNone, ProbeFindsSame, NoStrayTransport, RuntimeAssumption
<1>1. ASSUME NEW c \in Callers, NEW method \in Ops, Begin(c, method)
      PROVE  (GateDiscipline /\ CacheInv /\ NoStrayTransport)'
  BY <1>1 DEF Begin, Goto
<1>2. ASSUME NEW c \in Callers, ContextEnds(c)
      PROVE  (GateDiscipline /\ CacheInv /\ NoStrayTransport)'
  BY <1>2 DEF ContextEnds
<1>3. ASSUME NEW c \in Callers, TerminalStep(c) \/ CloseVictim(c)
      PROVE  (GateDiscipline /\ CacheInv /\ NoStrayTransport)'
  <2>1. CASE CloseSession(c) \/ WaitTerminal(c) \/ CloseVictim(c)
    BY <2>1 DEF CloseSession, WaitTerminal, CloseVictim
  <2>2. CASE TerminalRequestAbandoned(c)
    BY <2>2 DEF TerminalRequestAbandoned, Evict, CloseTransport
  <2>3. CASE ForgetSession(c)
    BY <2>3 DEF ForgetSession, SessionAttached, Return, Goto, Take
  <2> QED
    BY <1>3, <2>1, <2>2, <2>3 DEF TerminalStep
<1>4. ASSUME NEW cl \in Clients, TransportStep(cl)
      PROVE  (GateDiscipline /\ CacheInv /\ NoStrayTransport)'
  <2>1. CASE WatchClient(cl)
    BY <2>1 DEF WatchClient
  <2>2. CASE KeepAliveFails(cl)
    BY <2>2 DEF KeepAliveFails, Evict, CloseTransport
  <2>3. CASE CheckAfterSessionFailure(cl)
    BY <2>3 DEF CheckAfterSessionFailure, Evict, CloseTransport
  <2>4. CASE TransportEnds(cl)
    BY <2>4 DEF TransportEnds
  <2>5. CASE KeepAliveStops(cl) \/ PeerStalls(cl) \/ PeerRecovers(cl)
    BY <2>5 DEF KeepAliveStops, PeerStalls, PeerRecovers
  <2> QED
    BY <1>4, <2>1, <2>2, <2>3, <2>4, <2>5 DEF TransportStep
<1>5. CASE ListSessions
  BY <1>5 DEF ListSessions
<1>6. CASE Invalidate
  BY <1>6 DEF Invalidate, CloseTransport
<1> QED
  BY <1>1, <1>2, <1>3, <1>4, <1>5, <1>6

LEMMA InvariantStep ==
  ASSUME RuntimeAssumption, IInv, [Next]_vars
  PROVE  IInv'
<1>1. TypeInv'
  BY TypeStep DEF IInv
<1>2. CASE UNCHANGED vars
  BY <1>1, <1>2
  DEF IInv, vars, GateDiscipline, CacheInv, SeenBound, DialFindsNone, ProbeFindsSame,
      NoStrayTransport
<1>3. CASE Next
  BY <1>1, <1>3, CallerKeepsCache, CallerKeepsTransports, OthersKeepInvariant DEF Next, IInv
<1> QED
  BY <1>2, <1>3

LEMMA InductiveInvariant == Spec => []IInv
<1>1. Init => TypeInv
  BY RuntimeAssumption
  DEF RuntimeAssumption, Init, TypeInv, TypeOK, CacheTyped, CallsTyped, TasksTyped,
      HandFilled, SessionAttached
<1>2. Init => IInv
  BY <1>1, RuntimeAssumption
  DEF RuntimeAssumption, Init, IInv, GateDiscipline, CacheInv, SeenBound, DialFindsNone,
      ProbeFindsSame, NoStrayTransport
<1> QED
  BY <1>2, InvariantStep, RuntimeAssumption, PTL DEF Spec

\* No return of Connect leaves the gate closed behind it, and at most one call
\* probes, dials or registers (manager.go:90-140).
THEOREM GateIsExclusive == Spec => []GateDiscipline
BY InductiveInvariant, PTL DEF IInv

\* Every open transport is cached, being closed, or still in the hands of the
\* call that dialled it, however many calls and disconnects there are.
THEOREM NoTransportIsLost == Spec => []NoStrayTransport
BY InductiveInvariant, PTL DEF IInv

-----------------------------------------------------------------------------
(* An old request spares the connection a concurrent call has restored.    *)

LEMMA StaleStep ==
  ASSUME RuntimeAssumption, IInv, [Next]_vars,
         NEW c \in Callers, pc[c] \in Requesting, pc'[c] # pc[c],
         client # None, hand[c] # client
  PROVE  client' = client /\ (client \in closing' => client \in closing)
<1> USE DEF IInv, TypeInv, TypeOK, CallsTyped, CacheTyped
<1>1. CASE CallerStep(c)
  <2>1. CASE ProbeFailed(c) \/ RequestAbandoned(c) \/ WebProbeFailed(c)
    BY <2>1 DEF ProbeFailed, RequestAbandoned, WebProbeFailed, Evict, CloseTransport
  <2>2. CASE UNCHANGED <<client, closing>>
    BY <2>2
  <2> QED
    BY <1>1, <2>1, <2>2
    DEF CallerStep, LeaveQueue, EnterGate, ProbeAnswered, Recheck, DialSucceeds, DialFails,
        Install, Announce, Pick, RequestGranted, RequestRefused, WebProbeAnswered,
        CommandStarts, CommandEnds
<1>2. CASE ForgetSession(c)
  BY <1>2 DEF ForgetSession
<1>3. CASE \E method \in Ops : Begin(c, method)
  BY <1>3 DEF Begin
<1>4. ASSUME NEW d \in Callers \ {c},
             CallerStep(d) \/ ForgetSession(d) \/ \E method \in Ops : Begin(d, method)
      PROVE  pc'[c] = pc[c]
  BY <1>4
  DEF CallerStep, LeaveQueue, EnterGate, ProbeAnswered, ProbeFailed, Recheck, DialSucceeds,
      DialFails, Install, Announce, Pick, RequestGranted, RequestRefused, RequestAbandoned,
      WebProbeAnswered, WebProbeFailed, CommandStarts, CommandEnds, ForgetSession, Begin,
      Goto, Return, Connected
<1>5. CASE pc' = pc
  BY <1>5
<1> QED
  BY <1>1, <1>2, <1>3, <1>4, <1>5
  DEF Next, vars, TerminalStep, CloseSession, TerminalRequestAbandoned, WaitTerminal,
      CloseVictim, ContextEnds, TransportStep, WatchClient, KeepAliveFails, KeepAliveStops,
      CheckAfterSessionFailure, TransportEnds, PeerStalls, PeerRecovers, ListSessions,
      Invalidate

\* A call that gives up on one transport neither drops nor closes another one
\* that is cached (connection_health.go:82).
THEOREM StaleWorkIsHarmless == Spec => StaleWorkSparesReplacement
<1>1. RuntimeAssumption /\ IInv /\ [Next]_vars => SparesReplacement
  BY StaleStep DEF SparesReplacement
<1> QED
  BY <1>1, InductiveInvariant, RuntimeAssumption, PTL DEF Spec, StaleWorkSparesReplacement

-----------------------------------------------------------------------------
(* What the liveness properties rest on: the cached transport has its      *)
(* guardians, and the transport of a terminal that has lost the cache is   *)
(* closed or on its way there.                                             *)

\* Whatever is cached has the goroutine that clears it when it ends and, while
\* it is up, the one that notices a peer that no longer answers, or the call
\* that registered it is about to start both.
CacheIsGuarded ==
  client # None =>
    \/ client \in watching /\ (client \in up => client \in keeping)
    \/ \E c \in Callers : pc[c] = "announce" /\ hand[c] = client

\* The transport a call is about to register is neither cached nor in the
\* hands of another call.
InstallIsNew ==
  \A c \in Callers : pc[c] = "install" =>
    hand[c] # client /\ \A d \in Callers \ {c} : hand[d] # hand[c]

\* A transport a call, a command or a terminal still holds, and that is not the
\* cached one, has ended or is being closed.
LeftBehindIsClosed ==
  \A c \in Callers :
    hand[c] \in Clients /\ hand[c] # client /\ pc[c] # "install"
      => hand[c] \notin up \/ hand[c] \in closing

AttendedInv == CacheIsGuarded /\ InstallIsNew

LEMMA CallerAttends ==
  ASSUME RuntimeAssumption, IInv, AttendedInv, NEW c \in Callers, CallerStep(c)
  PROVE  AttendedInv'
<1> USE DEF IInv, TypeInv, TypeOK, CallsTyped, CacheTyped, TasksTyped, GateDiscipline, HandFilled,
            AttendedInv, CacheIsGuarded, InstallIsNew, Goto, Take, RuntimeAssumption
<1>1. CASE LeaveQueue(c)
  BY <1>1 DEF LeaveQueue, Return
<1>2. CASE EnterGate(c)
  BY <1>2 DEF EnterGate
<1>3. CASE ProbeAnswered(c)
  BY <1>3 DEF ProbeAnswered
<1>4. CASE ProbeFailed(c)
  BY <1>4 DEF ProbeFailed, Evict, Return, CloseTransport
<1>5. CASE Recheck(c)
  BY <1>5 DEF Recheck, Return, Connected
<1>6. CASE \E cl \in Clients : DialSucceeds(c, cl)
  BY <1>6 DEF DialSucceeds, Fresh
<1>7. CASE DialFails(c)
  BY <1>7 DEF DialFails, Return
<1>8. CASE Install(c)
  BY <1>8 DEF Install, Return, CloseTransport
<1>9. CASE Announce(c)
  BY <1>9 DEF Announce, Connected, Return
<1>10. CASE Pick(c)
  BY <1>10 DEF Pick, Return
<1>11. CASE RequestGranted(c)
  BY <1>11 DEF RequestGranted, Return
<1>12. CASE RequestRefused(c)
  BY <1>12 DEF RequestRefused, Return
<1>13. CASE RequestAbandoned(c)
  BY <1>13 DEF RequestAbandoned, Return, Evict, CloseTransport
<1>14. CASE WebProbeAnswered(c)
  BY <1>14 DEF WebProbeAnswered, Return
<1>15. CASE WebProbeFailed(c)
  BY <1>15 DEF WebProbeFailed, Evict, CloseTransport
<1>16. CASE CommandStarts(c)
  BY <1>16 DEF CommandStarts
<1>17. CASE CommandEnds(c)
  BY <1>17 DEF CommandEnds, Return
<1> QED
  BY <1>1, <1>2, <1>3, <1>4, <1>5, <1>6, <1>7, <1>8, <1>9, <1>10, <1>11, <1>12,
     <1>13, <1>14, <1>15, <1>16, <1>17 DEF CallerStep

\* A guardian leaves only after it has cleared the cache, or found another
\* transport in it.
LEMMA OthersAttend ==
  ASSUME RuntimeAssumption, IInv, AttendedInv,
         \/ \E c \in Callers : \/ \E method \in Ops : Begin(c, method)
                               \/ ContextEnds(c) \/ TerminalStep(c) \/ CloseVictim(c)
         \/ \E cl \in Clients : TransportStep(cl)
         \/ ListSessions \/ Invalidate
  PROVE  AttendedInv'
<1> USE DEF IInv, TypeInv, TypeOK, CallsTyped, CacheTyped, TasksTyped, HandFilled,
            AttendedInv, CacheIsGuarded, InstallIsNew, RuntimeAssumption
<1>1. ASSUME NEW c \in Callers, NEW method \in Ops, Begin(c, method)
      PROVE  AttendedInv'
  BY <1>1 DEF Begin, Goto
<1>2. ASSUME NEW c \in Callers, ContextEnds(c)
      PROVE  AttendedInv'
  BY <1>2 DEF ContextEnds
<1>3. ASSUME NEW c \in Callers, TerminalStep(c) \/ CloseVictim(c)
      PROVE  AttendedInv'
  <2>1. CASE CloseSession(c) \/ WaitTerminal(c) \/ CloseVictim(c)
    BY <2>1 DEF CloseSession, WaitTerminal, CloseVictim
  <2>2. CASE TerminalRequestAbandoned(c)
    BY <2>2 DEF TerminalRequestAbandoned, Evict, CloseTransport
  <2>3. CASE ForgetSession(c)
    BY <2>3 DEF ForgetSession, SessionAttached, Return, Goto, Take
  <2> QED
    BY <1>3, <2>1, <2>2, <2>3 DEF TerminalStep
<1>4. ASSUME NEW cl \in Clients, TransportStep(cl)
      PROVE  AttendedInv'
  <2>1. CASE WatchClient(cl)
    BY <2>1 DEF WatchClient
  <2>2. CASE KeepAliveFails(cl)
    BY <2>2 DEF KeepAliveFails, Evict, CloseTransport
  <2>3. CASE CheckAfterSessionFailure(cl)
    BY <2>3 DEF CheckAfterSessionFailure, Evict, CloseTransport
  <2>4. CASE TransportEnds(cl)
    BY <2>4 DEF TransportEnds
  <2>5. CASE KeepAliveStops(cl) \/ PeerStalls(cl) \/ PeerRecovers(cl)
    BY <2>5 DEF KeepAliveStops, PeerStalls, PeerRecovers
  <2> QED
    BY <1>4, <2>1, <2>2, <2>3, <2>4, <2>5 DEF TransportStep
<1>5. CASE ListSessions
  BY <1>5 DEF ListSessions
<1>6. CASE Invalidate
  BY <1>6 DEF Invalidate, CloseTransport
<1> QED
  BY <1>1, <1>2, <1>3, <1>4, <1>5, <1>6

LEMMA AttendedInvariant == Spec => [](IInv /\ AttendedInv)
<1>1. Init => AttendedInv
  BY DEF Init, AttendedInv, CacheIsGuarded, InstallIsNew
<1>2. ASSUME IInv, AttendedInv, [Next]_vars
      PROVE  AttendedInv'
  <2>1. CASE UNCHANGED vars
    BY <1>2, <2>1 DEF vars, AttendedInv, CacheIsGuarded, InstallIsNew
  <2>2. CASE Next
    BY <1>2, <2>2, CallerAttends, OthersAttend, RuntimeAssumption DEF Next
  <2> QED
    BY <1>2, <2>1, <2>2
<1> QED
  BY <1>1, <1>2, InductiveInvariant, PTL DEF Spec

\* The safety half of UnusableClientReplaced: nobody can be cached without the
\* goroutine that will clear it, however Connect's early returns, late dials
\* and disconnects interleave (manager.go:128-137).
THEOREM CacheHasGuardians == Spec => []CacheIsGuarded
BY AttendedInvariant, PTL DEF AttendedInv

\* The safety half of TerminalFollowsConnection, also for the terminal that is
\* registered only after CloseProfile has listed the terminals
\* (manager.go:279-330): once the cache holds another transport, or none, the
\* terminal's own one has ended or has been closed.
THEOREM TerminalsAreNotLeftOpen == Spec => []LeftBehindIsClosed
<1>1. IInv /\ AttendedInv => LeftBehindIsClosed
  BY DEF IInv, NoStrayTransport, AttendedInv, InstallIsNew, LeftBehindIsClosed
<1> QED
  BY <1>1, AttendedInvariant, PTL

\* The transport of a terminal never comes back to the cache once it has left:
\* only a fresh one is registered, and no call holds that one.
NeverTakenBack ==
  \A c \in Callers :
    pc[c] = "attached" /\ pc'[c] = "attached" /\ hand[c] # client
      => hand'[c] = hand[c] /\ hand'[c] # client'

LEMMA TakenBackStep ==
  ASSUME RuntimeAssumption, IInv, AttendedInv, [Next]_vars,
         NEW c \in Callers, pc[c] = "attached", pc'[c] = "attached", hand[c] # client
  PROVE  hand'[c] = hand[c] /\ hand'[c] # client'
<1> USE DEF IInv, TypeInv, TypeOK, CallsTyped, HandFilled
<1>0. hand[c] \in Clients
  OBVIOUS
<1>1. ASSUME NEW d \in Callers, CallerStep(d)
      PROVE  hand'[c] = hand[c] /\ client' \in {client, None} \cup {hand[e] : e \in {f \in Callers : pc[f] = "install"}}
  <2>1. c # d
    BY <1>1
    DEF CallerStep, LeaveQueue, EnterGate, ProbeAnswered, ProbeFailed, Recheck, DialSucceeds,
        DialFails, Install, Announce, Pick, RequestGranted, RequestRefused, RequestAbandoned,
        WebProbeAnswered, WebProbeFailed, CommandStarts, CommandEnds
  <2>2. hand'[c] = hand[c]
    BY <1>1, <2>1
    DEF CallerStep, LeaveQueue, EnterGate, ProbeAnswered, ProbeFailed, Recheck, DialSucceeds,
        DialFails, Install, Announce, Pick, RequestGranted, RequestRefused, RequestAbandoned,
        WebProbeAnswered, WebProbeFailed, CommandStarts, CommandEnds, Take, Return, Connected
  <2>3. client' \in {client, None} \cup {hand[e] : e \in {f \in Callers : pc[f] = "install"}}
    BY <1>1
    DEF CallerStep, LeaveQueue, EnterGate, ProbeAnswered, ProbeFailed, Recheck, DialSucceeds,
        DialFails, Install, Announce, Pick, RequestGranted, RequestRefused, RequestAbandoned,
        WebProbeAnswered, WebProbeFailed, CommandStarts, CommandEnds, Evict
  <2> QED
    BY <2>2, <2>3
<1>2. CASE \E d \in Callers : CallerStep(d)
  BY <1>0, <1>1, <1>2, RuntimeAssumption DEF AttendedInv, InstallIsNew, RuntimeAssumption
<1>3. ASSUME ~\E d \in Callers : CallerStep(d)
      PROVE  hand'[c] = hand[c] /\ client' \in {client, None}
  <2>1. CASE \E d \in Callers : ForgetSession(d)
    BY <2>1 DEF ForgetSession, Return, Goto, Take, SessionAttached
  <2>2. CASE ~\E d \in Callers : ForgetSession(d)
    BY <1>3, <2>2
    DEF Next, vars, TerminalStep, CloseSession, TerminalRequestAbandoned, WaitTerminal, Begin,
        CloseVictim, ContextEnds, TransportStep, WatchClient, KeepAliveFails, KeepAliveStops,
        CheckAfterSessionFailure, TransportEnds, PeerStalls, PeerRecovers, ListSessions,
        Invalidate, Evict
  <2> QED
    BY <2>1, <2>2
<1> QED
  BY <1>0, <1>2, <1>3, RuntimeAssumption DEF RuntimeAssumption

\* The other half of TerminalFollowsConnection's antecedent: a terminal that has
\* lost the cached connection has lost it for good, so nothing can take its end
\* back (manager.go:128-134).
THEOREM LostIsLostForGood == Spec => [][NeverTakenBack]_vars
<1>1. RuntimeAssumption /\ IInv /\ AttendedInv /\ [Next]_vars => NeverTakenBack
  BY TakenBackStep DEF NeverTakenBack
<1> QED
  BY <1>1, AttendedInvariant, RuntimeAssumption, PTL DEF Spec

-----------------------------------------------------------------------------
(* What CallReturns rests on: a call only ever gets closer to its end.     *)

\* How many steps a try of a method may still take.
TryLeft ==
  [idle |-> 0, attached |-> 0, running |-> 1, webprobe |-> 1, start |-> 2, request |-> 3,
   pick |-> 4, announce |-> 5, install |-> 6, dial |-> 7, recheck |-> 8, probe |-> 9,
   queued |-> 10]

\* A web call has a second try, and no third.
StepsLeft(place, method) == TryLeft[place] + (IF method = "web" THEN 20 ELSE 0)

MovesOn(c) ==
  \/ pc'[c] = pc[c] /\ op'[c] = op[c]
  \/ StepsLeft(pc'[c], op'[c]) < StepsLeft(pc[c], op[c])

CallsMoveOn == \A c \in Callers : pc[c] \notin {"idle", "attached"} => MovesOn(c)

\* Only the first try of a web call asks afterwards whether the transport answers.
FirstTryProbes == \A c \in Callers : pc[c] = "webprobe" => op[c] = "web"

LEMMA OwnStepMovesOn ==
  ASSUME TypeInv, FirstTryProbes, NEW c \in Callers, CallerStep(c)
  PROVE  MovesOn(c)
<1> USE DEF TypeInv, TypeOK, CallsTyped, MovesOn, StepsLeft, TryLeft, Goto, Take, Return
<1>1. CASE LeaveQueue(c) \/ DialFails(c) \/ RequestAbandoned(c) \/ WebProbeAnswered(c) \/ CommandEnds(c)
  BY <1>1 DEF LeaveQueue, DialFails, RequestAbandoned, WebProbeAnswered, CommandEnds
<1>2. CASE EnterGate(c)
  BY <1>2 DEF EnterGate
<1>3. CASE ProbeAnswered(c)
  BY <1>3 DEF ProbeAnswered
<1>4. CASE ProbeFailed(c)
  BY <1>4 DEF ProbeFailed
<1>5. CASE Recheck(c)
  BY <1>5 DEF Recheck, Connected
<1>6. CASE \E cl \in Clients : DialSucceeds(c, cl)
  BY <1>6 DEF DialSucceeds
<1>7. CASE Install(c)
  BY <1>7 DEF Install
<1>8. CASE Announce(c)
  BY <1>8 DEF Announce, Connected
<1>9. CASE Pick(c)
  BY <1>9 DEF Pick
<1>10. CASE RequestGranted(c)
  BY <1>10 DEF RequestGranted
<1>11. CASE RequestRefused(c)
  BY <1>11 DEF RequestRefused
<1>12. CASE WebProbeFailed(c)
  BY <1>12 DEF WebProbeFailed, FirstTryProbes
<1>13. CASE CommandStarts(c)
  BY <1>13 DEF CommandStarts
<1> QED
  BY <1>1, <1>2, <1>3, <1>4, <1>5, <1>6, <1>7, <1>8, <1>9, <1>10, <1>11, <1>12, <1>13
  DEF CallerStep

\* Nobody else can send a call back.
LEMMA OthersLeaveCall ==
  ASSUME TypeInv, [Next]_vars, NEW c \in Callers, pc[c] \notin {"idle", "attached"},
         ~CallerStep(c)
  PROVE  pc'[c] = pc[c] /\ op'[c] = op[c]
<1> USE DEF TypeInv, TypeOK, CallsTyped
<1>1. ASSUME NEW d \in Callers, d # c,
             CallerStep(d) \/ ForgetSession(d) \/ \E method \in Ops : Begin(d, method)
      PROVE  pc'[c] = pc[c] /\ op'[c] = op[c]
  BY <1>1
  DEF CallerStep, LeaveQueue, EnterGate, ProbeAnswered, ProbeFailed, Recheck, DialSucceeds,
      DialFails, Install, Announce, Pick, RequestGranted, RequestRefused, RequestAbandoned,
      WebProbeAnswered, WebProbeFailed, CommandStarts, CommandEnds, ForgetSession, Begin,
      Goto, Return, Connected
<1>2. ~ForgetSession(c) /\ ~\E method \in Ops : Begin(c, method)
  BY DEF ForgetSession, Begin, SessionAttached
<1>3. CASE UNCHANGED <<pc, op>>
  BY <1>3
<1> QED
  BY <1>1, <1>2, <1>3
  DEF Next, vars, TerminalStep, CloseSession, TerminalRequestAbandoned, WaitTerminal,
      CloseVictim, ContextEnds, TransportStep, WatchClient, KeepAliveFails, KeepAliveStops,
      CheckAfterSessionFailure, TransportEnds, PeerStalls, PeerRecovers, ListSessions,
      Invalidate

LEMMA FirstTryStep ==
  ASSUME TypeInv, FirstTryProbes, [Next]_vars
  PROVE  FirstTryProbes'
<1> SUFFICES ASSUME NEW c \in Callers, pc'[c] = "webprobe"
             PROVE  op'[c] = "web"
  BY DEF FirstTryProbes
<1>1. CASE CallerStep(c)
  BY <1>1
  DEF TypeInv, TypeOK, CallsTyped, CallerStep, LeaveQueue, EnterGate, ProbeAnswered, ProbeFailed,
      Recheck, DialSucceeds, DialFails, Install, Announce, Pick, RequestGranted, RequestRefused,
      RequestAbandoned, WebProbeAnswered, WebProbeFailed, CommandStarts, CommandEnds, Goto,
      Return, Connected
<1>2. CASE ~CallerStep(c) /\ pc[c] \notin {"idle", "attached"}
  BY <1>2, OthersLeaveCall DEF FirstTryProbes
<1>3. CASE ~CallerStep(c) /\ pc[c] \in {"idle", "attached"}
  BY <1>3
  DEF TypeInv, TypeOK, CallsTyped, Next, vars, TerminalStep, CloseSession, TerminalRequestAbandoned,
      WaitTerminal, CloseVictim, ContextEnds, TransportStep, WatchClient, KeepAliveFails,
      KeepAliveStops, CheckAfterSessionFailure, TransportEnds, PeerStalls, PeerRecovers,
      ListSessions, Invalidate, ForgetSession, Begin, CallerStep, LeaveQueue, EnterGate,
      ProbeAnswered, ProbeFailed, Recheck, DialSucceeds, DialFails, Install, Announce, Pick,
      RequestGranted, RequestRefused, RequestAbandoned, WebProbeAnswered, WebProbeFailed,
      CommandStarts, CommandEnds, Goto, Return, Connected
<1> QED
  BY <1>1, <1>2, <1>3

\* The safety half of CallReturns: from its begin to its return, a call takes a
\* bounded number of steps, whatever the other calls, the guardians and the
\* disconnects do; only a web request is tried again, and only once
\* (manager.go:224-261).
THEOREM CallsCannotSpin == Spec => [][CallsMoveOn]_vars
<1>1. Init => FirstTryProbes
  BY DEF Init, FirstTryProbes
<1>2. IInv /\ FirstTryProbes /\ [Next]_vars => FirstTryProbes'
  BY FirstTryStep DEF IInv
<1>3. IInv /\ FirstTryProbes /\ [Next]_vars => CallsMoveOn
  BY OwnStepMovesOn, OthersLeaveCall DEF IInv, CallsMoveOn, MovesOn
<1> QED
  BY <1>1, <1>2, <1>3, InductiveInvariant, PTL DEF Spec

-----------------------------------------------------------------------------
(* The runtime implements ConnectionPromise.                               *)

USE DEF Promise!Start, Promise!Establish, Promise!GiveUp, Promise!Lose,
        Promise!LoseAndGiveUp, Promise!Disconnect

\* A step that neither fills nor clears the cache, and leaves the attempts.
LEMMA PromiseStutters ==
  ASSUME client' = client, Pending' = Pending
  PROVE  UNCHANGED <<Link, Pending>>
BY DEF Link

\* A step that clears the cache or leaves it as it is, attempts untouched.
LEMMA PromiseLoses ==
  ASSUME client' \in {client, None}, Pending' = Pending
  PROVE  [Promise!Next]_<<Link, Pending>>
<1>1. Promise!Lose \/ UNCHANGED <<Link, Pending>>
  BY DEF Link
<1> QED
  BY <1>1 DEF Promise!Next

\* The same for a call that ends with the step.
LEMMA PromiseGivesUp ==
  ASSUME NEW c \in Callers, client' \in {client, None}, Pending' = Pending \ {c}
  PROVE  [Promise!Next]_<<Link, Pending>>
<1>1. Promise!GiveUp(c) \/ Promise!LoseAndGiveUp(c)
  BY DEF Link
<1> QED
  BY <1>1 DEF Promise!Next

\* Each step of a call is a step of the promise or a stutter.
LEMMA CallerRefines ==
  ASSUME RuntimeAssumption, IInv, NEW c \in Callers, CallerStep(c)
  PROVE  [Promise!Next]_<<Link, Pending>>
<1> USE DEF IInv, TypeInv, TypeOK, CallsTyped, CacheTyped, Goto, Take, Return, Connected,
            Pending, GateDiscipline, RuntimeAssumption
<1>1. CASE EnterGate(c)
  <2>1. Promise!Start(c)
    BY <1>1 DEF EnterGate, Link
  <2> QED
    BY <2>1 DEF Promise!Next
<1>2. CASE ProbeFailed(c)
  <2>1. client' \in {client, None}
    BY <1>2 DEF ProbeFailed, Evict
  <2>2. Pending' = Pending \/ Pending' = Pending \ {c}
    BY <1>2 DEF ProbeFailed
  <2> QED
    BY <2>1, <2>2, PromiseLoses, PromiseGivesUp
<1>3. CASE Recheck(c)
  <2>1. client' = client
    BY <1>3 DEF Recheck
  <2>2. Pending' = Pending \/ Pending' = Pending \ {c}
    BY <1>3 DEF Recheck
  <2> QED
    BY <2>1, <2>2, PromiseLoses, PromiseGivesUp
<1>4. CASE DialFails(c)
  <2>1. client' = client /\ Pending' = Pending \ {c}
    BY <1>4 DEF DialFails
  <2> QED
    BY <2>1, PromiseGivesUp
<1>5. CASE Install(c)
  <2>1. CASE seen[c] # generation \/ cancelled[c]
    <3>1. client' = client /\ Pending' = Pending \ {c}
      BY <1>5, <2>1 DEF Install
    <3> QED
      BY <3>1, PromiseGivesUp
  <2>2. CASE ~(seen[c] # generation \/ cancelled[c])
    <3>1. client = None /\ client' # None
      BY <1>5, <2>2 DEF Install, CacheInv, DialFindsNone, HandFilled
    <3>2. c \in Pending /\ Pending' = Pending \ {c}
      BY <1>5, <2>2 DEF Install
    <3>3. Promise!Establish(c)
      BY <3>1, <3>2 DEF Link
    <3> QED
      BY <3>3 DEF Promise!Next
  <2> QED
    BY <2>1, <2>2
<1>6. CASE \/ LeaveQueue(c) \/ ProbeAnswered(c) \/ (\E cl \in Clients : DialSucceeds(c, cl))
           \/ Announce(c)
  <2>1. client' = client /\ Pending' = Pending
    BY <1>6 DEF LeaveQueue, ProbeAnswered, DialSucceeds, Announce
  <2> QED
    BY <2>1, PromiseStutters
<1>7. CASE \/ Pick(c) \/ RequestGranted(c) \/ RequestRefused(c) \/ WebProbeAnswered(c)
           \/ CommandStarts(c) \/ CommandEnds(c)
  <2>1. client' = client
    BY <1>7 DEF Pick, RequestGranted, RequestRefused, WebProbeAnswered, CommandStarts, CommandEnds
  <2>2. Pending' = Pending
    BY <1>7 DEF Pick, RequestGranted, RequestRefused, WebProbeAnswered, CommandStarts, CommandEnds
  <2> QED
    BY <2>1, <2>2, PromiseStutters
<1>8. CASE RequestAbandoned(c) \/ WebProbeFailed(c)
  <2>1. client' \in {client, None}
    BY <1>8 DEF RequestAbandoned, WebProbeFailed, Evict
  <2>2. Pending' = Pending
    BY <1>8 DEF RequestAbandoned, WebProbeFailed
  <2> QED
    BY <2>1, <2>2, PromiseLoses
<1> QED
  BY <1>1, <1>2, <1>3, <1>4, <1>5, <1>6, <1>7, <1>8 DEF CallerStep

\* So is each of the other steps; a disconnect leaves no attempt pending.
LEMMA OthersRefine ==
  ASSUME RuntimeAssumption, IInv,
         \/ \E c \in Callers : \/ \E method \in Ops : Begin(c, method)
                               \/ ContextEnds(c) \/ TerminalStep(c) \/ CloseVictim(c)
         \/ \E cl \in Clients : TransportStep(cl)
         \/ ListSessions \/ Invalidate
  PROVE  [Promise!Next]_<<Link, Pending>>
<1> USE DEF IInv, TypeInv, TypeOK, CallsTyped, CacheTyped, Pending
<1>1. ASSUME NEW c \in Callers, NEW method \in Ops, Begin(c, method)
      PROVE  client' = client /\ Pending' = Pending
  BY <1>1 DEF Begin, Goto
<1>2. ASSUME NEW c \in Callers, ContextEnds(c)
      PROVE  client' = client /\ Pending' = Pending
  BY <1>2 DEF ContextEnds
<1>3. ASSUME NEW c \in Callers, TerminalStep(c) \/ CloseVictim(c)
      PROVE  client' \in {client, None} /\ Pending' = Pending
  <2>1. CASE ForgetSession(c)
    BY <2>1 DEF ForgetSession, SessionAttached, Return, Goto, Take
  <2>2. CASE CloseSession(c) \/ TerminalRequestAbandoned(c) \/ WaitTerminal(c) \/ CloseVictim(c)
    BY <2>2 DEF CloseSession, TerminalRequestAbandoned, WaitTerminal, CloseVictim, Evict
  <2> QED
    BY <1>3, <2>1, <2>2 DEF TerminalStep
<1>4. ASSUME NEW cl \in Clients, TransportStep(cl)
      PROVE  client' \in {client, None} /\ Pending' = Pending
  BY <1>4
  DEF TransportStep, WatchClient, KeepAliveFails, KeepAliveStops, CheckAfterSessionFailure,
      TransportEnds, PeerStalls, PeerRecovers, Evict
<1>5. CASE Invalidate
  <2>1. Pending' = {}
    BY <1>5 DEF Invalidate, CacheInv, SeenBound
  <2>2. Promise!Disconnect
    BY <1>5, <2>1 DEF Invalidate, Link
  <2> QED
    BY <2>2 DEF Promise!Next
<1>6. CASE ListSessions
  BY <1>6, PromiseStutters DEF ListSessions
<1> QED
  BY <1>1, <1>2, <1>3, <1>4, <1>5, <1>6, PromiseLoses

\* A connection attempt that was under way when the profile was disconnected
\* never brings the connection up, and none replaces one that is up.
THEOREM RuntimeKeepsPromise == Spec => KeepsPromise
<1>1. Init => Promise!Init
  BY DEF Init, Promise!Init, Link, Pending
<1>2. RuntimeAssumption /\ IInv /\ [Next]_vars => [Promise!Next]_<<Link, Pending>>
  <2>1. ASSUME UNCHANGED vars PROVE UNCHANGED <<Link, Pending>>
    BY <2>1 DEF vars, Link, Pending
  <2> QED
    BY <2>1, CallerRefines, OthersRefine DEF Next
<1> QED
  BY <1>1, <1>2, InductiveInvariant, RuntimeAssumption, PTL
  DEF Spec, KeepsPromise, Promise!Spec
=============================================================================
