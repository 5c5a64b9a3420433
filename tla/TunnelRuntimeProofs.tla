------------------------- MODULE TunnelRuntimeProofs -------------------------
(***************************************************************************)
(* Theorems about TunnelRuntime, for any set of callers and links and any  *)
(* number of disconnects.                                                  *)
(***************************************************************************)
EXTENDS TunnelRuntime, TLAPS

USE DEF Places, Holding, Leaving, Modes, States, runtime, guards, status, locals

-----------------------------------------------------------------------------
(* Types.  The invariant is TypeOK with what a caller's hand holds: where  *)
(* a link is registered, announced or closed after a tunnel was cut, the   *)
(* hand holds one.                                                         *)

HandFilled ==
  \A c \in Callers :
    pc[c] \in {"registering", "announcing", "closing", "closed"} => hand[c] \in Links

TypeInv == TypeOK /\ HandFilled

CallInv == LocalsTyped /\ HandFilled

LEMMA ReturnTyped ==
  ASSUME CallInv, NEW c \in Callers, Return(c)
  PROVE  CallInv'
BY DEF CallInv, LocalsTyped, HandFilled, Return, Goto, Take

\* The steps of Connect keep the invariant.
LEMMA ConnectStepTyped ==
  ASSUME TunnelAssumption, TypeInv, NEW c \in Callers,
         \/ LeaveQueue(c) \/ EnterGate(c) \/ ClearForDirect(c)
         \/ Prepare(c) \/ NoPassword(c) \/ Dial(c) \/ OpenFails(c)
         \/ (\E l \in Links : OpenSucceeds(c, l))
         \/ (\E late \in BOOLEAN : Register(c, late))
         \/ Announce(c)
  PROVE  TypeInv'
<1> CallInv
  BY DEF TypeInv, TypeOK, CallInv
<1> USE DEF TypeInv, TypeOK, LinksTyped
<1>1. CASE LeaveQueue(c)
  BY <1>1, ReturnTyped DEF LeaveQueue, CallInv
<1>2. CASE EnterGate(c)
  <2>1. CASE Return(c) /\ UNCHANGED <<gate, link>>
    BY <1>2, <2>1, ReturnTyped DEF EnterGate, CallInv
  <2>2. CASE /\ gate' = c /\ Take(c, link) /\ link' = None
             /\ Goto(c, "clearing") /\ UNCHANGED <<value, seen>>
    BY <1>2, <2>2 DEF EnterGate, LocalsTyped, HandFilled, Goto, Take
  <2>3. CASE /\ gate' = c /\ link' = None /\ seen' = [seen EXCEPT ![c] = generation]
             /\ Goto(c, "preparing") /\ UNCHANGED <<value, hand>>
    BY <1>2, <2>3 DEF EnterGate, LocalsTyped, HandFilled, Goto
  <2> QED
    BY <1>2, <2>1, <2>2, <2>3 DEF EnterGate
<1>3. CASE ClearForDirect(c)
  BY <1>3, ReturnTyped DEF ClearForDirect, CallInv, CloseLink, UpdateStatus
<1>4. CASE Prepare(c)
  BY <1>4 DEF Prepare, SetState, LocalsTyped, HandFilled, Goto
<1>5. CASE NoPassword(c)
  BY <1>5, ReturnTyped DEF NoPassword, SetState, CallInv
<1>6. CASE Dial(c)
  BY <1>6 DEF Dial, SetState, LocalsTyped, HandFilled, Goto
<1>7. CASE OpenFails(c)
  BY <1>7, ReturnTyped DEF OpenFails, SetState, CallInv
<1>8. CASE \E l \in Links : OpenSucceeds(c, l)
  BY <1>8 DEF OpenSucceeds, LocalsTyped, HandFilled, Goto, Take
<1>9. CASE \E late \in BOOLEAN : Register(c, late)
  <2>1. PICK late \in BOOLEAN : Register(c, late)
    BY <1>9
  <2>2. CASE seen[c] # generation \/ late
    BY <2>1, <2>2, ReturnTyped DEF Register, CloseLink, CallInv
  <2>3. CASE ~(seen[c] # generation \/ late)
    BY <2>1, <2>3 DEF Register, LocalsTyped, HandFilled, Goto
  <2> QED
    BY <2>2, <2>3
<1>10. CASE Announce(c)
  <2>1. hand[c] \in Links
    BY <1>10 DEF Announce, HandFilled
  <2> QED
    BY <1>10, <2>1, ReturnTyped DEF Announce, UpdateStatus, CallInv
<1> QED
  BY <1>1, <1>2, <1>3, <1>4, <1>5, <1>6, <1>7, <1>8, <1>9, <1>10

\* So do the steps of Disconnect, the watches, the network and the calls that begin.
LEMMA DisconnectStepTyped ==
  ASSUME TunnelAssumption, TypeInv, NEW c \in Callers,
         \/ BeginConnect(c) \/ BeginDisconnect(c) \/ SaveProfile(c)
         \/ ReadStored(c) \/ Cut(c) \/ CutDirect(c) \/ CutNothing(c) \/ CutLink(c) \/ CutDone(c)
  PROVE  TypeInv'
<1> CallInv
  BY DEF TypeInv, TypeOK, CallInv
<1> USE DEF TypeInv, TypeOK, LinksTyped
<1>1. CASE BeginConnect(c)
  BY <1>1 DEF BeginConnect, LocalsTyped, HandFilled, Goto
<1>2. CASE BeginDisconnect(c)
  BY <1>2 DEF BeginDisconnect, LocalsTyped, HandFilled, Goto
<1>3. CASE SaveProfile(c)
  BY <1>3 DEF SaveProfile, LocalsTyped, HandFilled, Goto
<1>4. CASE ReadStored(c)
  BY <1>4 DEF ReadStored, LocalsTyped, HandFilled, Goto
<1>5. CASE Cut(c)
  BY <1>5 DEF Cut, LocalsTyped, HandFilled, Goto, Take
<1>6. CASE CutDirect(c)
  BY <1>6, ReturnTyped DEF CutDirect, CloseLink, UpdateStatus, CallInv
<1>7. CASE CutNothing(c)
  BY <1>7, ReturnTyped DEF CutNothing, SetState, CallInv
<1>8. CASE CutLink(c)
  BY <1>8 DEF CutLink, SetState, LocalsTyped, HandFilled, Goto
<1>9. CASE CutDone(c)
  BY <1>9, ReturnTyped DEF CutDone, CloseLink, UpdateStatus, CallInv
<1> QED
  BY <1>1, <1>2, <1>3, <1>4, <1>5, <1>6, <1>7, <1>8, <1>9

LEMMA LinkStepTyped ==
  ASSUME TypeInv, NEW l \in Links, LinkFails(l) \/ WatchEnds(l) \/ WatchReports(l)
  PROVE  TypeInv'
<1> USE DEF TypeInv, TypeOK, LinksTyped, LocalsTyped, HandFilled
<1>1. CASE LinkFails(l)
  BY <1>1 DEF LinkFails
<1>2. CASE WatchEnds(l)
  BY <1>2 DEF WatchEnds
<1>3. CASE WatchReports(l)
  BY <1>3 DEF WatchReports, UpdateStatus
<1> QED
  BY <1>1, <1>2, <1>3

LEMMA TypeStep ==
  ASSUME TunnelAssumption, TypeInv, [Next]_vars
  PROVE  TypeInv'
<1>1. CASE UNCHANGED vars
  BY <1>1 DEF vars, TypeInv, TypeOK, LinksTyped, LocalsTyped, HandFilled
<1> QED
  BY <1>1, ConnectStepTyped, DisconnectStepTyped, LinkStepTyped DEF Next, CallerStep

LEMMA InitTyped == Init => TypeInv
<1> SUFFICES ASSUME Init PROVE TypeInv
  OBVIOUS
<1>1. LinksTyped
  BY DEF Init, LinksTyped
<1>2. LocalsTyped
  BY DEF Init, LocalsTyped
<1>3. HandFilled
  BY DEF Init, HandFilled
<1> QED
  BY <1>1, <1>2, <1>3 DEF Init, TypeInv, TypeOK

LEMMA TypeInvariant == Spec => []TypeInv
<1> QED
  BY InitTyped, TypeStep, TunnelAssumption, PTL DEF Spec

\* The runtime, the status and the callers' variables keep their types; in
\* particular no link that ended by itself is counted as open
\* (isolated_manager.go:25-45).
THEOREM TypeCorrect == Spec => []TypeOK
BY TypeInvariant, PTL DEF TypeInv

-----------------------------------------------------------------------------
(* The inductive invariant: the gate, and what the call that holds it may  *)
(* believe of the link as long as its generation is the current one.       *)

\* The gate is held by the one call inside connectLocked, and by nobody else.
GateDiscipline == \A c \in Callers : pc[c] \in Holding <=> gate = c

SeenBound == \A c \in Callers : seen[c] <= generation

\* A call that opens a tunnel since the last disconnect has an empty place to
\* register it in.
OpenFindsNone ==
  \A c \in Callers :
    pc[c] \in {"preparing", "secret", "opening", "registering"} /\ seen[c] = generation
      => link = None

LinkInv == GateDiscipline /\ SeenBound /\ OpenFindsNone

IInv == TypeInv /\ LinkInv /\ NoStrayLink

\* A step of a call: only Register fills the link, only EnterGate reads the
\* generation, and the gate keeps every other call away from both.
LEMMA ConnectKeepsLink ==
  ASSUME TunnelAssumption, IInv, NEW c \in Callers,
         \/ LeaveQueue(c) \/ EnterGate(c) \/ ClearForDirect(c)
         \/ Prepare(c) \/ NoPassword(c) \/ Dial(c) \/ OpenFails(c)
         \/ (\E l \in Links : OpenSucceeds(c, l))
         \/ (\E late \in BOOLEAN : Register(c, late))
         \/ Announce(c)
  PROVE  LinkInv'
<1> USE DEF IInv, TypeInv, TypeOK, LocalsTyped, LinkInv, GateDiscipline, SeenBound,
            OpenFindsNone, Goto, Take, Return, TunnelAssumption
<1>1. CASE LeaveQueue(c)
  BY <1>1 DEF LeaveQueue
<1>2. CASE EnterGate(c)
  BY <1>2 DEF EnterGate
<1>3. CASE ClearForDirect(c)
  BY <1>3 DEF ClearForDirect
<1>4. CASE Prepare(c)
  BY <1>4 DEF Prepare
<1>5. CASE NoPassword(c)
  BY <1>5 DEF NoPassword
<1>6. CASE Dial(c)
  BY <1>6 DEF Dial
<1>7. CASE OpenFails(c)
  BY <1>7 DEF OpenFails
<1>8. CASE \E l \in Links : OpenSucceeds(c, l)
  BY <1>8 DEF OpenSucceeds
<1>9. CASE \E late \in BOOLEAN : Register(c, late)
  BY <1>9 DEF Register
<1>10. CASE Announce(c)
  BY <1>10 DEF Announce
<1> QED
  BY <1>1, <1>2, <1>3, <1>4, <1>5, <1>6, <1>7, <1>8, <1>9, <1>10

\* A Connect leaves no open link out of sight: a late one is closed, and one
\* that is registered replaces nothing (OpenFindsNone).
LEMMA ConnectKeepsLinksInSight ==
  ASSUME TunnelAssumption, IInv, NEW c \in Callers,
         \/ LeaveQueue(c) \/ EnterGate(c) \/ ClearForDirect(c)
         \/ Prepare(c) \/ NoPassword(c) \/ Dial(c) \/ OpenFails(c)
         \/ (\E l \in Links : OpenSucceeds(c, l))
         \/ (\E late \in BOOLEAN : Register(c, late))
         \/ Announce(c)
  PROVE  NoStrayLink'
<1> USE DEF IInv, TypeInv, TypeOK, LinksTyped, LocalsTyped, NoStrayLink, Goto, Take, Return,
            CloseLink, TunnelAssumption
<1>1. CASE LeaveQueue(c)
  BY <1>1 DEF LeaveQueue
<1>2. CASE EnterGate(c)
  BY <1>2 DEF EnterGate
<1>3. CASE ClearForDirect(c)
  BY <1>3 DEF ClearForDirect
<1>4. CASE Prepare(c)
  BY <1>4 DEF Prepare
<1>5. CASE NoPassword(c)
  BY <1>5 DEF NoPassword
<1>6. CASE Dial(c)
  BY <1>6 DEF Dial
<1>7. CASE OpenFails(c)
  BY <1>7 DEF OpenFails
<1>8. CASE \E l \in Links : OpenSucceeds(c, l)
  BY <1>8 DEF OpenSucceeds
<1>9. CASE \E late \in BOOLEAN : Register(c, late)
  BY <1>9 DEF Register, LinkInv, OpenFindsNone
<1>10. CASE Announce(c)
  BY <1>10 DEF Announce
<1> QED
  BY <1>1, <1>2, <1>3, <1>4, <1>5, <1>6, <1>7, <1>8, <1>9, <1>10

\* So do the disconnects, which close what they took, and the calls that begin.
LEMMA DisconnectKeepsInvariant ==
  ASSUME TunnelAssumption, IInv, NEW c \in Callers,
         \/ BeginConnect(c) \/ BeginDisconnect(c) \/ SaveProfile(c)
         \/ ReadStored(c) \/ Cut(c) \/ CutDirect(c) \/ CutNothing(c) \/ CutLink(c) \/ CutDone(c)
  PROVE  (LinkInv /\ NoStrayLink)'
<1> USE DEF IInv, TypeInv, TypeOK, LinksTyped, LocalsTyped, LinkInv, GateDiscipline, SeenBound,
            OpenFindsNone, NoStrayLink, Goto, Take, Return, CloseLink,
            TunnelAssumption
<1>1. CASE BeginConnect(c)
  BY <1>1 DEF BeginConnect
<1>2. CASE BeginDisconnect(c)
  BY <1>2 DEF BeginDisconnect
<1>3. CASE SaveProfile(c)
  BY <1>3 DEF SaveProfile
<1>4. CASE ReadStored(c)
  BY <1>4 DEF ReadStored
<1>5. CASE Cut(c)
  <2>1. LinkInv'
    BY <1>5 DEF Cut
  <2>2. NoStrayLink'
    BY <1>5 DEF Cut
  <2> QED
    BY <2>1, <2>2
<1>6. CASE CutDirect(c)
  BY <1>6 DEF CutDirect
<1>7. CASE CutNothing(c)
  BY <1>7 DEF CutNothing
<1>8. CASE CutLink(c)
  BY <1>8 DEF CutLink
<1>9. CASE CutDone(c)
  BY <1>9 DEF CutDone
<1> QED
  BY <1>1, <1>2, <1>3, <1>4, <1>5, <1>6, <1>7, <1>8, <1>9

\* The watches and the network only forget links that have ended.
LEMMA LinkStepKeepsInvariant ==
  ASSUME TunnelAssumption, IInv, NEW l \in Links, LinkFails(l) \/ WatchEnds(l) \/ WatchReports(l)
  PROVE  (LinkInv /\ NoStrayLink)'
<1> USE DEF IInv, TypeInv, TypeOK, LinksTyped, LocalsTyped, LinkInv, GateDiscipline, SeenBound,
            OpenFindsNone, NoStrayLink
<1>1. CASE LinkFails(l)
  BY <1>1 DEF LinkFails
<1>2. CASE WatchEnds(l)
  BY <1>2 DEF WatchEnds
<1>3. CASE WatchReports(l)
  BY <1>3 DEF WatchReports
<1> QED
  BY <1>1, <1>2, <1>3

LEMMA InvariantStep ==
  ASSUME TunnelAssumption, IInv, [Next]_vars
  PROVE  IInv'
<1>1. TypeInv'
  BY TypeStep DEF IInv
<1>2. CASE UNCHANGED vars
  BY <1>1, <1>2
  DEF IInv, vars, LinkInv, GateDiscipline, SeenBound, OpenFindsNone, NoStrayLink
<1>3. CASE Next
  BY <1>1, <1>3, ConnectKeepsLink, ConnectKeepsLinksInSight, DisconnectKeepsInvariant,
     LinkStepKeepsInvariant DEF Next, CallerStep, IInv
<1> QED
  BY <1>2, <1>3

LEMMA InductiveInvariant == Spec => []IInv
<1>1. ASSUME Init PROVE LinkInv /\ NoStrayLink
  BY <1>1, TunnelAssumption
  DEF TunnelAssumption, Init, LinkInv, GateDiscipline, SeenBound, OpenFindsNone,
      NoStrayLink
<1>2. Init => IInv
  BY <1>1, InitTyped DEF IInv
<1> QED
  BY <1>2, InvariantStep, TunnelAssumption, PTL DEF Spec

\* At most one Connect of a profile opens or registers a tunnel, and no return
\* leaves connectGate taken (isolated_manager.go:76-90).
THEOREM ConnectsTakeTurns == Spec => []GateDiscipline
BY InductiveInvariant, PTL DEF IInv, LinkInv

\* No SoftEther session is left open behind the program's back, however many
\* calls and disconnects there are.
THEOREM NoLinkIsLost == Spec => []NoStrayLink
BY InductiveInvariant, PTL DEF IInv

-----------------------------------------------------------------------------
(* What LossPublished rests on: the registered link has its watch.         *)

\* Whatever is registered has the goroutine that will forget it and publish its
\* loss, or the call that registered it is about to start that goroutine.
LinkIsWatched ==
  link # None => \/ link \in watching
                 \/ \E c \in Callers : pc[c] = "announcing" /\ hand[c] = link

\* Only Register fills the link, and the call it leaves with the link in its
\* hand has nothing to do but to publish it and start the watch.
LEMMA CallerKeepsWatch ==
  ASSUME TunnelAssumption, IInv, LinkIsWatched, NEW c \in Callers,
         CallerStep(c) \/ BeginConnect(c) \/ BeginDisconnect(c) \/ SaveProfile(c)
  PROVE  LinkIsWatched'
<1> USE DEF IInv, TypeInv, TypeOK, LinksTyped, LocalsTyped, HandFilled, LinkIsWatched, Goto, Take, Return,
            TunnelAssumption
<1>1. CASE LeaveQueue(c) \/ BeginConnect(c) \/ BeginDisconnect(c) \/ SaveProfile(c)
  BY <1>1 DEF LeaveQueue, BeginConnect, BeginDisconnect, SaveProfile
<1>2. CASE EnterGate(c)
  BY <1>2 DEF EnterGate
<1>3. CASE ClearForDirect(c)
  BY <1>3 DEF ClearForDirect
<1>4. CASE Prepare(c) \/ NoPassword(c) \/ Dial(c) \/ OpenFails(c)
  BY <1>4 DEF Prepare, NoPassword, Dial, OpenFails
<1>5. CASE \E l \in Links : OpenSucceeds(c, l)
  BY <1>5 DEF OpenSucceeds
<1>6. CASE \E late \in BOOLEAN : Register(c, late)
  BY <1>6 DEF Register
<1>7. CASE Announce(c)
  BY <1>7 DEF Announce
<1>8. CASE Cut(c)
  BY <1>8 DEF Cut
<1>9. CASE ReadStored(c) \/ CutLink(c)
  BY <1>9 DEF ReadStored, CutLink
<1>10. CASE CutDirect(c) \/ CutNothing(c) \/ CutDone(c)
  <2>1. UNCHANGED <<link, watching>> /\ Return(c) /\ pc[c] # "announcing"
    BY <1>10 DEF CutDirect, CutNothing, CutDone
  <2> QED
    BY <2>1
<1> QED
  BY <1>1, <1>2, <1>3, <1>4, <1>5, <1>6, <1>7, <1>8, <1>9, <1>10 DEF CallerStep

LEMMA LinkStepKeepsWatch ==
  ASSUME LinkIsWatched, NEW l \in Links, LinkFails(l) \/ WatchEnds(l) \/ WatchReports(l)
  PROVE  LinkIsWatched'
<1>1. UNCHANGED locals
  BY DEF LinkFails, WatchEnds, WatchReports
<1>2. CASE LinkFails(l) \/ WatchReports(l)
  <2>1. UNCHANGED <<link, watching>>
    BY <1>2 DEF LinkFails, WatchReports
  <2> QED
    BY <1>1, <2>1 DEF LinkIsWatched
<1>3. CASE WatchEnds(l)
  BY <1>1, <1>3 DEF LinkIsWatched, WatchEnds
<1> QED
  BY <1>2, <1>3

\* The safety half of LossPublished: no link is registered without somebody who
\* will see it end, however a disconnect falls between Register's unlock and
\* the start of the watch (isolated_manager.go:139-147).
THEOREM LinkHasItsWatch == Spec => []LinkIsWatched
<1>1. Init => LinkIsWatched
  BY DEF Init, LinkIsWatched
<1>2. ASSUME IInv, LinkIsWatched, [Next]_vars
      PROVE  LinkIsWatched'
  <2>1. CASE UNCHANGED vars
    BY <1>2, <2>1 DEF vars, LinkIsWatched
  <2>2. CASE Next
    BY <1>2, <2>2, CallerKeepsWatch, LinkStepKeepsWatch, TunnelAssumption DEF Next
  <2> QED
    BY <1>2, <2>1, <2>2
<1> QED
  BY <1>1, <1>2, InductiveInvariant, PTL DEF Spec

-----------------------------------------------------------------------------
(* The tunnel implements ConnectionPromise.                                *)

USE DEF Promise!Start, Promise!Establish, Promise!GiveUp, Promise!Lose,
        Promise!LoseAndGiveUp, Promise!Disconnect

\* The link can only go down with the step, and the attempts are untouched.
LEMMA PromiseLoses ==
  ASSUME Link' \in {Link, "down"}, Pending' = Pending
  PROVE  [Promise!Next]_<<Link, Pending>>
<1>1. Promise!Lose \/ UNCHANGED <<Link, Pending>>
  OBVIOUS
<1> QED
  BY <1>1 DEF Promise!Next

\* The same for a call that ends with the step.
LEMMA PromiseGivesUp ==
  ASSUME NEW c \in Callers, Link' \in {Link, "down"}, Pending' = Pending \ {c}
  PROVE  [Promise!Next]_<<Link, Pending>>
<1>1. Promise!GiveUp(c) \/ Promise!LoseAndGiveUp(c)
  OBVIOUS
<1> QED
  BY <1>1 DEF Promise!Next

\* A call that returns is no longer an attempt; the others are what they were.
LEMMA ReturnGivesUp ==
  ASSUME TypeInv, NEW c \in Callers, Return(c), generation' = generation
  PROVE  Pending' = Pending \ {c}
BY DEF TypeInv, TypeOK, LocalsTyped, Pending, Return, Goto, Take

\* A step that registers no link and opens none in the registered one's place.
LEMMA LinkOnlyFalls ==
  ASSUME TunnelAssumption, TypeInv,
         \/ link' \in {link, None} /\ live' \subseteq live
         \/ link' = link /\ \E l \in Links : Fresh(l) /\ live' = live \cup {l}
  PROVE  Link' \in {Link, "down"}
BY DEF Link, Fresh, TypeInv, TypeOK, LinksTyped, TunnelAssumption

\* Each step of a Connect is a step of the promise or a stutter.
LEMMA ConnectRefines ==
  ASSUME TunnelAssumption, IInv, NEW c \in Callers,
         \/ LeaveQueue(c) \/ EnterGate(c) \/ ClearForDirect(c)
         \/ Prepare(c) \/ NoPassword(c) \/ Dial(c) \/ OpenFails(c)
         \/ (\E l \in Links : OpenSucceeds(c, l))
         \/ (\E late \in BOOLEAN : Register(c, late))
         \/ Announce(c)
  PROVE  [Promise!Next]_<<Link, Pending>>
<1> TypeInv
  BY DEF IInv
<1> USE DEF TypeInv, TypeOK, LocalsTyped, Goto, Take, Pending, CloseLink
<1>1. CASE EnterGate(c)
  <2>1. CASE value[c] = "tunnel" /\ ~(link # None /\ link \in live)
    <3>1. Link = "down" /\ Link' = "down"
      BY <1>1, <2>1 DEF EnterGate, Link, LinksTyped, TunnelAssumption
    <3>2. Pending' = Pending \cup {c}
      BY <1>1, <2>1 DEF EnterGate
    <3>3. Promise!Start(c)
      BY <3>1, <3>2
    <3> QED
      BY <3>3 DEF Promise!Next
  <2>2. CASE ~(value[c] = "tunnel" /\ ~(link # None /\ link \in live))
    <3>1. link' \in {link, None} /\ live' \subseteq live
      BY <1>1, <2>2 DEF EnterGate
    <3>2. CASE Return(c)
      <4>1. Pending' = Pending \ {c}
        BY <1>1, <3>2, ReturnGivesUp DEF EnterGate
      <4> QED
        BY <3>1, <4>1, LinkOnlyFalls, PromiseGivesUp
    <3>3. CASE Goto(c, "clearing") /\ UNCHANGED seen
      <4>1. Pending' = Pending
        BY <1>1, <2>2, <3>3 DEF EnterGate
      <4> QED
        BY <3>1, <4>1, LinkOnlyFalls, PromiseLoses
    <3> QED
      BY <1>1, <2>2, <3>2, <3>3 DEF EnterGate
  <2> QED
    BY <2>1, <2>2
<1>2. CASE ClearForDirect(c) \/ LeaveQueue(c) \/ Prepare(c) \/ Dial(c) \/ Announce(c)
  <2>1. link' = link /\ live' \subseteq live
    BY <1>2 DEF ClearForDirect, LeaveQueue, Prepare, Dial, Announce
  <2>2. Pending' = Pending
    <3>1. CASE ClearForDirect(c) \/ LeaveQueue(c) \/ Announce(c)
      <4>1. Pending' = Pending \ {c}
        BY <3>1, ReturnGivesUp DEF ClearForDirect, LeaveQueue, Announce
      <4>2. c \notin Pending
        BY <3>1 DEF ClearForDirect, LeaveQueue, Announce
      <4> QED
        BY <4>1, <4>2
    <3>2. CASE Prepare(c) \/ Dial(c)
      BY <3>2 DEF Prepare, Dial
    <3> QED
      BY <1>2, <3>1, <3>2
  <2> QED
    BY <2>1, <2>2, LinkOnlyFalls, PromiseLoses
<1>3. CASE NoPassword(c) \/ OpenFails(c)
  <2>1. link' = link /\ live' \subseteq live
    BY <1>3 DEF NoPassword, OpenFails
  <2>2. Pending' = Pending \ {c}
    BY <1>3, ReturnGivesUp DEF NoPassword, OpenFails
  <2> QED
    BY <2>1, <2>2, LinkOnlyFalls, PromiseGivesUp
<1>4. CASE \E l \in Links : OpenSucceeds(c, l)
  <2>1. link' = link /\ \E l \in Links : Fresh(l) /\ live' = live \cup {l}
    BY <1>4 DEF OpenSucceeds
  <2>2. Pending' = Pending
    BY <1>4 DEF OpenSucceeds
  <2> QED
    BY <2>1, <2>2, LinkOnlyFalls, PromiseLoses
<1>5. CASE \E late \in BOOLEAN : Register(c, late)
  <2>1. PICK late \in BOOLEAN : Register(c, late)
    BY <1>5
  <2>2. Pending' = Pending \ {c}
    <3>1. CASE seen[c] # generation \/ late
      BY <2>1, <3>1, ReturnGivesUp DEF Register
    <3>2. CASE ~(seen[c] # generation \/ late)
      BY <2>1, <3>2 DEF Register
    <3> QED
      BY <3>1, <3>2
  <2>3. CASE seen[c] # generation \/ late
    <3>1. link' = link /\ live' \subseteq live
      BY <2>1, <2>3 DEF Register
    <3> QED
      BY <2>2, <3>1, LinkOnlyFalls, PromiseGivesUp
  <2>4. CASE ~(seen[c] # generation \/ late)
    <3>1. c \in Pending
      BY <2>1, <2>4 DEF Register
    <3>2. Link = "down"
      BY <2>1, <2>4 DEF Register, IInv, LinkInv, OpenFindsNone, Link, LinksTyped, TunnelAssumption
    <3>3. CASE Link' = "up"
      <4>1. Promise!Establish(c)
        BY <2>2, <3>1, <3>2, <3>3
      <4> QED
        BY <4>1 DEF Promise!Next
    <3>4. CASE Link' # "up"
      <4>1. Link' = Link
        BY <3>2, <3>4 DEF Link
      <4> QED
        BY <2>2, <4>1, PromiseGivesUp
    <3> QED
      BY <3>3, <3>4
  <2> QED
    BY <2>3, <2>4
<1> QED
  BY <1>1, <1>2, <1>3, <1>4, <1>5

\* So is each step of a disconnect, which leaves no attempt pending, and each
\* call that begins.
LEMMA DisconnectRefines ==
  ASSUME TunnelAssumption, IInv, NEW c \in Callers,
         \/ BeginConnect(c) \/ BeginDisconnect(c) \/ SaveProfile(c)
         \/ ReadStored(c) \/ Cut(c) \/ CutDirect(c) \/ CutNothing(c) \/ CutLink(c) \/ CutDone(c)
  PROVE  [Promise!Next]_<<Link, Pending>>
<1> TypeInv
  BY DEF IInv
<1> USE DEF TypeInv, TypeOK, LocalsTyped, Goto, Take, Pending, CloseLink
<1>1. CASE Cut(c)
  <2>1. Pending' = {}
    BY <1>1 DEF Cut, IInv, LinkInv, SeenBound
  <2>2. Promise!Disconnect
    BY <1>1, <2>1 DEF Cut, Link, LinksTyped, TunnelAssumption
  <2> QED
    BY <2>2 DEF Promise!Next
<1>2. CASE \/ BeginConnect(c) \/ BeginDisconnect(c) \/ SaveProfile(c) \/ ReadStored(c)
           \/ CutDirect(c) \/ CutNothing(c) \/ CutLink(c) \/ CutDone(c)
  <2>1. link' = link /\ live' \subseteq live
    BY <1>2
    DEF BeginConnect, BeginDisconnect, SaveProfile, ReadStored, CutDirect, CutNothing, CutLink, CutDone
  <2>2. Pending' = Pending
    <3>1. CASE BeginConnect(c) \/ BeginDisconnect(c) \/ SaveProfile(c)
      BY <3>1 DEF BeginConnect, BeginDisconnect, SaveProfile
    <3>2. CASE ReadStored(c) \/ CutLink(c)
      BY <3>2 DEF ReadStored, CutLink
    <3>3. CASE CutDirect(c) \/ CutNothing(c) \/ CutDone(c)
      <4>1. Pending' = Pending \ {c}
        BY <3>3, ReturnGivesUp DEF CutDirect, CutNothing, CutDone
      <4>2. c \notin Pending
        BY <3>3 DEF CutDirect, CutNothing, CutDone
      <4> QED
        BY <4>1, <4>2
    <3> QED
      BY <1>2, <3>1, <3>2, <3>3
  <2> QED
    BY <2>1, <2>2, LinkOnlyFalls, PromiseLoses
<1> QED
  BY <1>1, <1>2

LEMMA LinkStepRefines ==
  ASSUME TunnelAssumption, IInv, NEW l \in Links, LinkFails(l) \/ WatchEnds(l) \/ WatchReports(l)
  PROVE  [Promise!Next]_<<Link, Pending>>
<1>1. link' \in {link, None} /\ live' \subseteq live
  BY DEF LinkFails, WatchEnds, WatchReports
<1>2. Pending' = Pending
  BY DEF LinkFails, WatchEnds, WatchReports, Pending
<1> QED
  BY <1>1, <1>2, LinkOnlyFalls, PromiseLoses DEF IInv

\* A Connect that was under way when the user disconnected never brings the
\* tunnel up, and none takes the place of a live link (isolated_manager.go:135).
THEOREM TunnelKeepsPromise == Spec => KeepsPromise
<1>1. ASSUME Init PROVE Promise!Init
  BY <1>1, TunnelAssumption DEF Init, Promise!Init, Link, Pending, TunnelAssumption
<1>2. TunnelAssumption /\ IInv /\ [Next]_vars => [Promise!Next]_<<Link, Pending>>
  <2>1. ASSUME UNCHANGED vars PROVE UNCHANGED <<Link, Pending>>
    BY <2>1 DEF vars, Link, Pending
  <2> QED
    BY <2>1, ConnectRefines, DisconnectRefines, LinkStepRefines DEF Next, CallerStep
<1> QED
  BY <1>1, <1>2, InductiveInvariant, TunnelAssumption, PTL
  DEF Spec, KeepsPromise, Promise!Spec
=============================================================================
