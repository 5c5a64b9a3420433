---------------------------- MODULE TunnelRuntime ----------------------------
(***************************************************************************)
(* The isolated tunnel of ONE profile: isolatedRuntime and IsolatedManager *)
(* of internal/vpn/isolated_manager.go, with the published status that     *)
(* StateMachine (state_machine.go) keeps beside it.                        *)
(*                                                                         *)
(* A caller is a goroutine inside Connect, inside Disconnect, or inside    *)
(* the part of SaveProfile (internal/app/service.go) that changes the      *)
(* connection mode and then disconnects.  Per link runs one watch.  A step *)
(* is what one of them does between two waits or under one lock: the link  *)
(* and the status are under different locks, and every status is written   *)
(* after runtime.mu has been released.                                     *)
(***************************************************************************)
EXTENDS Naturals

CONSTANTS Callers, Links, None,
          Ops,            \* what the callers do: connect, disconnect, save
          MaxGeneration   \* no disconnect begins once there were this many

ASSUME TunnelAssumption ==
  /\ None \notin Callers \cup Links
  /\ Ops \subseteq {"connect", "disconnect", "save"}
  /\ MaxGeneration \in Nat

VARIABLES
  mode,        \* the stored profile: isolated tunnel or direct SSH
  gate,        \* holder of runtime.connectGate, or None
  link,        \* runtime.link
  generation,  \* runtime.generation
  live,        \* links whose Done is still open
  lost,        \* links that ended by themselves (Err is not net.ErrClosed)
  watching,    \* links with a watch goroutine that waits for Done
  reporting,   \* links whose watch has yet to write the status
  state,       \* status.State
  ready,       \* status.RouteReady
  pc,          \* where each caller is
  value,       \* the mode in the copy of the profile the caller has read
  hand,        \* the link the caller's local variable holds
  seen         \* the generation a Connect has read

runtime == <<gate, link, generation>>
guards == <<watching, reporting>>
status == <<state, ready>>
locals == <<pc, value, hand, seen>>
vars == <<mode, runtime, live, lost, guards, status, locals>>

Modes == {"tunnel", "direct"}
States == {"disconnected", "not_required", "preparing", "dialing", "connected",
           "disconnecting", "failed"}
\* The places at which a Connect holds the gate.
Holding == {"clearing", "preparing", "secret", "opening", "registering", "announcing"}
Leaving == {"reading", "cutting", "direct", "absent", "closing", "closed"}
Places == Holding \cup Leaving \cup {"idle", "queued"}

LinksTyped ==
  /\ link \in Links \cup {None}
  /\ live \subseteq Links /\ lost \subseteq Links \ live
  /\ watching \subseteq Links /\ reporting \subseteq Links

LocalsTyped ==
  /\ pc \in [Callers -> Places]
  /\ value \in [Callers -> Modes]
  /\ hand \in [Callers -> Links \cup {None}]
  /\ seen \in [Callers -> Nat]

TypeOK ==
  /\ mode \in Modes /\ gate \in Callers \cup {None} /\ generation \in Nat
  /\ state \in States /\ ready \in BOOLEAN
  /\ LinksTyped /\ LocalsTyped

Init ==
  /\ mode \in Modes
  /\ gate = None /\ link = None /\ generation = 0
  /\ live = {} /\ lost = {} /\ watching = {} /\ reporting = {}
  /\ state = "disconnected" /\ ready = FALSE
  /\ pc = [c \in Callers |-> "idle"]
  /\ value = [c \in Callers |-> "tunnel"]
  /\ hand = [c \in Callers |-> None]
  /\ seen = [c \in Callers |-> 0]

-----------------------------------------------------------------------------
(* Helpers                                                                 *)

Goto(c, place) == pc' = [pc EXCEPT ![c] = place]
Take(c, l) == hand' = [hand EXCEPT ![c] = l]

\* The method returns; its locals are gone.
Return(c) ==
  /\ Goto(c, "idle")
  /\ Take(c, None)
  /\ value' = [value EXCEPT ![c] = "tunnel"]
  /\ seen' = [seen EXCEPT ![c] = 0]

\* StateMachine.Set writes the state and leaves the readiness as it was.
SetState(new) == state' = new /\ UNCHANGED ready

\* StateMachine.Update as the code uses it.
UpdateStatus(new, reachable) == state' = new /\ ready' = reachable

\* Link.Close: Done is closed before it returns, unless it was already.
CloseLink(l) == live' = live \ {l}

Fresh(l) ==
  /\ l # link
  /\ l \notin live \cup watching \cup reporting
  /\ \A c \in Callers : hand[c] # l

-----------------------------------------------------------------------------
(* Connect                                                                 *)

\* The profile is read before the call waits for the gate.
BeginConnect(c) ==
  /\ pc[c] = "idle" /\ "connect" \in Ops
  /\ value' = [value EXCEPT ![c] = mode]
  /\ Goto(c, "queued")
  /\ UNCHANGED <<mode, runtime, live, lost, guards, status, hand, seen>>

LeaveQueue(c) ==
  /\ pc[c] = "queued"
  /\ Return(c)
  /\ UNCHANGED <<mode, runtime, live, lost, guards, status>>

\* Through the gate and, under runtime.mu, the look at the link.  A live link
\* is kept; one that has ended is dropped here, or by its watch.
EnterGate(c) ==
  /\ pc[c] = "queued" /\ gate = None
  /\ \/ /\ value[c] = "direct"
        /\ gate' = c
        /\ Take(c, link)
        /\ link' = None
        /\ Goto(c, "clearing")
        /\ UNCHANGED <<value, seen>>
     \/ /\ value[c] = "tunnel" /\ link # None /\ link \in live
        /\ Return(c)
        /\ UNCHANGED <<gate, link>>
     \/ /\ value[c] = "tunnel" /\ ~(link # None /\ link \in live)
        /\ gate' = c
        /\ link' = None
        /\ seen' = [seen EXCEPT ![c] = generation]
        /\ Goto(c, "preparing")
        /\ UNCHANGED <<value, hand>>
  /\ UNCHANGED <<mode, generation, live, lost, guards, status>>

\* A direct profile needs no tunnel: close one that is left, say so.
ClearForDirect(c) ==
  /\ pc[c] = "clearing"
  /\ CloseLink(hand[c])
  /\ UpdateStatus("not_required", TRUE)
  /\ Return(c)
  /\ gate' = None
  /\ UNCHANGED <<mode, link, generation, lost, guards>>

Prepare(c) ==
  /\ pc[c] = "preparing"
  /\ SetState("preparing")
  /\ Goto(c, "secret")
  /\ UNCHANGED <<mode, runtime, live, lost, guards, value, hand, seen>>

NoPassword(c) ==
  /\ pc[c] = "secret"
  /\ SetState("failed")
  /\ Return(c)
  /\ gate' = None
  /\ UNCHANGED <<mode, link, generation, live, lost, guards>>

Dial(c) ==
  /\ pc[c] = "secret"
  /\ SetState("dialing")
  /\ Goto(c, "opening")
  /\ UNCHANGED <<mode, runtime, live, lost, guards, value, hand, seen>>

\* softether.Open or NewLink fails (certificate, password, DHCP, deadline).
OpenFails(c) ==
  /\ pc[c] = "opening"
  /\ SetState("failed")
  /\ Return(c)
  /\ gate' = None
  /\ UNCHANGED <<mode, link, generation, live, lost, guards>>

OpenSucceeds(c, l) ==
  /\ pc[c] = "opening"
  /\ Fresh(l)
  /\ live' = live \cup {l}
  /\ lost' = lost \ {l}
  /\ Take(c, l)
  /\ Goto(c, "registering")
  /\ UNCHANGED <<mode, runtime, guards, status, value, seen>>

\* A bug the generation excludes: registering after a disconnect.
RegisterWithoutGeneration(c, late) ==
  /\ pc[c] = "registering"
  /\ IF late
     THEN CloseLink(hand[c]) /\ Return(c) /\ gate' = None /\ UNCHANGED link
     ELSE /\ link' = hand[c]
          /\ Goto(c, "announcing")
          /\ UNCHANGED <<gate, live, value, hand, seen>>
  /\ UNCHANGED <<mode, generation, lost, guards, status>>

\* Under runtime.mu.  "late": the context has ended.  The status stays as Dial
\* or the disconnect left it.
Register(c, late) ==
  /\ pc[c] = "registering"
  /\ IF seen[c] # generation \/ late
     THEN CloseLink(hand[c]) /\ Return(c) /\ gate' = None /\ UNCHANGED link
     ELSE /\ link' = hand[c]
          /\ Goto(c, "announcing")
          /\ UNCHANGED <<gate, live, value, hand, seen>>
  /\ UNCHANGED <<mode, generation, lost, guards, status>>

\* After the unlock: publish, then start the watch.
Announce(c) ==
  /\ pc[c] = "announcing"
  /\ UpdateStatus("connected", TRUE)
  /\ watching' = watching \cup {hand[c]}
  /\ Return(c)
  /\ gate' = None
  /\ UNCHANGED <<mode, link, generation, live, lost, reporting>>

-----------------------------------------------------------------------------
(* Disconnect, and SaveProfile                                             *)

\* Disconnect reads the profile first.
BeginDisconnect(c) ==
  /\ pc[c] = "idle" /\ "disconnect" \in Ops
  /\ generation < MaxGeneration
  /\ value' = [value EXCEPT ![c] = mode]
  /\ Goto(c, "cutting")
  /\ UNCHANGED <<mode, runtime, live, lost, guards, status, hand, seen>>

\* SaveProfile stores the other mode, then disconnects.
SaveProfile(c) ==
  /\ pc[c] = "idle" /\ "save" \in Ops
  /\ generation < MaxGeneration
  /\ mode' \in Modes \ {mode}
  /\ Goto(c, "reading")
  /\ UNCHANGED <<runtime, live, lost, guards, status, value, hand, seen>>

ReadStored(c) ==
  /\ pc[c] = "reading"
  /\ value' = [value EXCEPT ![c] = mode]
  /\ Goto(c, "cutting")
  /\ UNCHANGED <<mode, runtime, live, lost, guards, status, hand, seen>>

\* Under runtime.mu: take the link away and start a new generation.
Cut(c) ==
  /\ pc[c] = "cutting"
  /\ Take(c, link)
  /\ link' = None
  /\ generation' = generation + 1
  /\ Goto(c, IF value[c] = "direct" THEN "direct"
             ELSE IF link = None THEN "absent" ELSE "closing")
  /\ UNCHANGED <<mode, gate, live, lost, guards, status, value, seen>>

CutDirect(c) ==
  /\ pc[c] = "direct"
  /\ CloseLink(hand[c])
  /\ UpdateStatus("not_required", TRUE)
  /\ Return(c)
  /\ UNCHANGED <<mode, runtime, lost, guards>>

\* There was no link: the readiness is not touched.
CutNothing(c) ==
  /\ pc[c] = "absent"
  /\ SetState("disconnected")
  /\ Return(c)
  /\ UNCHANGED <<mode, runtime, live, lost, guards>>

CutLink(c) ==
  /\ pc[c] = "closing"
  /\ SetState("disconnecting")
  /\ Goto(c, "closed")
  /\ UNCHANGED <<mode, runtime, live, lost, guards, value, hand, seen>>

CutDone(c) ==
  /\ pc[c] = "closed"
  /\ CloseLink(hand[c])
  /\ UpdateStatus("disconnected", FALSE)
  /\ Return(c)
  /\ UNCHANGED <<mode, runtime, lost, guards>>

-----------------------------------------------------------------------------
(* watch, and the network                                                  *)

\* A bug: the reason is recorded, Done is not closed.
LinkFailsSilently(l) ==
  /\ l \in live
  /\ lost' = lost \cup {l}
  /\ UNCHANGED <<mode, runtime, live, guards, status, locals>>

LinkFails(l) ==
  /\ l \in live
  /\ live' = live \ {l}
  /\ lost' = lost \cup {l}
  /\ UNCHANGED <<mode, runtime, guards, status, locals>>

\* A bug: the end of an old link clears whatever is registered now.
WatchEndsWithoutMatch(l) ==
  /\ l \in watching \ live
  /\ watching' = watching \ {l}
  /\ link' = None
  /\ reporting' = IF l \in lost THEN reporting \cup {l} ELSE reporting
  /\ UNCHANGED <<mode, gate, generation, live, lost, status, locals>>

\* Done: under runtime.mu, clear the link if it is still this one.
WatchEnds(l) ==
  /\ l \in watching \ live
  /\ watching' = watching \ {l}
  /\ link' = IF link = l THEN None ELSE link
  /\ reporting' = IF link = l /\ l \in lost THEN reporting \cup {l} ELSE reporting
  /\ UNCHANGED <<mode, gate, generation, live, lost, status, locals>>

\* A bug: the loss of the link is not published.
WatchReportsNothing(l) ==
  /\ l \in reporting
  /\ reporting' = reporting \ {l}
  /\ UNCHANGED <<mode, runtime, live, lost, watching, status, locals>>

WatchReports(l) ==
  /\ l \in reporting
  /\ reporting' = reporting \ {l}
  /\ UpdateStatus("failed", FALSE)
  /\ UNCHANGED <<mode, runtime, live, lost, watching, locals>>

-----------------------------------------------------------------------------
\* The steps of a method that has begun.
CallerStep(c) ==
  \/ LeaveQueue(c) \/ EnterGate(c) \/ ClearForDirect(c)
  \/ Prepare(c) \/ NoPassword(c) \/ Dial(c) \/ OpenFails(c)
  \/ \E l \in Links : OpenSucceeds(c, l)
  \/ \E late \in BOOLEAN : Register(c, late)
  \/ Announce(c)
  \/ ReadStored(c) \/ Cut(c) \/ CutDirect(c) \/ CutNothing(c) \/ CutLink(c) \/ CutDone(c)

Next ==
  \/ \E c \in Callers : BeginConnect(c) \/ BeginDisconnect(c) \/ SaveProfile(c)
  \/ \E c \in Callers : CallerStep(c)
  \/ \E l \in Links : LinkFails(l) \/ WatchEnds(l) \/ WatchReports(l)

Spec == Init /\ [][Next]_vars

\* Goroutines run: dials are bounded by Connect's 45 s, watch waits only for
\* Done.  Nothing is assumed of the network or the user.
Fairness ==
  /\ \A c \in Callers : WF_vars(CallerStep(c))
  /\ \A l \in Links : WF_vars(WatchEnds(l)) /\ WF_vars(WatchReports(l))

LiveSpec == Spec /\ Fairness

-----------------------------------------------------------------------------
(* Properties                                                              *)

\* No SoftEther session is left open behind the program's back: a live link is
\* the registered one or in the hands of a call that registers or closes it.
NoStrayLink ==
  \A l \in live : \/ l = link
                  \/ \E c \in Callers :
                       /\ hand[c] = l
                       /\ pc[c] \in {"registering", "clearing", "direct", "closing", "closed"}

\* Seen from outside, the tunnel keeps the promise of ConnectionPromise: a
\* Connect that was under way when the user disconnected never brings the
\* tunnel up ("the tunnel connection was cancelled", isolated_manager.go:135),
\* and none replaces a live link.
Link == IF link \in live THEN "up" ELSE "down"
Pending == {c \in Callers : /\ pc[c] \in Holding \ {"clearing", "announcing"}
                            /\ seen[c] = generation}

Promise == INSTANCE ConnectionPromise WITH
  Attempts <- Callers, link <- Link, pending <- Pending

KeepsPromise == Promise!Spec

\* The loss of the registered link is noticed: the runtime forgets the link, and the
\* status does not go on saying "connected" (isolated_manager.go:281).
LossPublished ==
  \A l \in Links : link = l /\ l \notin live ~> link # l /\ state # "connected"
=============================================================================
