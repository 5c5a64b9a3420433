-------------------------- MODULE ConnectionPromise --------------------------
(***************************************************************************)
(* What a shared connection with connect and disconnect promises, to the   *)
(* callers of Manager.Connect and CloseProfile (and, for the tunnel, of    *)
(* IsolatedManager.Connect and Disconnect): an attempt that was under way  *)
(* when the user disconnected never brings the connection up, and an       *)
(* attempt never replaces a connection that is up.                         *)
(***************************************************************************)
CONSTANT Attempts       \* who may try to connect

VARIABLES link,         \* "down" or "up"
          pending       \* the attempts that may still bring the link up

TypeOK == link \in {"down", "up"} /\ pending \subseteq Attempts

Init == link = "down" /\ pending = {}

Start(a) == pending' = pending \cup {a} /\ UNCHANGED link

Establish(a) ==
  /\ link = "down" /\ a \in pending
  /\ link' = "up"
  /\ pending' = pending \ {a}

GiveUp(a) == pending' = pending \ {a} /\ UNCHANGED link

\* The connection is lost, or an attempt finds it unusable; that attempt may
\* give up in the same step.
Lose == link' = "down" /\ UNCHANGED pending
LoseAndGiveUp(a) == link' = "down" /\ pending' = pending \ {a}

Disconnect == link' = "down" /\ pending' = {}

Next ==
  \/ \E a \in Attempts : Start(a) \/ Establish(a) \/ GiveUp(a) \/ LoseAndGiveUp(a)
  \/ Lose \/ Disconnect

Spec == Init /\ [][Next]_<<link, pending>>
=============================================================================
