----------------------------- MODULE LinkPromise -----------------------------
(***************************************************************************)
(* What internal/softether promises the isolated manager of one link.  A   *)
(* link that is up ends for two reasons only: its owner closed it, or the  *)
(* network or the server gave cause.  The two look different (Err is       *)
(* net.ErrClosed or not), since the manager publishes the second only.     *)
(* An attempt ends, a server that falls silent is noticed, and nothing of  *)
(* a link that has ended stays behind.                                     *)
(***************************************************************************)
VARIABLES link,       \* see States
          cause,      \* the network or the server has misbehaved
          silent,     \* and no longer answers at all
          asked,      \* the owner has closed the link
          released    \* nothing of the link is left

States == {"idle", "opening", "up", "lost", "closed", "failed"}
Over == {"lost", "closed", "failed"}

TypeOK ==
  /\ link \in States
  /\ cause \in BOOLEAN /\ silent \in BOOLEAN /\ asked \in BOOLEAN /\ released \in BOOLEAN

Init ==
  /\ link = "idle" /\ released = TRUE
  /\ cause = FALSE /\ silent = FALSE /\ asked = FALSE

Misbehave ==
  /\ cause' = TRUE
  /\ silent' \in {silent, TRUE}
  /\ UNCHANGED <<link, asked>>

Ask ==
  /\ link = "up" /\ link' = "closed"
  /\ asked' = TRUE
  /\ UNCHANGED <<cause, silent>>

Move ==
  /\ \/ link = "idle" /\ link' = "opening"
     \/ link = "opening" /\ link' \in {"up", "failed"}
     \/ link \in {"opening", "up"} /\ cause /\ link' = "lost"
  /\ UNCHANGED <<cause, silent, asked>>

Settle == UNCHANGED <<link, cause, silent, asked>>

Next == (Misbehave \/ Ask \/ Move \/ Settle) /\ released' \in BOOLEAN

\* No attempt, no link to a silent server and nothing of a link that is over
\* lasts for ever.
Settled ==
  /\ link # "opening"
  /\ ~(silent /\ link = "up")
  /\ link \in Over => released

Spec == Init /\ [][Next]_<<link, cause, silent, asked, released>> /\ []<>Settled
=============================================================================
