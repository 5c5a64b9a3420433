------------------------------ MODULE EndingsMC ------------------------------
(* What must come to an end, on small instances: a link of the isolated tunnel *)
(* with its attempt, a message of its handshake, and the program itself while  *)
(* pages are open.  A behaviour follows one of them; the variables of the      *)
(* others stay as they are, so the state spaces add up.                        *)
EXTENDS SoftEtherLink

CONSTANTS
  Elements, MaxElements, MaxValues, MaxSize, NameSize, MaxCalls, Refused, None,
  Calls, CallKinds, Terminals, UiTerminals, Proxies, Targets, Requests, MaxClients

VARIABLES
  part,
  added, pack, wire, received, whole,
  client, clients, terminal, proxy, target, registered, request, via, over,
  kind, place, todo, now, victims, before

\* Names that differ in case; numbers, a text with a NUL at its end, no bytes,
\* a text that is too long.
Lower(name) == [i \in DOMAIN name |-> name[i] % 10]
SmallElements ==
  {[name |-> <<1>>, kind |-> "int", values |-> <<<<7>>>>],
   [name |-> <<11>>, kind |-> "string", values |-> <<<<1, 0>>, <<2>>>>],
   [name |-> <<1, 2>>, kind |-> "data", values |-> <<<<>>>>],
   [name |-> <<2>>, kind |-> "unicode", values |-> <<<<3>>>>],
   [name |-> <<12>>, kind |-> "int64", values |-> <<<<0, 9>>>>],
   [name |-> <<1, 12>>, kind |-> "string", values |-> <<<<1, 2, 3, 4>>>>]}

Message == INSTANCE SoftEtherPack WITH Fold <- Lower
Access == INSTANCE ProfileAccess WITH dials <- clients, Kinds <- CallKinds

ASSUME MessageAssumption == Message!PackAssumption

packVars == <<added, pack, wire, received, whole>>
accessVars ==
  <<client, clients, terminal, proxy, target, registered, request, via, over,
    kind, place, todo, now, victims, before>>

MCInit ==
  /\ part \in {"link", "message", "access"}
  /\ Init /\ Message!Init /\ Access!Init

MCNext ==
  \/ part = "link" /\ Next /\ UNCHANGED <<part, packVars, accessVars>>
  \/ part = "message" /\ Message!Next /\ UNCHANGED <<part, vars, accessVars>>
  \/ part = "access" /\ Access!Next /\ UNCHANGED <<part, vars, packVars>>

\* A part that was not chosen stays in its initial state, where none of the
\* actions with fairness is enabled.
MCSpec ==
  /\ MCInit /\ [][MCNext]_<<part, vars, packVars, accessVars>>
  /\ Fairness /\ Access!Fairness

-----------------------------------------------------------------------------
(* The properties of the parts                                             *)

\* Every variable of the link and of the message has its type.
AllTyped == TypeOK /\ Message!TypeOK

\* SoftEtherPack!PackSurvives: a message arrives as it was built, or not at all.
PackSurvives == Message!PackSurvives

\* ProfileAccess!QuitReturns: the program ends whatever the open pages do.
QuitReturns == Access!QuitReturns
=============================================================================
