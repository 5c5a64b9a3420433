------------------------------- MODULE StoresMC -------------------------------
(* ServerTrust and ProfileStore on small instances.  A behaviour follows one of *)
(* them, chosen at its beginning; the variables of the other are None.          *)
EXTENDS Naturals, Sequences, TLC

CONSTANTS Callers, TrustIds, MaxIds, Sites, Prints, Names, None, TrustCalls, MaxCalls, MaxFaults

VARIABLES
  part,
  trustLast, profile, known, pending, pendingCert, shows, told, approved, link, live, trustCall,
  trustCalls, reverted,
  file, vault, trust, keyFiles, last, bundle, imports, call, calls, faults, impaired

\* A form left blank; one with a password or a plain key; one with a sealed key.
Given ==
  {[psk |-> FALSE, vpn |-> FALSE, password |-> FALSE, phrase |-> FALSE, path |-> "none"],
   [psk |-> FALSE, vpn |-> TRUE, password |-> TRUE, phrase |-> FALSE, path |-> "plain"],
   [psk |-> TRUE, vpn |-> TRUE, password |-> FALSE, phrase |-> TRUE, path |-> "sealed"]}

Kinds == {[auth |-> "password", isolated |-> TRUE], [auth |-> "key", isolated |-> FALSE]}

Trust == INSTANCE ServerTrust WITH
  MaxIds <- TrustIds, MaxCalls <- TrustCalls,
  last <- trustLast, call <- trustCall, calls <- trustCalls
Store == INSTANCE ProfileStore

ASSUME StoresAssumption == Trust!TrustAssumption /\ Store!StoreAssumption

trustVars ==
  <<trustLast, profile, known, pending, pendingCert, shows, told, approved, link, live, trustCall,
    trustCalls, reverted>>
storeVars ==
  <<file, vault, trust, keyFiles, last, bundle, imports, call, calls, faults, impaired>>
vars == <<part, trustVars, storeVars>>

Init ==
  \/ /\ part = "trust" /\ Trust!Init
     /\ file = None /\ vault = None /\ trust = None /\ keyFiles = None
     /\ last = None /\ bundle = None /\ imports = None /\ call = None
     /\ calls = None /\ faults = None /\ impaired = None
  \/ /\ part = "store" /\ Store!Init
     /\ trustLast = None /\ profile = None /\ known = None /\ pending = None
     /\ pendingCert = None /\ shows = None /\ told = None /\ approved = None
     /\ link = None /\ live = None /\ trustCall = None /\ trustCalls = None
     /\ reverted = None

Next ==
  \/ part = "trust" /\ Trust!Next /\ UNCHANGED <<part, storeVars>>
  \/ part = "store" /\ Store!Next /\ UNCHANGED <<part, trustVars>>

Spec == Init /\ [][Next]_vars

Symmetry ==
  Permutations(Callers) \cup Permutations(Sites)
    \cup Permutations(Prints) \cup Permutations(Names)

-----------------------------------------------------------------------------
(* The properties of the two modules                                       *)

\* Every variable of the chosen part has its type.
TypeOK == (part = "trust" => Trust!TypeOK) /\ (part = "store" => Store!TypeOK)

\* ServerTrust!OnlyConfirmedServers: no trust without the user's confirmation.
OnlyConfirmedServers == part = "trust" => Trust!OnlyConfirmedServers

\* ServerTrust!LiveFollowsSaved: after a save nothing stays connected the old way.
LiveFollowsSaved == part = "trust" => Trust!LiveFollowsSaved

\* ProfileStore!CredentialsInPlace: a stored profile can be connected.
CredentialsInPlace == part = "store" => Store!CredentialsInPlace

\* ProfileStore!ImportAllOrNothing: a failed import leaves nothing behind.
ImportAllOrNothing == part = "store" => Store!ImportAllOrNothing
=============================================================================
