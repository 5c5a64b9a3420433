--------------------------- MODULE ProfileAccessMC ---------------------------
(* What the service does around a profile, on small instances: taking it    *)
(* down while pages and terminals are open (ProfileAccess, extended), and   *)
(* testing one before it is saved (ConnectionTest).  A behaviour follows    *)
(* one of them; the variables of the test are None, or those of the access  *)
(* stay as they begin.                                                      *)
EXTENDS ProfileAccess, TLC

CONSTANTS Sites, Prints

VARIABLES part, saved, recorded, shows, form, base, step, cert, key, seen, temporary, made, outcome

testVars == <<saved, recorded, shows, form, base, step, cert, key, seen, temporary, made, outcome>>

Test == INSTANCE ConnectionTest WITH place <- step

MCInit ==
  /\ Init
  /\ \/ part = "test" /\ Test!Init
     \/ /\ part = "access"
        /\ saved = None /\ recorded = None /\ shows = None /\ form = None
        /\ base = None /\ step = None /\ cert = None /\ key = None /\ seen = None
        /\ temporary = None /\ made = None /\ outcome = None

MCNext ==
  \/ part = "access" /\ Next /\ UNCHANGED <<part, testVars>>
  \/ part = "test" /\ Test!Next /\ UNCHANGED <<part, vars>>

MCSpec == MCInit /\ [][MCNext]_<<part, vars, testVars>>

Symmetry ==
  Permutations(Calls) \cup Permutations(Proxies) \cup Permutations(Targets)
    \cup Permutations(Requests)

-----------------------------------------------------------------------------
\* Every variable of the chosen part has its type.
AllTyped == TypeOK /\ (part = "test" => Test!TypeOK)

\* ConnectionTest!TestIsHonest: a test heeds what is trusted and leaves nothing.
TestIsHonest == part = "test" => Test!TestIsHonest
=============================================================================
