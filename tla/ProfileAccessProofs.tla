------------------------- MODULE ProfileAccessProofs -------------------------
(***************************************************************************)
(* Theorems about a profile as the service offers it: ProfileAccess, for   *)
(* any number of calls, terminals, proxies and requests, and               *)
(* ConnectionTest, for any sites and fingerprints.                         *)
(***************************************************************************)
EXTENDS ProfileAccessMC, TLAPS

USE DEF AllKinds, TerminalStates, ProxyStates, RequestStates, Places, InUse,
        connection, web, calls

-----------------------------------------------------------------------------
(* Types, with what a call that takes a profile down has in its hands.     *)

\* A proxy is in a call's hands only while the call closes proxies; it is no
\* longer in the table, and it has been opened.
TodoInv ==
  \A d \in Calls :
    /\ todo[d] # {} => place[d] = "closing"
    /\ now[d] # None => now[d] \in todo[d]
    /\ \A p \in todo[d] : p \notin registered /\ proxy[p] \in {"open", "closing", "closed"}

TypeInv == TypeOK /\ TodoInv

LEMMA ConnectTyped ==
  ASSUME AccessAssumption, TypeOK, Connect
  PROVE  client' \in 0 .. MaxClients /\ dials' \in client' .. MaxClients
BY DEF AccessAssumption, TypeOK, Connect

\* The connection, the terminals and the requests.
LEMMA UseStepTyped ==
  ASSUME AccessAssumption, TypeInv,
         \/ ConnectionLost
         \/ \E t \in Terminals :
              OpenTerminal(t) \/ ShellStarts(t) \/ RegisterTerminal(t) \/ TerminalEnds(t)
         \/ \E q \in Requests :
              (\E p \in Proxies : RequestArrives(q, p)) \/ WebDial(q) \/ RequestEnds(q)
  PROVE  TypeInv'
<1> USE DEF TypeInv, TypeOK, TodoInv
<1>1. CASE ConnectionLost
  BY <1>1 DEF ConnectionLost
<1>2. ASSUME NEW t \in Terminals, OpenTerminal(t) PROVE TypeInv'
  BY <1>2, ConnectTyped DEF OpenTerminal
<1>3. ASSUME NEW t \in Terminals, ShellStarts(t) \/ RegisterTerminal(t) \/ TerminalEnds(t)
      PROVE  TypeInv'
  BY <1>3 DEF ShellStarts, RegisterTerminal, TerminalEnds
<1>4. ASSUME NEW q \in Requests, NEW p \in Proxies, RequestArrives(q, p) PROVE TypeInv'
  BY <1>4 DEF RequestArrives
<1>5. ASSUME NEW q \in Requests, WebDial(q) PROVE TypeInv'
  BY <1>5, ConnectTyped DEF WebDial
<1>6. ASSUME NEW q \in Requests, RequestEnds(q) PROVE TypeInv'
  BY <1>6 DEF RequestEnds
<1> QED
  BY <1>1, <1>2, <1>3, <1>4, <1>5, <1>6

\* Opening a proxy.
LEMMA OpenStepTyped ==
  ASSUME AccessAssumption, TypeInv, NEW p \in Proxies,
         (\E x \in Targets : OpenBrowserResource(p, x)) \/ FirstLook(p) \/ SecondLook(p)
  PROVE  TypeInv'
<1> USE DEF TypeInv, TypeOK, TodoInv
<1>1. ASSUME NEW x \in Targets, OpenBrowserResource(p, x) PROVE TypeInv'
  BY <1>1, ConnectTyped DEF OpenBrowserResource
<1>2. CASE FirstLook(p)
  BY <1>2 DEF FirstLook
<1>3. CASE SecondLook(p)
  <2>1. CASE Existing(p) # {}
    BY <1>3, <2>1 DEF SecondLook
  <2>2. CASE Existing(p) = {}
    <3>1. registered' = registered \cup {p} /\ proxy' = [proxy EXCEPT ![p] = "open"]
      BY <1>3, <2>2 DEF SecondLook
    <3>2. registered' \subseteq {o \in Proxies : proxy'[o] = "open"}
      BY <3>1
    <3> QED
      BY <1>3, <3>1, <3>2 DEF SecondLook
  <2> QED
    BY <2>1, <2>2
<1> QED
  BY <1>1, <1>2, <1>3

\* The calls that take down.
LEMMA CallStepTyped ==
  ASSUME AccessAssumption, TypeInv, NEW d \in Calls,
         CallStep(d) \/ \E k \in Kinds : Begin(d, k)
  PROVE  TypeInv'
<1> USE DEF TypeInv, TypeOK, TodoInv, Goto
<1>1. ASSUME NEW k \in Kinds, Begin(d, k) PROVE TypeInv'
  <2>1. PICK to \in {"count", "check", "browser"} : Goto(d, to)
    <3>1. CASE k \in McpKinds
      BY <1>1, <3>1 DEF Begin, McpKinds
    <3>2. CASE k \in {"user", "force"}
      BY <1>1, <3>2 DEF Begin, McpKinds
    <3>3. CASE k \notin McpKinds /\ k \notin {"user", "force"}
      BY <1>1, <3>3 DEF Begin
    <3> QED
      BY <3>1, <3>2, <3>3
  <2>2. [proxies |-> registered, terminals |-> OpenTerminals] \in InUse
    BY DEF OpenTerminals
  <2>3. before' \in [Calls -> InUse] /\ kind' \in [Calls -> Kinds \cup {None}]
    BY <1>1, <2>2 DEF Begin
  <2> QED
    BY <1>1, <2>1, <2>3 DEF Begin
<1>2. CASE CountUi(d) \/ CheckBusy(d)
  <2>1. PICK to \in {"done", "check", "browser"} : Goto(d, to)
    BY <1>2 DEF CountUi, CheckBusy
  <2> QED
    BY <1>2, <2>1 DEF CountUi, CheckBusy
<1>3. CASE TakeProxies(d)
  BY <1>3 DEF TakeProxies
<1>4. ASSUME NEW p \in Proxies, Shutdown(d, p) PROVE TypeInv'
  BY <1>4 DEF Shutdown
<1>5. CASE ShutdownReturns(d) \/ DeadlinePasses(d)
  <2>1. now[d] \in Proxies /\ now[d] \in todo[d]
    BY <1>5 DEF ShutdownReturns, DeadlinePasses
  <2>2. request' \in [Requests -> RequestStates]
    BY <1>5 DEF ShutdownReturns, DeadlinePasses
  <2>3. Closed(d)
    BY <1>5 DEF ShutdownReturns, DeadlinePasses
  <2> QED
    BY <2>1, <2>2, <2>3 DEF Closed
<1>6. CASE ListSessions(d)
  BY <1>6 DEF ListSessions, OpenTerminals
<1>7. CASE CloseSessions(d)
  BY <1>7 DEF CloseSessions
<1>8. CASE Cut(d)
  BY <1>8 DEF Cut
<1> QED
  BY <1>1, <1>2, <1>3, <1>4, <1>5, <1>6, <1>7, <1>8 DEF CallStep

LEMMA TypeStep ==
  ASSUME AccessAssumption, TypeInv, [Next]_vars
  PROVE  TypeInv'
<1>1. CASE UNCHANGED vars
  BY <1>1 DEF vars, TypeInv, TypeOK, TodoInv
<1> QED
  BY <1>1, UseStepTyped, OpenStepTyped, CallStepTyped DEF Next

LEMMA InitTyped ==
  ASSUME AccessAssumption, Init
  PROVE  TypeInv
<1> USE DEF Init
<1>1. client \in 0 .. MaxClients /\ dials \in client .. MaxClients
  BY DEF AccessAssumption
<1>2. before \in [Calls -> InUse]
  OBVIOUS
<1>3. registered \subseteq {p \in Proxies : proxy[p] = "open"}
  OBVIOUS
<1>4. over \in [Requests -> 0 .. MaxClients]
  BY <1>1
<1> QED
  BY <1>1, <1>2, <1>3, <1>4 DEF TypeInv, TypeOK, TodoInv

-----------------------------------------------------------------------------
(* The inductive invariant: where a proxy that serves is found, what a     *)
(* request may hope for, and what has become of what a call found.         *)

ProxiesKept ==
  \A p \in Proxies :
    proxy[p] \in {"open", "closing"} => p \in registered \/ \E d \in Calls : p \in todo[d]

RequestsServed ==
  \A q \in Requests :
    request[q] = "dialing" => via[q] \in Proxies /\ proxy[via[q]] \in {"open", "closing"}

\* The terminals a call has found: none begins anew, and those it has listed
\* are closed with the listing.
TerminalsFollowed ==
  \A d \in Calls : \A t \in before[d].terminals :
    /\ terminal[t] \in {"open", "closed"}
    /\ place[d] = "sessions" => terminal[t] = "closed" \/ t \in victims[d]
    /\ place[d] = "cut" => terminal[t] = "closed"

\* The proxies it has found: from the table they go into its hands or into
\* those of another call, and from there they are closed.
ProxiesFollowed ==
  \A d \in Calls : \A p \in before[d].proxies :
    place[d] \in {"count", "check", "browser", "closing", "sessions", "cut"} =>
      \/ proxy[p] = "closed"
      \/ \E e \in Calls : p \in todo[e]
      \/ place[d] \in {"count", "check", "browser"} /\ p \in registered

IInv == TypeInv /\ ProxiesKept /\ RequestsServed /\ TerminalsFollowed /\ ProxiesFollowed

LEMMA UseStepKeepsInvariant ==
  ASSUME AccessAssumption, IInv,
         \/ ConnectionLost
         \/ \E t \in Terminals :
              OpenTerminal(t) \/ ShellStarts(t) \/ RegisterTerminal(t) \/ TerminalEnds(t)
         \/ \E q \in Requests :
              (\E p \in Proxies : RequestArrives(q, p)) \/ WebDial(q) \/ RequestEnds(q)
  PROVE  (ProxiesKept /\ RequestsServed /\ TerminalsFollowed /\ ProxiesFollowed)'
<1> USE DEF IInv, TypeInv, TypeOK
<1>1. UNCHANGED <<proxy, registered, calls>>
  BY DEF ConnectionLost, OpenTerminal, ShellStarts, RegisterTerminal, TerminalEnds,
         RequestArrives, WebDial, RequestEnds
<1>2. ProxiesKept' /\ ProxiesFollowed'
  BY <1>1 DEF ProxiesKept, ProxiesFollowed
<1>3. RequestsServed'
  <2>1. CASE UNCHANGED <<request, via>>
    BY <1>1, <2>1 DEF RequestsServed
  <2>2. ASSUME NEW q \in Requests, NEW p \in Proxies, RequestArrives(q, p) PROVE RequestsServed'
    BY <2>2 DEF RequestArrives, RequestsServed
  <2>3. ASSUME NEW q \in Requests, WebDial(q) \/ RequestEnds(q) PROVE RequestsServed'
    BY <2>3 DEF WebDial, RequestEnds, RequestsServed
  <2> QED
    BY <2>1, <2>2, <2>3
    DEF ConnectionLost, OpenTerminal, ShellStarts, RegisterTerminal, TerminalEnds
<1>4. TerminalsFollowed'
  <2>1. CASE UNCHANGED terminal
    BY <1>1, <2>1 DEF TerminalsFollowed
  <2>2. ASSUME NEW t \in Terminals, OpenTerminal(t) \/ ShellStarts(t) \/ RegisterTerminal(t) \/ TerminalEnds(t)
        PROVE  TerminalsFollowed'
    <3>1. \A s \in Terminals : /\ terminal[s] = "closed" => terminal'[s] = "closed"
                               /\ terminal[s] = "open" => terminal'[s] \in {"open", "closed"}
      BY <2>2 DEF OpenTerminal, ShellStarts, RegisterTerminal, TerminalEnds
    <3>2. \A d \in Calls : before[d].terminals \subseteq Terminals
      OBVIOUS
    <3> QED
      BY <1>1, <3>1, <3>2 DEF TerminalsFollowed
  <2> QED
    BY <2>1, <2>2 DEF ConnectionLost, RequestArrives, WebDial, RequestEnds
<1> QED
  BY <1>2, <1>3, <1>4

LEMMA OpenStepKeepsInvariant ==
  ASSUME AccessAssumption, IInv, NEW p \in Proxies,
         (\E x \in Targets : OpenBrowserResource(p, x)) \/ FirstLook(p) \/ SecondLook(p)
  PROVE  (ProxiesKept /\ RequestsServed /\ TerminalsFollowed /\ ProxiesFollowed)'
<1> USE DEF IInv, TypeInv, TypeOK
<1>1. UNCHANGED <<request, via, terminal, calls>> /\ registered \subseteq registered'
  BY DEF OpenBrowserResource, FirstLook, SecondLook
<1>2. proxy[p] \notin {"open", "closing", "closed"} /\ \A o \in Proxies \ {p} : proxy'[o] = proxy[o]
  BY DEF OpenBrowserResource, FirstLook, SecondLook
<1>3. proxy'[p] \in {"open", "closing"} => p \in registered'
  BY DEF OpenBrowserResource, FirstLook, SecondLook
<1>4. ProxiesKept'
  BY <1>1, <1>2, <1>3 DEF ProxiesKept
<1>5. RequestsServed'
  BY <1>1, <1>2 DEF RequestsServed
<1>6. TerminalsFollowed'
  BY <1>1 DEF TerminalsFollowed
<1>7. ProxiesFollowed'
  <2>1. \A d \in Calls : before[d].proxies \subseteq Proxies
    OBVIOUS
  <2> QED
    BY <1>1, <1>2, <2>1 DEF ProxiesFollowed
<1> QED
  BY <1>4, <1>5, <1>6, <1>7

\* A call's step that leaves proxies and requests alone, and a step that closes
\* what it has listed.
LEMMA CallKeepsProxies ==
  ASSUME AccessAssumption, IInv, NEW d \in Calls,
         CallStep(d) \/ \E k \in Kinds : Begin(d, k)
  PROVE  (ProxiesKept /\ RequestsServed)'
<1> USE DEF IInv, TypeInv, TypeOK
<1>1. CASE UNCHANGED <<proxy, registered, todo, request, via>>
  BY <1>1 DEF ProxiesKept, RequestsServed
<1>2. CASE TakeProxies(d)
  <2>1. todo[d] = {}
    BY <1>2 DEF TakeProxies, TodoInv
  <2> QED
    BY <1>2, <2>1 DEF TakeProxies, ProxiesKept, RequestsServed
<1>3. ASSUME NEW p \in Proxies, Shutdown(d, p) PROVE (ProxiesKept /\ RequestsServed)'
  BY <1>3 DEF Shutdown, ProxiesKept, RequestsServed
<1>4. CASE ShutdownReturns(d) \/ DeadlinePasses(d)
  <2>1. /\ now[d] \in Proxies /\ now[d] \in todo[d]
        /\ proxy' = [proxy EXCEPT ![now[d]] = "closed"]
        /\ todo' = [todo EXCEPT ![d] = todo[d] \ {now[d]}]
        /\ UNCHANGED <<registered, via>>
    BY <1>4 DEF ShutdownReturns, DeadlinePasses, Closed, TodoInv
  <2>2. ProxiesKept'
    BY <2>1 DEF ProxiesKept
  <2>3. \A q \in Requests : request'[q] = "dialing" => request[q] = "dialing" /\ via[q] # now[d]
    BY <1>4 DEF ShutdownReturns, DeadlinePasses, Active
  <2>4. RequestsServed'
    BY <2>1, <2>3 DEF RequestsServed
  <2> QED
    BY <2>2, <2>4
<1> QED
  BY <1>1, <1>2, <1>3, <1>4
  DEF CallStep, Begin, CountUi, CheckBusy, ListSessions, CloseSessions, Cut

LEMMA CallFollowsTerminals ==
  ASSUME AccessAssumption, IInv, NEW d \in Calls,
         CallStep(d) \/ \E k \in Kinds : Begin(d, k)
  PROVE  TerminalsFollowed'
<1> USE DEF IInv, TypeInv, TypeOK, Goto
<1>1. \A e \in Calls : before[e].terminals \subseteq Terminals
  OBVIOUS
<1>2. ASSUME NEW k \in Kinds, Begin(d, k) PROVE TerminalsFollowed'
  <2>1. before'[d].terminals = OpenTerminals /\ UNCHANGED <<terminal, victims>>
    BY <1>2 DEF Begin
  <2>2. place'[d] \notin {"sessions", "cut"}
    BY <1>2 DEF Begin
  <2>3. \A e \in Calls \ {d} : before'[e] = before[e] /\ place'[e] = place[e]
    BY <1>2 DEF Begin
  <2> QED
    BY <2>1, <2>2, <2>3 DEF TerminalsFollowed, OpenTerminals
<1>3. CASE UNCHANGED <<terminal, before, victims>> /\ place'[d] \notin {"sessions", "cut"}
           /\ \A e \in Calls \ {d} : place'[e] = place[e]
  BY <1>3 DEF TerminalsFollowed
<1>4. CASE CountUi(d) \/ CheckBusy(d) \/ TakeProxies(d) \/ Cut(d)
  BY <1>3, <1>4 DEF CountUi, CheckBusy, TakeProxies, Cut
<1>5. CASE (\E p \in Proxies : Shutdown(d, p)) \/ ShutdownReturns(d) \/ DeadlinePasses(d)
  <2>1. UNCHANGED <<terminal, before, victims, place>>
    BY <1>5 DEF Shutdown, ShutdownReturns, DeadlinePasses, Closed
  <2> QED
    BY <2>1 DEF TerminalsFollowed
<1>6. CASE ListSessions(d)
  BY <1>1, <1>6 DEF ListSessions, TerminalsFollowed, OpenTerminals
<1>7. CASE CloseSessions(d)
  BY <1>1, <1>7 DEF CloseSessions, TerminalsFollowed
<1> QED
  BY <1>2, <1>4, <1>5, <1>6, <1>7 DEF CallStep

LEMMA CallFollowsProxies ==
  ASSUME AccessAssumption, IInv, NEW d \in Calls,
         CallStep(d) \/ \E k \in Kinds : Begin(d, k)
  PROVE  ProxiesFollowed'
<1> USE DEF IInv, TypeInv, TypeOK, Goto
<1>1. \A e \in Calls : before[e].proxies \subseteq Proxies
  OBVIOUS
<1>2. ASSUME NEW k \in Kinds, Begin(d, k) PROVE ProxiesFollowed'
  <2>1. before'[d].proxies = registered /\ UNCHANGED <<proxy, registered, todo>>
    BY <1>2 DEF Begin
  <2>2. place'[d] \in {"count", "check", "browser"}
    <3>1. CASE k \in McpKinds
      BY <1>2, <3>1 DEF Begin, McpKinds
    <3>2. CASE k \in {"user", "force"}
      BY <1>2, <3>2 DEF Begin, McpKinds
    <3>3. CASE k \notin McpKinds /\ k \notin {"user", "force"}
      BY <1>2, <3>3 DEF Begin
    <3> QED
      BY <3>1, <3>2, <3>3
  <2>3. \A e \in Calls \ {d} : before'[e] = before[e] /\ place'[e] = place[e]
    BY <1>2 DEF Begin
  <2> QED
    BY <2>1, <2>2, <2>3 DEF ProxiesFollowed
<1>3. CASE CountUi(d) \/ CheckBusy(d)
  <2>1. /\ UNCHANGED <<proxy, registered, todo, before>>
        /\ place[d] \in {"count", "check"} /\ place'[d] \in {"done", "check", "browser"}
        /\ \A e \in Calls \ {d} : place'[e] = place[e]
    BY <1>3 DEF CountUi, CheckBusy
  <2> QED
    BY <2>1 DEF ProxiesFollowed
<1>4. CASE TakeProxies(d)
  <2>1. todo[d] = {}
    BY <1>4 DEF TakeProxies, TodoInv
  <2>2. \A p \in registered : p \in todo'[d]
    BY <1>4 DEF TakeProxies
  <2>3. \A e \in Calls : todo[e] \subseteq todo'[e]
    BY <1>4, <2>1 DEF TakeProxies
  <2>4. UNCHANGED <<proxy, before>> /\ place[d] = "browser" /\ place'[d] = "closing"
    BY <1>4 DEF TakeProxies
  <2>5. \A e \in Calls \ {d} : place'[e] = place[e]
    BY <1>4 DEF TakeProxies
  <2> QED
    BY <2>2, <2>3, <2>4, <2>5 DEF ProxiesFollowed
<1>5. ASSUME NEW p \in Proxies, Shutdown(d, p) PROVE ProxiesFollowed'
  BY <1>1, <1>5 DEF Shutdown, ProxiesFollowed
<1>6. CASE ShutdownReturns(d) \/ DeadlinePasses(d)
  <2>1. /\ now[d] \in Proxies
        /\ proxy' = [proxy EXCEPT ![now[d]] = "closed"]
        /\ todo' = [todo EXCEPT ![d] = todo[d] \ {now[d]}]
        /\ UNCHANGED <<registered, before, place>>
    BY <1>6 DEF ShutdownReturns, DeadlinePasses, Closed, TodoInv
  <2> QED
    BY <1>1, <2>1 DEF ProxiesFollowed
<1>7. CASE ListSessions(d) \/ CloseSessions(d) \/ Cut(d)
  <2>1. /\ UNCHANGED <<proxy, registered, todo, before>>
        /\ place[d] \in {"closing", "sessions", "cut"} /\ place'[d] \in {"done", "sessions", "cut"}
        /\ \A e \in Calls \ {d} : place'[e] = place[e]
    BY <1>7 DEF ListSessions, CloseSessions, Cut
  <2> QED
    BY <2>1 DEF ProxiesFollowed
<1> QED
  BY <1>2, <1>3, <1>4, <1>5, <1>6, <1>7 DEF CallStep

LEMMA InvariantStep ==
  ASSUME AccessAssumption, IInv, [Next]_vars
  PROVE  IInv'
<1>1. TypeInv'
  BY TypeStep DEF IInv
<1>2. CASE UNCHANGED vars
  BY <1>1, <1>2
  DEF vars, IInv, ProxiesKept, RequestsServed, TerminalsFollowed, ProxiesFollowed
<1>3. CASE Next
  <2> USE <1>1 DEF IInv
  <2>1. CASE \E d \in Calls : CallStep(d) \/ \E k \in Kinds : Begin(d, k)
    BY <2>1, CallKeepsProxies, CallFollowsTerminals, CallFollowsProxies
  <2>2. CASE ~\E d \in Calls : CallStep(d) \/ \E k \in Kinds : Begin(d, k)
    BY <1>3, <2>2, UseStepKeepsInvariant, OpenStepKeepsInvariant DEF Next
  <2> QED
    BY <2>1, <2>2
<1> QED
  BY <1>2, <1>3

LEMMA InitInvariant == AccessAssumption /\ Init => IInv
<1> SUFFICES ASSUME AccessAssumption, Init PROVE IInv
  OBVIOUS
<1>1. ProxiesKept /\ RequestsServed
  BY DEF Init, ProxiesKept, RequestsServed
<1>2. \A d \in Calls : before[d].terminals = {} /\ before[d].proxies = {}
  BY DEF Init
<1>3. TerminalsFollowed /\ ProxiesFollowed
  BY <1>2 DEF TerminalsFollowed, ProxiesFollowed
<1> QED
  BY <1>1, <1>3, InitTyped DEF IInv

LEMMA InductiveInvariant == Spec => []IInv
BY InitInvariant, InvariantStep, AccessAssumption, PTL DEF Spec

\* A proxy that serves is in the table or in the hands of a call that closes
\* it, and no request can still dial through one that is closed, so none
\* undoes a disconnect (browserproxy/manager.go:148).
THEOREM ProxiesAreAttended == Spec => []ProxiesAttended
<1>1. IInv => ProxiesAttended
  BY DEF IInv, ProxiesKept, RequestsServed, ProxiesAttended
<1> QED
  BY <1>1, InductiveInvariant, PTL

\* A disconnect that has run to its end leaves no terminal and no proxy of
\* those it found (service.go:683).
THEOREM DisconnectCompletes == Spec => DisconnectIsComplete
<1> DEFINE Complete(d) == /\ \A t \in before[d].terminals : terminal[t] = "closed"
                          /\ \A p \in before[d].proxies :
                               proxy[p] = "closed" \/ \E e \in Calls \ {d} : p \in todo[e]
           CutsComplete == \A d \in Calls : place[d] = "cut" /\ place'[d] = "done" => Complete(d)
<1>1. ASSUME IInv PROVE CutsComplete
  <2>1. \A d \in Calls : place[d] = "cut" => todo[d] = {}
    BY <1>1 DEF IInv, TypeInv, TodoInv
  <2> QED
    BY <1>1, <2>1 DEF IInv, TerminalsFollowed, ProxiesFollowed
<1>2. IInv => CutsComplete
  BY <1>1
<1> QED
  BY <1>2, InductiveInvariant, PTL DEF Spec, DisconnectIsComplete

-----------------------------------------------------------------------------
(* The test of a connection                                                *)

Connecting == {"ssh", "acceptKey", "sshAgain", "probe"}
AfterLink == Connecting \cup {"secret", "passed"}
AfterRead == AfterLink \cup {"folder", "tunnel", "acceptCert", "tunnelAgain"}
Closing == {"closeAll", "shutdown", "remove", "done"}

\* What the test asks for is known once it has begun, and where it connects a
\* tunnel the form has one.
FormInv ==
  /\ step # "form" => form \in Test!Forms
  /\ step \in {"tunnel", "acceptCert", "tunnelAgain"} => Test!Isolated(form)
  /\ step = "acceptCert" => cert = None /\ seen \in Prints
  /\ step = "acceptKey" => key = None /\ seen \in Prints
  /\ outcome = "ok" => step \in Closing

CertHeeded ==
  base # None /\ Test!Isolated(form) /\ Test!SameTunnel(form, base) /\ base.cert # None
    => cert = base.cert

KeyHeeded == base # None /\ base.ssh = form.ssh /\ recorded # None => key = recorded

\* A whole test has passed, or is passing.
WholePassed == (step = "passed" \/ outcome = "ok") /\ form.whole

TrustInv ==
  /\ step \in AfterRead \/ outcome = "ok" => CertHeeded
  /\ step \in AfterLink \/ outcome = "ok" => (Test!Isolated(form) => made["link"] = cert)
  /\ step \in Connecting \/ WholePassed => KeyHeeded
  /\ step = "probe" \/ WholePassed => made["client"] = key

\* What is undone stays undone.
UndoneInv ==
  /\ step = "shutdown" => temporary \subseteq {"folder", "link"}
  /\ step = "remove" => temporary \subseteq {"folder"}
  /\ step = "done" => temporary = {}

TestInv == Test!TypeOK /\ FormInv /\ TrustInv /\ UndoneInv

USE DEF Test!stores, Test!Profiles, Test!Forms, Connecting, AfterLink, AfterRead, Closing

LEMMA ConnectPartKeeps ==
  ASSUME TestInv,
         \/ Test!ConnectTunnel \/ Test!UnknownTunnel \/ Test!AcceptCertificate
         \/ Test!LookupKey \/ Test!ConnectSSH \/ Test!UnknownKey \/ Test!AcceptHostKey
  PROVE  TestInv'
<1> form \in Test!Forms
  BY DEF TestInv, FormInv, Test!ConnectTunnel, Test!UnknownTunnel, Test!AcceptCertificate,
         Test!LookupKey, Test!ConnectSSH, Test!UnknownKey, Test!AcceptHostKey, Test!ConnectPart,
         Test!Unknown
<1> USE DEF TestInv, Test!TypeOK, FormInv, TrustInv, UndoneInv, CertHeeded, KeyHeeded,
            WholePassed, Test!Isolated, Test!SameTunnel
<1>1. CASE Test!ConnectTunnel
  BY <1>1 DEF Test!ConnectTunnel, Test!ConnectPart
<1>2. CASE Test!UnknownTunnel
  BY <1>2 DEF Test!UnknownTunnel, Test!Unknown
<1>3. CASE Test!AcceptCertificate
  BY <1>3 DEF Test!AcceptCertificate
<1>4. CASE Test!LookupKey
  BY <1>4 DEF Test!LookupKey
<1>5. CASE Test!ConnectSSH
  BY <1>5 DEF Test!ConnectSSH, Test!ConnectPart
<1>6. CASE Test!UnknownKey
  BY <1>6 DEF Test!UnknownKey, Test!Unknown
<1>7. CASE Test!AcceptHostKey
  BY <1>7 DEF Test!AcceptHostKey
<1> QED
  BY <1>1, <1>2, <1>3, <1>4, <1>5, <1>6, <1>7

LEMMA OtherTestStepsKeep ==
  ASSUME TestInv,
         \/ Test!Begin \/ Test!ReadSaved \/ Test!MakeFolder \/ Test!ProbeTerminal
         \/ Test!Passes \/ Test!Fails \/ Test!CloseAll \/ Test!Shutdown \/ Test!RemoveAll
         \/ Test!ServerChanges \/ Test!SavedDeleted
  PROVE  TestInv'
<1> USE DEF TestInv, Test!TypeOK, FormInv, TrustInv, UndoneInv, CertHeeded, KeyHeeded,
            WholePassed
<1>1. CASE Test!Begin
  BY <1>1 DEF Test!Begin
<1>2. CASE Test!ReadSaved
  BY <1>2 DEF Test!ReadSaved, Test!CertificateFor, Test!SameTunnel, Test!Isolated
<1>3. CASE Test!MakeFolder
  BY <1>3 DEF Test!MakeFolder
<1>4. CASE Test!ProbeTerminal
  BY <1>4 DEF Test!ProbeTerminal
<1>5. CASE Test!Passes
  BY <1>5 DEF Test!Passes
<1>6. CASE Test!Fails
  BY <1>6 DEF Test!Fails
<1>7. CASE Test!CloseAll
  BY <1>7 DEF Test!CloseAll, Test!Undo
<1>10. CASE Test!Shutdown
  BY <1>10 DEF Test!Shutdown, Test!Undo
<1>11. CASE Test!RemoveAll
  BY <1>11 DEF Test!RemoveAll, Test!Undo
<1>8. CASE Test!ServerChanges
  BY <1>8 DEF Test!ServerChanges
<1>9. CASE Test!SavedDeleted
  BY <1>9 DEF Test!SavedDeleted
<1> QED
  BY <1>1, <1>2, <1>3, <1>4, <1>5, <1>6, <1>7, <1>8, <1>9, <1>10, <1>11

LEMMA TestInit == Test!Init => TestInv
BY DEF Test!Init, TestInv, Test!TypeOK, FormInv, TrustInv, UndoneInv, WholePassed

\* Either part keeps its invariant while the other stands still.
PartsInv == IInv /\ (part = "test" => TestInv)

LEMMA PartsInvariant == MCSpec => []PartsInv
<1>1. MCInit => PartsInv
  BY InitInvariant, TestInit, AccessAssumption DEF MCInit, PartsInv
<1>2. PartsInv /\ [MCNext]_<<part, vars, testVars>> => PartsInv'
  <2> SUFFICES ASSUME PartsInv, [MCNext]_<<part, vars, testVars>> PROVE PartsInv'
    OBVIOUS
  <2>1. IInv'
    <3>1. [Next]_vars
      BY DEF MCNext
    <3> QED
      BY <3>1, InvariantStep, AccessAssumption DEF PartsInv
  <2>2. ASSUME part' = "test" PROVE TestInv'
    <3>1. part = "test"
      BY <2>2 DEF MCNext
    <3>2. TestInv
      BY <3>1 DEF PartsInv
    <3>3. CASE Test!Next
      BY <3>2, <3>3, ConnectPartKeeps, OtherTestStepsKeep DEF Test!Next
    <3>4. CASE UNCHANGED testVars
      BY <3>2, <3>4
      DEF testVars, TestInv, Test!TypeOK, FormInv, TrustInv, UndoneInv, CertHeeded, KeyHeeded,
          WholePassed
    <3> QED
      BY <3>1, <3>3, <3>4 DEF MCNext
  <2> QED
    BY <2>1, <2>2 DEF PartsInv
<1> QED
  BY <1>1, <1>2, PTL DEF MCSpec

\* The variables of the service and of a test keep their types: every proxy in
\* the table is open.
THEOREM AccessTyped == MCSpec => []AllTyped
<1>1. PartsInv => AllTyped
  BY DEF PartsInv, IInv, TypeInv, TestInv, AllTyped
<1> QED
  BY <1>1, PartsInvariant, PTL

\* A test that passes went to the servers that are trusted for the addresses of
\* the form, whatever is shown or deleted meanwhile, and leaves nothing
\* (service.go:354).
THEOREM TestsAreHonest == MCSpec => []TestIsHonest
<1>1. PartsInv => TestIsHonest
  <2> SUFFICES ASSUME TestInv PROVE Test!TestIsHonest
    BY DEF PartsInv, TestIsHonest
  <2> QED
    BY DEF TestInv, FormInv, TrustInv, UndoneInv, CertHeeded, KeyHeeded, WholePassed,
           Test!TestIsHonest
<1> QED
  BY <1>1, PartsInvariant, PTL
=============================================================================
