---------------------------- MODULE ProfileAccess ----------------------------
(***************************************************************************)
(* One profile as the service facade offers it (internal/app/service.go):  *)
(* terminals, the web proxies of internal/browserproxy/manager.go with     *)
(* their requests, and the calls that take them down: Disconnect, its MCP  *)
(* variant MCPDisconnect, CloseBrowserAccess and Shutdown.                 *)
(*                                                                         *)
(* The SSH connection is what SshRuntime shows of it: one client at a      *)
(* time, a client that is not the cached one is closed, and a dial that a  *)
(* disconnect overtook never installs its client; so connecting is a step. *)
(* The transfers a disconnect cancels are the module TransferJobs.         *)
(***************************************************************************)
EXTENDS Naturals, FiniteSets

CONSTANTS Calls,               \* identities of the calls that take things down
          Kinds,               \* which of them may be made
          Terminals, UiTerminals,
          Proxies,             \* identities of proxy sessions, one for each call of Open
          Targets, Requests,
          None,
          MaxClients           \* bound on the SSH clients of a behaviour

AllKinds == {"user", "force", "mcp", "mcpForce", "closeWeb", "quit"}
McpKinds == {"mcp", "mcpForce"}
Forced == {"force", "mcpForce"}

ASSUME AccessAssumption ==
  /\ Kinds \subseteq AllKinds /\ UiTerminals \subseteq Terminals
  /\ None \notin Proxies \cup Targets /\ MaxClients \in Nat

VARIABLES
  client,      \* the number of the cached SSH client, 0 if there is none
  dials,       \* SSH clients so far
  terminal,    \* state of a terminal
  proxy,       \* state of a proxy session
  target,      \* its targetKey
  registered,  \* the proxies in Manager.sessions
  request,     \* state of a request of a browser
  via,         \* the proxy it came through
  over,        \* the SSH client that carries it
  kind, place, \* of a call: what it is and where it stands
  todo,        \* the proxies it has taken out of the table and not closed
  now,         \* the one whose Shutdown it waits for
  victims,     \* the terminals it has listed
  before       \* history: what was in use when the call began

connection == <<client, dials>>
web == <<proxy, target, registered, request, via, over>>
calls == <<kind, place, todo, now, victims, before>>
vars == <<client, dials, terminal, proxy, target, registered, request, via, over,
          kind, place, todo, now, victims, before>>

TerminalStates == {"none", "opening", "started", "open", "closed"}
ProxyStates == {"none", "connected", "listening", "open", "closing", "closed"}
RequestStates == {"none", "dialing", "streaming", "socket", "done"}
Places == {"idle", "count", "check", "browser", "closing", "sessions", "cut", "done"}
InUse == [proxies : SUBSET Proxies, terminals : SUBSET Terminals]

TypeOK ==
  /\ client \in 0 .. MaxClients /\ dials \in client .. MaxClients
  /\ terminal \in [Terminals -> TerminalStates]
  /\ proxy \in [Proxies -> ProxyStates]
  /\ target \in [Proxies -> Targets \cup {None}]
  /\ registered \subseteq {p \in Proxies : proxy[p] = "open"}
  /\ request \in [Requests -> RequestStates]
  /\ via \in [Requests -> Proxies \cup {None}]
  /\ over \in [Requests -> 0 .. MaxClients]
  /\ kind \in [Calls -> Kinds \cup {None}]
  /\ place \in [Calls -> Places]
  /\ todo \in [Calls -> SUBSET Proxies]
  /\ now \in [Calls -> Proxies \cup {None}]
  /\ victims \in [Calls -> SUBSET Terminals]
  /\ before \in [Calls -> InUse]

OpenTerminals == {t \in Terminals : terminal[t] = "open"}
Existing(p) == {o \in registered : target[o] = target[p]}

\* What Shutdown waits for; a connection taken over by a WebSocket is no
\* longer the server's (net/http, Server.Shutdown).
Active(p) == {q \in Requests : via[q] = p /\ request[q] \in {"dialing", "streaming"}}

Init ==
  /\ client = 0 /\ dials = 0
  /\ terminal = [t \in Terminals |-> "none"]
  /\ proxy = [p \in Proxies |-> "none"]
  /\ target = [p \in Proxies |-> None]
  /\ registered = {}
  /\ request = [q \in Requests |-> "none"]
  /\ via = [q \in Requests |-> None]
  /\ over = [q \in Requests |-> 0]
  /\ kind = [d \in Calls |-> None]
  /\ place = [d \in Calls |-> "idle"]
  /\ todo = [d \in Calls |-> {}]
  /\ now = [d \in Calls |-> None]
  /\ victims = [d \in Calls |-> {}]
  /\ before = [d \in Calls |-> [proxies |-> {}, terminals |-> {}]]

-----------------------------------------------------------------------------
(* The connection                                                          *)

\* EnsureConnected: use the client there is, or dial one.
Connect ==
  IF client # 0
  THEN UNCHANGED connection
  ELSE dials < MaxClients /\ dials' = dials + 1 /\ client' = dials'

ConnectionLost ==
  /\ client # 0
  /\ client' = 0
  /\ UNCHANGED <<dials, terminal, web, calls>>

-----------------------------------------------------------------------------
(* Terminals: OpenTerminal registers the session after the last answer     *)

OpenTerminal(t) ==
  /\ terminal[t] = "none"
  /\ Connect
  /\ terminal' = [terminal EXCEPT ![t] = "opening"]
  /\ UNCHANGED <<web, calls>>

ShellStarts(t) ==
  /\ terminal[t] = "opening" /\ client # 0
  /\ terminal' = [terminal EXCEPT ![t] = "started"]
  /\ UNCHANGED <<connection, web, calls>>

RegisterTerminal(t) ==
  /\ terminal[t] = "started"
  /\ terminal' = [terminal EXCEPT ![t] = "open"]
  /\ UNCHANGED <<connection, web, calls>>

\* A request of the set-up fails, or the shell ends, by itself or with the
\* transport.
TerminalEnds(t) ==
  /\ terminal[t] \in {"opening", "open"}
  /\ terminal' = [terminal EXCEPT ![t] = "closed"]
  /\ UNCHANGED <<connection, web, calls>>

-----------------------------------------------------------------------------
(* browserproxy.Manager.Open                                               *)

OpenBrowserResource(p, x) ==
  /\ proxy[p] = "none"
  /\ Connect
  /\ proxy' = [proxy EXCEPT ![p] = "connected"]
  /\ target' = [target EXCEPT ![p] = x]
  /\ UNCHANGED <<terminal, registered, request, via, over, calls>>

\* Hand out the proxy there is, or listen for a new one.
FirstLook(p) ==
  /\ proxy[p] = "connected"
  /\ proxy' = [proxy EXCEPT ![p] = IF Existing(p) # {} THEN "closed" ELSE "listening"]
  /\ UNCHANGED <<connection, terminal, target, registered, request, via, over, calls>>

\* Look again under the lock that registers the new one.
SecondLook(p) ==
  /\ proxy[p] = "listening"
  /\ IF Existing(p) # {}
     THEN proxy' = [proxy EXCEPT ![p] = "closed"] /\ UNCHANGED registered
     ELSE proxy' = [proxy EXCEPT ![p] = "open"] /\ registered' = registered \cup {p}
  /\ UNCHANGED <<connection, terminal, target, request, via, over, calls>>

-----------------------------------------------------------------------------
(* Requests of the browser                                                 *)

\* Shutdown closes the listener, but a connection that it has accepted and
\* that is new may still bring its first request.
RequestArrives(q, p) ==
  /\ request[q] = "none" /\ proxy[p] \in {"open", "closing"}
  /\ request' = [request EXCEPT ![q] = "dialing"]
  /\ via' = [via EXCEPT ![q] = p]
  /\ UNCHANGED <<connection, terminal, proxy, target, registered, over, calls>>

\* DialWebContext connects the profile if it is not; the answer is a body, or
\* the switch to a WebSocket.
WebDial(q) ==
  /\ request[q] = "dialing"
  /\ Connect
  /\ over' = [over EXCEPT ![q] = client']
  /\ \E answer \in {"streaming", "socket"} : request' = [request EXCEPT ![q] = answer]
  /\ UNCHANGED <<terminal, proxy, target, registered, via, calls>>

\* The dial fails, an end closes the stream, or its SSH client is gone.
RequestEnds(q) ==
  /\ request[q] \in {"dialing", "streaming", "socket"}
  /\ request' = [request EXCEPT ![q] = "done"]
  /\ UNCHANGED <<connection, terminal, proxy, target, registered, via, over, calls>>

-----------------------------------------------------------------------------
(* Disconnect, MCPDisconnect, CloseBrowserAccess, Shutdown                 *)

Goto(d, l) == place' = [place EXCEPT ![d] = l]

Begin(d, k) ==
  /\ place[d] = "idle"
  /\ kind' = [kind EXCEPT ![d] = k]
  /\ Goto(d, CASE k \in McpKinds -> "count"
               [] k \in {"user", "force"} -> "check"
               [] OTHER -> "browser")
  /\ before' = [before EXCEPT ![d] = [proxies |-> registered, terminals |-> OpenTerminals]]
  /\ UNCHANGED <<connection, terminal, web, todo, now, victims>>

\* MCPDisconnect refuses when the user has a terminal.
CountUi(d) ==
  /\ place[d] = "count"
  /\ Goto(d, IF OpenTerminals \cap UiTerminals # {} THEN "done" ELSE "check")
  /\ UNCHANGED <<connection, terminal, web, kind, todo, now, victims, before>>

\* Unless it is forced, a disconnect refuses when the connection is in use.
CheckBusy(d) ==
  /\ place[d] = "check"
  /\ Goto(d, IF kind[d] \notin Forced /\ OpenTerminals \cup registered # {}
             THEN "done" ELSE "browser")
  /\ UNCHANGED <<connection, terminal, web, kind, todo, now, victims, before>>

\* A bug: the table keeps the proxies until they are closed.
CopyProxies(d) ==
  /\ place[d] = "browser"
  /\ todo' = [todo EXCEPT ![d] = registered]
  /\ Goto(d, "closing")
  /\ UNCHANGED <<connection, terminal, web, kind, now, victims, before>>

\* CloseProfile of the proxy manager empties the table ...
TakeProxies(d) ==
  /\ place[d] = "browser"
  /\ todo' = [todo EXCEPT ![d] = registered]
  /\ registered' = {}
  /\ Goto(d, "closing")
  /\ UNCHANGED <<connection, terminal, proxy, target, request, via, over, kind, now, victims, before>>

\* ... and shuts down one server after the other.
Shutdown(d, p) ==
  /\ place[d] = "closing" /\ now[d] = None /\ p \in todo[d]
  /\ now' = [now EXCEPT ![d] = p]
  /\ proxy' = [proxy EXCEPT ![p] = "closing"]
  /\ UNCHANGED <<connection, terminal, target, registered, request, via, over, kind, place, todo, victims, before>>

Closed(d) ==
  /\ proxy' = [proxy EXCEPT ![now[d]] = "closed"]
  /\ todo' = [todo EXCEPT ![d] = @ \ {now[d]}]
  /\ now' = [now EXCEPT ![d] = None]
  /\ UNCHANGED <<connection, terminal, target, registered, via, over, kind, place, victims, before>>

\* A bug: the requests that are running are not waited for.
ReturnAtOnce(d) ==
  /\ now[d] # None
  /\ Closed(d)
  /\ UNCHANGED request

ShutdownReturns(d) ==
  /\ now[d] # None
  /\ Active(now[d]) = {}
  /\ Closed(d)
  /\ UNCHANGED request

\* A bug: the program's end has no deadline either.
DeadlineOfDisconnect(d) ==
  /\ now[d] # None /\ kind[d] = "force"
  /\ Closed(d)
  /\ request' = [q \in Requests |-> IF q \in Active(now[d]) THEN "done" ELSE request[q]]

\* Only the context of the program's end has a deadline (app.go, 12 s): then
\* Close cuts the connections that are left.
DeadlinePasses(d) ==
  /\ now[d] # None /\ kind[d] = "quit"
  /\ Closed(d)
  /\ request' = [q \in Requests |-> IF q \in Active(now[d]) THEN "done" ELSE request[q]]

\* A bug: only the terminals of MCP are listed.
ListMcpSessions(d) ==
  /\ place[d] = "closing" /\ todo[d] = {}
  /\ Goto(d, IF kind[d] = "closeWeb" THEN "done" ELSE "sessions")
  /\ victims' = [victims EXCEPT ![d] = OpenTerminals \ UiTerminals]
  /\ UNCHANGED <<connection, terminal, web, kind, todo, now, before>>

\* CloseBrowserAccess ends here; the others go on to CloseProfileSessions,
\* which lists the terminals ...
ListSessions(d) ==
  /\ place[d] = "closing" /\ todo[d] = {}
  /\ Goto(d, IF kind[d] = "closeWeb" THEN "done" ELSE "sessions")
  /\ victims' = [victims EXCEPT ![d] = OpenTerminals]
  /\ UNCHANGED <<connection, terminal, web, kind, todo, now, before>>

\* ... and closes them.
CloseSessions(d) ==
  /\ place[d] = "sessions"
  /\ terminal' = [t \in Terminals |-> IF t \in victims[d] THEN "closed" ELSE terminal[t]]
  /\ Goto(d, "cut")
  /\ UNCHANGED <<connection, web, kind, todo, now, victims, before>>

\* invalidateClient and the tunnel's Disconnect.
Cut(d) ==
  /\ place[d] = "cut"
  /\ client' = 0
  /\ Goto(d, "done")
  /\ UNCHANGED <<dials, terminal, web, kind, todo, now, victims, before>>

-----------------------------------------------------------------------------
CallStep(d) ==
  \/ CountUi(d) \/ CheckBusy(d) \/ TakeProxies(d)
  \/ \E p \in Proxies : Shutdown(d, p)
  \/ ShutdownReturns(d) \/ DeadlinePasses(d)
  \/ ListSessions(d) \/ CloseSessions(d) \/ Cut(d)

Next ==
  \/ ConnectionLost
  \/ \E t \in Terminals :
       OpenTerminal(t) \/ ShellStarts(t) \/ RegisterTerminal(t) \/ TerminalEnds(t)
  \/ \E p \in Proxies :
       \/ \E x \in Targets : OpenBrowserResource(p, x)
       \/ FirstLook(p) \/ SecondLook(p)
  \/ \E q \in Requests :
       \/ \E p \in Proxies : RequestArrives(q, p)
       \/ WebDial(q) \/ RequestEnds(q)
  \/ \E d \in Calls : CallStep(d) \/ \E k \in Kinds : Begin(d, k)

Spec == Init /\ [][Next]_vars

\* The steps of a call run; a dial is bounded (45 s); a stream or a socket
\* ends when its SSH client is gone, and otherwise when its two ends like.
Fairness ==
  /\ \A d \in Calls : WF_vars(CallStep(d))
  /\ \A q \in Requests :
       /\ WF_vars(request[q] = "dialing" /\ (WebDial(q) \/ RequestEnds(q)))
       /\ WF_vars(over[q] # client /\ RequestEnds(q))

LiveSpec == Spec /\ Fairness

-----------------------------------------------------------------------------
(* Properties                                                              *)

\* A proxy that serves is in the table, where the next disconnect finds it, or in
\* the hands of a call that is closing it; and a closed one has no request left
\* that could still dial: DialWebContext connects the profile, so such a request
\* would undo the user's disconnect.
ProxiesAttended ==
  /\ \A p \in Proxies :
       proxy[p] \in {"open", "closing"} => p \in registered \/ \E d \in Calls : p \in todo[d]
  /\ \A q \in Requests : request[q] = "dialing" => proxy[via[q]] # "closed"

\* A disconnect that has run to its end leaves no terminal and no proxy of
\* those it found, whatever was opened meanwhile; a proxy may still be in the
\* hands of another disconnect.
DisconnectIsComplete ==
  [][\A d \in Calls :
       place[d] = "cut" /\ place'[d] = "done" =>
         /\ \A t \in before[d].terminals : terminal[t] = "closed"
         /\ \A p \in before[d].proxies :
              proxy[p] = "closed" \/ \E e \in Calls \ {d} : p \in todo[e]]_vars

\* The program's end comes to its end, whatever the pages do (the comment at
\* app.go:118 and the CHANGELOG, line 30).
QuitReturns ==
  []<>(\A d \in Calls : kind[d] = "quit" => place[d] = "done")

\* "Force disconnect also closes the proxies; pages that are open are no
\* longer accessible" (user manual, line 109): a forced disconnect gets as far
\* as cutting the connection.
ForcedDisconnectCuts ==
  \A d \in Calls : kind[d] = "force" ~> place[d] = "done"
=============================================================================
