----------------------------- MODULE McpLifetime -----------------------------
(***************************************************************************)
(* The MCP port between programs and restarts: listenWithRecovery,         *)
(* reclaimPort and the owner record of internal/mcpserver/port_recovery.go *)
(* with Start and Stop of server.go, and the settings file that StartMCP,  *)
(* StopMCP, startup and shutdown of app.go keep.  What a server does while *)
(* it runs is the module McpController.                                    *)
(*                                                                         *)
(* A process is known by its id, which the system gives again to another   *)
(* one; the record is believed only while a LabRemote has the id.  One     *)
(* window does one thing at a time; several LabRemotes may run.            *)
(***************************************************************************)
EXTENDS Naturals

CONSTANTS Pids, Ports, DefaultPort, None

LifetimeAssumption == DefaultPort \in Ports /\ None \notin Pids

VARIABLES
  process,  \* what runs under each id: none, ours, other
  holder,   \* the process that listens on each port, or None
  record,   \* mcp-owner.json: <<id, port>>, or None
  setting,  \* settings.json: MCPEnabled and MCPPort
  place,    \* where each LabRemote is
  port,     \* the port of its server, or of the start it is in
  saves,    \* the start was asked for in the window, and will be saved
  ended,    \* what recovery has ended: processes of which kind, or itself
  turnedOff \* the last thing a window was told, and answered, is "stop"

vars == <<process, holder, record, setting, place, port, saves, ended, turnedOff>>

Places == {"none", "restoring", "idle", "listen", "record", "reclaim", "lookup", "wait", "retry",
           "saveOn", "draining", "forget", "forgetForced", "saveOff", "quitting"}

TypeOK ==
  /\ process \in [Pids -> {"none", "ours", "other"}]
  /\ holder \in [Ports -> Pids \cup {None}]
  /\ record \in {None} \cup (Pids \X Ports)
  /\ setting \in [enabled : BOOLEAN, port : Ports]
  /\ place \in [Pids -> Places] /\ port \in [Pids -> Ports] /\ saves \in [Pids -> BOOLEAN]
  /\ ended \subseteq {"self", "ours", "other"} /\ turnedOff \in BOOLEAN
  /\ \A p \in Pids : place[p] # "none" <=> process[p] = "ours"
  /\ \A n \in Ports : holder[n] # None => process[holder[n]] # "none"

Init ==
  /\ process = [p \in Pids |-> "none"]
  /\ holder = [n \in Ports |-> None] /\ record = None
  /\ setting = [enabled |-> FALSE, port |-> DefaultPort]
  /\ place = [p \in Pids |-> "none"]
  /\ port = [p \in Pids |-> DefaultPort] /\ saves = [p \in Pids |-> FALSE]
  /\ ended = {} /\ turnedOff = FALSE

Goto(p, where) == place' = [place EXCEPT ![p] = where]
Serves(p) == holder[port[p]] = p
files == <<record, setting>>
history == <<ended, turnedOff>>

\* The system closes what a process that is gone had open; what a LabRemote had
\* in its memory is gone with it.
Dies(p) ==
  /\ process' = [process EXCEPT ![p] = "none"]
  /\ port' = [port EXCEPT ![p] = DefaultPort] /\ saves' = [saves EXCEPT ![p] = FALSE]
  /\ holder' = [n \in Ports |-> IF holder[n] = p THEN None ELSE holder[n]]

-----------------------------------------------------------------------------
(* Processes                                                               *)

Launch(p) ==
  /\ process[p] = "none"
  /\ process' = [process EXCEPT ![p] = "ours"]
  /\ Goto(p, "restoring")
  /\ UNCHANGED <<holder, files, port, saves, history>>

\* Another program begins, and may take a port.
OtherBegins(p) ==
  /\ process[p] = "none"
  /\ process' = [process EXCEPT ![p] = "other"]
  /\ \/ \E n \in Ports : holder[n] = None /\ holder' = [holder EXCEPT ![n] = p]
     \/ UNCHANGED holder
  /\ UNCHANGED <<files, place, port, saves, history>>

OtherEnds(p) ==
  /\ process[p] = "other"
  /\ Dies(p)
  /\ UNCHANGED <<files, place, history>>

\* Killed, or the machine loses power: neither record nor setting is touched.
Crash(p) ==
  /\ process[p] = "ours"
  /\ Dies(p) /\ Goto(p, "none")
  /\ UNCHANGED <<files, history>>

-----------------------------------------------------------------------------
(* Starting                                                                *)

\* startup: what was on when it was saved last is started again.
Restore(p) ==
  /\ place[p] = "restoring"
  /\ Goto(p, IF setting.enabled THEN "listen" ELSE "idle")
  /\ port' = [port EXCEPT ![p] = IF setting.enabled THEN setting.port ELSE @]
  /\ saves' = [saves EXCEPT ![p] = FALSE]
  /\ UNCHANGED <<process, holder, files, history>>

StartMCP(p, n) ==
  /\ place[p] = "idle" /\ ~Serves(p)
  /\ Goto(p, "listen")
  /\ port' = [port EXCEPT ![p] = n]
  /\ saves' = [saves EXCEPT ![p] = TRUE]
  /\ UNCHANGED <<process, holder, files, history>>

Listens(p) ==
  /\ place[p] \in {"listen", "retry"} /\ holder[port[p]] = None
  /\ holder' = [holder EXCEPT ![port[p]] = p]
  /\ Goto(p, "record")
  /\ UNCHANGED <<process, files, port, saves, history>>

InUse(p) ==
  /\ place[p] = "listen" /\ holder[port[p]] # None
  /\ Goto(p, "reclaim")
  /\ UNCHANGED <<process, holder, files, port, saves, history>>

\* 30 attempts in 1.5 s.
RetriesFail(p) ==
  /\ place[p] = "retry" /\ holder[port[p]] # None
  /\ Goto(p, "idle")
  /\ UNCHANGED <<process, holder, files, port, saves, history>>

Named(p) ==
  /\ record # None
  /\ record[2] = port[p] /\ record[1] # p

\* A bug: the record is believed whatever runs under the id now.
BelievesRecord(p) == Named(p) /\ process[record[1]] # "none"

\* The record is about this port and about another process, and a LabRemote
\* runs under its id (processMatchesOwner).
ProcessMatches(p) == Named(p) /\ process[record[1]] = "ours"

\* terminateProcess, after the look at the image: the id is not given away in
\* the moment between.
Terminate(p, q) ==
  /\ Dies(q)
  /\ place' = [place EXCEPT ![q] = "none", ![p] = IF p = q THEN "none" ELSE "wait"]
  /\ ended' = ended \cup {IF p = q THEN "self" ELSE process[q]}

\* reclaimPort asks the record first.
ReclaimByRecord(p) ==
  /\ place[p] = "reclaim" /\ ProcessMatches(p)
  /\ Terminate(p, record[1])
  /\ UNCHANGED <<files, turnedOff>>

RecordIsNoHelp(p) ==
  /\ place[p] = "reclaim"
  /\ Goto(p, "lookup")   \* also when the system refuses to end the process
  /\ UNCHANGED <<process, holder, files, port, saves, history>>

\* findLabRemoteProcessByPort.
ReclaimByPort(p) ==
  LET q == holder[port[p]] IN
  /\ place[p] = "lookup" /\ q # None
  /\ process[q] = "ours" /\ q # p
  /\ Terminate(p, q)
  /\ UNCHANGED <<files, turnedOff>>

\* Nobody, or somebody else, or the system refuses: MCP_BUSY.
CannotReclaim(p) ==
  /\ place[p] = "lookup"
  /\ Goto(p, "idle")
  /\ UNCHANGED <<process, holder, files, port, saves, history>>

\* waitForPortAvailable.
PortAvailable(p) ==
  /\ place[p] = "wait" /\ holder[port[p]] = None
  /\ Goto(p, "retry")
  /\ UNCHANGED <<process, holder, files, port, saves, history>>

\* Errors of the write are ignored.
WriteRecord(p) ==
  /\ place[p] = "record"
  /\ record' \in {record, <<p, port[p]>>}
  /\ Goto(p, IF saves[p] THEN "saveOn" ELSE "idle")
  /\ saves' = [saves EXCEPT ![p] = FALSE]
  /\ UNCHANGED <<process, holder, setting, port, history>>

SaveOn(p) ==
  /\ place[p] = "saveOn"
  /\ \/ setting' = [enabled |-> TRUE, port |-> port[p]] /\ turnedOff' = FALSE
     \/ UNCHANGED <<setting, turnedOff>>   \* the disk refuses, the user is told
  /\ Goto(p, "idle")
  /\ UNCHANGED <<process, holder, record, port, saves, ended>>

-----------------------------------------------------------------------------
(* Stopping                                                                *)

\* Shutdown closes the listener before it waits for the handlers.
BeginStop(p, where) ==
  /\ place[p] = "idle" /\ Serves(p)
  /\ holder' = [holder EXCEPT ![port[p]] = None]
  /\ Goto(p, where)
  /\ UNCHANGED <<process, files, port, saves, history>>

StopMCP(p) == BeginStop(p, "draining")
\* shutdown: the setting stays as it is.
Quit(p) == BeginStop(p, "quitting")

Drained(p) ==
  /\ place[p] = "draining"
  /\ Goto(p, "forget")
  /\ UNCHANGED <<process, holder, files, port, saves, history>>

\* A handler works for longer than 10 s: Stop goes on and returns the error.
DrainTimesOut(p) ==
  /\ place[p] = "draining"
  /\ Goto(p, "forgetForced")
  /\ UNCHANGED <<process, holder, files, port, saves, history>>

OwnRecord(p) == record = <<p, port[p]>>

RemoveRecord(p) ==
  /\ place[p] \in {"forget", "forgetForced", "quitting"}
  /\ record' = IF OwnRecord(p) THEN None ELSE record
  /\ CASE place[p] = "forget" -> Goto(p, "saveOff") /\ UNCHANGED <<process, holder, port, saves, turnedOff>>
       \* StopMCP returns the error before it comes to the setting.
       [] place[p] = "forgetForced" ->
            Goto(p, "idle") /\ turnedOff' = TRUE /\ UNCHANGED <<process, holder, port, saves>>
       [] place[p] = "quitting" -> Goto(p, "none") /\ Dies(p) /\ UNCHANGED turnedOff
  /\ UNCHANGED <<setting, ended>>

SaveOff(p) ==
  /\ place[p] = "saveOff"
  /\ \/ setting' = [setting EXCEPT !.enabled = FALSE] /\ turnedOff' = TRUE
     \/ UNCHANGED <<setting, turnedOff>>   \* the disk refuses, the user is told
  /\ Goto(p, "idle")
  /\ UNCHANGED <<process, holder, record, port, saves, ended>>

-----------------------------------------------------------------------------
Next == \E p \in Pids :
  \/ Launch(p) \/ OtherBegins(p) \/ OtherEnds(p) \/ Crash(p)
  \/ Restore(p) \/ \E n \in Ports : StartMCP(p, n)
  \/ Listens(p) \/ InUse(p) \/ RetriesFail(p)
  \/ ReclaimByRecord(p) \/ RecordIsNoHelp(p) \/ ReclaimByPort(p) \/ CannotReclaim(p)
  \/ PortAvailable(p) \/ WriteRecord(p) \/ SaveOn(p)
  \/ StopMCP(p) \/ Quit(p) \/ Drained(p) \/ DrainTimesOut(p) \/ RemoveRecord(p) \/ SaveOff(p)

Spec == Init /\ [][Next]_vars

-----------------------------------------------------------------------------
(* Properties                                                              *)

\* Whoever holds the port, and whatever has become of the id that a record of an
\* earlier run names, recovery ends other LabRemotes only, no other program and
\* not itself ("once it is confirmed to be an instance of LabRemote itself it is
\* ended by force", CHANGELOG.md:31).
RecoverySparesOthers == ended \subseteq {"ours"}

\* "If it was left on, LabRemote tries to restore the MCP service at the next
\* start" (docs/MCP guide, line 58): one that was stopped stays off.
StoppedStaysOff == turnedOff => ~setting.enabled
=============================================================================
