----------------------------- MODULE McpServerMC -----------------------------
(* The MCP server on small instances: what it does while it runs            *)
(* (McpController, extended), and how programs and restarts share its port  *)
(* and its settings (McpLifetime).  They share nothing: a behaviour follows *)
(* one of them, and leaves the variables of the other as they are.          *)
EXTENDS McpController, TLC

CONSTANTS Pids, Ports, DefaultPort

VARIABLES path, process, holder, record, setting, place, port, saves, reclaimed, turnedOff

Lifetime == INSTANCE McpLifetime WITH ended <- reclaimed

ASSUME MCAssumption == Lifetime!LifetimeAssumption

lifetimeVars == <<process, holder, record, setting, place, port, saves, reclaimed, turnedOff>>
allVars == <<path, vars, lifetimeVars>>

MCInit ==
  /\ path \in {"server", "lifetime"}
  /\ Init /\ Lifetime!Init

MCNext ==
  \/ path = "server" /\ Next /\ UNCHANGED <<path, lifetimeVars>>
  \/ path = "lifetime" /\ Lifetime!Next /\ UNCHANGED <<path, vars>>

\* An administrator is idle all along where the other path was chosen.
MCSpec == MCInit /\ [][MCNext]_allVars /\ Fairness

-----------------------------------------------------------------------------
\* Every variable of both parts has its type.
AllTyped == TypeOK /\ Lifetime!TypeOK

\* McpLifetime!RecoverySparesOthers: a start that finds its port taken ends other
\* LabRemotes only, whatever has become of the id in the record.
RecoverySparesOthers == Lifetime!RecoverySparesOthers

\* McpLifetime!StoppedStaysOff: a server that was stopped is not restored.
StoppedStaysOff == Lifetime!StoppedStaysOff
=============================================================================
