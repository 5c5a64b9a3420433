---------------------------- MODULE SshRuntimeMC ----------------------------
(* SshRuntime on small instances: callers and transports as model values. *)
EXTENDS SshRuntime, TLC

Symmetry == Permutations(Callers) \cup Permutations(Clients)
=============================================================================
