--------------------------- MODULE TunnelRuntimeMC ---------------------------
(* TunnelRuntime on small instances: callers and links as model values. *)
EXTENDS TunnelRuntime, TLC

Symmetry == Permutations(Callers) \cup Permutations(Links)
=============================================================================
