----------------------------- MODULE MCInstance -----------------------------
(* Instance with two setup calls, a restore and the worker's poll. *)
EXTENDS Instance, TLC

Symmetry == Permutations(Setups) \cup Permutations(Names)
=============================================================================
