---------------------------- MODULE MCScanQueue ----------------------------
(* ScanQueue on small sets of jobs, networks and concurrent calls. *)
EXTENDS ScanQueue, TLC

\* Jobs, networks and calls are interchangeable; used for safety only.
Symmetry == Permutations(Jobs) \cup Permutations(Networks) \cup Permutations(Requests)
=============================================================================
