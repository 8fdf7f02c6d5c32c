---------------------------- MODULE MCThreadPool ----------------------------
(* ThreadPool for TLC: workers and requests of one kind are interchangeable. *)
EXTENDS ThreadPool, TLC

Symmetry ==
  Permutations(Workers) \cup Permutations(FastReqs) \cup Permutations(SlowReqs)
=============================================================================
