---------------------------- MODULE MCCompletions ----------------------------
(* Model checking instances of Completions.  Calls are interchangeable and *)
(* so are request ids.                                                     *)
EXTENDS Completions, TLC

Symmetry == Permutations(Requests) \cup Permutations(RequestIds)
=============================================================================
