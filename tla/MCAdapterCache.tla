--------------------------- MODULE MCAdapterCache ---------------------------
(* Instances of AdapterCache for TLC: one served model, adapters k1 and    *)
(* k2 that are only registered, and s1 that models.yaml lists.              *)
EXTENDS AdapterCache, TLC

CONSTANTS k1, k2, s1, base, repoA, repoB, g1, g2, r1, r2

MCBaseOf == [k \in Keys |-> base]
MCNoStatic == [b \in Bases |-> << >>]
(* The static adapter is listed twice: the later entry wins.               *)
MCStatic == [b \in Bases |-> <<[key |-> s1, repo |-> repoA], [key |-> s1, repo |-> repoA]>>]

(* Processes, adapters that are only registered, repositories and primary  *)
(* keys are interchangeable.                                               *)
MCSymmetry ==
  Permutations(Procs) \cup Permutations(Keys) \cup Permutations(Repos) \cup Permutations(Rids)
=============================================================================
