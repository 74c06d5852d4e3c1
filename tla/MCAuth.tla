------------------------------- MODULE MCAuth -------------------------------
(* Instances of Auth for TLC: keys and secrets are interchangeable.        *)
EXTENDS Auth, TLC
Symmetry == Permutations(ApiKeys) \cup Permutations(Secrets)
=============================================================================
