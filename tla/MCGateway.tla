------------------------------ MODULE MCGateway ------------------------------
(* Instances of Gateway for TLC: one served model with the static adapter  *)
(* s1, the adapter k1 that is only registered, and calls of one client.    *)
EXTENDS Gateway

CONSTANTS k1, s1, base, repoA, repoB, g1, r1, r2, c1, c2, client

MCBaseOf == [k \in Keys |-> base]
MCStatic == [b \in Bases |-> <<[key |-> s1, repo |-> repoB]>>]
MCClientOf == [c \in Calls |-> client]
=============================================================================
