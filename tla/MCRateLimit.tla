---------------------------- MODULE MCRateLimit ----------------------------
(* Instances of RateLimit for TLC: two requests in two seconds of two      *)
(* ticks, and a clock that runs for twice as long.                         *)
EXTENDS RateLimit
CONSTANTS tokenA, tokenB, hostA
=============================================================================
