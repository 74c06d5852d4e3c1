----------------------------- MODULE MCGpuPoller -----------------------------
(* Instances of GpuPoller for TLC.                                         *)
EXTENDS GpuPoller, TLC
=============================================================================
