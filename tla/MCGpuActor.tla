----------------------------- MODULE MCGpuActor -----------------------------
(* Three calls of submit and two of close for TLC.                         *)
EXTENDS GpuActor

CONSTANTS r1, r2, r3, c1, c2
=============================================================================
