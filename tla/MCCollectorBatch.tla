-------------------------- MODULE MCCollectorBatch --------------------------
(***************************************************************************)
(* CollectorBatch with two search workers over a few attempts.             *)
(***************************************************************************)
EXTENDS CollectorBatch
=============================================================================
