---------------------------- MODULE MCOnlineTTT -----------------------------
(***************************************************************************)
(* OnlineTTT with a root and one more node.                                *)
(***************************************************************************)
EXTENDS OnlineTTT
=============================================================================
