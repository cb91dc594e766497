--------------------------- MODULE MCOnlineBatch ----------------------------
(***************************************************************************)
(* OnlineBatch with three entries on two places.                           *)
(***************************************************************************)
EXTENDS OnlineBatch
=============================================================================
