---------------------------- MODULE MCTreeSearch ----------------------------
(* An instance of the tree search for TLC.                                 *)
EXTENDS TreeSearch, TLC

CONSTANTS ga, gb, gc, gd, t1, t2, cheat

StartA == <<ga>>

\* ga splits into gb and gc or turns into gb and gd, which share a metavariable;
\* gc leads back to ga; cheat makes the same split, splits gc again and closes gb
\* with a hole.
Table ==
    t1 :> (ga :> <<gb, gc>> @@ gb :> <<>> @@ gc :> <<ga>> @@ gd :> <<>>) @@
    t2 :> (ga :> <<gb, gd>> @@ gb :> <<gc>> @@ gc :> <<>> @@ gd :> None) @@
    cheat :> (ga :> <<gb, gc>> @@ gb :> <<>> @@ gc :> <<gb, gb>> @@ gd :> <<>>)
=============================================================================
