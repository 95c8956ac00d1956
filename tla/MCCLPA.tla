------------------------------- MODULE MCCLPA -------------------------------
(* CLPA for TLC: four accounts in three shards. *)
EXTENDS CLPA, TLC

CONSTANTS a, b, c, d

ThreeWay == (a :> 0) @@ (b :> 1) @@ (c :> 2) @@ (d :> 0)
=============================================================================
