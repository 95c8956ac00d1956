------------------------------- MODULE MCPBFT -------------------------------
(* The three-phase protocol for TLC: the backups are interchangeable. *)
EXTENDS PBFT, TLC

Backups == Permutations(Nodes \ {N0})
=============================================================================
