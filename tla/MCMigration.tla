----------------------------- MODULE MCMigration -----------------------------
(***************************************************************************)
(* Instances of Migration for TLC.                                         *)
(***************************************************************************)
EXTENDS MigrationRefinement

CONSTANTS s0, s1, s2, a0, a1

\* The address hash puts every account on s0.
GenesisTogether == [a \in Accounts |-> s0]

\* A block's transactions may pay one unit, do nothing, or receive two: no
\* change of a balance cancels another by accident.
PaysAndReceipts == {-1, 0, 2}
=============================================================================
