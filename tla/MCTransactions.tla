---------------------------- MODULE MCTransactions ----------------------------
(***************************************************************************)
(* An instance of Transactions for TLC: alice (on s0) and carol (on s1)    *)
(* pay bob (on s1), who moves to s2 while carol moves to s0.               *)
(***************************************************************************)
EXTENDS Transactions

CONSTANTS s0, s1, s2, alice, bob, carol, p1, p2

Placed == [x \in Accounts |-> IF x = alice THEN s0 ELSE s1]
BobAndCarolMove == {[addr |-> bob, from |-> s1, to |-> s2], [addr |-> carol, from |-> s1, to |-> s0]}
FromAliceAndCarol == [p \in Payments |-> IF p = p1 THEN alice ELSE carol]
AllToBob == [p \in Payments |-> bob]

\* The hypothesis of the theorems about payments holds here.
ASSUME InstanceMoversApart == MoversApart
=============================================================================
