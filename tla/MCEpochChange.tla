---------------------------- MODULE MCEpochChange ----------------------------
(***************************************************************************)
(* Two shards with an account each and up to three maps, so that maps can  *)
(* overtake each other and confirmations of different maps meet.  Two      *)
(* pending transactions: a second half whose recipient, named twice, is    *)
(* one of the accounts, and a payment from the other account to it.        *)
(***************************************************************************)
EXTENDS EpochChange, TLC

CONSTANTS S1, S2, a, b, c

TwoHomes == a :> S1 @@ c :> S2
Both == {[payer |-> b, recipients |-> <<a, a>>, relay |-> TRUE],
         [payer |-> c, recipients |-> <<a>>, relay |-> FALSE]}
=============================================================================
