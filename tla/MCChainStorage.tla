--------------------------- MODULE MCChainStorage ---------------------------
(***************************************************************************)
(* Block storage and restart for TLC.                                      *)
(***************************************************************************)
EXTENDS ChainStorage
=============================================================================
