---------------------------- MODULE MCConnection ----------------------------
(***************************************************************************)
(* A TLC instance of Connection: three calls of TcpDial, two of them to    *)
(* the same address, with messages of different lengths.                   *)
(***************************************************************************)
EXTENDS Connection

CONSTANTS g1, g2, g3, a1, a2

ToOneAndTwo == g1 :> a1 @@ g2 :> a1 @@ g3 :> a2
Contents    == g1 :> <<1>> @@ g2 :> <<9, 8>> @@ g3 :> <<7, 7, 7>>
=============================================================================
