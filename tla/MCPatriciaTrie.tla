---------------------------- MODULE MCPatriciaTrie ----------------------------
(***************************************************************************)
(* An instance of PatriciaTrie for TLC.                                    *)
(***************************************************************************)
EXTENDS PatriciaTrie

\* Addresses have one length, here two bytes.  These share up to three nibbles,
\* three of them exactly one, so that every kind of split and collapse happens.
Addresses == {<<0, 0, 0, 0>>, <<0, 0, 0, 1>>, <<0, 0, 1, 2>>, <<0, 1, 0, 0>>, <<0, 2, 0, 0>>,
              <<1, 0, 0, 0>>, <<1, 0, 0, 2>>}
=============================================================================
