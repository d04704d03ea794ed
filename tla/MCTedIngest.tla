---------------------------- MODULE MCTedIngest ----------------------------
(***************************************************************************)
(* A small instance of TedIngest for TLC.                                  *)
(***************************************************************************)
EXTENDS TedIngest

\* Every notice names the same buyer, one of them a supplier.
MCParents ==
  [n \in Notice |-> IF n \in Bad THEN <<"buyer">> ELSE <<"buyer", "supplier">>]
=============================================================================
