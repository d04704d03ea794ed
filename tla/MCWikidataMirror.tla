-------------------------- MODULE MCWikidataMirror --------------------------
(***************************************************************************)
(* Small instances of WikidataMirror for TLC.                              *)
(***************************************************************************)
EXTENDS WikidataMirrorInv

\* Revisions made of two chunks and of one alternate; revision 2 keeps no
\* triple after the filter.
MCChunks == [r \in 0..MaxEvents |-> IF r = 2 THEN 0 ELSE 1 + (r % 2)]
=============================================================================
