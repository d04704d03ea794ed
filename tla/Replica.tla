------------------------------ MODULE Replica -------------------------------
(***************************************************************************)
(* What the Wikidata pipeline promises its readers, without feed, dirty    *)
(* set or batches: every item of the copy is some version of the item of   *)
(* the source, or a part of one while it is being replaced; it never goes  *)
(* back to an older version; and once the source is left alone, the copy   *)
(* becomes equal to it and stays so.                                       *)
(***************************************************************************)
EXTENDS Integers

CONSTANT Item

VARIABLES
  source,  \* source[e]: the current version of e
  copy     \* copy[e]: the version the copy holds, and whether it is whole

replicaVars == <<source, copy>>

Init ==
  /\ source = [e \in Item |-> 0]
  /\ copy = [e \in Item |-> [rev |-> 0, whole |-> TRUE]]

Change(e) ==
  /\ source'[e] \in Nat /\ source'[e] > source[e]
  /\ source' = [source EXCEPT ![e] = source'[e]]
  /\ UNCHANGED copy

\* Part or all of a version between the one held and the current one.
Load(e, r, whole) ==
  /\ r \in copy[e].rev..source[e]
  /\ copy' = [copy EXCEPT ![e] = [rev |-> r, whole |-> whole]]
  /\ UNCHANGED source

Sync(e) == copy[e] # [rev |-> source[e], whole |-> TRUE] /\ Load(e, source[e], TRUE)

Next ==
  \E e \in Item :
    \/ Change(e)
    \/ \E r \in copy[e].rev..source[e], whole \in BOOLEAN : Load(e, r, whole)

Safe == Init /\ [][Next]_replicaVars

Spec == Safe /\ \A e \in Item : WF_replicaVars(Sync(e))
=============================================================================
