------------------------------ MODULE OrderedRows ------------------------------
(***************************************************************************)
(* The rows of an answer in order, as ORDER BY and LIMIT give them to the  *)
(* contract pages and sort() to the search for regions: every row has a    *)
(* key, a sequence of integers, and no two rows have the same key.         *)
(***************************************************************************)
EXTENDS Integers, FiniteSets, FiniteSetsExt

KeyLess(s, t) == \E i \in DOMAIN s : s[i] < t[i] /\ \A j \in 1..(i - 1) : s[j] = t[j]

\* The first rows by their keys.
Top(key, limit) ==
  LET before(r) == {s \in DOMAIN key : KeyLess(key[s], key[r])}
  IN  [i \in 1..Min({limit, Cardinality(DOMAIN key)}) |->
         CHOOSE r \in DOMAIN key : Cardinality(before(r)) = i - 1]

\* A record with the fields of another one, which win.
With(fields, r) ==
  [x \in DOMAIN fields \union DOMAIN r |-> IF x \in DOMAIN fields THEN fields[x] ELSE r[x]]
=============================================================================
