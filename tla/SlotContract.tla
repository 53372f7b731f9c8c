--------------------------- MODULE SlotContract ---------------------------
(***************************************************************************)
(* The one fact about a round of admission that the sync around it relies on. *)
(***************************************************************************)
EXTENDS Integers, FiniteSets

\* Every slot is of an address that was listed, and there are no more of them than
\* the limit allows or than there were: a lowered limit evicts no one by itself.
Fits(n, old, limit) == limit = 0 \/ n <= limit \/ n <= Cardinality(old)
Admitted(old, seen, limit) == {new \in SUBSET seen : Fits(Cardinality(new), old, limit)}
=============================================================================
