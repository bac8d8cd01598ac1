------------------------------- MODULE Paging -------------------------------
(***************************************************************************)
(* Pages of a query that orders documents by their date, the latest first. *)
(* A document is its date, a positive number.                              *)
(***************************************************************************)
EXTENDS Integers, SequencesExt, FiniteSetsExt

\* The numbers of a set, smallest first.
Ascending(S) == [k \in 1 .. Cardinality(S) |->
                    CHOOSE x \in S : Cardinality({y \in S : y <= x}) = k]

\* A page of at most n.
Newest(S, n) ==
    LET size == Cardinality(S)
    IN  [k \in 1 .. (IF size < n THEN size ELSE n) |-> Ascending(S)[size + 1 - k]]

\* What a list keeps of a set that is taken out.
Without(l, gone) ==
    LET places == Ascending({i \in DOMAIN l : l[i] \notin gone})
    IN  [k \in DOMAIN places |-> l[places[k]]]
=============================================================================
