------------------------------ MODULE Lists ------------------------------
(* The array idioms the controllers share. *)
EXTENDS Integers, FiniteSets, SequencesExt

\* The largest of a non-empty set of positions.
Latest(P) == CHOOSE i \in P : \A j \in P : j <= i

\* The positions of x.
Positions(list, x) == {i \in DOMAIN list : list[i] = x}

\* How often a list names x.
Occurrences(list, x) == Cardinality(Positions(list, x))

\* A slip in RemoveLast: the index found in the loop is dropped.
RemoveAtZero(list, x) == Tail(list)

\* `var index = 0; for (i, el) in list.enumerated() { if el == x {index = i} }`
\* then remove(at: index): the last match goes, or the first element if there
\* is none.  Not to be used on an empty list, where Swift traps.
RemoveLast(list, x) ==
    RemoveAt(list, IF Positions(list, x) = {}
                   THEN 1 ELSE Latest(Positions(list, x)))
==========================================================================
