------------------------------- MODULE Orders -------------------------------
(***************************************************************************)
(* Lists the store and the parsers make: the rows of a set by a key, and    *)
(* the members of a list that are kept, pushed one after the other.         *)
(***************************************************************************)
EXTENDS Naturals, Sequences, FiniteSets

(* A finite set as a list, by keys that differ: `order by'. *)
InOrder(S, key) ==
    [n \in 1..Cardinality(S) |-> CHOOSE x \in S :
        n \in (Cardinality({y \in S : key[y] < key[x]}) + 1)..Cardinality({y \in S : key[y] <= key[x]})]
Ascending(S) == InOrder(S, [x \in S |-> x])
(* The members of a list at some of its places. *)
Chosen(list, places) == LET order == Ascending(places) IN [n \in DOMAIN order |-> list[order[n]]]

(* The sum of a list of numbers. *)
Total(list) ==
    LET total[k \in 0 .. Len(list)] == IF k = 0 THEN 0 ELSE total[k - 1] + list[k]
    IN  total[Len(list)]
=============================================================================
