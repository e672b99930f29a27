----------------------------- MODULE MCListings -----------------------------
(* Listings on a small instance: three crns in two subjects, which stand   *)
(* for seven sections, so that a run may lose one of them but not five.    *)
EXTENDS Listings

CONSTANTS a, b, a1, a2, b1

MCSubjects  == {a, b}
MCCrns      == {a1, a2, b1}
MCSubjectOf == [c \in MCCrns |-> IF c = b1 THEN b ELSE a]
MCWeight    == [c \in MCCrns |-> IF c = a1 THEN 5 ELSE 1]
=============================================================================
