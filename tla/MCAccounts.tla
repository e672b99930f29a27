----------------------------- MODULE MCAccounts -----------------------------
(* Small instances of Accounts. *)
EXTENDS Accounts, TLC

Doc(word, crns) == [term |-> "fall", name |-> <<word, 1>>, crns |-> crns]
MCSections == {<<"fall", 1>>, <<"fall", 2>>}
Guest(i, doc) == [client |-> i, doc |-> doc, items |-> 1]
Old == [Doc("a", {}) EXCEPT !.term = "old"]
MCDocuments == {Doc("a", {1}), Doc("b", {2}), Old}
\* Two of one name; one of a term not held and one beyond the limit; a
\* schedule and a collection of more items than a claim takes.
MCGuests == {[schedules |-> <<Guest(1, Doc("a", {1})), Guest(2, Doc("a", {1}))>>,
              courses |-> {"c"}, cleared |-> FALSE],
             [schedules |-> <<Guest(1, Old), Guest(2, Doc("b", {2})), Guest(3, Doc("a", {1}))>>,
              courses |-> {}, cleared |-> FALSE],
             [schedules |-> <<[Guest(1, Doc("a", {1})) EXCEPT !.items = 2], Guest(2, Doc("b", {2}))>>,
              courses |-> {"c", "d"}, cleared |-> FALSE]}
MCQuotas == {[requests |-> 4, library |-> 0], [requests |-> 2, library |-> 2],
             [requests |-> 1, library |-> 3]}
MCNames == {<<"Favorites", 1>>, <<"Favorites", 2>>}
Sym == Permutations(Requests)
=============================================================================
