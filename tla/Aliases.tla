------------------------------ MODULE Aliases ------------------------------
(***************************************************************************)
(* course_aliases: cross-listed codes and the code each of them stands for. *)
(* Three writers bring groups of codes: the catalog job, a replay of its    *)
(* pages, and a reviewer's approval.  Each is alone only under its own job  *)
(* lock, so their transactions overlap.  A transaction inserts its rows one *)
(* statement at a time and then flattens chains until a statement changes   *)
(* nothing.  A statement reads what was committed when it began, waits for  *)
(* rows another transaction has written, and then looks again only at the   *)
(* row it waited for (READ COMMITTED).  Codes are numbers: their order is   *)
(* the order of CourseCode.                                                 *)
(***************************************************************************)
EXTENDS Naturals, Sequences

CONSTANTS Codes, Writers
ASSUME CodesAssumption == Codes \subseteq Nat

VARIABLES canon,     \* committed: alias -> canonical
          txn,       \* the open transaction of each writer
          settled    \* history: the last commit saw every commit before it
aliasVars == <<canon, txn, settled>>

NoRows == [c \in {} |-> 0]
Closed == [pc |-> "idle", groups |-> <<>>, own |-> NoRows, seen |-> NoRows, current |-> FALSE]
AliasInit == canon = NoRows /\ txn = [w \in Writers |-> Closed] /\ settled = TRUE
-----------------------------------------------------------------------------
(* A group's codes in order: the least is canonical, the next is written.   *)
Others(group) == {c \in group : \E d \in group : d < c}
Least(group)  == {d \in group : \A c \in group : d <= c}
(* Committed rows under the transaction's own. *)
View(table, own) == [c \in DOMAIN table \cup DOMAIN own |-> IF c \in DOMAIN own THEN own[c] ELSE table[c]]
Chained(view) == {c \in DOMAIN view : view[c] \in DOMAIN view /\ view[view[c]] # c}
Wants(t) == CASE t.pc = "write" /\ t.groups # <<>> -> Least(Others(Head(t.groups)))
              [] t.pc = "waiting" -> Chained(t.seen)
              [] OTHER -> {}
Holders(w) == {v \in Writers \ {w} : Wants(txn[w]) \cap DOMAIN txn[v].own # {}}

Open(w, groups) ==
    /\ txn[w].pc = "idle"
    /\ txn' = [txn EXCEPT ![w] = [Closed EXCEPT !.pc = "write", !.groups = groups]]
    /\ UNCHANGED <<canon, settled>>
WriteMember(w) ==
    LET t == txn[w]
        group == Head(t.groups)
    IN  /\ t.pc = "write" /\ t.groups # <<>> /\ Holders(w) = {}
        /\ \E member \in Least(Others(group)), canonical \in Least(group) :
             txn' = [txn EXCEPT ![w] =
                        [t EXCEPT !.groups = <<group \ {member}>> \o Tail(@),
                                  !.own = [c \in DOMAIN t.own \cup {member} |->
                                              IF c = member THEN canonical ELSE t.own[c]]]]
        /\ UNCHANGED <<canon, settled>>
EndGroup(w) ==
    LET t == txn[w]
    IN  /\ t.pc = "write"
        /\ t.groups # <<>> => Others(Head(t.groups)) = {}
        /\ txn' = [txn EXCEPT ![w] = IF t.groups = <<>> THEN [t EXCEPT !.pc = "flatten"]
                                      ELSE [t EXCEPT !.groups = Tail(@)]]
        /\ UNCHANGED <<canon, settled>>
(* flatten_aliases: one update statement, from its snapshot to its last row. *)
FlattenStart(w) ==
    /\ txn[w].pc = "flatten"
    /\ txn' = [txn EXCEPT ![w] = [@ EXCEPT !.pc = "waiting", !.seen = View(canon, txn[w].own), !.current = TRUE]]
    /\ UNCHANGED <<canon, settled>>
Repointed(t) == {c \in Chained(t.seen) : View(canon, t.own)[c] = t.seen[c]}
FlattenOnce(w) ==          \* mutant: one pass over the chains is taken for all
    LET t == txn[w]
    IN  /\ t.pc = "waiting" /\ Holders(w) = {}
        /\ txn' = [txn EXCEPT ![w] =
                      [t EXCEPT !.pc = "commit", !.seen = NoRows,
                                !.own = [c \in DOMAIN t.own \cup Repointed(t) |->
                                            IF c \in Repointed(t) THEN t.seen[t.seen[c]] ELSE t.own[c]]]]
        /\ UNCHANGED <<canon, settled>>
FlattenEnd(w) ==
    LET t == txn[w]
    IN  /\ t.pc = "waiting" /\ Holders(w) = {}
        /\ txn' = [txn EXCEPT ![w] =
                      [t EXCEPT !.pc = IF Repointed(t) = {} THEN "commit" ELSE "flatten",
                                !.own = [c \in DOMAIN t.own \cup Repointed(t) |->
                                            IF c \in Repointed(t) THEN t.seen[t.seen[c]] ELSE t.own[c]],
                                !.seen = NoRows]]
        /\ UNCHANGED <<canon, settled>>
Commit(w) ==
    /\ txn[w].pc = "commit"
    /\ canon' = View(canon, txn[w].own)
    /\ settled' = txn[w].current
    /\ txn' = [v \in Writers |-> IF v = w THEN Closed ELSE [txn[v] EXCEPT !.current = FALSE]]
(* The process stops, or two transactions wait for each other's rows and    *)
(* the database ends one: nothing it wrote is kept.                         *)
Abort(w) ==
    /\ txn[w].pc # "idle"
    /\ txn' = [txn EXCEPT ![w] = Closed]
    /\ UNCHANGED <<canon, settled>>
AliasStep(w) == WriteMember(w) \/ EndGroup(w) \/ FlattenStart(w) \/ FlattenEnd(w) \/ Commit(w) \/ Abort(w)
AliasNext == \E w \in Writers : AliasStep(w) \/ \E groups \in Seq(SUBSET Codes) : Open(w, groups)
AliasSpec == AliasInit /\ [][AliasNext]_aliasVars
-----------------------------------------------------------------------------
AliasTypeOK ==
    /\ DOMAIN canon \subseteq Codes /\ \A c \in DOMAIN canon : canon[c] \in Codes
    /\ \A w \in Writers : /\ txn[w].pc \in {"idle", "write", "flatten", "waiting", "commit"}
                          /\ DOMAIN txn[w].own \subseteq Codes
    /\ settled \in BOOLEAN

(* Every alias is larger than the code it stands for, so a reader who       *)
(* follows aliases ends; and one look-up is enough (no canonical code is an *)
(* alias, which the plan bundle and the engine rely on) whenever the last   *)
(* transaction to commit had seen all that committed before it.  The rows   *)
(* are well typed.                                                          *)
Descends(rows) == \A c \in DOMAIN rows : rows[c] < c
AliasesResolve == AliasTypeOK /\ Descends(canon) /\ (settled => Chained(canon) = {})
=============================================================================
