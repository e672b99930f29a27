--------------------------- MODULE Ingest_proofs ---------------------------
(***************************************************************************)
(* Proofs about what the operator's jobs bring in: aliases resolve whoever  *)
(* writes them, a rule a student chose stays the rule it was whatever is    *)
(* published later, a published program is the page that was approved, a    *)
(* weekly run serves every section that was due, the seats poll is left     *)
(* alone, the pages of a search are pages of one result, an empty one       *)
(* suggests what would fill it, and the clashes shown are real.             *)
(***************************************************************************)
EXTENDS Ingest, Orders_proofs

-----------------------------------------------------------------------------
(* Aliases.  Whatever is interleaved, aborted or overtaken, aliases         *)
(* descend, and after a transaction that saw all others one look-up is      *)
(* enough, for any set of codes, any writers and any groups they bring.     *)

(* Rows of aliases that stand for smaller codes, and transactions of them.  *)
Rows == {rows \in UNION {[D -> Codes] : D \in SUBSET Codes} : Descends(rows)}
Txns == [pc : {"idle", "write", "flatten", "waiting", "commit"}, groups : Seq(SUBSET Codes),
         own : Rows, seen : Rows, current : BOOLEAN]
TypeInv == canon \in Rows /\ settled \in BOOLEAN /\ txn \in [Writers -> Txns]
(* While no other transaction commits, a statement's snapshot is the rows   *)
(* it works on, and the loop ends with no chain left among them.            *)
SeenInv(table, t) == /\ t.pc = "waiting" /\ t.current => t.seen = View(table, t.own)
                     /\ t.pc = "commit" /\ t.current => Chained(View(table, t.own)) = {}
IInv == /\ TypeInv /\ \A w \in Writers : SeenInv(canon, txn[w])
        /\ settled => Chained(canon) = {}
-----------------------------------------------------------------------------
(* How rows are built, and what is known of them.                           *)
LEMMA RowsIntro ==
    ASSUME NEW D \in SUBSET Codes, NEW rows \in [D -> Codes], \A c \in D : rows[c] < c
    PROVE  rows \in Rows
BY DEF Rows, Descends

LEMMA RowsElim ==
    ASSUME NEW rows \in Rows
    PROVE  /\ DOMAIN rows \subseteq Codes /\ rows \in [DOMAIN rows -> Codes]
           /\ \A c \in DOMAIN rows : rows[c] \in Codes /\ rows[c] < c
BY DEF Rows, Descends

(* The rows a transaction reads descend when its own and the table's do.    *)
LEMMA ViewIsRows == ASSUME NEW table \in Rows, NEW own \in Rows PROVE View(table, own) \in Rows
<1> DEFINE D == DOMAIN table \cup DOMAIN own
<1>1. D \in SUBSET Codes /\ View(table, own) \in [D -> Codes]
  BY RowsElim DEF View
<1>2. \A c \in D : View(table, own)[c] < c
  BY RowsElim DEF View
<1> QED  BY <1>1, <1>2, RowsIntro

LEMMA NoRowsIsRows == NoRows \in Rows
<1>1. NoRows \in [{} -> Codes]
  BY DEF NoRows
<1> QED  BY <1>1, RowsIntro

LEMMA ClosedIsTxn == Closed \in Txns
BY NoRowsIsRows DEF Txns, Closed

(* What a step of w must keep, when it touches no table.                    *)
LEMMA StepKeeps ==
    ASSUME IInv, NEW w \in Writers, txn' \in [Writers -> Txns],
           \A v \in Writers \ {w} : txn'[v] = txn[v],
           SeenInv(canon, txn'[w]), UNCHANGED <<canon, settled>>
    PROVE  IInv'
<1>1. TypeInv'
  BY DEF IInv, TypeInv
<1>2. \A v \in Writers : SeenInv(canon', txn'[v])
  BY DEF IInv
<1>3. settled' => Chained(canon') = {}
  BY DEF IInv
<1> QED  BY <1>1, <1>2, <1>3 DEF IInv

LEMMA OpenKeeps ==
    ASSUME IInv, NEW w \in Writers, NEW groups \in Seq(SUBSET Codes), Open(w, groups) PROVE IInv'
<1> DEFINE t == [Closed EXCEPT !.pc = "write", !.groups = groups]
<1>1. t \in Txns /\ t.pc = "write"
  BY ClosedIsTxn DEF Txns
<1>2. txn' = [txn EXCEPT ![w] = t] /\ UNCHANGED <<canon, settled>>
  BY DEF Open
<1>3. SeenInv(canon, t)
  BY <1>1 DEF SeenInv
<1> HIDE DEF t
<1> QED  BY <1>1, <1>2, <1>3, StepKeeps DEF IInv, TypeInv

(* A row that is written points from a code of its group to a smaller one.  *)
LEMMA WriteMemberKeeps == ASSUME IInv, NEW w \in Writers, WriteMember(w) PROVE IInv'
<1> DEFINE t == txn[w]
           group == Head(t.groups)
           Own(member, canonical) == [c \in DOMAIN t.own \cup {member} |->
                                        IF c = member THEN canonical ELSE t.own[c]]
           After(member, canonical) ==
              [t EXCEPT !.groups = <<group \ {member}>> \o Tail(@), !.own = Own(member, canonical)]
<1>1. t \in Txns /\ t.pc = "write" /\ t.groups # <<>> /\ t.own \in Rows
  BY DEF IInv, TypeInv, WriteMember, Txns
<1>2. group \in SUBSET Codes /\ Tail(t.groups) \in Seq(SUBSET Codes)
  BY <1>1 DEF Txns
<1>3. PICK member \in Least(Others(group)), canonical \in Least(group) :
         txn' = [txn EXCEPT ![w] = After(member, canonical)]
  BY DEF WriteMember
<1>4. member \in Codes /\ canonical \in Codes /\ canonical < member
  <2>1. member \in group /\ canonical \in group
    BY <1>3 DEF Least, Others
  <2>2. PICK d \in group : d < member
    BY <1>3 DEF Least, Others
  <2>3. canonical <= d
    BY <1>3, <2>2 DEF Least
  <2>4. member \in Nat /\ canonical \in Nat /\ d \in Nat /\ member \in Codes /\ canonical \in Codes
    BY <2>1, <2>2, <1>2, CodesAssumption
  <2> QED  BY <2>2, <2>3, <2>4
<1>5. Own(member, canonical) \in Rows
  <2> DEFINE D == DOMAIN t.own \cup {member}
  <2>1. D \in SUBSET Codes /\ Own(member, canonical) \in [D -> Codes]
    BY <1>1, <1>4, RowsElim
  <2>2. \A c \in D : Own(member, canonical)[c] < c
    BY <1>1, <1>4, RowsElim
  <2> HIDE DEF Own
  <2> QED  BY <2>1, <2>2, RowsIntro
<1>6. <<group \ {member}>> \o Tail(t.groups) \in Seq(SUBSET Codes)
  BY <1>2
<1>7. After(member, canonical) \in Txns /\ After(member, canonical).pc = "write"
  <2> HIDE DEF Own, group
  <2> QED  BY <1>1, <1>5, <1>6 DEF Txns
<1>8. SeenInv(canon, After(member, canonical))
  <2> HIDE DEF After
  <2> QED  BY <1>7 DEF SeenInv
<1>9. UNCHANGED <<canon, settled>>
  BY DEF WriteMember
<1> HIDE DEF After
<1> QED  BY <1>3, <1>7, <1>8, <1>9, StepKeeps DEF IInv, TypeInv

LEMMA EndGroupKeeps == ASSUME IInv, NEW w \in Writers, EndGroup(w) PROVE IInv'
<1> DEFINE t == txn[w]
           u == IF t.groups = <<>> THEN [t EXCEPT !.pc = "flatten"] ELSE [t EXCEPT !.groups = Tail(@)]
<1>1. t \in Txns /\ t.pc = "write"
  BY DEF IInv, TypeInv, EndGroup
<1>2. t.groups # <<>> => Tail(t.groups) \in Seq(SUBSET Codes)
  BY <1>1 DEF Txns
<1>3. u \in Txns /\ u.pc \in {"write", "flatten"}
  BY <1>1, <1>2 DEF Txns
<1>4. txn' = [txn EXCEPT ![w] = u] /\ UNCHANGED <<canon, settled>>
  BY DEF EndGroup
<1> HIDE DEF u
<1>5. SeenInv(canon, u)
  BY <1>3 DEF SeenInv
<1> QED  BY <1>3, <1>4, <1>5, StepKeeps DEF IInv, TypeInv

LEMMA FlattenStartKeeps == ASSUME IInv, NEW w \in Writers, FlattenStart(w) PROVE IInv'
<1> DEFINE t == txn[w]
           u == [t EXCEPT !.pc = "waiting", !.seen = View(canon, t.own), !.current = TRUE]
<1>1. t \in Txns /\ View(canon, t.own) \in Rows
  BY ViewIsRows DEF IInv, TypeInv, Txns
<1>2. u \in Txns /\ u.pc = "waiting" /\ u.seen = View(canon, u.own)
  BY <1>1 DEF Txns
<1>3. txn' = [txn EXCEPT ![w] = u] /\ UNCHANGED <<canon, settled>>
  BY DEF FlattenStart
<1> HIDE DEF u
<1>4. SeenInv(canon, u)
  BY <1>2 DEF SeenInv
<1> QED  BY <1>2, <1>3, <1>4, StepKeeps DEF IInv, TypeInv

(* A chain a > b > c makes a stand for c, which is smaller still; and a     *)
(* statement that repoints nothing has seen that there is no chain.         *)
LEMMA FlattenEndKeeps == ASSUME IInv, NEW w \in Writers, FlattenEnd(w) PROVE IInv'
<1> DEFINE t == txn[w]
           own == [c \in DOMAIN t.own \cup Repointed(t) |->
                     IF c \in Repointed(t) THEN t.seen[t.seen[c]] ELSE t.own[c]]
           u == [t EXCEPT !.pc = IF Repointed(t) = {} THEN "commit" ELSE "flatten",
                          !.own = own, !.seen = NoRows]
<1>1. t \in Txns /\ SeenInv(canon, t) /\ t.pc = "waiting" /\ t.own \in Rows /\ t.seen \in Rows
  BY DEF IInv, TypeInv, FlattenEnd, Txns
<1>2. \A c \in Repointed(t) : c \in Codes /\ t.seen[t.seen[c]] \in Codes /\ t.seen[t.seen[c]] < c
  <2> SUFFICES ASSUME NEW c \in Repointed(t)
               PROVE  c \in Codes /\ t.seen[t.seen[c]] \in Codes /\ t.seen[t.seen[c]] < c
    OBVIOUS
  <2>1. c \in DOMAIN t.seen /\ t.seen[c] \in DOMAIN t.seen
    BY DEF Repointed, Chained
  <2>2. /\ c \in Codes /\ t.seen[c] \in Codes /\ t.seen[t.seen[c]] \in Codes
        /\ t.seen[c] < c /\ t.seen[t.seen[c]] < t.seen[c]
    BY <1>1, <2>1, RowsElim
  <2>3. c \in Nat /\ t.seen[c] \in Nat /\ t.seen[t.seen[c]] \in Nat
    BY <2>2, CodesAssumption
  <2> HIDE DEF t
  <2> QED  BY <2>2, <2>3
<1>3. own \in Rows
  <2> DEFINE D == DOMAIN t.own \cup Repointed(t)
  <2>1. D \in SUBSET Codes /\ own \in [D -> Codes]
    BY <1>1, <1>2, RowsElim
  <2>2. \A c \in D : own[c] < c
    BY <1>1, <1>2, RowsElim
  <2> HIDE DEF own
  <2> QED  BY <2>1, <2>2, RowsIntro
<1>4. u \in Txns /\ u.own = own /\ u.current = t.current
      /\ u.pc = (IF Repointed(t) = {} THEN "commit" ELSE "flatten")
  <2> HIDE DEF own
  <2> QED  BY <1>1, <1>3, NoRowsIsRows DEF Txns
<1>5. txn' = [txn EXCEPT ![w] = u] /\ UNCHANGED <<canon, settled>>
  BY DEF FlattenEnd
<1>6. SeenInv(canon, u)
  <2> SUFFICES ASSUME Repointed(t) = {}, t.current PROVE Chained(View(canon, own)) = {}
    BY <1>4 DEF SeenInv
  <2>1. own = t.own
    BY <1>1, RowsElim
  <2>2. t.seen = View(canon, t.own)
    BY <1>1 DEF SeenInv
  <2>3. Repointed(t) = Chained(t.seen)
    BY <2>2 DEF Repointed
  <2> QED  BY <2>1, <2>2, <2>3
<1> HIDE DEF u
<1> QED  BY <1>4, <1>5, <1>6, StepKeeps DEF IInv, TypeInv

(* A commit publishes rows without a chain, when no other came between, and *)
(* makes every other transaction's snapshot old.                            *)
LEMMA CommitKeeps == ASSUME IInv, NEW w \in Writers, Commit(w) PROVE IInv'
<1> DEFINE After(v) == IF v = w THEN Closed ELSE [txn[v] EXCEPT !.current = FALSE]
<1>1. txn[w] \in Txns /\ SeenInv(canon, txn[w]) /\ View(canon, txn[w].own) \in Rows
  BY ViewIsRows DEF IInv, TypeInv, Txns
<1>2. \A v \in Writers : After(v) \in Txns /\ After(v).current = FALSE
  <2>1. \A v \in Writers : txn[v] \in Txns
    BY DEF IInv, TypeInv
  <2>2. \A t \in Txns : [t EXCEPT !.current = FALSE] \in Txns /\ [t EXCEPT !.current = FALSE].current = FALSE
    BY DEF Txns
  <2>3. Closed \in Txns /\ Closed.current = FALSE
    BY ClosedIsTxn DEF Closed
  <2> QED  BY <2>1, <2>2, <2>3
<1>3. txn' = [v \in Writers |-> After(v)]
  BY DEF Commit
<1> HIDE DEF After
<1>4. TypeInv'
  <2>1. canon' \in Rows /\ settled' \in BOOLEAN
    BY <1>1 DEF Commit, Txns
  <2> QED  BY <2>1, <1>2, <1>3 DEF TypeInv
<1>5. \A v \in Writers : SeenInv(canon', txn'[v])
  BY <1>2, <1>3 DEF SeenInv
<1>6. settled' => Chained(canon') = {}
  BY <1>1 DEF Commit, SeenInv
<1> QED  BY <1>4, <1>5, <1>6 DEF IInv

LEMMA AbortKeeps == ASSUME IInv, NEW w \in Writers, Abort(w) PROVE IInv'
<1>1. Closed \in Txns /\ SeenInv(canon, Closed)
  BY ClosedIsTxn DEF SeenInv, Closed
<1>2. txn' = [txn EXCEPT ![w] = Closed] /\ UNCHANGED <<canon, settled>>
  BY DEF Abort
<1> QED  BY <1>1, <1>2, StepKeeps DEF IInv, TypeInv
-----------------------------------------------------------------------------
(* The inductive invariant: own rows and snapshots descend, and a            *)
(* transaction that no commit overtook has no chain left when it commits.    *)
THEOREM AliasInvariantHolds == AliasSpec => []IInv
<1>1. AliasInit => IInv
  <2>1. AliasInit => TypeInv
    BY ClosedIsTxn, NoRowsIsRows DEF AliasInit, TypeInv
  <2>2. SeenInv(canon, Closed)
    BY DEF SeenInv, Closed
  <2>3. Chained(NoRows) = {}
    BY DEF Chained, NoRows
  <2> QED  BY <2>1, <2>2, <2>3 DEF AliasInit, IInv
<1>2. IInv /\ [AliasNext]_aliasVars => IInv'
  <2> SUFFICES ASSUME IInv, [AliasNext]_aliasVars PROVE IInv'
    OBVIOUS
  <2>1. CASE UNCHANGED aliasVars
    BY <2>1 DEF aliasVars, IInv, TypeInv
  <2>2. ASSUME NEW w \in Writers, NEW groups \in Seq(SUBSET Codes), Open(w, groups) PROVE IInv'
    BY <2>2, OpenKeeps
  <2>3. ASSUME NEW w \in Writers, AliasStep(w) PROVE IInv'
    BY <2>3, WriteMemberKeeps, EndGroupKeeps, FlattenStartKeeps, FlattenEndKeeps, CommitKeeps, AbortKeeps
       DEF AliasStep
  <2> QED  BY <2>1, <2>2, <2>3 DEF AliasNext
<1> QED  BY <1>1, <1>2, PTL DEF AliasSpec

(* Aliases descend and one look-up is enough (flatten_aliases: "every chain  *)
(* descends ...; afterwards no canonical is an alias"), for any codes,       *)
(* writers and groups.                                                       *)
THEOREM AliasesDoResolve == AliasSpec => []AliasesResolve
<1>1. IInv => AliasesResolve
  BY RowsElim DEF IInv, TypeInv, Txns, AliasesResolve, AliasTypeOK, Descends
<1> QED  BY <1>1, AliasInvariantHolds, PTL

-----------------------------------------------------------------------------
(* Rules and choices.  The id of a rule is minted from the decisions that   *)
(* are left, so a new one is not the id of any rule there is; a version     *)
(* lists the retired rules of its edition; a choice names a rule there is.  *)

RowShape(row) ==
  \E e, m, p, o, l, k, f, gone :
    /\ gone \in BOOLEAN
    /\ row = [edition |-> e, mark |-> m, retired |-> gone, parent |-> p, ordinal |-> o,
              label |-> l, kind |-> k, filter |-> f]
Minted(id) == \E n, path : id = <<n, path>> /\ n \in Nat /\ n > bound.decisions
BoundType == bound \in [index : SUBSET Editions, edits : Nat, runs : Nat, faults : Nat,
                        decisions : Nat, desks : Nat]

RuleInv ==
  /\ BoundType /\ versions = [e \in Editions |-> versions[e]]
  /\ \A id \in DOMAIN rules : RowShape(rules[id]) /\ Minted(id)
VersionInv == \A e \in Editions : Held(e) # {} => versions[e].retired = RetiredIn(rules, e)
ChoiceInv == choice # None => /\ choice.id \in DOMAIN rules /\ rules[choice.id].mark = choice.mark
                              /\ rules[choice.id].edition \in Editions
ProgramInv == RuleInv /\ VersionInv /\ ChoiceInv

\* A row that is retired, or left alone, is otherwise the row it was.
LEMMA RetireEffect ==
  ASSUME NEW row, NEW e, RowShape(row)
  PROVE  /\ RowShape(Retire(row, e)) /\ row.retired \in BOOLEAN
         /\ Retire(row, e).mark = row.mark /\ Retire(row, e).edition = row.edition
         /\ row.edition # e => Retire(row, e).retired = row.retired
<1>1. PICK f, m, p, o, l, k, w, gone :
        /\ gone \in BOOLEAN
        /\ row = [edition |-> f, mark |-> m, retired |-> gone, parent |-> p, ordinal |-> o,
                  label |-> l, kind |-> k, filter |-> w]
  BY DEF RowShape
<1>2. row.retired = gone /\ row.edition = f /\ row.mark = m
  BY <1>1
<1>. PICK now : now = (gone \/ f = e)
  OBVIOUS
<1>3. now \in BOOLEAN /\ (f # e => now = gone)
  BY <1>1
<1>4. Retire(row, e) = [edition |-> f, mark |-> m, retired |-> now, parent |-> p, ordinal |-> o,
                        label |-> l, kind |-> k, filter |-> w]
  BY <1>1, <1>2 DEF Retire
<1>5. RowShape(Retire(row, e))
  BY <1>3, <1>4 DEF RowShape
<1>. QED
  BY <1>1, <1>2, <1>3, <1>4, <1>5

\* The id a publish gives a rule is that of a rule of the edition with the
\* same fingerprint, or one no rule has.
LEMMA IdOfEffect ==
  ASSUME RuleInv, NEW e, NEW tree, NEW path
  PROVE  \/ /\ IdOf(e, tree, path) \in Held(e)
            /\ rules[IdOf(e, tree, path)].mark = Fingerprint(tree, path)
         \/ /\ IdOf(e, tree, path) = <<bound.decisions, path>>
            /\ IdOf(e, tree, path) \notin DOMAIN rules
<1>1. <<bound.decisions, path>> \notin DOMAIN rules
  <2>. SUFFICES ASSUME <<bound.decisions, path>> \in DOMAIN rules
                PROVE  FALSE
    OBVIOUS
  <2>1. PICK n, p : <<bound.decisions, path>> = <<n, p>> /\ n \in Nat /\ n > bound.decisions
    BY DEF RuleInv, Minted
  <2>2. n = bound.decisions
    BY <2>1
  <2>. QED
    BY <2>1, <2>2
<1>. DEFINE same == \E id \in Held(e) : rules[id].mark = Fingerprint(tree, path)
<1>2. CASE same
  BY <1>2 DEF IdOf
<1>3. CASE ~same
  BY <1>1, <1>3 DEF IdOf
<1>. QED
  BY <1>2, <1>3

\* What a publish does to the rows: no row is lost, none changes its
\* fingerprint or its edition, and the rules of other editions stay as retired
\* or as live as they were.
LEMMA WrittenEffect ==
  ASSUME RuleInv, NEW e, NEW tree, NEW rows, rows = Written(e, tree)
  PROVE  /\ DOMAIN rules \subseteq DOMAIN rows
         /\ \A id \in DOMAIN rows : RowShape(rows[id])
         /\ \A id \in DOMAIN rules :
              /\ rows[id].mark = rules[id].mark /\ rows[id].edition = rules[id].edition
              /\ rules[id].edition # e => rows[id].retired = rules[id].retired
         /\ \A id \in DOMAIN rows : id \notin DOMAIN rules =>
              rows[id].edition = e /\ \E path : id = <<bound.decisions, path>>
<1>. DEFINE at == [id \in Carried(e, tree) |-> CHOOSE p \in Paths(tree) : IdOf(e, tree, p) = id]
<1>1. /\ DOMAIN rows = DOMAIN rules \cup Carried(e, tree)
      /\ \A id \in DOMAIN rows :
           rows[id] = IF id \in Carried(e, tree) THEN Row(e, tree, at[id]) ELSE Retire(rules[id], e)
  BY DEF Written
<1>2. \A id \in Carried(e, tree) : IdOf(e, tree, at[id]) = id
  BY DEF Carried
<1>. HIDE DEF at
<1>3. \A path : /\ RowShape(Row(e, tree, path)) /\ Row(e, tree, path).edition = e
                /\ Row(e, tree, path).mark = Fingerprint(tree, path)
  BY DEF Row, RowShape
<1>4. ASSUME NEW id \in Carried(e, tree)
      PROVE  /\ RowShape(rows[id]) /\ rows[id].edition = e
             /\ id \in DOMAIN rules => rules[id].edition = e /\ rows[id].mark = rules[id].mark
             /\ id \notin DOMAIN rules => \E path : id = <<bound.decisions, path>>
  <2>1. rows[id] = Row(e, tree, at[id]) /\ IdOf(e, tree, at[id]) = id
    BY <1>1, <1>2
  <2>2. RowShape(rows[id]) /\ rows[id].edition = e /\ rows[id].mark = Fingerprint(tree, at[id])
    BY <1>3, <2>1
  <2>3. \/ id \in Held(e) /\ rules[id].mark = Fingerprint(tree, at[id])
        \/ id = <<bound.decisions, at[id]>> /\ id \notin DOMAIN rules
    BY <2>1, IdOfEffect
  <2>4. id \in Held(e) => id \in DOMAIN rules /\ rules[id].edition = e
    BY DEF Held
  <2>. QED
    BY <2>2, <2>3, <2>4
<1>5. ASSUME NEW id \in DOMAIN rules, id \notin Carried(e, tree)
      PROVE  /\ RowShape(rows[id]) /\ rows[id].mark = rules[id].mark
             /\ rows[id].edition = rules[id].edition
             /\ rules[id].edition # e => rows[id].retired = rules[id].retired
  <2>1. rows[id] = Retire(rules[id], e) /\ RowShape(rules[id])
    BY <1>1, <1>5 DEF RuleInv
  <2>. QED
    BY <2>1, RetireEffect
<1>. QED
  BY <1>1, <1>4, <1>5

\* What spending a part of the budget leaves.
LEMMA SpendEffect ==
  ASSUME BoundType, NEW part \in {"edits", "runs", "faults", "decisions", "desks"}, Spend(part)
  PROVE  /\ BoundType' /\ bound'.decisions <= bound.decisions
         /\ part = "decisions" => bound'.decisions = bound.decisions - 1
<1>. PICK n : n = bound[part] - 1
  OBVIOUS
<1>1. n \in Nat /\ n <= bound[part] /\ bound' = [bound EXCEPT ![part] = n]
  BY DEF Spend, BoundType
<1>2. BoundType'
  BY <1>1 DEF BoundType
<1>3. part # "decisions" => bound'.decisions = bound.decisions
  BY <1>1 DEF BoundType
<1>4. part = "decisions" => bound'.decisions = n
  BY <1>1 DEF BoundType
<1>5. bound.decisions \in Nat
  BY DEF BoundType
<1>. QED
  BY <1>1, <1>2, <1>3, <1>4, <1>5

\* An id stays minted as decisions are spent.
LEMMA StillMinted ==
  ASSUME BoundType, BoundType', bound'.decisions <= bound.decisions, NEW id, Minted(id)
  PROVE  Minted(id)'
<1>1. PICK n, path : id = <<n, path>> /\ n \in Nat /\ n > bound.decisions
  BY DEF Minted
<1>2. bound.decisions \in Nat /\ bound'.decisions \in Nat
  BY DEF BoundType
<1>3. n > bound'.decisions
  BY <1>1, <1>2
<1>. QED
  BY <1>1, <1>3 DEF Minted

\* A step that leaves rules, versions and choice alone.
LEMMA QuietProgramStep ==
  ASSUME ProgramInv, UNCHANGED <<rules, versions, choice>>,
         \/ bound' = bound
         \/ \E part \in {"edits", "runs", "faults", "decisions", "desks"} : Spend(part)
  PROVE  ProgramInv'
<1>1. BoundType' /\ bound'.decisions <= bound.decisions
  <2>1. CASE bound' = bound
    BY <2>1 DEF ProgramInv, RuleInv, BoundType
  <2>2. CASE \E part \in {"edits", "runs", "faults", "decisions", "desks"} : Spend(part)
    BY <2>2, SpendEffect DEF ProgramInv, RuleInv
  <2>. QED
    BY <2>1, <2>2
<1>2. \A id \in DOMAIN rules : Minted(id)'
  BY <1>1, StillMinted DEF ProgramInv, RuleInv
<1>3. RuleInv'
  BY <1>1, <1>2 DEF ProgramInv, RuleInv
<1>4. VersionInv' /\ ChoiceInv'
  BY DEF ProgramInv, VersionInv, ChoiceInv, Held
<1>. QED
  BY <1>3, <1>4 DEF ProgramInv

\* A publish.
LEMMA PublishStep ==
  ASSUME ProgramInv, NEW e, NEW tree, NEW d, Spend("decisions"), Publish(e, tree, d),
         choice' = choice
  PROVE  ProgramInv'
<1>1. /\ BoundType' /\ bound'.decisions = bound.decisions - 1
      /\ bound.decisions \in Nat /\ BoundType
  BY SpendEffect DEF ProgramInv, RuleInv, BoundType
<1>2. rules' = Written(e, tree) /\ RuleInv
  BY DEF Publish, ProgramInv
<1>3. /\ DOMAIN rules \subseteq DOMAIN rules'
      /\ \A id \in DOMAIN rules' : RowShape(rules'[id])
      /\ \A id \in DOMAIN rules :
           /\ rules'[id].mark = rules[id].mark /\ rules'[id].edition = rules[id].edition
           /\ rules[id].edition # e => rules'[id].retired = rules[id].retired
      /\ \A id \in DOMAIN rules' : id \notin DOMAIN rules =>
           rules'[id].edition = e /\ \E path : id = <<bound.decisions, path>>
  BY <1>2, WrittenEffect
<1>4. \A id \in DOMAIN rules' : Minted(id)'
  <2>. SUFFICES ASSUME NEW id \in DOMAIN rules'
                PROVE  Minted(id)'
    OBVIOUS
  <2>1. CASE id \in DOMAIN rules
    BY <1>1, <1>2, <2>1, StillMinted DEF RuleInv
  <2>2. CASE id \notin DOMAIN rules
    <3>1. PICK path : id = <<bound.decisions, path>>
      BY <1>3, <2>2
    <3>2. bound.decisions > bound'.decisions
      BY <1>1
    <3>. QED
      BY <1>1, <3>1, <3>2 DEF Minted
  <2>. QED
    BY <2>1, <2>2
<1>5. /\ versions' = [f \in Editions |-> versions'[f]]
      /\ e \in Editions => versions'[e].retired = RetiredIn(rules', e)
      /\ \A f \in Editions : f # e => versions'[f] = versions[f]
  <2>1. versions' = [versions EXCEPT ![e] = [draft |-> d, retired |-> RetiredIn(rules', e)]]
        /\ versions = [f \in Editions |-> versions[f]]
    BY <1>2 DEF Publish, RuleInv
  <2>. QED
    BY <2>1
<1>6. RuleInv'
  BY <1>1, <1>3, <1>4, <1>5 DEF RuleInv
<1>7. VersionInv'
  <2>. SUFFICES ASSUME NEW f \in Editions, Held(f)' # {}
                PROVE  versions'[f].retired = RetiredIn(rules', f)
    BY DEF VersionInv
  <2>1. CASE f = e
    BY <1>5, <2>1
  <2>2. CASE f # e
    <3>1. \A id : (id \in DOMAIN rules' /\ rules'[id].edition = f)
                    <=> (id \in DOMAIN rules /\ rules[id].edition = f)
      BY <1>3, <2>2
    <3>2. \A id \in DOMAIN rules : rules[id].edition = f => rules'[id].retired = rules[id].retired
      BY <1>3, <2>2
    <3>3. RetiredIn(rules', f) = RetiredIn(rules, f)
      BY <3>1, <3>2 DEF RetiredIn
    <3>4. Held(f) # {}
      BY <3>1 DEF Held
    <3>. QED
      BY <1>5, <2>2, <3>3, <3>4 DEF ProgramInv, VersionInv
  <2>. QED
    BY <2>1, <2>2
<1>8. ChoiceInv'
  BY <1>3 DEF ProgramInv, ChoiceInv
<1>. QED
  BY <1>6, <1>7, <1>8 DEF ProgramInv

\* A student's choice is a rule the tree has.
LEMMA ChooseStep == ASSUME ProgramInv, Choose PROVE ProgramInv'
<1>1. RuleInv' /\ VersionInv'
  BY DEF Choose, ProgramInv, RuleInv, BoundType, Minted, VersionInv, Held
<1>2. PICK e \in Editions : \E id \in LiveRows(e) : choice' = [id |-> id, mark |-> rules[id].mark]
  BY DEF Choose
<1>. PICK id \in LiveRows(e) : choice' = [id |-> id, mark |-> rules[id].mark]
  BY <1>2
<1>3. id \in DOMAIN rules /\ rules[id].edition = e
  BY DEF LiveRows, Held
<1>4. rules' = rules
  BY DEF Choose
<1>5. ChoiceInv'
  BY <1>2, <1>3, <1>4 DEF ChoiceInv
<1>. QED
  BY <1>1, <1>5 DEF ProgramInv

\* Every step about program pages.
LEMMA ProgramsKeep == ASSUME ProgramInv, ProgramsStep PROVE ProgramInv'
<1>1. CASE \E e \in Editions : Edit(e)
  BY <1>1, QuietProgramStep DEF Edit, stored
<1>2. CASE \E todo : BeginRun("pull", todo, "index") \/ BeginRun("replay", todo, "page")
  BY <1>2, QuietProgramStep DEF BeginRun, stored
<1>3. CASE PullIndex \/ PullPage \/ ReplayPage
  BY <1>3, QuietProgramStep DEF PullIndex, PullPage, ReplayPage, stored
<1>4. CASE \E j \in Jobs : SelectDraft(j) \/ InsertDraft(j) \/ EndRun(j) \/ Stop(j)
  BY <1>4, QuietProgramStep DEF SelectDraft, InsertDraft, EndRun, Stop, stored
<1>5. CASE \E r \in Reviewers : ReadDraft(r) \/ LockDraft(r) \/ LeaveDesk(r)
  BY <1>5, QuietProgramStep DEF ReadDraft, LockDraft, LeaveDesk, stored
<1>6. CASE \E r \in Reviewers : ApproveDraft(r)
  BY <1>6, PublishStep DEF ApproveDraft
<1>7. CASE \E d \in DOMAIN drafts : RejectDraft(d)
  BY <1>7, QuietProgramStep DEF RejectDraft
<1>8. CASE Choose
  BY <1>8, ChooseStep
<1>. QED
  BY <1>1, <1>2, <1>3, <1>4, <1>5, <1>6, <1>7, <1>8 DEF ProgramsStep, JobStep, ReviewStep

\* What a choice says follows.
LEMMA ChoiceIsSound == ProgramInv => ChoicesResolve
<1>. SUFFICES ASSUME ProgramInv, choice # None
              PROVE  /\ choice.id \in DOMAIN rules /\ rules[choice.id].mark = choice.mark
                     /\ rules[choice.id].retired
                          <=> choice.id \in versions[rules[choice.id].edition].retired
  BY DEF ChoicesResolve
<1>. PICK id, e : id = choice.id /\ e = rules[id].edition
  OBVIOUS
<1>1. id \in DOMAIN rules /\ rules[id].mark = choice.mark /\ e \in Editions
  BY DEF ProgramInv, ChoiceInv
<1>2. versions[e].retired = RetiredIn(rules, e)
  <2>1. id \in Held(e)
    BY <1>1 DEF Held
  <2>. QED
    BY <1>1, <2>1 DEF ProgramInv, VersionInv
<1>3. rules[id].retired <=> id \in RetiredIn(rules, e)
  BY <1>1 DEF RetiredIn
<1>. QED
  BY <1>1, <1>2, <1>3
-----------------------------------------------------------------------------
(* The choices, in all that the jobs do.                                    *)
LEMMA ProgramsStart == ASSUME IngestInit, ProgramsAssumption PROVE ProgramInv
<1>1. bound \in Budgets /\ rules = NoRules /\ choice = None /\ versions = [e \in Editions |-> None]
  BY DEF IngestInit, ProgramsInit
<1>2. BoundType
  BY <1>1 DEF ProgramsAssumption, BoundType
<1>3. DOMAIN rules = {}
  BY <1>1 DEF NoRules
<1>4. RuleInv
  BY <1>1, <1>2, <1>3 DEF RuleInv
<1>5. VersionInv /\ ChoiceInv
  BY <1>1, <1>3 DEF VersionInv, ChoiceInv, Held
<1>. QED
  BY <1>4, <1>5 DEF ProgramInv

LEMMA ProgramsGoOn == ASSUME ProgramInv, [IngestNext]_ingestVars PROVE ProgramInv'
<1>1. CASE Publishing
  BY <1>1, ProgramsKeep DEF Publishing
<1>2. CASE \E r \in Reviewers : UpsertAliases(r) \/ EndReview(r)
  BY <1>2, QuietProgramStep DEF UpsertAliases, EndReview, AtReview, stored
<1>3. CASE \/ \E w \in CatalogWriters : UpsertCourses(w)
           \/ \E w \in Writers : Transact(w)
           \/ Polling \/ Reading \/ Searching
  BY <1>3, QuietProgramStep DEF UpsertCourses, Transact, Polling, Reading, Searching, programVars, stored
<1>4. CASE UNCHANGED ingestVars
  BY <1>4, QuietProgramStep DEF ingestVars, programVars, stored
<1>. QED
  BY <1>1, <1>2, <1>3, <1>4 DEF IngestNext

-----------------------------------------------------------------------------
(* Reading a page.  A parser reads the rows one after the other; what it    *)
(* has read of the first n is told apart by n.                              *)

\* The parser has read the first rows of a page, one by one.
IsRead(f, rows, N) == f = [n \in 0 .. N |-> IF n = 0 THEN NewPage ELSE OnRow(f[n - 1], rows[n])]
LEMMA PageIsRead ==
  ASSUME NEW page, Len(page.rows) \in Nat
  PROVE  \E f : /\ IsRead(f, page.rows, Len(page.rows))
                /\ ParsePage(page) = [areas |-> CloseGroup(f[Len(page.rows)]).areas,
                                      aliases |-> CloseGroup(f[Len(page.rows)]).aliases,
                                      footnotes |-> page.footnotes, title |-> page.title]
<1>. DEFINE rows == page.rows
            N == Len(page.rows)
            S == {n \in 0 .. N : \E f : IsRead(f, rows, n)}
<1>1. 0 \in S
  <2>1. IsRead([n \in 0 .. 0 |-> NewPage], rows, 0)
    BY DEF IsRead
  <2>. QED
    BY <2>1
<1>2. ASSUME NEW n \in 0 .. N, n < N, n \in S PROVE n + 1 \in S
  <2>1. PICK f : IsRead(f, rows, n)
    BY <1>2
  <2>. DEFINE g == [i \in 0 .. (n + 1) |-> IF i <= n THEN f[i] ELSE OnRow(f[n], rows[n + 1])]
  <2>2. IsRead(g, rows, n + 1)
    <3>1. ASSUME NEW i \in 0 .. (n + 1)
          PROVE  g[i] = IF i = 0 THEN NewPage ELSE OnRow(g[i - 1], rows[i])
      <4>1. CASE i = 0
        BY <2>1, <4>1 DEF IsRead
      <4>2. CASE i # 0 /\ i <= n
        BY <2>1, <4>2 DEF IsRead
      <4>3. CASE i = n + 1
        BY <4>3
      <4>. QED
        BY <4>1, <4>2, <4>3
    <3>2. g = [i \in 0 .. (n + 1) |-> IF i = 0 THEN NewPage ELSE OnRow(g[i - 1], rows[i])]
      BY <3>1
    <3>. HIDE DEF g, rows, N
    <3>. QED
      BY <3>2 DEF IsRead
  <2>3. \E h : IsRead(h, rows, n + 1)
    <3>. HIDE DEF g, rows, N
    <3>. QED
      BY <2>2
  <2>4. n + 1 \in 0 .. N
    BY <1>2
  <2>. QED
    BY <2>3, <2>4
<1>3. \A n \in 0 .. N : n \in S
  <2>. HIDE DEF S
  <2>. QED
    BY <1>1, <1>2, UpTo
<1>. DEFINE walk == CHOOSE f : IsRead(f, rows, N)
<1>4. IsRead(walk, rows, N)
  BY <1>3
<1>5. ParsePage(page) = [areas |-> CloseGroup(walk[N]).areas, aliases |-> CloseGroup(walk[N]).aliases,
                         footnotes |-> page.footnotes, title |-> page.title]
  BY DEF ParsePage, IsRead
<1>. QED
  BY <1>4, <1>5

\* The types of what the parser builds, by its labels, filters and alias groups.
NodeKinds == {"all", "select", "credits", "course", "unverifiable"}
NodesOf(L, M, Of) == [label : L, kind : NodeKinds, filter : Seq(M), of : Of]
Level0(L, M) == NodesOf(L, M, {<<>>})
Level1(L, M) == NodesOf(L, M, Seq(Level0(L, M)))
AreaSet(L, M) == [title : L, rules : Seq(Level1(L, M)), unparsed : Seq(L)]
GroupSet(L, M) == [kind : {"all", "select", "credits"}, label : L, options : Seq(Level0(L, M)), include : Seq(M)]
PageStates(L, M, A) ==
    [areas : Seq(AreaSet(L, M)), aliases : Seq(A), group : GroupSet(L, M) \cup {NoGroup}, summary : BOOLEAN]

LEMMA Levels01 ==
  ASSUME NEW L, NEW M
  PROVE  /\ Level0(L, M) \subseteq Level1(L, M) /\ <<>> \in Seq(Level0(L, M)) /\ <<>> \in Seq(M)
         /\ \A l \in L, k \in NodeKinds, f \in Seq(M) : Node(l, k, f, <<>>) \in Level0(L, M)
         /\ \A l \in L, k \in NodeKinds, f \in Seq(M), of \in Seq(Level0(L, M)) :
               Node(l, k, f, of) \in Level1(L, M)
<1>1. <<>> \in Seq(Level0(L, M))
  OBVIOUS
<1>2. Level0(L, M) \subseteq Level1(L, M)
  <2>. HIDE <1>1
  <2>1. {<<>>} \subseteq Seq(Level0(L, M))
    BY <1>1
  <2>2. ASSUME NEW S, NEW T, S \subseteq T PROVE NodesOf(L, M, S) \subseteq NodesOf(L, M, T)
    BY <2>2 DEF NodesOf
  <2>. QED
    BY <2>1, <2>2 DEF Level0, Level1
<1>3. \A l \in L, k \in NodeKinds, f \in Seq(M) : Node(l, k, f, <<>>) \in Level0(L, M)
  BY DEF Node, NodesOf, Level0
<1>4. \A l \in L, k \in NodeKinds, f \in Seq(M), of \in Seq(Level0(L, M)) : Node(l, k, f, of) \in Level1(L, M)
  BY DEF Node, NodesOf, Level1
<1>. QED
  BY <1>1, <1>2, <1>3, <1>4

LEMMA PageParts ==
  ASSUME NEW L, NEW M, NEW A, NEW page \in PageStates(L, M, A)
  PROVE  /\ page.areas \in Seq(AreaSet(L, M)) /\ page.aliases \in Seq(A)
         /\ page.group \in GroupSet(L, M) \cup {NoGroup} /\ page.summary \in BOOLEAN
         /\ \A areas \in Seq(AreaSet(L, M)) : [page EXCEPT !.areas = areas] \in PageStates(L, M, A)
         /\ \A aliases \in Seq(A) : [page EXCEPT !.aliases = aliases] \in PageStates(L, M, A)
         /\ \A group \in GroupSet(L, M) \cup {NoGroup} : [page EXCEPT !.group = group] \in PageStates(L, M, A)
         /\ \A group \in GroupSet(L, M) \cup {NoGroup} : [page EXCEPT !.group = group].areas = page.areas
BY DEF PageStates

LEMMA PlacedType ==
  ASSUME NEW L, NEW M, NEW A, NoText \in L, NEW page \in PageStates(L, M, A)
  PROVE  Placed(page) \in PageStates(L, M, A) /\ Placed(page).areas # <<>>
<1>1. <<Area(NoText)>> \in Seq(AreaSet(L, M)) /\ <<Area(NoText)>> # <<>>
  BY DEF Area, AreaSet
<1>2. [page EXCEPT !.areas = <<Area(NoText)>>].areas = <<Area(NoText)>>
  BY DEF PageStates
<1>. QED
  BY <1>1, <1>2, PageParts DEF Placed

LEMMA AreaParts ==
  ASSUME NEW L, NEW M, NEW area \in AreaSet(L, M)
  PROVE  /\ area.rules \in Seq(Level1(L, M)) /\ area.unparsed \in Seq(L) /\ area.title \in L
         /\ \A list \in Seq(Level1(L, M)) : [area EXCEPT !.rules = list] \in AreaSet(L, M)
         /\ \A unparsed \in Seq(L) : [area EXCEPT !.unparsed = unparsed] \in AreaSet(L, M)
BY DEF AreaSet

LEMMA AddRuleType ==
  ASSUME NEW L, NEW M, NEW A, NoText \in L, NEW page \in PageStates(L, M, A), NEW rule \in Level1(L, M)
  PROVE  AddRule(page, rule) \in PageStates(L, M, A)
<1>. PICK p \in PageStates(L, M, A) : p = Placed(page) /\ p.areas # <<>>
  BY PlacedType
<1>. PICK areas \in Seq(AreaSet(L, M)) : areas = p.areas
  BY PageParts
<1>. PICK n \in 1 .. Len(areas) : n = Len(areas)
  <2>1. areas # <<>> /\ Len(areas) \in Nat
    BY LenProperties
  <2>. QED
    BY <2>1, EmptySeq
<1>. PICK area \in AreaSet(L, M) : area = areas[n]
  BY ElementOfSeq
<1>. PICK parts \in Seq(Level1(L, M)) : parts = area.rules
  BY AreaParts
<1>. PICK longer \in Seq(Level1(L, M)) : longer = Append(parts, rule)
  BY AppendProperties
<1>. PICK new \in AreaSet(L, M) : new = [area EXCEPT !.rules = longer]
  BY AreaParts
<1>. PICK more \in Seq(AreaSet(L, M)) : more = [areas EXCEPT ![n] = new]
  BY ExceptSeq
<1>1. AddRule(page, rule) = [p EXCEPT !.areas[Len(p.areas)].rules = Append(@, rule)]
  BY DEF AddRule
<1>2. [p EXCEPT !.areas[Len(p.areas)].rules = Append(@, rule)] = [p EXCEPT !.areas = more]
  OBVIOUS
<1>3. [p EXCEPT !.areas = more] \in PageStates(L, M, A)
  BY PageParts
<1>. QED
  BY ONLY <1>1, <1>2, <1>3

LEMMA UnparsedType ==
  ASSUME NEW L, NEW M, NEW A, NoText \in L, NEW page \in PageStates(L, M, A), NEW text \in L
  PROVE  Unparsed(page, text) \in PageStates(L, M, A)
<1>. PICK p \in PageStates(L, M, A) : p = Placed(page) /\ p.areas # <<>>
  BY PlacedType
<1>. PICK areas \in Seq(AreaSet(L, M)) : areas = p.areas
  BY PageParts
<1>. PICK n \in 1 .. Len(areas) : n = Len(areas)
  <2>1. areas # <<>> /\ Len(areas) \in Nat
    BY LenProperties
  <2>. QED
    BY <2>1, EmptySeq
<1>. PICK area \in AreaSet(L, M) : area = areas[n]
  BY ElementOfSeq
<1>. PICK parts \in Seq(L) : parts = area.unparsed
  BY AreaParts
<1>. PICK longer \in Seq(L) : longer = Append(parts, text)
  BY AppendProperties
<1>. PICK new \in AreaSet(L, M) : new = [area EXCEPT !.unparsed = longer]
  BY AreaParts
<1>. PICK more \in Seq(AreaSet(L, M)) : more = [areas EXCEPT ![n] = new]
  BY ExceptSeq
<1>1. Unparsed(page, text) = [p EXCEPT !.areas[Len(p.areas)].unparsed = Append(@, text)]
  BY DEF Unparsed
<1>2. [p EXCEPT !.areas[Len(p.areas)].unparsed = Append(@, text)] = [p EXCEPT !.areas = more]
  OBVIOUS
<1>3. [p EXCEPT !.areas = more] \in PageStates(L, M, A)
  BY PageParts
<1>. QED
  BY ONLY <1>1, <1>2, <1>3

LEMMA GroupParts ==
  ASSUME NEW L, NEW M, NEW g \in GroupSet(L, M)
  PROVE  /\ g.label \in L /\ g.kind \in {"all", "select", "credits"} /\ g.kind \in NodeKinds
         /\ g.options \in Seq(Level0(L, M)) /\ g.include \in Seq(M)
         /\ \A options \in Seq(Level0(L, M)) : [g EXCEPT !.options = options] \in GroupSet(L, M)
         /\ \A include \in Seq(M) : [g EXCEPT !.include = include] \in GroupSet(L, M)
BY DEF GroupSet, NodeKinds

LEMMA OpenGroupType ==
  ASSUME NEW L, NEW M, NEW A, NEW page \in PageStates(L, M, A),
         NEW kind \in {"all", "select", "credits"}, NEW text \in L
  PROVE  OpenGroup(page, kind, text) \in PageStates(L, M, A)
<1>1. [kind |-> kind, label |-> text, options |-> <<>>, include |-> <<>>] \in GroupSet(L, M)
  BY Levels01 DEF GroupSet
<1>. QED
  BY <1>1, PageParts DEF OpenGroup

LEMMA CloseGroupType ==
  ASSUME NEW L, NEW M, NEW A, NoText \in L, NEW page \in PageStates(L, M, A)
  PROVE  CloseGroup(page) \in PageStates(L, M, A)
<1>1. CASE page.group.kind = "none"
  BY <1>1 DEF CloseGroup
<1>2. CASE page.group.kind # "none"
  <2>. PICK g \in GroupSet(L, M) : g = page.group
    BY <1>2, PageParts DEF NoGroup
  <2>. PICK p \in PageStates(L, M, A) : p = [page EXCEPT !.group = NoGroup]
    BY PageParts
  <2>1. CloseGroup(page) = IF g.options = <<>> /\ g.include = <<>> THEN Unparsed(p, g.label)
                           ELSE AddRule(p, Node(g.label, g.kind, g.include, g.options))
    BY <1>2 DEF CloseGroup
  <2>2. Node(g.label, g.kind, g.include, g.options) \in Level1(L, M)
    BY GroupParts, Levels01
  <2>3. g.label \in L
    BY GroupParts
  <2>. QED
    BY <2>1, <2>2, <2>3, AddRuleType, UnparsedType
<1>. QED
  BY <1>1, <1>2

LEMMA RuleType ==
  ASSUME NEW L, NEW M, NEW A, NoText \in L, NEW page \in PageStates(L, M, A), NEW text \in L
  PROVE  Rule(page, text) \in PageStates(L, M, A)
<1>1. text[1] \in {"select", "credits"} => text[1] \in {"all", "select", "credits"}
  OBVIOUS
<1>. QED
  BY <1>1, OpenGroupType, UnparsedType DEF Rule

LEMMA CommentType ==
  ASSUME NEW L, NEW M, NEW A, NoText \in L, L \subseteq M, NEW page \in PageStates(L, M, A), NEW text \in L
  PROVE  Comment(page, text) \in PageStates(L, M, A)
<1>1. Node(text, "course", <<text>>, <<>>) \in Level1(L, M)
  <2>1. <<text>> \in Seq(M) /\ "course" \in NodeKinds
    BY DEF NodeKinds
  <2>. QED
    BY <2>1, Levels01
<1>2. OpenGroup(page, "all", text) \in PageStates(L, M, A)
  BY OpenGroupType
<1>. QED
  BY <1>1, <1>2, AddRuleType, UnparsedType DEF Comment

\* Rows bring alias groups of their own codes.
LEMMA WithAliasesType ==
  ASSUME NEW L, NEW M, NEW C, NEW page \in PageStates(L, M, SUBSET C), NEW codes \in Seq(C)
  PROVE  /\ WithAliases(page, codes) \in PageStates(L, M, SUBSET C)
         /\ WithAliases(page, codes).group = page.group
<1>. DEFINE pairs == [n \in 1 .. (Len(codes) - 1) |-> {codes[1], codes[n + 1]}]
<1>1. pairs \in Seq(SUBSET C)
  <2>1. CASE codes = <<>>
    <3>1. Len(codes) = 0 /\ pairs = [n \in 1 .. 0 |-> {}]
      BY <2>1
    <3>. HIDE DEF pairs
    <3>. QED
      BY <3>1, IsASeq
  <2>2. CASE codes # <<>>
    <3>1. Len(codes) \in Nat \ {0} /\ \A n \in 1 .. Len(codes) : codes[n] \in C
      BY <2>2, EmptySeq, ElementOfSeq
    <3>2. Len(codes) - 1 \in Nat /\ \A n \in 1 .. (Len(codes) - 1) : pairs[n] \in SUBSET C
      BY <3>1
    <3>. QED
      BY <3>2, IsASeq
  <2>. QED
    BY <2>1, <2>2
<1>. PICK aliases \in Seq(SUBSET C) : aliases = page.aliases
  BY PageParts
<1>. PICK more \in Seq(SUBSET C) : more = aliases \o pairs
  BY <1>1, ConcatProperties
<1>2. WithAliases(page, codes) = [page EXCEPT !.aliases = more]
  BY DEF WithAliases
<1>3. [page EXCEPT !.aliases = more] \in PageStates(L, M, SUBSET C) /\ [page EXCEPT !.aliases = more].group = page.group
  <2>. HIDE DEF pairs
  <2>1. [page EXCEPT !.aliases = more].group = page.group
    BY DEF PageStates
  <2>. QED
    BY <2>1, PageParts
<1>. QED
  BY ONLY <1>2, <1>3

LEMMA OptionType ==
  ASSUME NEW L, NEW M, NEW A, NEW page \in PageStates(L, M, A), page.group \in GroupSet(L, M), NEW rule \in Level0(L, M)
  PROVE  [page EXCEPT !.group.options = Append(@, rule)] \in PageStates(L, M, A)
<1>. PICK g \in GroupSet(L, M) : g = page.group
  OBVIOUS
<1>. PICK options \in Seq(Level0(L, M)) : options = g.options
  BY GroupParts
<1>. PICK longer \in Seq(Level0(L, M)) : longer = Append(options, rule)
  BY AppendProperties
<1>. PICK h \in GroupSet(L, M) : h = [g EXCEPT !.options = longer]
  BY GroupParts
<1>1. [page EXCEPT !.group.options = Append(@, rule)] = [page EXCEPT !.group = h]
  OBVIOUS
<1>2. [page EXCEPT !.group = h] \in PageStates(L, M, A)
  BY PageParts
<1>. QED
  BY ONLY <1>1, <1>2

LEMMA IncludeType ==
  ASSUME NEW L, NEW M, NEW A, NEW page \in PageStates(L, M, A), page.group \in GroupSet(L, M), NEW mark \in M
  PROVE  [page EXCEPT !.group.include = Append(@, mark)] \in PageStates(L, M, A)
<1>. PICK g \in GroupSet(L, M) : g = page.group
  OBVIOUS
<1>. PICK include \in Seq(M) : include = g.include
  BY GroupParts
<1>. PICK longer \in Seq(M) : longer = Append(include, mark)
  BY AppendProperties
<1>. PICK h \in GroupSet(L, M) : h = [g EXCEPT !.include = longer]
  BY GroupParts
<1>1. [page EXCEPT !.group.include = Append(@, mark)] = [page EXCEPT !.group = h]
  OBVIOUS
<1>2. [page EXCEPT !.group = h] \in PageStates(L, M, A)
  BY PageParts
<1>. QED
  BY ONLY <1>1, <1>2

LEMMA JoinedType ==
  ASSUME NEW L, NEW M, NEW Of, NEW list \in Seq(NodesOf(L, M, Of)), list # <<>>, NEW codes, Code(codes[1]) \in M
  PROVE  Joined(list, codes) \in Seq(NodesOf(L, M, Of))
<1>. PICK n \in 1 .. Len(list) : n = Len(list)
  <2>1. Len(list) \in Nat \ {0}
    BY EmptySeq
  <2>. QED
    BY <2>1
<1>. PICK rule \in NodesOf(L, M, Of) : rule = list[n]
  BY ElementOfSeq
<1>1. rule.filter \in Seq(M) /\ \A filter \in Seq(M) : [rule EXCEPT !.filter = filter] \in NodesOf(L, M, Of)
  BY DEF NodesOf
<1>. PICK mark \in M : mark = Code(codes[1])
  OBVIOUS
<1>. PICK filter \in Seq(M) : filter = rule.filter
  BY <1>1
<1>. PICK longer \in Seq(M) : longer = Append(filter, mark)
  BY AppendProperties
<1>. PICK new \in NodesOf(L, M, Of) : new = [rule EXCEPT !.filter = longer]
  BY <1>1
<1>2. Joined(list, codes) = [list EXCEPT ![n] = new]
  BY DEF Joined
<1>3. [list EXCEPT ![n] = new] \in Seq(NodesOf(L, M, Of))
  BY ExceptSeq
<1>. QED
  BY ONLY <1>2, <1>3

LEMMA CourseRowType ==
  ASSUME NEW L, NEW M, NEW C, NoText \in L, NEW page \in PageStates(L, M, SUBSET C), NEW tr,
         tr.text \in L, tr.codes \in Seq(C), Code(tr.codes[1]) \in M
  PROVE  CourseRow(page, tr) \in PageStates(L, M, SUBSET C)
<1>. PICK p \in PageStates(L, M, SUBSET C) : p = WithAliases(page, tr.codes) /\ p.group = page.group
  BY WithAliasesType
<1>. PICK rule \in Level0(L, M) : rule = Node(tr.text, "course", <<Code(tr.codes[1])>>, <<>>)
  <2>1. <<Code(tr.codes[1])>> \in Seq(M) /\ "course" \in NodeKinds
    BY DEF NodeKinds
  <2>. QED
    BY <2>1, Levels01
<1>1. page.group.kind # "none" => p.group \in GroupSet(L, M)
  BY PageParts DEF NoGroup
<1>2. page.group.kind \in {"all", "select"} =>
        [p EXCEPT !.group.options = Append(@, rule)] \in PageStates(L, M, SUBSET C)
  BY <1>1, OptionType
<1>3. page.group.kind = "credits" =>
        [p EXCEPT !.group.include = Append(@, Code(tr.codes[1]))] \in PageStates(L, M, SUBSET C)
  BY <1>1, IncludeType
<1>4. AddRule(CloseGroup(p), rule) \in PageStates(L, M, SUBSET C)
  BY CloseGroupType, AddRuleType, Levels01
<1>5. \/ page.group.kind \in {"all", "select"} /\ CourseRow(page, tr) = [p EXCEPT !.group.options = Append(@, rule)]
      \/ page.group.kind = "credits" /\ CourseRow(page, tr) = [p EXCEPT !.group.include = Append(@, Code(tr.codes[1]))]
      \/ CourseRow(page, tr) = AddRule(CloseGroup(p), rule)
  BY DEF CourseRow
<1>. QED
  BY ONLY <1>2, <1>3, <1>4, <1>5

LEMMA OrRowType ==
  ASSUME NEW L, NEW M, NEW C, NoText \in L, NEW page \in PageStates(L, M, SUBSET C), NEW codes \in Seq(C),
         Code(codes[1]) \in M, <<"or", codes>> \in L
  PROVE  OrRow(page, codes) \in PageStates(L, M, SUBSET C)
<1>. DEFINE g == page.group
            n == Len(page.areas)
            Fine(p) == p \in PageStates(L, M, SUBSET C)
<1>1. g.kind # "none" => g \in GroupSet(L, M)
  BY PageParts DEF NoGroup
<1>2. CASE g.kind = "credits"
  <2>1. OrRow(page, codes) = WithAliases([page EXCEPT !.group.include = Append(@, Code(codes[1]))], codes)
    BY <1>2 DEF OrRow
  <2>. PICK p \in PageStates(L, M, SUBSET C) : p = [page EXCEPT !.group.include = Append(@, Code(codes[1]))]
    BY <1>1, <1>2, IncludeType
  <2>2. WithAliases(p, codes) \in PageStates(L, M, SUBSET C)
    BY WithAliasesType
  <2>. QED
    BY <2>1, <2>2
<1>3. CASE g.kind \in {"select", "all"} /\ CanJoin(g.options)
  <2>1. OrRow(page, codes) = WithAliases([page EXCEPT !.group.options = Joined(@, codes)], codes)
    BY <1>3 DEF OrRow
  <2>. PICK h \in GroupSet(L, M) : h = page.group
    BY <1>1, <1>3
  <2>. PICK options \in Seq(Level0(L, M)) : options = Joined(h.options, codes)
    <3>1. h.options \in Seq(NodesOf(L, M, {<<>>})) /\ h.options # <<>>
      BY <1>3, GroupParts DEF Level0, CanJoin
    <3>. QED
      BY <3>1, JoinedType DEF Level0
  <2>. PICK k \in GroupSet(L, M) : k = [h EXCEPT !.options = options]
    BY GroupParts
  <2>2. [page EXCEPT !.group.options = Joined(@, codes)] = [page EXCEPT !.group = k]
    OBVIOUS
  <2>3. [page EXCEPT !.group = k] \in PageStates(L, M, SUBSET C)
    BY PageParts
  <2>4. WithAliases([page EXCEPT !.group = k], codes) \in PageStates(L, M, SUBSET C)
    BY <2>3, WithAliasesType
  <2>. QED
    BY ONLY <2>1, <2>2, <2>4
<1>4. CASE g.kind = "none" /\ n > 0 /\ CanJoin(page.areas[n].rules)
  <2>1. OrRow(page, codes) = WithAliases([page EXCEPT !.areas[n].rules = Joined(@, codes)], codes)
    BY <1>4 DEF OrRow
  <2>. PICK areas \in Seq(AreaSet(L, M)) : areas = page.areas
    BY PageParts
  <2>. PICK m \in 1 .. Len(areas) : m = n
    <3>1. Len(areas) \in Nat /\ n = Len(areas)
      BY LenProperties
    <3>. QED
      BY <1>4, <3>1
  <2>. PICK area \in AreaSet(L, M) : area = areas[m]
    BY ElementOfSeq
  <2>. PICK list \in Seq(Level1(L, M)) : list = Joined(area.rules, codes)
    <3>1. area.rules \in Seq(NodesOf(L, M, Seq(Level0(L, M)))) /\ area.rules # <<>>
      BY <1>4, AreaParts DEF Level1, CanJoin
    <3>. QED
      BY <3>1, JoinedType DEF Level1
  <2>. PICK new \in AreaSet(L, M) : new = [area EXCEPT !.rules = list]
    BY AreaParts
  <2>. PICK more \in Seq(AreaSet(L, M)) : more = [areas EXCEPT ![m] = new]
    BY ExceptSeq
  <2>2. [page EXCEPT !.areas[n].rules = Joined(@, codes)] = [page EXCEPT !.areas = more]
    OBVIOUS
  <2>3. [page EXCEPT !.areas = more] \in PageStates(L, M, SUBSET C)
    BY PageParts
  <2>4. WithAliases([page EXCEPT !.areas = more], codes) \in PageStates(L, M, SUBSET C)
    BY <2>3, WithAliasesType
  <2>. QED
    BY ONLY <2>1, <2>2, <2>4
<1>5. CASE OrRow(page, codes) = Unparsed(page, <<"or", codes>>)
  BY <1>5, UnparsedType
<1>. QED
  BY <1>2, <1>3, <1>4, <1>5 DEF OrRow

\* What a row brings: its text, its codes, and the text of an `or' that joins nothing.
RowFits(tr, L, M, C) ==
    /\ tr.text \in L /\ <<"or", tr.codes>> \in L /\ tr.codes \in Seq(C)
    /\ tr.codes # <<>> => Code(tr.codes[1]) \in M

LEMMA OnRowType ==
  ASSUME NEW L, NEW M, NEW C, NoText \in L, L \subseteq M,
         NEW page \in PageStates(L, M, SUBSET C), NEW tr, RowFits(tr, L, M, C)
  PROVE  OnRow(page, tr) \in PageStates(L, M, SUBSET C)
<1>. PICK p \in PageStates(L, M, SUBSET C) : p = CloseGroup(page)
  BY CloseGroupType
<1>1. Classify(tr) \in {"course", "or"} => tr.codes # <<>>
  BY DEF Classify
<1>2. CASE Classify(tr) = "area"
  <2>. PICK areas \in Seq(AreaSet(L, M)) : areas = p.areas
    BY PageParts
  <2>. PICK area \in AreaSet(L, M) : area = Area(tr.text)
    <3>1. <<>> \in Seq(Level1(L, M)) /\ <<>> \in Seq(L)
      OBVIOUS
    <3>. QED
      BY <3>1 DEF Area, AreaSet, RowFits
  <2>. PICK more \in Seq(AreaSet(L, M)) : more = Append(areas, area)
    BY AppendProperties
  <2>1. OnRow(page, tr) = [p EXCEPT !.summary = FALSE, !.areas = more]
    BY <1>2 DEF OnRow
  <2>2. [p EXCEPT !.summary = FALSE, !.areas = more] \in PageStates(L, M, SUBSET C)
    BY DEF PageStates
  <2>. QED
    BY ONLY <2>1, <2>2
<1>3. CASE Classify(tr) = "subtotal"
  <2>1. OnRow(page, tr) = [p EXCEPT !.summary = TRUE]
    BY <1>3 DEF OnRow
  <2>2. [p EXCEPT !.summary = TRUE] \in PageStates(L, M, SUBSET C)
    BY DEF PageStates
  <2>. QED
    BY <2>1, <2>2
<1>4. CASE Classify(tr) = "total"
  BY <1>4 DEF OnRow
<1>5. CASE Classify(tr) = "rule"
  <2>1. OnRow(page, tr) = Rule(p, tr.text)
    BY <1>5 DEF OnRow
  <2>. QED
    BY <2>1, RuleType DEF RowFits
<1>6. CASE Classify(tr) = "course"
  <2>1. OnRow(page, tr) = CourseRow(page, tr)
    BY <1>6 DEF OnRow
  <2>. QED
    BY <1>1, <1>6, <2>1, CourseRowType DEF RowFits
<1>7. CASE Classify(tr) = "or"
  <2>1. OnRow(page, tr) = OrRow(page, tr.codes)
    BY <1>7 DEF OnRow
  <2>. QED
    BY <1>1, <1>7, <2>1, OrRowType DEF RowFits
<1>8. CASE Classify(tr) = "comment" /\ ~page.summary
  <2>1. OnRow(page, tr) = Comment(p, tr.text)
    BY <1>8 DEF OnRow
  <2>. QED
    BY <2>1, CommentType DEF RowFits
<1>. QED
  BY <1>2, <1>3, <1>4, <1>5, <1>6, <1>7, <1>8 DEF OnRow

\* A page the parser can read: its rows and footnotes are lists, its texts and codes known.
PageFits(page, L, M, C) ==
    /\ NoText \in L /\ L \subseteq M
    /\ Len(page.rows) \in Nat /\ \A n \in 1 .. Len(page.rows) : RowFits(page.rows[n], L, M, C)
    /\ page.title \in L /\ page.footnotes \in Seq(L)

Parsed(page, L, M, C) ==
  \E areas \in Seq(AreaSet(L, M)), aliases \in Seq(SUBSET C) :
     ParsePage(page) = [areas |-> areas, aliases |-> aliases, footnotes |-> page.footnotes, title |-> page.title]

\* What the parser has read so far is areas of rules and groups of the page's codes.
LEMMA ReadType ==
  ASSUME NEW L, NEW M, NEW C, NEW page, PageFits(page, L, M, C), NEW f, IsRead(f, page.rows, Len(page.rows))
  PROVE  \A n \in 0 .. Len(page.rows) : f[n] \in PageStates(L, M, SUBSET C)
<1>. PICK N \in Nat : N = Len(page.rows)
  BY DEF PageFits
<1>. DEFINE S == {n \in 0 .. N : f[n] \in PageStates(L, M, SUBSET C)}
<1>1. 0 \in S
  <2>1. f[0] = NewPage
    BY DEF IsRead
  <2>2. NewPage \in PageStates(L, M, SUBSET C)
    <3>1. <<>> \in Seq(AreaSet(L, M)) /\ <<>> \in Seq(SUBSET C)
      OBVIOUS
    <3>. QED
      BY <3>1 DEF NewPage, PageStates
  <2>. QED
    BY <2>1, <2>2
<1>2. ASSUME NEW n \in 0 .. N, n < N, n \in S PROVE n + 1 \in S
  <2>. PICK m \in 1 .. N : m = n + 1
    BY <1>2
  <2>1. f[m] = OnRow(f[n], page.rows[m])
    <3>1. m \in 0 .. N /\ m # 0 /\ m - 1 = n
      BY <1>2
    <3>. QED
      BY <3>1 DEF IsRead
  <2>2. NoText \in L /\ L \subseteq M /\ RowFits(page.rows[m], L, M, C)
    BY DEF PageFits
  <2>. PICK p \in PageStates(L, M, SUBSET C) : p = f[n]
    BY <1>2
  <2>3. OnRow(p, page.rows[m]) \in PageStates(L, M, SUBSET C)
    BY <2>2, OnRowType
  <2>4. m \in 0 .. N /\ n + 1 = m
    OBVIOUS
  <2>. QED
    BY <2>1, <2>3, <2>4
<1>. HIDE DEF S
<1>3. \A n \in 0 .. N : n \in S
  BY <1>1, <1>2, UpTo
<1>. QED
  BY <1>3 DEF S

\* What the parser makes of a page is areas of rules and groups of its codes.
LEMMA ParsedType ==
  ASSUME NEW L, NEW M, NEW C, NEW page, PageFits(page, L, M, C)
  PROVE  Parsed(page, L, M, C)
<1>. PICK N \in Nat : N = Len(page.rows)
  BY DEF PageFits
<1>. PICK f : /\ IsRead(f, page.rows, N)
              /\ ParsePage(page) = [areas |-> CloseGroup(f[N]).areas, aliases |-> CloseGroup(f[N]).aliases,
                                    footnotes |-> page.footnotes, title |-> page.title]
  BY PageIsRead
<1>3. f[N] \in PageStates(L, M, SUBSET C)
  <2>1. N \in 0 .. N
    OBVIOUS
  <2>. QED
    BY <2>1, ReadType
<1>. PICK p \in PageStates(L, M, SUBSET C) : p = CloseGroup(f[N])
  <2>1. NoText \in L
    BY DEF PageFits
  <2>. QED
    BY <1>3, <2>1, CloseGroupType
<1>. PICK areas \in Seq(AreaSet(L, M)), aliases \in Seq(SUBSET C) : areas = p.areas /\ aliases = p.aliases
  BY PageParts
<1>4. ParsePage(page) = [areas |-> areas, aliases |-> aliases, footnotes |-> page.footnotes, title |-> page.title]
  OBVIOUS
<1>. QED
  BY <1>4 DEF Parsed

Level2(L, M) == NodesOf(L, M, Seq(Level1(L, M)))
Level3(L, M) == NodesOf(L, M, Seq(Level2(L, M)))

LEMMA NodesGrow ==
  ASSUME NEW L, NEW M, NEW S, NEW T, S \subseteq T
  PROVE  NodesOf(L, M, S) \subseteq NodesOf(L, M, T)
BY DEF NodesOf

\* A self-check is a rule without children, and may stand at any level.
LEMMA Level012 == ASSUME NEW L, NEW M PROVE Level0(L, M) \subseteq Level1(L, M) /\ Level1(L, M) \subseteq Level2(L, M)
<1>1. Level0(L, M) \subseteq Level1(L, M)
  BY Levels01
<1>2. Seq(Level0(L, M)) \subseteq Seq(Level1(L, M))
  BY <1>1, SeqMonotonic
<1>. QED
  BY <1>1, <1>2, NodesGrow DEF Level1, Level2

LEMMA ChecksType ==
  ASSUME NEW L, NEW M, NEW texts \in Seq(L)
  PROVE  [n \in DOMAIN texts |-> SelfCheck(texts[n])] \in Seq(Level0(L, M))
<1>. PICK k \in Nat : k = Len(texts)
  OBVIOUS
<1>1. DOMAIN texts = 1 .. k
  BY LenProperties
<1>2. \A n \in 1 .. k : SelfCheck(texts[n]) \in Level0(L, M)
  <2>1. SUFFICES ASSUME NEW n \in 1 .. k PROVE SelfCheck(texts[n]) \in Level0(L, M)
    OBVIOUS
  <2>2. texts[n] \in L /\ "unverifiable" \in NodeKinds /\ <<>> \in Seq(M)
    BY ElementOfSeq DEF NodeKinds
  <2>. QED
    BY <2>2, Levels01 DEF SelfCheck
<1>3. \A n \in 1 .. k : [i \in 1 .. k |-> SelfCheck(texts[i])][n] \in Level0(L, M)
  BY <1>2
<1>4. [i \in 1 .. k |-> SelfCheck(texts[i])] \in Seq(Level0(L, M))
  BY <1>2, IsASeq
<1>. QED
  BY <1>1, <1>4

\* The requirement tree of a page has three levels below its root.
LEMMA IntoProgramType ==
  ASSUME NEW L, NEW M, NEW areas \in Seq(AreaSet(L, M)), NEW aliases, NEW footnotes \in Seq(L), NEW title \in L
  PROVE  IntoProgram([areas |-> areas, aliases |-> aliases, footnotes |-> footnotes, title |-> title])
            \in Level3(L, M)
<1>. DEFINE checks(texts) == [n \in DOMAIN texts |-> SelfCheck(texts[n])]
            area(n) == Node(areas[n].title, "all", <<>>, areas[n].rules \o checks(areas[n].unparsed))
            made == [n \in DOMAIN areas |-> area(n)]
<1>1. "all" \in NodeKinds /\ <<>> \in Seq(M)
  BY DEF NodeKinds
<1>2. \A n \in 1 .. Len(areas) : area(n) \in Level2(L, M)
  <2>1. SUFFICES ASSUME NEW n \in 1 .. Len(areas) PROVE area(n) \in Level2(L, M)
    OBVIOUS
  <2>. PICK a \in AreaSet(L, M) : a = areas[n]
    BY ElementOfSeq
  <2>. PICK own \in Seq(Level1(L, M)), unparsed \in Seq(L) : own = a.rules /\ unparsed = a.unparsed
    BY AreaParts
  <2>. PICK rest \in Seq(Level1(L, M)) : rest = checks(unparsed)
    <3>1. checks(unparsed) \in Seq(Level0(L, M))
      BY ChecksType
    <3>2. Seq(Level0(L, M)) \subseteq Seq(Level1(L, M))
      BY Level012, SeqMonotonic
    <3>. HIDE DEF checks
    <3>. QED
      BY <3>1, <3>2
  <2>. PICK of \in Seq(Level1(L, M)) : of = own \o rest
    BY ConcatProperties
  <2>2. area(n) = Node(a.title, "all", <<>>, of)
    OBVIOUS
  <2>3. a.title \in L
    BY AreaParts
  <2>. QED
    BY <1>1, <2>2, <2>3 DEF Node, NodesOf, Level2
<1>3. made \in Seq(Level2(L, M))
  <2>. PICK k \in Nat : k = Len(areas)
    OBVIOUS
  <2>1. DOMAIN areas = 1 .. k
    BY LenProperties
  <2>2. \A n \in 1 .. k : area(n) \in Level2(L, M)
    BY <1>2
  <2>3. [n \in 1 .. k |-> area(n)] \in Seq(Level2(L, M))
    <3>. HIDE DEF area
    <3>. QED
      BY <2>2, IsASeq
  <2>. QED
    BY <2>1, <2>3
<1>. PICK parts \in Seq(Level2(L, M)) : parts = made
  BY <1>3
<1>. PICK notes \in Seq(Level2(L, M)) : notes = checks(footnotes)
  <2>1. checks(footnotes) \in Seq(Level0(L, M))
    BY ChecksType
  <2>2. Seq(Level0(L, M)) \subseteq Seq(Level2(L, M))
    BY Level012, SeqMonotonic
  <2>. HIDE DEF checks, made
  <2>. QED
    BY <2>1, <2>2
<1>. PICK of \in Seq(Level2(L, M)) : of = parts \o notes
  BY ConcatProperties
<1>4. IntoProgram([areas |-> areas, aliases |-> aliases, footnotes |-> footnotes, title |-> title])
        = Node(title, "all", <<>>, of)
  BY DEF IntoProgram
<1>5. Node(title, "all", <<>>, of) \in Level3(L, M)
  BY <1>1 DEF Node, NodesOf, Level3
<1>. QED
  BY ONLY <1>4, <1>5

-----------------------------------------------------------------------------
(* What a page says.  A row that is taken up is said by the reading from    *)
(* then on, and no later row takes it back.                                 *)

\* What a reading says: the labels, filters, texts and codes it has taken up.
LeafSays(node, x) == x = node.label \/ \E i \in DOMAIN node.filter : x = node.filter[i]
NodeSays(node, x) == LeafSays(node, x) \/ \E i \in DOMAIN node.of : LeafSays(node.of[i], x)
TextSays(text, x) == x = text \/ (text[1] = "or" /\ \E c \in ToSet(text[2]) : x = Code(c))
AreaSays(area, x) == \/ x = area.title
                     \/ \E i \in DOMAIN area.rules : NodeSays(area.rules[i], x)
                     \/ \E i \in DOMAIN area.unparsed : TextSays(area.unparsed[i], x)
GroupSays(g, x) == g.kind # "none" /\ \/ x = g.label
                                      \/ \E i \in DOMAIN g.options : LeafSays(g.options[i], x)
                                      \/ \E i \in DOMAIN g.include : x = g.include[i]
AreasSay(areas, x) == \E i \in DOMAIN areas : AreaSays(areas[i], x)
AliasesSay(aliases, x) == \E i \in DOMAIN aliases : \E c \in aliases[i] : x = Code(c)
Says(page, x) == AreasSay(page.areas, x) \/ GroupSays(page.group, x) \/ AliasesSay(page.aliases, x)
AreaKeeps(a, b) == \A x : AreaSays(a, x) => AreaSays(b, x)
SaysOn(page, after) == \A x : Says(page, x) => Says(after, x)
AreaTold(area, after) == \A x : AreaSays(area, x) => Says(after, x)
NodeTold(node, after) == \A x : NodeSays(node, x) => Says(after, x)
TextTold(text, after) == \A x : TextSays(text, x) => Says(after, x)
GroupTold(g, after) == \A x : GroupSays(g, x) => Says(after, x)
GroupKeeps(g, h) == \A x : GroupSays(g, x) => GroupSays(h, x)

\* A list with one more at its end, or with one replaced; a page with other areas.
Lengthened(list, elt, longer) == /\ \A i \in DOMAIN list : i \in DOMAIN longer /\ longer[i] = list[i]
                                 /\ \E i \in DOMAIN longer : longer[i] = elt
Exchanged(list, n, elt, after) == /\ DOMAIN after = DOMAIN list /\ n \in DOMAIN list /\ after[n] = elt
                                 /\ \A i \in DOMAIN list : i # n => after[i] = list[i]
SameBut(page, after) == after.group = page.group /\ after.summary = page.summary /\ after.aliases = page.aliases

LEMMA KeepsOn == ASSUME NEW p, NEW q, NEW r, SaysOn(p, q), SaysOn(q, r) PROVE SaysOn(p, r)
BY DEF SaysOn

LEMMA LastOf ==
  ASSUME NEW S, NEW list \in Seq(S), list # <<>>
  PROVE  Len(list) \in 1 .. Len(list) /\ list[Len(list)] \in S /\ DOMAIN list = 1 .. Len(list)
<1>1. Len(list) \in Nat \ {0}
  BY EmptySeq
<1>. QED
  BY <1>1, ElementOfSeq, LenProperties

\* A list with one more keeps what it has.
LEMMA OneMore ==
  ASSUME NEW S, NEW list \in Seq(S), NEW elt \in S, NEW longer, longer = Append(list, elt)
  PROVE  Lengthened(list, elt, longer)
<1>. PICK k \in Nat : k = Len(list)
  OBVIOUS
<1>1. /\ Len(longer) = k + 1 /\ longer \in Seq(S) /\ (\A i \in 1 .. k : longer[i] = list[i]) /\ longer[k + 1] = elt
  BY AppendProperties
<1>2. DOMAIN list = 1 .. k /\ DOMAIN longer = 1 .. (k + 1)
  BY <1>1, LenProperties
<1>. QED
  BY <1>1, <1>2 DEF Lengthened

LEMMA OneElse ==
  ASSUME NEW S, NEW list \in Seq(S), NEW n \in DOMAIN list, NEW elt, NEW after, after = [list EXCEPT ![n] = elt]
  PROVE  Exchanged(list, n, elt, after)
BY DEF Exchanged

\* One area of a page that says more.
LEMMA AreaGrows ==
  ASSUME NEW page, NEW after, SameBut(page, after), NEW n, NEW new,
         Exchanged(page.areas, n, new, after.areas), AreaKeeps(page.areas[n], new)
  PROVE  SaysOn(page, after) /\ AreaTold(new, after)
<1>1. ASSUME NEW x, AreasSay(page.areas, x) PROVE AreasSay(after.areas, x)
  BY <1>1 DEF AreasSay, AreaKeeps, Exchanged
<1>2. \A x : AreaSays(new, x) => AreasSay(after.areas, x)
  BY DEF AreasSay, Exchanged
<1>3. SaysOn(page, after)
  <2>. SUFFICES ASSUME NEW x, Says(page, x) PROVE Says(after, x)
    BY DEF SaysOn
  <2>. QED
    BY <1>1 DEF Says, SameBut
<1>. QED
  BY <1>2, <1>3 DEF Says, AreaTold

\* The group of a page that says more.
LEMMA GroupGrows ==
  ASSUME NEW L, NEW M, NEW A, NEW page \in PageStates(L, M, A), NEW g,
         GroupKeeps(page.group, g), NEW after, after = [page EXCEPT !.group = g]
  PROVE  /\ SaysOn(page, after) /\ GroupTold(g, after)
         /\ after.group = g /\ after.summary = page.summary
<1>1. /\ after.areas = page.areas /\ after.group = g /\ after.summary = page.summary
      /\ after.aliases = page.aliases
  BY DEF PageStates
<1>. QED
  BY <1>1 DEF Says, SaysOn, GroupTold, GroupKeeps

LEMMA PlacedKeeps ==
  ASSUME NEW L, NEW M, NEW A, NEW page \in PageStates(L, M, A)
  PROVE  SaysOn(page, Placed(page)) /\ Placed(page).group = page.group /\ Placed(page).summary = page.summary
<1>1. CASE page.areas # <<>>
  BY <1>1 DEF Placed, SaysOn
<1>2. CASE page.areas = <<>>
  <2>. PICK p : p = [page EXCEPT !.areas = <<Area(NoText)>>]
    OBVIOUS
  <2>1. Placed(page) = p
    BY <1>2 DEF Placed
  <2>2. p.group = page.group /\ p.summary = page.summary /\ p.aliases = page.aliases
    BY DEF PageStates
  <2>3. \A x : ~AreasSay(page.areas, x)
    BY <1>2 DEF AreasSay
  <2>. QED
    BY <2>1, <2>2, <2>3 DEF SaysOn, Says
<1>. QED
  BY <1>1, <1>2

LEMMA AddRuleSays ==
  ASSUME NEW L, NEW M, NEW A, NoText \in L, NEW page \in PageStates(L, M, A), NEW rule \in Level1(L, M),
         NEW after, after = AddRule(page, rule)
  PROVE  /\ SaysOn(page, after) /\ NodeTold(rule, after)
         /\ after.group = page.group /\ after.summary = page.summary
<1>. PICK p \in PageStates(L, M, A) : p = Placed(page) /\ p.areas # <<>>
  BY PlacedType
<1>. PICK areas \in Seq(AreaSet(L, M)) : areas = p.areas
  BY PageParts
<1>. PICK n \in DOMAIN areas : n = Len(areas)
  BY LastOf
<1>. PICK area \in AreaSet(L, M) : area = areas[n]
  BY LastOf
<1>. PICK parts \in Seq(Level1(L, M)) : parts = area.rules
  BY AreaParts
<1>. PICK longer \in Seq(Level1(L, M)) : longer = Append(parts, rule)
  BY AppendProperties
<1>. PICK new \in AreaSet(L, M) : new = [area EXCEPT !.rules = longer]
  BY AreaParts
<1>1. after = [p EXCEPT !.areas = [areas EXCEPT ![n] = new]]
  <2>1. AddRule(page, rule) = [p EXCEPT !.areas[Len(p.areas)].rules = Append(@, rule)]
    BY DEF AddRule
  <2>2. [p EXCEPT !.areas[Len(p.areas)].rules = Append(@, rule)] = [p EXCEPT !.areas = [areas EXCEPT ![n] = new]]
    OBVIOUS
  <2>. QED
    BY <2>1, <2>2
<1>2. new.title = area.title /\ new.unparsed = area.unparsed /\ new.rules = longer
  BY DEF AreaSet
<1>3. Lengthened(parts, rule, longer)
  BY OneMore
<1>4. AreaKeeps(area, new)
  BY <1>2, <1>3 DEF AreaKeeps, AreaSays, Lengthened
<1>5. \A x : NodeSays(rule, x) => AreaSays(new, x)
  BY <1>2, <1>3 DEF AreaSays, Lengthened
<1>6. SaysOn(p, after) /\ AreaTold(new, after) /\ SameBut(p, after)
  <2>. PICK more : more = [areas EXCEPT ![n] = new]
    OBVIOUS
  <2>1. after.areas = more /\ SameBut(p, after)
    BY <1>1 DEF PageStates, SameBut
  <2>2. Exchanged(p.areas, n, new, after.areas)
    BY <2>1, OneElse
  <2>3. AreaKeeps(p.areas[n], new)
    BY <1>4
  <2>. QED
    BY ONLY <2>1, <2>2, <2>3, AreaGrows
<1>7. SaysOn(page, p) /\ p.group = page.group /\ p.summary = page.summary
  BY PlacedKeeps
<1>8. NodeTold(rule, after)
  BY <1>5, <1>6 DEF AreaTold, NodeTold
<1>. QED
  BY <1>6, <1>7, <1>8, KeepsOn DEF SameBut

LEMMA UnparsedSays ==
  ASSUME NEW L, NEW M, NEW A, NoText \in L, NEW page \in PageStates(L, M, A), NEW text \in L,
         NEW after, after = Unparsed(page, text)
  PROVE  /\ SaysOn(page, after) /\ TextTold(text, after)
         /\ after.group = page.group /\ after.summary = page.summary
<1>. PICK p \in PageStates(L, M, A) : p = Placed(page) /\ p.areas # <<>>
  BY PlacedType
<1>. PICK areas \in Seq(AreaSet(L, M)) : areas = p.areas
  BY PageParts
<1>. PICK n \in DOMAIN areas : n = Len(areas)
  BY LastOf
<1>. PICK area \in AreaSet(L, M) : area = areas[n]
  BY LastOf
<1>. PICK parts \in Seq(L) : parts = area.unparsed
  BY AreaParts
<1>. PICK longer \in Seq(L) : longer = Append(parts, text)
  BY AppendProperties
<1>. PICK new \in AreaSet(L, M) : new = [area EXCEPT !.unparsed = longer]
  BY AreaParts
<1>1. after = [p EXCEPT !.areas = [areas EXCEPT ![n] = new]]
  <2>1. Unparsed(page, text) = [p EXCEPT !.areas[Len(p.areas)].unparsed = Append(@, text)]
    BY DEF Unparsed
  <2>2. [p EXCEPT !.areas[Len(p.areas)].unparsed = Append(@, text)] = [p EXCEPT !.areas = [areas EXCEPT ![n] = new]]
    OBVIOUS
  <2>. QED
    BY <2>1, <2>2
<1>2. new.title = area.title /\ new.rules = area.rules /\ new.unparsed = longer
  BY DEF AreaSet
<1>3. Lengthened(parts, text, longer)
  BY OneMore
<1>4. AreaKeeps(area, new)
  BY <1>2, <1>3 DEF AreaKeeps, AreaSays, Lengthened
<1>5. \A x : TextSays(text, x) => AreaSays(new, x)
  BY <1>2, <1>3 DEF AreaSays, Lengthened
<1>6. SaysOn(p, after) /\ AreaTold(new, after) /\ SameBut(p, after)
  <2>. PICK more : more = [areas EXCEPT ![n] = new]
    OBVIOUS
  <2>1. after.areas = more /\ SameBut(p, after)
    BY <1>1 DEF PageStates, SameBut
  <2>2. Exchanged(p.areas, n, new, after.areas)
    BY <2>1, OneElse
  <2>3. AreaKeeps(p.areas[n], new)
    BY <1>4
  <2>. QED
    BY ONLY <2>1, <2>2, <2>3, AreaGrows
<1>7. SaysOn(page, p) /\ p.group = page.group /\ p.summary = page.summary
  BY PlacedKeeps
<1>8. TextTold(text, after)
  BY <1>5, <1>6 DEF AreaTold, TextTold
<1>. QED
  BY <1>6, <1>7, <1>8, KeepsOn DEF SameBut

LEMMA OpenGroupSays ==
  ASSUME NEW L, NEW M, NEW A, NEW page \in PageStates(L, M, A), page.group.kind = "none",
         NEW kind \in {"all", "select", "credits"}, NEW text, NEW after, after = OpenGroup(page, kind, text)
  PROVE  SaysOn(page, after) /\ Says(after, text) /\ after.summary = page.summary
<1>. PICK g : g = [kind |-> kind, label |-> text, options |-> <<>>, include |-> <<>>]
  OBVIOUS
<1>1. after = [page EXCEPT !.group = g]
  BY DEF OpenGroup
<1>2. GroupKeeps(page.group, g) /\ GroupSays(g, text)
  BY DEF GroupSays, GroupKeeps
<1>. QED
  BY <1>1, <1>2, GroupGrows DEF GroupTold

\* A group that ends is a rule or, with nothing in it, a text.
LEMMA CloseGroupSays ==
  ASSUME NEW L, NEW M, NEW A, NoText \in L, NEW page \in PageStates(L, M, A), NEW after, after = CloseGroup(page)
  PROVE  SaysOn(page, after) /\ after.group.kind = "none" /\ after.summary = page.summary
<1>1. CASE page.group.kind = "none"
  BY <1>1 DEF CloseGroup, SaysOn
<1>2. CASE page.group.kind # "none"
  <2>. PICK g \in GroupSet(L, M) : g = page.group
    BY <1>2, PageParts DEF NoGroup
  <2>. PICK p \in PageStates(L, M, A) : p = [page EXCEPT !.group = NoGroup]
    BY PageParts
  <2>1. /\ p.group.kind = "none" /\ p.summary = page.summary
        /\ \A x : Says(page, x) => Says(p, x) \/ GroupSays(g, x)
    <3>1. /\ p.group = NoGroup /\ p.summary = page.summary /\ p.areas = page.areas /\ p.aliases = page.aliases
      BY DEF PageStates
    <3>. QED
      BY <3>1 DEF Says, NoGroup
  <2>2. CASE g.options = <<>> /\ g.include = <<>>
    <3>1. after = Unparsed(p, g.label)
      BY <1>2, <2>2 DEF CloseGroup
    <3>2. g.label \in L
      BY GroupParts
    <3>3. \A x : GroupSays(g, x) => TextSays(g.label, x)
      BY <2>2 DEF GroupSays, TextSays
    <3>4. /\ SaysOn(p, after) /\ TextTold(g.label, after)
          /\ after.group = p.group /\ after.summary = p.summary
      BY ONLY <3>1, <3>2, UnparsedSays, NoText \in L, p \in PageStates(L, M, A)
    <3>. QED
      BY <2>1, <3>3, <3>4 DEF SaysOn, TextTold
  <2>3. CASE ~(g.options = <<>> /\ g.include = <<>>)
    <3>. PICK node \in Level1(L, M) : node = Node(g.label, g.kind, g.include, g.options)
      BY GroupParts, Levels01
    <3>1. after = AddRule(p, node)
      BY <1>2, <2>3 DEF CloseGroup
    <3>2. node.label = g.label /\ node.filter = g.include /\ node.of = g.options
      BY DEF Node
    <3>3. \A x : GroupSays(g, x) => NodeSays(node, x)
      BY <3>2 DEF GroupSays, NodeSays, LeafSays
    <3>4. /\ SaysOn(p, after) /\ NodeTold(node, after)
          /\ after.group = p.group /\ after.summary = p.summary
      BY ONLY <3>1, AddRuleSays, NoText \in L, p \in PageStates(L, M, A), node \in Level1(L, M)
    <3>. QED
      BY <2>1, <3>3, <3>4 DEF SaysOn, NodeTold
  <2>. QED
    BY <2>2, <2>3
<1>. QED
  BY <1>1, <1>2

LEMMA OptionSays ==
  ASSUME NEW L, NEW M, NEW A, NEW page \in PageStates(L, M, A), page.group \in GroupSet(L, M), NEW rule \in Level0(L, M),
         NEW after, after = [page EXCEPT !.group.options = Append(@, rule)]
  PROVE  SaysOn(page, after) /\ (\A x : LeafSays(rule, x) => Says(after, x)) /\ after.summary = page.summary
<1>. PICK g \in GroupSet(L, M) : g = page.group
  OBVIOUS
<1>. PICK options \in Seq(Level0(L, M)) : options = g.options
  BY GroupParts
<1>. PICK longer \in Seq(Level0(L, M)) : longer = Append(options, rule)
  BY AppendProperties
<1>. PICK h : h = [g EXCEPT !.options = longer]
  OBVIOUS
<1>1. after = [page EXCEPT !.group = h]
  OBVIOUS
<1>2. h.kind = g.kind /\ h.kind # "none" /\ h.label = g.label /\ h.include = g.include /\ h.options = longer
  BY DEF GroupSet
<1>3. Lengthened(options, rule, longer)
  BY OneMore
<1>4. GroupKeeps(g, h) /\ \A x : LeafSays(rule, x) => GroupSays(h, x)
  BY <1>2, <1>3 DEF GroupKeeps, GroupSays, Lengthened
<1>5. SaysOn(page, after) /\ GroupTold(h, after) /\ after.summary = page.summary
  BY ONLY <1>1, <1>4, GroupGrows, g = page.group, page \in PageStates(L, M, A)
<1>. QED
  BY <1>4, <1>5 DEF GroupTold

LEMMA IncludeSays ==
  ASSUME NEW L, NEW M, NEW A, NEW page \in PageStates(L, M, A), page.group \in GroupSet(L, M), NEW mark \in M,
         NEW after, after = [page EXCEPT !.group.include = Append(@, mark)]
  PROVE  SaysOn(page, after) /\ Says(after, mark) /\ after.summary = page.summary
<1>. PICK g \in GroupSet(L, M) : g = page.group
  OBVIOUS
<1>. PICK include \in Seq(M) : include = g.include
  BY GroupParts
<1>. PICK longer \in Seq(M) : longer = Append(include, mark)
  BY AppendProperties
<1>. PICK h : h = [g EXCEPT !.include = longer]
  OBVIOUS
<1>1. after = [page EXCEPT !.group = h]
  OBVIOUS
<1>2. h.kind = g.kind /\ h.kind # "none" /\ h.label = g.label /\ h.options = g.options /\ h.include = longer
  BY DEF GroupSet
<1>3. Lengthened(include, mark, longer)
  BY OneMore
<1>4. GroupKeeps(g, h) /\ GroupSays(h, mark)
  BY <1>2, <1>3 DEF GroupKeeps, GroupSays, Lengthened
<1>5. SaysOn(page, after) /\ GroupTold(h, after) /\ after.summary = page.summary
  <2>1. GroupKeeps(page.group, h)
    BY <1>4
  <2>. QED
    BY ONLY <1>1, <2>1, GroupGrows, page \in PageStates(L, M, A)
<1>. QED
  BY <1>4, <1>5 DEF GroupTold

\* An `or' row adds its code to the last rule of a list.
JoinedTo(list, joined, mark) ==
  /\ DOMAIN joined = DOMAIN list
  /\ \A i \in DOMAIN list : joined[i].of = list[i].of /\ \A x : LeafSays(list[i], x) => LeafSays(joined[i], x)
  /\ \E i \in DOMAIN joined : LeafSays(joined[i], mark)

LEMMA JoinedSays ==
  ASSUME NEW L, NEW M, NEW Of, NEW list \in Seq(NodesOf(L, M, Of)), list # <<>>, NEW codes, Code(codes[1]) \in M,
         NEW joined, joined = Joined(list, codes)
  PROVE  JoinedTo(list, joined, Code(codes[1]))
<1>. PICK n \in DOMAIN list : n = Len(list)
  BY LastOf
<1>. PICK rule \in NodesOf(L, M, Of) : rule = list[n]
  BY LastOf
<1>. PICK mark \in M : mark = Code(codes[1])
  OBVIOUS
<1>. PICK filter \in Seq(M) : filter = rule.filter
  BY DEF NodesOf
<1>. PICK longer \in Seq(M) : longer = Append(filter, mark)
  BY AppendProperties
<1>. PICK new : new = [rule EXCEPT !.filter = longer]
  OBVIOUS
<1>1. joined = [list EXCEPT ![n] = new]
  BY DEF Joined
<1>2. Exchanged(list, n, new, joined)
  BY <1>1, OneElse
<1>3. new.label = rule.label /\ new.of = rule.of /\ new.filter = longer
  BY DEF NodesOf
<1>4. Lengthened(filter, mark, longer)
  BY OneMore
<1>5. (\A x : LeafSays(rule, x) => LeafSays(new, x)) /\ LeafSays(new, mark)
  BY <1>3, <1>4 DEF LeafSays, Lengthened
<1>. QED
  BY <1>2, <1>3, <1>5 DEF JoinedTo, Exchanged

\* The aliases a row brings say all its codes but, maybe, the first.
LEMMA WithAliasesSays ==
  ASSUME NEW L, NEW M, NEW C, NEW page \in PageStates(L, M, SUBSET C), NEW codes \in Seq(C),
         NEW after, after = WithAliases(page, codes)
  PROVE  /\ SaysOn(page, after) /\ after.group = page.group /\ after.summary = page.summary
         /\ \A i \in DOMAIN codes : i # 1 => Says(after, Code(codes[i]))
<1>. PICK k \in Nat : k = Len(codes) /\ DOMAIN codes = 1 .. k
  OBVIOUS
<1>. PICK aliases \in Seq(SUBSET C) : aliases = page.aliases
  BY PageParts
<1>. PICK j \in Nat : j = Len(aliases) /\ DOMAIN aliases = 1 .. j
  OBVIOUS
<1>. PICK pairs : pairs = [n \in 1 .. (k - 1) |-> {codes[1], codes[n + 1]}]
  OBVIOUS
<1>. PICK more : more = aliases \o pairs
  OBVIOUS
<1>0. after = [page EXCEPT !.aliases = more]
  BY DEF WithAliases
<1>1. /\ after.aliases = more /\ after.group = page.group /\ after.summary = page.summary
      /\ after.areas = page.areas
  BY <1>0 DEF PageStates
<1>2. CASE k = 0
  <2>1. pairs = <<>>
    BY <1>2
  <2>2. aliases \o <<>> = aliases
    BY ConcatEmptySeq
  <2>3. more = aliases
    BY <2>1, <2>2
  <2>. QED
    BY <1>1, <1>2, <2>3 DEF SaysOn, Says
<1>3. CASE k # 0
  <2>0. k - 1 \in Nat
    BY ONLY <1>3, k \in Nat
  <2>. PICK l \in Nat : l = k - 1
    BY <2>0
  <2>1. pairs \in Seq(SUBSET C) /\ Len(pairs) = l
    <3>1. \A n \in 1 .. l : {codes[1], codes[n + 1]} \in SUBSET C
      <4>1. \A i \in 1 .. k : codes[i] \in C
        BY ElementOfSeq
      <4>. QED
        BY <1>3, <4>1
    <3>2. [n \in 1 .. l |-> {codes[1], codes[n + 1]}] \in Seq(SUBSET C)
      BY <3>1, IsASeq
    <3>. QED
      BY <3>2
  <2>2. /\ more \in Seq(SUBSET C) /\ Len(more) = j + l
        /\ \A i \in 1 .. j + l : more[i] = IF i <= j THEN aliases[i] ELSE pairs[i - j]
    BY <2>1, ConcatProperties
  <2>3. DOMAIN more = 1 .. j + l
    BY <2>2, LenProperties
  <2>4. \A i \in DOMAIN aliases : i \in DOMAIN more /\ more[i] = aliases[i]
    BY <2>2, <2>3
  <2>5. \A x : AliasesSay(aliases, x) => AliasesSay(more, x)
    BY <2>4 DEF AliasesSay
  <2>6. ASSUME NEW i \in DOMAIN codes, i # 1 PROVE AliasesSay(more, Code(codes[i]))
    <3>0. i \in 1 .. k
      OBVIOUS
    <3>. PICK n \in 1 .. l : i = n + 1
      <4>1. i - 1 \in 1 .. l /\ i = (i - 1) + 1
        BY ONLY <3>0, <2>6, k \in Nat, l = k - 1
      <4>. QED
        BY ONLY <4>1
    <3>. PICK m \in 1 .. j + l : m = j + n
      OBVIOUS
    <3>1. more[m] = pairs[n]
      <4>1. ~(m <= j) /\ m - j = n
        OBVIOUS
      <4>. QED
        BY <2>2, <4>1
    <3>2. codes[i] \in pairs[n]
      OBVIOUS
    <3>. QED
      BY <2>3, <3>1, <3>2 DEF AliasesSay
  <2>7. SaysOn(page, after)
    BY <1>1, <2>5 DEF SaysOn, Says
  <2>. QED
    BY <1>1, <2>6, <2>7 DEF Says
<1>. QED
  BY <1>2, <1>3

CodesTold(codes, after) == \A i \in DOMAIN codes : Says(after, Code(codes[i]))

LEMMA CourseRowSays ==
  ASSUME NEW L, NEW M, NEW C, NoText \in L, NEW page \in PageStates(L, M, SUBSET C), NEW tr,
         tr.text \in L, tr.codes \in Seq(C), Code(tr.codes[1]) \in M, NEW after, after = CourseRow(page, tr)
  PROVE  SaysOn(page, after) /\ CodesTold(tr.codes, after) /\ after.summary = page.summary
<1>. PICK mark \in M : mark = Code(tr.codes[1])
  OBVIOUS
<1>. PICK p \in PageStates(L, M, SUBSET C) : p = WithAliases(page, tr.codes)
  BY WithAliasesType
<1>1. /\ SaysOn(page, p) /\ p.group = page.group /\ p.summary = page.summary
      /\ \A i \in DOMAIN tr.codes : i # 1 => Says(p, Code(tr.codes[i]))
  BY WithAliasesSays
<1>. PICK rule \in Level0(L, M) : rule = Node(tr.text, "course", <<mark>>, <<>>)
  <2>1. <<mark>> \in Seq(M) /\ "course" \in NodeKinds
    BY DEF NodeKinds
  <2>. QED
    BY <2>1, Levels01
<1>2. LeafSays(rule, mark) /\ NodeSays(rule, mark)
  <2>1. rule.filter = <<mark>>
    BY DEF Node
  <2>2. 1 \in DOMAIN <<mark>> /\ <<mark>>[1] = mark
    OBVIOUS
  <2>. QED
    BY <2>1, <2>2 DEF LeafSays, NodeSays
<1>3. page.group.kind # "none" => p.group \in GroupSet(L, M)
  BY <1>1, PageParts DEF NoGroup
<1>4. SUFFICES SaysOn(p, after) /\ Says(after, mark) /\ after.summary = p.summary
  <2>. SUFFICES ASSUME SaysOn(p, after) /\ Says(after, mark) /\ after.summary = p.summary
                PROVE  CodesTold(tr.codes, after)
    BY <1>1, KeepsOn
  <2>. QED
    BY <1>1 DEF CodesTold, SaysOn
<1>5. CASE page.group.kind \in {"all", "select"} /\ after = [p EXCEPT !.group.options = Append(@, rule)]
  <2>1. p.group \in GroupSet(L, M)
    BY <1>3, <1>5
  <2>2. SaysOn(p, after) /\ (\A x : LeafSays(rule, x) => Says(after, x)) /\ after.summary = p.summary
    <3>1. after = [p EXCEPT !.group.options = Append(@, rule)]
      BY <1>5
    <3>. QED
      BY ONLY <2>1, <3>1, OptionSays, p \in PageStates(L, M, SUBSET C), rule \in Level0(L, M)
  <2>. QED
    BY <1>2, <2>2
<1>6. CASE page.group.kind = "credits" /\ after = [p EXCEPT !.group.include = Append(@, mark)]
  <2>1. p.group \in GroupSet(L, M)
    BY <1>3, <1>6
  <2>2. after = [p EXCEPT !.group.include = Append(@, mark)]
    BY <1>6
  <2>. QED
    BY ONLY <2>1, <2>2, IncludeSays, p \in PageStates(L, M, SUBSET C), mark \in M
<1>7. CASE after = AddRule(CloseGroup(p), rule)
  <2>. PICK q \in PageStates(L, M, SUBSET C) : q = CloseGroup(p)
    BY CloseGroupType
  <2>1. SaysOn(p, q) /\ q.summary = p.summary
    BY CloseGroupSays
  <2>. PICK node \in Level1(L, M) : node = rule
    BY Levels01
  <2>2. after = AddRule(q, node)
    BY <1>7
  <2>3. SaysOn(q, after) /\ NodeTold(node, after) /\ after.summary = q.summary
    BY ONLY <2>2, AddRuleSays, NoText \in L, q \in PageStates(L, M, SUBSET C), node \in Level1(L, M)
  <2>. QED
    BY <1>2, <2>1, <2>3, KeepsOn DEF NodeTold
<1>8. \/ page.group.kind \in {"all", "select"} /\ after = [p EXCEPT !.group.options = Append(@, rule)]
      \/ page.group.kind = "credits" /\ after = [p EXCEPT !.group.include = Append(@, mark)]
      \/ after = AddRule(CloseGroup(p), rule)
  BY DEF CourseRow
<1>. QED
  BY <1>5, <1>6, <1>7, <1>8

\* An `or' row joins the rule above it, or stays a text that spells its codes.
LEMMA OrRowSays ==
  ASSUME NEW L, NEW M, NEW C, NoText \in L, NEW page \in PageStates(L, M, SUBSET C), NEW codes \in Seq(C),
         Code(codes[1]) \in M, <<"or", codes>> \in L, NEW after, after = OrRow(page, codes)
  PROVE  SaysOn(page, after) /\ CodesTold(codes, after) /\ after.summary = page.summary
<1>. DEFINE g == page.group
            n == Len(page.areas)
<1>. PICK mark \in M : mark = Code(codes[1])
  OBVIOUS
<1>1. g.kind # "none" => g \in GroupSet(L, M)
  BY PageParts DEF NoGroup
<1>2. ASSUME NEW p \in PageStates(L, M, SUBSET C), SaysOn(page, p), Says(p, mark), p.summary = page.summary,
             after = WithAliases(p, codes)
      PROVE  SaysOn(page, after) /\ CodesTold(codes, after) /\ after.summary = page.summary
  <2>1. /\ SaysOn(p, after) /\ after.summary = p.summary
        /\ \A i \in DOMAIN codes : i # 1 => Says(after, Code(codes[i]))
    BY <1>2, WithAliasesSays
  <2>. QED
    BY <1>2, <2>1, KeepsOn DEF CodesTold, SaysOn
<1>3. CASE g.kind = "credits"
  <2>1. after = WithAliases([page EXCEPT !.group.include = Append(@, mark)], codes)
    BY <1>3 DEF OrRow
  <2>. PICK p \in PageStates(L, M, SUBSET C) : p = [page EXCEPT !.group.include = Append(@, mark)]
    BY <1>1, <1>3, IncludeType
  <2>2. SaysOn(page, p) /\ Says(p, mark) /\ p.summary = page.summary
    <3>1. page.group \in GroupSet(L, M)
      BY <1>1, <1>3
    <3>. QED
      BY ONLY <3>1, IncludeSays, page \in PageStates(L, M, SUBSET C), mark \in M,
              p = [page EXCEPT !.group.include = Append(@, mark)]
  <2>. QED
    BY <1>2, <2>1, <2>2
<1>4. CASE g.kind \in {"select", "all"} /\ CanJoin(g.options)
  <2>1. after = WithAliases([page EXCEPT !.group.options = Joined(@, codes)], codes)
    BY <1>4 DEF OrRow
  <2>. PICK h \in GroupSet(L, M) : h = page.group
    BY <1>1, <1>4
  <2>. PICK list \in Seq(Level0(L, M)) : list = h.options /\ list # <<>>
    BY <1>4, GroupParts DEF CanJoin
  <2>. PICK options \in Seq(Level0(L, M)) : options = Joined(list, codes)
    BY JoinedType DEF Level0
  <2>2. JoinedTo(list, options, mark)
    BY JoinedSays DEF Level0
  <2>. PICK k \in GroupSet(L, M) : k = [h EXCEPT !.options = options]
    BY GroupParts
  <2>. PICK p \in PageStates(L, M, SUBSET C) : p = [page EXCEPT !.group = k]
    BY PageParts
  <2>3. after = WithAliases(p, codes)
    <3>1. [page EXCEPT !.group.options = Joined(@, codes)] = [page EXCEPT !.group = k]
      OBVIOUS
    <3>. QED
      BY <2>1, <3>1
  <2>4. /\ k.kind = h.kind /\ k.kind # "none" /\ k.label = h.label /\ k.include = h.include
        /\ k.options = options
    BY DEF GroupSet
  <2>5. GroupKeeps(page.group, k) /\ GroupSays(k, mark)
    BY <2>2, <2>4 DEF GroupKeeps, GroupSays, JoinedTo
  <2>6. SaysOn(page, p) /\ GroupTold(k, p) /\ p.summary = page.summary
    BY ONLY <2>5, GroupGrows, page \in PageStates(L, M, SUBSET C), p = [page EXCEPT !.group = k]
  <2>. QED
    BY <1>2, <2>3, <2>5, <2>6 DEF GroupTold
<1>5. CASE g.kind = "none" /\ n > 0 /\ CanJoin(page.areas[n].rules)
  <2>1. after = WithAliases([page EXCEPT !.areas[n].rules = Joined(@, codes)], codes)
    BY <1>5 DEF OrRow
  <2>. PICK areas \in Seq(AreaSet(L, M)) : areas = page.areas
    BY PageParts
  <2>. PICK m \in 1 .. Len(areas) : m = n
    <3>1. Len(areas) \in Nat /\ n = Len(areas)
      BY LenProperties
    <3>. QED
      BY <1>5, <3>1
  <2>0. m \in DOMAIN areas
    BY LenProperties
  <2>. PICK area \in AreaSet(L, M) : area = areas[m]
    BY ElementOfSeq
  <2>. PICK old \in Seq(Level1(L, M)) : old = area.rules /\ old # <<>>
    BY <1>5, AreaParts DEF CanJoin
  <2>. PICK list \in Seq(Level1(L, M)) : list = Joined(old, codes)
    BY JoinedType DEF Level1
  <2>2. JoinedTo(old, list, mark)
    BY JoinedSays DEF Level1
  <2>. PICK new \in AreaSet(L, M) : new = [area EXCEPT !.rules = list]
    BY AreaParts
  <2>. PICK more \in Seq(AreaSet(L, M)) : more = [areas EXCEPT ![m] = new]
    BY ExceptSeq
  <2>. PICK p \in PageStates(L, M, SUBSET C) : p = [page EXCEPT !.areas = more]
    BY PageParts
  <2>3. after = WithAliases(p, codes)
    <3>1. [page EXCEPT !.areas[n].rules = Joined(@, codes)] = [page EXCEPT !.areas = more]
      OBVIOUS
    <3>. QED
      BY <2>1, <3>1
  <2>4. new.title = area.title /\ new.unparsed = area.unparsed /\ new.rules = list
    BY DEF AreaSet
  <2>5. (\A i \in DOMAIN old : \A x : NodeSays(old[i], x) => NodeSays(list[i], x)) /\ DOMAIN list = DOMAIN old
    <3>1. DOMAIN list = DOMAIN old
      BY <2>2 DEF JoinedTo
    <3>2. ASSUME NEW i \in DOMAIN old, NEW x, NodeSays(old[i], x) PROVE NodeSays(list[i], x)
      <4>1. list[i].of = old[i].of /\ (LeafSays(old[i], x) => LeafSays(list[i], x))
        BY <2>2 DEF JoinedTo
      <4>. QED
        BY <3>2, <4>1 DEF NodeSays
    <3>. QED
      BY <3>1, <3>2
  <2>6. AreaKeeps(area, new)
    BY <2>4, <2>5 DEF AreaKeeps, AreaSays
  <2>7. AreaSays(new, mark)
    BY <2>2, <2>4 DEF JoinedTo, AreaSays, NodeSays
  <2>8. SameBut(page, p) /\ Exchanged(page.areas, m, new, p.areas)
    <3>1. p.areas = more /\ SameBut(page, p)
      BY DEF PageStates, SameBut
    <3>. QED
      BY <2>0, <3>1, OneElse
  <2>9. SaysOn(page, p) /\ AreaTold(new, p)
    <3>1. AreaKeeps(page.areas[m], new)
      BY <2>6
    <3>. QED
      BY ONLY <2>8, <3>1, AreaGrows
  <2>. QED
    BY <1>2, <2>3, <2>7, <2>8, <2>9 DEF AreaTold, SameBut
<1>6. CASE after = Unparsed(page, <<"or", codes>>)
  <2>. PICK text \in L : text = <<"or", codes>>
    OBVIOUS
  <2>1. SaysOn(page, after) /\ TextTold(text, after) /\ after.summary = page.summary
    BY ONLY <1>6, UnparsedSays, NoText \in L, page \in PageStates(L, M, SUBSET C), text \in L, text = <<"or", codes>>
  <2>2. \A i \in DOMAIN codes : codes[i] \in ToSet(codes)
    BY DEF ToSet
  <2>3. text[1] = "or" /\ text[2] = codes
    OBVIOUS
  <2>. QED
    BY <2>1, <2>2, <2>3 DEF CodesTold, TextTold, TextSays
<1>. QED
  BY <1>3, <1>4, <1>5, <1>6 DEF OrRow

\* Whether a row stands under a total; what a row says then.
Heads(rows, n) == {m \in 1 .. n : Classify(rows[m]) \in {"area", "subtotal"}}
Under(rows, n) == /\ Heads(rows, n) # {}
                  /\ Classify(rows[CHOOSE m \in Heads(rows, n) : \A k \in Heads(rows, n) : k <= m]) = "subtotal"
TrSays(tr, summary, x) ==
  \/ Classify(tr) \in {"course", "or"} /\ \E i \in DOMAIN tr.codes : x = Code(tr.codes[i])
  \/ Classify(tr) \in {"area", "rule"} /\ x = tr.text
  \/ Classify(tr) = "comment" /\ ~summary /\ x = tr.text

LEMMA RowSaysIs ==
  ASSUME NEW page, NEW n, NEW x, x \in RowSays(page, n)
  PROVE  TrSays(page.rows[n], Under(page.rows, n), x)
<1>1. RowSays(page, n) =
        CASE Classify(page.rows[n]) \in {"course", "or"} ->
                {Code(page.rows[n].codes[i]) : i \in DOMAIN page.rows[n].codes}
          [] Classify(page.rows[n]) \in {"area", "rule"} \/ (Classify(page.rows[n]) = "comment" /\ ~Under(page.rows, n)) ->
                {page.rows[n].text}
          [] OTHER -> {}
  BY DEF RowSays, Under, Heads
<1>. QED
  BY <1>1 DEF TrSays

LEMMA UnderNext ==
  ASSUME NEW rows, NEW n \in Nat, NEW m, m = n + 1
  PROVE  /\ Classify(rows[m]) = "area" => ~Under(rows, m)
         /\ Classify(rows[m]) = "subtotal" => Under(rows, m)
         /\ Classify(rows[m]) \notin {"area", "subtotal"} => (Under(rows, m) <=> Under(rows, n))
<1>1. 1 .. m = (1 .. n) \cup {m} /\ m \in 1 .. m
  OBVIOUS
<1>2. CASE Classify(rows[m]) \notin {"area", "subtotal"}
  <2>1. Heads(rows, m) = Heads(rows, n)
    BY <1>1, <1>2 DEF Heads
  <2>. QED
    BY <1>2, <2>1 DEF Under
<1>3. CASE Classify(rows[m]) \in {"area", "subtotal"}
  <2>. PICK H : H = Heads(rows, m)
    OBVIOUS
  <2>1. m \in H /\ \A k \in H : k \in Nat /\ k <= m
    BY <1>1, <1>3 DEF Heads
  <2>. PICK top : top = CHOOSE h \in H : \A k \in H : k <= h
    OBVIOUS
  <2>2. top \in H /\ \A k \in H : k <= top
    BY <2>1
  <2>3. top = m
    <3>1. m <= top /\ top <= m /\ top \in Nat /\ m \in Nat
      BY <2>1, <2>2
    <3>. QED
      BY <3>1
  <2>. QED
    BY <1>3, <2>1, <2>3 DEF Under
<1>. QED
  BY <1>2, <1>3

\* A row is taken up: the page says what it said, and what the row says.
TakenUp(tr, page, after) ==
  /\ SaysOn(page, after) /\ (\A x : TrSays(tr, page.summary, x) => Says(after, x))
  /\ after.summary = IF Classify(tr) = "area" THEN FALSE
                     ELSE IF Classify(tr) = "subtotal" THEN TRUE ELSE page.summary

LEMMA OnRowSays ==
  ASSUME NEW L, NEW M, NEW C, NoText \in L, L \subseteq M,
         NEW page \in PageStates(L, M, SUBSET C), NEW tr, RowFits(tr, L, M, C), NEW after, after = OnRow(page, tr)
  PROVE  TakenUp(tr, page, after)
<1>. SUFFICES /\ SaysOn(page, after) /\ (\A x : TrSays(tr, page.summary, x) => Says(after, x))
              /\ after.summary = IF Classify(tr) = "area" THEN FALSE
                                 ELSE IF Classify(tr) = "subtotal" THEN TRUE ELSE page.summary
  BY DEF TakenUp
<1>. PICK p \in PageStates(L, M, SUBSET C) : p = CloseGroup(page)
  BY CloseGroupType
<1>0. SaysOn(page, p) /\ p.group.kind = "none" /\ p.summary = page.summary
  BY CloseGroupSays
<1>. PICK text \in L : text = tr.text
  BY DEF RowFits
<1>1. Classify(tr) \in {"course", "or"} => tr.codes # <<>>
  BY DEF Classify
<1>2. CASE Classify(tr) = "area"
  <2>. PICK areas \in Seq(AreaSet(L, M)) : areas = p.areas
    BY PageParts
  <2>. PICK area \in AreaSet(L, M) : area = Area(text)
    <3>1. <<>> \in Seq(Level1(L, M)) /\ <<>> \in Seq(L)
      OBVIOUS
    <3>. QED
      BY <3>1 DEF Area, AreaSet
  <2>. PICK more \in Seq(AreaSet(L, M)) : more = Append(areas, area)
    BY AppendProperties
  <2>1. after = [p EXCEPT !.summary = FALSE, !.areas = more]
    BY <1>2 DEF OnRow
  <2>2. after.summary = FALSE /\ after.areas = more /\ after.group = p.group /\ after.aliases = p.aliases
    BY <2>1 DEF PageStates
  <2>3. Lengthened(areas, area, more)
    BY OneMore
  <2>4. (\A x : AreasSay(areas, x) => AreasSay(more, x)) /\ AreasSay(more, text)
    <3>1. AreaSays(area, text)
      BY DEF AreaSays, Area
    <3>. QED
      BY <2>3, <3>1 DEF Lengthened, AreasSay
  <2>5. SaysOn(p, after) /\ Says(after, text)
    BY <2>2, <2>4 DEF SaysOn, Says
  <2>. QED
    BY <1>0, <1>2, <2>2, <2>5, KeepsOn DEF TrSays
<1>3. CASE Classify(tr) = "subtotal"
  <2>1. after = [p EXCEPT !.summary = TRUE]
    BY <1>3 DEF OnRow
  <2>2. after.summary = TRUE /\ after.areas = p.areas /\ after.group = p.group /\ after.aliases = p.aliases
    BY <2>1 DEF PageStates
  <2>3. SaysOn(p, after)
    BY <2>2 DEF SaysOn, Says
  <2>. QED
    BY <1>0, <1>3, <2>2, <2>3, KeepsOn DEF TrSays
<1>4. CASE Classify(tr) = "total"
  <2>1. after = p
    BY <1>4 DEF OnRow
  <2>. QED
    BY <1>0, <1>4, <2>1 DEF TrSays
<1>5. ASSUME SaysOn(p, after), Says(after, text), after.summary = p.summary,
             Classify(tr) \in {"rule", "comment"}
      PROVE  /\ SaysOn(page, after) /\ (\A x : TrSays(tr, page.summary, x) => Says(after, x))
             /\ after.summary = page.summary
  BY <1>0, <1>5, KeepsOn DEF TrSays
<1>6. TextSays(text, text)
  BY DEF TextSays
<1>7. ASSUME after = Unparsed(p, text)
      PROVE  SaysOn(p, after) /\ Says(after, text) /\ after.summary = p.summary
  <2>1. SaysOn(p, after) /\ TextTold(text, after) /\ after.summary = p.summary
    BY ONLY <1>7, UnparsedSays, NoText \in L, p \in PageStates(L, M, SUBSET C), text \in L
  <2>. QED
    BY <1>6, <2>1 DEF TextTold
<1>8. ASSUME NEW kind \in {"all", "select", "credits"}, after = OpenGroup(p, kind, text)
      PROVE  SaysOn(p, after) /\ Says(after, text) /\ after.summary = p.summary
  BY ONLY <1>0, <1>8, OpenGroupSays, p \in PageStates(L, M, SUBSET C), kind \in {"all", "select", "credits"}
<1>9. CASE Classify(tr) = "rule"
  <2>1. after = Rule(p, text)
    BY <1>9 DEF OnRow
  <2>2. after = Unparsed(p, text) \/ \E kind \in {"all", "select", "credits"} : after = OpenGroup(p, kind, text)
    BY <2>1 DEF Rule
  <2>. QED
    BY <1>5, <1>7, <1>8, <1>9, <2>2, <1>0
<1>10. CASE Classify(tr) = "comment" /\ ~page.summary
  <2>1. after = Comment(p, text)
    BY <1>10 DEF OnRow
  <2>. PICK node \in Level1(L, M) : node = Node(text, "course", <<text>>, <<>>)
    <3>1. <<text>> \in Seq(M) /\ "course" \in NodeKinds
      BY DEF NodeKinds
    <3>. QED
      BY <3>1, Levels01
  <2>2. CASE after = AddRule(p, node)
    <3>1. SaysOn(p, after) /\ NodeTold(node, after) /\ after.summary = p.summary
      BY ONLY <2>2, AddRuleSays, NoText \in L, p \in PageStates(L, M, SUBSET C), node \in Level1(L, M)
    <3>2. NodeSays(node, text)
      BY DEF NodeSays, LeafSays, Node
    <3>. QED
      BY <1>5, <1>10, <1>0, <3>1, <3>2 DEF NodeTold
  <2>3. after = AddRule(p, node) \/ after = Unparsed(p, text) \/ after = OpenGroup(p, "all", text)
    BY <2>1 DEF Comment
  <2>. QED
    BY <1>5, <1>7, <1>8, <1>10, <1>0, <2>2, <2>3
<1>11. CASE Classify(tr) \in {"course", "or"}
  <2>. PICK codes \in Seq(C) : codes = tr.codes /\ Code(codes[1]) \in M /\ <<"or", codes>> \in L
    BY <1>1, <1>11 DEF RowFits
  <2>1. SaysOn(page, after) /\ CodesTold(codes, after) /\ after.summary = page.summary
    <3>1. CASE Classify(tr) = "course"
      <4>1. after = CourseRow(page, tr)
        BY <3>1 DEF OnRow
      <4>. QED
        BY <4>1, CourseRowSays
    <3>2. CASE Classify(tr) = "or"
      <4>1. after = OrRow(page, codes)
        BY <3>2 DEF OnRow
      <4>. QED
        BY <4>1, OrRowSays
    <3>. QED
      BY <1>11, <3>1, <3>2
  <2>. QED
    BY <1>11, <2>1 DEF CodesTold, TrSays
<1>12. CASE Classify(tr) \notin {"area", "subtotal", "total", "rule", "course", "or"} /\ (Classify(tr) = "comment" => page.summary)
  <2>1. after = page
    BY <1>12 DEF OnRow
  <2>. QED
    BY <1>12, <2>1 DEF SaysOn, TrSays
<1>. QED
  BY <1>2, <1>3, <1>4, <1>9, <1>10, <1>11, <1>12

-----------------------------------------------------------------------------
(* Trees.  A node of the tree is reached by the walk along its path.        *)

\* The nodes met on the first steps of a path from the root.
IsWalk(f, tree, path, N) == f = [n \in 0 .. N |-> IF n = 0 THEN tree ELSE f[n - 1].of[path[n]]]
LEMMA WalkExists ==
  ASSUME NEW tree, NEW path, NEW N \in Nat
  PROVE  \E f : IsWalk(f, tree, path, N)
<1>. DEFINE S == {n \in 0 .. N : \E f : IsWalk(f, tree, path, n)}
<1>1. 0 \in S
  <2>1. IsWalk([n \in 0 .. 0 |-> tree], tree, path, 0)
    BY DEF IsWalk
  <2>. QED
    BY <2>1
<1>2. ASSUME NEW n \in 0 .. N, n < N, n \in S PROVE n + 1 \in S
  <2>1. PICK f : IsWalk(f, tree, path, n)
    BY <1>2
  <2>. DEFINE g == [i \in 0 .. (n + 1) |-> IF i <= n THEN f[i] ELSE f[n].of[path[n + 1]]]
  <2>2. IsWalk(g, tree, path, n + 1)
    <3>1. ASSUME NEW i \in 0 .. (n + 1)
          PROVE  g[i] = IF i = 0 THEN tree ELSE g[i - 1].of[path[i]]
      <4>1. CASE i = 0
        <5>1. f[0] = tree /\ 0 <= n
          BY <2>1 DEF IsWalk
        <5>2. g[i] = f[0]
          BY <4>1, <5>1
        <5>. HIDE DEF g
        <5>. QED
          BY <4>1, <5>1, <5>2
      <4>2. CASE i # 0 /\ i <= n
        <5>1. f[i] = f[i - 1].of[path[i]]
          BY <2>1, <4>2 DEF IsWalk
        <5>2. g[i] = f[i] /\ g[i - 1] = f[i - 1]
          BY <4>2
        <5>. HIDE DEF g
        <5>. QED
          BY <4>2, <5>1, <5>2
      <4>3. CASE i = n + 1
        BY <4>3
      <4>. QED
        BY <4>1, <4>2, <4>3
    <3>2. g = [i \in 0 .. (n + 1) |-> IF i = 0 THEN tree ELSE g[i - 1].of[path[i]]]
      BY <3>1
    <3>. HIDE DEF g
    <3>. QED
      BY <3>2 DEF IsWalk
  <2>3. \E h : IsWalk(h, tree, path, n + 1)
    <3>. HIDE DEF g
    <3>. QED
      BY <2>2
  <2>4. n + 1 \in 0 .. N
    BY <1>2
  <2>. QED
    BY <2>3, <2>4
<1>3. \A n \in 0 .. N : n \in S
  <2>. HIDE DEF S
  <2>. QED
    BY <1>1, <1>2, UpTo
<1>. QED
  BY <1>3

LEMMA WalksAgree ==
  ASSUME NEW tree, NEW p, NEW q, NEW N \in Nat, NEW K \in Nat, N <= K, \A i \in 1 .. N : p[i] = q[i],
         NEW f, IsWalk(f, tree, p, N), NEW g, IsWalk(g, tree, q, K)
  PROVE  f[N] = g[N]
<1>. DEFINE S == {n \in 0 .. N : f[n] = g[n]}
<1>1. 0 \in S
  BY DEF IsWalk
<1>2. ASSUME NEW n \in 0 .. N, n < N, n \in S PROVE n + 1 \in S
  <2>. PICK m \in 1 .. N : m = n + 1 /\ m - 1 = n
    BY <1>2
  <2>1. m \in 0 .. N /\ m \in 0 .. K /\ m # 0
    OBVIOUS
  <2>2. f[m] = f[n].of[p[m]] /\ g[m] = g[n].of[q[m]]
    BY <2>1 DEF IsWalk
  <2>3. f[n] = g[n] /\ p[m] = q[m]
    BY <1>2
  <2>. QED
    BY <2>1, <2>2, <2>3
<1>3. \A n \in 0 .. N : n \in S
  <2>. HIDE DEF S
  <2>. QED
    BY <1>1, <1>2, UpTo
<1>. QED
  BY <1>3

LEMMA AtIsWalk ==
  ASSUME NEW tree, NEW path, Len(path) \in Nat
  PROVE  \E f : IsWalk(f, tree, path, Len(path)) /\ At(tree, path) = f[Len(path)]
<1>. DEFINE walk == CHOOSE f : IsWalk(f, tree, path, Len(path))
<1>1. IsWalk(walk, tree, path, Len(path))
  BY WalkExists
<1>2. At(tree, path) = walk[Len(path)]
  BY DEF At, IsWalk
<1>. QED
  BY <1>1, <1>2

\* The node at the end of a path.
LEMMA AtRoot == ASSUME NEW tree PROVE At(tree, <<>>) = tree
<1>1. Len(<<>>) = 0
  OBVIOUS
<1>. PICK f : IsWalk(f, tree, <<>>, 0) /\ At(tree, <<>>) = f[0]
  BY <1>1, AtIsWalk
<1>. QED
  BY DEF IsWalk

LEMMA AtChild ==
  ASSUME NEW tree, NEW path \in Seq(Nat), NEW n \in Nat
  PROVE  At(tree, Append(path, n)) = At(tree, path).of[n]
<1>. PICK k \in Nat : k = Len(path)
  OBVIOUS
<1>. PICK longer \in Seq(Nat) : longer = Append(path, n)
  BY AppendProperties
<1>. PICK m \in Nat : m = k + 1
  OBVIOUS
<1>1. Len(longer) = m /\ (\A i \in 1 .. k : longer[i] = path[i]) /\ longer[m] = n
  BY AppendProperties
<1>. PICK f : IsWalk(f, tree, path, k) /\ At(tree, path) = f[k]
  BY AtIsWalk
<1>. PICK g : IsWalk(g, tree, longer, m) /\ At(tree, longer) = g[m]
  BY <1>1, AtIsWalk
<1>2. f[k] = g[k]
  <2>1. k <= m /\ \A i \in 1 .. k : path[i] = longer[i]
    BY <1>1
  <2>2. k \in Nat /\ m \in Nat
    OBVIOUS
  <2>3. IsWalk(f, tree, path, k) /\ IsWalk(g, tree, longer, m)
    OBVIOUS
  <2>. QED
    BY ONLY <2>1, <2>2, <2>3, WalksAgree
<1>3. g[m] = g[k].of[longer[m]]
  <2>1. m \in 0 .. m /\ m # 0 /\ m - 1 = k
    OBVIOUS
  <2>. QED
    BY <2>1 DEF IsWalk
<1>. QED
  BY <1>1, <1>2, <1>3

LEMMA ChildPath ==
  ASSUME NEW path \in Seq(Nat), NEW n \in Nat
  PROVE  /\ Append(path, n) \in Seq(Nat) /\ Append(path, n) # <<>>
         /\ Front(Append(path, n)) = path /\ Last(Append(path, n)) = n
<1>. PICK longer \in Seq(Nat) : longer = Append(path, n) /\ longer # <<>>
  BY AppendProperties
<1>. PICK k \in Nat : k = Len(path)
  OBVIOUS
<1>. PICK m \in Nat : m = k + 1 /\ m - 1 = k
  OBVIOUS
<1>1. Len(longer) = m /\ (\A i \in 1 .. k : longer[i] = path[i]) /\ longer[m] = n
  BY AppendProperties
<1>2. Front(longer) = path
  <2>1. /\ SubSeq(longer, 1, k) \in Seq(Nat) /\ Len(SubSeq(longer, 1, k)) = k
        /\ \A i \in 1 .. k : SubSeq(longer, 1, k)[i] = longer[i]
    <3>1. k <= Len(longer)
      BY <1>1
    <3>. QED
      BY <3>1
  <2>2. Front(longer) = SubSeq(longer, 1, k)
    BY <1>1 DEF Front
  <2>. PICK cut \in Seq(Nat) : cut = SubSeq(longer, 1, k)
    BY <2>1
  <2>3. cut = path
    BY <1>1, <2>1, SeqEqual
  <2>. QED
    BY <2>2, <2>3
<1>3. Last(longer) = n
  BY <1>1 DEF Last
<1>. QED
  BY <1>2, <1>3

\* A node of the tree, and the list of its children.
IsNode(node) == /\ node = Node(node.label, node.kind, node.filter, node.of)
                /\ Len(node.of) \in Nat /\ node.of = [n \in 1 .. Len(node.of) |-> node.of[n]]

LEMMA NodeShape ==
  ASSUME NEW L, NEW M, NEW Lower, NEW node \in NodesOf(L, M, Seq(Lower))
  PROVE  IsNode(node) /\ \A n \in DOMAIN node.of : n \in Nat /\ node.of[n] \in Lower
<1>1. node = Node(node.label, node.kind, node.filter, node.of) /\ node.of \in Seq(Lower)
  BY DEF NodesOf, Node
<1>2. Len(node.of) \in Nat /\ node.of = [n \in 1 .. Len(node.of) |-> node.of[n]]
  BY <1>1
<1>3. \A n \in DOMAIN node.of : n \in Nat /\ node.of[n] \in Lower
  BY <1>1
<1>. QED
  BY <1>1, <1>2, <1>3 DEF IsNode

LEMMA BelowMembers ==
  ASSUME NEW tree, NEW paths
  PROVE  /\ \A q \in Below(tree, paths) : \E p \in paths : \E n \in DOMAIN At(tree, p).of : q = Append(p, n)
         /\ \A p \in paths : \A n \in DOMAIN At(tree, p).of : Append(p, n) \in Below(tree, paths)
BY DEF Below

LEMMA BelowLevel ==
  ASSUME NEW L, NEW M, NEW Lower, NEW tree, NEW paths \in SUBSET Seq(Nat),
         \A p \in paths : At(tree, p) \in NodesOf(L, M, Seq(Lower))
  PROVE  /\ Below(tree, paths) \subseteq Seq(Nat)
         /\ \A q \in Below(tree, paths) : At(tree, q) \in Lower
         /\ \A q \in Below(tree, paths) : \E p \in paths : \E n \in DOMAIN At(tree, p).of : q = Append(p, n)
         /\ \A p \in paths : \A n \in DOMAIN At(tree, p).of : Append(p, n) \in Below(tree, paths)
<1>1. ASSUME NEW p \in paths, NEW n \in DOMAIN At(tree, p).of
      PROVE  Append(p, n) \in Seq(Nat) /\ At(tree, Append(p, n)) \in Lower
  <2>1. n \in Nat /\ At(tree, p).of[n] \in Lower
    BY NodeShape
  <2>. QED
    BY <2>1, AtChild, ChildPath
<1>2. /\ \A q \in Below(tree, paths) : \E p \in paths : \E n \in DOMAIN At(tree, p).of : q = Append(p, n)
      /\ \A p \in paths : \A n \in DOMAIN At(tree, p).of : Append(p, n) \in Below(tree, paths)
  BY BelowMembers
<1>. QED
  BY <1>1, <1>2

\* The paths of a requirement tree: its root, the children of every node, and
\* no other; what holds of a node whenever it holds of its children holds of all.
LEMMA PathsOf ==
  ASSUME NEW L, NEW M, NEW tree \in Level3(L, M)
  PROVE  /\ <<>> \in Paths(tree) /\ Paths(tree) \subseteq Seq(Nat)
         /\ \A p \in Paths(tree) : IsNode(At(tree, p))
         /\ \A p \in Paths(tree) : \A n \in DOMAIN At(tree, p).of : Append(p, n) \in Paths(tree)
         /\ \A p \in Paths(tree) : \/ p = <<>>
                                   \/ \E q \in Paths(tree) : \E n \in DOMAIN At(tree, q).of : p = Append(q, n)
         /\ \A S : (\A p \in Paths(tree) : (\A n \in DOMAIN At(tree, p).of : Append(p, n) \in S) => p \in S)
                      => Paths(tree) \subseteq S
<1>. PICK P0 : P0 = {<<>>}
  OBVIOUS
<1>. PICK P1 : P1 = Below(tree, P0)
  OBVIOUS
<1>. PICK P2 : P2 = Below(tree, P1)
  OBVIOUS
<1>. PICK P3 : P3 = Below(tree, P2)
  OBVIOUS
<1>. PICK P : P = P0 \cup P1 \cup P2 \cup P3
  OBVIOUS
<1>0. Paths(tree) = P
  BY DEF Paths
<1>1. P0 \in SUBSET Seq(Nat) /\ \A p \in P0 : At(tree, p) \in NodesOf(L, M, Seq(Level2(L, M)))
  <2>1. <<>> \in Seq(Nat)
    OBVIOUS
  <2>. QED
    BY <2>1, AtRoot DEF Level3
<1>2. P1 \in SUBSET Seq(Nat) /\ \A p \in P1 : At(tree, p) \in NodesOf(L, M, Seq(Level1(L, M)))
  BY <1>1, BelowLevel DEF Level2
<1>3. P2 \in SUBSET Seq(Nat) /\ \A p \in P2 : At(tree, p) \in NodesOf(L, M, Seq(Level0(L, M)))
  BY <1>2, BelowLevel DEF Level1
<1>4. P3 \in SUBSET Seq(Nat) /\ \A p \in P3 : At(tree, p) \in Level0(L, M)
  BY <1>3, BelowLevel
<1>5. \A p \in P3 : IsNode(At(tree, p)) /\ DOMAIN At(tree, p).of = {}
  <2>1. SUFFICES ASSUME NEW p \in P3 PROVE IsNode(At(tree, p)) /\ DOMAIN At(tree, p).of = {}
    OBVIOUS
  <2>. PICK node : node = At(tree, p)
    OBVIOUS
  <2>2. node \in NodesOf(L, M, {<<>>})
    BY <1>4 DEF Level0
  <2>3. node = Node(node.label, node.kind, node.filter, node.of) /\ node.of = <<>>
    BY <2>2 DEF NodesOf, Node
  <2>4. Len(<<>>) = 0 /\ <<>> = [n \in 1 .. 0 |-> <<>>[n]]
    OBVIOUS
  <2>5. DOMAIN <<>> = {}
    OBVIOUS
  <2>. QED
    BY <2>3, <2>4, <2>5 DEF IsNode
<1>6. \A p \in P : IsNode(At(tree, p))
  <2>1. \A p \in P0 \cup P1 \cup P2 : IsNode(At(tree, p))
    BY <1>1, <1>2, <1>3, NodeShape
  <2>. QED
    BY <1>5, <2>1
<1>7. /\ \A p \in P0 : \A n \in DOMAIN At(tree, p).of : Append(p, n) \in P1
      /\ \A p \in P1 : \A n \in DOMAIN At(tree, p).of : Append(p, n) \in P2
      /\ \A p \in P2 : \A n \in DOMAIN At(tree, p).of : Append(p, n) \in P3
  BY BelowMembers
<1>8. /\ \A q \in P1 : \E p \in P0 : \E n \in DOMAIN At(tree, p).of : q = Append(p, n)
      /\ \A q \in P2 : \E p \in P1 : \E n \in DOMAIN At(tree, p).of : q = Append(p, n)
      /\ \A q \in P3 : \E p \in P2 : \E n \in DOMAIN At(tree, p).of : q = Append(p, n)
  <2>1. \A q \in P1 : \E p \in P0 : \E n \in DOMAIN At(tree, p).of : q = Append(p, n)
    <3>1. P1 = Below(tree, P0)
      OBVIOUS
    <3>. QED
      BY ONLY <3>1, BelowMembers
  <2>2. \A q \in P2 : \E p \in P1 : \E n \in DOMAIN At(tree, p).of : q = Append(p, n)
    BY BelowMembers
  <2>3. \A q \in P3 : \E p \in P2 : \E n \in DOMAIN At(tree, p).of : q = Append(p, n)
    BY BelowMembers
  <2>. QED
    BY ONLY <2>1, <2>2, <2>3
<1>9. \A p \in P : \A n \in DOMAIN At(tree, p).of : Append(p, n) \in P
  <2>1. \A p \in P : p \in P0 \/ p \in P1 \/ p \in P2 \/ (p \in P3 /\ DOMAIN At(tree, p).of = {})
    BY <1>5
  <2>2. P1 \subseteq P /\ P2 \subseteq P /\ P3 \subseteq P
    OBVIOUS
  <2>. QED
    BY ONLY <1>7, <2>1, <2>2
<1>10. \A p \in P : p = <<>> \/ \E q \in P : \E n \in DOMAIN At(tree, q).of : p = Append(q, n)
  <2>1. \A p \in P : p = <<>> \/ p \in P1 \/ p \in P2 \/ p \in P3
    OBVIOUS
  <2>2. P0 \subseteq P /\ P1 \subseteq P /\ P2 \subseteq P
    OBVIOUS
  <2>. QED
    BY ONLY <1>8, <2>1, <2>2
<1>11. ASSUME NEW S, \A p \in P : (\A n \in DOMAIN At(tree, p).of : Append(p, n) \in S) => p \in S
       PROVE  P \subseteq S
  <2>1. P3 \subseteq S
    BY <1>5, <1>11
  <2>2. P2 \subseteq S
    BY <1>7, <1>11, <2>1
  <2>3. P1 \subseteq S
    BY <1>7, <1>11, <2>2
  <2>4. P0 \subseteq S
    BY <1>7, <1>11, <2>3
  <2>. QED
    BY <2>1, <2>2, <2>3, <2>4
<1>12. <<>> \in P /\ P \subseteq Seq(Nat)
  BY <1>1, <1>2, <1>3, <1>4
<1>. QED
  BY ONLY <1>0, <1>6, <1>9, <1>10, <1>11, <1>12

-----------------------------------------------------------------------------
(* Rows and trees.  The live rows of an edition stand for the nodes of one  *)
(* tree, and a load builds that tree again.                                 *)

\* The live rows of an edition are a tree's, one to a path, each with its
\* parent's id.
StandsFor(e, tree, idOf, p) ==
    rules[idOf[p]] = [edition |-> e, mark |-> Fingerprint(tree, p), retired |-> FALSE,
                      parent |-> IF p = <<>> THEN None ELSE idOf[Front(p)],
                      ordinal |-> IF p = <<>> THEN 0 ELSE Last(p),
                      label |-> At(tree, p).label, kind |-> At(tree, p).kind, filter |-> At(tree, p).filter]
Shows(e, tree, idOf) ==
    /\ idOf \in [Paths(tree) -> DOMAIN rules]
    /\ LiveRows(e) = {idOf[p] : p \in Paths(tree)}
    /\ \A p \in Paths(tree) : idOf[p] # None /\ StandsFor(e, tree, idOf, p)

LEMMA ShownRow ==
  ASSUME NEW e, NEW tree, NEW idOf, NEW p, StandsFor(e, tree, idOf, p)
  PROVE  /\ p = <<>> => rules[idOf[p]].parent = None /\ rules[idOf[p]].ordinal = 0
         /\ p # <<>> => rules[idOf[p]].parent = idOf[Front(p)] /\ rules[idOf[p]].ordinal = Last(p)
         /\ rules[idOf[p]].label = At(tree, p).label /\ rules[idOf[p]].kind = At(tree, p).kind
         /\ rules[idOf[p]].filter = At(tree, p).filter
         /\ rules[idOf[p]].mark = <<p, At(tree, p).label>>
BY DEF StandsFor, Fingerprint

LEMMA ChildOf ==
  ASSUME NEW L, NEW M, NEW tree \in Level3(L, M), NEW p \in Paths(tree), NEW n \in DOMAIN At(tree, p).of
  PROVE  /\ p \in Seq(Nat) /\ n \in Nat /\ Append(p, n) \in Paths(tree) /\ Append(p, n) # <<>>
         /\ Front(Append(p, n)) = p /\ Last(Append(p, n)) = n
<1>1. p \in Seq(Nat) /\ Append(p, n) \in Paths(tree) /\ IsNode(At(tree, p))
  BY PathsOf
<1>2. n \in Nat
  BY <1>1 DEF IsNode
<1>. QED
  BY <1>1, <1>2, ChildPath

LEMMA OneIdEach ==
  ASSUME NEW e, NEW tree, NEW idOf, Shows(e, tree, idOf),
         NEW p \in Paths(tree), NEW q \in Paths(tree), idOf[p] = idOf[q]
  PROVE  p = q
<1>1. rules[idOf[p]].mark = <<p, At(tree, p).label>> /\ rules[idOf[q]].mark = <<q, At(tree, q).label>>
  BY ShownRow DEF Shows
<1>. QED
  BY <1>1

\* The children a load finds for a rule are the tree's, in order.
LEMMA ChildrenOf ==
  ASSUME NEW L, NEW M, NEW e, NEW tree \in Level3(L, M), NEW idOf, Shows(e, tree, idOf),
         NEW p \in Paths(tree)
  PROVE  Children(LiveRows(e), idOf[p]) = [n \in 1 .. Len(At(tree, p).of) |-> idOf[Append(p, n)]]
<1>. PICK of : of = At(tree, p).of
  OBVIOUS
<1>. PICK k \in Nat : k = Len(of) /\ DOMAIN of = 1 .. k
  BY PathsOf DEF IsNode
<1>. DEFINE S == {id \in LiveRows(e) : rules[id].parent = idOf[p]}
            g == [n \in 1 .. k |-> idOf[Append(p, n)]]
            key == [id \in S |-> rules[id].ordinal]
<1>1. ASSUME NEW n \in 1 .. k
      PROVE  g[n] \in S /\ key[g[n]] = n
  <2>. PICK q \in Paths(tree) : q = Append(p, n) /\ q # <<>> /\ Front(q) = p /\ Last(q) = n
    BY ChildOf
  <2>2. idOf[q] \in LiveRows(e) /\ StandsFor(e, tree, idOf, q)
    BY DEF Shows
  <2>3. rules[idOf[q]].parent = idOf[p] /\ rules[idOf[q]].ordinal = n
    <3>1. rules[idOf[q]].parent = idOf[Front(q)] /\ rules[idOf[q]].ordinal = Last(q)
      <4>1. q # <<>> /\ StandsFor(e, tree, idOf, q)
        BY <2>2
      <4>. QED
        BY ONLY <4>1, ShownRow
    <3>. QED
      BY <3>1
  <2>. QED
    BY <2>2, <2>3
<1>2. ASSUME NEW id \in S PROVE \E n \in 1 .. k : id = g[n]
  <2>. PICK q \in Paths(tree) : id = idOf[q]
    BY DEF Shows
  <2>1. rules[idOf[q]].parent = idOf[p] /\ idOf[p] # None /\ StandsFor(e, tree, idOf, q)
    BY DEF Shows
  <2>2. q # <<>> /\ idOf[Front(q)] = idOf[p]
    BY <2>1, ShownRow
  <2>3. PICK r \in Paths(tree) : \E n \in DOMAIN At(tree, r).of : q = Append(r, n)
    BY <2>2, PathsOf
  <2>4. PICK n \in DOMAIN At(tree, r).of : q = Append(r, n)
    BY <2>3
  <2>5. Front(q) = r
    BY <2>4, ChildOf
  <2>6. r = p
    BY <2>2, <2>5, OneIdEach
  <2>. QED
    BY <2>4, <2>6
<1>3. InOrder(S, key) = g
  <2>0. k \in Nat
    OBVIOUS
  <2>1. g \in [1 .. k -> S] /\ \A x \in S : \E n \in 1 .. k : x = g[n]
    BY <1>1, <1>2
  <2>2. Grows(key, g, k)
    BY <1>1 DEF Grows
  <2>. HIDE DEF S, g, key
  <2>. QED
    BY ONLY <2>0, <2>1, <2>2, InOrderIs
<1>. QED
  BY <1>3 DEF Children

LEMMA RootOf ==
  ASSUME NEW L, NEW M, NEW e, NEW tree \in Level3(L, M), NEW idOf, Shows(e, tree, idOf)
  PROVE  Children(LiveRows(e), None) = <<idOf[<<>>]>>
<1>. DEFINE S == {id \in LiveRows(e) : rules[id].parent = None}
            g == [n \in 1 .. 1 |-> idOf[<<>>]]
            key == [id \in S |-> rules[id].ordinal]
<1>1. <<>> \in Paths(tree)
  BY PathsOf
<1>2. idOf[<<>>] \in S /\ key[idOf[<<>>]] = 0
  BY <1>1, ShownRow DEF Shows
<1>3. ASSUME NEW id \in S PROVE id = idOf[<<>>]
  <2>. PICK q \in Paths(tree) : id = idOf[q]
    BY DEF Shows
  <2>1. rules[idOf[q]].parent = None /\ StandsFor(e, tree, idOf, q)
    BY DEF Shows
  <2>2. q # <<>> => Front(q) \in Paths(tree)
    <3>1. ASSUME NEW r \in Paths(tree), NEW n \in DOMAIN At(tree, r).of, q = Append(r, n)
          PROVE  Front(q) = r
      BY <3>1, ChildOf
    <3>2. q # <<>> => \E r \in Paths(tree) : \E n \in DOMAIN At(tree, r).of : q = Append(r, n)
      BY PathsOf
    <3>. QED
      BY ONLY <3>1, <3>2
  <2>3. \A r \in Paths(tree) : idOf[r] # None
    BY DEF Shows
  <2>. QED
    BY <2>1, <2>2, <2>3, ShownRow
<1>4. InOrder(S, key) = g
  <2>1. 1 \in Nat /\ g \in [1 .. 1 -> S] /\ \A x \in S : \E n \in 1 .. 1 : x = g[n]
    BY <1>2, <1>3
  <2>2. Grows(key, g, 1)
    BY <1>2 DEF Grows
  <2>. HIDE DEF S, g, key
  <2>. QED
    BY ONLY <2>1, <2>2, InOrderIs
<1>5. g = <<idOf[<<>>]>>
  OBVIOUS
<1>. QED
  BY <1>4, <1>5 DEF Children

\* The tree built from rows: each row with the trees of its children.
Grown(t, live, id) == Node(rules[id].label, rules[id].kind, rules[id].filter,
                           [n \in DOMAIN Children(live, id) |-> t[Children(live, id)[n]]])
IsBuilt(t, live) == t = [id \in live |-> Grown(t, live, id)]

LEMMA BuiltTree ==
  ASSUME NEW live, \E t : IsBuilt(t, live)
  PROVE  IsBuilt(Build(live), live)
<1>. DEFINE t0 == CHOOSE t : IsBuilt(t, live)
<1>1. IsBuilt(t0, live)
  OBVIOUS
<1>2. Build(live) = t0
  BY DEF Build, IsBuilt, Grown
<1>. QED
  BY <1>1, <1>2

\* A row grows into the node it stands for, when its children do.
LEMMA GrownIsNode ==
  ASSUME NEW L, NEW M, NEW e, NEW tree \in Level3(L, M), NEW idOf, Shows(e, tree, idOf),
         NEW p \in Paths(tree), NEW t,
         \A n \in DOMAIN At(tree, p).of : t[idOf[Append(p, n)]] = At(tree, Append(p, n))
  PROVE  Grown(t, LiveRows(e), idOf[p]) = At(tree, p)
<1>. PICK node : node = At(tree, p)
  OBVIOUS
<1>1. IsNode(node)
  BY PathsOf
<1>. PICK k \in Nat : k = Len(node.of) /\ DOMAIN node.of = 1 .. k
  BY <1>1 DEF IsNode
<1>. PICK kids : kids = Children(LiveRows(e), idOf[p])
  OBVIOUS
<1>2. kids = [n \in 1 .. k |-> idOf[Append(p, n)]]
  BY ChildrenOf
<1>3. \A n \in 1 .. k : t[kids[n]] = node.of[n]
  <2>1. SUFFICES ASSUME NEW n \in 1 .. k PROVE t[kids[n]] = node.of[n]
    OBVIOUS
  <2>2. kids[n] = idOf[Append(p, n)] /\ t[idOf[Append(p, n)]] = At(tree, Append(p, n))
    BY <1>2
  <2>3. At(tree, Append(p, n)) = node.of[n]
    <3>1. p \in Seq(Nat) /\ n \in Nat
      BY ChildOf
    <3>. QED
      BY <3>1, AtChild
  <2>. QED
    BY <2>2, <2>3
<1>4. [n \in DOMAIN kids |-> t[kids[n]]] = node.of
  <2>1. node.of = [n \in 1 .. k |-> node.of[n]]
    BY <1>1 DEF IsNode
  <2>2. DOMAIN kids = 1 .. k
    BY <1>2
  <2>. QED
    BY <1>3, <2>1, <2>2
<1>5. StandsFor(e, tree, idOf, p)
  BY DEF Shows
<1>6. /\ rules[idOf[p]].label = node.label /\ rules[idOf[p]].kind = node.kind
      /\ rules[idOf[p]].filter = node.filter
  BY ONLY <1>5, ShownRow, node = At(tree, p)
<1>7. Grown(t, LiveRows(e), idOf[p]) = Node(node.label, node.kind, node.filter, node.of)
  BY <1>4, <1>6 DEF Grown
<1>. QED
  BY <1>1, <1>7 DEF IsNode

\* What a load of an edition gives: the tree its live rows stand for.
LEMMA LoadsTree ==
  ASSUME NEW L, NEW M, NEW e, NEW tree \in Level3(L, M), NEW idOf, Shows(e, tree, idOf)
  PROVE  LoadProgram(e) = tree
<1>. DEFINE live == LiveRows(e)
            pathOf == [id \in live |-> CHOOSE p \in Paths(tree) : idOf[p] = id]
            G == [id \in live |-> At(tree, pathOf[id])]
<1>1. /\ \A p \in Paths(tree) : idOf[p] \in live
      /\ \A id \in live : \E p \in Paths(tree) : idOf[p] = id
  BY DEF Shows
<1>2. \A p \in Paths(tree) : G[idOf[p]] = At(tree, p)
  <2>1. SUFFICES ASSUME NEW p \in Paths(tree) PROVE pathOf[idOf[p]] = p
    BY <1>1
  <2>2. pathOf[idOf[p]] \in Paths(tree) /\ idOf[pathOf[idOf[p]]] = idOf[p]
    BY <1>1
  <2>. HIDE DEF pathOf
  <2>. QED
    BY <2>2, OneIdEach
<1>3. IsBuilt(G, live)
  <2>1. ASSUME NEW id \in live PROVE G[id] = Grown(G, live, id)
    <3>. PICK p \in Paths(tree) : idOf[p] = id
      BY <1>1
    <3>1. \A n \in DOMAIN At(tree, p).of : G[idOf[Append(p, n)]] = At(tree, Append(p, n))
      BY <1>2, ChildOf
    <3>2. Grown(G, live, id) = At(tree, p)
      <4>. HIDE DEF G
      <4>. QED
        BY <3>1, GrownIsNode
    <3>. QED
      BY <1>2, <3>2
  <2>2. G = [id \in live |-> G[id]]
    OBVIOUS
  <2>. HIDE DEF G, live
  <2>. QED
    BY <2>1, <2>2 DEF IsBuilt
<1>. PICK B : B = Build(live)
  OBVIOUS
<1>4. IsBuilt(B, live)
  <2>. HIDE DEF G, live
  <2>. QED
    BY <1>3, BuiltTree
<1>. DEFINE S == {p \in Paths(tree) : B[idOf[p]] = At(tree, p)}
<1>5. ASSUME NEW p \in Paths(tree), \A n \in DOMAIN At(tree, p).of : Append(p, n) \in S
      PROVE  p \in S
  <2>1. Grown(B, live, idOf[p]) = At(tree, p)
    BY <1>5, GrownIsNode
  <2>2. B[idOf[p]] = Grown(B, live, idOf[p])
    <3>. HIDE DEF live
    <3>. QED
      BY <1>1, <1>4 DEF IsBuilt
  <2>. QED
    BY <2>1, <2>2
<1>6. <<>> \in S
  <2>. HIDE DEF S
  <2>. QED
    BY <1>5, PathsOf
<1>7. B[idOf[<<>>]] = tree
  BY <1>6, AtRoot
<1>8. Children(live, None) = <<idOf[<<>>]>>
  BY RootOf
<1>9. Len(<<idOf[<<>>]>>) = 1 /\ <<idOf[<<>>]>>[1] = idOf[<<>>]
  OBVIOUS
<1>. HIDE DEF S, G, live, pathOf
<1>10. LoadProgram(e) = LET roots == Children(live, None) IN IF Len(roots) = 1 THEN B[roots[1]] ELSE None
  BY DEF LoadProgram, live
<1>. QED
  BY <1>7, <1>8, <1>9, <1>10

-----------------------------------------------------------------------------
(* Pages and the queue.  What the parser makes of a page Rice may publish,  *)
(* and what the jobs and reviewers hold.                                    *)

\* Every page Rice may publish can be read.
LEMMA FittingPage ==
  ASSUME PagesOK, WritersOK, NEW page \in SitePages
  PROVE  \E L, M : PageFits(page, L, M, Codes)
<1>. PICK table : table = page.rows
  OBVIOUS
<1>. PICK N \in Nat : N = Len(table) /\ DOMAIN table = 1 .. N
  BY DEF PagesOK, IsList
<1>. DEFINE L == {NoText, page.title} \cup {table[n].text : n \in 1 .. N}
                 \cup {<<"or", table[n].codes>> : n \in 1 .. N} \cup ToSet(page.footnotes)
            M == L \cup {Code(c) : c \in Codes}
<1>1. ASSUME NEW n \in 1 .. N PROVE RowFits(table[n], L, M, Codes)
  <2>. PICK codes : codes = table[n].codes
    OBVIOUS
  <2>1. codes \in Seq(ToSet(codes)) /\ ToSet(codes) \subseteq Codes
    BY DEF PagesOK, IsList, WritersOK
  <2>2. codes \in Seq(Codes)
    BY <2>1, SeqMonotonic
  <2>3. codes # <<>> => codes[1] \in Codes
    BY <2>2
  <2>4. codes # <<>> => Code(codes[1]) \in M
    BY <2>3
  <2>5. table[n].text \in L /\ <<"or", codes>> \in L
    OBVIOUS
  <2>. HIDE DEF L, M
  <2>. QED
    BY <2>2, <2>4, <2>5 DEF RowFits
<1>2. page.footnotes \in Seq(L)
  <2>1. page.footnotes \in Seq(ToSet(page.footnotes))
    BY DEF PagesOK, IsList
  <2>2. ToSet(page.footnotes) \subseteq L
    OBVIOUS
  <2>. HIDE DEF L
  <2>. QED
    BY <2>1, <2>2, SeqMonotonic
<1>3. NoText \in L /\ L \subseteq M /\ page.title \in L
  OBVIOUS
<1>. HIDE DEF L, M
<1>4. PageFits(page, L, M, Codes)
  BY <1>1, <1>2, <1>3 DEF PageFits
<1>. QED
  BY <1>4

\* What the parser makes of a page: a tree of three levels, and groups of codes.
LEMMA TreeOf ==
  ASSUME PagesOK, WritersOK, NEW page \in SitePages
  PROVE  /\ Trees[page] = IntoProgram(ParsePage(page))
         /\ \E L, M : Trees[page] \in Level3(L, M)
         /\ ParsePage(page).aliases \in Seq(SUBSET Codes)
<1>. PICK L, M : PageFits(page, L, M, Codes)
  BY FittingPage
<1>. PICK areas \in Seq(AreaSet(L, M)), aliases \in Seq(SUBSET Codes) :
        ParsePage(page) = [areas |-> areas, aliases |-> aliases,
                           footnotes |-> page.footnotes, title |-> page.title]
  <2>1. Parsed(page, L, M, Codes)
    BY ParsedType
  <2>. QED
    BY <2>1 DEF Parsed
<1>1. Trees[page] = IntoProgram(ParsePage(page))
  BY DEF Trees
<1>2. IntoProgram(ParsePage(page)) \in Level3(L, M)
  <2>1. page.footnotes \in Seq(L) /\ page.title \in L
    BY DEF PageFits
  <2>. QED
    BY <2>1, IntoProgramType
<1>. QED
  BY <1>1, <1>2

-----------------------------------------------------------------------------
(* The queue: what the jobs hold, have archived and have queued, and what    *)
(* the reviewers are at.                                                    *)

RawSet == [edition : Editions, page : SitePages, run : Nat]
DraftSet == [edition : Editions, page : SitePages, state : {"pending", "approved", "rejected"}]
Outcomes == {"running", "ok", "failed"}
JobSet == [pc : {"idle", "index", "page", "select", "insert"}, run : Nat,
           todo : Seq(Editions \cup RawSet), outages : Nat]
DeskSet == [pc : {"idle", "lock", "publish", "aliases", "writing"}, draft : Nat]
\* The pull has editions to fetch, the replay bodies to read; a page in hand is
\* at the head of either.
Source(j) == IF j = "pull" THEN Editions ELSE RawSet
Filing(pc) == pc \in {"select", "insert"}
JobOK(j, job) ==
  /\ job \in JobSet
  /\ Filing(job.pc) => job.todo # <<>> /\ Head(job.todo) \in RawSet /\ Tail(job.todo) \in Seq(Source(j))
  /\ ~Filing(job.pc) => job.todo \in Seq(Source(j))
JobsInv == jobs = [j \in Jobs |-> jobs[j]] /\ \A j \in Jobs : JobOK(j, jobs[j])
ArchiveInv == site \in [Editions -> SitePages] /\ raws \in Seq(RawSet) /\ outcomes \in Seq(Outcomes)
DeskInv == /\ drafts \in Seq(DraftSet) /\ desk \in [Reviewers -> DeskSet]
           /\ \A r \in Reviewers : desk[r].pc # "idle" => desk[r].draft \in DOMAIN drafts
QueueInv == BoundType /\ ArchiveInv /\ JobsInv /\ DeskInv

LEMMA IdleJob == ASSUME NEW j \in Jobs PROVE JobOK(j, NoJob)
<1>1. <<>> \in Seq(Source(j)) /\ <<>> \in Seq(Editions \cup RawSet)
  OBVIOUS
<1>. QED
  BY <1>1 DEF JobOK, JobSet, NoJob, Filing

LEMMA JobParts ==
  ASSUME NEW j, NEW job, JobOK(j, job)
  PROVE  /\ job.run \in Nat /\ job.outages \in Nat /\ job.todo \in Seq(Editions \cup RawSet)
         /\ Filing(job.pc) => job.todo # <<>> /\ Head(job.todo) \in RawSet /\ Tail(job.todo) \in Seq(Source(j))
         /\ ~Filing(job.pc) => job.todo \in Seq(Source(j))
BY DEF JobOK, JobSet

\* A job at a page, with the rest of its list.
LEMMA WalkOn ==
  ASSUME NEW j \in Jobs, NEW run \in Nat, NEW todo \in Seq(Source(j)), NEW outages \in Nat
  PROVE  JobOK(j, [pc |-> "page", run |-> run, todo |-> todo, outages |-> outages])
<1>. PICK new : new = [pc |-> "page", run |-> run, todo |-> todo, outages |-> outages]
  OBVIOUS
<1>1. todo \in Seq(Editions \cup RawSet)
  <2>1. Source(j) \subseteq Editions \cup RawSet
    BY DEF Source
  <2>. QED
    BY <2>1, SeqMonotonic
<1>2. new \in JobSet /\ new.pc = "page" /\ new.todo = todo
  BY <1>1 DEF JobSet
<1>. QED
  BY <1>2 DEF JobOK, Filing

\* What is left of a job's list when its first element is done.
LEMMA Rest ==
  ASSUME NEW j \in Jobs, NEW job, JobOK(j, job), job.todo # <<>>
  PROVE  Tail(job.todo) \in Seq(Source(j))
<1>1. CASE Filing(job.pc)
  BY <1>1, JobParts
<1>2. CASE ~Filing(job.pc)
  <2>. PICK todo \in Seq(Source(j)) : todo = job.todo
    BY <1>2, JobParts
  <2>. QED
    BY HeadTailProperties
<1>. QED
  BY <1>1, <1>2

LEMMA MovedOn ==
  ASSUME NEW j \in Jobs, NEW job, JobOK(j, job), NEW pc \in {"idle", "index", "page", "select", "insert"},
         Filing(pc) <=> Filing(job.pc)
  PROVE  JobOK(j, [job EXCEPT !.pc = pc])
<1>. PICK new : new = [job EXCEPT !.pc = pc]
  OBVIOUS
<1>1. new \in JobSet /\ new.pc = pc /\ new.todo = job.todo
  BY DEF JobOK, JobSet
<1>. QED
  BY <1>1 DEF JobOK

LEMMA OneJob ==
  ASSUME JobsInv, NEW j \in Jobs, NEW job, JobOK(j, job), jobs' = [jobs EXCEPT ![j] = job]
  PROVE  JobsInv'
<1>1. JobsInv' <=> jobs' = [k \in Jobs |-> jobs'[k]] /\ \A k \in Jobs : JobOK(k, jobs'[k])
  BY DEF JobsInv, JobOK, JobSet, RawSet, Source, Filing
<1>2. jobs' = [k \in Jobs |-> jobs'[k]] /\ jobs'[j] = job /\ \A k \in Jobs : k # j => jobs'[k] = jobs[k]
  BY DEF JobsInv
<1>3. \A k \in Jobs : JobOK(k, jobs'[k])
  BY <1>2 DEF JobsInv
<1>. QED
  BY <1>1, <1>2, <1>3

-----------------------------------------------------------------------------
(* Nothing is dropped.  All that the rows of a page say is in the draft,    *)
(* and all that the draft says is in the tree.                              *)

\* Everything the rows of a page say is in what the parser makes of it.
LEMMA DraftSays ==
  ASSUME NEW L, NEW M, NEW C, NEW page, PageFits(page, L, M, C), NEW n \in 1 .. Len(page.rows), NEW x \in RowSays(page, n)
  PROVE  AreasSay(ParsePage(page).areas, x) \/ AliasesSay(ParsePage(page).aliases, x)
<1>. PICK N \in Nat : N = Len(page.rows)
  BY DEF PageFits
<1>. PICK rows : rows = page.rows
  OBVIOUS
<1>. PICK f : /\ IsRead(f, rows, N)
              /\ ParsePage(page) = [areas |-> CloseGroup(f[N]).areas, aliases |-> CloseGroup(f[N]).aliases,
                                    footnotes |-> page.footnotes, title |-> page.title]
  BY PageIsRead
<1>1. \A i \in 0 .. N : f[i] \in PageStates(L, M, SUBSET C)
  BY ReadType
<1>. DEFINE S == {i \in 0 .. N : /\ f[i].summary = Under(rows, i)
                                 /\ \A k \in 1 .. i : \A y : TrSays(rows[k], Under(rows, k), y) => Says(f[i], y)}
<1>2. 0 \in S
  <2>1. f[0] = NewPage
    BY DEF IsRead
  <2>2. Heads(rows, 0) = {}
    BY DEF Heads
  <2>3. f[0].summary = Under(rows, 0)
    <3>1. f[0].summary = FALSE
      BY <2>1 DEF NewPage
    <3>2. Under(rows, 0) = FALSE
      BY <2>2 DEF Under
    <3>. QED
      BY <3>1, <3>2
  <2>4. \A k \in 1 .. 0 : FALSE
    OBVIOUS
  <2>5. 0 \in 0 .. N
    OBVIOUS
  <2>. QED
    BY <2>3, <2>4, <2>5
<1>3. ASSUME NEW i \in 0 .. N, i < N, i \in S PROVE i + 1 \in S
  <2>. PICK m \in 1 .. N : m = i + 1
    BY <1>3
  <2>1. f[m] = OnRow(f[i], rows[m])
    <3>1. m \in 0 .. N /\ m # 0 /\ m - 1 = i
      BY <1>3
    <3>. QED
      BY <3>1 DEF IsRead
  <2>2. NoText \in L /\ L \subseteq M /\ RowFits(rows[m], L, M, C)
    BY DEF PageFits
  <2>. PICK p \in PageStates(L, M, SUBSET C) : p = f[i]
    BY <1>1
  <2>. PICK q : q = f[m]
    OBVIOUS
  <2>3. /\ SaysOn(p, q) /\ (\A y : TrSays(rows[m], p.summary, y) => Says(q, y))
        /\ q.summary = IF Classify(rows[m]) = "area" THEN FALSE
                       ELSE IF Classify(rows[m]) = "subtotal" THEN TRUE ELSE p.summary
    <3>1. TakenUp(rows[m], p, q)
      BY <2>1, <2>2, OnRowSays
    <3>. QED
      BY <3>1 DEF TakenUp
  <2>4. /\ Classify(rows[m]) = "area" => ~Under(rows, m)
        /\ Classify(rows[m]) = "subtotal" => Under(rows, m)
        /\ Classify(rows[m]) \notin {"area", "subtotal"} => (Under(rows, m) <=> Under(rows, i))
    <3>1. i \in Nat /\ m = i + 1
      OBVIOUS
    <3>. QED
      BY ONLY <3>1, UnderNext
  <2>5. p.summary = Under(rows, i) /\ \A k \in 1 .. i : \A y : TrSays(rows[k], Under(rows, k), y) => Says(p, y)
    BY <1>3
  <2>6. q.summary = Under(rows, m)
    BY <2>3, <2>4, <2>5 DEF Under
  <2>7. \A y : TrSays(rows[m], Under(rows, m), y) => TrSays(rows[m], p.summary, y)
    BY <2>4, <2>5 DEF TrSays
  <2>8. ASSUME NEW k \in 1 .. m, NEW y, TrSays(rows[k], Under(rows, k), y) PROVE Says(q, y)
    <3>1. CASE k = m
      BY <2>3, <2>7, <2>8, <3>1
    <3>2. CASE k # m
      <4>1. k \in 1 .. i
        BY <3>2
      <4>. QED
        BY <2>3, <2>5, <2>8, <4>1 DEF SaysOn
    <3>. QED
      BY <3>1, <3>2
  <2>9. m \in 0 .. N
    OBVIOUS
  <2>. QED
    BY <2>6, <2>8, <2>9
<1>4. \A y : TrSays(rows[n], Under(rows, n), y) => Says(f[N], y)
  <2>1. \A i \in 0 .. N : i \in S
    <3>. HIDE DEF S
    <3>. QED
      BY <1>2, <1>3, UpTo
  <2>2. N \in 0 .. N /\ n \in 1 .. N
    OBVIOUS
  <2>. QED
    BY <2>1, <2>2
<1>5. Says(f[N], x)
  <2>1. TrSays(rows[n], Under(rows, n), x)
    BY RowSaysIs
  <2>. QED
    BY <1>4, <2>1
<1>. PICK p \in PageStates(L, M, SUBSET C) : p = f[N]
  <2>1. N \in 0 .. N
    OBVIOUS
  <2>. QED
    BY <1>1, <2>1
<1>. PICK q : q = CloseGroup(p)
  OBVIOUS
<1>6. SaysOn(p, q) /\ q.group.kind = "none"
  <2>1. NoText \in L
    BY DEF PageFits
  <2>. QED
    BY <2>1, CloseGroupSays
<1>7. AreasSay(q.areas, x) \/ AliasesSay(q.aliases, x)
  BY <1>5, <1>6 DEF SaysOn, Says, GroupSays
<1>. HIDE DEF S
<1>. QED
  BY <1>7

\* The nodes of a tree, and what they say.
NodeIn(tree, node) == \E p \in Paths(tree) : At(tree, p) = node
LEMMA NodesIn ==
  ASSUME NEW L, NEW M, NEW tree \in Level3(L, M)
  PROVE  NodeIn(tree, tree) /\ \A node : NodeIn(tree, node) => \A i \in DOMAIN node.of : NodeIn(tree, node.of[i])
<1>1. NodeIn(tree, tree)
  BY AtRoot, PathsOf DEF NodeIn
<1>2. ASSUME NEW p \in Paths(tree), NEW i \in DOMAIN At(tree, p).of PROVE NodeIn(tree, At(tree, p).of[i])
  <2>1. p \in Seq(Nat) /\ IsNode(At(tree, p)) /\ Append(p, i) \in Paths(tree)
    BY PathsOf
  <2>2. i \in Nat
    BY <2>1 DEF IsNode
  <2>3. At(tree, Append(p, i)) = At(tree, p).of[i]
    BY <2>1, <2>2, AtChild
  <2>. QED
    BY <2>1, <2>3 DEF NodeIn
<1>. QED
  BY <1>1, <1>2 DEF NodeIn

LEMMA TreeTold ==
  ASSUME NEW tree, NEW aliases, NEW x
  PROVE  /\ \A node : NodeIn(tree, node) /\ LeafSays(node, x) => x \in TreeSays(tree, aliases)
         /\ \A node : NodeIn(tree, node) /\ TextSays(node.label, x) => x \in TreeSays(tree, aliases)
         /\ AliasesSay(aliases, x) => x \in TreeSays(tree, aliases)
<1>. DEFINE nodes == {At(tree, path) : path \in Paths(tree)}
            spelled(node) == IF node.label[1] = "or" THEN ToSet(node.label[2]) ELSE {}
            spells == UNION {spelled(node) : node \in nodes}
            codes == spells \cup (UNION ToSet(aliases))
            labels == {node.label : node \in nodes}
            filters == UNION {ToSet(node.filter) : node \in nodes}
            names == {Code(c) : c \in codes}
<1>1. TreeSays(tree, aliases) = labels \cup filters \cup names
  BY DEF TreeSays
<1>2. \A node : NodeIn(tree, node) => node \in nodes
  BY DEF NodeIn
<1>3. \A node \in nodes : node.label \in labels
  OBVIOUS
<1>4. \A node \in nodes : \A y \in ToSet(node.filter) : y \in filters
  <2>. HIDE DEF nodes
  <2>. QED
    OBVIOUS
<1>5. \A node \in nodes : \A c \in spelled(node) : c \in spells
  <2>. HIDE DEF nodes, spelled
  <2>. QED
    OBVIOUS
<1>6. \A c \in codes : Code(c) \in names
  <2>. HIDE DEF codes
  <2>. QED
    OBVIOUS
<1>7. \A node, c : (node.label[1] = "or" /\ c \in ToSet(node.label[2])) => c \in spelled(node)
  OBVIOUS
<1>8. \A c : c \in UNION ToSet(aliases) \/ c \in spells => c \in codes
  <2>. HIDE DEF spells
  <2>. QED
    OBVIOUS
<1>. HIDE DEF nodes, spelled, spells, codes, labels, filters, names
<1>9. ASSUME NEW node \in nodes, LeafSays(node, x) PROVE x \in labels \cup filters
  <2>1. x = node.label \/ x \in ToSet(node.filter)
    BY <1>9 DEF LeafSays, ToSet
  <2>. QED
    BY <1>3, <1>4, <2>1
<1>10. ASSUME NEW node \in nodes, TextSays(node.label, x) PROVE x \in labels \cup names
  <2>1. x = node.label \/ \E c \in spelled(node) : x = Code(c)
    BY <1>7, <1>10 DEF TextSays, ToSet
  <2>. QED
    BY <1>3, <1>5, <1>6, <1>8, <2>1
<1>11. ASSUME AliasesSay(aliases, x) PROVE x \in names
  <2>1. \E c \in UNION ToSet(aliases) : x = Code(c)
    BY <1>11 DEF AliasesSay, ToSet
  <2>. QED
    BY <1>6, <1>8, <2>1
<1>. QED
  BY <1>1, <1>2, <1>9, <1>10, <1>11

\* Two lists in one, and texts as self-checks.
Holds(list, elt) == \E i \in DOMAIN list : list[i] = elt
Labels(list, text) == \E i \in DOMAIN list : list[i].label = text
LEMMA BothHold ==
  ASSUME NEW S, NEW a \in Seq(S), NEW b \in Seq(S), NEW of, of = a \o b
  PROVE  /\ of \in Seq(S)
         /\ \A i \in DOMAIN a : Holds(of, a[i])
         /\ \A i \in DOMAIN b : Holds(of, b[i])
<1>. PICK k \in Nat, m \in Nat : k = Len(a) /\ m = Len(b)
  OBVIOUS
<1>1. /\ of \in Seq(S) /\ Len(of) = k + m
      /\ \A i \in 1 .. k + m : of[i] = IF i <= k THEN a[i] ELSE b[i - k]
  BY ConcatProperties
<1>2. DOMAIN a = 1 .. k /\ DOMAIN b = 1 .. m /\ DOMAIN of = 1 .. k + m
  BY <1>1, LenProperties
<1>3. ASSUME NEW i \in 1 .. k PROVE i \in 1 .. k + m /\ of[i] = a[i]
  BY <1>1
<1>4. ASSUME NEW i \in 1 .. m PROVE k + i \in 1 .. k + m /\ of[k + i] = b[i]
  <2>1. k + i \in 1 .. k + m /\ ~(k + i <= k) /\ (k + i) - k = i
    OBVIOUS
  <2>. QED
    BY <1>1, <2>1
<1>. QED
  BY <1>1, <1>2, <1>3, <1>4 DEF Holds

LEMMA Checked ==
  ASSUME NEW L, NEW M, NEW texts \in Seq(L), NEW rest, rest = [n \in DOMAIN texts |-> SelfCheck(texts[n])]
  PROVE  /\ rest \in Seq(Level1(L, M)) /\ rest \in Seq(Level2(L, M))
         /\ DOMAIN rest = DOMAIN texts /\ \A i \in DOMAIN texts : rest[i].label = texts[i]
<1>1. rest \in Seq(Level0(L, M))
  BY ChecksType
<1>2. Seq(Level0(L, M)) \subseteq Seq(Level1(L, M)) /\ Seq(Level0(L, M)) \subseteq Seq(Level2(L, M))
  BY Level012, SeqMonotonic
<1>3. \A i \in DOMAIN texts : rest[i].label = texts[i]
  BY DEF SelfCheck, Node
<1>. QED
  BY <1>1, <1>2, <1>3

\* The node of an area has its title, its rules and its texts.
AreaNode(area, node) ==
  /\ node.label = area.title
  /\ \A i \in DOMAIN area.rules : Holds(node.of, area.rules[i])
  /\ \A i \in DOMAIN area.unparsed : Labels(node.of, area.unparsed[i])
LEMMA AreaMade ==
  ASSUME NEW L, NEW M, NEW area \in AreaSet(L, M), NEW node,
         node = Node(area.title, "all", <<>>, area.rules \o [n \in DOMAIN area.unparsed |-> SelfCheck(area.unparsed[n])])
  PROVE  AreaNode(area, node) /\ node \in Level2(L, M)
<1>. PICK own \in Seq(Level1(L, M)), unparsed \in Seq(L) : own = area.rules /\ unparsed = area.unparsed
  BY AreaParts
<1>. PICK rest : rest = [n \in DOMAIN unparsed |-> SelfCheck(unparsed[n])]
  OBVIOUS
<1>1. /\ rest \in Seq(Level1(L, M)) /\ DOMAIN rest = DOMAIN unparsed
      /\ \A i \in DOMAIN unparsed : rest[i].label = unparsed[i]
  BY Checked
<1>. PICK of : of = own \o rest
  OBVIOUS
<1>2. /\ of \in Seq(Level1(L, M)) /\ (\A i \in DOMAIN own : Holds(of, own[i]))
      /\ \A i \in DOMAIN rest : Holds(of, rest[i])
  BY ONLY <1>1, own \in Seq(Level1(L, M)), of = own \o rest, BothHold
<1>3. node = Node(area.title, "all", <<>>, of)
  OBVIOUS
<1>4. area.title \in L /\ "all" \in NodeKinds /\ <<>> \in Seq(M)
  BY AreaParts DEF NodeKinds
<1>5. node \in Level2(L, M)
  BY <1>2, <1>3, <1>4 DEF Node, NodesOf, Level2
<1>6. node.label = area.title /\ node.of = of
  BY <1>3 DEF Node
<1>7. ASSUME NEW i \in DOMAIN unparsed PROVE Labels(of, unparsed[i])
  <2>1. i \in DOMAIN rest /\ rest[i].label = unparsed[i]
    BY ONLY <1>1
  <2>. PICK j \in DOMAIN of : of[j] = rest[i]
    BY ONLY <1>2, <2>1 DEF Holds
  <2>. QED
    BY <2>1 DEF Labels
<1>. QED
  BY <1>2, <1>5, <1>6, <1>7 DEF AreaNode

\* The tree of a draft has a node for every area and every footnote.
TreeNode(areas, footnotes, tree) ==
  /\ \A i \in DOMAIN areas : \E j \in DOMAIN tree.of : AreaNode(areas[i], tree.of[j])
  /\ \A i \in DOMAIN footnotes : Labels(tree.of, footnotes[i])
LEMMA TreeMade ==
  ASSUME NEW L, NEW M, NEW areas \in Seq(AreaSet(L, M)), NEW aliases, NEW footnotes \in Seq(L), NEW title \in L,
         NEW tree, tree = IntoProgram([areas |-> areas, aliases |-> aliases, footnotes |-> footnotes, title |-> title])
  PROVE  TreeNode(areas, footnotes, tree) /\ tree \in Level3(L, M)
<1>. DEFINE node(area) == Node(area.title, "all", <<>>,
                               area.rules \o [n \in DOMAIN area.unparsed |-> SelfCheck(area.unparsed[n])])
<1>1. tree \in Level3(L, M)
  BY IntoProgramType
<1>2. \A area \in AreaSet(L, M) : AreaNode(area, node(area)) /\ node(area) \in Level2(L, M)
  BY AreaMade
<1>. PICK k \in Nat : k = Len(areas) /\ DOMAIN areas = 1 .. k
  BY LenProperties
<1>. PICK made : made = [n \in 1 .. k |-> node(areas[n])]
  OBVIOUS
<1>3. \A n \in 1 .. k : areas[n] \in AreaSet(L, M)
  BY ElementOfSeq
<1>4. made \in Seq(Level2(L, M)) /\ DOMAIN made = 1 .. k /\ \A n \in 1 .. k : AreaNode(areas[n], made[n])
  <2>. HIDE DEF node
  <2>1. \A n \in 1 .. k : node(areas[n]) \in Level2(L, M) /\ AreaNode(areas[n], node(areas[n]))
    BY <1>2, <1>3
  <2>2. [n \in 1 .. k |-> node(areas[n])] \in Seq(Level2(L, M))
    BY <2>1, IsASeq
  <2>. QED
    BY <2>1, <2>2
<1>. PICK notes : notes = [n \in DOMAIN footnotes |-> SelfCheck(footnotes[n])]
  OBVIOUS
<1>5. /\ notes \in Seq(Level1(L, M)) /\ notes \in Seq(Level2(L, M))
      /\ DOMAIN notes = DOMAIN footnotes /\ \A i \in DOMAIN footnotes : notes[i].label = footnotes[i]
  <2>. HIDE DEF node
  <2>. QED
    BY Checked
<1>. PICK of : of = made \o notes
  OBVIOUS
<1>6. (\A i \in DOMAIN made : Holds(of, made[i])) /\ \A i \in DOMAIN notes : Holds(of, notes[i])
  <2>. HIDE DEF node
  <2>. QED
    BY ONLY <1>4, <1>5, of = made \o notes, BothHold
<1>7. tree = Node(title, "all", <<>>, of)
  BY DEF IntoProgram
<1>8. tree.of = of
  BY ONLY <1>7 DEF Node
<1>. HIDE DEF node
<1>9. ASSUME NEW i \in 1 .. k PROVE \E j \in DOMAIN of : AreaNode(areas[i], of[j])
  <2>1. AreaNode(areas[i], made[i]) /\ Holds(of, made[i])
    BY ONLY <1>4, <1>6, i \in 1 .. k
  <2>. QED
    BY ONLY <2>1 DEF Holds
<1>10. ASSUME NEW i \in DOMAIN footnotes PROVE Labels(of, footnotes[i])
  <2>1. notes[i].label = footnotes[i] /\ Holds(of, notes[i])
    BY ONLY <1>5, <1>6, i \in DOMAIN footnotes
  <2>. PICK j \in DOMAIN of : of[j] = notes[i]
    BY ONLY <2>1 DEF Holds
  <2>. QED
    BY <2>1 DEF Labels
<1>. QED
  BY <1>1, <1>8, <1>9, <1>10 DEF TreeNode

\* What a draft says, its tree says.
LEMMA DraftTold ==
  ASSUME NEW L, NEW M, NEW areas \in Seq(AreaSet(L, M)), NEW aliases, NEW footnotes \in Seq(L), NEW title \in L,
         NEW tree, tree = IntoProgram([areas |-> areas, aliases |-> aliases, footnotes |-> footnotes, title |-> title]),
         NEW x, AreasSay(areas, x) \/ AliasesSay(aliases, x) \/ x \in ToSet(footnotes)
  PROVE  x \in TreeSays(tree, aliases)
<1>1. TreeNode(areas, footnotes, tree) /\ tree \in Level3(L, M)
  BY TreeMade
<1>2. NodeIn(tree, tree) /\ \A node : NodeIn(tree, node) => \A i \in DOMAIN node.of : NodeIn(tree, node.of[i])
  BY <1>1, NodesIn
<1>3. /\ \A node : NodeIn(tree, node) /\ LeafSays(node, x) => x \in TreeSays(tree, aliases)
      /\ \A node : NodeIn(tree, node) /\ TextSays(node.label, x) => x \in TreeSays(tree, aliases)
      /\ AliasesSay(aliases, x) => x \in TreeSays(tree, aliases)
  BY TreeTold
<1>4. CASE x \in ToSet(footnotes)
  <2>. PICK i \in DOMAIN footnotes : footnotes[i] = x
    BY <1>4 DEF ToSet
  <2>. PICK j \in DOMAIN tree.of : tree.of[j].label = x
    BY <1>1 DEF TreeNode, Labels
  <2>1. NodeIn(tree, tree.of[j])
    BY <1>2
  <2>2. LeafSays(tree.of[j], x)
    BY DEF LeafSays
  <2>. QED
    BY <1>3, <2>1, <2>2
<1>5. CASE AreasSay(areas, x)
  <2>. PICK n \in DOMAIN areas : AreaSays(areas[n], x)
    BY <1>5 DEF AreasSay
  <2>. PICK area : area = areas[n]
    OBVIOUS
  <2>. PICK j \in DOMAIN tree.of : AreaNode(area, tree.of[j])
    BY <1>1 DEF TreeNode
  <2>. PICK node : node = tree.of[j]
    OBVIOUS
  <2>1. NodeIn(tree, node) /\ AreaNode(area, node)
    BY <1>2
  <2>2. CASE x = area.title
    <3>1. LeafSays(node, x)
      BY <2>1, <2>2 DEF AreaNode, LeafSays
    <3>. QED
      BY <1>3, <2>1, <3>1
  <2>3. CASE \E i \in DOMAIN area.rules : NodeSays(area.rules[i], x)
    <3>. PICK i \in DOMAIN area.rules : NodeSays(area.rules[i], x)
      BY <2>3
    <3>. PICK m \in DOMAIN node.of : node.of[m] = area.rules[i]
      BY <2>1 DEF AreaNode, Holds
    <3>. PICK rule : rule = area.rules[i]
      OBVIOUS
    <3>1. NodeIn(tree, rule) /\ NodeSays(rule, x)
      BY <1>2, <2>1
    <3>2. LeafSays(rule, x) \/ \E o \in DOMAIN rule.of : LeafSays(rule.of[o], x)
      BY <3>1 DEF NodeSays
    <3>. QED
      BY <1>2, <1>3, <3>1, <3>2
  <2>4. CASE \E i \in DOMAIN area.unparsed : TextSays(area.unparsed[i], x)
    <3>. PICK i \in DOMAIN area.unparsed : TextSays(area.unparsed[i], x)
      BY <2>4
    <3>. PICK m \in DOMAIN node.of : node.of[m].label = area.unparsed[i]
      BY <2>1 DEF AreaNode, Labels
    <3>1. NodeIn(tree, node.of[m]) /\ TextSays(node.of[m].label, x)
      BY <1>2, <2>1
    <3>. QED
      BY <1>3, <3>1
  <2>. QED
    BY <2>2, <2>3, <2>4 DEF AreaSays
<1>. QED
  BY <1>3, <1>4, <1>5

\* All that RowSays a page's rows say is in the tree made of it, or in its aliases.
LEMMA NothingIsDropped == ASSUME PagesOK, WritersOK, NEW page \in SitePages PROVE page \in Whole
<1>. PICK L, M : PageFits(page, L, M, Codes)
  BY FittingPage
<1>. PICK areas \in Seq(AreaSet(L, M)), aliases \in Seq(SUBSET Codes) :
        ParsePage(page) = [areas |-> areas, aliases |-> aliases,
                           footnotes |-> page.footnotes, title |-> page.title]
  <2>1. Parsed(page, L, M, Codes)
    BY ParsedType
  <2>. QED
    BY <2>1 DEF Parsed
<1>. PICK footnotes \in Seq(L), title \in L : footnotes = page.footnotes /\ title = page.title
  BY DEF PageFits
<1>. PICK tree : tree = IntoProgram(ParsePage(page))
  OBVIOUS
<1>1. tree = Trees[page]
  BY DEF Trees
<1>2. ASSUME NEW x \in PageSays(page) PROVE x \in TreeSays(tree, aliases)
  <2>1. AreasSay(areas, x) \/ AliasesSay(aliases, x) \/ x \in ToSet(footnotes)
    <3>1. x \in ToSet(footnotes) \/ \E n \in DOMAIN page.rows : x \in RowSays(page, n)
      BY DEF PageSays
    <3>2. ASSUME NEW n \in DOMAIN page.rows, x \in RowSays(page, n) PROVE AreasSay(areas, x) \/ AliasesSay(aliases, x)
      <4>1. n \in 1 .. Len(page.rows)
        BY DEF PagesOK, IsList
      <4>. QED
        BY <3>2, <4>1, DraftSays
    <3>. QED
      BY <3>1, <3>2
  <2>2. tree = IntoProgram([areas |-> areas, aliases |-> aliases, footnotes |-> footnotes, title |-> title])
    OBVIOUS
  <2>. QED
    BY ONLY <2>1, <2>2, areas \in Seq(AreaSet(L, M)), footnotes \in Seq(L), title \in L, DraftTold
<1>. QED
  BY <1>1, <1>2 DEF Whole

LEMMA BoundGoesOn ==
  ASSUME BoundType,
         bound' = bound \/ \E part \in {"edits", "runs", "faults", "decisions", "desks"} : Spend(part)
  PROVE  BoundType'
<1>1. CASE bound' = bound
  BY <1>1 DEF BoundType
<1>2. CASE \E part \in {"edits", "runs", "faults", "decisions", "desks"} : Spend(part)
  BY <1>2, SpendEffect
<1>. QED
  BY <1>1, <1>2

LEMMA SameArchive == ASSUME ArchiveInv, UNCHANGED <<site, raws, outcomes>> PROVE ArchiveInv'
BY DEF ArchiveInv, RawSet, Outcomes
LEMMA SameJobs == ASSUME JobsInv, UNCHANGED jobs PROVE JobsInv'
BY DEF JobsInv, JobOK, JobSet, RawSet, Source, Filing
LEMMA SameDesk == ASSUME DeskInv, UNCHANGED <<drafts, desk>> PROVE DeskInv'
BY DEF DeskInv, DraftSet, DeskSet

LEMMA OutcomeKept ==
  ASSUME outcomes \in Seq(Outcomes), NEW n, NEW o \in Outcomes
  PROVE  [outcomes EXCEPT ![n] = o] \in Seq(Outcomes)
<1>. PICK k \in Nat : k = Len(outcomes) /\ DOMAIN outcomes = 1 .. k
  OBVIOUS
<1>. PICK new : new = [outcomes EXCEPT ![n] = o]
  OBVIOUS
<1>1. \A i \in 1 .. k : outcomes[i] \in Outcomes
  BY ElementOfSeq
<1>2. DOMAIN new = 1 .. k /\ \A i \in 1 .. k : new[i] = IF i = n THEN o ELSE outcomes[i]
  OBVIOUS
<1>3. \A i \in 1 .. k : new[i] \in Outcomes
  BY <1>1, <1>2
<1>4. [i \in 1 .. k |-> new[i]] \in Seq(Outcomes)
  BY <1>3, IsASeq
<1>5. new = [i \in 1 .. k |-> new[i]]
  BY <1>2
<1>. QED
  BY <1>4, <1>5

\* A run that ends.
LEMMA CloseKeeps ==
  ASSUME QueueInv, NEW j \in Jobs, NEW o \in Outcomes, Close(j, o), UNCHANGED <<site, raws>>
  PROVE  ArchiveInv' /\ JobsInv'
<1>1. outcomes' \in Seq(Outcomes)
  BY OutcomeKept DEF Close, QueueInv, ArchiveInv
<1>2. ArchiveInv'
  BY <1>1 DEF QueueInv, ArchiveInv, RawSet, Outcomes
<1>3. JobsInv'
  BY IdleJob, OneJob DEF Close, QueueInv
<1>. QED
  BY <1>2, <1>3

\* A run moves on to the next page.
LEMMA NextPageKeeps ==
  ASSUME QueueInv, NEW j \in Jobs, NEW outages \in Nat, jobs[j].todo # <<>>, NextPage(j, outages)
  PROVE  JobsInv' /\ outcomes' = outcomes
<1>. PICK job : job = jobs[j]
  OBVIOUS
<1>1. JobOK(j, job) /\ job.todo # <<>>
  BY DEF QueueInv, JobsInv
<1>. PICK new : new = [pc |-> "page", run |-> job.run, todo |-> Tail(job.todo), outages |-> outages]
  OBVIOUS
<1>2. JobOK(j, new)
  BY <1>1, JobParts, Rest, WalkOn
<1>3. jobs' = [jobs EXCEPT ![j] = new]
  BY DEF NextPage
<1>. QED
  BY <1>2, <1>3, OneJob DEF QueueInv, NextPage

LEMMA GotoKeeps ==
  ASSUME QueueInv, NEW j \in Jobs, NEW pc \in {"idle", "index", "page", "select", "insert"},
         Filing(pc) <=> Filing(jobs[j].pc), Goto(j, pc)
  PROVE  JobsInv' /\ outcomes' = outcomes
<1>. PICK job : job = jobs[j]
  OBVIOUS
<1>1. JobOK(j, job)
  BY DEF QueueInv, JobsInv
<1>. PICK new : new = [job EXCEPT !.pc = pc]
  OBVIOUS
<1>2. JobOK(j, new)
  BY <1>1, MovedOn
<1>3. jobs' = [jobs EXCEPT ![j] = new]
  BY DEF Goto
<1>. QED
  BY <1>2, <1>3, OneJob DEF QueueInv, Goto

\* A run that begins.
LEMMA BeginRunKeeps ==
  ASSUME QueueInv, NEW j \in Jobs, NEW todo \in Seq(Source(j)), NEW pc \in {"index", "page"}, BeginRun(j, todo, pc)
  PROVE  QueueInv'
<1>1. BoundType'
  BY BoundGoesOn DEF BeginRun, QueueInv
<1>2. outcomes' \in Seq(Outcomes)
  <2>. PICK now \in Seq(Outcomes) : now = outcomes
    BY DEF QueueInv, ArchiveInv
  <2>1. Append(now, "running") \in Seq(Outcomes)
    BY AppendProperties DEF Outcomes
  <2>. QED
    BY <2>1 DEF BeginRun
<1>3. ArchiveInv'
  BY <1>2 DEF BeginRun, QueueInv, ArchiveInv, RawSet, Outcomes
<1>4. JobsInv'
  <2>. PICK run \in Nat : run = Len(outcomes) + 1
    BY DEF QueueInv, ArchiveInv
  <2>. PICK new : new = [NoJob EXCEPT !.pc = pc, !.run = run, !.todo = todo]
    OBVIOUS
  <2>1. todo \in Seq(Editions \cup RawSet)
    <3>1. Source(j) \subseteq Editions \cup RawSet
      BY DEF Source
    <3>. QED
      BY <3>1, SeqMonotonic
  <2>2. new \in JobSet /\ new.pc = pc /\ new.todo = todo
    BY <2>1 DEF NoJob, JobSet
  <2>3. JobOK(j, new)
    BY <2>2 DEF JobOK, Filing
  <2>4. jobs' = [jobs EXCEPT ![j] = new]
    BY DEF BeginRun
  <2>. QED
    BY <2>3, <2>4, OneJob DEF QueueInv
<1>5. DeskInv'
  BY SameDesk DEF BeginRun, QueueInv, stored
<1>. QED
  BY <1>1, <1>3, <1>4, <1>5 DEF QueueInv

\* The list of a pull is the index, and of a replay what can be replayed.
LEMMA ListsToDo ==
  ASSUME PagesOK, QueueInv
  PROVE  /\ Ascending(bound.index) \in Seq(Source("pull"))
         /\ [n \in 1 .. Cardinality(Replayable) |-> raws[Ascending(Replayable)[n]]] \in Seq(Source("replay"))
<1>1. Ascending(bound.index) \in Seq(Editions)
  <2>1. bound.index \in SUBSET Editions
    BY DEF QueueInv, BoundType
  <2>2. bound.index \in SUBSET Nat /\ IsFiniteSet(bound.index)
    BY <2>1, FS_Subset DEF PagesOK
  <2>. QED
    BY <2>1, <2>2, AscendingType, SeqMonotonic
<1>. PICK k \in Nat : k = Len(raws) /\ DOMAIN raws = 1 .. k /\ \A n \in 1 .. k : raws[n] \in RawSet
  BY DEF QueueInv, ArchiveInv
<1>. PICK S : S = Replayable
  OBVIOUS
<1>2. S \in SUBSET (1 .. k)
  BY DEF Replayable
<1>3. S \in SUBSET Nat /\ IsFiniteSet(S)
  <2>1. 1 \in Int /\ k \in Int
    OBVIOUS
  <2>2. IsFiniteSet(1 .. k)
    BY <2>1, FS_Interval
  <2>3. IsFiniteSet(S)
    BY <1>2, <2>2, FS_Subset
  <2>. QED
    BY <1>2, <2>3
<1>. PICK up \in Seq(S) : up = Ascending(S) /\ Len(up) = Cardinality(S)
  BY <1>3, AscendingType
<1>. PICK m \in Nat : m = Len(up)
  OBVIOUS
<1>4. \A n \in 1 .. m : raws[up[n]] \in RawSet
  <2>1. \A n \in 1 .. m : up[n] \in S
    BY ElementOfSeq
  <2>. QED
    BY <1>2, <2>1
<1>5. [n \in 1 .. m |-> raws[up[n]]] \in Seq(RawSet)
  BY <1>4, IsASeq
<1>. QED
  BY <1>1, <1>5 DEF Source

\* The pull.
LEMMA PullIndexKeeps == ASSUME QueueInv, PullIndex PROVE QueueInv'
<1>0. "pull" \in Jobs /\ "page" \in {"idle", "index", "page", "select", "insert"} /\ "failed" \in Outcomes
  BY DEF Jobs, Outcomes
<1>1. BoundType' /\ DeskInv'
  BY BoundGoesOn, SameDesk DEF PullIndex, QueueInv, stored
<1>2. CASE Goto("pull", "page")
  <2>1. Filing("page") <=> Filing(jobs["pull"].pc)
    BY DEF PullIndex, Filing
  <2>2. JobsInv' /\ outcomes' = outcomes
    BY <1>0, <1>2, <2>1, GotoKeeps
  <2>3. ArchiveInv'
    BY <2>2, SameArchive DEF PullIndex, QueueInv
  <2>. QED
    BY <1>1, <2>2, <2>3 DEF QueueInv
<1>3. CASE Close("pull", "failed")
  <2>1. ArchiveInv' /\ JobsInv'
    BY <1>0, <1>3, CloseKeeps DEF PullIndex
  <2>. QED
    BY <1>1, <2>1 DEF QueueInv
<1>. QED
  BY <1>2, <1>3 DEF PullIndex

LEMMA PullPageKeeps == ASSUME QueueInv, PullPage PROVE QueueInv'
<1>0. "pull" \in Jobs /\ "failed" \in Outcomes
  BY DEF Jobs, Outcomes
<1>1. BoundType' /\ DeskInv'
  BY BoundGoesOn, SameDesk DEF PullPage, QueueInv, stored
<1>. PICK job : job = jobs["pull"] /\ job.pc = "page" /\ job.todo # <<>>
  BY DEF PullPage
<1>2. JobOK("pull", job)
  BY <1>0 DEF QueueInv, JobsInv
<1>3. job.run \in Nat /\ job.outages \in Nat /\ job.todo \in Seq(Editions)
  BY <1>2, JobParts DEF Filing, Source
<1>. PICK e \in Editions : e = Head(job.todo)
  BY <1>3, HeadTailProperties
<1>4. Tail(job.todo) \in Seq(Source("pull"))
  BY <1>0, <1>2, Rest
<1>. PICK page \in SitePages : page = site[e]
  BY DEF QueueInv, ArchiveInv
<1>5. site' = site
  BY DEF PullPage
<1>6. ASSUME NEW result, raws' = raws,
             IF Down(CountFetch(job.outages, result)) THEN Close("pull", "failed")
             ELSE NextPage("pull", CountFetch(job.outages, result))
      PROVE  QueueInv'
  <2>. PICK outages \in Nat : outages = CountFetch(job.outages, result)
    BY <1>3 DEF CountFetch
  <2>1. CASE Close("pull", "failed")
    BY <1>0, <1>1, <1>5, <1>6, <2>1, CloseKeeps DEF QueueInv
  <2>2. CASE NextPage("pull", outages)
    <3>1. JobsInv' /\ outcomes' = outcomes
      BY <1>0, <2>2, NextPageKeeps
    <3>2. ArchiveInv'
      BY <1>5, <1>6, <3>1, SameArchive DEF QueueInv
    <3>. QED
      BY <1>1, <3>1, <3>2 DEF QueueInv
  <2>. QED
    BY <1>6, <2>1, <2>2
<1>. PICK raw \in RawSet : raw = [edition |-> e, page |-> page, run |-> job.run]
  BY <1>3 DEF RawSet
<1>7. ASSUME raws' = Append(raws, raw) PROVE raws' \in Seq(RawSet) /\ raws'[Len(raws')] = raw
  <2>. PICK old \in Seq(RawSet) : old = raws
    BY DEF QueueInv, ArchiveInv
  <2>1. /\ Append(old, raw) \in Seq(RawSet) /\ Len(Append(old, raw)) = Len(old) + 1
        /\ Append(old, raw)[Len(old) + 1] = raw
    BY AppendProperties
  <2>. QED
    BY <1>7, <2>1
<1>8. ASSUME raws' = Append(raws, raw), Close("pull", "failed") PROVE QueueInv'
  <2>1. outcomes' \in Seq(Outcomes) /\ JobsInv'
    BY <1>0, <1>8, OutcomeKept, IdleJob, OneJob DEF Close, QueueInv, ArchiveInv
  <2>2. ArchiveInv'
    BY <1>5, <1>7, <1>8, <2>1 DEF QueueInv, ArchiveInv, RawSet, Outcomes
  <2>. QED
    BY <1>1, <2>1, <2>2 DEF QueueInv
<1>9. ASSUME raws' = Append(raws, raw), outcomes' = outcomes,
             jobs' = [jobs EXCEPT !["pull"] = [pc |-> "select", run |-> job.run, outages |-> 0,
                                               todo |-> <<raws'[Len(raws')]>> \o Tail(job.todo)]]
      PROVE  QueueInv'
  <2>. PICK rest \in Seq(Editions) : rest = Tail(job.todo)
    BY <1>4 DEF Source
  <2>. PICK todo : todo = <<raw>> \o rest
    OBVIOUS
  <2>1. todo \in Seq(Editions \cup RawSet) /\ todo # <<>> /\ Head(todo) = raw /\ Tail(todo) = rest
    <3>1. <<raw>> \in Seq(Editions \cup RawSet) /\ rest \in Seq(Editions \cup RawSet)
      BY SeqMonotonic
    <3>. QED
      BY <3>1
  <2>. PICK new : new = [pc |-> "select", run |-> job.run, outages |-> 0, todo |-> todo]
    OBVIOUS
  <2>2. new \in JobSet /\ new.pc = "select" /\ new.todo = todo
    BY <1>3, <2>1 DEF JobSet
  <2>3. JobOK("pull", new)
    BY <2>1, <2>2 DEF JobOK, Filing, Source
  <2>4. jobs' = [jobs EXCEPT !["pull"] = new]
    BY <1>7, <1>9
  <2>5. JobsInv'
    BY <1>0, <2>3, <2>4, OneJob DEF QueueInv
  <2>6. ArchiveInv'
    BY <1>5, <1>7, <1>9 DEF QueueInv, ArchiveInv, RawSet, Outcomes
  <2>. QED
    BY <1>1, <2>5, <2>6 DEF QueueInv
<1>. QED
  BY <1>6, <1>8, <1>9 DEF PullPage

\* The replay, and a page in hand.
LEMMA ReplayPageKeeps == ASSUME QueueInv, ReplayPage PROVE QueueInv'
<1>0. "replay" \in Jobs /\ 0 \in Nat
  BY DEF Jobs
<1>1. BoundType' /\ DeskInv'
  BY BoundGoesOn, SameDesk DEF ReplayPage, QueueInv, stored
<1>. PICK job : job = jobs["replay"] /\ job.pc = "page" /\ job.todo # <<>>
  BY DEF ReplayPage
<1>2. JobOK("replay", job)
  BY <1>0 DEF QueueInv, JobsInv
<1>3. JobsInv' /\ outcomes' = outcomes
  <2>1. CASE NextPage("replay", 0)
    BY <1>0, <2>1, NextPageKeeps
  <2>2. CASE Goto("replay", "select")
    <3>. PICK new : new = [job EXCEPT !.pc = "select"]
      OBVIOUS
    <3>1. new \in JobSet /\ new.pc = "select" /\ new.todo = job.todo
      BY <1>2 DEF JobOK, JobSet
    <3>. PICK todo \in Seq(RawSet) : todo = job.todo
      BY <1>2, JobParts DEF Filing, Source
    <3>2. Head(todo) \in RawSet /\ Tail(todo) \in Seq(RawSet)
      BY HeadTailProperties
    <3>3. JobOK("replay", new)
      BY <3>1, <3>2 DEF JobOK, Source, Filing
    <3>4. jobs' = [jobs EXCEPT !["replay"] = new]
      BY <2>2 DEF Goto
    <3>5. JobsInv'
      BY <1>0, <3>3, <3>4, OneJob DEF QueueInv
    <3>. QED
      BY <2>2, <3>5 DEF Goto
  <2>. QED
    BY <2>1, <2>2 DEF ReplayPage
<1>4. ArchiveInv'
  BY <1>3, SameArchive DEF ReplayPage, QueueInv
<1>. QED
  BY <1>1, <1>3, <1>4 DEF QueueInv

LEMMA SelectDraftKeeps == ASSUME QueueInv, NEW j \in Jobs, SelectDraft(j) PROVE QueueInv'
<1>. PICK job : job = jobs[j] /\ job.pc = "select"
  BY DEF SelectDraft
<1>1. JobOK(j, job)
  BY DEF QueueInv, JobsInv
<1>2. job.todo # <<>> /\ job.outages \in Nat
  BY <1>1, JobParts DEF Filing
<1>3. BoundType' /\ DeskInv'
  BY BoundGoesOn, SameDesk DEF SelectDraft, QueueInv, stored
<1>4. JobsInv' /\ outcomes' = outcomes
  <2>1. CASE NextPage(j, job.outages)
    BY <1>2, <2>1, NextPageKeeps
  <2>2. CASE Goto(j, "insert")
    <3>1. Filing("insert") <=> Filing(jobs[j].pc)
      BY DEF Filing
    <3>. QED
      BY <2>2, <3>1, GotoKeeps
  <2>. QED
    BY <2>1, <2>2 DEF SelectDraft
<1>5. ArchiveInv'
  BY <1>4, SameArchive DEF SelectDraft, QueueInv
<1>. QED
  BY <1>3, <1>4, <1>5 DEF QueueInv

\* A draft more, or one in another state, is as good.
LEMMA MoreDrafts ==
  ASSUME DeskInv, drafts' \in Seq(DraftSet), DOMAIN drafts \subseteq DOMAIN drafts', UNCHANGED desk
  PROVE  DeskInv'
BY DEF DeskInv, DraftSet, DeskSet

LEMMA InsertDraftKeeps == ASSUME QueueInv, NEW j \in Jobs, InsertDraft(j) PROVE QueueInv'
<1>. PICK job : job = jobs[j] /\ job.pc = "insert"
  BY DEF InsertDraft
<1>1. JobOK(j, job)
  BY DEF QueueInv, JobsInv
<1>2. job.todo # <<>> /\ job.outages \in Nat /\ Head(job.todo) \in RawSet
  BY <1>1, JobParts DEF Filing
<1>3. BoundType'
  BY BoundGoesOn DEF InsertDraft, QueueInv
<1>4. JobsInv' /\ outcomes' = outcomes
  BY <1>2, NextPageKeeps DEF InsertDraft
<1>5. ArchiveInv'
  BY <1>4, SameArchive DEF InsertDraft, QueueInv
<1>6. DeskInv'
  <2>. PICK old \in Seq(DraftSet) : old = drafts
    BY DEF QueueInv, DeskInv
  <2>. PICK draft \in DraftSet : draft = [edition |-> Fetched(j).edition, page |-> Fetched(j).page, state |-> "pending"]
    BY <1>2 DEF Fetched, RawSet, DraftSet
  <2>1. Append(old, draft) \in Seq(DraftSet) /\ DOMAIN old \subseteq DOMAIN Append(old, draft)
    BY AppendProperties
  <2>. QED
    BY <2>1, MoreDrafts DEF InsertDraft, QueueInv
<1>. QED
  BY <1>3, <1>4, <1>5, <1>6 DEF QueueInv

LEMMA EndRunKeeps == ASSUME QueueInv, NEW j \in Jobs, EndRun(j) PROVE QueueInv'
<1>1. BoundType' /\ DeskInv'
  BY BoundGoesOn, SameDesk DEF EndRun, QueueInv, stored
<1>2. "ok" \in Outcomes
  BY DEF Outcomes
<1>3. ArchiveInv' /\ JobsInv'
  BY <1>2, CloseKeeps DEF EndRun
<1>. QED
  BY <1>1, <1>3 DEF QueueInv

LEMMA StopKeeps == ASSUME QueueInv, NEW j \in Jobs, Stop(j) PROVE QueueInv'
<1>1. BoundType' /\ DeskInv' /\ ArchiveInv'
  BY BoundGoesOn, SameDesk, SameArchive DEF Stop, QueueInv, stored
<1>2. JobsInv'
  BY IdleJob, OneJob DEF Stop, QueueInv
<1>. QED
  BY <1>1, <1>2 DEF QueueInv

\* A step that leaves the jobs and what they archived alone.
LEMMA DeskOnly ==
  ASSUME QueueInv, UNCHANGED <<site, raws, outcomes, jobs>>, DeskInv',
         bound' = bound \/ \E part \in {"edits", "runs", "faults", "decisions", "desks"} : Spend(part)
  PROVE  QueueInv'
BY BoundGoesOn, SameArchive, SameJobs DEF QueueInv

\* A reviewer turns to something else.
LEMMA DeskKeeps ==
  ASSUME DeskInv, NEW r \in Reviewers, NEW at \in DeskSet, at.pc # "idle" => at.draft \in DOMAIN drafts,
         desk' = [desk EXCEPT ![r] = at], drafts' \in Seq(DraftSet), DOMAIN drafts \subseteq DOMAIN drafts'
  PROVE  DeskInv'
<1>1. desk' \in [Reviewers -> DeskSet] /\ desk'[r] = at /\ \A s \in Reviewers : s # r => desk'[s] = desk[s]
  BY DEF DeskInv
<1>2. \A s \in Reviewers : desk'[s].pc # "idle" => desk'[s].draft \in DOMAIN drafts'
  BY <1>1 DEF DeskInv
<1>. QED
  BY <1>1, <1>2 DEF DeskInv, DraftSet, DeskSet

LEMMA EmptyDesk == AtDesk \in DeskSet /\ AtDesk.pc = "idle"
BY DEF AtDesk, DeskSet

LEMMA AtPc ==
  ASSUME DeskInv, NEW r \in Reviewers, desk[r].pc # "idle", NEW pc \in {"lock", "publish", "aliases", "writing"}
  PROVE  /\ [desk[r] EXCEPT !.pc = pc] \in DeskSet
         /\ [desk[r] EXCEPT !.pc = pc].draft \in DOMAIN drafts
<1>. PICK at \in DeskSet : at = desk[r] /\ at.draft \in DOMAIN drafts
  BY DEF DeskInv
<1>1. [at EXCEPT !.pc = pc] \in DeskSet /\ [at EXCEPT !.pc = pc].draft = at.draft
  BY DEF DeskSet
<1>. QED
  BY <1>1

LEMMA ReadDraftKeeps == ASSUME QueueInv, NEW r \in Reviewers, ReadDraft(r) PROVE QueueInv'
<1>. PICK d \in DOMAIN drafts : desk' = [desk EXCEPT ![r] = [pc |-> "lock", draft |-> d]]
  BY DEF ReadDraft
<1>1. [pc |-> "lock", draft |-> d] \in DeskSet
  BY DEF DeskSet, QueueInv, DeskInv
<1>2. drafts' \in Seq(DraftSet) /\ DOMAIN drafts \subseteq DOMAIN drafts' /\ DeskInv
  BY DEF ReadDraft, stored, QueueInv, DeskInv
<1>3. DeskInv'
  BY <1>1, <1>2, DeskKeeps
<1>. QED
  BY <1>3, DeskOnly DEF ReadDraft

LEMMA LockDraftKeeps == ASSUME QueueInv, NEW r \in Reviewers, LockDraft(r) PROVE QueueInv'
<1>1. drafts' \in Seq(DraftSet) /\ DOMAIN drafts \subseteq DOMAIN drafts' /\ DeskInv
  BY DEF LockDraft, stored, QueueInv, DeskInv
<1>. PICK at : at = [desk[r] EXCEPT !.pc = "publish"]
  OBVIOUS
<1>2. at \in DeskSet /\ at.draft \in DOMAIN drafts
  <2>1. desk[r].pc # "idle"
    BY DEF LockDraft
  <2>. QED
    BY <1>1, <2>1, AtPc
<1>3. desk' = [desk EXCEPT ![r] = AtDesk] \/ desk' = [desk EXCEPT ![r] = at]
  BY DEF LockDraft
<1>4. DeskInv'
  BY <1>1, <1>2, <1>3, EmptyDesk, DeskKeeps
<1>. QED
  BY <1>4, DeskOnly DEF LockDraft

\* A decision about a draft leaves its page and edition.
LEMMA Decided ==
  ASSUME DeskInv, NEW d, NEW said \in {"approved", "rejected"}
  PROVE  /\ [drafts EXCEPT ![d].state = said] \in Seq(DraftSet)
         /\ DOMAIN [drafts EXCEPT ![d].state = said] = DOMAIN drafts
         /\ \A n \in DOMAIN drafts : [drafts EXCEPT ![d].state = said][n].page = drafts[n].page
<1>. PICK old \in Seq(DraftSet) : old = drafts
  BY DEF DeskInv
<1>. PICK k \in Nat : k = Len(old) /\ DOMAIN old = 1 .. k
  OBVIOUS
<1>. PICK new : new = [old EXCEPT ![d].state = said]
  OBVIOUS
<1>1. DOMAIN new = 1 .. k
  OBVIOUS
<1>2. ASSUME NEW n \in 1 .. k PROVE new[n] \in DraftSet /\ new[n].page = old[n].page
  <2>. PICK was \in DraftSet : was = old[n]
    BY ElementOfSeq
  <2>1. [was EXCEPT !.state = said] \in DraftSet /\ [was EXCEPT !.state = said].page = was.page
    BY DEF DraftSet
  <2>2. new[n] = IF n = d THEN [was EXCEPT !.state = said] ELSE was
    OBVIOUS
  <2>. QED
    BY <2>1, <2>2
<1>3. [n \in 1 .. k |-> new[n]] \in Seq(DraftSet)
  BY <1>2, IsASeq
<1>4. new = [n \in 1 .. k |-> new[n]]
  BY <1>1
<1>. QED
  BY <1>1, <1>2, <1>3, <1>4

LEMMA ApproveDraftKeeps == ASSUME QueueInv, NEW r \in Reviewers, ApproveDraft(r) PROVE QueueInv'
<1>1. DeskInv
  BY DEF QueueInv
<1>2. drafts' \in Seq(DraftSet) /\ DOMAIN drafts \subseteq DOMAIN drafts'
  BY <1>1, Decided DEF ApproveDraft
<1>. PICK at : at = [desk[r] EXCEPT !.pc = "aliases"]
  OBVIOUS
<1>3. at \in DeskSet /\ at.draft \in DOMAIN drafts
  <2>1. desk[r].pc # "idle"
    BY DEF ApproveDraft
  <2>. QED
    BY <1>1, <2>1, AtPc
<1>4. desk' = [desk EXCEPT ![r] = at]
  BY DEF ApproveDraft
<1>5. DeskInv'
  BY <1>1, <1>2, <1>3, <1>4, DeskKeeps
<1>. QED
  BY <1>5, DeskOnly DEF ApproveDraft

LEMMA LeaveDeskKeeps == ASSUME QueueInv, NEW r \in Reviewers, LeaveDesk(r) PROVE QueueInv'
<1>1. drafts' \in Seq(DraftSet) /\ DOMAIN drafts \subseteq DOMAIN drafts' /\ DeskInv
  BY DEF LeaveDesk, stored, QueueInv, DeskInv
<1>2. DeskInv'
  BY <1>1, EmptyDesk, DeskKeeps DEF LeaveDesk
<1>. QED
  BY <1>2, DeskOnly DEF LeaveDesk

LEMMA RejectDraftKeeps == ASSUME QueueInv, NEW d, RejectDraft(d) PROVE QueueInv'
<1>1. drafts' \in Seq(DraftSet) /\ DOMAIN drafts \subseteq DOMAIN drafts'
  BY Decided DEF RejectDraft, QueueInv
<1>2. DeskInv'
  BY <1>1, MoreDrafts DEF RejectDraft, QueueInv
<1>. QED
  BY <1>2, DeskOnly DEF RejectDraft

LEMMA EditKeeps == ASSUME QueueInv, NEW e \in Editions, Edit(e) PROVE QueueInv'
<1>1. BoundType' /\ DeskInv' /\ JobsInv'
  BY BoundGoesOn, SameDesk, SameJobs DEF Edit, QueueInv, stored
<1>2. ArchiveInv'
  BY DEF Edit, QueueInv, ArchiveInv, RawSet, Outcomes
<1>. QED
  BY <1>1, <1>2 DEF QueueInv

LEMMA QueueKeeps == ASSUME PagesOK, QueueInv, ProgramsStep PROVE QueueInv'
<1>1. CASE \E e \in Editions : Edit(e)
  BY <1>1, EditKeeps
<1>2. CASE BeginRun("pull", Ascending(bound.index), "index")
  <2>1. "pull" \in Jobs /\ "index" \in {"index", "page"}
    BY DEF Jobs
  <2>. QED
    BY <1>2, <2>1, ListsToDo, BeginRunKeeps
<1>3. CASE BeginRun("replay", [n \in 1 .. Cardinality(Replayable) |-> raws[Ascending(Replayable)[n]]], "page")
  <2>1. "replay" \in Jobs /\ "page" \in {"index", "page"}
    BY DEF Jobs
  <2>. QED
    BY <1>3, <2>1, ListsToDo, BeginRunKeeps
<1>4. CASE PullIndex \/ PullPage \/ ReplayPage
  BY <1>4, PullIndexKeeps, PullPageKeeps, ReplayPageKeeps
<1>5. CASE \E j \in Jobs : SelectDraft(j) \/ InsertDraft(j) \/ EndRun(j) \/ Stop(j)
  BY <1>5, SelectDraftKeeps, InsertDraftKeeps, EndRunKeeps, StopKeeps
<1>6. CASE \E r \in Reviewers : ReadDraft(r) \/ LockDraft(r) \/ ApproveDraft(r) \/ LeaveDesk(r)
  BY <1>6, ReadDraftKeeps, LockDraftKeeps, ApproveDraftKeeps, LeaveDeskKeeps
<1>7. CASE \E d \in DOMAIN drafts : RejectDraft(d)
  BY <1>7, RejectDraftKeeps
<1>8. CASE Choose
  BY <1>8, SameDesk, DeskOnly DEF Choose, QueueInv
<1>. QED
  BY <1>1, <1>2, <1>3, <1>4, <1>5, <1>6, <1>7, <1>8 DEF ProgramsStep, JobStep, ReviewStep

LEMMA QueueStarts == ASSUME ProgramsAssumption, IngestInit PROVE QueueInv
<1>1. ProgramsInit /\ bound \in Budgets
  BY DEF IngestInit, ProgramsInit
<1>2. BoundType
  BY <1>1 DEF ProgramsAssumption, BoundType
<1>3. ArchiveInv
  BY <1>1 DEF ProgramsInit, ArchiveInv
<1>4. JobsInv
  BY <1>1, IdleJob DEF ProgramsInit, JobsInv
<1>5. DeskInv
  BY <1>1, EmptyDesk DEF ProgramsInit, DeskInv
<1>. QED
  BY <1>2, <1>3, <1>4, <1>5 DEF QueueInv

LEMMA QueueGoesOn == ASSUME PagesOK, QueueInv, [IngestNext]_ingestVars PROVE QueueInv'
<1>1. CASE Publishing
  BY <1>1, QueueKeeps DEF Publishing
<1>2. CASE \E r \in Reviewers : UpsertAliases(r) \/ EndReview(r)
  <2>. PICK r \in Reviewers : UpsertAliases(r) \/ EndReview(r)
    BY <1>2
  <2>1. drafts' \in Seq(DraftSet) /\ DOMAIN drafts \subseteq DOMAIN drafts' /\ DeskInv
    BY DEF UpsertAliases, EndReview, AtReview, stored, QueueInv, DeskInv
  <2>. PICK at : at = [desk[r] EXCEPT !.pc = "writing"]
    OBVIOUS
  <2>2. desk[r].pc # "idle"
    BY DEF UpsertAliases, EndReview
  <2>3. at \in DeskSet /\ at.draft \in DOMAIN drafts
    BY <2>1, <2>2, AtPc
  <2>4. desk' = [desk EXCEPT ![r] = at] \/ desk' = [desk EXCEPT ![r] = AtDesk]
    BY DEF UpsertAliases, EndReview, AtReview
  <2>5. DeskInv'
    BY <2>1, <2>3, <2>4, EmptyDesk, DeskKeeps
  <2>. QED
    BY <2>5, DeskOnly DEF UpsertAliases, EndReview, AtReview
<1>3. CASE \/ \E w \in CatalogWriters : UpsertCourses(w)
           \/ \E w \in Writers : Transact(w)
           \/ Polling \/ Reading \/ Searching \/ UNCHANGED ingestVars
  <2>1. UNCHANGED programVars
    BY <1>3 DEF UpsertCourses, Transact, Polling, Reading, Searching, ingestVars
  <2>. QED
    BY <2>1, SameDesk, DeskOnly DEF programVars, QueueInv
<1>. QED
  BY <1>1, <1>2, <1>3 DEF IngestNext

-----------------------------------------------------------------------------
(* Aliases.  What an approval and the catalog's pages bring are groups of   *)
(* codes.                                                                   *)

\* An approval brings groups of the catalog's codes.
LEMMA BringsCodes ==
  ASSUME PagesOK, WritersOK, QueueInv, NEW r \in Reviewers, desk[r].pc # "idle"
  PROVE  BroughtBy(r) \in Seq(SUBSET Codes)
<1>. PICK d \in DOMAIN drafts : d = desk[r].draft
  BY DEF QueueInv, DeskInv
<1>. PICK draft \in DraftSet : draft = drafts[d]
  BY DEF QueueInv, DeskInv
<1>. PICK page \in SitePages : page = draft.page
  BY DEF DraftSet
<1>. QED
  BY TreeOf DEF BroughtBy

(* What the jobs do to the aliases is what course_aliases allows: each      *)
(* writer brings groups of codes, one transaction at a time.                *)
THEOREM AliasesAreUndisturbed == IngestSpec => AliasSpec
<1>1. IngestInit => AliasInit /\ QueueInv
  BY QueueStarts, ProgramsAssumption DEF IngestInit
<1>2. QueueInv /\ [IngestNext]_ingestVars => QueueInv'
  BY QueueGoesOn, PagesAssumption
<1>3. QueueInv /\ [IngestNext]_ingestVars => [AliasNext]_aliasVars
  <2>. SUFFICES ASSUME PagesOK, WritersOK, QueueInv, [IngestNext]_ingestVars PROVE [AliasNext]_aliasVars
    BY PagesAssumption, WritersAssumption
  <2>1. CASE \E w \in CatalogWriters : UpsertCourses(w)
    <3>. PICK w \in Writers, feed \in Seq(SUBSET Codes) : Open(w, feed)
      BY <2>1 DEF UpsertCourses, CatalogWriters, WritersOK
    <3>. QED
      BY DEF AliasNext
  <2>2. CASE \E r \in Reviewers : UpsertAliases(r)
    <3>. PICK r \in Reviewers : UpsertAliases(r)
      BY <2>2
    <3>. PICK groups \in Seq(SUBSET Codes) : groups = BroughtBy(r)
      BY BringsCodes DEF UpsertAliases
    <3>1. r \in Writers /\ Open(r, groups)
      BY DEF UpsertAliases, WritersOK
    <3>. QED
      BY <3>1 DEF AliasNext
  <2>3. CASE \E w \in Writers : Transact(w)
    BY <2>3 DEF Transact, AliasNext
  <2>4. CASE \/ \E r \in Reviewers : EndReview(r)
             \/ Publishing \/ Polling \/ Reading \/ Searching \/ UNCHANGED ingestVars
    BY <2>4 DEF EndReview, Publishing, Polling, Reading, Searching, ingestVars
  <2>. QED
    BY <2>1, <2>2, <2>3, <2>4 DEF IngestNext
<1>. QED
  BY <1>1, <1>2, <1>3, PTL DEF IngestSpec, AliasSpec

(* The aliases the jobs write resolve, whatever else runs.                  *)
THEOREM IngestedAliasesResolve == IngestSpec => []AliasesResolve
BY AliasesAreUndisturbed, AliasesDoResolve

-----------------------------------------------------------------------------
(* Publishing.  A publish writes the tree of the page, and leaves the other *)
(* editions.                                                                *)

\* Ids are pairs of a number and a path, and rules are of known editions; the
\* live rules of a published edition are the tree of the page approved.
IdsInv == \A id \in DOMAIN rules : id \in Nat \X Seq(Nat) /\ rules[id].edition \in Editions
ShownInv(e) == versions[e] # None => /\ versions[e].draft \in DOMAIN drafts
                                     /\ \E idOf : Shows(e, Trees[PublishedPage(e)], idOf)
LiveInv == IdsInv /\ \A e \in Editions : ShownInv(e)

\* The rows of an edition that did not change show what they showed.
LEMMA StillShows ==
  ASSUME NEW e, NEW tree, NEW idOf, Shows(e, tree, idOf),
         \A id : id \in Held(e) => id \in DOMAIN rules' /\ rules'[id] = rules[id],
         \A id : id \in DOMAIN rules' /\ rules'[id].edition = e => id \in Held(e)
  PROVE  Shows(e, tree, idOf)'
<1>1. \A id : id \in LiveRows(e)' <=> id \in LiveRows(e)
  BY DEF LiveRows, Held
<1>2. LiveRows(e)' = LiveRows(e)
  BY <1>1
<1>3. \A p \in Paths(tree) : idOf[p] \in LiveRows(e)
  BY DEF Shows
<1>4. \A p \in Paths(tree) : idOf[p] \in DOMAIN rules' /\ rules'[idOf[p]] = rules[idOf[p]]
  BY <1>3 DEF LiveRows
<1>5. idOf \in [Paths(tree) -> DOMAIN rules']
  BY <1>4 DEF Shows
<1>6. \A p \in Paths(tree) : idOf[p] # None /\ StandsFor(e, tree, idOf, p)'
  BY <1>4 DEF Shows, StandsFor
<1>7. LiveRows(e)' = {idOf[p] : p \in Paths(tree)}
  BY <1>2 DEF Shows
<1>. QED
  BY <1>5, <1>6, <1>7 DEF Shows

LEMMA RetireOther ==
  ASSUME NEW row, NEW e, RowShape(row), row.edition # e
  PROVE  Retire(row, e) = row
<1>1. PICK f, m, p, o, l, k, w, gone :
        /\ gone \in BOOLEAN
        /\ row = [edition |-> f, mark |-> m, retired |-> gone, parent |-> p, ordinal |-> o,
                  label |-> l, kind |-> k, filter |-> w]
  BY DEF RowShape
<1>2. row.retired = gone /\ row.edition = f
  BY <1>1
<1>3. (gone \/ f = e) = gone
  BY <1>1, <1>2
<1>4. Retire(row, e) = [row EXCEPT !.retired = gone \/ f = e]
  BY <1>2 DEF Retire
<1>5. [row EXCEPT !.retired = gone] = row
  BY <1>1
<1>. QED
  BY <1>3, <1>4, <1>5

LEMMA RetireOwn ==
  ASSUME NEW row, NEW e, RowShape(row), row.edition = e
  PROVE  Retire(row, e).retired = TRUE
<1>1. PICK f, m, p, o, l, k, w, gone :
        /\ gone \in BOOLEAN
        /\ row = [edition |-> f, mark |-> m, retired |-> gone, parent |-> p, ordinal |-> o,
                  label |-> l, kind |-> k, filter |-> w]
  BY DEF RowShape
<1>2. Retire(row, e) = [row EXCEPT !.retired = TRUE]
  BY DEF Retire
<1>. QED
  BY <1>1, <1>2

LEMMA ParentOf ==
  ASSUME NEW L, NEW M, NEW tree \in Level3(L, M), NEW p \in Paths(tree), p # <<>>
  PROVE  Front(p) \in Paths(tree)
<1>1. ASSUME NEW r \in Paths(tree), NEW n \in DOMAIN At(tree, r).of, p = Append(r, n)
      PROVE  Front(p) = r
  BY <1>1, ChildOf
<1>2. \E r \in Paths(tree) : \E n \in DOMAIN At(tree, r).of : p = Append(r, n)
  BY PathsOf
<1>. QED
  BY ONLY <1>1, <1>2

\* A publish gives each path of the tree an id of its own.
LEMMA IdsDiffer ==
  ASSUME RuleInv, NEW e, NEW tree, NEW p, NEW q, IdOf(e, tree, p) = IdOf(e, tree, q)
  PROVE  p = q
<1>. PICK id : id = IdOf(e, tree, p) /\ id = IdOf(e, tree, q)
  OBVIOUS
<1>1. \/ id \in Held(e) /\ rules[id].mark = <<p, At(tree, p).label>>
      \/ id = <<bound.decisions, p>> /\ id \notin DOMAIN rules
  BY IdOfEffect DEF Fingerprint
<1>2. \/ id \in Held(e) /\ rules[id].mark = <<q, At(tree, q).label>>
      \/ id = <<bound.decisions, q>> /\ id \notin DOMAIN rules
  BY IdOfEffect DEF Fingerprint
<1>3. id \in Held(e) => id \in DOMAIN rules
  BY DEF Held
<1>. QED
  BY <1>1, <1>2, <1>3

\* Rows are written for the paths of a tree, under their ids.
LEMMA WrittenStandsFor ==
  ASSUME NEW e, NEW tree, NEW idOf, NEW p, rules'[idOf[p]] = Row(e, tree, p),
         p # <<>> => idOf[Front(p)] = IdOf(e, tree, Front(p))
  PROVE  StandsFor(e, tree, idOf, p)'
<1>1. Row(e, tree, p) = [edition |-> e, mark |-> Fingerprint(tree, p), retired |-> FALSE,
                         parent |-> IF p = <<>> THEN None ELSE idOf[Front(p)],
                         ordinal |-> IF p = <<>> THEN 0 ELSE Last(p),
                         label |-> At(tree, p).label, kind |-> At(tree, p).kind, filter |-> At(tree, p).filter]
  BY DEF Row
<1>. QED
  BY <1>1 DEF StandsFor

\* What a publish writes is the tree, and no row of another edition.
LEMMA WritesTree ==
  ASSUME RuleInv, IdsInv, None \notin Nat \X Seq(Nat),
         NEW L, NEW M, NEW tree \in Level3(L, M), NEW e \in Editions, rules' = Written(e, tree)
  PROVE  /\ \E idOf : Shows(e, tree, idOf)'
         /\ IdsInv'
         /\ \A id : id \in DOMAIN rules /\ rules[id].edition # e => id \in DOMAIN rules' /\ rules'[id] = rules[id]
         /\ \A id : id \in DOMAIN rules' /\ rules'[id].edition # e => id \in DOMAIN rules /\ rules[id].edition = rules'[id].edition
<1>. PICK at, idOf :
        /\ at = [id \in Carried(e, tree) |-> CHOOSE p \in Paths(tree) : IdOf(e, tree, p) = id]
        /\ idOf = [p \in Paths(tree) |-> IdOf(e, tree, p)]
  OBVIOUS
<1>0. \A p \in Paths(tree) : idOf[p] = IdOf(e, tree, p)
  OBVIOUS
<1>1. /\ DOMAIN rules' = DOMAIN rules \cup Carried(e, tree)
      /\ \A id \in Carried(e, tree) : rules'[id] = Row(e, tree, at[id])
      /\ \A id \in DOMAIN rules : id \notin Carried(e, tree) => rules'[id] = Retire(rules[id], e)
  BY DEF Written
<1>2. ASSUME NEW p \in Paths(tree) PROVE at[idOf[p]] = p /\ idOf[p] \in Carried(e, tree)
  <2>1. idOf[p] \in Carried(e, tree)
    BY DEF Carried
  <2>2. at[idOf[p]] \in Paths(tree) /\ IdOf(e, tree, at[idOf[p]]) = idOf[p]
    BY <2>1 DEF Carried
  <2>3. IdOf(e, tree, at[idOf[p]]) = IdOf(e, tree, p)
    BY <2>2
  <2>. QED
    BY <2>1, <2>3, IdsDiffer
<1>3. \A id \in Carried(e, tree) : \E p \in Paths(tree) : id = idOf[p]
  BY DEF Carried
<1>4. ASSUME NEW p \in Paths(tree) PROVE rules'[idOf[p]] = Row(e, tree, p)
  <2>. PICK id : id = idOf[p]
    OBVIOUS
  <2>1. id \in Carried(e, tree) /\ at[id] = p
    BY <1>2
  <2>2. rules'[id] = Row(e, tree, at[id])
    BY <1>1, <2>1
  <2>. QED
    BY <2>1, <2>2
<1>5. ASSUME NEW p \in Paths(tree) PROVE StandsFor(e, tree, idOf, p)'
  <2>1. p # <<>> => idOf[Front(p)] = IdOf(e, tree, Front(p))
    BY ParentOf
  <2>. QED
    BY <1>4, <2>1, WrittenStandsFor
<1>6. ASSUME NEW p \in Paths(tree) PROVE idOf[p] \in Nat \X Seq(Nat)
  <2>1. p \in Seq(Nat) /\ bound.decisions \in Nat
    BY PathsOf DEF RuleInv, BoundType
  <2>2. idOf[p] \in DOMAIN rules \/ idOf[p] = <<bound.decisions, p>>
    BY IdOfEffect DEF Held
  <2>3. idOf[p] \in DOMAIN rules => idOf[p] \in Nat \X Seq(Nat)
    BY DEF IdsInv
  <2>4. <<bound.decisions, p>> \in Nat \X Seq(Nat)
    BY <2>1
  <2>. QED
    BY ONLY <2>2, <2>3, <2>4
<1>7. ASSUME NEW id \in DOMAIN rules, id \notin Carried(e, tree)
      PROVE  /\ rules[id].edition # e => rules'[id] = rules[id]
             /\ rules'[id].edition = rules[id].edition
             /\ rules[id].edition = e => rules'[id].retired = TRUE
  <2>1. rules'[id] = Retire(rules[id], e) /\ RowShape(rules[id])
    BY <1>1, <1>7 DEF RuleInv
  <2>. PICK row : row = rules[id]
    OBVIOUS
  <2>2. rules'[id] = Retire(row, e) /\ RowShape(row)
    BY <2>1
  <2>3. Retire(row, e).edition = row.edition
    BY <2>2, RetireEffect
  <2>4. row.edition # e => Retire(row, e) = row
    BY <2>2, RetireOther
  <2>5. row.edition = e => Retire(row, e).retired = TRUE
    BY <2>2, RetireOwn
  <2>. QED
    BY ONLY <2>2, <2>3, <2>4, <2>5, row = rules[id]
<1>8. ASSUME NEW id \in Carried(e, tree)
      PROVE  /\ rules'[id].edition = e /\ rules'[id].retired = FALSE
             /\ id \in DOMAIN rules => rules[id].edition = e
             /\ id \in Nat \X Seq(Nat)
  <2>. PICK p \in Paths(tree) : id = idOf[p]
    BY <1>3
  <2>1. rules'[id] = Row(e, tree, p)
    BY <1>4
  <2>2. id = IdOf(e, tree, p)
    OBVIOUS
  <2>3. id \in DOMAIN rules => rules[id].edition = e
    BY <2>2, IdOfEffect DEF Held
  <2>4. rules'[id].edition = e /\ rules'[id].retired = FALSE
    BY <2>1 DEF Row
  <2>. QED
    BY <1>6, <2>3, <2>4
<1>9. LiveRows(e)' = {idOf[p] : p \in Paths(tree)}
  <2>1. \A id : id \in LiveRows(e)' <=> id \in DOMAIN rules' /\ rules'[id].edition = e /\ ~rules'[id].retired
    BY DEF LiveRows, Held
  <2>2. \A id : id \in LiveRows(e)' <=> id \in Carried(e, tree)
    BY <1>1, <1>7, <1>8, <2>1
  <2>3. \A id : id \in Carried(e, tree) <=> \E p \in Paths(tree) : id = idOf[p]
    BY <1>2, <1>3
  <2>. QED
    BY <2>2, <2>3
<1>10. Shows(e, tree, idOf)'
  <2>1. idOf \in [Paths(tree) -> DOMAIN rules']
    <3>1. idOf = [p \in Paths(tree) |-> idOf[p]]
      OBVIOUS
    <3>. QED
      BY <1>1, <1>2, <3>1
  <2>2. \A p \in Paths(tree) : idOf[p] # None /\ StandsFor(e, tree, idOf, p)'
    BY <1>5, <1>6
  <2>3. Shows(e, tree, idOf)' <=> /\ idOf \in [Paths(tree) -> DOMAIN rules']
                                 /\ LiveRows(e)' = {idOf[p] : p \in Paths(tree)}
                                 /\ \A p \in Paths(tree) : idOf[p] # None /\ StandsFor(e, tree, idOf, p)'
    BY DEF Shows
  <2>. QED
    BY ONLY <1>9, <2>1, <2>2, <2>3
<1>11. IdsInv'
  <2>1. ASSUME NEW id \in DOMAIN rules' PROVE id \in Nat \X Seq(Nat) /\ rules'[id].edition \in Editions
    BY <1>1, <1>7, <1>8 DEF IdsInv
  <2>. QED
    BY <2>1 DEF IdsInv
<1>12. \A id : id \in DOMAIN rules /\ rules[id].edition # e => id \in DOMAIN rules' /\ rules'[id] = rules[id]
  BY <1>1, <1>7, <1>8
<1>13. \A id : id \in DOMAIN rules' /\ rules'[id].edition # e => id \in DOMAIN rules /\ rules[id].edition = rules'[id].edition
  BY <1>1, <1>7, <1>8
<1>. QED
  BY <1>10, <1>11, <1>12, <1>13

\* Drafts stay, with their pages.
DraftsStay == \A d \in DOMAIN drafts : d \in DOMAIN drafts' /\ drafts'[d].page = drafts[d].page
Unpublished == DraftsStay /\ UNCHANGED <<rules, versions>>

\* An edition whose version and rows did not change shows what it showed.
LEMMA StillShown ==
  ASSUME NEW e, ShownInv(e), DraftsStay, versions'[e] = versions[e],
         \A id : id \in Held(e) => id \in DOMAIN rules' /\ rules'[id] = rules[id],
         \A id : id \in DOMAIN rules' /\ rules'[id].edition = e => id \in Held(e)
  PROVE  ShownInv(e)'
<1>. SUFFICES ASSUME versions[e] # None PROVE ShownInv(e)'
  BY DEF ShownInv
<1>. PICK idOf : Shows(e, Trees[PublishedPage(e)], idOf)
  BY DEF ShownInv
<1>. PICK tree : tree = Trees[PublishedPage(e)]
  OBVIOUS
<1>1. Shows(e, tree, idOf)'
  BY StillShows
<1>2. versions[e].draft \in DOMAIN drafts
  BY DEF ShownInv
<1>3. versions'[e].draft \in DOMAIN drafts' /\ PublishedPage(e)' = PublishedPage(e)
  BY <1>2 DEF PublishedPage, DraftsStay
<1>4. Trees' = Trees
  BY DEF Trees
<1>5. Trees'[PublishedPage(e)'] = tree
  BY <1>3, <1>4
<1>. QED
  BY <1>1, <1>3, <1>5 DEF ShownInv

LEMMA QuietlyShown == ASSUME LiveInv, Unpublished PROVE LiveInv'
<1>1. IdsInv'
  BY DEF LiveInv, IdsInv, Unpublished
<1>2. ASSUME NEW e \in Editions PROVE ShownInv(e)'
  BY StillShown DEF LiveInv, Unpublished, Held
<1>. QED
  BY <1>1, <1>2 DEF LiveInv

\* An approval shows the draft's page, and leaves the other editions.
LEMMA ApproveShows ==
  ASSUME PagesOK, WritersOK, QueueInv, RuleInv, LiveInv, NEW r \in Reviewers, ApproveDraft(r)
  PROVE  LiveInv'
<1>. PICK d \in DOMAIN drafts : d = desk[r].draft
  <2>1. desk[r].pc = "publish"
    BY DEF ApproveDraft
  <2>. QED
    BY <2>1 DEF QueueInv, DeskInv
<1>. PICK e \in Editions, page \in SitePages : e = drafts[d].edition /\ page = drafts[d].page
  <2>. PICK draft \in DraftSet : draft = drafts[d]
    BY DEF QueueInv, DeskInv
  <2>. QED
    BY DEF DraftSet
<1>. PICK tree : tree = Trees[page]
  OBVIOUS
<1>0. tree = IntoProgram(ParsePage(page)) /\ \E L, M : tree \in Level3(L, M)
  BY TreeOf
<1>. PICK L, M : tree \in Level3(L, M)
  BY <1>0
<1>1. /\ rules' = Written(e, tree)
      /\ versions' = [versions EXCEPT ![e] = [draft |-> d, retired |-> RetiredIn(rules', e)]]
      /\ drafts' = [drafts EXCEPT ![d].state = "approved"]
  BY <1>0 DEF ApproveDraft, Publish
<1>2. DraftsStay
  <2>1. DeskInv
    BY DEF QueueInv
  <2>. QED
    BY <1>1, <2>1, Decided DEF DraftsStay
<1>3. /\ \E idOf : Shows(e, tree, idOf)'
      /\ IdsInv'
      /\ \A id : id \in DOMAIN rules /\ rules[id].edition # e => id \in DOMAIN rules' /\ rules'[id] = rules[id]
      /\ \A id : id \in DOMAIN rules' /\ rules'[id].edition # e => id \in DOMAIN rules /\ rules[id].edition = rules'[id].edition
  <2>1. IdsInv /\ None \notin Nat \X Seq(Nat) /\ RuleInv
    BY DEF LiveInv, PagesOK
  <2>2. e \in Editions /\ tree \in Level3(L, M) /\ rules' = Written(e, tree)
    BY <1>1
  <2>. QED
    BY ONLY <2>1, <2>2, WritesTree
<1>4. ShownInv(e)'
  <2>1. versions'[e].draft = d
    BY <1>1 DEF RuleInv
  <2>2. versions'[e].draft \in DOMAIN drafts' /\ PublishedPage(e)' = page
    BY <1>2, <2>1 DEF PublishedPage, DraftsStay
  <2>3. Trees' = Trees
    BY DEF Trees
  <2>4. Trees'[PublishedPage(e)'] = tree
    BY <2>2, <2>3
  <2>. QED
    BY <1>3, <2>2, <2>4 DEF ShownInv
<1>5. ASSUME NEW f \in Editions, f # e PROVE ShownInv(f)'
  <2>1. versions'[f] = versions[f] /\ ShownInv(f)
    BY <1>1, <1>5 DEF RuleInv, LiveInv
  <2>2. \A id : id \in Held(f) => id \in DOMAIN rules' /\ rules'[id] = rules[id]
    BY <1>3, <1>5 DEF Held
  <2>3. \A id : id \in DOMAIN rules' /\ rules'[id].edition = f => id \in Held(f)
    BY <1>3, <1>5 DEF Held
  <2>. QED
    BY <1>2, <2>1, <2>2, <2>3, StillShown
<1>. QED
  BY <1>3, <1>4, <1>5 DEF LiveInv

LEMMA UnpublishedSteps ==
  ASSUME QueueInv, ProgramsStep, ~\E r \in Reviewers : ApproveDraft(r)
  PROVE  Unpublished
<1>1. CASE \E e \in Editions : Edit(e)
  BY <1>1 DEF Edit, stored, Unpublished, DraftsStay
<1>2. CASE \E j, todo, pc : BeginRun(j, todo, pc)
  BY <1>2 DEF BeginRun, stored, Unpublished, DraftsStay
<1>3. CASE PullIndex \/ PullPage \/ ReplayPage
  BY <1>3 DEF PullIndex, PullPage, ReplayPage, stored, Unpublished, DraftsStay
<1>4. CASE \E j \in Jobs : SelectDraft(j) \/ EndRun(j) \/ Stop(j)
  BY <1>4 DEF SelectDraft, EndRun, Stop, stored, Unpublished, DraftsStay
<1>5. CASE \E j \in Jobs : InsertDraft(j)
  <2>. PICK j \in Jobs : InsertDraft(j)
    BY <1>5
  <2>. PICK old \in Seq(DraftSet) : old = drafts
    BY DEF QueueInv, DeskInv
  <2>. PICK draft : drafts' = Append(drafts, draft)
    BY DEF InsertDraft
  <2>1. \A d \in DOMAIN old : d \in DOMAIN Append(old, draft) /\ Append(old, draft)[d] = old[d]
    OBVIOUS
  <2>. QED
    BY <2>1 DEF InsertDraft, Unpublished, DraftsStay
<1>6. CASE \E r \in Reviewers : ReadDraft(r) \/ LockDraft(r) \/ LeaveDesk(r)
  BY <1>6 DEF ReadDraft, LockDraft, LeaveDesk, stored, Unpublished, DraftsStay
<1>7. CASE \E d \in DOMAIN drafts : RejectDraft(d)
  <2>1. DeskInv
    BY DEF QueueInv
  <2>. QED
    BY <1>7, <2>1, Decided DEF RejectDraft, Unpublished, DraftsStay
<1>8. CASE Choose
  BY <1>8 DEF Choose, Unpublished, DraftsStay
<1>. QED
  BY <1>1, <1>2, <1>3, <1>4, <1>5, <1>6, <1>7, <1>8 DEF ProgramsStep, JobStep, ReviewStep

LEMMA LiveGoesOn ==
  ASSUME PagesOK, WritersOK, QueueInv, RuleInv, LiveInv, [IngestNext]_ingestVars
  PROVE  LiveInv'
<1>1. CASE ProgramsStep
  BY <1>1, ApproveShows, UnpublishedSteps, QuietlyShown
<1>2. CASE UNCHANGED <<drafts, rules, versions>>
  BY <1>2, QuietlyShown DEF Unpublished, DraftsStay
<1>3. ProgramsStep \/ UNCHANGED <<drafts, rules, versions>>
  BY DEF IngestNext, UpsertCourses, UpsertAliases, EndReview, AtReview, Transact, Publishing, Polling,
         Reading, Searching, programVars, stored, ingestVars
<1>. QED
  BY <1>1, <1>2, <1>3

LEMMA LiveStarts == ASSUME IngestInit PROVE LiveInv
BY DEF IngestInit, ProgramsInit, NoRules, LiveInv, IdsInv, ShownInv

LEMMA LivePages ==
  ASSUME PagesOK, WritersOK, QueueInv, RuleInv, LiveInv
  PROVE  PublishedIsThePage
<1>1. ProgramsTypeOK
  <2>1. ASSUME NEW d \in DOMAIN drafts PROVE drafts[d].state \in {"pending", "approved", "rejected"}
    <3>. PICK draft \in DraftSet : draft = drafts[d]
      BY DEF QueueInv, DeskInv
    <3>. QED
      BY DEF DraftSet
  <2>2. \A n \in DOMAIN outcomes : outcomes[n] \in {"running", "ok", "failed"}
    BY DEF QueueInv, ArchiveInv, Outcomes
  <2>3. ASSUME NEW id \in DOMAIN rules PROVE rules[id].edition \in Editions /\ rules[id].retired \in BOOLEAN
    <3>1. RowShape(rules[id])
      BY DEF RuleInv
    <3>. QED
      BY <3>1, RetireEffect DEF LiveInv, IdsInv
  <2>4. \A e \in Editions : versions[e] # None => versions[e].draft \in DOMAIN drafts
    BY DEF LiveInv, ShownInv
  <2>. QED
    BY <2>1, <2>2, <2>3, <2>4 DEF ProgramsTypeOK
<1>2. ASSUME NEW e \in Editions, versions[e] # None
      PROVE  PublishedPage(e) \in Whole /\ LoadProgram(e) = Trees[PublishedPage(e)]
  <2>1. versions[e].draft \in DOMAIN drafts /\ \E idOf : Shows(e, Trees[PublishedPage(e)], idOf)
    BY <1>2 DEF LiveInv, ShownInv
  <2>. PICK page \in SitePages : page = PublishedPage(e)
    <3>. PICK draft \in DraftSet : draft = drafts[versions[e].draft]
      BY <2>1 DEF QueueInv, DeskInv
    <3>. QED
      BY DEF DraftSet, PublishedPage
  <2>2. \E L, M : Trees[page] \in Level3(L, M)
    BY TreeOf
  <2>3. LoadProgram(e) = Trees[PublishedPage(e)]
    BY <2>1, <2>2, LoadsTree
  <2>. QED
    BY <2>3, NothingIsDropped
<1>. QED
  BY <1>1, <1>2 DEF PublishedIsThePage

(* A program a student loads is the page the reviewer approved, for all     *)
(* pages and editions: publish writes the parsed tree one row to a path,    *)
(* retires the rest, and load_program's grouping by parent gives the tree   *)
(* back.  The parser takes what the rows say into an area, a group or an    *)
(* alias, all but the comments under "Total Credit Hours Required".         *)
THEOREM PublishedStaysThePage == IngestSpec => []PublishedIsThePage
<1>1. IngestInit => QueueInv /\ ProgramInv /\ LiveInv
  BY QueueStarts, ProgramsStart, LiveStarts, ProgramsAssumption
<1>2. QueueInv /\ ProgramInv /\ LiveInv /\ [IngestNext]_ingestVars => (QueueInv /\ ProgramInv /\ LiveInv)'
  BY QueueGoesOn, ProgramsGoOn, LiveGoesOn, PagesAssumption, WritersAssumption DEF ProgramInv
<1>3. QueueInv /\ ProgramInv /\ LiveInv => PublishedIsThePage
  BY LivePages, PagesAssumption, WritersAssumption DEF ProgramInv
<1>. QED
  BY <1>1, <1>2, <1>3, PTL DEF IngestSpec

(* A rule a student chose stays the rule it was: publishing never loses it, *)
(* never changes what it is, and never retires it without the version       *)
(* saying so, whatever is queued, approved, rejected, replayed or cut off.  *)
THEOREM ChoicesStayTrue == IngestSpec => []ChoicesResolve
<1>1. IngestInit => ProgramInv
  BY ProgramsStart, ProgramsAssumption
<1>2. ProgramInv /\ [IngestNext]_ingestVars => ProgramInv'
  BY ProgramsGoOn
<1>. QED
  BY <1>1, <1>2, ChoiceIsSound, PTL DEF IngestSpec

-----------------------------------------------------------------------------
(* The documents of a section.  A weekly run knows when it began and which  *)
(* sections were due; one that is served has a stamp from the run or later, *)
(* or a replay wrote its detail page meanwhile.                             *)

SectionShape(row) ==
  /\ row \in [part : {row.part}, meetings : {row.meetings}, stamps : {row.stamps}]
  /\ row.stamps = [k \in Kinds |-> row.stamps[k]]
RunShape(q) ==
  q \in [pc : {q.pc}, todo : {q.todo}, rows : {q.rows}, outages : {q.outages}, began : {q.began},
        targets : {q.targets}, missed : {q.missed}, docs : {q.docs}]

SectionInv == /\ section = [c \in DOMAIN section |-> section[c]]
              /\ \A c \in DOMAIN section : SectionShape(section[c])
Served(k, c) == section[c].stamps[k] >= weekly[k].began \/ (k = "detail" /\ c \in rewound)
Remaining(q) == q.targets \ (q.missed \cup ToSet(q.todo))
\* The detail page in hand is that of the CRN asked for, and not of an older day.
DetailInHand(q) == q.rows = <<>> \/ \E day : /\ q.rows = <<[crn |-> Head(q.todo), fetched |-> day]>>
                                            /\ day >= q.began
RunInv(k) ==
  LET q == weekly[k]
  IN  /\ RunShape(q) /\ q.pc \in {"idle", "asking", "merging"}
      /\ q.todo \in Seq(Crns) /\ q.began \in Nat /\ q.began <= today
      /\ q.targets \subseteq DOMAIN section
      /\ \A c \in Remaining(q) : Served(k, c)
      /\ q.pc = "merging" /\ k = "detail" =>
           DetailInHand(q) /\ (q.rows = <<>> /\ Head(q.todo) \in q.targets => Served(k, Head(q.todo)))
      /\ q.pc = "merging" => q.todo # <<>>
DocInv == /\ today \in Nat /\ SectionInv
          /\ DOMAIN section \subseteq Crns /\ DOMAIN listing \subseteq Crns
          /\ weekly = [k \in Kinds |-> weekly[k]]
          /\ replaying.kind \in Kinds
          /\ replaying = [kind |-> replaying.kind, rows |-> replaying.rows]
          /\ \A k \in Kinds : RunInv(k)

\* What a step may do to the sections without undoing a run.
Keeps(k) ==
  /\ DOMAIN section \subseteq DOMAIN section' /\ today' \in Nat /\ today <= today'
  /\ \A c \in DOMAIN section : \/ section'[c].stamps[k] = section[c].stamps[k]
                               \/ section'[c].stamps[k] >= weekly[k].began
                               \/ k = "detail" /\ c \in rewound'
  /\ k = "detail" => rewound \subseteq rewound'

LEMMA ServedStays ==
  ASSUME NEW k \in Kinds, Keeps(k), NEW c \in DOMAIN section, Served(k, c),
         weekly'[k].began = weekly[k].began
  PROVE  Served(k, c)'
  BY DEF Served, Keeps

\* A run no step touches goes on as it was.
LEMMA RunStays ==
  ASSUME NEW k \in Kinds, RunInv(k), Keeps(k), weekly'[k] = weekly[k], today \in Nat
  PROVE  RunInv(k)'
<1>. PICK q : q = weekly[k]
  OBVIOUS
<1>1. weekly'[k] = q /\ today <= today' /\ today' \in Nat /\ DOMAIN section \subseteq DOMAIN section'
  BY DEF Keeps
<1>2. /\ RunShape(q) /\ q.pc \in {"idle", "asking", "merging"} /\ q.todo \in Seq(Crns)
      /\ q.began \in Nat /\ q.began <= today /\ q.targets \subseteq DOMAIN section
      /\ q.pc = "merging" => q.todo # <<>>
  BY DEF RunInv
<1>3. \A c \in q.targets : Served(k, c) => Served(k, c)'
  BY <1>1, <1>2, ServedStays
<1>4. \A c \in Remaining(q) : Served(k, c)'
  <2>1. Remaining(q) \subseteq q.targets
    BY DEF Remaining
  <2>2. \A c \in Remaining(q) : Served(k, c)
    BY DEF RunInv
  <2>. QED
    BY <1>3, <2>1, <2>2
<1>5. q.pc = "merging" /\ k = "detail" =>
        DetailInHand(q) /\ (q.rows = <<>> /\ Head(q.todo) \in q.targets => Served(k, Head(q.todo))')
  BY <1>3 DEF RunInv
<1>6. q.began <= today'
  BY <1>1, <1>2
<1>7. q.targets \subseteq DOMAIN section'
  BY <1>1, <1>2
<1>. QED
  BY <1>1, <1>2, <1>4, <1>5, <1>6, <1>7 DEF RunInv

\* The CRNs left of a run, after its first.
LEMMA TailSet ==
  ASSUME NEW S, NEW s \in Seq(S), s # <<>>
  PROVE  /\ Tail(s) \in Seq(S) /\ Head(s) \in S
         /\ ToSet(s) = {Head(s)} \cup ToSet(Tail(s))
<1>1. Len(s) \in Nat \ {0} /\ DOMAIN s = 1 .. Len(s) /\ Head(s) = s[1]
  OBVIOUS
<1>2. /\ Tail(s) \in Seq(S) /\ Len(Tail(s)) = Len(s) - 1
      /\ DOMAIN Tail(s) = 1 .. (Len(s) - 1)
      /\ \A i \in 1 .. (Len(s) - 1) : Tail(s)[i] = s[i + 1]
  OBVIOUS
<1>3. ASSUME NEW x \in ToSet(s)
      PROVE  x \in {Head(s)} \cup ToSet(Tail(s))
  <2>1. PICK i \in 1 .. Len(s) : x = s[i]
    BY <1>1 DEF ToSet
  <2>2. CASE i = 1
    BY <1>1, <2>1, <2>2
  <2>3. CASE i # 1
    <3>1. i - 1 \in 1 .. (Len(s) - 1) /\ x = Tail(s)[i - 1]
      BY <1>1, <1>2, <2>1, <2>3
    <3>. QED
      BY <1>2, <3>1 DEF ToSet
  <2>. QED
    BY <2>2, <2>3
<1>4. ASSUME NEW x \in {Head(s)} \cup ToSet(Tail(s))
      PROVE  x \in ToSet(s)
  <2>1. CASE x = Head(s)
    BY <1>1, <2>1 DEF ToSet
  <2>2. CASE x \in ToSet(Tail(s))
    <3>1. PICK i \in 1 .. (Len(s) - 1) : x = Tail(s)[i]
      BY <1>2, <2>2 DEF ToSet
    <3>2. i + 1 \in 1 .. Len(s) /\ x = s[i + 1]
      BY <1>1, <1>2, <3>1
    <3>. QED
      BY <1>1, <3>2 DEF ToSet
  <2>. QED
    BY <2>1, <2>2
<1>5. Head(s) \in S
  BY <1>1
<1>. QED
  BY <1>2, <1>3, <1>4, <1>5

\* A listing gives a row its part of term and its meetings, and no stamp.
LEMMA ListedRow ==
  ASSUME NEW held, SectionShape(held), NEW entry, NEW new, new = FromListing(held, entry)
  PROVE  SectionShape(new) /\ new.stamps = held.stamps
<1>1. /\ new \in [part : {new.part}, meetings : {new.meetings}, stamps : {held.stamps}]
      /\ new.stamps = held.stamps /\ held.stamps = [k \in Kinds |-> held.stamps[k]]
  BY DEF SectionShape, FromListing
<1>. QED
  BY <1>1 DEF SectionShape

\* A feed gives a row a stamp too.
LEMMA FedRow ==
  ASSUME NEW held, SectionShape(held), NEW row, NEW new, new = FromFeed(held, row)
  PROVE  SectionShape(new) /\ new.stamps = [held.stamps EXCEPT !["xml"] = today]
<1>. PICK s : s = [held.stamps EXCEPT !["xml"] = today]
  OBVIOUS
<1>1. s = [k \in Kinds |-> s[k]]
  BY DEF SectionShape
<1>2. /\ new \in [part : {new.part}, meetings : {new.meetings}, stamps : {s}]
      /\ new.stamps = s
  BY DEF SectionShape, FromFeed
<1>. QED
  BY <1>1, <1>2 DEF SectionShape

\* A detail page gives it the other.
LEMMA DetailedRow ==
  ASSUME NEW held, SectionShape(held), NEW row, NEW new, new = FromDetail(held, row)
  PROVE  SectionShape(new) /\ new.stamps = [held.stamps EXCEPT !["detail"] = row.fetched]
<1>. PICK s : s = [held.stamps EXCEPT !["detail"] = row.fetched]
  OBVIOUS
<1>1. s = [k \in Kinds |-> s[k]]
  BY DEF SectionShape
<1>2. /\ new \in [part : {new.part}, meetings : {new.meetings}, stamps : {s}]
      /\ new.stamps = s
  BY DEF SectionShape, FromDetail
<1>. QED
  BY <1>1, <1>2 DEF SectionShape

\* One row of a held section is written with a stamp.
StampsOf(crn, k, day) ==
  /\ SectionInv' /\ DOMAIN section' = DOMAIN section
  /\ \A l \in Kinds, c \in DOMAIN section :
       section'[c].stamps[l] = IF l = k /\ c = crn THEN day ELSE section[c].stamps[l]

LEMMA OneStamp ==
  ASSUME SectionInv, NEW crn \in DOMAIN section, NEW k \in Kinds, NEW day, NEW new,
         SectionShape(new), new.stamps = [section[crn].stamps EXCEPT ![k] = day],
         section' = [section EXCEPT ![crn] = new]
  PROVE  StampsOf(crn, k, day)
<1>. PICK s : s = section[crn].stamps
  OBVIOUS
<1>1. s = [l \in Kinds |-> s[l]]
  BY DEF SectionInv, SectionShape
<1>2. new.stamps[k] = day /\ \A l \in Kinds : l # k => new.stamps[l] = s[l]
  BY <1>1
<1>3. /\ DOMAIN section' = DOMAIN section /\ section' = [c \in DOMAIN section |-> section'[c]]
      /\ section'[crn] = new /\ \A c \in DOMAIN section : c # crn => section'[c] = section[c]
  BY DEF SectionInv
<1>4. SectionInv'
  BY <1>3 DEF SectionInv
<1>5. ASSUME NEW l \in Kinds, NEW c \in DOMAIN section
      PROVE  section'[c].stamps[l] = IF l = k /\ c = crn THEN day ELSE section[c].stamps[l]
  BY <1>2, <1>3
<1>. QED
  BY <1>3, <1>4, <1>5 DEF StampsOf

\* What a merge does to the stamps: it writes one, of a section that is held.
LEMMA MergeEffect ==
  ASSUME SectionInv, NEW k \in Kinds, NEW row, Merge(k, row)
  PROVE  StampsOf(row.crn, k, IF k = "xml" THEN today ELSE row.fetched)
<1>. PICK crn, day : crn = row.crn /\ day = IF k = "xml" THEN today ELSE row.fetched
  OBVIOUS
<1>1. CASE crn \notin DOMAIN section
  <2>1. section' = section
    BY <1>1 DEF Merge, UpsertSectionXml, UpsertSectionDetail, sectionRows
  <2>. QED
    BY <1>1, <2>1 DEF SectionInv, StampsOf
<1>2. CASE crn \in DOMAIN section
  <2>. PICK old : old = section[crn]
    OBVIOUS
  <2>1. SectionShape(old)
    BY <1>2 DEF SectionInv
  <2>2. PICK new : /\ section' = [section EXCEPT ![crn] = new] /\ SectionShape(new)
                   /\ new.stamps = [old.stamps EXCEPT ![k] = day]
    <3>1. CASE k = "xml"
      <4>. PICK new : new = FromFeed(old, row)
        OBVIOUS
      <4>1. section' = [section EXCEPT ![crn] = new]
        BY <1>2, <3>1 DEF Merge, UpsertSectionXml
      <4>2. SectionShape(new) /\ new.stamps = [old.stamps EXCEPT !["xml"] = today]
        BY <2>1, FedRow
      <4>. QED
        BY <3>1, <4>1, <4>2
    <3>2. CASE k = "detail"
      <4>. PICK new : new = FromDetail(old, row)
        OBVIOUS
      <4>1. section' = [section EXCEPT ![crn] = new]
        BY <1>2, <3>2 DEF Merge, UpsertSectionDetail
      <4>2. SectionShape(new) /\ new.stamps = [old.stamps EXCEPT !["detail"] = row.fetched]
        BY <2>1, DetailedRow
      <4>. QED
        BY <3>2, <4>1, <4>2
    <3>. QED
      BY <3>1, <3>2 DEF Kinds
  <2>3. StampsOf(crn, k, day)
    BY <1>2, <2>2, OneStamp
  <2>. QED
    BY <2>3
<1>. QED
  BY <1>1, <1>2

\* A merge undoes no run that is not served by it.
LEMMA MergeKeeps ==
  ASSUME DocInv, NEW k \in Kinds, NEW row, Merge(k, row), today' = today, NEW l \in Kinds,
         rewound' = rewound \/ (k = "detail" /\ rewound' = rewound \cup {row.crn}),
         k = "detail" /\ l = "detail" => row.crn \in rewound' \/ row.fetched >= weekly[l].began
  PROVE  Keeps(l) /\ SectionInv' /\ DOMAIN section' = DOMAIN section
<1>. PICK crn, day : crn = row.crn /\ day = IF k = "xml" THEN today ELSE row.fetched
  OBVIOUS
<1>1. /\ SectionInv' /\ DOMAIN section' = DOMAIN section
      /\ \A c \in DOMAIN section :
           section'[c].stamps[l] = IF l = k /\ c = crn THEN day ELSE section[c].stamps[l]
  BY MergeEffect DEF StampsOf, DocInv
<1>2. weekly[l].began \in Nat /\ weekly[l].began <= today /\ today \in Nat
  BY DEF DocInv, RunInv
<1>3. rewound \subseteq rewound'
  OBVIOUS
<1>4. ASSUME NEW c \in DOMAIN section
      PROVE  \/ section'[c].stamps[l] = section[c].stamps[l]
             \/ section'[c].stamps[l] >= weekly[l].began
             \/ l = "detail" /\ c \in rewound'
  <2>1. CASE l # k \/ c # crn
    BY <1>1, <2>1
  <2>2. CASE l = k /\ c = crn /\ k = "xml"
    <3>1. section'[c].stamps[l] = today
      BY <1>1, <2>2
    <3>2. today >= weekly[l].began
      BY <1>2
    <3>. QED
      BY <3>1, <3>2
  <2>3. CASE l = k /\ c = crn /\ k = "detail"
    <3>1. section'[c].stamps[l] = row.fetched
      BY <1>1, <2>3
    <3>. QED
      BY <2>3, <3>1
  <2>. QED
    BY <2>1, <2>2, <2>3 DEF Kinds
<1>. QED
  BY <1>1, <1>2, <1>3, <1>4 DEF Keeps

\* A run goes on: what it has in hand changes, when it began does not.
LEMMA RunGoesOn ==
  ASSUME DocInv, NEW k \in Kinds, Keeps(k), NEW q, weekly' = [weekly EXCEPT ![k] = q],
         RunShape(q), q.pc \in {"asking", "merging"}, q.todo \in Seq(Crns),
         q.began = weekly[k].began, q.targets = weekly[k].targets,
         \A c \in Remaining(q) : Served(k, c) \/ Served(k, c)',
         q.pc = "merging" => q.todo # <<>>,
         q.pc = "merging" /\ k = "detail" =>
           DetailInHand(q) /\ (q.rows = <<>> /\ Head(q.todo) \in q.targets => Served(k, Head(q.todo))')
  PROVE  RunInv(k)'
<1>1. weekly'[k] = q
  BY DEF DocInv
<1>2. /\ today' \in Nat /\ today <= today' /\ today \in Nat /\ DOMAIN section \subseteq DOMAIN section'
      /\ q.began \in Nat /\ q.began <= today /\ q.targets \subseteq DOMAIN section
  BY DEF Keeps, DocInv, RunInv
<1>3. \A c \in Remaining(q) : Served(k, c)'
  <2>1. Remaining(q) \subseteq DOMAIN section
    BY <1>2 DEF Remaining
  <2>2. \A c \in DOMAIN section : Served(k, c) => Served(k, c)'
    BY <1>1, ServedStays
  <2>. QED
    BY <2>1, <2>2
<1>4. q.began <= today' /\ q.targets \subseteq DOMAIN section'
  BY <1>2
<1>. QED
  BY <1>1, <1>2, <1>3, <1>4 DEF RunInv

\* No run, nothing to say.
LEMMA RunEnds ==
  ASSUME NEW k \in Kinds, weekly'[k] = NoRun, today' \in Nat
  PROVE  RunInv(k)'
<1>. PICK q : q = NoRun
  OBVIOUS
<1>1. /\ RunShape(q) /\ q.pc = "idle" /\ q.todo = <<>> /\ q.began = 0 /\ q.targets = {}
  BY DEF NoRun, RunShape
<1>2. Remaining(q) = {}
  BY <1>1 DEF Remaining
<1>3. q.todo \in Seq(Crns)
  BY <1>1
<1>. QED
  BY <1>1, <1>2, <1>3 DEF RunInv

\* A step about one run leaves the other as it was.
LEMMA OneRun ==
  ASSUME DocInv, NEW k \in Kinds, NEW q, weekly' = [weekly EXCEPT ![k] = q], SectionInv',
         RunInv(k)', \A l \in Kinds : l # k => Keeps(l), today' = today, replaying' = replaying,
         DOMAIN section' \subseteq Crns, listing' = listing
  PROVE  DocInv'
<1>1. weekly' = [l \in Kinds |-> weekly'[l]] /\ \A l \in Kinds : l # k => weekly'[l] = weekly[l]
  BY DEF DocInv
<1>2. \A l \in Kinds : l # k => RunInv(l)'
  BY <1>1, RunStays DEF DocInv
<1>. QED
  BY <1>1, <1>2 DEF DocInv

\* Where no section is written, nothing is undone.
LEMMA NothingWritten ==
  ASSUME DocInv, section' = section, today' \in Nat, today <= today', rewound' = rewound
  PROVE  SectionInv' /\ DOMAIN section' \subseteq Crns /\ \A k \in Kinds : Keeps(k)
  BY DEF DocInv, SectionInv, Keeps

\* Steps that write no section and move no run.
LEMMA QuietDocStep ==
  ASSUME DocInv, section' = section, today' \in Nat, today <= today', rewound' = rewound,
         weekly' = weekly, replaying'.kind \in Kinds, DOMAIN listing' \subseteq Crns,
         replaying' = [kind |-> replaying'.kind, rows |-> replaying'.rows]
  PROVE  DocInv'
<1>1. \A k \in Kinds : RunInv(k)'
  BY NothingWritten, RunStays DEF DocInv
<1>. QED
  BY <1>1, NothingWritten DEF DocInv

\* A listing adds rows and stamps none.
LEMMA WriteListingStep == ASSUME DocInv, WriteListing PROVE DocInv'
<1>. DEFINE S == DOMAIN section \cup DOMAIN listing
<1>1. /\ section' = [c \in S |-> IF c \in DOMAIN listing THEN UpsertListing(c, listing[c]) ELSE section[c]]
      /\ weekly' = weekly /\ today' = today /\ rewound' = rewound /\ replaying' = replaying
      /\ listing' = NoListing
  BY DEF WriteListing, printed
<1>2. ASSUME NEW c \in S
      PROVE  /\ SectionShape(section'[c])
             /\ c \in DOMAIN section => section'[c].stamps = section[c].stamps
  <2>1. CASE c \in DOMAIN listing
    <3>. PICK old : old = IF c \in DOMAIN section THEN section[c] ELSE NewSection
      OBVIOUS
    <3>1. SectionShape(NewSection)
      BY DEF NewSection, SectionShape
    <3>2. SectionShape(old)
      BY <3>1 DEF DocInv, SectionInv
    <3>3. section'[c] = FromListing(old, listing[c])
      BY <1>1, <2>1 DEF UpsertListing
    <3>. QED
      BY <3>2, <3>3, ListedRow
  <2>2. CASE c \notin DOMAIN listing
    BY <1>1, <2>2 DEF DocInv, SectionInv
  <2>. QED
    BY <2>1, <2>2
<1>3. DOMAIN section' = S /\ section' = [c \in S |-> section'[c]]
  BY <1>1
<1>4. SectionInv'
  BY <1>2, <1>3 DEF SectionInv
<1>5. ASSUME NEW k \in Kinds PROVE Keeps(k)
  <2>1. today' \in Nat /\ today <= today'
    BY <1>1 DEF DocInv
  <2>2. DOMAIN section \subseteq DOMAIN section'
    BY <1>3
  <2>3. \A c \in DOMAIN section : section'[c].stamps[k] = section[c].stamps[k]
    BY <1>2
  <2>4. rewound \subseteq rewound'
    BY <1>1
  <2>. QED
    BY <2>1, <2>2, <2>3, <2>4 DEF Keeps
<1>6. \A k \in Kinds : RunInv(k)'
  BY <1>1, <1>5, RunStays DEF DocInv
<1>. QED
  BY <1>1, <1>3, <1>4, <1>6 DEF DocInv, NoListing

\* A replay merges a row; what it does to a detail page it remembers.
LEMMA ReplayRowStep == ASSUME DocInv, ReplayRow PROVE DocInv'
<1>. PICK k \in Kinds : k = replaying.kind
  BY DEF DocInv
<1>. PICK row : row = Head(replaying.rows)
  OBVIOUS
<1>1. /\ Merge(k, row) /\ today' = today /\ weekly' = weekly /\ listing' = listing
      /\ replaying' = [kind |-> k, rows |-> Tail(replaying.rows)]
  BY DEF ReplayRow, printed, DocInv
<1>2. /\ k = "detail" => rewound' = rewound \cup {row.crn}
      /\ k = "xml" => rewound' = rewound
  BY DEF ReplayRow
<1>3. SectionInv' /\ DOMAIN section' = DOMAIN section /\ \A l \in Kinds : Keeps(l)
  <2>1. rewound' = rewound \/ (k = "detail" /\ rewound' = rewound \cup {row.crn})
    BY <1>2 DEF Kinds
  <2>2. k = "detail" => row.crn \in rewound'
    BY <1>2
  <2>. QED
    BY <1>1, <2>1, <2>2, MergeKeeps DEF Kinds
<1>4. \A l \in Kinds : RunInv(l)'
  BY <1>1, <1>3, RunStays DEF DocInv
<1>. QED
  BY <1>1, <1>3, <1>4 DEF DocInv

\* A run begins with every section that is due still to ask for.
LEMMA BeginWeeklyStep ==
  ASSUME DocInv, DocumentsAssumption, NEW k \in Kinds, BeginWeekly(k)
  PROVE  DocInv'
<1>1. PICK todo \in CrnsDue(k) :
        weekly' = [weekly EXCEPT ![k] = [NoRun EXCEPT !.pc = "asking", !.began = today,
                                                      !.todo = todo, !.targets = ToSet(todo)]]
  BY DEF BeginWeekly
<1>. PICK q : q = [NoRun EXCEPT !.pc = "asking", !.began = today, !.todo = todo,
                                !.targets = ToSet(todo)]
  OBVIOUS
<1>2. /\ RunShape(q) /\ q.pc = "asking" /\ q.began = today /\ q.todo = todo
      /\ q.targets = ToSet(todo)
  BY DEF NoRun, RunShape
<1>3. todo \in Seq(Crns) /\ ToSet(todo) \subseteq DOMAIN section
  <2>1. Due(k) \subseteq DOMAIN section /\ Due(k) \in SUBSET Crns
    BY DEF Due, DocInv
  <2>2. Cardinality(Due(k)) \in Nat
    BY <2>1, FS_Subset, FS_CardinalityType DEF DocumentsAssumption
  <2>3. todo \in [1 .. Cardinality(Due(k)) -> Due(k)] /\ ToSet(todo) = Due(k)
    BY DEF CrnsDue
  <2>4. todo \in [1 .. Cardinality(Due(k)) -> Crns]
    BY <2>1, <2>3
  <2>. QED
    BY <2>1, <2>2, <2>3, <2>4
<1>4. /\ section' = section /\ today' = today /\ replaying' = replaying /\ listing' = listing
      /\ today \in Nat
      /\ rewound' = IF k = "detail" THEN {} ELSE rewound
  BY DEF BeginWeekly, sectionRows, printed, DocInv
<1>5. weekly'[k] = q /\ weekly' = [weekly EXCEPT ![k] = q]
  BY <1>1 DEF DocInv
<1>6. Remaining(q) = {}
  BY <1>2 DEF Remaining
<1>7. RunInv(k)'
  BY <1>2, <1>3, <1>4, <1>5, <1>6 DEF RunInv
<1>8. SectionInv' /\ DOMAIN section' \subseteq Crns /\ \A l \in Kinds : l # k => Keeps(l)
  BY <1>4 DEF SectionInv, Keeps, Kinds, DocInv
<1>. QED
  BY <1>4, <1>5, <1>7, <1>8, OneRun

\* A document comes.
LEMMA AnsweredStep == ASSUME DocInv, NEW k \in Kinds, Answered(k) PROVE DocInv'
<1>. PICK run : run = weekly[k]
  OBVIOUS
<1>1. /\ run.pc = "asking" /\ run.todo # <<>> /\ RunInv(k) /\ RunShape(run)
      /\ run.todo \in Seq(Crns) /\ run.began \in Nat /\ run.began <= today
      /\ \A c \in Remaining(run) : Served(k, c)
  BY DEF Answered, Asking, DocInv, RunInv
<1>2. PICK doc, docs :
        /\ weekly' = [weekly EXCEPT ![k] = [run EXCEPT !.pc = "merging", !.rows = doc, !.outages = 0,
                                                       !.docs = docs]]
        /\ k = "detail" => doc = <<[crn |-> Head(run.todo), fetched |-> today]>>
  BY DEF Answered, Received, Document
<1>. PICK q : q = [run EXCEPT !.pc = "merging", !.rows = doc, !.outages = 0, !.docs = docs]
  OBVIOUS
<1>3. /\ RunShape(q) /\ q.pc = "merging" /\ q.rows = doc /\ q.began = run.began
      /\ q.todo = run.todo /\ q.targets = run.targets /\ q.missed = run.missed
  BY <1>1 DEF RunShape
<1>4. /\ section' = section /\ today' = today /\ replaying' = replaying /\ listing' = listing
      /\ rewound' = rewound /\ weekly' = [weekly EXCEPT ![k] = q] /\ today \in Nat
  BY <1>2 DEF Answered, sectionRows, printed, DocInv
<1>5. SectionInv' /\ DOMAIN section' \subseteq Crns /\ \A l \in Kinds : Keeps(l)
  BY <1>4, NothingWritten
<1>6. Remaining(q) = Remaining(run)
  BY <1>3 DEF Remaining
<1>7. k = "detail" => DetailInHand(q) /\ q.rows # <<>>
  <2>1. today >= run.began
    BY <1>1, <1>4
  <2>2. k = "detail" => q.rows = <<[crn |-> Head(q.todo), fetched |-> today]>>
    BY <1>2, <1>3
  <2>3. \A x : <<x>> # <<>>
    OBVIOUS
  <2>. QED
    BY <1>3, <2>1, <2>2, <2>3 DEF DetailInHand
<1>8. RunInv(k)'
  BY <1>1, <1>3, <1>4, <1>5, <1>6, <1>7, RunGoesOn
<1>. QED
  BY <1>4, <1>5, <1>8, OneRun

\* A run that ends leaves nothing to serve.
LEMMA EndStep ==
  ASSUME DocInv, NEW k \in Kinds, weekly' = [weekly EXCEPT ![k] = NoRun], section' = section,
         today' = today, replaying' = replaying, listing' = listing, rewound' = rewound
  PROVE  DocInv'
<1>1. weekly'[k] = NoRun /\ today' \in Nat /\ today <= today'
  BY DEF DocInv
<1>2. SectionInv' /\ DOMAIN section' \subseteq Crns /\ \A l \in Kinds : Keeps(l)
  BY <1>1, NothingWritten
<1>3. RunInv(k)'
  BY <1>1, RunEnds
<1>. QED
  BY <1>2, <1>3, OneRun

\* A CRN Rice does not answer for is passed over.
LEMMA UnansweredStep ==
  ASSUME DocInv, NEW k \in Kinds, NEW result, Unanswered(k, result)
  PROVE  DocInv'
<1>. PICK run : run = weekly[k]
  OBVIOUS
<1>1. /\ run.pc = "asking" /\ run.todo # <<>> /\ RunInv(k) /\ RunShape(run)
      /\ run.todo \in Seq(Crns) /\ run.began \in Nat /\ run.began <= today
      /\ \A c \in Remaining(run) : Served(k, c)
  BY DEF Unanswered, Asking, DocInv, RunInv
<1>2. /\ section' = section /\ today' = today /\ replaying' = replaying /\ listing' = listing
      /\ rewound' = rewound /\ today \in Nat
  BY DEF Unanswered, sectionRows, printed, DocInv
<1>3. \/ weekly' = [weekly EXCEPT ![k] = NoRun]
      \/ \E n : weekly' = [weekly EXCEPT ![k] =
                   [run EXCEPT !.todo = Tail(run.todo), !.outages = n,
                               !.missed = run.missed \cup {Head(run.todo)}]]
  BY DEF Unanswered, Fail
<1>4. CASE weekly' = [weekly EXCEPT ![k] = NoRun]
  BY <1>2, <1>4, EndStep
<1>5. ASSUME NEW n,
             weekly' = [weekly EXCEPT ![k] =
                   [run EXCEPT !.todo = Tail(run.todo), !.outages = n,
                               !.missed = run.missed \cup {Head(run.todo)}]]
      PROVE  DocInv'
  <2>. PICK q : q = [run EXCEPT !.todo = Tail(run.todo), !.outages = n,
                                !.missed = run.missed \cup {Head(run.todo)}]
    OBVIOUS
  <2>1. /\ RunShape(q) /\ q.pc = "asking" /\ q.began = run.began /\ q.todo = Tail(run.todo)
        /\ q.targets = run.targets /\ q.missed = run.missed \cup {Head(run.todo)}
    BY <1>1 DEF RunShape
  <2>2. q.todo \in Seq(Crns) /\ ToSet(run.todo) = {Head(run.todo)} \cup ToSet(q.todo)
    BY <1>1, <2>1, TailSet
  <2>3. Remaining(q) \subseteq Remaining(run)
    BY <2>1, <2>2 DEF Remaining
  <2>4. weekly' = [weekly EXCEPT ![k] = q]
    BY <1>5
  <2>5. SectionInv' /\ DOMAIN section' \subseteq Crns /\ \A l \in Kinds : Keeps(l)
    BY <1>2, NothingWritten
  <2>6. RunInv(k)'
    BY <1>1, <2>1, <2>2, <2>3, <2>4, <2>5, RunGoesOn
  <2>. QED
    BY <1>2, <2>4, <2>5, <2>6, OneRun
<1>. QED
  BY <1>3, <1>4, <1>5

\* A run merges a row of the document in hand.
LEMMA MergeRowStep == ASSUME DocInv, NEW k \in Kinds, MergeRow(k) PROVE DocInv'
<1>. PICK run : run = weekly[k]
  OBVIOUS
<1>. PICK row : row = Head(run.rows)
  OBVIOUS
<1>1. /\ run.pc = "merging" /\ run.rows # <<>> /\ RunInv(k) /\ RunShape(run)
      /\ run.todo \in Seq(Crns) /\ run.todo # <<>> /\ run.began \in Nat
      /\ run.targets \subseteq DOMAIN section /\ \A c \in Remaining(run) : Served(k, c)
      /\ k = "detail" => DetailInHand(run)
  BY DEF MergeRow, DocInv, RunInv
<1>. PICK q : q = [run EXCEPT !.rows = Tail(run.rows)]
  OBVIOUS
<1>2. /\ Merge(k, row) /\ weekly' = [weekly EXCEPT ![k] = q] /\ today' = today
      /\ replaying' = replaying /\ listing' = listing /\ rewound' = rewound
  BY DEF MergeRow, printed
<1>3. /\ RunShape(q) /\ q.pc = "merging" /\ q.rows = Tail(run.rows) /\ q.began = run.began
      /\ q.todo = run.todo /\ q.targets = run.targets /\ q.missed = run.missed
  BY <1>1 DEF RunShape
<1>4. ASSUME k = "detail"
      PROVE  row.crn = Head(run.todo) /\ row.fetched >= run.began /\ q.rows = <<>>
  <2>1. PICK day : run.rows = <<[crn |-> Head(run.todo), fetched |-> day]>> /\ day >= run.began
    BY <1>1, <1>4 DEF DetailInHand
  <2>2. \A x : Head(<<x>>) = x /\ Tail(<<x>>) = <<>>
    OBVIOUS
  <2>3. row = [crn |-> Head(run.todo), fetched |-> day] /\ q.rows = <<>>
    BY <1>3, <2>1, <2>2
  <2>. QED
    BY <2>1, <2>3
<1>5. SectionInv' /\ DOMAIN section' = DOMAIN section /\ \A l \in Kinds : l = k => Keeps(l)
  BY <1>2, <1>4, MergeKeeps
<1>6. \A l \in Kinds : l # k => Keeps(l)
  BY <1>2, MergeKeeps
<1>7. Remaining(q) = Remaining(run)
  BY <1>3 DEF Remaining
<1>8. k = "detail" /\ Head(q.todo) \in q.targets => Served(k, Head(q.todo))'
  <2>1. SUFFICES ASSUME k = "detail", Head(q.todo) \in q.targets
                 PROVE  Served(k, Head(q.todo))'
    OBVIOUS
  <2>2. row.crn \in DOMAIN section /\ row.crn = Head(q.todo) /\ k # "xml"
    BY <1>1, <1>3, <1>4, <2>1
  <2>3. section'[row.crn].stamps[k] = row.fetched
    BY <2>2, MergeEffect, <1>2 DEF StampsOf, DocInv
  <2>4. weekly'[k].began = run.began
    BY <1>2, <1>3 DEF DocInv
  <2>. QED
    BY <1>4, <2>1, <2>2, <2>3, <2>4 DEF Served
<1>9. k = "detail" => DetailInHand(q)
  BY <1>4 DEF DetailInHand
<1>10. RunInv(k)'
  BY <1>1, <1>2, <1>3, <1>5, <1>7, <1>8, <1>9, RunGoesOn
<1>11. DOMAIN section' \subseteq Crns
  BY <1>5 DEF DocInv
<1>. QED
  BY <1>2, <1>5, <1>6, <1>10, <1>11, OneRun

\* The row of the CRN a feed was asked for is stamped, if there is one.
LEMMA StampedRow ==
  ASSUME NEW held, SectionShape(held), NEW new, new = StampedXml(held)
  PROVE  SectionShape(new) /\ new.stamps = [held.stamps EXCEPT !["xml"] = today]
<1>. PICK s : s = [held.stamps EXCEPT !["xml"] = today]
  OBVIOUS
<1>1. s = [k \in Kinds |-> s[k]]
  BY DEF SectionShape
<1>2. /\ new \in [part : {new.part}, meetings : {new.meetings}, stamps : {s}]
      /\ new.stamps = s
  BY DEF SectionShape, StampedXml
<1>. QED
  BY <1>1, <1>2 DEF SectionShape

LEMMA MarkEffect ==
  ASSUME SectionInv, NEW k \in Kinds, NEW crn, MarkFetched(k, crn)
  PROVE  IF k = "xml" THEN StampsOf(crn, k, today) ELSE section' = section
<1>1. CASE k = "xml" /\ crn \in DOMAIN section
  <2>. PICK new : new = StampedXml(section[crn])
    OBVIOUS
  <2>1. section' = [section EXCEPT ![crn] = new]
    BY <1>1 DEF MarkFetched
  <2>2. SectionShape(new) /\ new.stamps = [section[crn].stamps EXCEPT !["xml"] = today]
    BY <1>1, StampedRow DEF SectionInv
  <2>. QED
    BY <1>1, <2>1, <2>2, OneStamp
<1>2. CASE ~(k = "xml" /\ crn \in DOMAIN section)
  <2>1. section' = section
    BY <1>2 DEF MarkFetched
  <2>. QED
    BY <1>2, <2>1 DEF SectionInv, StampsOf
<1>. QED
  BY <1>1, <1>2

\* When a document's rows are in, the CRN it was asked for is served.
LEMMA NextCrnStep == ASSUME DocInv, NEW k \in Kinds, NextCrn(k) PROVE DocInv'
<1>. PICK run : run = weekly[k]
  OBVIOUS
<1>. PICK crn : crn = Head(run.todo)
  OBVIOUS
<1>1. /\ run.pc = "merging" /\ run.rows = <<>> /\ RunInv(k) /\ RunShape(run)
      /\ run.todo \in Seq(Crns) /\ run.todo # <<>>
      /\ run.began \in Nat /\ run.began <= today /\ today \in Nat
      /\ run.targets \subseteq DOMAIN section /\ \A c \in Remaining(run) : Served(k, c)
      /\ k = "detail" /\ crn \in run.targets => Served(k, crn)
  BY DEF NextCrn, DocInv, RunInv
<1>. PICK q : q = [run EXCEPT !.pc = "asking", !.todo = Tail(run.todo)]
  OBVIOUS
<1>2. /\ MarkFetched(k, crn) /\ weekly' = [weekly EXCEPT ![k] = q] /\ today' = today
      /\ replaying' = replaying /\ listing' = listing /\ rewound' = rewound
  BY DEF NextCrn, printed
<1>3. /\ RunShape(q) /\ q.pc = "asking" /\ q.rows = run.rows /\ q.began = run.began
      /\ q.todo = Tail(run.todo) /\ q.targets = run.targets /\ q.missed = run.missed
  BY <1>1 DEF RunShape
<1>4. q.todo \in Seq(Crns) /\ ToSet(run.todo) = {crn} \cup ToSet(q.todo)
  BY <1>1, <1>3, TailSet
<1>5. Remaining(q) \subseteq Remaining(run) \cup ({crn} \cap run.targets)
  BY <1>3, <1>4 DEF Remaining
<1>6. IF k = "xml" THEN StampsOf(crn, k, today) ELSE section' = section
  BY <1>2, MarkEffect DEF DocInv
<1>7. SectionInv' /\ DOMAIN section' = DOMAIN section /\ \A l \in Kinds : Keeps(l)
  <2>1. CASE k = "xml"
    <3>1. StampsOf(crn, k, today)
      BY <1>6, <2>1
    <3>2. ASSUME NEW l \in Kinds PROVE Keeps(l)
      <4>1. weekly[l].began \in Nat /\ weekly[l].began <= today
        BY DEF DocInv, RunInv
      <4>2. ASSUME NEW c \in DOMAIN section
            PROVE  \/ section'[c].stamps[l] = section[c].stamps[l]
                   \/ section'[c].stamps[l] >= weekly[l].began
        <5>1. section'[c].stamps[l] = IF l = k /\ c = crn THEN today ELSE section[c].stamps[l]
          BY <3>1 DEF StampsOf
        <5>. QED
          BY <1>1, <4>1, <5>1
      <4>3. DOMAIN section' = DOMAIN section
        BY <3>1 DEF StampsOf
      <4>. QED
        BY <1>1, <1>2, <4>2, <4>3 DEF Keeps
    <3>. QED
      BY <3>1, <3>2 DEF StampsOf
  <2>2. CASE k # "xml"
    <3>1. section' = section
      BY <1>6, <2>2
    <3>. QED
      BY <1>1, <1>2, <3>1, NothingWritten
  <2>. QED
    BY <2>1, <2>2
<1>8. ASSUME crn \in run.targets PROVE Served(k, crn) \/ Served(k, crn)'
  <2>1. CASE k = "detail"
    BY <1>1, <1>8, <2>1
  <2>2. CASE k = "xml"
    <3>1. crn \in DOMAIN section /\ StampsOf(crn, k, today)
      BY <1>1, <1>6, <1>8, <2>2
    <3>2. section'[crn].stamps[k] = today
      BY <3>1 DEF StampsOf
    <3>3. weekly'[k].began = run.began
      BY <1>2, <1>3 DEF DocInv
    <3>. QED
      BY <1>1, <3>2, <3>3 DEF Served
  <2>. QED
    BY <2>1, <2>2 DEF Kinds
<1>9. \A c \in Remaining(q) : Served(k, c) \/ Served(k, c)'
  BY <1>1, <1>5, <1>8
<1>10. RunInv(k)'
  BY <1>1, <1>2, <1>3, <1>4, <1>7, <1>9, RunGoesOn
<1>11. DOMAIN section' \subseteq Crns
  BY <1>7 DEF DocInv
<1>. QED
  BY <1>2, <1>7, <1>10, <1>11, OneRun

LEMMA DocumentsKeep == ASSUME DocInv, DocumentsAssumption, DocumentsStep PROVE DocInv'
<1>. today \in Nat /\ replaying.kind \in Kinds /\ DOMAIN listing \subseteq Crns
     /\ replaying = [kind |-> replaying.kind, rows |-> replaying.rows]
  BY DEF DocInv
<1>1. CASE TimetableChanges
  BY <1>1, QuietDocStep DEF TimetableChanges, sectionRows, work
<1>2. CASE DayPasses
  BY <1>2, QuietDocStep DEF DayPasses, sectionRows, work
<1>3. CASE FetchListing
  <2>1. DOMAIN listing' \subseteq Crns
    BY <1>3 DEF FetchListing
  <2>. QED
    BY <1>3, <2>1, QuietDocStep DEF FetchListing, sectionRows, printed
<1>4. CASE \E k \in Kinds : EndWeekly(k) \/ FailWeekly(k)
  BY <1>4, EndStep DEF EndWeekly, FailWeekly, Fail, printed, sectionRows
<1>5. CASE \E k \in Kinds : BeginReplay(k)
  <2>. PICK k \in Kinds : BeginReplay(k)
    BY <1>5
  <2>1. PICK rows : replaying' = [kind |-> k, rows |-> rows]
    BY DEF BeginReplay
  <2>2. /\ replaying'.kind \in Kinds
        /\ replaying' = [kind |-> replaying'.kind, rows |-> replaying'.rows]
    BY <2>1
  <2>3. /\ section' = section /\ today' = today /\ rewound' = rewound /\ weekly' = weekly
        /\ listing' = listing
    BY DEF BeginReplay, printed, sectionRows
  <2>4. today' \in Nat /\ today <= today' /\ DOMAIN listing' \subseteq Crns
    BY <2>3
  <2>. QED
    BY <2>2, <2>3, <2>4, QuietDocStep
<1>6. CASE \E k \in Kinds, result \in Live : Unanswered(k, result)
  BY <1>6, UnansweredStep
<1>7. CASE WriteListing \/ ReplayRow
  BY <1>7, WriteListingStep, ReplayRowStep
<1>8. CASE \E k \in Kinds : BeginWeekly(k) \/ Answered(k) \/ MergeRow(k) \/ NextCrn(k)
  BY <1>8, BeginWeeklyStep, AnsweredStep, MergeRowStep, NextCrnStep
<1>. QED
  BY <1>1, <1>2, <1>3, <1>4, <1>5, <1>6, <1>7, <1>8 DEF DocumentsStep

LEMMA DocumentsStart == ASSUME IngestInit PROVE DocInv
<1>1. /\ today = 1 /\ section = [c \in {} |-> Unknown] /\ listing = NoListing
      /\ weekly = [k \in Kinds |-> NoRun] /\ replaying = NoReplay
  BY DEF IngestInit, DocumentsInit
<1>2. DOMAIN section = {} /\ DOMAIN listing = {}
  BY <1>1 DEF NoListing
<1>3. SectionInv
  BY <1>1, <1>2 DEF SectionInv
<1>4. /\ replaying.kind \in Kinds
      /\ replaying = [kind |-> replaying.kind, rows |-> replaying.rows]
  BY <1>1 DEF NoReplay, Kinds
<1>5. ASSUME NEW k \in Kinds PROVE RunInv(k)
  <2>. PICK q : q = NoRun
    OBVIOUS
  <2>1. RunShape(q) /\ q.pc = "idle" /\ q.todo = <<>> /\ q.began = 0 /\ q.targets = {}
    BY DEF NoRun, RunShape
  <2>2. weekly[k] = q
    BY <1>1
  <2>3. Remaining(q) = {}
    BY <2>1 DEF Remaining
  <2>4. q.todo \in Seq(Crns) /\ q.began \in Nat /\ q.began <= today
    BY <1>1, <2>1
  <2>5. q.targets \subseteq DOMAIN section /\ q.pc \in {"idle", "asking", "merging"}
        /\ q.pc # "merging"
    BY <2>1
  <2>. QED
    BY <2>1, <2>2, <2>3, <2>4, <2>5 DEF RunInv
<1>. QED
  BY <1>1, <1>2, <1>3, <1>4, <1>5 DEF DocInv

LEMMA DocumentsGoOn ==
  ASSUME DocInv, DocumentsAssumption, [IngestNext]_ingestVars PROVE DocInv'
<1>1. CASE Reading
  BY <1>1, DocumentsKeep DEF Reading
<1>2. CASE UNCHANGED docVars
  BY <1>2, QuietDocStep DEF docVars, DocInv
<1>3. ASSUME ~Reading PROVE UNCHANGED docVars
  BY <1>3 DEF IngestNext, UpsertCourses, UpsertAliases, EndReview, AtReview, Transact,
              Publishing, Polling, Searching, ingestVars
<1>. QED
  BY <1>1, <1>2, <1>3

LEMMA RunIsServed == ASSUME DocInv PROVE DueSectionsAreServed
<1>1. ASSUME NEW k \in Kinds, NEW c \in Remaining(weekly[k]) PROVE Served(k, c)
  BY DEF DocInv, RunInv
<1>. QED
  BY <1>1 DEF DueSectionsAreServed, Remaining, Served

(* What a weekly run has asked for and got is not due again, whatever else  *)
(* is listed, fed, replayed or cut off meanwhile: a section that was due    *)
(* when the run began and that the run has passed, other than one Rice did  *)
(* not answer for, is stamped with a day of the run.                        *)
THEOREM DueSectionsServed == IngestSpec => []DueSectionsAreServed
<1>1. IngestInit => DocInv
  BY DocumentsStart
<1>2. DocInv /\ [IngestNext]_ingestVars => DocInv'
  BY DocumentsGoOn, DocumentsAssumption
<1>. QED
  BY <1>1, <1>2, RunIsServed, PTL DEF IngestSpec

-----------------------------------------------------------------------------
(* The seats poll.  Whatever polls are started, overtaken, cut short or     *)
(* lost, the chart, the current numbers and the readings agree, for any     *)
(* sections, pollers, batch size, numbers and bounds.                       *)

Stamps == 0..MaxStamp
Entries == [numbers : Numbers, stamp : Stamps]
Readings == [section : Sections, numbers : Numbers, stamp : Stamps]
Charts == UNION {[D -> Numbers] : D \in SUBSET Stamps}
Polls == [pc : {"idle", "checked", "reading", "failing"}, todo : SUBSET Sections,
          readings : SUBSET Readings, outages : Nat]
SeatsTypeInv == /\ rice \in [Sections -> Numbers] /\ stamp \in Stamps
                /\ state \in [Sections -> Entries \cup {Unread}]
                /\ read \in [Sections -> Entries \cup {Unread}]
                /\ chart \in [Sections -> Charts]
                /\ lock \in Pollers \cup {Nobody} /\ recent \in BOOLEAN
                /\ poll \in [Pollers -> Polls]

(* Only the holder of the lock reads, and only it has readings in hand.     *)
LockInv == \A p \in Pollers : /\ poll[p].pc \in {"reading", "failing"} <=> lock = p
                              /\ poll[p].readings # {} => lock = p
(* What is in hand is the last reading of its section, will not be read     *)
(* again in this run, and is no older than the section's chart.             *)
Entry(r) == [numbers |-> r.numbers, stamp |-> r.stamp]
InHandStill(r, todo) == /\ r.section \notin todo
                        /\ read[r.section] = Entry(r)
                        /\ r.stamp <= stamp /\ \A t \in DOMAIN chart[r.section] : t <= r.stamp
HandInv == \A p \in Pollers : \A r \in poll[p].readings : InHandStill(r, poll[p].todo)
(* The newest snapshot of a section is its current numbers, and a reading   *)
(* that is in no one's hand is the current state.                           *)
Newest(entry, snapshots) ==
    entry # Unread => \E t \in DOMAIN snapshots : /\ \A u \in DOMAIN snapshots : u <= t
                                                  /\ snapshots[t] = entry.numbers
ChartInv == \A s \in Sections : /\ DOMAIN chart[s] \subseteq 0..stamp
                                /\ Newest(state[s], chart[s])
                                /\ ~InHand(s) => read[s] = state[s]
SeatsInv == SeatsTypeInv /\ LockInv /\ HandInv /\ ChartInv
-----------------------------------------------------------------------------
LEMMA NoPollIsPoll == NoPoll \in Polls /\ NoPoll.readings = {} /\ NoPoll.pc = "idle"
BY DEF NoPoll, Polls

LEMMA ChartsElim ==
    ASSUME NEW snapshots \in Charts
    PROVE  /\ DOMAIN snapshots \subseteq Stamps
           /\ \A t \in DOMAIN snapshots : snapshots[t] \in Numbers /\ t \in Nat
<1>1. PICK D \in SUBSET Stamps : snapshots \in [D -> Numbers]
  BY DEF Charts
<1>2. \A t \in Stamps : t \in Nat
  BY SeatsAssumption DEF Stamps
<1> QED  BY <1>1, <1>2

LEMMA ChartIsChart ==
    ASSUME NEW snapshots \in Charts, NEW r \in Readings
    PROVE  /\ Chart(snapshots, r) \in Charts
           /\ DOMAIN Chart(snapshots, r) = DOMAIN snapshots \cup {r.stamp}
           /\ Chart(snapshots, r)[r.stamp] = r.numbers
<1> DEFINE D == DOMAIN snapshots \cup {r.stamp}
<1>1. r.stamp \in Stamps /\ r.numbers \in Numbers
  BY DEF Readings
<1>2. D \in SUBSET Stamps /\ Chart(snapshots, r) \in [D -> Numbers]
  BY <1>1, ChartsElim DEF Chart
<1>3. Chart(snapshots, r)[r.stamp] = r.numbers
  BY DEF Chart
<1> QED  BY <1>2, <1>3 DEF Charts

(* The number the chart shows last, as SeatsAgree names it.                 *)
LEMMA NewestIsMax ==
    ASSUME NEW snapshots \in Charts, NEW entry, Newest(entry, snapshots), entry # Unread
    PROVE  DOMAIN snapshots # {} /\ snapshots[Max(DOMAIN snapshots)] = entry.numbers
<1>1. PICK t \in DOMAIN snapshots : (\A u \in DOMAIN snapshots : u <= t) /\ snapshots[t] = entry.numbers
  BY DEF Newest
<1>2. DOMAIN snapshots \subseteq Nat
  BY ChartsElim
<1>3. Max(DOMAIN snapshots) \in DOMAIN snapshots /\ \A u \in DOMAIN snapshots : Max(DOMAIN snapshots) >= u
  BY <1>1, <1>2 DEF Max
<1>4. Max(DOMAIN snapshots) = t
  BY <1>1, <1>2, <1>3
<1> QED  BY <1>1, <1>4

(* What must be shown of a step that takes no reading and writes no table.  *)
LEMMA PollStepKeeps ==
    ASSUME SeatsInv, NEW p \in Pollers, NEW q \in Polls, poll' = [poll EXCEPT ![p] = q],
           q.readings = poll[p].readings, q.todo \subseteq poll[p].todo \/ q.readings = {},
           lock' \in Pollers \cup {Nobody}, recent' \in BOOLEAN,
           q.pc \in {"reading", "failing"} <=> lock' = p, q.readings # {} => lock' = p,
           \A v \in Pollers \ {p} : lock = v <=> lock' = v,
           UNCHANGED <<rice, stamp, tables, read>>
    PROVE  SeatsInv'
<1>1. poll' \in [Pollers -> Polls] /\ poll'[p] = q /\ \A v \in Pollers \ {p} : poll'[v] = poll[v]
  BY DEF SeatsInv, SeatsTypeInv
<1>2. SeatsTypeInv'
  BY <1>1 DEF SeatsInv, SeatsTypeInv, tables
<1>3. LockInv'
  BY <1>1 DEF SeatsInv, LockInv
<1>4. \A v \in Pollers : poll'[v].readings = poll[v].readings
  BY <1>1
<1>5. HandInv'
  <2> SUFFICES ASSUME NEW v \in Pollers, NEW r \in poll'[v].readings PROVE InHandStill(r, poll[v].todo)'
    BY DEF HandInv
  <2>1. InHandStill(r, poll[v].todo)
    BY <1>4 DEF SeatsInv, HandInv
  <2>2. r.section \notin poll'[v].todo
    BY <1>1, <2>1 DEF InHandStill
  <2> QED  BY <2>1, <2>2 DEF InHandStill, tables
<1>6. ChartInv'
  <2>1. \A s \in Sections : InHand(s)' <=> InHand(s)
    BY <1>4 DEF InHand
  <2> QED  BY <2>1 DEF SeatsInv, ChartInv, Newest, tables
<1> QED  BY <1>2, <1>3, <1>5, <1>6 DEF SeatsInv
-----------------------------------------------------------------------------
LEMMA RiceMovesKeeps == ASSUME SeatsInv, RiceMoves PROVE SeatsInv'
<1>1. stamp' = stamp + 1 /\ stamp' \in Stamps /\ stamp \in Nat
  BY SeatsAssumption DEF RiceMoves, SeatsInv, SeatsTypeInv, Stamps
<1>2. SeatsTypeInv' /\ LockInv'
  BY <1>1 DEF RiceMoves, SeatsInv, SeatsTypeInv, LockInv, tables
<1>3. HandInv'
  <2> SUFFICES ASSUME NEW v \in Pollers, NEW r \in poll[v].readings PROVE InHandStill(r, poll[v].todo)'
    BY DEF HandInv, RiceMoves
  <2>1. InHandStill(r, poll[v].todo) /\ r \in Readings
    BY DEF SeatsInv, HandInv, SeatsTypeInv, Polls
  <2>2. r.stamp <= stamp'
    BY <2>1, <1>1 DEF InHandStill, Readings, Stamps
  <2> QED  BY <2>1, <2>2 DEF InHandStill, RiceMoves, tables
<1>4. ChartInv'
  <2>1. 0..stamp \subseteq 0..stamp'
    BY <1>1
  <2>2. \A s \in Sections : InHand(s)' <=> InHand(s)
    BY DEF InHand, RiceMoves
  <2> QED  BY <2>1, <2>2 DEF SeatsInv, ChartInv, Newest, RiceMoves, tables
<1> QED  BY <1>2, <1>3, <1>4 DEF SeatsInv

LEMMA EnrollKeeps == ASSUME SeatsInv, NEW s \in PollSet, Enroll(s) PROVE SeatsInv'
<1>1. rice' \in [Sections -> Numbers] /\ UNCHANGED <<stamp, tables, lock, recent, poll, read>>
  BY DEF Enroll, SeatsInv, SeatsTypeInv, PollSet
<1> QED  BY <1>1 DEF SeatsInv, SeatsTypeInv, LockInv, HandInv, InHandStill, ChartInv, Newest, InHand, tables

LEMMA IntervalPassesKeeps == ASSUME SeatsInv, IntervalPasses PROVE SeatsInv'
BY DEF IntervalPasses, SeatsInv, SeatsTypeInv, LockInv, HandInv, InHandStill, ChartInv, Newest, InHand, tables

LEMMA CheckKeeps == ASSUME SeatsInv, NEW p \in Pollers, Check(p) PROVE SeatsInv'
<1> DEFINE q == [poll[p] EXCEPT !.pc = "checked"]
<1>1. poll[p] \in Polls /\ poll[p].pc = "idle" /\ lock # p
  BY DEF Check, SeatsInv, SeatsTypeInv, LockInv
<1>2. q \in Polls /\ q.pc = "checked" /\ q.readings = poll[p].readings /\ q.todo = poll[p].todo
  BY <1>1 DEF Polls
<1>3. poll' = [poll EXCEPT ![p] = q] /\ UNCHANGED <<rice, stamp, tables, lock, recent, read>>
  BY DEF Check
<1> HIDE DEF q
<1> QED  BY <1>1, <1>2, <1>3, PollStepKeeps DEF SeatsInv, SeatsTypeInv, LockInv

LEMMA BeginKeeps == ASSUME SeatsInv, NEW p \in Pollers, Begin(p) PROVE SeatsInv'
<1> DEFINE q == [NoPoll EXCEPT !.pc = "reading", !.todo = PollSet]
<1>1. poll[p].pc = "checked" /\ lock # p /\ poll[p].readings = {}
  BY DEF Begin, SeatsInv, LockInv
<1>2. q \in Polls /\ q.pc = "reading" /\ q.readings = {}
  BY NoPollIsPoll DEF Polls, PollSet
<1>3. UNCHANGED <<rice, stamp, tables, recent, read>>
  BY DEF Begin
<1>4. CASE lock = Nobody
  <2>1. lock' = p /\ poll' = [poll EXCEPT ![p] = q]
    BY <1>4 DEF Begin
  <2>2. \A v \in Pollers \ {p} : lock = v <=> lock' = v
    BY <1>4, <2>1, SeatsAssumption
  <2> HIDE DEF q
  <2> QED  BY <1>1, <1>2, <1>3, <2>1, <2>2, PollStepKeeps DEF SeatsInv, SeatsTypeInv
<1>5. CASE lock # Nobody
  <2>1. lock' = lock /\ poll' = [poll EXCEPT ![p] = NoPoll]
    BY <1>5 DEF Begin
  <2> HIDE DEF q
  <2> QED  BY <1>1, <1>3, <2>1, NoPollIsPoll, PollStepKeeps DEF SeatsInv, SeatsTypeInv
<1> QED  BY <1>4, <1>5

LEMMA DeadlineKeeps == ASSUME SeatsInv, NEW p \in Pollers, Deadline(p) PROVE SeatsInv'
<1> DEFINE q == [poll[p] EXCEPT !.todo = {}]
<1>1. poll[p] \in Polls
  BY DEF SeatsInv, SeatsTypeInv
<1>2. q \in Polls /\ q.pc = poll[p].pc /\ q.readings = poll[p].readings /\ q.todo = {}
  BY <1>1 DEF Polls
<1>3. poll' = [poll EXCEPT ![p] = q] /\ UNCHANGED <<rice, stamp, tables, lock, recent, read>>
  BY DEF Deadline
<1> HIDE DEF q
<1> QED  BY <1>1, <1>2, <1>3, PollStepKeeps DEF SeatsInv, SeatsTypeInv, LockInv

LEMMA ConcludeKeeps == ASSUME SeatsInv, NEW p \in Pollers, Conclude(p) PROVE SeatsInv'
<1>1. lock = p /\ lock' = Nobody /\ poll[p].readings = {}
  BY DEF Conclude, Done, SeatsInv, LockInv
<1>2. poll' = [poll EXCEPT ![p] = NoPoll] /\ recent' \in BOOLEAN /\ UNCHANGED <<rice, stamp, tables, read>>
  BY DEF Conclude, SeatsInv, SeatsTypeInv
<1>3. \A v \in Pollers : v # Nobody
  BY SeatsAssumption
<1> QED  BY <1>1, <1>2, <1>3, NoPollIsPoll, PollStepKeeps DEF SeatsInv, SeatsTypeInv
(* A reading replaces the last one of its section, and is newer than the    *)
(* chart; a document that cannot be used leaves the old ones as they are.   *)
LEMMA ReadingKeeps ==
    ASSUME SeatsInv, NEW p \in Pollers, Asks(p), NEW s \in poll[p].todo, NEW r \in Readings,
           r = [section |-> s, numbers |-> rice[s], stamp |-> stamp],
           NEW q \in Polls, poll' = [poll EXCEPT ![p] = q],
           q.pc = "reading", q.todo = poll[p].todo \ {s}, q.readings = poll[p].readings \cup {r},
           read' = [read EXCEPT ![s] = Entry(r)], UNCHANGED <<rice, stamp, tables, lock, recent>>
    PROVE  SeatsInv'
<1>1. /\ s \in Sections /\ poll[p] \in Polls /\ poll[p].pc = "reading" /\ lock = p
      /\ stamp \in Stamps /\ stamp \in Nat
  BY SeatsAssumption DEF SeatsInv, SeatsTypeInv, LockInv, Polls, Asks, Stamps
<1>2. /\ poll' \in [Pollers -> Polls] /\ poll'[p] = q
      /\ \A v \in Pollers \ {p} : poll'[v] = poll[v] /\ poll[v].readings = {}
  BY <1>1 DEF SeatsInv, SeatsTypeInv, LockInv
<1>3. Entry(r) \in Entries /\ r.section = s /\ r.stamp = stamp
  BY DEF Readings, Entries, Entry
<1>4. /\ read' \in [Sections -> Entries \cup {Unread}] /\ read'[s] = Entry(r)
      /\ \A u \in Sections \ {s} : read'[u] = read[u]
  BY <1>1, <1>3 DEF SeatsInv, SeatsTypeInv
<1>5. SeatsTypeInv'
  BY <1>2, <1>4 DEF SeatsInv, SeatsTypeInv, tables
<1>6. LockInv'
  BY <1>1, <1>2 DEF SeatsInv, LockInv
<1>7. HandInv'
  <2> SUFFICES ASSUME NEW v \in Pollers, NEW h \in poll'[v].readings PROVE InHandStill(h, poll[v].todo)'
    BY DEF HandInv
  <2>1. v = p /\ h \in poll[p].readings \cup {r}
    BY <1>2
  <2>2. CASE h = r
    <3>1. r.section \notin poll'[p].todo /\ read'[r.section] = Entry(r)
      BY <1>2, <1>3, <1>4
    <3>2. r.stamp <= stamp /\ \A t \in DOMAIN chart[s] : t <= r.stamp
      BY <1>1, <1>3 DEF SeatsInv, ChartInv
    <3> QED  BY <2>1, <2>2, <3>1, <3>2, <1>3 DEF InHandStill, tables
  <2>3. CASE h \in poll[p].readings
    <3>1. InHandStill(h, poll[p].todo) /\ h \in Readings
      BY <2>3, <1>1 DEF SeatsInv, HandInv, Polls
    <3>2. h.section \in Sections \ {s} /\ h.section \notin poll'[p].todo
      BY <3>1, <1>2 DEF InHandStill, Readings
    <3> QED  BY <2>1, <3>1, <3>2, <1>4 DEF InHandStill, tables
  <2> QED  BY <2>1, <2>2, <2>3
<1>8. ChartInv'
  <2> SUFFICES ASSUME NEW u \in Sections, ~InHand(u)' PROVE read'[u] = state[u]
    BY DEF SeatsInv, ChartInv, Newest, tables
  <2>1. u # s
    BY <1>2, <1>3 DEF InHand
  <2>2. ~InHand(u)
    BY <1>2 DEF InHand
  <2> QED  BY <2>1, <2>2, <1>4 DEF SeatsInv, ChartInv
<1> QED  BY <1>5, <1>6, <1>7, <1>8 DEF SeatsInv

LEMMA ReadCrnKeeps == ASSUME SeatsInv, NEW p \in Pollers, ReadCrn(p) PROVE SeatsInv'
<1> DEFINE Without(s) == poll[p].todo \ {s}
           Noted(s) == [section |-> s, numbers |-> rice[s], stamp |-> stamp]
           Taken(s) == [poll[p] EXCEPT !.todo = Without(s), !.outages = 0, !.readings = poll[p].readings \cup {Noted(s)}]
           Spoilt(s) == [poll[p] EXCEPT !.todo = Without(s), !.outages = 0]
           Failed(s, outages) == [poll[p] EXCEPT !.outages = outages,
                                                 !.todo = IF Down(outages) THEN {} ELSE Without(s),
                                                 !.pc = IF Down(outages) THEN "failing" ELSE "reading"]
<1>1. poll[p] \in Polls /\ poll[p].pc = "reading" /\ Asks(p) /\ lock = p /\ recent \in BOOLEAN
  BY DEF ReadCrn, Asks, SeatsInv, SeatsTypeInv, LockInv
<1>2. UNCHANGED <<rice, stamp, tables, lock, recent>>
  BY DEF ReadCrn
<1>3. PICK s \in poll[p].todo :
        \/ poll' = [poll EXCEPT ![p] = Taken(s)] /\ read' = [read EXCEPT ![s] = [numbers |-> rice[s], stamp |-> stamp]]
        \/ poll' = [poll EXCEPT ![p] = Spoilt(s)] /\ UNCHANGED read
        \/ \E result \in Live \ {"body"} :
              poll' = [poll EXCEPT ![p] = Failed(s, CountFetch(poll[p].outages, result))] /\ UNCHANGED read
  BY DEF ReadCrn
<1>4. Noted(s) \in Readings /\ Entry(Noted(s)) = [numbers |-> rice[s], stamp |-> stamp]
  BY <1>1, <1>3 DEF SeatsInv, SeatsTypeInv, Polls, Readings, Entry
<1>5. CASE poll' = [poll EXCEPT ![p] = Taken(s)] /\ read' = [read EXCEPT ![s] = [numbers |-> rice[s], stamp |-> stamp]]
  <2>1. /\ Taken(s) \in Polls /\ Taken(s).pc = "reading" /\ Taken(s).todo = Without(s)
        /\ Taken(s).readings = poll[p].readings \cup {Noted(s)}
    <3> HIDE DEF Noted
    <3> QED  BY <1>1, <1>4 DEF Polls
  <2> HIDE DEF Taken
  <2> QED  BY <1>1, <1>2, <1>4, <1>5, <2>1, ReadingKeeps
<1>6. CASE poll' = [poll EXCEPT ![p] = Spoilt(s)] /\ UNCHANGED read
  <2>1. /\ Spoilt(s) \in Polls /\ Spoilt(s).pc = "reading" /\ Spoilt(s).todo \subseteq poll[p].todo
        /\ Spoilt(s).readings = poll[p].readings
    BY <1>1 DEF Polls
  <2> HIDE DEF Spoilt
  <2> QED  BY <1>1, <1>2, <1>6, <2>1, PollStepKeeps DEF SeatsInv, SeatsTypeInv
<1>7. ASSUME NEW result \in Live \ {"body"}, UNCHANGED read,
             poll' = [poll EXCEPT ![p] = Failed(s, CountFetch(poll[p].outages, result))]
      PROVE  SeatsInv'
  <2> DEFINE outages == CountFetch(poll[p].outages, result)
  <2>1. outages \in Nat
    BY <1>1 DEF CountFetch, Polls
  <2> HIDE DEF outages
  <2>2. /\ Failed(s, outages) \in Polls /\ Failed(s, outages).pc \in {"reading", "failing"}
        /\ Failed(s, outages).todo \subseteq poll[p].todo /\ Failed(s, outages).readings = poll[p].readings
    BY <1>1, <2>1 DEF Polls
  <2>3. poll' = [poll EXCEPT ![p] = Failed(s, outages)]
    BY <1>7 DEF outages
  <2> HIDE DEF Failed
  <2> QED  BY <1>1, <1>2, <1>7, <2>2, <2>3, PollStepKeeps DEF SeatsInv, SeatsTypeInv
<1> QED  BY <1>3, <1>5, <1>6, <1>7

(* Writing a batch: each section in hand gets its reading, and where the    *)
(* numbers changed its chart a snapshot no older than the others.           *)
LEMMA FlushKeeps == ASSUME SeatsInv, NEW p \in Pollers, Flush(p) PROVE SeatsInv'
<1> DEFINE readings == poll[p].readings
           last(s) == CHOOSE r \in readings : r.section = s
           held == {r.section : r \in readings}
           changed(s) == IF state[s] = Unread THEN TRUE ELSE state[s].numbers # last(s).numbers
           q == [poll[p] EXCEPT !.readings = {}]
<1>1. poll[p] \in Polls /\ lock = p /\ readings \subseteq Readings /\ stamp \in Nat
  BY SeatsAssumption DEF Flush, SeatsInv, SeatsTypeInv, LockInv, Polls, Stamps
<1>2. q \in Polls /\ q.pc = poll[p].pc /\ q.readings = {} /\ poll' = [poll EXCEPT ![p] = q]
  BY <1>1 DEF Polls, Flush
<1>3. /\ poll' \in [Pollers -> Polls] /\ poll'[p] = q
      /\ \A v \in Pollers \ {p} : poll'[v] = poll[v] /\ poll[v].readings = {}
  BY <1>1, <1>2 DEF SeatsInv, SeatsTypeInv, LockInv
<1>4. \A v \in Pollers : poll'[v].readings = {}
  BY <1>2, <1>3
<1>5. /\ state' = [s \in Sections |-> IF s \in held
                        THEN [numbers |-> last(s).numbers, stamp |-> last(s).stamp] ELSE state[s]]
      /\ chart' = [s \in Sections |-> IF s \in held /\ changed(s) THEN Chart(chart[s], last(s)) ELSE chart[s]]
      /\ UNCHANGED <<rice, stamp, lock, recent, read>>
  BY DEF Flush, RecordSeats
<1>6. ASSUME NEW s \in held
      PROVE  /\ last(s) \in Readings /\ last(s).stamp \in 0..stamp /\ read[s] = Entry(last(s))
             /\ \A t \in DOMAIN chart[s] : t <= last(s).stamp
  <2>1. last(s) \in readings /\ last(s).section = s
    OBVIOUS
  <2>2. InHandStill(last(s), poll[p].todo) /\ last(s) \in Readings
    BY <1>1, <2>1 DEF SeatsInv, HandInv
  <2> HIDE DEF last
  <2> QED  BY <1>1, <2>1, <2>2, SeatsAssumption DEF InHandStill, Readings, Stamps
<1>7. held \subseteq Sections
  BY <1>1 DEF Readings
<1> HIDE DEF held, last, q, readings
<1>8. ASSUME NEW s \in Sections
      PROVE  /\ state'[s] \in Entries \cup {Unread} /\ chart'[s] \in Charts
             /\ DOMAIN chart'[s] \subseteq 0..stamp /\ Newest(state'[s], chart'[s])
             /\ read[s] = state'[s]
  <2>0. /\ state[s] \in Entries \cup {Unread} /\ chart[s] \in Charts
        /\ DOMAIN chart[s] \subseteq 0..stamp /\ Newest(state[s], chart[s])
    BY DEF SeatsInv, SeatsTypeInv, ChartInv
  <2>1. CASE s \notin held
    <3>1. state'[s] = state[s] /\ chart'[s] = chart[s]
      BY <1>5, <2>1
    <3>2. ~InHand(s)
      BY <1>3, <2>1 DEF InHand, held, readings
    <3> QED  BY <2>0, <3>1, <3>2 DEF SeatsInv, ChartInv
  <2>2. CASE s \in held
    <3> DEFINE r == last(s)
    <3>1. /\ r \in Readings /\ r.stamp \in 0..stamp /\ read[s] = Entry(r)
          /\ \A t \in DOMAIN chart[s] : t <= r.stamp
      BY <1>6, <2>2
    <3>2. state'[s] = Entry(r) /\ Entry(r) \in Entries /\ Entry(r).numbers = r.numbers
      BY <1>5, <2>2, <3>1 DEF Entry, Readings, Entries
    <3>3. CASE changed(s)
      <4>1. chart'[s] = Chart(chart[s], r)
        BY <1>5, <2>2, <3>3
      <4>2. /\ chart'[s] \in Charts /\ DOMAIN chart'[s] = DOMAIN chart[s] \cup {r.stamp}
            /\ chart'[s][r.stamp] = r.numbers
        BY <2>0, <3>1, <4>1, ChartIsChart
      <4>3. \A t \in DOMAIN chart'[s] : t <= r.stamp
        BY <3>1, <4>2
      <4> HIDE DEF r
      <4> QED  BY <2>0, <3>1, <3>2, <4>2, <4>3 DEF Newest
    <3>4. CASE ~changed(s)
      <4>1. chart'[s] = chart[s] /\ state[s] # Unread /\ state[s].numbers = r.numbers
        BY <1>5, <3>4
      <4> HIDE DEF r
      <4> QED  BY <2>0, <3>1, <3>2, <4>1 DEF Newest
    <3> QED  BY <3>3, <3>4
  <2> QED  BY <2>1, <2>2
<1> HIDE DEF changed
<1>9. SeatsTypeInv'
  <2>1. state' \in [Sections -> Entries \cup {Unread}] /\ chart' \in [Sections -> Charts]
    BY <1>5, <1>8
  <2> QED  BY <1>3, <1>5, <2>1 DEF SeatsInv, SeatsTypeInv
<1>10. LockInv'
  BY <1>2, <1>3, <1>4, <1>5 DEF SeatsInv, LockInv
<1>11. HandInv'
  BY <1>4 DEF HandInv
<1>12. ChartInv'
  BY <1>5, <1>8 DEF ChartInv
<1> QED  BY <1>9, <1>10, <1>11, <1>12 DEF SeatsInv

(* What a lost batch had in hand was not written; nothing else changes.     *)
LEMMA LoseKeeps == ASSUME SeatsInv, NEW p \in Pollers, Lose(p) PROVE SeatsInv'
<1>1. lock = p /\ lock' = Nobody /\ UNCHANGED <<rice, stamp, tables, recent>>
  BY DEF Lose, SeatsInv, LockInv
<1>2. /\ poll' \in [Pollers -> Polls] /\ poll'[p] = NoPoll
      /\ \A v \in Pollers \ {p} : poll'[v] = poll[v] /\ poll[v].readings = {}
      /\ \A v \in Pollers : v # Nobody /\ poll'[v].readings = {}
  BY <1>1, NoPollIsPoll, SeatsAssumption DEF Lose, SeatsInv, SeatsTypeInv, LockInv
<1>3. /\ read' = [s \in Sections |-> IF \E r \in poll[p].readings : r.section = s THEN state[s] ELSE read[s]]
      /\ \A s \in Sections : state[s] \in Entries \cup {Unread} /\ read[s] \in Entries \cup {Unread}
  BY DEF Lose, SeatsInv, SeatsTypeInv
<1>4. SeatsTypeInv'
  <2>1. read' \in [Sections -> Entries \cup {Unread}]
    BY <1>3
  <2> QED  BY <1>1, <1>2, <2>1 DEF SeatsInv, SeatsTypeInv, tables
<1>5. LockInv'
  BY <1>1, <1>2, NoPollIsPoll DEF SeatsInv, LockInv
<1>6. HandInv'
  BY <1>2 DEF HandInv
<1>7. ChartInv'
  <2>1. \A s \in Sections : read'[s] = state[s]
    <3> SUFFICES ASSUME NEW s \in Sections PROVE read'[s] = state[s]
      OBVIOUS
    <3>1. CASE \E r \in poll[p].readings : r.section = s
      BY <1>3, <3>1
    <3>2. CASE ~\E r \in poll[p].readings : r.section = s
      <4>1. ~InHand(s)
        BY <1>2, <3>2 DEF InHand
      <4> QED  BY <1>3, <3>2, <4>1 DEF SeatsInv, ChartInv
    <3> QED  BY <3>1, <3>2
  <2> QED  BY <1>1, <2>1 DEF SeatsInv, ChartInv, Newest, tables
<1> QED  BY <1>4, <1>5, <1>6, <1>7 DEF SeatsInv
-----------------------------------------------------------------------------
(* The inductive invariant: one poll reads, what it holds is newer than     *)
(* what is stored, and what nobody holds is stored.                         *)
THEOREM SeatsInvariantHolds == SeatsSpec => []SeatsInv
<1>1. SeatsInit => SeatsInv
  <2> SUFFICES ASSUME SeatsInit PROVE SeatsInv
    OBVIOUS
  <2>1. [t \in {} |-> Unread] \in Charts /\ DOMAIN [t \in {} |-> Unread] = {}
    <3>1. [t \in {} |-> Unread] \in [{} -> Numbers]
      OBVIOUS
    <3> QED  BY <3>1 DEF Charts
  <2>2. SeatsTypeInv
    <3>1. stamp \in Stamps
      BY SeatsAssumption DEF SeatsInit, Stamps
    <3> QED  BY <3>1, <2>1, NoPollIsPoll DEF SeatsInit, SeatsTypeInv
  <2>3. LockInv /\ HandInv
    BY NoPollIsPoll, SeatsAssumption DEF SeatsInit, LockInv, HandInv
  <2>4. ChartInv
    BY <2>1, NoPollIsPoll DEF SeatsInit, ChartInv, Newest
  <2> QED  BY <2>2, <2>3, <2>4 DEF SeatsInv
<1>2. SeatsInv /\ [SeatsStep]_seatVars => SeatsInv'
  <2> SUFFICES ASSUME SeatsInv, [SeatsStep]_seatVars PROVE SeatsInv'
    OBVIOUS
  <2>1. CASE UNCHANGED seatVars
    BY <2>1 DEF seatVars, SeatsInv, SeatsTypeInv, LockInv, HandInv, InHandStill, ChartInv, Newest, InHand
  <2>2. CASE RiceMoves \/ IntervalPasses \/ \E s \in PollSet : Enroll(s)
    BY <2>2, RiceMovesKeeps, IntervalPassesKeeps, EnrollKeeps
  <2>3. ASSUME NEW p \in Pollers, Check(p) \/ Begin(p) \/ ReadCrn(p) \/ Deadline(p)
                                  \/ Flush(p) \/ Conclude(p) \/ Lose(p)
        PROVE  SeatsInv'
    BY <2>3, CheckKeeps, BeginKeeps, ReadCrnKeeps, DeadlineKeeps, FlushKeeps, ConcludeKeeps, LoseKeeps
  <2> QED  BY <2>1, <2>2, <2>3 DEF SeatsStep
<1> QED  BY <1>1, <1>2, PTL DEF SeatsSpec

(* The newest snapshot of every section is its current numbers, every       *)
(* reading that no run still holds is the current state, and the holder of  *)
(* the lock is the one poll that reads (record_seats, poll_seats), for any  *)
(* sections, pollers and batches.                                           *)
THEOREM SeatsDoAgree == SeatsSpec => []SeatsAgree
<1>1. SeatsInv => SeatsAgree
  <2> SUFFICES ASSUME SeatsInv PROVE SeatsAgree
    OBVIOUS
  <2>1. SeatsTypeOK
    BY ChartsElim DEF SeatsInv, SeatsTypeInv, LockInv, Polls, Stamps, SeatsTypeOK
  <2>2. ASSUME NEW s \in Sections, state[s] # Unread
        PROVE  DOMAIN chart[s] # {} /\ chart[s][Max(DOMAIN chart[s])] = state[s].numbers
    BY <2>2, NewestIsMax DEF SeatsInv, SeatsTypeInv, ChartInv
  <2> QED  BY <2>1, <2>2 DEF SeatsAgree, SeatsInv, ChartInv
<1> QED  BY <1>1, SeatsInvariantHolds, PTL

-----------------------------------------------------------------------------
(* Whatever else the operator's jobs bring in, the seats poll behaves as it *)
(* does alone: no other job takes its lock or writes a section's seats, so  *)
(* what is proved of SeatsSpec holds of all the jobs together.              *)
THEOREM PollIsUndisturbed == IngestSpec => SeatsSpec
<1>1. IngestInit => SeatsInit
  BY DEF IngestInit
<1>2. [IngestNext]_ingestVars => [SeatsStep]_seatVars
  <2>1. SUFFICES ASSUME [IngestNext]_ingestVars, ~Polling PROVE UNCHANGED seatVars
    BY DEF Polling
  <2>. QED
    BY <2>1 DEF IngestNext, UpsertCourses, UpsertAliases, EndReview, AtReview, Transact,
                Publishing, Reading, Searching, ingestVars
<1>. QED
  BY <1>1, <1>2, PTL DEF IngestSpec, SeatsSpec

-----------------------------------------------------------------------------
(* The order of a search: subject, number and name of a section end its key *)
(* and are no other section's, so that every section has a place of its own.*)

Width(query) == IF query.sort = "courseNumber" \/ (query.sort = "relevance" /\ query.q = Unset)
                THEN 3 ELSE 5

LEMMA MinType == ASSUME NEW a \in Int, NEW b \in Int PROVE Min({a, b}) \in Int
<1>. DEFINE S == {a, b}
<1>1. \E x \in S : \A y \in S : x <= y
  <2>1. CASE a <= b
    BY <2>1
  <2>2. CASE b <= a
    BY <2>2
  <2>. QED
    BY <2>1, <2>2
<1>2. (CHOOSE x \in S : \A y \in S : x <= y) \in S
  BY <1>1
<1>3. Min(S) \in S
  BY <1>2 DEF Min
<1>. QED
  BY <1>3

\* A key is as long as the sort makes it, and ends with the section's name.
LEMMA KeyShape ==
  ASSUME NEW t \in Section, NEW query \in Query
  PROVE  LET key == SortKey(t, query)
             w == Width(query)
         IN  /\ key \in [1 .. w -> Int]
             /\ key[w - 2] = t.subject /\ key[w - 1] = t.number /\ key[w] = t.code
<1>. DEFINE name == <<t.subject, t.number, t.code>>
<1>1. t.subject \in Nat /\ t.number \in Nat /\ t.code \in Nat
  <2>1. t.subject \in Nat /\ t.code \in Nat
    BY DEF Section, OrUnset
  <2>2. t.number \in 0 .. LastNumber
    BY DEF Section, OrUnset
  <2>3. LastNumber \in Nat
    BY DEF LastNumber
  <2>. QED
    BY <2>1, <2>2, <2>3
<1>. PICK p : p = SortedBy(t, query)
  OBVIOUS
<1>2. p \in Seq(Int) /\ Len(p) = Width(query) - 3
  <2>1. CASE query.sort = "relevance" /\ query.q = Unset
    <3>1. p = <<>> /\ Width(query) = 3
      BY <2>1 DEF SortedBy, Width
    <3>. QED
      BY <3>1
  <2>2. CASE query.sort = "relevance" /\ query.q # Unset
    <3>. DEFINE a == Min({t.words[query.q].code, 2})
                b == -t.words[query.q].title
    <3>1. query.q \in Keywords
      BY <2>2 DEF Query, OrUnset
    <3>2. t.words[query.q] \in [code : Nat, title : Nat, taught : BOOLEAN]
      BY <3>1 DEF Section
    <3>3. a \in Int /\ b \in Int
      BY <3>2, MinType
    <3>4. p = <<a, b>> /\ Width(query) = 5
      BY <2>2 DEF SortedBy, Width
    <3>. HIDE DEF a, b
    <3>5. <<a, b>> \in Seq(Int) /\ Len(<<a, b>>) = 2
      BY <3>3
    <3>. QED
      BY <3>4, <3>5
  <2>3. CASE query.sort = "courseNumber"
    <3>1. p = <<>> /\ Width(query) = 3
      BY <2>3 DEF SortedBy, Width
    <3>. QED
      BY <3>1
  <2>4. CASE query.sort = "credits"
    <3>1. p = t.credits /\ Width(query) = 5
      BY <2>4 DEF SortedBy, Width
    <3>2. PICK a \in Nat, b \in Nat : t.credits = <<a, b>>
      <4>1. t.credits \in Nat \X Nat
        BY DEF Section, OrUnset
      <4>. QED
        BY <4>1
    <3>3. <<a, b>> \in Seq(Int) /\ Len(<<a, b>>) = 2
      OBVIOUS
    <3>. QED
      BY <3>1, <3>2, <3>3
  <2>5. CASE query.sort = "openSeats"
    <3>1. PICK a \in Int, b \in Int : p = <<a, b>>
      <4>1. CASE t.seats = Unset
        BY <2>5, <4>1 DEF SortedBy
      <4>2. CASE t.seats # Unset
        <5>1. t.seats \in Int
          BY <4>2 DEF Section, OrUnset
        <5>. QED
          BY <2>5, <4>2, <5>1 DEF SortedBy
      <4>. QED
        BY <4>1, <4>2
    <3>2. <<a, b>> \in Seq(Int) /\ Len(<<a, b>>) = 2 /\ Width(query) = 5
      BY <2>5 DEF Width
    <3>. QED
      BY <3>1, <3>2
  <2>. QED
    BY <2>1, <2>2, <2>3, <2>4, <2>5 DEF Query
<1>. PICK n : n = name
  OBVIOUS
<1>3. n \in Seq(Int)
  BY <1>1
<1>4. Len(n) = 3 /\ n[1] = t.subject /\ n[2] = t.number /\ n[3] = t.code
  BY <1>1
<1>5. PICK key : key = p \o n /\ key = SortKey(t, query)
  BY DEF SortKey
<1>6. PICK w : w = Width(query) /\ w \in {3, 5}
  BY DEF Width
<1>7. /\ key \in Seq(Int) /\ Len(key) = w
      /\ \A i \in 1 .. w : key[i] = IF i <= w - 3 THEN p[i] ELSE n[i - (w - 3)]
  <2>1. Len(p) = w - 3 /\ Len(p) + Len(n) = w
    BY <1>2, <1>4, <1>6
  <2>2. /\ key \in Seq(Int) /\ Len(key) = Len(p) + Len(n)
        /\ \A i \in 1 .. Len(p) + Len(n) : key[i] = IF i <= Len(p) THEN p[i] ELSE n[i - Len(p)]
    BY <1>2, <1>3, <1>5, ConcatProperties
  <2>. QED
    BY <2>1, <2>2
<1>8. key \in [1 .. w -> Int]
  BY <1>7
<1>9. key[w - 2] = n[1] /\ key[w - 1] = n[2] /\ key[w] = n[3]
  <2>1. w - 2 \in 1 .. w /\ w - 1 \in 1 .. w /\ w \in 1 .. w
    BY <1>6
  <2>2. w - 2 - (w - 3) = 1 /\ w - 1 - (w - 3) = 2 /\ w - (w - 3) = 3
    BY <1>6
  <2>3. ~(w - 2 <= w - 3) /\ ~(w - 1 <= w - 3) /\ ~(w <= w - 3)
    BY <1>6
  <2>. QED
    BY <1>7, <2>1, <2>2, <2>3
<1>. QED
  BY <1>4, <1>5, <1>6, <1>8, <1>9

\* Keys of one length are in one order.
LEMMA KeysAreOrdered ==
  ASSUME NEW w \in {3, 5}, NEW a \in [1 .. w -> Int], NEW b \in [1 .. w -> Int],
         NEW c \in [1 .. w -> Int]
  PROVE  /\ ~Precedes(a, a)
         /\ Precedes(a, b) /\ Precedes(b, c) => Precedes(a, c)
         /\ a # b => Precedes(a, b) \/ Precedes(b, a)
<1>1. ~Precedes(a, a)
  BY DEF Precedes
<1>2. ASSUME Precedes(a, b), Precedes(b, c) PROVE Precedes(a, c)
  <2>1. PICK n \in 1 .. w : a[n] < b[n] /\ \A m \in 1 .. (n - 1) : a[m] = b[m]
    BY <1>2 DEF Precedes
  <2>2. PICK k \in 1 .. w : b[k] < c[k] /\ \A m \in 1 .. (k - 1) : b[m] = c[m]
    BY <1>2 DEF Precedes
  <2>3. CASE n <= k
    <3>1. a[n] < c[n]
      BY <2>1, <2>2, <2>3
    <3>2. \A m \in 1 .. (n - 1) : a[m] = c[m]
      BY <2>1, <2>2, <2>3
    <3>. QED
      BY <3>1, <3>2 DEF Precedes
  <2>4. CASE k < n
    <3>1. a[k] < c[k]
      BY <2>1, <2>2, <2>4
    <3>2. \A m \in 1 .. (k - 1) : a[m] = c[m]
      BY <2>1, <2>2, <2>4
    <3>. QED
      BY <3>1, <3>2 DEF Precedes
  <2>. QED
    BY <2>3, <2>4
<1>3. ASSUME a # b PROVE Precedes(a, b) \/ Precedes(b, a)
  <2>1. \E n \in 1 .. w : a[n] # b[n]
    BY <1>3
  <2>2. PICK n \in 1 .. w : a[n] # b[n] /\ \A m \in 1 .. (n - 1) : a[m] = b[m]
    <3>1. CASE w = 3
      <4>1. CASE a[1] # b[1]
        BY <3>1, <4>1
      <4>2. CASE a[1] = b[1] /\ a[2] # b[2]
        BY <3>1, <4>2
      <4>3. CASE a[1] = b[1] /\ a[2] = b[2]
        BY <2>1, <3>1, <4>3
      <4>. QED
        BY <4>1, <4>2, <4>3
    <3>2. CASE w = 5
      <4>1. CASE a[1] # b[1]
        BY <3>2, <4>1
      <4>2. CASE a[1] = b[1] /\ a[2] # b[2]
        BY <3>2, <4>2
      <4>3. CASE a[1] = b[1] /\ a[2] = b[2] /\ a[3] # b[3]
        BY <3>2, <4>3
      <4>4. CASE a[1] = b[1] /\ a[2] = b[2] /\ a[3] = b[3] /\ a[4] # b[4]
        BY <3>2, <4>4
      <4>5. CASE a[1] = b[1] /\ a[2] = b[2] /\ a[3] = b[3] /\ a[4] = b[4]
        BY <2>1, <3>2, <4>5
      <4>. QED
        BY <4>1, <4>2, <4>3, <4>4, <4>5
    <3>. QED
      BY <3>1, <3>2
  <2>3. a[n] < b[n] \/ b[n] < a[n]
    BY <2>2
  <2>. QED
    BY <2>2, <2>3 DEF Precedes
<1>. QED
  BY <1>1, <1>2, <1>3

\* The rows of a search are its sections, in order, each in a place of its own.
LEMMA OrderedIsSorted ==
  ASSUME CatalogOK, shelf \in Catalogs, NEW query \in Query, NEW S \in SUBSET DOMAIN shelf, NEW tie \in Ties
  PROVE  LET rows == Ordered(S, query, tie)
         IN  /\ IsFiniteSet(S) /\ Cardinality(S) \in Nat
             /\ rows \in [1 .. Cardinality(S) -> S]
             /\ \A c \in S : \E n \in 1 .. Cardinality(S) : rows[n] = c
             /\ \A m, n \in 1 .. Cardinality(S) : m < n =>
                  ~Precedes(SortKey(shelf[rows[n]], query), SortKey(shelf[rows[m]], query))
<1>. DEFINE key(c) == SortKey(shelf[c], query)
            Leads(c, d) == Precedes(key(c), key(d)) \/ (key(c) = key(d) /\ tie[c] < tie[d])
            ahead == [c \in S |-> {d \in S : Leads(d, c)}]
            w == Width(query)
            rows == Ordered(S, query, tie)
<1>1. IsFiniteSet(S) /\ Cardinality(S) \in Nat
  BY FS_Subset, FS_CardinalityType DEF CatalogOK
<1>2. w \in {3, 5}
  BY DEF Width
<1>3. \A c \in S : key(c) \in [1 .. w -> Int]
  BY KeyShape DEF CatalogOK
<1>4. \A c, d \in S : tie[c] \in Nat /\ (tie[c] = tie[d] => c = d)
  BY DEF CatalogOK
<1>. HIDE DEF key, w
<1>5. /\ \A c \in S : c \notin ahead[c]
      /\ \A c, d \in S : c # d => c \in ahead[d] \/ d \in ahead[c]
      /\ \A c, d \in S : c \in ahead[d] => ahead[c] \subseteq ahead[d]
  <2>1. \A c \in S : ~Leads(c, c)
    <3>1. \A c \in S : ~(tie[c] < tie[c])
      BY <1>4
    <3>. QED
      BY <1>2, <1>3, <3>1, KeysAreOrdered
  <2>2. \A c, d \in S : c # d => Leads(c, d) \/ Leads(d, c)
    <3>1. \A c, d \in S : c # d => tie[c] < tie[d] \/ tie[d] < tie[c]
      BY <1>4
    <3>. QED
      BY <1>2, <1>3, <3>1, KeysAreOrdered
  <2>3. \A c, d, e \in S : Leads(e, c) /\ Leads(c, d) => Leads(e, d)
    <3>1. \A c, d, e \in S : tie[e] < tie[c] /\ tie[c] < tie[d] => tie[e] < tie[d]
      BY <1>4
    <3>2. \A c, d, e \in S : Precedes(key(e), key(c)) /\ Precedes(key(c), key(d)) =>
                               Precedes(key(e), key(d))
      BY <1>2, <1>3, KeysAreOrdered
    <3>. QED
      BY <3>1, <3>2
  <2>. QED
    BY <2>1, <2>2, <2>3
<1>6. ahead \in [S -> SUBSET S]
  OBVIOUS
<1>7. rows = [n \in 1 .. Cardinality(S) |-> CHOOSE c \in S : Cardinality(ahead[c]) = n - 1]
  BY DEF Ordered, key
<1>. HIDE DEF ahead, rows
<1>8. /\ \A n \in 1 .. Cardinality(S) : \E c \in S : Cardinality(ahead[c]) = n - 1
      /\ \A c \in S : Cardinality(ahead[c]) + 1 \in 1 .. Cardinality(S)
      /\ \A c, d \in S : c \in ahead[d] <=> Cardinality(ahead[c]) < Cardinality(ahead[d])
  BY <1>1, <1>5, <1>6, RanksFill
<1>9. \A n \in 1 .. Cardinality(S) : rows[n] \in S /\ Cardinality(ahead[rows[n]]) = n - 1
  BY <1>7, <1>8
<1>10. rows \in [1 .. Cardinality(S) -> S]
  BY <1>7, <1>9
<1>11. ASSUME NEW c \in S PROVE \E n \in 1 .. Cardinality(S) : rows[n] = c
  <2>1. PICK n \in 1 .. Cardinality(S) : n = Cardinality(ahead[c]) + 1
    BY <1>8
  <2>2. Cardinality(ahead[c]) \in Nat
    BY <1>1, <1>6, FS_Subset, FS_CardinalityType
  <2>3. Cardinality(ahead[rows[n]]) = Cardinality(ahead[c]) /\ rows[n] \in S
    BY <1>9, <2>1, <2>2
  <2>4. rows[n] \notin ahead[c] /\ c \notin ahead[rows[n]]
    BY <1>8, <2>2, <2>3
  <2>. QED
    BY <1>5, <2>3, <2>4
<1>12. ASSUME NEW m \in 1 .. Cardinality(S), NEW n \in 1 .. Cardinality(S), m < n
       PROVE  ~Precedes(key(rows[n]), key(rows[m]))
  <2>1. rows[m] \in ahead[rows[n]]
    BY <1>8, <1>9, <1>12
  <2>2. rows[m] \in S /\ rows[n] \in S /\ Leads(rows[m], rows[n])
    BY <1>9, <2>1 DEF ahead
  <2>. QED
    BY <1>2, <1>3, <2>2, KeysAreOrdered
<1>. QED
  BY <1>1, <1>10, <1>11, <1>12 DEF key, rows

\* Where course and section code name a section, nothing is left to the database.
LEMMA TiesMatterNot ==
  ASSUME CatalogOK, shelf \in Catalogs, NamesAreUnique, NEW query \in Query, NEW S \in SUBSET DOMAIN shelf,
         NEW t \in Ties, NEW u \in Ties
  PROVE  Ordered(S, query, t) = Ordered(S, query, u)
<1>. DEFINE key(c) == SortKey(shelf[c], query)
            ahead(r) == [c \in S |-> {d \in S : Precedes(key(d), key(c)) \/ (key(d) = key(c) /\ r[d] < r[c])}]
<1>1. \A c, d \in S : key(c) = key(d) => c = d
  <2>1. SUFFICES ASSUME NEW c \in S, NEW d \in S, key(c) = key(d) PROVE c = d
    OBVIOUS
  <2>2. shelf[c] \in Section /\ shelf[d] \in Section
    BY DEF CatalogOK
  <2>3. /\ shelf[c].subject = shelf[d].subject /\ shelf[c].number = shelf[d].number
        /\ shelf[c].code = shelf[d].code
    BY <2>1, <2>2, KeyShape
  <2>. QED
    BY <2>3 DEF NamesAreUnique
<1>2. \A c \in S : ~(t[c] < t[c]) /\ ~(u[c] < u[c])
  BY DEF CatalogOK
<1>. HIDE DEF key
<1>3. ahead(t) = ahead(u)
  BY <1>1, <1>2
<1>4. \A r \in {t, u} : Ordered(S, query, r) = [n \in 1 .. Cardinality(S) |-> CHOOSE c \in S : Cardinality(ahead(r)[c]) = n - 1]
  BY DEF Ordered, key
<1>. PICK a, b : a = ahead(t) /\ b = ahead(u)
  OBVIOUS
<1>5. /\ Ordered(S, query, t) = [n \in 1 .. Cardinality(S) |-> CHOOSE c \in S : Cardinality(a[c]) = n - 1]
      /\ Ordered(S, query, u) = [n \in 1 .. Cardinality(S) |-> CHOOSE c \in S : Cardinality(b[c]) = n - 1]
  BY <1>4
<1>. HIDE DEF ahead
<1>6. a = b
  BY <1>3
<1>. QED
  BY ONLY <1>5, <1>6

\* A query and the same query from another row ask for the same sections in
\* the same order.
LEMMA OffsetOnly ==
  ASSUME NEW query \in Query, NEW n \in Nat, NEW r, r = [query EXCEPT !.offset = n]
  PROVE  /\ r \in Query /\ r.offset = n
         /\ r.q = query.q /\ r.subject = query.subject /\ r.department = query.department
         /\ r.school = query.school /\ r.attr = query.attr /\ r.level = query.level
         /\ r.levelMin = query.levelMin /\ r.levelMax = query.levelMax
         /\ r.creditsMin = query.creditsMin /\ r.creditsMax = query.creditsMax /\ r.days = query.days
         /\ r.startsAfter = query.startsAfter /\ r.endsBefore = query.endsBefore
         /\ r.part = query.part /\ r.openSeatsOnly = query.openSeatsOnly
         /\ r.scheduledOnly = query.scheduledOnly /\ r.sort = query.sort /\ r.limit = query.limit
BY DEF Query

\* Levels are whole hundreds.
LEMMA LevelsType == ASSUME NEW query \in Query PROVE Levels(query) \in SUBSET Nat
<1>1. LastNumber \in Nat
  BY DEF LastNumber
<1>2. query.level \in SUBSET Nat /\ query.levelMin \in Nat \cup {Unset} /\ query.levelMax \in Nat \cup {Unset}
  BY DEF Query, OrUnset
<1>. PICK a \in Nat, b \in Nat : a = OrElse(query.levelMin, 0) /\ b = OrElse(query.levelMax, LastNumber)
  BY <1>1, <1>2 DEF OrElse
<1>3. \A n \in (a \div 100) .. (b \div 100) : 100 * n \in Nat
  <2>1. a \div 100 \in Nat /\ b \div 100 \in Nat
    OBVIOUS
  <2>2. \A n \in Nat : 100 * n \in Nat
    OBVIOUS
  <2>. QED
    BY <2>1, <2>2
<1>. QED
  BY <1>2, <1>3 DEF Levels

\* What the store is asked differs in levels and limit only.
WithLevels(query, l, m) == [query EXCEPT !.level = l, !.limit = m]

LEMMA LevelAndLimit ==
  ASSUME NEW query \in Query, NEW l \in SUBSET Nat, NEW m \in Nat,
         NEW r, r = WithLevels(query, l, m)
  PROVE  /\ r \in Query /\ r.offset = query.offset /\ r.level = l
         /\ r.q = query.q /\ r.subject = query.subject /\ r.department = query.department
         /\ r.school = query.school /\ r.attr = query.attr
         /\ r.creditsMin = query.creditsMin /\ r.creditsMax = query.creditsMax /\ r.days = query.days
         /\ r.startsAfter = query.startsAfter /\ r.endsBefore = query.endsBefore
         /\ r.part = query.part /\ r.openSeatsOnly = query.openSeatsOnly
         /\ r.scheduledOnly = query.scheduledOnly /\ r.sort = query.sort
<1>1. r \in Query
  BY DEF Query, WithLevels
<1>2. /\ r.offset = query.offset /\ r.level = l
      /\ r.q = query.q /\ r.subject = query.subject /\ r.department = query.department
      /\ r.school = query.school /\ r.attr = query.attr
      /\ r.creditsMin = query.creditsMin /\ r.creditsMax = query.creditsMax /\ r.days = query.days
      /\ r.startsAfter = query.startsAfter /\ r.endsBefore = query.endsBefore
      /\ r.part = query.part /\ r.openSeatsOnly = query.openSeatsOnly
      /\ r.scheduledOnly = query.scheduledOnly /\ r.sort = query.sort
  BY DEF Query, WithLevels
<1>. QED
  BY <1>1, <1>2

LEMMA StoreQuery ==
  ASSUME NEW query \in Query, NEW r, r = ToStoreQuery(query), CatalogOK
  PROVE  /\ r \in Query /\ r.offset = query.offset /\ r.level = Levels(query)
         /\ r.q = query.q /\ r.subject = query.subject /\ r.department = query.department
         /\ r.school = query.school /\ r.attr = query.attr
         /\ r.creditsMin = query.creditsMin /\ r.creditsMax = query.creditsMax /\ r.days = query.days
         /\ r.startsAfter = query.startsAfter /\ r.endsBefore = query.endsBefore
         /\ r.part = query.part /\ r.openSeatsOnly = query.openSeatsOnly
         /\ r.scheduledOnly = query.scheduledOnly /\ r.sort = query.sort
<1>1. PICK l \in SUBSET Nat : l = Levels(query)
  BY LevelsType
<1>2. PICK m \in Nat : m = Clamped(query.limit)
  BY DEF Clamped, Query, CatalogOK
<1>3. r = WithLevels(query, l, m)
  BY <1>1, <1>2 DEF ToStoreQuery, WithLevels
<1>. QED
  BY <1>1, <1>3, LevelAndLimit

\* A query without its levels keeps every other filter.
LEMMA AnyLevelFields ==
  ASSUME NEW query \in Query, NEW r, r = AnyLevel(query)
  PROVE  /\ r \in Query /\ r.level = {}
         /\ r.q = query.q /\ r.subject = query.subject /\ r.department = query.department
         /\ r.school = query.school /\ r.attr = query.attr
         /\ r.creditsMin = query.creditsMin /\ r.creditsMax = query.creditsMax /\ r.days = query.days
         /\ r.startsAfter = query.startsAfter /\ r.endsBefore = query.endsBefore
         /\ r.part = query.part /\ r.openSeatsOnly = query.openSeatsOnly
         /\ r.scheduledOnly = query.scheduledOnly /\ r.sort = query.sort
BY DEF Query, OrUnset, AnyLevel

LEMMA AnyLevelUnset ==
  ASSUME NEW query \in Query, query = AnyLevel(query)
  PROVE  query.levelMin = Unset /\ query.levelMax = Unset
BY DEF Query, OrUnset, AnyLevel

\* A sensible query names the levels it wants, whole hundreds of its bounds.
LEMMA LevelsAreWanted ==
  ASSUME NEW query \in Query, Sensible(query), NEW t \in Section
  PROVE  (Levels(query) # {} => LevelOf(t) \in Levels(query)) <=> LevelWanted(LevelOf(t), query)
<1>1. query.level \in SUBSET Nat /\ query.levelMin \in Nat \cup {Unset} /\ query.levelMax \in Nat \cup {Unset}
  BY DEF Query, OrUnset
<1>2. LastNumber \in Nat
  BY DEF LastNumber
<1>. PICK n \in Nat : n = t.number /\ n <= LastNumber
  <2>1. t.number \in 0 .. LastNumber
    BY DEF Section, OrUnset
  <2>. QED
    BY <1>2, <2>1
<1>. PICK a, b : a = OrElse(query.levelMin, 0) /\ b = OrElse(query.levelMax, LastNumber)
  OBVIOUS
<1>3. a \in Nat /\ b \in Nat
  BY <1>1, <1>2 DEF OrElse
<1>. DEFINE level == 100 * (n \div 100)
            range == {100 * k : k \in (a \div 100) .. (b \div 100)}
<1>4. level = LevelOf(t)
  BY DEF LevelOf
<1>5. level \in range <=> level >= 100 * (a \div 100) /\ level <= b
  BY <1>3
<1>6. level >= 0 /\ level <= LastNumber /\ level \in Nat
  BY <1>2
<1>7. query.levelMin # Unset => a = query.levelMin
  BY DEF OrElse
<1>8. query.levelMax # Unset => b = query.levelMax
  BY DEF OrElse
<1>9. query.levelMin = Unset => level >= 100 * (a \div 100)
  <2>1. query.levelMin = Unset => a = 0
    BY DEF OrElse
  <2>2. 100 * (0 \div 100) = 0
    OBVIOUS
  <2>. QED
    BY <1>6, <2>1, <2>2
<1>10. query.levelMax = Unset => level <= b
  BY <1>6 DEF OrElse
<1>. HIDE DEF level, range
<1>11. level \in range <=> /\ query.levelMin # Unset => level >= 100 * (query.levelMin \div 100)
                           /\ query.levelMax # Unset => level <= query.levelMax
  BY <1>5, <1>7, <1>8, <1>9, <1>10
<1>12. LevelWanted(level, query) <=> level \in range /\ (query.level # {} => level \in query.level)
  BY <1>11 DEF LevelWanted
<1>13. CASE query.levelMin = Unset /\ query.levelMax = Unset
  <2>1. Levels(query) = query.level
    BY <1>13 DEF Levels
  <2>2. level \in range
    BY <1>11, <1>13
  <2>. QED
    BY <1>4, <1>12, <2>1, <2>2
<1>14. CASE ~(query.levelMin = Unset /\ query.levelMax = Unset)
  <2>1. query # AnyLevel(query)
    BY <1>14, AnyLevelUnset
  <2>2. Levels(query) # {}
    BY <2>1 DEF Sensible
  <2>3. Levels(query) = IF query.level = {} THEN range ELSE range \cap query.level
    BY <1>14 DEF Levels, range
  <2>. QED
    BY <1>4, <1>12, <2>2, <2>3
<1>. QED
  BY <1>13, <1>14

\* What a search finds is what its query wants.
LEMMA AnyTimeFields ==
  ASSUME NEW query \in Query, NEW r, r = AnyTime(query)
  PROVE  /\ r \in Query /\ r.level = query.level /\ r.endsBefore = Unset
         /\ r.q = query.q /\ r.subject = query.subject /\ r.department = query.department
         /\ r.school = query.school /\ r.attr = query.attr
         /\ r.creditsMin = query.creditsMin /\ r.creditsMax = query.creditsMax /\ r.days = query.days
         /\ r.startsAfter = query.startsAfter
         /\ r.part = query.part /\ r.openSeatsOnly = query.openSeatsOnly
         /\ r.scheduledOnly = query.scheduledOnly /\ r.sort = query.sort
BY DEF Query, OrUnset, AnyTime

LEMMA FoundIsWanted ==
  ASSUME CatalogOK, shelf \in Catalogs, NEW query \in Query, Sensible(query), NEW w \in BOOLEAN
  PROVE  Found(ToStoreQuery(query), w) = Wanted(query, w)
<1>. PICK r, any, free : r = ToStoreQuery(query) /\ any = AnyLevel(query) /\ free = AnyTime(any)
  OBVIOUS
<1>1. query.endsBefore # Unset => TimeOfDay(query.endsBefore) = query.endsBefore
  <2>1. query.endsBefore # Unset => query.endsBefore \in Nat /\ query.endsBefore < 1440
    BY DEF Sensible, Query, OrUnset, MinutesInDay
  <2>. QED
    BY <2>1 DEF TimeOfDay, MinutesInDay
<1>2. ASSUME NEW c \in DOMAIN shelf
      PROVE  Matches(shelf[c], r, w) <=>
                 /\ Matches(shelf[c], free, w) /\ LevelWanted(LevelOf(shelf[c]), query)
                 /\ query.endsBefore # Unset => \A m \in Timed(shelf[c]) : m.to <= query.endsBefore
  <2>. PICK t \in Section : t = shelf[c]
    BY DEF CatalogOK
  <2>1. (r.level # {} => LevelOf(t) \in r.level) <=> LevelWanted(LevelOf(t), query)
    BY StoreQuery, LevelsAreWanted
  <2>2. any \in Query /\ free.level = {} /\ free.endsBefore = Unset
    BY AnyLevelFields, AnyTimeFields
  <2>3. Matches(t, r, w) <=>
            /\ Matches(t, free, w) /\ (r.level # {} => LevelOf(t) \in r.level)
            /\ query.endsBefore # Unset => \A m \in Timed(t) : m.to <= TimeOfDay(query.endsBefore)
    BY <2>2, StoreQuery, AnyLevelFields, AnyTimeFields DEF Matches
  <2>. QED
    BY <1>1, <2>1, <2>3
<1>. QED
  BY <1>2 DEF Found, Wanted

LEMMA SameFilters ==
  ASSUME NEW a, NEW b, NEW w \in BOOLEAN,
         a.q = b.q /\ a.subject = b.subject /\ a.department = b.department,
         a.school = b.school /\ a.attr = b.attr /\ a.level = b.level,
         a.creditsMin = b.creditsMin /\ a.creditsMax = b.creditsMax /\ a.days = b.days,
         a.startsAfter = b.startsAfter /\ a.endsBefore = b.endsBefore /\ a.part = b.part,
         a.openSeatsOnly = b.openSeatsOnly /\ a.scheduledOnly = b.scheduledOnly
  PROVE  Found(a, w) = Found(b, w)
BY DEF Found, Matches

LEMMA SameOrder ==
  ASSUME NEW a, NEW b, a.sort = b.sort, a.q = b.q, NEW S, NEW tie
  PROVE  Ordered(S, a, tie) = Ordered(S, b, tie)
BY DEF Ordered, SortKey, SortedBy

\* The pages of a query are pages of one result.
LEMMA SameSearch ==
  ASSUME CatalogOK, NEW query \in Query, NEW key, key = Key(query)
  PROVE  /\ Found(ToStoreQuery(query), TRUE) = Found(ToStoreQuery(key), TRUE)
         /\ Found(ToStoreQuery(query), FALSE) = Found(ToStoreQuery(key), FALSE)
         /\ \A S, tie : Ordered(S, ToStoreQuery(query), tie) = Ordered(S, key, tie)
<1>. PICK r, k : r = ToStoreQuery(query) /\ k = ToStoreQuery(key)
  OBVIOUS
<1>1. key \in Query
  BY OffsetOnly DEF Key
<1>2. Levels(key) = Levels(query)
  BY OffsetOnly DEF Levels, Key
<1>3. \A w \in BOOLEAN : Found(r, w) = Found(k, w)
  <2>1. /\ key.q = query.q /\ key.subject = query.subject /\ key.department = query.department
        /\ key.school = query.school /\ key.attr = query.attr
        /\ key.creditsMin = query.creditsMin /\ key.creditsMax = query.creditsMax /\ key.days = query.days
        /\ key.startsAfter = query.startsAfter /\ key.endsBefore = query.endsBefore
        /\ key.part = query.part /\ key.openSeatsOnly = query.openSeatsOnly
        /\ key.scheduledOnly = query.scheduledOnly
    BY OffsetOnly DEF Key
  <2>. QED
    BY <1>1, <1>2, <2>1, StoreQuery, SameFilters
<1>4. key.sort = query.sort /\ key.q = query.q
  BY OffsetOnly DEF Key
<1>5. \A S, tie : Ordered(S, r, tie) = Ordered(S, key, tie)
  BY <1>4, StoreQuery, SameOrder
<1>. QED
  BY <1>3, <1>5

LEMMA MinOfTwo == ASSUME NEW a \in Nat, NEW b \in Nat PROVE Min({a, b}) = IF a <= b THEN a ELSE b
<1>1. (CHOOSE x \in {a, b} : \A y \in {a, b} : x <= y) = IF a <= b THEN a ELSE b
  <2>1. CASE a <= b
    <3>1. \A x \in {a, b} : (\A y \in {a, b} : x <= y) <=> x = a
      BY <2>1
    <3>. QED
      BY <2>1, <3>1
  <2>2. CASE b < a
    <3>1. \A x \in {a, b} : (\A y \in {a, b} : x <= y) <=> x = b
      BY <2>2
    <3>. QED
      BY <2>2, <3>1
  <2>. QED
    BY <2>1, <2>2
<1>. QED
  BY <1>1 DEF Min

LEMMA MaxOfTwo == ASSUME NEW a \in Int, NEW b \in Int PROVE Max({a, b}) = IF a >= b THEN a ELSE b
<1>1. (CHOOSE x \in {a, b} : \A y \in {a, b} : x >= y) = IF a >= b THEN a ELSE b
  <2>1. CASE a >= b
    <3>1. \A x \in {a, b} : (\A y \in {a, b} : x >= y) <=> x = a
      BY <2>1
    <3>. QED
      BY <2>1, <3>1
  <2>2. CASE b > a
    <3>1. \A x \in {a, b} : (\A y \in {a, b} : x >= y) <=> x = b
      BY <2>2
    <3>. QED
      BY <2>2, <3>1
  <2>. QED
    BY <2>1, <2>2
<1>. QED
  BY <1>1 DEF Max

\* A page of a result: the rows from the offset on.
IsPart(slice, rows, offset) ==
    \A n \in 1 .. Len(slice) : offset + n \in 1 .. Len(rows) /\ slice[n] = rows[offset + n]

LEMMA SliceOf ==
  ASSUME NEW S, NEW rows \in Seq(S), NEW offset \in Nat, NEW limit \in Nat,
         NEW slice, slice = Slice(rows, offset, limit)
  PROVE  /\ slice \in Seq(S)
         /\ IsPart(slice, rows, offset)
<1>. PICK last \in Nat : last = Min({offset + limit, Len(rows)}) /\ last <= Len(rows)
  BY MinOfTwo
<1>. PICK first \in Int : first = offset + 1
  OBVIOUS
<1>1. slice = SubSeq(rows, first, last) /\ last \in Int
  BY DEF Slice
<1>2. \A i \in first .. last : rows[i] \in S
  OBVIOUS
<1>3. /\ SubSeq(rows, first, last) \in Seq(S)
      /\ Len(SubSeq(rows, first, last)) = IF first <= last THEN last - first + 1 ELSE 0
      /\ \A i \in 1 .. last - first + 1 : SubSeq(rows, first, last)[i] = rows[first + i - 1]
  BY ONLY <1>1, <1>2, SubSeqProperties, first \in Int
<1>. HIDE DEF Slice
<1>4. PICK k \in Int : k = last - first + 1
  OBVIOUS
<1>5. /\ slice \in Seq(S) /\ Len(slice) = IF first <= last THEN k ELSE 0
      /\ \A i \in 1 .. k : slice[i] = rows[first + i - 1]
  BY <1>1, <1>3, <1>4
<1>6. \A n \in 1 .. Len(slice) : n \in 1 .. k /\ offset + n \in 1 .. Len(rows) /\ first + n - 1 = offset + n
  BY <1>4, <1>5
<1>7. \A n \in 1 .. Len(slice) : offset + n \in 1 .. Len(rows) /\ slice[n] = rows[offset + n]
  BY <1>5, <1>6
<1>. QED
  BY <1>5, <1>7 DEF IsPart

LEMMA FirstSlice ==
  ASSUME NEW S, NEW rows \in Seq(S), NEW m \in Nat, m <= Len(rows), NEW slice, slice = Slice(rows, 0, m)
  PROVE  Len(slice) = m /\ slice \in Seq(S)
<1>. PICK n \in Nat : n = Len(rows) /\ m <= n
  OBVIOUS
<1>1. Min({m, n}) = m
  BY MinOfTwo
<1>2. 0 + m = m /\ 0 + 1 = 1
  OBVIOUS
<1>6. slice = SubSeq(rows, 1, m)
  BY <1>1, <1>2 DEF Slice
<1>3. \A i \in 1 .. m : rows[i] \in S
  OBVIOUS
<1>4. 1 \in Int /\ m \in Int
  OBVIOUS
<1>5. SubSeq(rows, 1, m) \in Seq(S) /\ Len(SubSeq(rows, 1, m)) = IF 1 <= m THEN m - 1 + 1 ELSE 0
  BY ONLY <1>3, <1>4, SubSeqProperties
<1>. QED
  BY <1>5, <1>6
-----------------------------------------------------------------------------
(* What a request holds, while no job has written since it was made: rows   *)
(* of the result from its offset on, and the counts it has read.  The rows  *)
(* on screen are the first of the result.                                   *)
ShelfCrns == UNION {DOMAIN c : c \in Catalogs}
Result(key) == Found(ToStoreQuery(key), TRUE)
List(key) == Ordered(Result(key), key, CHOOSE tie \in Ties : TRUE)
Hidden(key) == Found(ToStoreQuery(key), FALSE) \ Result(key)

PagePcs == {"counts", "hidden", "loaded", "suggest"}
IsPageOf(query) == \E key \in Searches, n \in Nat : query = [key EXCEPT !.offset = n]
AskOK(ask) ==
    /\ DOMAIN ask = DOMAIN NoAsk /\ ask.pc \in {"none", "page"} \cup PagePcs
    /\ ask.late \in BOOLEAN /\ ask.items \in Seq(ShelfCrns)
    /\ ask.pc = "none" => ask = NoAsk
    /\ ask.pc # "none" => IsPageOf(ask.query)
AskIsTrue(ask) ==
    LET key == Key(ask.query)
    IN  /\ ask.pc \in PagePcs =>
               \A n \in 1 .. Len(ask.items) : /\ ask.query.offset + n \in 1 .. Cardinality(Result(key))
                                              /\ NamesAreUnique => ask.items[n] = List(key)[ask.query.offset + n]
        /\ ask.pc \in PagePcs \ {"counts"} =>
               ask.total = Cardinality(Result(key)) /\ ask.courses = Cardinality(Courses(Result(key)))
        /\ ask.pc \in {"page", "counts"} => ask.hidden = 0
        /\ ask.pc \in {"loaded", "suggest"} => ask.hidden = Cardinality(Hidden(key))

LEMMA NoAskFields ==
    /\ DOMAIN NoAsk = {"pc", "query", "late", "items", "total", "courses", "hidden", "todo", "suggestions"}
    /\ NoAsk.pc = "none" /\ NoAsk.late = FALSE /\ NoAsk.items = <<>> /\ NoAsk.hidden = 0
BY DEF NoAsk

LEMMA KeyOfAsk ==
  ASSUME CatalogOK, NEW key \in Searches, NEW n \in Nat, NEW query, query = [key EXCEPT !.offset = n]
  PROVE  query \in Query /\ query.offset = n /\ Key(query) = key
<1>1. key \in Query /\ key.offset = 0
  BY DEF CatalogOK
<1>. QED
  BY <1>1, OffsetOnly DEF Key, Query

LEMMA SameShelf ==
  ASSUME shelf' = shelf, NEW key, NEW S
  PROVE  /\ Result(key)' = Result(key) /\ List(key)' = List(key) /\ Hidden(key)' = Hidden(key) /\ Courses(S)' = Courses(S)
         /\ NamesAreUnique' <=> NamesAreUnique
<1>1. Result(key)' = Result(key) /\ Hidden(key)' = Hidden(key)
  BY DEF Result, Hidden, Found
<1>2. Courses(S)' = Courses(S)
  BY DEF Courses
<1>3. NamesAreUnique' <=> NamesAreUnique
  BY DEF NamesAreUnique
<1>4. \A T, tie : Ordered(T, key, tie)' = Ordered(T, key, tie)
  BY DEF Ordered
<1>5. List(key)' = List(key)
  BY <1>1, <1>4 DEF List
<1>. QED
  BY <1>1, <1>2, <1>3, <1>5

FirstRows(rows, key) ==
    \A n \in 1 .. Len(rows) : n \in 1 .. Cardinality(Result(key)) /\ (NamesAreUnique => rows[n] = List(key)[n])

RowsAreTrue ==
    results.key # Unset /\ ~spoiled =>
        /\ FirstRows(results.rows, results.key)
        /\ results.total = Cardinality(Result(results.key))
        /\ results.courses = Cardinality(Courses(Result(results.key)))
        /\ results.hidden = Cardinality(Hidden(results.key))
        /\ results.more <=> Len(results.rows) < Cardinality(Result(results.key))
AsksOK == \A k \in {"first", "more"} : AskOK(asks[k]) /\ (~asks[k].late => AskIsTrue(asks[k]))
OffsetsOK == asks["first"].pc # "none" => asks["first"].query.offset = 0
SearchInv ==
    /\ shelf \in Catalogs /\ typed \in Searches /\ spoiled \in BOOLEAN
    /\ results.key \in Searches \cup {Unset} /\ results.rows \in Seq(ShelfCrns)
    /\ DOMAIN asks = {"first", "more"} /\ AsksOK
    /\ OffsetsOK /\ RowsAreTrue

LEMMA FreshAsk ==
  ASSUME NEW key \in Searches, NEW n \in Nat, CatalogOK, NEW ask, ask = Asked(key, n)
  PROVE  AskOK(ask) /\ AskIsTrue(ask) /\ ask.pc = "page" /\ ask.late = FALSE
         /\ ask.query.offset = n /\ Key(ask.query) = key
<1>. PICK query : query = [key EXCEPT !.offset = n]
  OBVIOUS
<1>1. ask = [NoAsk EXCEPT !.pc = "page", !.query = query]
  BY DEF Asked
<1>2. /\ DOMAIN ask = DOMAIN NoAsk /\ ask.pc = "page" /\ ask.query = query
      /\ ask.late = FALSE /\ ask.items = <<>> /\ ask.hidden = 0
  BY <1>1, NoAskFields
<1>3. AskOK(ask)
  <2>1. ask.items \in Seq(ShelfCrns)
    BY <1>2
  <2>2. IsPageOf(ask.query)
    BY <1>2 DEF IsPageOf
  <2>. QED
    BY <1>2, <2>1, <2>2 DEF AskOK
<1>4. AskIsTrue(ask)
  BY <1>2 DEF AskIsTrue, PagePcs
<1>. QED
  BY <1>2, <1>3, <1>4, KeyOfAsk

LEMMA NoAskIsTrue == AskOK(NoAsk) /\ AskIsTrue(NoAsk)
<1>1. NoAsk.items \in Seq(ShelfCrns)
  BY NoAskFields
<1>2. AskOK(NoAsk)
  BY <1>1, NoAskFields DEF AskOK
<1>3. AskIsTrue(NoAsk)
  BY NoAskFields DEF AskIsTrue, PagePcs
<1>. QED
  BY <1>2, <1>3

LEMMA SearchStarts == ASSUME CatalogOK, SearchInit PROVE SearchInv
<1>. PICK ask : ask = Asked(typed, 0)
  OBVIOUS
<1>1. asks = [first |-> ask, more |-> NoAsk] /\ results = NoResults /\ spoiled = FALSE
      /\ shelf \in Catalogs /\ typed \in Searches
  BY DEF SearchInit
<1>2. asks["first"] = ask /\ asks["more"] = NoAsk /\ DOMAIN asks = {"first", "more"}
  BY <1>1
<1>3. results.key = Unset /\ results.rows = <<>>
  BY <1>1 DEF NoResults
<1>4. AskOK(ask) /\ AskIsTrue(ask) /\ ask.query.offset = 0
  <2>. PICK zero \in Nat : zero = 0
    OBVIOUS
  <2>1. ask = Asked(typed, zero)
    OBVIOUS
  <2>. QED
    BY <1>1, <2>1, FreshAsk
<1>5. AsksOK
  BY <1>2, <1>4, NoAskIsTrue DEF AsksOK
<1>6. OffsetsOK
  BY <1>2, <1>4, NoAskFields DEF OffsetsOK
<1>7. RowsAreTrue
  BY <1>3 DEF RowsAreTrue
<1>8. results.rows \in Seq(ShelfCrns)
  BY <1>3
<1>. QED
  BY <1>1, <1>2, <1>3, <1>5, <1>6, <1>7, <1>8 DEF SearchInv

LEMMA SameRows ==
  ASSUME shelf' = shelf, RowsAreTrue, results' = results, spoiled' = spoiled
  PROVE  RowsAreTrue'
BY SameShelf DEF RowsAreTrue, FirstRows

LEMMA SameTruth ==
  ASSUME shelf' = shelf, NEW k, NEW x, x = asks'[k], AskIsTrue(x)
  PROVE  AskIsTrue(asks[k])'
BY SameShelf DEF AskIsTrue

LEMMA Replaced ==
  ASSUME SearchInv, shelf' = shelf, NEW k \in {"first", "more"}, NEW ask, asks' = [asks EXCEPT ![k] = ask],
         AskOK(ask), ~ask.late => AskIsTrue(ask)
  PROVE  /\ DOMAIN asks' = {"first", "more"} /\ asks'[k] = ask
         /\ \A j \in {"first", "more"} : j # k => asks'[j] = asks[j]
         /\ AsksOK'
<1>1. /\ DOMAIN asks' = {"first", "more"} /\ asks'[k] = ask
      /\ \A j \in {"first", "more"} : j # k => asks'[j] = asks[j]
  BY DEF SearchInv
<1>2. ASSUME NEW j \in {"first", "more"}
      PROVE  AskOK(asks'[j]) /\ (~asks'[j].late => AskIsTrue(asks[j])')
  <2>. PICK x : x = asks'[j]
    OBVIOUS
  <2>1. AskOK(x) /\ (~x.late => AskIsTrue(x))
    BY <1>1 DEF SearchInv, AsksOK
  <2>2. AskIsTrue(x) => AskIsTrue(asks[j])'
    BY SameTruth
  <2>. QED
    BY <2>1, <2>2
<1>. QED
  BY <1>1, <1>2 DEF AsksOK

\* A statement of a request leaves its query alone.
LEMMA ServeKeeps ==
  ASSUME CatalogOK, SearchInv, NEW k \in {"first", "more"}, NEW answer, Serve(k, answer),
         asks[k].pc # "none", answer.pc # "none", AskOK(answer),
         answer.late = asks[k].late, answer.query = asks[k].query,
         ~answer.late => AskIsTrue(answer)
  PROVE  SearchInv'
<1>1. /\ asks' = [asks EXCEPT ![k] = answer] /\ shelf' = shelf
      /\ typed' = typed /\ results' = results /\ spoiled' = spoiled
  BY DEF Serve, screen
<1>2. /\ DOMAIN asks' = {"first", "more"} /\ asks'[k] = answer
      /\ \A j \in {"first", "more"} : j # k => asks'[j] = asks[j]
      /\ AsksOK'
  BY <1>1, Replaced
<1>3. OffsetsOK'
  BY <1>1, <1>2 DEF SearchInv, OffsetsOK
<1>4. RowsAreTrue'
  BY <1>1, SameRows DEF SearchInv
<1>. QED
  BY <1>1, <1>2, <1>3, <1>4 DEF SearchInv

LEMMA ResultIsListed ==
  ASSUME CatalogOK, shelf \in Catalogs, NEW key \in Query
  PROVE  /\ IsFiniteSet(Result(key)) /\ Cardinality(Result(key)) \in Nat
         /\ \A tie \in Ties : LET rows == Ordered(Result(key), key, tie)
                             IN  rows \in Seq(ShelfCrns) /\ Len(rows) = Cardinality(Result(key))
         /\ List(key) \in Seq(ShelfCrns) /\ Len(List(key)) = Cardinality(Result(key))
         /\ IsFiniteSet(Found(ToStoreQuery(key), FALSE))
<1>. PICK S : S = Result(key)
  OBVIOUS
<1>1. S \in SUBSET DOMAIN shelf
  BY DEF Result, Found
<1>2. DOMAIN shelf \in SUBSET ShelfCrns
  BY DEF ShelfCrns
<1>3. ASSUME NEW tie \in Ties
      PROVE  Ordered(S, key, tie) \in Seq(ShelfCrns) /\ Len(Ordered(S, key, tie)) = Cardinality(S)
  <2>. PICK rows : rows = Ordered(S, key, tie)
    OBVIOUS
  <2>1. Cardinality(S) \in Nat /\ rows \in [1 .. Cardinality(S) -> S]
    BY <1>1, OrderedIsSorted
  <2>. PICK n \in Nat : n = Cardinality(S)
    BY <2>1
  <2>2. rows \in [1 .. n -> ShelfCrns]
    BY <1>1, <1>2, <2>1
  <2>. QED
    BY <2>2
<1>4. \E tie \in Ties : List(key) = Ordered(S, key, tie)
  BY DEF List, CatalogOK
<1>5. IsFiniteSet(S) /\ Cardinality(S) \in Nat
  BY <1>1, <1>4, OrderedIsSorted
<1>6. IsFiniteSet(Found(ToStoreQuery(key), FALSE))
  <2>1. Found(ToStoreQuery(key), FALSE) \in SUBSET DOMAIN shelf
    BY DEF Found
  <2>. QED
    BY <2>1, FS_Subset DEF CatalogOK
<1>7. List(key) \in Seq(ShelfCrns) /\ Len(List(key)) = Cardinality(S)
  BY <1>3, <1>4
<1>. QED
  BY <1>3, <1>5, <1>6, <1>7

LEMMA AskQuery ==
  ASSUME CatalogOK, NEW ask, AskOK(ask), ask.pc # "none"
  PROVE  /\ ask.query \in Query /\ Key(ask.query) \in Searches /\ Key(ask.query) \in Query
         /\ ask.query.offset \in Nat /\ IsPageOf(ask.query)
<1>. PICK key \in Searches, n \in Nat : ask.query = [key EXCEPT !.offset = n]
  BY DEF AskOK, IsPageOf
<1>1. ask.query \in Query /\ ask.query.offset = n /\ Key(ask.query) = key
  BY KeyOfAsk
<1>. QED
  BY <1>1 DEF CatalogOK, AskOK

LEMMA SelectPageKeeps ==
  ASSUME CatalogOK, SearchInv, NEW k \in {"first", "more"}, SelectPage(k)
  PROVE  SearchInv'
<1>. PICK ask, q : ask = asks[k] /\ q = ToStoreQuery(ask.query)
  OBVIOUS
<1>0. PICK tie \in Ties :
        ask.pc = "page" /\ Serve(k, [ask EXCEPT !.pc = "counts", !.items = Slice(Ordered(Found(q, TRUE), q, tie), q.offset, q.limit)])
  BY DEF SelectPage
<1>. PICK rows, items : rows = Ordered(Found(q, TRUE), q, tie) /\ items = Slice(rows, q.offset, q.limit)
  OBVIOUS
<1>. PICK answer : answer = [ask EXCEPT !.pc = "counts", !.items = items]
  OBVIOUS
<1>. PICK key : key = Key(ask.query)
  OBVIOUS
<1>1. ask.pc = "page" /\ Serve(k, answer)
  BY <1>0
<1>2. AskOK(ask) /\ (~ask.late => AskIsTrue(ask)) /\ shelf \in Catalogs
  BY DEF SearchInv, AsksOK
<1>3. /\ ask.query \in Query /\ key \in Query /\ ask.query.offset \in Nat
      /\ IsPageOf(ask.query)
  BY <1>1, <1>2, AskQuery
<1>4. q.offset = ask.query.offset /\ q.limit \in Nat
  <2>1. q \in Query /\ q.offset = ask.query.offset
    BY <1>3, StoreQuery
  <2>. QED
    BY <2>1 DEF Query
<1>5. rows = Ordered(Result(key), key, tie)
  <2>1. Found(q, TRUE) = Found(ToStoreQuery(key), TRUE)
    BY <1>3, SameSearch
  <2>2. key.sort = q.sort /\ key.q = q.q
    BY <1>3, StoreQuery, OffsetOnly DEF Key
  <2>3. rows = Ordered(Found(q, TRUE), q, tie)
    OBVIOUS
  <2>4. Ordered(Found(q, TRUE), q, tie) = Ordered(Found(q, TRUE), key, tie)
    BY ONLY <2>2 DEF Ordered, SortKey, SortedBy
  <2>. QED
    BY ONLY <2>1, <2>3, <2>4 DEF Result
<1>6. /\ rows \in Seq(ShelfCrns) /\ Len(rows) = Cardinality(Result(key))
      /\ NamesAreUnique => rows = List(key)
  <2>1. Result(key) \in SUBSET DOMAIN shelf
    BY DEF Result, Found
  <2>2. (CHOOSE t \in Ties : TRUE) \in Ties
    OBVIOUS
  <2>3. NamesAreUnique => rows = List(key)
    BY <1>2, <1>3, <1>5, <2>1, <2>2, TiesMatterNot DEF List
  <2>. QED
    BY <1>2, <1>3, <1>5, <2>3, ResultIsListed
<1>7. /\ items \in Seq(ShelfCrns)
      /\ \A n \in 1 .. Len(items) : /\ ask.query.offset + n \in 1 .. Cardinality(Result(key))
                                    /\ NamesAreUnique => items[n] = List(key)[ask.query.offset + n]
  <2>. PICK first, limit : first = ask.query.offset /\ limit = q.limit
    OBVIOUS
  <2>1. rows \in Seq(ShelfCrns) /\ first \in Nat /\ limit \in Nat /\ items = Slice(rows, first, limit)
    BY <1>3, <1>4, <1>6
  <2>2. items \in Seq(ShelfCrns) /\ IsPart(items, rows, first)
    BY ONLY <2>1, SliceOf
  <2>3. \A n \in 1 .. Len(items) : first + n \in 1 .. Cardinality(Result(key)) /\ items[n] = rows[first + n]
    BY <1>6, <2>2 DEF IsPart
  <2>4. NamesAreUnique => \A n \in 1 .. Len(items) : items[n] = List(key)[first + n]
    BY ONLY <1>6, <2>3
  <2>5. first = ask.query.offset
    OBVIOUS
  <2>. QED
    BY ONLY <2>2, <2>3, <2>4, <2>5
<1>8. /\ DOMAIN answer = DOMAIN NoAsk /\ answer.pc = "counts" /\ answer.items = items
      /\ answer.query = ask.query /\ answer.late = ask.late /\ answer.hidden = ask.hidden
  BY <1>2, NoAskFields DEF AskOK
<1>9. AskOK(answer)
  BY <1>2, <1>3, <1>7, <1>8 DEF AskOK, PagePcs
<1>10. ~answer.late => AskIsTrue(answer)
  <2>1. ask.late = FALSE => answer.hidden = 0
    BY <1>1, <1>2, <1>8 DEF AskIsTrue
  <2>2. Key(answer.query) = key /\ answer.pc = "counts" /\ answer.items = items /\ answer.query = ask.query
    BY <1>8
  <2>3. ask.late \in BOOLEAN /\ answer.late = ask.late
    BY <1>2, <1>8 DEF AskOK
  <2>. QED
    BY ONLY <1>7, <2>1, <2>2, <2>3 DEF AskIsTrue, PagePcs
<1>11. /\ asks[k].pc # "none" /\ answer.pc # "none"
       /\ answer.late = asks[k].late /\ answer.query = asks[k].query
  BY <1>1, <1>8
<1>. QED
  BY <1>1, <1>9, <1>10, <1>11, ServeKeeps

LEMMA SearchCountsKeeps ==
  ASSUME CatalogOK, SearchInv, NEW k \in {"first", "more"}, SearchCounts(k)
  PROVE  SearchInv'
<1>. PICK ask, found : ask = asks[k] /\ found = Found(ToStoreQuery(ask.query), TRUE)
  OBVIOUS
<1>. PICK pc, total, courses : /\ pc = IF ask.query.scheduledOnly THEN "hidden" ELSE "loaded"
                               /\ total = Cardinality(found) /\ courses = Cardinality(Courses(found))
  OBVIOUS
<1>. PICK answer : answer = [ask EXCEPT !.pc = pc, !.total = total, !.courses = courses]
  OBVIOUS
<1>. PICK key : key = Key(ask.query)
  OBVIOUS
<1>1. ask.pc = "counts" /\ Serve(k, answer)
  BY DEF SearchCounts
<1>2. AskOK(ask) /\ (~ask.late => AskIsTrue(ask)) /\ shelf \in Catalogs
  BY DEF SearchInv, AsksOK
<1>3. /\ ask.query \in Query /\ key \in Query
      /\ IsPageOf(ask.query)
  BY <1>1, <1>2, AskQuery
<1>4. found = Result(key) /\ Found(ToStoreQuery(ask.query), FALSE) = Found(ToStoreQuery(key), FALSE)
  BY <1>3, SameSearch DEF Result
<1>5. /\ DOMAIN answer = DOMAIN NoAsk /\ answer.pc = pc /\ answer.items = ask.items
      /\ answer.query = ask.query /\ answer.late = ask.late /\ answer.hidden = ask.hidden
      /\ answer.total = total /\ answer.courses = courses
  BY <1>2, NoAskFields DEF AskOK
<1>6. AskOK(answer)
  BY <1>1, <1>2, <1>3, <1>5 DEF AskOK, PagePcs
<1>7. pc = "loaded" => Cardinality(Hidden(key)) = 0
  <2>1. SUFFICES ASSUME ~ask.query.scheduledOnly PROVE Cardinality(Hidden(key)) = 0
    OBVIOUS
  <2>. PICK q : q = ToStoreQuery(ask.query)
    OBVIOUS
  <2>2. q.scheduledOnly = FALSE
    <3>1. q.scheduledOnly = ask.query.scheduledOnly /\ ask.query.scheduledOnly \in BOOLEAN
      BY <1>3, StoreQuery DEF Query
    <3>. QED
      BY <2>1, <3>1
  <2>3. Found(q, TRUE) = Found(q, FALSE)
    BY <2>2 DEF Found, Matches
  <2>4. Hidden(key) = {}
    BY <1>4, <2>3 DEF Hidden
  <2>. QED
    BY <2>4, FS_EmptySet
<1>8. ~answer.late => AskIsTrue(answer)
  <2>1. SUFFICES ASSUME AskIsTrue(ask) PROVE AskIsTrue(answer)
    BY <1>2, <1>5
  <2>2. answer.pc \in {"hidden", "loaded"} /\ Key(answer.query) = key
    BY <1>5
  <2>3. \A n \in 1 .. Len(ask.items) : /\ ask.query.offset + n \in 1 .. Cardinality(Result(key))
                                       /\ NamesAreUnique => ask.items[n] = List(key)[ask.query.offset + n]
    BY <1>1, <2>1 DEF AskIsTrue, PagePcs
  <2>4. answer.total = Cardinality(Result(key)) /\ answer.courses = Cardinality(Courses(Result(key)))
    BY <1>4, <1>5
  <2>5. answer.pc = "loaded" => answer.hidden = Cardinality(Hidden(key))
    BY <1>1, <1>5, <1>7, <2>1 DEF AskIsTrue
  <2>. QED
    BY <1>5, <2>2, <2>3, <2>4, <2>5 DEF AskIsTrue
<1>9. answer.pc # "none"
  BY <1>5
<1>10. asks[k].pc # "none" /\ answer.late = asks[k].late /\ answer.query = asks[k].query
  BY <1>1, <1>5
<1>. QED
  BY <1>1, <1>6, <1>8, <1>9, <1>10, ServeKeeps

LEMMA MaxLess ==
  ASSUME NEW a \in Nat, NEW b \in Nat, b <= a, NEW h, h = Max({a - b, 0})
  PROVE  h = a - b
<1>. PICK d \in Nat : d = a - b
  OBVIOUS
<1>1. Max({d, 0}) = d
  BY MaxOfTwo
<1>. QED
  BY <1>1

LEMMA CountHiddenKeeps ==
  ASSUME CatalogOK, SearchInv, NEW k \in {"first", "more"}, CountHidden(k)
  PROVE  SearchInv'
<1>. PICK ask, all : ask = asks[k] /\ all = Found(ToStoreQuery(ask.query), FALSE)
  OBVIOUS
<1>. PICK hidden : hidden = Max({Cardinality(all) - ask.total, 0})
  OBVIOUS
<1>. PICK answer : answer = [ask EXCEPT !.pc = "loaded", !.hidden = hidden]
  OBVIOUS
<1>. PICK key : key = Key(ask.query)
  OBVIOUS
<1>1. ask.pc = "hidden" /\ Serve(k, answer)
  BY DEF CountHidden
<1>2. AskOK(ask) /\ (~ask.late => AskIsTrue(ask)) /\ shelf \in Catalogs
  BY DEF SearchInv, AsksOK
<1>3. /\ ask.query \in Query /\ key \in Query
      /\ IsPageOf(ask.query)
  BY <1>1, <1>2, AskQuery
<1>4. all = Found(ToStoreQuery(key), FALSE)
  BY <1>3, SameSearch
<1>5. /\ DOMAIN answer = DOMAIN NoAsk /\ answer.pc = "loaded" /\ answer.items = ask.items
      /\ answer.query = ask.query /\ answer.late = ask.late /\ answer.hidden = hidden
      /\ answer.total = ask.total /\ answer.courses = ask.courses
  BY <1>2, NoAskFields DEF AskOK
<1>6. AskOK(answer)
  BY <1>1, <1>2, <1>3, <1>5 DEF AskOK, PagePcs
<1>7. ~ask.late => hidden = Cardinality(Hidden(key))
  <2>1. SUFFICES ASSUME ask.total = Cardinality(Result(key)) PROVE hidden = Cardinality(Hidden(key))
    BY <1>1, <1>2 DEF AskIsTrue, PagePcs
  <2>2. Result(key) \subseteq all
    BY <1>4 DEF Result, Found, Matches
  <2>3. IsFiniteSet(all) /\ Cardinality(Result(key)) \in Nat
    BY <1>2, <1>3, <1>4, ResultIsListed
  <2>4. Cardinality(Hidden(key)) = Cardinality(all) - Cardinality(Result(key))
    <3>1. all \cap Result(key) = Result(key)
      BY <2>2
    <3>2. Cardinality(all \ Result(key)) = Cardinality(all) - Cardinality(all \cap Result(key))
      BY <2>3, FS_Difference
    <3>. QED
      BY <1>4, <3>1, <3>2 DEF Hidden
  <2>5. Cardinality(Result(key)) <= Cardinality(all) /\ Cardinality(all) \in Nat
    BY <2>2, <2>3, FS_Subset, FS_CardinalityType
  <2>6. PICK a \in Nat, b \in Nat : a = Cardinality(all) /\ b = ask.total /\ b <= a
    BY <2>1, <2>3, <2>5
  <2>7. hidden = a - b
    BY <2>6, MaxLess
  <2>. QED
    BY <2>1, <2>4, <2>6, <2>7
<1>8. ~answer.late => AskIsTrue(answer)
  BY <1>1, <1>2, <1>5, <1>7 DEF AskIsTrue, PagePcs
<1>. QED
  BY <1>1, <1>5, <1>6, <1>8, ServeKeeps

LEMMA LoadedKeeps ==
  ASSUME CatalogOK, SearchInv, NEW k \in {"first", "more"}, Loaded(k)
  PROVE  SearchInv'
<1>. PICK ask, todo : ask = asks[k] /\ todo = IF ask.total = 0 /\ ask.query.offset = 0
                                              THEN DropFilters(ask.query) ELSE <<>>
  OBVIOUS
<1>. PICK answer : answer = [ask EXCEPT !.pc = "suggest", !.todo = todo]
  OBVIOUS
<1>1. ask.pc = "loaded" /\ Serve(k, answer)
  BY DEF Loaded
<1>2. AskOK(ask) /\ (~ask.late => AskIsTrue(ask))
  BY DEF SearchInv, AsksOK
<1>3. /\ DOMAIN answer = DOMAIN NoAsk /\ answer.pc = "suggest" /\ answer.items = ask.items
      /\ answer.query = ask.query /\ answer.late = ask.late /\ answer.hidden = ask.hidden
      /\ answer.total = ask.total /\ answer.courses = ask.courses
  BY <1>2, NoAskFields DEF AskOK
<1>4. AskOK(answer)
  BY <1>1, <1>2, <1>3 DEF AskOK, PagePcs
<1>5. ~answer.late => AskIsTrue(answer)
  BY <1>1, <1>2, <1>3 DEF AskIsTrue, PagePcs
<1>. QED
  BY <1>1, <1>3, <1>4, <1>5, ServeKeeps

LEMMA SuggestKeeps ==
  ASSUME CatalogOK, SearchInv, NEW k \in {"first", "more"}, Suggest(k)
  PROVE  SearchInv'
<1>. PICK ask, todo, suggestions, answer :
         /\ ask = asks[k] /\ answer = [ask EXCEPT !.todo = todo, !.suggestions = suggestions]
         /\ ask.pc = "suggest" /\ Serve(k, answer)
  BY DEF Suggest
<1>1. AskOK(ask) /\ (~ask.late => AskIsTrue(ask))
  BY DEF SearchInv, AsksOK
<1>2. /\ DOMAIN answer = DOMAIN NoAsk /\ answer.pc = "suggest" /\ answer.items = ask.items
      /\ answer.query = ask.query /\ answer.late = ask.late /\ answer.hidden = ask.hidden
      /\ answer.total = ask.total /\ answer.courses = ask.courses
  BY <1>1, NoAskFields DEF AskOK
<1>3. AskOK(answer)
  BY <1>1, <1>2 DEF AskOK, PagePcs
<1>4. ~answer.late => AskIsTrue(answer)
  BY <1>1, <1>2 DEF AskIsTrue, PagePcs
<1>. QED
  BY <1>2, <1>3, <1>4, ServeKeeps

LEMMA SearchFailsKeeps ==
  ASSUME CatalogOK, SearchInv, NEW k \in {"first", "more"}, SearchFails(k)
  PROVE  SearchInv'
<1>1. /\ asks' = [asks EXCEPT ![k] = NoAsk] /\ shelf' = shelf
      /\ typed' = typed /\ results' = results /\ spoiled' = spoiled
  BY DEF SearchFails, screen
<1>2. /\ DOMAIN asks' = {"first", "more"} /\ asks'[k] = NoAsk
      /\ \A j \in {"first", "more"} : j # k => asks'[j] = asks[j]
      /\ AsksOK'
  BY <1>1, NoAskIsTrue, Replaced
<1>3. OffsetsOK'
  BY <1>1, <1>2, NoAskFields DEF SearchInv, OffsetsOK
<1>4. RowsAreTrue'
  BY <1>1, SameRows DEF SearchInv
<1>. QED
  BY <1>1, <1>2, <1>3, <1>4 DEF SearchInv

LEMMA TypeKeeps ==
  ASSUME CatalogOK, SearchInv, NEW query \in Searches, Type(query)
  PROVE  SearchInv'
<1>. PICK ask : ask = Asked(query, 0)
  OBVIOUS
<1>1. /\ asks' = [asks EXCEPT !["first"] = ask] /\ shelf' = shelf
      /\ typed' = query /\ results' = results /\ spoiled' = spoiled
  BY DEF Type
<1>2. AskOK(ask) /\ AskIsTrue(ask) /\ ask.query.offset = 0
  <2>. PICK zero \in Nat : zero = 0
    OBVIOUS
  <2>1. ask = Asked(query, zero)
    OBVIOUS
  <2>. QED
    BY <2>1, FreshAsk
<1>3. /\ DOMAIN asks' = {"first", "more"} /\ asks'["first"] = ask /\ asks'["more"] = asks["more"] /\ AsksOK'
  BY <1>1, <1>2, Replaced
<1>4. OffsetsOK'
  BY <1>1, <1>2, <1>3 DEF SearchInv, OffsetsOK
<1>5. RowsAreTrue'
  BY <1>1, SameRows DEF SearchInv
<1>. QED
  BY <1>1, <1>3, <1>4, <1>5 DEF SearchInv

LEMMA LoadMoreKeeps ==
  ASSUME CatalogOK, SearchInv, LoadMore
  PROVE  SearchInv'
<1>. PICK n \in Nat : n = Len(results.rows)
  BY DEF SearchInv
<1>. PICK ask : ask = Asked(typed, n)
  OBVIOUS
<1>1. /\ asks' = [asks EXCEPT !["more"] = ask] /\ shelf' = shelf
      /\ typed' = typed /\ results' = results /\ spoiled' = spoiled
  BY DEF LoadMore, screen
<1>2. AskOK(ask) /\ AskIsTrue(ask) /\ ask.query.offset = n
  <2>. PICK key \in Searches : key = typed
    BY DEF SearchInv
  <2>1. ask = Asked(key, n)
    OBVIOUS
  <2>. QED
    BY <2>1, FreshAsk
<1>3. /\ DOMAIN asks' = {"first", "more"} /\ asks'["more"] = ask /\ asks'["first"] = asks["first"] /\ AsksOK'
  BY <1>1, <1>2, Replaced
<1>4. OffsetsOK'
  BY <1>1, <1>2, <1>3 DEF SearchInv, OffsetsOK
<1>5. RowsAreTrue'
  BY <1>1, SameRows DEF SearchInv
<1>. QED
  BY <1>1, <1>3, <1>4, <1>5 DEF SearchInv

\* A request that a job's writing overtook stays a request.
LEMMA OvertakenAsk ==
  ASSUME NEW ask, AskOK(ask), NEW new, new = Overtaken(ask)
  PROVE  /\ AskOK(new) /\ new.pc = ask.pc /\ new.query = ask.query
         /\ ~new.late => new = NoAsk
<1>1. CASE ask = NoAsk
  BY <1>1 DEF Overtaken
<1>2. CASE ask # NoAsk
  <2>1. new = [ask EXCEPT !.late = TRUE]
    BY <1>2 DEF Overtaken
  <2>2. /\ DOMAIN new = DOMAIN NoAsk /\ new.pc = ask.pc /\ new.items = ask.items
        /\ new.query = ask.query /\ new.late = TRUE
    BY <2>1, NoAskFields DEF AskOK
  <2>3. ask.pc # "none"
    BY <1>2 DEF AskOK
  <2>4. AskOK(new)
    BY <2>2, <2>3 DEF AskOK
  <2>. QED
    BY <2>2, <2>4
<1>. QED
  BY <1>1, <1>2

LEMMA JobWritesKeeps ==
  ASSUME CatalogOK, SearchInv, JobWrites
  PROVE  SearchInv'
<1>1. /\ shelf' \in Catalogs /\ spoiled' = TRUE /\ typed' = typed /\ results' = results
      /\ asks' = [k \in DOMAIN asks |-> Overtaken(asks[k])]
  BY DEF JobWrites
<1>2. DOMAIN asks' = {"first", "more"}
  BY <1>1 DEF SearchInv
<1>3. ASSUME NEW k \in {"first", "more"}
      PROVE  /\ AskOK(asks'[k]) /\ asks'[k].query = asks[k].query
             /\ asks'[k].pc = asks[k].pc
             /\ ~asks'[k].late => asks'[k] = NoAsk
  <2>. PICK ask, new : ask = asks[k] /\ new = Overtaken(ask)
    OBVIOUS
  <2>1. asks'[k] = new
    BY <1>1 DEF SearchInv
  <2>2. AskOK(ask)
    BY DEF SearchInv, AsksOK
  <2>. QED
    BY <2>1, <2>2, OvertakenAsk
<1>4. AsksOK'
  <2>1. SUFFICES ASSUME NEW k \in {"first", "more"}
                 PROVE  AskOK(asks'[k]) /\ (~asks'[k].late => AskIsTrue(asks[k])')
    BY DEF AsksOK
  <2>2. asks'[k].pc = "none" => AskIsTrue(asks[k])'
    BY DEF AskIsTrue, PagePcs
  <2>. QED
    BY <1>3, <2>2, NoAskFields
<1>5. OffsetsOK'
  BY <1>1, <1>3, NoAskFields DEF SearchInv, OffsetsOK
<1>6. RowsAreTrue'
  BY <1>1 DEF RowsAreTrue
<1>. QED
  BY <1>1, <1>2, <1>4, <1>5, <1>6 DEF SearchInv

\* What the answer to a whole request puts on screen.
LEMMA ShownRows ==
  ASSUME CatalogOK, shelf \in Catalogs, NEW ask, AskOK(ask), ask.pc = "suggest",
         NEW rows \in Seq(ShelfCrns), NEW late \in BOOLEAN,
         ~late => AskIsTrue(ask) /\ ask.query.offset = Len(rows) /\ FirstRows(rows, Key(ask.query)),
         shelf' = shelf, results' = Shown(ask, rows \o ask.items), spoiled' = late
  PROVE  results'.key = Key(ask.query) /\ results'.rows \in Seq(ShelfCrns) /\ RowsAreTrue'
<1>. PICK key, items, new : key = Key(ask.query) /\ items = ask.items /\ new = rows \o items
  OBVIOUS
<1>1. /\ results'.key = key /\ results'.rows = new /\ results'.total = ask.total
      /\ results'.courses = ask.courses /\ results'.hidden = ask.hidden /\ results'.more = HasMore(ask)
  BY DEF Shown
<1>2. /\ new \in Seq(ShelfCrns) /\ Len(new) = Len(rows) + Len(items)
      /\ \A n \in 1 .. Len(rows) + Len(items) : new[n] = IF n <= Len(rows) THEN rows[n] ELSE items[n - Len(rows)]
  <2>1. items \in Seq(ShelfCrns)
    BY DEF AskOK
  <2>. QED
    BY <2>1, ConcatProperties
<1>3. ASSUME ~late
      PROVE  /\ \A n \in 1 .. Len(new) : n \in 1 .. Cardinality(Result(key)) /\ (NamesAreUnique => new[n] = List(key)[n])
             /\ ask.total = Cardinality(Result(key)) /\ ask.courses = Cardinality(Courses(Result(key)))
             /\ ask.hidden = Cardinality(Hidden(key))
             /\ HasMore(ask) <=> Len(new) < Cardinality(Result(key))
  <2>. PICK m \in Nat : m = Len(rows)
    OBVIOUS
  <2>1. /\ \A n \in 1 .. Len(items) : m + n \in 1 .. Cardinality(Result(key)) /\ (NamesAreUnique => items[n] = List(key)[m + n])
        /\ ask.total = Cardinality(Result(key)) /\ ask.courses = Cardinality(Courses(Result(key)))
        /\ ask.hidden = Cardinality(Hidden(key))
    BY <1>3 DEF AskIsTrue, PagePcs
  <2>2. \A n \in 1 .. m : n \in 1 .. Cardinality(Result(key)) /\ (NamesAreUnique => rows[n] = List(key)[n])
    BY <1>3 DEF FirstRows
  <2>3. ASSUME NEW n \in 1 .. Len(new) PROVE n \in 1 .. Cardinality(Result(key)) /\ (NamesAreUnique => new[n] = List(key)[n])
    <3>1. CASE n <= m
      BY <1>2, <2>2, <3>1
    <3>2. CASE n > m
      <4>. PICK i \in 1 .. Len(items) : m + i = n /\ n - m = i
        <5>1. Len(items) \in Nat
          BY DEF AskOK
        <5>2. n - m \in 1 .. Len(items)
          BY <1>2, <3>2, <5>1
        <5>. QED
          BY <5>2
      <4>1. new[n] = items[i]
        BY <1>2, <3>2
      <4>. QED
        BY <2>1, <4>1
    <3>. QED
      BY <3>1, <3>2
  <2>4. HasMore(ask) <=> Len(new) < Cardinality(Result(key))
    <3>1. ask.query.offset = m /\ Len(new) = m + Len(items)
      BY <1>2, <1>3
    <3>. QED
      BY <2>1, <3>1 DEF HasMore
  <2>. QED
    BY <2>1, <2>3, <2>4
<1>4. RowsAreTrue'
  <2>1. SUFFICES ASSUME ~late
                 PROVE  /\ \A n \in 1 .. Len(new) : n \in 1 .. Cardinality(Result(key)') /\ (NamesAreUnique' => new[n] = List(key)'[n])
                        /\ ask.total = Cardinality(Result(key)')
                        /\ ask.courses = Cardinality(Courses(Result(key))')
                        /\ ask.hidden = Cardinality(Hidden(key)')
                        /\ HasMore(ask) <=> Len(new) < Cardinality(Result(key)')
    BY <1>1 DEF RowsAreTrue, FirstRows
  <2>2. /\ Result(key)' = Result(key) /\ List(key)' = List(key) /\ Hidden(key)' = Hidden(key)
        /\ Courses(Result(key))' = Courses(Result(key)) /\ (NamesAreUnique' <=> NamesAreUnique)
    BY SameShelf
  <2>. QED
    BY <1>3, <2>1, <2>2
<1>. QED
  BY <1>1, <1>2, <1>4

LEMMA AnswerFirstKeeps ==
  ASSUME CatalogOK, SearchInv, AnswerFirst
  PROVE  SearchInv'
<1>. PICK ask : ask = asks["first"]
  OBVIOUS
<1>1. /\ ask.pc = "suggest" /\ results' = Shown(ask, ask.items) /\ spoiled' = ask.late
      /\ asks' = [asks EXCEPT !["first"] = NoAsk] /\ shelf' = shelf /\ typed' = typed
  BY DEF AnswerFirst, Ready
<1>2. DOMAIN asks' = {"first", "more"} /\ asks'["first"] = NoAsk /\ AsksOK'
  BY <1>1, NoAskIsTrue, Replaced
<1>3. AskOK(ask) /\ (~ask.late => AskIsTrue(ask)) /\ ask.query.offset = 0 /\ ask.late \in BOOLEAN
  BY <1>1 DEF SearchInv, AsksOK, OffsetsOK, AskOK
<1>6. results'.key = Key(ask.query) /\ results'.rows \in Seq(ShelfCrns) /\ RowsAreTrue'
  <2>. PICK none : none = <<>>
    OBVIOUS
  <2>1. none \in Seq(ShelfCrns) /\ Len(none) = 0 /\ FirstRows(none, Key(ask.query))
    BY DEF FirstRows
  <2>2. none \o ask.items = ask.items
    BY <1>3, ConcatEmptySeq DEF AskOK
  <2>3. results' = Shown(ask, none \o ask.items)
    BY <1>1, <2>2
  <2>4. shelf \in Catalogs
    BY DEF SearchInv
  <2>. QED
    BY <1>1, <1>3, <2>1, <2>3, <2>4, ShownRows
<1>7. OffsetsOK'
  BY <1>2, NoAskFields DEF OffsetsOK
<1>8. Key(ask.query) \in Searches
  BY <1>1, <1>3, AskQuery
<1>. QED
  BY <1>1, <1>2, <1>3, <1>6, <1>7, <1>8 DEF SearchInv

LEMMA AnswerMoreKeeps ==
  ASSUME CatalogOK, SearchInv, AnswerMore
  PROVE  SearchInv'
<1>. PICK ask : ask = asks["more"]
  OBVIOUS
<1>1. /\ ask.pc = "suggest" /\ asks' = [asks EXCEPT !["more"] = NoAsk] /\ shelf' = shelf /\ typed' = typed
  BY DEF AnswerMore, Ready
<1>2. AskOK(ask) /\ (~ask.late => AskIsTrue(ask)) /\ ask.late \in BOOLEAN
  BY DEF SearchInv, AsksOK, AskOK
<1>3. /\ DOMAIN asks' = {"first", "more"} /\ asks'["more"] = NoAsk /\ asks'["first"] = asks["first"]
      /\ AsksOK'
  BY <1>1, NoAskIsTrue, Replaced
<1>4. OffsetsOK'
  BY <1>3, NoAskFields DEF SearchInv, OffsetsOK
<1>5. CASE results.key # Key(ask.query)
  <2>1. results' = results /\ spoiled' = spoiled
    BY <1>5 DEF AnswerMore
  <2>2. RowsAreTrue'
    BY <1>1, <2>1, SameRows DEF SearchInv
  <2>. QED
    BY <1>1, <1>3, <1>4, <2>1, <2>2 DEF SearchInv
<1>6. CASE results.key = Key(ask.query)
  <2>. PICK rows \in Seq(ShelfCrns), late \in BOOLEAN :
        rows = results.rows /\ late = (spoiled \/ ask.late \/ ask.query.offset # Len(rows))
    BY <1>2 DEF SearchInv
  <2>1. results' = Shown(ask, rows \o ask.items) /\ spoiled' = late
    BY <1>6 DEF AnswerMore, Appended
  <2>2. ~late => AskIsTrue(ask) /\ ask.query.offset = Len(rows) /\ FirstRows(rows, Key(ask.query))
    <3>1. results.key # Unset
      BY <1>1, <1>2, <1>6, AskQuery DEF CatalogOK
    <3>. QED
      BY <1>1, <1>2, <1>6, <3>1 DEF SearchInv, RowsAreTrue, FirstRows
  <2>3. results'.key = Key(ask.query) /\ results'.rows \in Seq(ShelfCrns) /\ RowsAreTrue'
    <3>1. shelf \in Catalogs
      BY DEF SearchInv
    <3>. QED
      BY <1>1, <1>2, <2>1, <2>2, <3>1, ShownRows
  <2>. QED
    BY <1>1, <1>3, <1>4, <1>6, <2>1, <2>3 DEF SearchInv
<1>. QED
  BY <1>5, <1>6

LEMMA SearchStepKeeps == ASSUME CatalogOK, SearchInv, SearchStep PROVE SearchInv'
<1>1. DOMAIN asks = {"first", "more"}
  BY DEF SearchInv
<1>2. ASSUME NEW k \in {"first", "more"}, SelectPage(k) PROVE SearchInv'
  BY <1>2, SelectPageKeeps
<1>3. ASSUME NEW k \in {"first", "more"}, SearchCounts(k) PROVE SearchInv'
  BY <1>3, SearchCountsKeeps
<1>4. ASSUME NEW k \in {"first", "more"}, CountHidden(k) PROVE SearchInv'
  BY <1>4, CountHiddenKeeps
<1>5. ASSUME NEW k \in {"first", "more"}, Loaded(k) PROVE SearchInv'
  BY <1>5, LoadedKeeps
<1>6. ASSUME NEW k \in {"first", "more"}, Suggest(k) PROVE SearchInv'
  BY <1>6, SuggestKeeps
<1>7. ASSUME NEW k \in {"first", "more"}, SearchFails(k) PROVE SearchInv'
  BY <1>7, SearchFailsKeeps
<1>8. ASSUME NEW query \in Searches, Type(query) PROVE SearchInv'
  BY <1>8, TypeKeeps
<1>. QED
  BY <1>1, <1>2, <1>3, <1>4, <1>5, <1>6, <1>7, <1>8, LoadMoreKeeps, AnswerFirstKeeps, AnswerMoreKeeps,
     JobWritesKeeps DEF SearchStep

LEMMA QuietSearch == ASSUME SearchInv, UNCHANGED searchVars PROVE SearchInv'
<1>1. /\ shelf' = shelf /\ typed' = typed /\ asks' = asks /\ results' = results /\ spoiled' = spoiled
  BY DEF searchVars
<1>2. AsksOK'
  <2>1. ASSUME NEW k \in {"first", "more"}
        PROVE  AskOK(asks'[k]) /\ (~asks'[k].late => AskIsTrue(asks[k])')
    <3>. PICK x : x = asks[k] /\ x = asks'[k]
      BY <1>1
    <3>1. AskOK(x) /\ (~x.late => AskIsTrue(x))
      BY DEF SearchInv, AsksOK
    <3>2. AskIsTrue(x) => AskIsTrue(asks[k])'
      BY <1>1, SameTruth
    <3>. QED
      BY <3>1, <3>2
  <2>. QED
    BY <2>1 DEF AsksOK
<1>3. OffsetsOK'
  BY <1>1 DEF SearchInv, OffsetsOK
<1>4. RowsAreTrue'
  BY <1>1, SameRows DEF SearchInv
<1>. QED
  BY <1>1, <1>2, <1>3, <1>4 DEF SearchInv

LEMMA SearchTypes == ASSUME SearchInv PROVE SearchTypeOK
<1>1. Range(results.rows) \subseteq UNION {DOMAIN c : c \in Catalogs}
  BY DEF SearchInv, ShelfCrns, Range
<1>2. \A k \in DOMAIN asks : asks[k].pc \in {"none", "page", "counts", "hidden", "loaded", "suggest"}
  BY DEF SearchInv, AsksOK, AskOK, PagePcs
<1>. QED
  BY <1>1, <1>2 DEF SearchInv, SearchTypeOK

LEMMA WholePages == ASSUME CatalogOK, SearchInv PROVE PagesAreWhole
<1>1. ASSUME results.key # Unset, ~spoiled, Sensible(results.key)
      PROVE  LET all == Wanted(results.key, TRUE)
             IN  /\ NamesAreUnique => \A tie \in Ties :
                        results.rows = Slice(Ordered(all, results.key, tie), 0, Len(results.rows))
                 /\ results.total = Cardinality(all) /\ results.courses = Cardinality(Courses(all))
                 /\ results.hidden = Cardinality(Wanted(results.key, FALSE) \ all)
                 /\ results.more <=> Len(results.rows) < Cardinality(all)
  <2>. PICK key, rows : key = results.key /\ rows = results.rows
    OBVIOUS
  <2>1. key \in Searches /\ key \in Query /\ rows \in Seq(ShelfCrns) /\ shelf \in Catalogs
    BY <1>1 DEF SearchInv, CatalogOK
  <2>2. Wanted(key, TRUE) = Result(key) /\ Wanted(key, FALSE) = Found(ToStoreQuery(key), FALSE)
    <3>1. TRUE \in BOOLEAN /\ FALSE \in BOOLEAN
      OBVIOUS
    <3>. QED
      BY <1>1, <2>1, <3>1, FoundIsWanted DEF Result
  <2>3. /\ FirstRows(rows, key)
        /\ results.total = Cardinality(Result(key)) /\ results.courses = Cardinality(Courses(Result(key)))
        /\ results.hidden = Cardinality(Hidden(key))
        /\ results.more <=> Len(rows) < Cardinality(Result(key))
    BY <1>1 DEF SearchInv, RowsAreTrue
  <2>4. ASSUME NamesAreUnique PROVE rows = Slice(List(key), 0, Len(rows))
    <3>. PICK list, shown : list = List(key) /\ shown = Slice(list, 0, Len(rows))
      OBVIOUS
    <3>1. list \in Seq(ShelfCrns) /\ Len(list) = Cardinality(Result(key))
      BY <2>1, ResultIsListed
    <3>2. \A n \in 1 .. Len(rows) : n \in 1 .. Len(list) /\ rows[n] = list[n]
      BY <2>3, <2>4, <3>1 DEF FirstRows
    <3>3. Len(rows) \in Nat /\ Len(list) \in Nat /\ Len(rows) <= Len(list)
      BY <2>1, <3>1, <3>2
    <3>4. shown \in Seq(ShelfCrns) /\ IsPart(shown, list, 0) /\ Len(shown) = Len(rows)
      <4>. PICK first \in Nat, m \in Nat : first = 0 /\ m = Len(rows) /\ m <= Len(list)
        BY <3>3
      <4>1. shown = Slice(list, first, m)
        OBVIOUS
      <4>2. shown \in Seq(ShelfCrns) /\ IsPart(shown, list, first)
        BY <3>1, <4>1, SliceOf
      <4>3. Len(shown) = m /\ shown \in Seq(ShelfCrns)
        BY <3>1, FirstSlice
      <4>. QED
        BY <4>2, <4>3
    <3>5. \A n \in 1 .. Len(rows) : shown[n] = rows[n]
      BY <3>2, <3>3, <3>4 DEF IsPart
    <3>. QED
      BY <2>1, <3>4, <3>5
  <2>5. ASSUME NamesAreUnique, NEW tie \in Ties PROVE Ordered(Result(key), key, tie) = List(key)
    <3>1. Result(key) \in SUBSET DOMAIN shelf /\ (CHOOSE t \in Ties : TRUE) \in Ties
      BY DEF Result, Found
    <3>. QED
      BY <2>1, <2>5, <3>1, TiesMatterNot DEF List
  <2>. QED
    BY <2>2, <2>3, <2>4, <2>5 DEF Hidden
<1>. QED
  BY <1>1, SearchTypes DEF PagesAreWhole

LEMMA SearchGoesOn ==
  ASSUME CatalogOK, SearchInv, [IngestNext]_ingestVars PROVE SearchInv'
<1>1. CASE Searching
  BY <1>1, SearchStepKeeps DEF Searching
<1>2. ASSUME ~Searching PROVE UNCHANGED searchVars
  BY <1>2 DEF IngestNext, UpsertCourses, UpsertAliases, EndReview, AtReview, Transact,
              Publishing, Polling, Reading, ingestVars
<1>. QED
  BY <1>1, <1>2, QuietSearch

(* While no job writes, and as long as CatalogPage appends no page that was *)
(* asked for after another number of rows (PagesAreWhole names the case),   *)
(* the counts are those of the whole result, "Load more" is offered exactly *)
(* when rows are missing, and, where course and section code name a         *)
(* section, the rows on screen are the first of all that the query wants,   *)
(* in its order: for any catalogs, queries, failures and overtaken answers. *)
THEOREM PagesStayWhole == IngestSpec => []PagesAreWhole
<1>1. IngestInit => SearchInv
  BY SearchStarts, CatalogAssumption DEF IngestInit
<1>2. SearchInv /\ [IngestNext]_ingestVars => SearchInv'
  BY SearchGoesOn, CatalogAssumption
<1>. QED
  BY <1>1, <1>2, WholePages, CatalogAssumption, PTL DEF IngestSpec
-----------------------------------------------------------------------------
(* Suggestions.  An empty result offers what its active filters keep out.   *)

\* The filters in use among the first n; those kept of them.
Count(filters, n) == Cardinality({k \in 1 .. n : filters[k].active})
InUse(filters) == {n \in DOMAIN filters : filters[n].active}
Keeping(list, filters, n) ==
    /\ list \in Seq(Range(filters)) /\ Len(list) = Count(filters, n)
    /\ \A i \in 1 .. n : filters[i].active => /\ Count(filters, i) \in 1 .. Len(list)
                                              /\ list[Count(filters, i)] = filters[i]
    /\ \A j \in 1 .. Len(list) : \E i \in 1 .. n : /\ filters[i].active /\ Count(filters, i) = j
                                                   /\ list[j] = filters[i]

LEMMA ActiveKept ==
  ASSUME NEW query, NEW filters, filters = Filters(query), NEW N \in Nat, Len(filters) = N, DOMAIN filters = 1 .. N
  PROVE  Keeping(Active(query), filters, N)
<1>. PICK used : used = InUse(filters)
  OBVIOUS
<1>. PICK list : list = Chosen(filters, used)
  OBVIOUS
<1>1. Active(query) = list /\ used \in SUBSET (1 .. N)
  BY DEF Active, InUse
<1>2. \A n \in 1 .. N : Count(filters, n) = PlaceOf(used, n)
  <2>1. \A n \in 1 .. N : {k \in 1 .. n : filters[k].active} = {m \in used : m <= n}
    BY DEF InUse
  <2>. QED
    BY <2>1 DEF Count, PlaceOf
<1>0. Gathers(list, filters, used)
  BY <1>1, ChosenIs
<1>3. /\ list \in Seq({filters[n] : n \in used}) /\ Len(list) = Cardinality(used)
      /\ \A n \in used : PlaceOf(used, n) \in 1 .. Len(list) /\ list[PlaceOf(used, n)] = filters[n]
      /\ \A j \in 1 .. Len(list) : \E n \in used : PlaceOf(used, n) = j /\ list[j] = filters[n]
  BY <1>0 DEF Gathers
<1>4. list \in Seq(Range(filters))
  <2>1. {filters[n] : n \in used} \subseteq Range(filters)
    BY <1>1 DEF Range
  <2>. QED
    BY <1>3, <2>1, SeqMonotonic
<1>5. Len(list) = Count(filters, N)
  <2>1. {k \in 1 .. N : filters[k].active} = used
    BY DEF InUse
  <2>. QED
    BY <1>3, <2>1 DEF Count
<1>6. \A n \in 1 .. N : filters[n].active <=> n \in used
  BY DEF InUse
<1>7. \A n \in used : Count(filters, n) \in 1 .. Len(list) /\ list[Count(filters, n)] = filters[n]
  BY <1>1, <1>2, <1>3
<1>8. \A j \in 1 .. Len(list) : \E n \in used : Count(filters, n) = j /\ list[j] = filters[n]
  BY <1>1, <1>2, <1>3
<1>9. Keeping(list, filters, N)
  BY <1>1, <1>4, <1>5, <1>6, <1>7, <1>8 DEF Keeping
<1>. QED
  BY <1>1, <1>9

\* The filters of a query, and the query without each of them.
LEMMA FilterShapes ==
  ASSUME CatalogOK, NEW query \in Query, NEW filters, filters = Filters(query)
  PROVE  /\ Len(filters) = 12 /\ DOMAIN filters = 1 .. 12
         /\ \A n \in 1 .. 12 : filters[n].without \in Query /\ (Sensible(query) => Sensible(filters[n].without))
<1>. DEFINE Fits(q) == q \in Query /\ (Sensible(query) => Sensible(q))
<1>0. Unset \in OrUnset(Keywords) /\ Unset \in OrUnset(Nat) /\ FALSE \in BOOLEAN
  BY DEF OrUnset
<1>1. Len(filters) = 12 /\ DOMAIN filters = 1 .. 12
  BY DEF Filters
<1>2. /\ filters[1].without = [query EXCEPT !.q = Unset]
      /\ filters[2].without = [query EXCEPT !.subject = {}]
      /\ filters[3].without = [query EXCEPT !.department = {}]
      /\ filters[4].without = [query EXCEPT !.school = {}]
      /\ filters[5].without = [query EXCEPT !.attr = {}]
      /\ filters[6].without = [query EXCEPT !.level = {}, !.levelMin = Unset, !.levelMax = Unset]
  BY DEF Filters, Filter
<1>3. /\ filters[7].without = [query EXCEPT !.creditsMin = Unset, !.creditsMax = Unset]
      /\ filters[8].without = [query EXCEPT !.days = {}]
      /\ filters[9].without = [query EXCEPT !.startsAfter = Unset, !.endsBefore = Unset]
      /\ filters[10].without = [query EXCEPT !.part = {}]
      /\ filters[11].without = [query EXCEPT !.openSeatsOnly = FALSE]
      /\ filters[12].without = [query EXCEPT !.scheduledOnly = FALSE]
  BY DEF Filters, Filter
<1>4. ASSUME NEW q \in Query, q.level = query.level, q.levelMin = query.levelMin, q.levelMax = query.levelMax,
             q.endsBefore \in {query.endsBefore, Unset}
      PROVE  Fits(q)
  <2>1. Levels(q) = Levels(query)
    BY <1>4 DEF Levels
  <2>2. query = AnyLevel(query) => q.level = {} /\ q.levelMin = Unset /\ q.levelMax = Unset
    BY <1>4, AnyLevelFields, AnyLevelUnset
  <2>3. q.level = {} /\ q.levelMin = Unset /\ q.levelMax = Unset => q = AnyLevel(q)
    BY DEF AnyLevel, Query
  <2>. QED
    BY <1>4, <2>1, <2>2, <2>3 DEF Sensible
<1>5. ASSUME NEW q \in Query, q.level = {}, q.levelMin = Unset, q.levelMax = Unset,
             q.endsBefore \in {query.endsBefore, Unset}
      PROVE  Fits(q)
  <2>1. q = AnyLevel(q)
    BY <1>5 DEF AnyLevel, Query
  <2>. QED
    BY <1>5, <2>1 DEF Sensible
<1>6. Fits([query EXCEPT !.q = Unset]) /\ Fits([query EXCEPT !.subject = {}]) /\ Fits([query EXCEPT !.department = {}])
  <2>. PICK a, b, c : a = [query EXCEPT !.q = Unset] /\ b = [query EXCEPT !.subject = {}] /\ c = [query EXCEPT !.department = {}]
    OBVIOUS
  <2>1. a \in Query /\ a.level = query.level /\ a.levelMin = query.levelMin /\ a.levelMax = query.levelMax
        /\ a.endsBefore \in {query.endsBefore, Unset}
    BY <1>0 DEF Query
  <2>2. b \in Query /\ b.level = query.level /\ b.levelMin = query.levelMin /\ b.levelMax = query.levelMax
        /\ b.endsBefore \in {query.endsBefore, Unset}
    BY <1>0 DEF Query
  <2>3. c \in Query /\ c.level = query.level /\ c.levelMin = query.levelMin /\ c.levelMax = query.levelMax
        /\ c.endsBefore \in {query.endsBefore, Unset}
    BY <1>0 DEF Query
  <2>. HIDE DEF Fits
  <2>. QED
    BY <1>4, <2>1, <2>2, <2>3
<1>7. Fits([query EXCEPT !.school = {}]) /\ Fits([query EXCEPT !.attr = {}])
      /\ Fits([query EXCEPT !.level = {}, !.levelMin = Unset, !.levelMax = Unset])
  <2>. PICK a, b, c : /\ a = [query EXCEPT !.school = {}] /\ b = [query EXCEPT !.attr = {}]
                      /\ c = [query EXCEPT !.level = {}, !.levelMin = Unset, !.levelMax = Unset]
    OBVIOUS
  <2>1. a \in Query /\ a.level = query.level /\ a.levelMin = query.levelMin /\ a.levelMax = query.levelMax
        /\ a.endsBefore \in {query.endsBefore, Unset}
    BY <1>0 DEF Query
  <2>2. b \in Query /\ b.level = query.level /\ b.levelMin = query.levelMin /\ b.levelMax = query.levelMax
        /\ b.endsBefore \in {query.endsBefore, Unset}
    BY <1>0 DEF Query
  <2>3. c \in Query /\ c.level = {} /\ c.levelMin = Unset /\ c.levelMax = Unset
        /\ c.endsBefore \in {query.endsBefore, Unset}
    BY <1>0 DEF Query
  <2>. HIDE DEF Fits
  <2>. QED
    BY <1>4, <1>5, <2>1, <2>2, <2>3
<1>8. Fits([query EXCEPT !.creditsMin = Unset, !.creditsMax = Unset]) /\ Fits([query EXCEPT !.days = {}])
      /\ Fits([query EXCEPT !.startsAfter = Unset, !.endsBefore = Unset])
  <2>. PICK a, b, c : /\ a = [query EXCEPT !.creditsMin = Unset, !.creditsMax = Unset] /\ b = [query EXCEPT !.days = {}]
                      /\ c = [query EXCEPT !.startsAfter = Unset, !.endsBefore = Unset]
    OBVIOUS
  <2>1. a \in Query /\ a.level = query.level /\ a.levelMin = query.levelMin /\ a.levelMax = query.levelMax
        /\ a.endsBefore \in {query.endsBefore, Unset}
    BY <1>0 DEF Query
  <2>2. b \in Query /\ b.level = query.level /\ b.levelMin = query.levelMin /\ b.levelMax = query.levelMax
        /\ b.endsBefore \in {query.endsBefore, Unset}
    BY <1>0 DEF Query
  <2>3. c \in Query /\ c.level = query.level /\ c.levelMin = query.levelMin /\ c.levelMax = query.levelMax
        /\ c.endsBefore \in {query.endsBefore, Unset}
    BY <1>0 DEF Query
  <2>. HIDE DEF Fits
  <2>. QED
    BY <1>4, <2>1, <2>2, <2>3
<1>9. Fits([query EXCEPT !.part = {}]) /\ Fits([query EXCEPT !.openSeatsOnly = FALSE])
      /\ Fits([query EXCEPT !.scheduledOnly = FALSE])
  <2>. PICK a, b, c : /\ a = [query EXCEPT !.part = {}] /\ b = [query EXCEPT !.openSeatsOnly = FALSE]
                      /\ c = [query EXCEPT !.scheduledOnly = FALSE]
    OBVIOUS
  <2>1. a \in Query /\ a.level = query.level /\ a.levelMin = query.levelMin /\ a.levelMax = query.levelMax
        /\ a.endsBefore \in {query.endsBefore, Unset}
    BY <1>0 DEF Query
  <2>2. b \in Query /\ b.level = query.level /\ b.levelMin = query.levelMin /\ b.levelMax = query.levelMax
        /\ b.endsBefore \in {query.endsBefore, Unset}
    BY <1>0 DEF Query
  <2>3. c \in Query /\ c.level = query.level /\ c.levelMin = query.levelMin /\ c.levelMax = query.levelMax
        /\ c.endsBefore \in {query.endsBefore, Unset}
    BY <1>0 DEF Query
  <2>. HIDE DEF Fits
  <2>. QED
    BY <1>4, <2>1, <2>2, <2>3
<1>10. \A n \in 1 .. 12 : Fits(filters[n].without)
  <2>1. \A n \in 1 .. 12 : n \in {1, 2, 3, 4, 5, 6, 7, 8, 9, 10, 11, 12}
    OBVIOUS
  <2>. HIDE DEF Fits
  <2>. QED
    BY <1>2, <1>3, <1>6, <1>7, <1>8, <1>9, <2>1
<1>. QED
  BY <1>1, <1>10

\* The first few of a list.
LEMMA FirstFew ==
  ASSUME NEW S, NEW list \in Seq(S), NEW m \in Nat
  PROVE  /\ Slice(list, 0, m) \in Seq(S)
         /\ Range(Slice(list, 0, m)) = {list[j] : j \in {i \in 1 .. Len(list) : i <= m}}
<1>. PICK k \in Nat : k = Len(list)
  OBVIOUS
<1>. PICK last \in Nat : last = (IF m <= k THEN m ELSE k) /\ last <= k
  OBVIOUS
<1>1. Min({m, k}) = last /\ Min({last, k}) = last
  BY MinOfTwo
<1>2. 0 + m = m /\ 0 + last = last
  OBVIOUS
<1>. PICK slice : slice = Slice(list, 0, last)
  OBVIOUS
<1>3. slice = Slice(list, 0, m)
  BY <1>1, <1>2 DEF Slice
<1>4. Len(slice) = last /\ slice \in Seq(S)
  BY FirstSlice
<1>5. IsPart(slice, list, 0)
  <2>. PICK zero \in Nat : zero = 0
    OBVIOUS
  <2>1. slice = Slice(list, zero, last)
    OBVIOUS
  <2>2. IsPart(slice, list, zero)
    BY <2>1, SliceOf
  <2>. QED
    BY <2>2
<1>6. DOMAIN slice = 1 .. last /\ \A j \in 1 .. last : slice[j] = list[j]
  BY <1>4, <1>5, LenProperties DEF IsPart
<1>7. {i \in 1 .. k : i <= m} = 1 .. last
  OBVIOUS
<1>8. Range(slice) = {list[j] : j \in 1 .. last}
  BY <1>6 DEF Range
<1>. QED
  BY <1>3, <1>4, <1>7, <1>8

\* What an empty result offers to drop: the active filters, the first few of them.
LEMMA DropsAre ==
  ASSUME CatalogOK, NEW query \in Query, NEW filters, filters = Filters(query)
  PROVE  /\ DropFilters(query) \in Seq(Range(filters))
         /\ Range(DropFilters(query)) = {filters[n] : n \in {i \in InUse(filters) : Count(filters, i) <= MaxSuggestions}}
<1>. PICK N \in Nat : N = 12
  OBVIOUS
<1>1. Len(filters) = N /\ DOMAIN filters = 1 .. N
  BY FilterShapes
<1>. PICK list : list = Active(query)
  OBVIOUS
<1>2. Keeping(list, filters, N)
  BY <1>1, ActiveKept
<1>3. /\ list \in Seq(Range(filters))
      /\ \A i \in 1 .. N : filters[i].active => Count(filters, i) \in 1 .. Len(list) /\ list[Count(filters, i)] = filters[i]
      /\ \A j \in 1 .. Len(list) : \E i \in 1 .. N : filters[i].active /\ Count(filters, i) = j /\ list[j] = filters[i]
  BY <1>2 DEF Keeping
<1>. PICK max \in Nat : max = MaxSuggestions
  BY DEF CatalogOK
<1>4. /\ Slice(list, 0, max) \in Seq(Range(filters))
      /\ Range(Slice(list, 0, max)) = {list[j] : j \in {i \in 1 .. Len(list) : i <= max}}
  <2>. PICK S : S = Range(filters)
    OBVIOUS
  <2>1. list \in Seq(S)
    BY <1>3
  <2>2. Slice(list, 0, max) \in Seq(S) /\ Range(Slice(list, 0, max)) = {list[j] : j \in {i \in 1 .. Len(list) : i <= max}}
    BY ONLY <2>1, max \in Nat, FirstFew
  <2>. QED
    BY <2>2
<1>5. {list[j] : j \in {i \in 1 .. Len(list) : i <= max}} = {filters[n] : n \in {i \in InUse(filters) : Count(filters, i) <= max}}
  <2>1. ASSUME NEW j \in 1 .. Len(list), j <= max
        PROVE  \E n \in InUse(filters) : Count(filters, n) <= max /\ list[j] = filters[n]
    <3>. PICK n \in 1 .. N : filters[n].active /\ Count(filters, n) = j /\ list[j] = filters[n]
      BY <1>3
    <3>1. n \in InUse(filters)
      BY <1>1 DEF InUse
    <3>. QED
      BY <2>1, <3>1
  <2>2. ASSUME NEW n \in InUse(filters), Count(filters, n) <= max
        PROVE  \E j \in 1 .. Len(list) : j <= max /\ list[j] = filters[n]
    <3>1. n \in 1 .. N /\ filters[n].active
      BY <1>1 DEF InUse
    <3>2. Count(filters, n) \in 1 .. Len(list) /\ list[Count(filters, n)] = filters[n]
      BY <1>3, <3>1
    <3>. QED
      BY <2>2, <3>2
  <2>. QED
    BY <2>1, <2>2
<1>. QED
  BY <1>4, <1>5 DEF DropFilters

\* What a filter offers: the rows its query has without it, if any.
Would(f) == Cardinality(Found(ToStoreQuery(f.without), TRUE))
Offer(f) == [field |-> f.field, wouldMatch |-> Would(f)]
Offers(filters) == {Offer(f) : f \in {g \in filters : Would(g) > 0}}
Probed(ask) == IF ask.total = 0 /\ ask.query.offset = 0 THEN Range(DropFilters(ask.query)) ELSE {}

\* A request has the offers of the filters it has probed.
AskOffers(ask) ==
    IF ask.pc # "suggest" THEN ask.suggestions = <<>>
    ELSE \E S, T : /\ ask.todo \in Seq(S) /\ ask.suggestions \in Seq(T)
                   /\ Range(ask.suggestions) \cup Offers(Range(ask.todo)) = Offers(Probed(ask))
OffersInv == \A k \in {"first", "more"} : ~asks[k].late => AskOffers(asks[k])

LEMMA SameOffers ==
  ASSUME shelf' = shelf, NEW S
  PROVE  Offers(S)' = Offers(S)
<1>1. \A f : Would(f)' = Would(f)
  BY DEF Would, Found
<1>. QED
  BY <1>1 DEF Offers, Offer

LEMMA SameAskOffers ==
  ASSUME shelf' = shelf, NEW k, NEW x, x = asks'[k], AskOffers(x)
  PROVE  AskOffers(asks[k])'
<1>1. \A S : Offers(S)' = Offers(S)
  BY SameOffers
<1>. QED
  BY <1>1 DEF AskOffers, Probed

LEMMA NoAskOffers == AskOffers(NoAsk)
<1>1. NoAsk.suggestions = <<>>
  BY DEF NoAsk
<1>. QED
  BY <1>1, NoAskFields DEF AskOffers

\* A request that changes leaves the other as it was.
LEMMA OneServed ==
  ASSUME SearchInv, OffersInv, shelf' = shelf, NEW k \in {"first", "more"}, NEW ask, asks' = [asks EXCEPT ![k] = ask],
         ~ask.late => AskOffers(ask)
  PROVE  OffersInv'
<1>1. /\ asks'[k] = ask
      /\ \A j \in {"first", "more"} : j # k => asks'[j] = asks[j]
  BY DEF SearchInv
<1>2. ASSUME NEW j \in {"first", "more"}, ~asks'[j].late PROVE AskOffers(asks[j])'
  <2>. PICK x : x = asks'[j]
    OBVIOUS
  <2>1. AskOffers(x)
    BY <1>1, <1>2 DEF OffersInv
  <2>. QED
    BY <2>1, SameAskOffers
<1>. QED
  BY <1>2 DEF OffersInv

LEMMA ServeOffers ==
  ASSUME SearchInv, OffersInv, NEW k \in {"first", "more"}, NEW answer, Serve(k, answer),
         ~answer.late => AskOffers(answer)
  PROVE  OffersInv'
BY OneServed DEF Serve, screen

\* The statements before the probes offer nothing yet.
LEMMA EarlyOffers ==
  ASSUME SearchInv, OffersInv, NEW k \in {"first", "more"}, NEW answer, Serve(k, answer),
         asks[k].pc # "suggest", answer.pc # "suggest",
         answer.late = asks[k].late, answer.suggestions = asks[k].suggestions
  PROVE  OffersInv'
<1>1. ~answer.late => AskOffers(answer)
  BY DEF OffersInv, AskOffers
<1>. QED
  BY <1>1, ServeOffers

LEMMA AskFields ==
  ASSUME NEW ask, AskOK(ask)
  PROVE  DOMAIN ask = {"pc", "query", "late", "items", "total", "courses", "hidden", "todo", "suggestions"}
BY NoAskFields DEF AskOK

LEMMA CountingOffers ==
  ASSUME SearchInv, OffersInv, NEW k \in {"first", "more"}, SelectPage(k) \/ SearchCounts(k) \/ CountHidden(k)
  PROVE  OffersInv'
<1>. PICK ask : ask = asks[k] /\ AskOK(ask)
  BY DEF SearchInv, AsksOK
<1>0. DOMAIN ask = {"pc", "query", "late", "items", "total", "courses", "hidden", "todo", "suggestions"}
  BY AskFields
<1>1. CASE SelectPage(k)
  <2>. PICK items : Serve(k, [ask EXCEPT !.pc = "counts", !.items = items])
    BY <1>1 DEF SelectPage
  <2>. PICK answer : answer = [ask EXCEPT !.pc = "counts", !.items = items]
    OBVIOUS
  <2>1. answer.pc = "counts" /\ answer.late = ask.late /\ answer.suggestions = ask.suggestions
    BY <1>0
  <2>2. ask.pc = "page"
    BY <1>1 DEF SelectPage
  <2>. QED
    BY <2>1, <2>2, EarlyOffers
<1>2. CASE SearchCounts(k)
  <2>. PICK found : found = Found(ToStoreQuery(ask.query), TRUE)
    OBVIOUS
  <2>. PICK pc : pc = IF ask.query.scheduledOnly THEN "hidden" ELSE "loaded"
    OBVIOUS
  <2>. PICK answer : answer = [ask EXCEPT !.pc = pc, !.total = Cardinality(found), !.courses = Cardinality(Courses(found))]
    OBVIOUS
  <2>0. Serve(k, answer)
    BY <1>2 DEF SearchCounts
  <2>1. answer.pc = pc /\ answer.late = ask.late /\ answer.suggestions = ask.suggestions
    BY <1>0
  <2>3. answer.pc # "suggest"
    BY <2>1
  <2>2. ask.pc = "counts"
    BY <1>2 DEF SearchCounts
  <2>. QED
    BY <2>0, <2>1, <2>2, <2>3, EarlyOffers
<1>3. CASE CountHidden(k)
  <2>. PICK hidden : Serve(k, [ask EXCEPT !.pc = "loaded", !.hidden = hidden])
    BY <1>3 DEF CountHidden
  <2>. PICK answer : answer = [ask EXCEPT !.pc = "loaded", !.hidden = hidden]
    OBVIOUS
  <2>1. answer.pc = "loaded" /\ answer.late = ask.late /\ answer.suggestions = ask.suggestions
    BY <1>0
  <2>2. ask.pc = "hidden"
    BY <1>3 DEF CountHidden
  <2>. QED
    BY <2>1, <2>2, EarlyOffers
<1>. QED
  BY <1>1, <1>2, <1>3

LEMMA LoadedOffers ==
  ASSUME CatalogOK, SearchInv, OffersInv, NEW k \in {"first", "more"}, Loaded(k)
  PROVE  OffersInv'
<1>. PICK ask : ask = asks[k] /\ AskOK(ask)
  BY DEF SearchInv, AsksOK
<1>. PICK todo : todo = IF ask.total = 0 /\ ask.query.offset = 0 THEN DropFilters(ask.query) ELSE <<>>
  OBVIOUS
<1>. PICK answer : answer = [ask EXCEPT !.pc = "suggest", !.todo = todo]
  OBVIOUS
<1>1. ask.pc = "loaded" /\ Serve(k, answer)
  BY DEF Loaded
<1>2. /\ answer.pc = "suggest" /\ answer.late = ask.late /\ answer.suggestions = ask.suggestions
      /\ answer.todo = todo /\ answer.total = ask.total /\ answer.query = ask.query
  BY AskFields
<1>3. ASSUME ~answer.late PROVE AskOffers(answer)
  <2>1. answer.suggestions = <<>>
    BY <1>1, <1>2, <1>3 DEF OffersInv, AskOffers
  <2>2. \E S : todo \in Seq(S)
    <3>. PICK filters : filters = Filters(ask.query)
      OBVIOUS
    <3>1. DropFilters(ask.query) \in Seq(Range(filters))
      BY <1>1, AskQuery, DropsAre
    <3>. QED
      BY <3>1
  <2>3. Range(todo) = Probed(answer)
    <3>1. Range(<<>>) = {}
      BY DEF Range
    <3>. QED
      BY <1>2, <3>1 DEF Probed
  <2>4. Range(answer.suggestions) = {} /\ \E T : answer.suggestions \in Seq(T)
    <3>1. Range(<<>>) = {} /\ <<>> \in Seq({})
      BY DEF Range
    <3>. QED
      BY <2>1, <3>1
  <2>. QED
    BY <1>2, <2>2, <2>3, <2>4 DEF AskOffers
<1>. QED
  BY <1>1, <1>3, ServeOffers

LEMMA SuggestOffers ==
  ASSUME CatalogOK, SearchInv, OffersInv, NEW k \in {"first", "more"}, Suggest(k)
  PROVE  OffersInv'
<1>. PICK ask : ask = asks[k] /\ AskOK(ask)
  BY DEF SearchInv, AsksOK
<1>. PICK filter : filter = Head(ask.todo)
  OBVIOUS
<1>. PICK todo : todo = Tail(ask.todo)
  OBVIOUS
<1>. PICK suggestions : suggestions = IF Would(filter) > 0 THEN Append(ask.suggestions, Offer(filter)) ELSE ask.suggestions
  OBVIOUS
<1>. PICK answer : answer = [ask EXCEPT !.todo = todo, !.suggestions = suggestions]
  OBVIOUS
<1>1. ask.pc = "suggest" /\ ask.todo # <<>> /\ Serve(k, answer)
  BY DEF Suggest, Would, Offer
<1>2. /\ answer.pc = "suggest" /\ answer.late = ask.late /\ answer.suggestions = suggestions
      /\ answer.todo = todo /\ answer.total = ask.total /\ answer.query = ask.query
  BY <1>1, AskFields
<1>3. ASSUME ~answer.late PROVE AskOffers(answer)
  <2>. PICK S, T : /\ ask.todo \in Seq(S) /\ ask.suggestions \in Seq(T)
                   /\ Range(ask.suggestions) \cup Offers(Range(ask.todo)) = Offers(Probed(ask))
    BY <1>1, <1>2, <1>3 DEF OffersInv, AskOffers
  <2>. PICK list \in Seq(S), told \in Seq(T) : list = ask.todo /\ told = ask.suggestions /\ list # <<>>
    BY <1>1
  <2>1. filter \in S /\ todo \in Seq(S) /\ Range(list) = {filter} \cup Range(todo)
    <3>1. /\ Head(list) \in S /\ Tail(list) \in Seq(S) /\ Len(Tail(list)) = Len(list) - 1
          /\ \A i \in 1 .. Len(Tail(list)) : Tail(list)[i] = list[i + 1]
          /\ Head(list) = list[1]
      BY HeadTailProperties
    <3>. PICK n \in Nat : n = Len(list) /\ n # 0
      BY EmptySeq
    <3>2. DOMAIN list = 1 .. n /\ DOMAIN todo = 1 .. n - 1
      BY <3>1, LenProperties
    <3>3. \A i \in 1 .. n : i = 1 \/ i - 1 \in 1 .. n - 1
      OBVIOUS
    <3>4. \A i \in 1 .. n : list[i] = filter \/ list[i] \in Range(todo)
      <4>1. ASSUME NEW i \in 1 .. n, i # 1 PROVE list[i] \in Range(todo)
        <5>. PICK j \in 1 .. n - 1 : j = i - 1 /\ j + 1 = i
          BY <3>3, <4>1
        <5>1. todo[j] = list[i]
          BY <3>1
        <5>. QED
          BY <3>2, <5>1 DEF Range
      <4>. QED
        BY <3>1, <4>1
    <3>5. filter \in Range(list)
      BY <3>1, <3>2 DEF Range
    <3>6. Range(todo) \subseteq Range(list)
      BY <3>1, <3>2 DEF Range
    <3>7. Range(list) \subseteq {filter} \cup Range(todo)
      BY <3>2, <3>4 DEF Range
    <3>. QED
      BY <3>1, <3>5, <3>6, <3>7
  <2>2. Range(suggestions) = Range(told) \cup Offers({filter}) /\ \E U : suggestions \in Seq(U)
    <3>1. CASE Would(filter) > 0
      <4>. PICK U, offer : U = T \cup {offer} /\ offer = Offer(filter)
        OBVIOUS
      <4>1. told \in Seq(U) /\ suggestions = Append(told, offer)
        <5>1. T \subseteq U
          OBVIOUS
        <5>. QED
          BY <3>1, <5>1, SeqMonotonic
      <4>. PICK n \in Nat : n = Len(told)
        OBVIOUS
      <4>2. /\ suggestions \in Seq(U) /\ Len(suggestions) = n + 1 /\ suggestions[n + 1] = offer
            /\ \A i \in 1 .. n : suggestions[i] = told[i]
        BY <4>1, AppendProperties
      <4>3. DOMAIN told = 1 .. n /\ DOMAIN suggestions = (1 .. n) \cup {n + 1}
        BY <4>2, LenProperties
      <4>4. Range(suggestions) = Range(told) \cup {offer}
        BY <4>2, <4>3 DEF Range
      <4>5. Offers({filter}) = {offer}
        BY <3>1 DEF Offers
      <4>. QED
        BY <4>2, <4>4, <4>5
    <3>2. CASE ~(Would(filter) > 0)
      <4>1. Offers({filter}) = {}
        BY <3>2 DEF Offers
      <4>. QED
        BY <3>2, <4>1
    <3>. QED
      BY <3>1, <3>2
  <2>3. Offers(Range(list)) = Offers({filter}) \cup Offers(Range(todo))
    BY <2>1 DEF Offers
  <2>4. Range(suggestions) \cup Offers(Range(todo)) = Offers(Probed(ask))
    BY <2>2, <2>3
  <2>5. Probed(answer) = Probed(ask)
    BY <1>2 DEF Probed
  <2>. QED
    BY <1>2, <2>1, <2>2, <2>4, <2>5 DEF AskOffers
<1>. QED
  BY <1>1, <1>3, ServeOffers

LEMMA AskingOffers ==
  ASSUME CatalogOK, SearchInv, OffersInv, (\E k \in {"first", "more"} : SearchFails(k)) \/ (\E query \in Searches : Type(query))
            \/ LoadMore \/ AnswerFirst \/ AnswerMore
  PROVE  OffersInv'
<1>1. ASSUME NEW k \in {"first", "more"}, SearchFails(k) PROVE OffersInv'
  <2>1. asks' = [asks EXCEPT ![k] = NoAsk] /\ shelf' = shelf
    BY <1>1 DEF SearchFails
  <2>. QED
    BY <2>1, NoAskOffers, OneServed
<1>2. ASSUME NEW key, NEW n PROVE AskOffers(Asked(key, n))
  <2>1. Asked(key, n).pc = "page" /\ Asked(key, n).suggestions = <<>>
    BY DEF Asked, NoAsk
  <2>. QED
    BY <2>1 DEF AskOffers
<1>3. ASSUME NEW query \in Searches, Type(query) PROVE OffersInv'
  <2>. PICK ask : ask = Asked(query, 0)
    OBVIOUS
  <2>1. asks' = [asks EXCEPT !["first"] = ask] /\ shelf' = shelf
    BY <1>3 DEF Type
  <2>2. AskOffers(ask)
    BY <1>2
  <2>. QED
    BY <2>1, <2>2, OneServed
<1>4. ASSUME LoadMore PROVE OffersInv'
  <2>. PICK ask : ask = Asked(typed, Len(results.rows))
    OBVIOUS
  <2>1. asks' = [asks EXCEPT !["more"] = ask] /\ shelf' = shelf
    BY <1>4 DEF LoadMore
  <2>2. AskOffers(ask)
    BY <1>2
  <2>. QED
    BY <2>1, <2>2, OneServed
<1>5. ASSUME AnswerFirst \/ AnswerMore PROVE OffersInv'
  <2>1. shelf' = shelf /\ \E k \in {"first", "more"} : asks' = [asks EXCEPT ![k] = NoAsk]
    BY <1>5 DEF AnswerFirst, AnswerMore
  <2>. QED
    BY <2>1, NoAskOffers, OneServed
<1>. QED
  BY <1>1, <1>3, <1>4, <1>5

LEMMA JobOffers == ASSUME SearchInv, OffersInv, JobWrites PROVE OffersInv'
<1>1. asks' = [k \in DOMAIN asks |-> Overtaken(asks[k])]
  BY DEF JobWrites
<1>2. ASSUME NEW k \in {"first", "more"}, ~asks'[k].late PROVE AskOffers(asks[k])'
  <2>. PICK ask, new : ask = asks[k] /\ AskOK(ask) /\ new = Overtaken(ask)
    BY DEF SearchInv, AsksOK
  <2>1. asks'[k] = new
    BY <1>1 DEF SearchInv
  <2>2. new = NoAsk
    BY <1>2, <2>1, OvertakenAsk
  <2>3. asks'[k].pc = "none" /\ asks'[k].suggestions = <<>>
    BY <2>1, <2>2, NoAskFields DEF NoAsk
  <2>. QED
    BY <2>3 DEF AskOffers
<1>. QED
  BY <1>2 DEF OffersInv

\* A whole answer has the offers of its query.
LEMMA AnswerOffers ==
  ASSUME CatalogOK, SearchInv, NEW ask, AskOK(ask), AskIsTrue(ask), AskOffers(ask), ask.pc = "suggest", ask.todo = <<>>
  PROVE  /\ ask.query \in Query
         /\ Range(ask.suggestions) = IF Result(ask.query) = {} /\ ask.query.offset = 0
                                      THEN Offers(Range(DropFilters(ask.query))) ELSE {}
<1>. PICK query, key : query = ask.query /\ key = Key(query)
  OBVIOUS
<1>1. Range(ask.suggestions) = Offers(Probed(ask))
  <2>1. Range(<<>>) = {} /\ Offers({}) = {}
    BY DEF Range, Offers
  <2>. QED
    BY <2>1 DEF AskOffers
<1>2. query \in Query /\ key \in Query
  BY AskQuery
<1>3. IsFiniteSet(Result(key)) /\ ask.total = Cardinality(Result(key))
  BY <1>2, ResultIsListed DEF SearchInv, AskIsTrue, PagePcs
<1>4. ask.total = 0 <=> Result(key) = {}
  BY <1>3, FS_EmptySet
<1>5. Result(query) = Result(key)
  BY <1>2, SameSearch DEF Result
<1>6. Offers({}) = {}
  BY DEF Offers
<1>. QED
  BY <1>1, <1>2, <1>4, <1>5, <1>6 DEF Probed

LEMMA OffersGoOn == ASSUME CatalogOK, SearchInv, OffersInv, [IngestNext]_ingestVars PROVE OffersInv'
<1>1. CASE Searching
  <2>1. DOMAIN asks = {"first", "more"} /\ SearchStep
    BY <1>1 DEF SearchInv, Searching
  <2>. QED
    BY <2>1, CountingOffers, LoadedOffers, SuggestOffers, AskingOffers, JobOffers
       DEF SearchStep
<1>2. CASE UNCHANGED searchVars
  <2>1. shelf' = shelf /\ asks' = asks
    BY <1>2 DEF searchVars
  <2>2. ASSUME NEW k \in {"first", "more"}, ~asks'[k].late PROVE AskOffers(asks[k])'
    BY <2>1, <2>2, SameAskOffers DEF OffersInv
  <2>. QED
    BY <2>2 DEF OffersInv
<1>3. Searching \/ UNCHANGED searchVars
  BY DEF IngestNext, UpsertCourses, UpsertAliases, EndReview, AtReview, Transact,
         Publishing, Polling, Reading, ingestVars
<1>. QED
  BY <1>1, <1>2, <1>3

LEMMA OffersStart == ASSUME SearchInit PROVE OffersInv
<1>1. asks["first"] = Asked(typed, 0) /\ asks["more"] = NoAsk
  BY DEF SearchInit
<1>2. Asked(typed, 0).pc = "page" /\ Asked(typed, 0).suggestions = <<>>
  BY DEF Asked, NoAsk
<1>3. AskOffers(asks["first"]) /\ AskOffers(asks["more"])
  BY <1>1, <1>2, NoAskOffers DEF AskOffers
<1>. QED
  BY <1>1, <1>3 DEF OffersInv

LEMMA OffersHelp == ASSUME CatalogOK, SearchInv, OffersInv PROVE SuggestionsHelp
<1>. SUFFICES ASSUME NEW k \in DOMAIN asks, Ready(k), ~asks[k].late, Sensible(asks[k].query)
              PROVE  LET query == asks[k].query
                         offered == {n \in DOMAIN Filters(query) :
                                        /\ Filters(query)[n].active /\ Wanted(Filters(query)[n].without, TRUE) # {}
                                        /\ Count(Filters(query), n) <= MaxSuggestions}
                     IN  Range(asks[k].suggestions) =
                             IF Wanted(query, TRUE) # {} \/ query.offset > 0 THEN {}
                             ELSE {[field |-> Filters(query)[n].field,
                                    wouldMatch |-> Cardinality(Wanted(Filters(query)[n].without, TRUE))] : n \in offered}
  BY Zenon DEF SuggestionsHelp, Count
<1>. PICK key, filters : key = asks[k].query /\ filters = Filters(key)
  OBVIOUS
<1>. PICK ask : ask = asks[k]
  OBVIOUS
<1>0. AskOK(ask) /\ AskIsTrue(ask) /\ AskOffers(ask) /\ ask.pc = "suggest" /\ ask.todo = <<>> /\ shelf \in Catalogs
  BY DEF SearchInv, AsksOK, OffersInv, Ready
<1>1. key \in Query /\ shelf \in Catalogs /\ key.offset \in Nat
  BY <1>0, AnswerOffers DEF Query
<1>2. Range(ask.suggestions) = IF Result(key) = {} /\ key.offset = 0 THEN Offers(Range(DropFilters(key))) ELSE {}
  BY <1>0, AnswerOffers
<1>3. Result(key) = Wanted(key, TRUE)
  BY <1>1, FoundIsWanted DEF Result
<1>4. DOMAIN filters = 1 .. 12 /\ \A n \in 1 .. 12 : filters[n].without \in Query /\ Sensible(filters[n].without)
  BY <1>1, FilterShapes
<1>5. ASSUME NEW n \in 1 .. 12
      PROVE  /\ Would(filters[n]) = Cardinality(Wanted(filters[n].without, TRUE))
             /\ Would(filters[n]) > 0 <=> Wanted(filters[n].without, TRUE) # {}
  <2>. PICK q \in Query : q = filters[n].without /\ Sensible(q)
    BY <1>4
  <2>. PICK S : S = Wanted(q, TRUE)
    OBVIOUS
  <2>1. Found(ToStoreQuery(q), TRUE) = S
    BY <1>1, FoundIsWanted
  <2>2. IsFiniteSet(S) /\ Cardinality(S) \in Nat
    BY <1>1, <2>1, ResultIsListed DEF Result
  <2>3. Cardinality(S) = 0 <=> S = {}
    BY <2>2, FS_EmptySet
  <2>6. filters[n].without = q
    OBVIOUS
  <2>7. Would(filters[n]) = Cardinality(Found(ToStoreQuery(filters[n].without), TRUE))
    BY ONLY DEF Would
  <2>4. filters[n].without = q /\ Would(filters[n]) = Cardinality(S)
    BY ONLY <2>1, <2>6, <2>7
  <2>5. Cardinality(S) > 0 <=> S # {}
    <3>. PICK size : size = Cardinality(S)
      OBVIOUS
    <3>1. size \in Nat /\ (size = 0 <=> S = {})
      BY <2>2, <2>3
    <3>2. size > 0 <=> S # {}
      BY ONLY <3>1
    <3>. QED
      BY <3>2
  <2>8. Wanted(filters[n].without, TRUE) = S
    BY ONLY <2>4, S = Wanted(q, TRUE)
  <2>. QED
    BY ONLY <2>4, <2>5, <2>8
<1>6. Range(DropFilters(key)) = {filters[n] : n \in {i \in InUse(filters) : Count(filters, i) <= MaxSuggestions}}
  BY <1>1, DropsAre
<1>. PICK offered : offered = {n \in 1 .. 12 : /\ filters[n].active /\ Wanted(filters[n].without, TRUE) # {}
                                               /\ Count(filters, n) <= MaxSuggestions}
  OBVIOUS
<1>7. Offers(Range(DropFilters(key))) =
        {[field |-> filters[n].field, wouldMatch |-> Cardinality(Wanted(filters[n].without, TRUE))] : n \in offered}
  <2>. PICK some : some = {i \in InUse(filters) : Count(filters, i) <= MaxSuggestions}
    OBVIOUS
  <2>1. offered = {n \in some : Would(filters[n]) > 0} /\ some \subseteq 1 .. 12
    BY <1>4, <1>5 DEF InUse
  <2>2. Offers({filters[n] : n \in some}) = {Offer(filters[n]) : n \in {i \in some : Would(filters[i]) > 0}}
    BY DEF Offers
  <2>3. \A n \in offered : Offer(filters[n]) = [field |-> filters[n].field, wouldMatch |-> Cardinality(Wanted(filters[n].without, TRUE))]
    BY <1>5, <2>1 DEF Offer
  <2>4. Offers(Range(DropFilters(key))) = {Offer(filters[n]) : n \in offered}
    BY <1>6, <2>1, <2>2
  <2>5. {Offer(filters[n]) : n \in offered} =
          {[field |-> filters[n].field, wouldMatch |-> Cardinality(Wanted(filters[n].without, TRUE))] : n \in offered}
    BY ONLY <2>3
  <2>. QED
    BY ONLY <2>4, <2>5
<1>8. offered = {n \in DOMAIN filters : /\ filters[n].active /\ Wanted(filters[n].without, TRUE) # {}
                                        /\ Count(filters, n) <= MaxSuggestions}
  BY <1>4
<1>. PICK offers : offers = Offers(Range(DropFilters(key)))
  OBVIOUS
<1>9. Range(asks[k].suggestions) = IF Wanted(key, TRUE) # {} \/ key.offset > 0 THEN {} ELSE offers
  <2>. PICK n \in Nat : n = key.offset
    BY <1>1
  <2>1. ~(n > 0) <=> n = 0
    BY ONLY n \in Nat
  <2>2. Range(asks[k].suggestions) = IF Wanted(key, TRUE) = {} /\ n = 0 THEN offers ELSE {}
    BY <1>2, <1>3
  <2>3. n = key.offset
    OBVIOUS
  <2>. QED
    BY ONLY <2>1, <2>2, <2>3
<1>10. offers = {[field |-> filters[n].field, wouldMatch |-> Cardinality(Wanted(filters[n].without, TRUE))] : n \in offered}
  BY <1>7
<1>. QED
  BY ONLY <1>8, <1>9, <1>10, key = asks[k].query, filters = Filters(key)

(* An answer no job wrote under, to a query whose levels and end of day the *)
(* code reads plainly: an empty result offers each of the first few active  *)
(* filters that alone keeps it empty, with the number of rows the query has *)
(* without it; a result with rows, or a later page, offers none.            *)
THEOREM SuggestionsDoHelp == IngestSpec => []SuggestionsHelp
<1>1. IngestInit => SearchInv /\ OffersInv
  BY SearchStarts, OffersStart, CatalogAssumption DEF IngestInit
<1>2. SearchInv /\ OffersInv /\ [IngestNext]_ingestVars => (SearchInv /\ OffersInv)'
  BY SearchGoesOn, OffersGoOn, CatalogAssumption
<1>3. SearchInv /\ OffersInv => SuggestionsHelp
  BY OffersHelp, CatalogAssumption
<1>. QED
  BY <1>1, <1>2, <1>3, PTL DEF IngestSpec
-----------------------------------------------------------------------------
(* Clashes.  A section's meetings have the slots of the listing or feed     *)
(* that wrote them last, and no dates but those of the feed that did, for   *)
(* the same slot; the rows of a document, in hand, kept or to be replayed,  *)
(* are what Rice printed one day.                                           *)

MeetingSet == [time : Times \cup {Unknown}, dates : Spans \cup {Unknown}]
RowOK(k, row, day) ==
    IF k = "xml" THEN row.meetings = <<>> \/ (row.entry \in Classes /\ row.meetings = FeedMeetings(row.entry.texts))
    ELSE row.fetched \in 0 .. day
RowsOK(k, rows, day) == \E S : rows \in Seq(S) /\ \A row \in S : RowOK(k, row, day)
DocsOK(k, docs, day) == DOMAIN docs \subseteq Crns /\ \A c \in DOMAIN docs : RowsOK(k, docs[c], day)

\* Meetings with the slots of a list of texts, and with the dates of another.
SlotsOf(meetings, texts) ==
    /\ meetings \in Seq(MeetingSet)
    /\ \A n \in DOMAIN meetings : \E t \in ToSet(texts) : meetings[n].time = MeetingTime(t)
    /\ \A t \in ToSet(texts) : Readable(t) => \E n \in DOMAIN meetings : meetings[n].time = MeetingTime(t)
DatesOf(meetings, from) ==
    \A n \in DOMAIN meetings : meetings[n].dates # Unknown =>
        /\ from # Unknown
        /\ \E t \in ToSet(from.texts) : meetings[n].time = MeetingTime(t) /\ meetings[n].dates = t.dates
ClassOK(meetings, from) == from.slots \in Classes /\ SlotsOf(meetings, from.slots.texts) /\ DatesOf(meetings, from.dates)

PrintedInv == term \in Terms /\ timetable \in {term.first, term.later} /\ \A c \in DOMAIN listing : listing[c] \in Classes
DocumentsOK ==
    /\ archive = [k \in Kinds |-> archive[k]]
    /\ \A k \in Kinds : /\ DocsOK(k, weekly[k].docs, today) /\ RowsOK(k, weekly[k].rows, today)
                        /\ DocsOK(k, archive[k], today)
    /\ RowsOK(replaying.kind, replaying.rows, today)
ClassesOK ==
    /\ source = [c \in Crns |-> [slots |-> source[c].slots, dates |-> source[c].dates]]
    /\ \A c \in DOMAIN section : /\ ClassOK(section[c].meetings, source[c])
                                 /\ \A k \in Kinds : section[c].stamps[k] \in 0 .. today
ClassInv == PrintedInv /\ DocumentsOK /\ ClassesOK

\* A meeting read.
LEMMA TimeType ==
  ASSUME NEW text \in Texts
  PROVE  /\ MeetingTime(text) \in Times \cup {Unknown}
         /\ Readable(text) => MeetingTime(text) = [days |-> text.days, start |-> text.from, end |-> text.to]
         /\ Readable(text) => MeetingTime(text) \in Times
         /\ ~Readable(text) => MeetingTime(text) = Unknown
<1>1. text.from \in Nat /\ text.to \in Nat
  BY DEF Texts
<1>2. Readable(text) => text.days \in SUBSET Letters
  BY DEF Readable, DaySet
<1>3. Readable(text) => MeetingTime(text) = [days |-> text.days, start |-> text.from, end |-> text.to]
  BY DEF MeetingTime
<1>4. Readable(text) => [days |-> text.days, start |-> text.from, end |-> text.to] \in Times
  BY <1>1, <1>2 DEF Times
<1>5. ~Readable(text) => MeetingTime(text) = Unknown
  BY DEF MeetingTime
<1>. QED
  BY <1>3, <1>4, <1>5

LEMMA FeedIs ==
  ASSUME NEW texts \in Seq(Texts), NEW meetings, meetings = FeedMeetings(texts)
  PROVE  /\ Len(meetings) = Len(texts) /\ DOMAIN meetings = DOMAIN texts /\ SlotsOf(meetings, texts)
         /\ \A n \in DOMAIN meetings : meetings[n] = [time |-> MeetingTime(texts[n]), dates |-> texts[n].dates]
<1>. PICK k \in Nat : k = Len(texts)
  OBVIOUS
<1>1. DOMAIN texts = 1 .. k /\ \A n \in 1 .. k : texts[n] \in Texts
  OBVIOUS
<1>2. meetings = [n \in 1 .. k |-> [time |-> MeetingTime(texts[n]), dates |-> texts[n].dates]]
  BY <1>1 DEF FeedMeetings
<1>3. ASSUME NEW n \in 1 .. k
      PROVE  [time |-> MeetingTime(texts[n]), dates |-> texts[n].dates] \in MeetingSet
  <2>1. MeetingTime(texts[n]) \in Times \cup {Unknown} /\ texts[n].dates \in Spans \cup {Unknown}
    BY <1>1, TimeType DEF Texts
  <2>. QED
    BY <2>1 DEF MeetingSet
<1>4. meetings \in Seq(MeetingSet) /\ Len(meetings) = k /\ DOMAIN meetings = 1 .. k
  BY <1>2, <1>3
<1>5. \A n \in 1 .. k : meetings[n].time = MeetingTime(texts[n]) /\ texts[n] \in ToSet(texts)
  BY <1>1, <1>2 DEF ToSet
<1>6. \A t \in ToSet(texts) : \E n \in 1 .. k : t = texts[n]
  BY <1>1 DEF ToSet
<1>7. SlotsOf(meetings, texts)
  BY <1>4, <1>5, <1>6 DEF SlotsOf
<1>. QED
  BY <1>1, <1>2, <1>4, <1>7

LEMMA ListedIs ==
  ASSUME NEW texts \in Seq(Texts), NEW meetings, meetings = ListedMeetings(texts)
  PROVE  SlotsOf(meetings, texts) /\ \A n \in DOMAIN meetings : meetings[n].dates = Unknown
<1>. PICK k \in Nat : k = Len(texts)
  OBVIOUS
<1>1. DOMAIN texts = 1 .. k /\ \A n \in 1 .. k : texts[n] \in Texts
  OBVIOUS
<1>. PICK places : places = {n \in DOMAIN texts : texts[n].days # {} \/ texts[n].to # 0}
  OBVIOUS
<1>. PICK shown : shown = Chosen(texts, places)
  OBVIOUS
<1>2. Gathers(shown, texts, places)
  BY <1>1, ChosenIs
<1>. PICK S : shown \in Seq(S)
  BY <1>2 DEF Gathers
<1>. PICK m \in Nat : m = Len(shown) /\ DOMAIN shown = 1 .. m
  BY ONLY shown \in Seq(S)
<1>3. \A j \in 1 .. m : \E n \in places : shown[j] = texts[n]
  BY <1>2 DEF Gathers
<1>4. \A n \in places : \E j \in 1 .. m : shown[j] = texts[n]
  BY <1>2 DEF Gathers
<1>5. meetings = [n \in 1 .. m |-> [time |-> MeetingTime(shown[n]), dates |-> Unknown]]
  BY <1>3 DEF ListedMeetings
<1>6. \A j \in 1 .. m : shown[j] \in Texts /\ shown[j] \in ToSet(texts)
  BY <1>1, <1>3 DEF ToSet
<1>7. ASSUME NEW n \in 1 .. m PROVE [time |-> MeetingTime(shown[n]), dates |-> Unknown] \in MeetingSet
  <2>1. MeetingTime(shown[n]) \in Times \cup {Unknown}
    BY <1>6, TimeType
  <2>. QED
    BY <2>1 DEF MeetingSet
<1>8. meetings \in Seq(MeetingSet) /\ DOMAIN meetings = 1 .. m
  <2>1. meetings = [n \in 1 .. m |-> meetings[n]] /\ \A n \in 1 .. m : meetings[n] \in MeetingSet
    BY <1>5, <1>7
  <2>. QED
    BY ONLY <2>1, m \in Nat, ListOf
<1>9. \A n \in 1 .. m : meetings[n].time = MeetingTime(shown[n]) /\ meetings[n].dates = Unknown
  BY <1>5
<1>10. ASSUME NEW t \in ToSet(texts), Readable(t) PROVE \E n \in 1 .. m : meetings[n].time = MeetingTime(t)
  <2>. PICK i \in 1 .. k : t = texts[i]
    BY <1>1 DEF ToSet
  <2>1. t.days # {}
    BY <1>10 DEF Readable, DaySet
  <2>2. i \in places
    BY <1>1, <2>1
  <2>. QED
    BY <1>4, <1>9, <2>2
<1>11. ASSUME NEW n \in 1 .. m PROVE \E t \in ToSet(texts) : meetings[n].time = MeetingTime(t)
  BY <1>6, <1>9
<1>12. SlotsOf(meetings, texts)
  BY ONLY <1>8, <1>10, <1>11 DEF SlotsOf
<1>. QED
  BY <1>8, <1>9, <1>12

\* A set of places has a first.
LEMMA LeastIs ==
  ASSUME NEW k \in Nat, NEW S \in SUBSET (1 .. k), S # {}
  PROVE  Min(S) \in S
<1>. DEFINE T == {n \in 0 .. k : \A m \in S : n < m}
<1>1. 0 \in T
  OBVIOUS
<1>2. k \notin T
  <2>. PICK m \in S : m \in 1 .. k
    OBVIOUS
  <2>1. ~(k < m)
    OBVIOUS
  <2>. QED
    BY <2>1
<1>3. PICK n \in 0 .. k : n < k /\ n \in T /\ n + 1 \notin T
  <2>. HIDE DEF T
  <2>. QED
    BY <1>1, <1>2, UpTo
<1>4. n + 1 \in S /\ \A m \in S : n + 1 <= m
  BY <1>3
<1>. HIDE DEF T
<1>. QED
  BY <1>4 DEF Min

\* What is written in the place of old meetings.
Rewrites(new, old, meetings, keep) ==
    /\ new \in Seq(MeetingSet) /\ DOMAIN new = DOMAIN meetings
    /\ \A n \in DOMAIN meetings : new[n].time = meetings[n].time
    /\ \A n \in DOMAIN meetings : \/ new[n].dates = meetings[n].dates
                                  \/ keep /\ \E m \in DOMAIN old : new[n].time = old[m].time /\ new[n].dates = old[m].dates
LEMMA WrittenMeetings ==
  ASSUME NEW old \in Seq(MeetingSet), NEW meetings \in Seq(MeetingSet), NEW keep \in BOOLEAN,
         NEW new, new = WriteClassMeetings(old, meetings, keep)
  PROVE  Rewrites(new, old, meetings, keep)
<1>. PICK existing \in Seq(MeetingSet) : existing = (IF keep THEN old ELSE <<>>)
  <2>1. <<>> \in Seq(MeetingSet)
    OBVIOUS
  <2>. QED
    BY <2>1
<1>. PICK k \in Nat : k = Len(existing) /\ DOMAIN existing = 1 .. k
  OBVIOUS
<1>. PICK j \in Nat : j = Len(meetings) /\ DOMAIN meetings = 1 .. j
  OBVIOUS
<1>. DEFINE same(n) == {i \in DOMAIN existing : existing[i].time = meetings[n].time}
            put(n) == IF meetings[n].dates = Unknown /\ same(n) # {}
                      THEN [meetings[n] EXCEPT !.dates = existing[Min(same(n))].dates] ELSE meetings[n]
<1>1. new = [n \in DOMAIN meetings |-> put(n)]
  BY DEF WriteClassMeetings, Slot
<1>2. ASSUME NEW n \in 1 .. j
      PROVE  /\ put(n) \in MeetingSet /\ put(n).time = meetings[n].time
             /\ \/ put(n).dates = meetings[n].dates
                \/ keep /\ \E m \in DOMAIN old : put(n).time = old[m].time /\ put(n).dates = old[m].dates
  <2>. PICK a \in MeetingSet : a = meetings[n]
    OBVIOUS
  <2>1. CASE a.dates = Unknown /\ same(n) # {}
    <3>. PICK i \in same(n) : i = Min(same(n))
      <4>1. same(n) \in SUBSET (1 .. k)
        OBVIOUS
      <4>. HIDE DEF same
      <4>. QED
        BY <2>1, <4>1, LeastIs
    <3>4. i \in 1 .. k /\ existing[i].time = a.time
      OBVIOUS
    <3>. PICK b \in MeetingSet : b = existing[i] /\ b.time = a.time
      BY ONLY <3>4, existing \in Seq(MeetingSet), DOMAIN existing = 1 .. k
    <3>1. put(n) = [a EXCEPT !.dates = b.dates]
      BY <2>1
    <3>2. [a EXCEPT !.dates = b.dates] \in MeetingSet /\ put(n).time = a.time /\ put(n).dates = b.dates
      <4>. PICK t \in Times \cup {Unknown}, d \in Spans \cup {Unknown} : a = [time |-> t, dates |-> d]
        BY DEF MeetingSet
      <4>. PICK e \in Spans \cup {Unknown} : e = b.dates
        BY DEF MeetingSet
      <4>1. [a EXCEPT !.dates = e] = [time |-> t, dates |-> e]
        OBVIOUS
      <4>2. put(n) = [time |-> t, dates |-> e]
        BY ONLY <3>1, <4>1, e = b.dates
      <4>3. [time |-> t, dates |-> e] \in MeetingSet
        BY DEF MeetingSet
      <4>4. [a EXCEPT !.dates = b.dates] = [time |-> t, dates |-> e] /\ a.time = t
        BY ONLY <4>1, e = b.dates, a = [time |-> t, dates |-> d]
      <4>. HIDE DEF put
      <4>. QED
        BY ONLY <4>2, <4>3, <4>4, e = b.dates
    <3>3. keep /\ i \in DOMAIN old /\ old[i] = b
      <4>1. keep
        <5>1. ~keep => existing = <<>>
          OBVIOUS
        <5>2. existing = <<>> => k = 0
          OBVIOUS
        <5>. QED
          BY ONLY <3>4, <5>1, <5>2, keep \in BOOLEAN
      <4>. QED
        BY ONLY <4>1, <3>4, existing = (IF keep THEN old ELSE <<>>), DOMAIN existing = 1 .. k, b = existing[i]
    <3>. HIDE DEF put
    <3>. QED
      BY <3>1, <3>2, <3>3
  <2>2. CASE ~(a.dates = Unknown /\ same(n) # {})
    <3>1. put(n) = a
      BY <2>2
    <3>. HIDE DEF put
    <3>. QED
      BY <3>1
  <2>. QED
    BY <2>1, <2>2
<1>3. DOMAIN new = 1 .. j /\ \A n \in 1 .. j : new[n] = put(n)
  <2>. HIDE DEF put
  <2>. QED
    BY <1>1
<1>4. new \in Seq(MeetingSet)
  <2>1. new = [n \in 1 .. j |-> new[n]] /\ \A n \in 1 .. j : new[n] \in MeetingSet
    <3>1. new = [n \in 1 .. j |-> new[n]]
      BY <1>1
    <3>. HIDE DEF put
    <3>. QED
      BY <1>2, <1>3, <3>1
  <2>. QED
    BY ONLY <2>1, j \in Nat, ListOf
<1>. HIDE DEF put
<1>. QED
  BY <1>2, <1>3, <1>4 DEF Rewrites

\* A listing writes the slots it prints and keeps the dates of those it knew.
LEMMA ClassListed ==
  ASSUME NEW held, held.meetings \in Seq(MeetingSet), NEW from, DatesOf(held.meetings, from.dates),
         SectionShape(held), NEW entry \in Classes, NEW new, new = FromListing(held, entry),
         NEW after, after.slots = entry, after.dates = from.dates
  PROVE  ClassOK(new.meetings, after)
<1>. PICK old \in Seq(MeetingSet) : old = held.meetings
  OBVIOUS
<1>. PICK texts \in Seq(Texts) : texts = entry.texts
  BY DEF Classes
<1>. PICK listed : listed = ListedMeetings(texts)
  OBVIOUS
<1>0. SlotsOf(listed, texts) /\ \A n \in DOMAIN listed : listed[n].dates = Unknown
  BY ListedIs
<1>9. listed \in Seq(MeetingSet)
  BY <1>0 DEF SlotsOf
<1>. PICK m : m = WriteClassMeetings(old, listed, TRUE)
  OBVIOUS
<1>1. new.meetings = m
  BY DEF FromListing, SectionShape
<1>2. /\ m \in Seq(MeetingSet) /\ DOMAIN m = DOMAIN listed
      /\ \A n \in DOMAIN listed : m[n].time = listed[n].time
      /\ \A n \in DOMAIN listed : \/ m[n].dates = listed[n].dates
                                  \/ \E i \in DOMAIN old : m[n].time = old[i].time /\ m[n].dates = old[i].dates
  <2>1. Rewrites(m, old, listed, TRUE)
    BY ONLY old \in Seq(MeetingSet), <1>9, TRUE \in BOOLEAN, m = WriteClassMeetings(old, listed, TRUE), WrittenMeetings
  <2>. QED
    BY ONLY <2>1 DEF Rewrites
<1>3. SlotsOf(m, texts)
  BY ONLY <1>0, <1>2 DEF SlotsOf
<1>4. ASSUME NEW n \in DOMAIN m, m[n].dates # Unknown
      PROVE  /\ from.dates # Unknown
             /\ \E t \in ToSet(from.dates.texts) : m[n].time = MeetingTime(t) /\ m[n].dates = t.dates
  <2>. PICK i \in DOMAIN old : m[n].time = old[i].time /\ m[n].dates = old[i].dates
    BY ONLY <1>0, <1>2, <1>4
  <2>. QED
    BY <1>4 DEF DatesOf
<1>5. DatesOf(m, from.dates)
  BY ONLY <1>4 DEF DatesOf
<1>. QED
  BY <1>1, <1>3, <1>5 DEF ClassOK

\* A feed that lists meetings writes their slots and their dates.
LEMMA ClassFed ==
  ASSUME TimetableOK, NEW held, SectionShape(held), held.meetings \in Seq(MeetingSet), NEW row, row.meetings # <<>>,
         RowOK("xml", row, today), NEW new, new = FromFeed(held, row),
         NEW after, after.slots = row.entry, after.dates = row.entry
  PROVE  ClassOK(new.meetings, after)
<1>. PICK entry \in Classes : entry = row.entry /\ row.meetings = FeedMeetings(entry.texts) /\ entry # Unknown
  BY DEF RowOK, TimetableOK
<1>. PICK old \in Seq(MeetingSet) : old = held.meetings
  OBVIOUS
<1>. PICK texts \in Seq(Texts) : texts = entry.texts
  BY DEF Classes
<1>1. PICK fed : fed = FeedMeetings(texts)
  OBVIOUS
<1>2. /\ fed \in Seq(MeetingSet) /\ DOMAIN fed = DOMAIN texts /\ SlotsOf(fed, texts)
      /\ \A n \in DOMAIN fed : fed[n] = [time |-> MeetingTime(texts[n]), dates |-> texts[n].dates]
  BY <1>1, FeedIs DEF SlotsOf
<1>. PICK m : m = WriteClassMeetings(old, fed, FALSE)
  OBVIOUS
<1>3. new.meetings = m
  BY <1>1 DEF FromFeed, SectionShape
<1>4. /\ m \in Seq(MeetingSet) /\ DOMAIN m = DOMAIN fed
      /\ \A n \in DOMAIN fed : m[n].time = fed[n].time /\ m[n].dates = fed[n].dates
  <2>1. Rewrites(m, old, fed, FALSE)
    BY ONLY old \in Seq(MeetingSet), <1>2, FALSE \in BOOLEAN, m = WriteClassMeetings(old, fed, FALSE), WrittenMeetings
  <2>. QED
    BY ONLY <2>1 DEF Rewrites
<1>5. SlotsOf(m, texts)
  <2>1. SlotsOf(fed, texts)
    BY <1>2
  <2>. QED
    BY ONLY <1>4, <2>1 DEF SlotsOf
<1>6. ASSUME NEW n \in DOMAIN m
      PROVE  \E t \in ToSet(texts) : m[n].time = MeetingTime(t) /\ m[n].dates = t.dates
  <2>1. n \in DOMAIN texts /\ texts[n] \in ToSet(texts)
    BY <1>2, <1>4 DEF ToSet
  <2>2. m[n].time = MeetingTime(texts[n]) /\ m[n].dates = texts[n].dates
    <3>1. m[n].time = fed[n].time /\ m[n].dates = fed[n].dates
      BY ONLY <1>2, <1>4, <2>1
    <3>. PICK t, d : t = MeetingTime(texts[n]) /\ d = texts[n].dates
      OBVIOUS
    <3>2. fed[n] = [time |-> t, dates |-> d]
      BY ONLY <1>2, <2>1, t = MeetingTime(texts[n]), d = texts[n].dates
    <3>. QED
      BY ONLY <3>1, <3>2, t = MeetingTime(texts[n]), d = texts[n].dates
  <2>. QED
    BY <2>1, <2>2
<1>7. DatesOf(m, entry)
  BY ONLY <1>6, entry # Unknown, texts = entry.texts DEF DatesOf
<1>. QED
  BY <1>3, <1>5, <1>7 DEF ClassOK

\* What a merge does to a section.
LEMMA MergeClass ==
  ASSUME TimetableOK, DocInv, ClassesOK, NEW k \in Kinds, NEW row, RowOK(k, row, today), Merge(k, row), today' = today
  PROVE  ClassesOK'
<1>. PICK crn, day : crn = row.crn /\ day = IF k = "xml" THEN today ELSE row.fetched
  OBVIOUS
<1>0. today \in Nat /\ day \in 0 .. today
  BY DEF DocInv, RowOK
<1>1. StampsOf(crn, k, day)
  BY MergeEffect DEF DocInv
<1>2. ASSUME NEW c \in DOMAIN section', NEW l \in Kinds PROVE section'[c].stamps[l] \in 0 .. today'
  <2>1. c \in DOMAIN section /\ section'[c].stamps[l] = IF l = k /\ c = crn THEN day ELSE section[c].stamps[l]
    BY <1>1 DEF StampsOf
  <2>2. section[c].stamps[l] \in 0 .. today
    BY <2>1 DEF ClassesOK
  <2>. QED
    BY <1>0, <2>1, <2>2
<1>3. /\ source' = [c \in Crns |-> [slots |-> source'[c].slots, dates |-> source'[c].dates]]
      /\ \A c \in DOMAIN section' : ClassOK(section'[c].meetings, source'[c])
  <2>0. /\ source = [c \in Crns |-> [slots |-> source[c].slots, dates |-> source[c].dates]]
        /\ \A c \in DOMAIN section : ClassOK(section[c].meetings, source[c]) /\ SectionShape(section[c])
        /\ DOMAIN section' = DOMAIN section /\ DOMAIN section \subseteq Crns
    BY <1>1 DEF ClassesOK, DocInv, SectionInv, StampsOf
  <2>1. CASE crn \notin DOMAIN section
    <3>1. section' = section /\ source' = source
      BY <2>1 DEF Merge, UpsertSectionXml, UpsertSectionDetail, sectionRows
    <3>. QED
      BY <2>0, <3>1
  <2>2. CASE crn \in DOMAIN section /\ k = "xml"
    <3>. PICK held : held = section[crn]
      OBVIOUS
    <3>. PICK new : new = FromFeed(held, row)
      OBVIOUS
    <3>1. /\ section' = [section EXCEPT ![crn] = new]
          /\ source' = IF row.meetings = <<>> THEN source
                       ELSE [source EXCEPT ![crn] = [slots |-> row.entry, dates |-> row.entry]]
      BY <2>2 DEF Merge, UpsertSectionXml
    <3>2. section'[crn] = new /\ \A c \in DOMAIN section : c # crn => section'[c] = section[c]
      BY <2>0, <2>2, <3>1
    <3>3. CASE row.meetings = <<>>
      <4>1. new.meetings = held.meetings
        BY <2>0, <2>2, <3>3 DEF FromFeed, SectionShape
      <4>. QED
        BY <2>0, <3>1, <3>2, <3>3, <4>1
    <3>4. CASE row.meetings # <<>>
      <4>. PICK after : after = [slots |-> row.entry, dates |-> row.entry]
        OBVIOUS
      <4>1. source' = [source EXCEPT ![crn] = after]
        BY <3>1, <3>4
      <4>2. held.meetings \in Seq(MeetingSet) /\ SectionShape(held)
        BY <2>0, <2>2 DEF ClassOK, SlotsOf
      <4>3. ClassOK(new.meetings, after)
        BY <2>2, <3>4, <4>2, ClassFed
      <4>4. source'[crn] = after /\ \A c \in Crns : c # crn => source'[c] = source[c]
        BY <2>0, <2>2, <4>1
      <4>5. source' = [c \in Crns |-> [slots |-> source'[c].slots, dates |-> source'[c].dates]]
        <5>1. source' = [c \in Crns |-> source'[c]]
          BY <2>0, <4>1
        <5>2. \A c \in Crns : source'[c] = [slots |-> source'[c].slots, dates |-> source'[c].dates]
          BY <2>0, <4>4
        <5>. QED
          BY <5>1, <5>2
      <4>. QED
        BY <2>0, <3>2, <4>3, <4>4, <4>5
    <3>. QED
      BY <3>3, <3>4
  <2>3. CASE crn \in DOMAIN section /\ k = "detail"
    <3>. PICK held : held = section[crn]
      OBVIOUS
    <3>. PICK new : new = FromDetail(held, row)
      OBVIOUS
    <3>1. section' = [section EXCEPT ![crn] = new] /\ source' = source
      BY <2>3 DEF Merge, UpsertSectionDetail
    <3>2. section'[crn] = new /\ \A c \in DOMAIN section : c # crn => section'[c] = section[c]
      BY <2>0, <2>3, <3>1
    <3>3. new.meetings = held.meetings
      BY <2>0, <2>3 DEF FromDetail, SectionShape
    <3>. QED
      BY <2>0, <3>1, <3>2, <3>3
  <2>. QED
    BY <2>1, <2>2, <2>3 DEF Kinds
<1>. QED
  BY <1>2, <1>3 DEF ClassesOK

\* Rows printed one day are rows printed by a later one.
LEMMA RowsLater ==
  ASSUME NEW k, NEW rows, NEW d \in Nat, NEW e \in Nat, d <= e, RowsOK(k, rows, d)
  PROVE  RowsOK(k, rows, e)
<1>. PICK S : rows \in Seq(S) /\ \A row \in S : RowOK(k, row, d)
  BY DEF RowsOK
<1>1. \A row \in S : RowOK(k, row, e)
  <2>1. \A day \in 0 .. d : day \in 0 .. e
    OBVIOUS
  <2>. QED
    BY <2>1 DEF RowOK
<1>. QED
  BY <1>1 DEF RowsOK
LEMMA DocsLater ==
  ASSUME NEW k, NEW docs, NEW d \in Nat, NEW e \in Nat, d <= e, DocsOK(k, docs, d)
  PROVE  DocsOK(k, docs, e)
  BY RowsLater DEF DocsOK
LEMMA NoRowsOK == ASSUME NEW k, NEW day, NEW rows \in Seq({}) PROVE RowsOK(k, rows, day)
<1>. PICK S : S = {}
  OBVIOUS
<1>1. rows \in Seq(S) /\ \A row \in S : RowOK(k, row, day)
  OBVIOUS
<1>. QED
  BY ONLY <1>1 DEF RowsOK
LEMMA NoDocsOK == ASSUME NEW k, NEW day, NEW docs, DOMAIN docs = {} PROVE DocsOK(k, docs, day)
  BY DEF DocsOK
LEMMA RowsGoOn ==
  ASSUME NEW k, NEW rows, NEW day, RowsOK(k, rows, day), rows # <<>>
  PROVE  RowOK(k, Head(rows), day) /\ RowsOK(k, Tail(rows), day)
<1>. PICK S : rows \in Seq(S) /\ \A row \in S : RowOK(k, row, day)
  BY DEF RowsOK
<1>1. Head(rows) \in S /\ Tail(rows) \in Seq(S)
  BY TailSet
<1>. PICK rest \in Seq(S) : rest = Tail(rows)
  BY <1>1
<1>2. RowsOK(k, rest, day)
  BY ONLY rest \in Seq(S), \A row \in S : RowOK(k, row, day) DEF RowsOK
<1>. QED
  BY <1>1, <1>2

\* What a step leaves alone.
LEMMA SameDocuments ==
  ASSUME DocumentsOK, today \in Nat, today' \in Nat, today <= today', UNCHANGED <<weekly, archive, replaying>>
  PROVE  DocumentsOK'
<1>1. \A k \in Kinds : /\ DocsOK(k, weekly[k].docs, today') /\ RowsOK(k, weekly[k].rows, today')
                       /\ DocsOK(k, archive[k], today')
  BY RowsLater, DocsLater DEF DocumentsOK
<1>2. RowsOK(replaying.kind, replaying.rows, today')
  BY RowsLater DEF DocumentsOK
<1>. QED
  BY <1>1, <1>2 DEF DocumentsOK
LEMMA SameClasses ==
  ASSUME ClassesOK, today \in Nat, today' \in Nat, today <= today', UNCHANGED sectionRows
  PROVE  ClassesOK'
<1>1. \A day \in 0 .. today : day \in 0 .. today'
  OBVIOUS
<1>2. section' = section /\ source' = source
  BY DEF sectionRows
<1>. QED
  BY <1>1, <1>2 DEF ClassesOK
LEMMA SamePrinted ==
  ASSUME PrintedInv, UNCHANGED <<term, timetable, listing>> PROVE PrintedInv'
  BY DEF PrintedInv
LEMMA OneWeekly ==
  ASSUME DocInv, DocumentsOK, NEW k \in Kinds, NEW q, weekly' = [weekly EXCEPT ![k] = q],
         DocsOK(k, q.docs, today), RowsOK(k, q.rows, today), UNCHANGED <<today, archive, replaying>>
  PROVE  DocumentsOK'
<1>1. weekly'[k] = q /\ \A l \in Kinds : l # k => weekly'[l] = weekly[l]
  BY DEF DocInv
<1>. QED
  BY <1>1 DEF DocumentsOK
LEMMA NoRunOK == ASSUME NEW k \in Kinds, NEW day PROVE DocsOK(k, NoRun.docs, day) /\ RowsOK(k, NoRun.rows, day)
<1>1. NoRun.rows = <<>> /\ DOMAIN NoRun.docs = {}
  BY DEF NoRun
<1>. PICK rows, docs : rows = NoRun.rows /\ docs = NoRun.docs
  OBVIOUS
<1>2. RowsOK(k, rows, day)
  <2>1. rows \in Seq({})
    BY ONLY <1>1, rows = NoRun.rows
  <2>. QED
    BY <2>1, NoRowsOK
<1>3. DocsOK(k, docs, day)
  BY <1>1, NoDocsOK
<1>. QED
  BY <1>1, <1>2, <1>3

LEMMA PrintedNow == ASSUME TimetableOK, PrintedInv, NEW c \in Crns PROVE timetable[c] \in Classes
<1>. PICK pair \in Terms : pair = term
  BY DEF PrintedInv
<1>. QED
  BY DEF PrintedInv, TimetableOK

\* Time goes by, for Rice and for the store.
LEMMA TimetableClass == ASSUME DocInv, ClassInv, TimetableChanges PROVE ClassInv'
<1>1. timetable' = term.later /\ UNCHANGED <<term, today, section, source, listing, weekly, archive, replaying>>
  BY DEF TimetableChanges, sectionRows, work
<1>2. today \in Nat /\ today' \in Nat /\ today <= today'
  BY <1>1 DEF DocInv
<1>3. PrintedInv'
  BY <1>1 DEF ClassInv, PrintedInv
<1>. QED
  BY <1>1, <1>2, <1>3, SameDocuments, SameClasses DEF ClassInv, sectionRows
LEMMA DayClass == ASSUME DocInv, ClassInv, DayPasses PROVE ClassInv'
<1>1. today' = today + 1 /\ UNCHANGED <<term, timetable, section, source, listing, weekly, archive, replaying>>
  BY DEF DayPasses, sectionRows, work
<1>2. today \in Nat /\ today' \in Nat /\ today <= today'
  BY <1>1 DEF DocInv
<1>. QED
  BY <1>1, <1>2, SamePrinted, SameDocuments, SameClasses DEF ClassInv, sectionRows

\* A listing is what Rice prints the day it is fetched.
LEMMA FetchClass == ASSUME TimetableOK, DocInv, ClassInv, FetchListing PROVE ClassInv'
<1>1. PICK kept \in SUBSET Crns : listing' = [c \in kept |-> timetable[c]]
  BY DEF FetchListing
<1>2. UNCHANGED <<term, timetable, today, section, source, weekly, archive, replaying>>
  BY DEF FetchListing, sectionRows, printed
<1>3. today \in Nat /\ today' \in Nat /\ today <= today'
  BY <1>2 DEF DocInv
<1>4. \A c \in DOMAIN listing' : listing'[c] \in Classes
  BY <1>1, PrintedNow DEF ClassInv
<1>5. PrintedInv'
  BY <1>2, <1>4 DEF ClassInv, PrintedInv
<1>. QED
  BY <1>2, <1>3, <1>5, SameDocuments, SameClasses DEF ClassInv, sectionRows

\* A listing is written.
LEMMA WriteClass == ASSUME DocInv, ClassInv, WriteListing PROVE ClassInv'
<1>1. /\ section' = [c \in DOMAIN section \cup DOMAIN listing |->
                       IF c \in DOMAIN listing THEN UpsertListing(c, listing[c]) ELSE section[c]]
      /\ source' = [c \in Crns |-> IF c \in DOMAIN listing THEN [source[c] EXCEPT !.slots = listing[c]] ELSE source[c]]
      /\ listing' = NoListing
      /\ UNCHANGED <<term, timetable, today, weekly, archive, replaying>>
  BY DEF WriteListing, printed
<1>2. today \in Nat /\ today' \in Nat /\ today <= today' /\ DOMAIN listing \subseteq Crns /\ DOMAIN section \subseteq Crns
  BY <1>1 DEF DocInv
<1>3. PrintedInv'
  BY <1>1 DEF ClassInv, PrintedInv, NoListing
<1>4. DocumentsOK'
  BY <1>1, <1>2, SameDocuments DEF ClassInv
<1>5. ASSUME NEW c \in Crns
      PROVE  source[c] = [slots |-> source[c].slots, dates |-> source[c].dates]
  BY DEF ClassInv, ClassesOK
<1>6. ASSUME NEW c \in DOMAIN listing PROVE source'[c] = [slots |-> listing[c], dates |-> source[c].dates]
  <2>1. c \in Crns /\ source'[c] = [source[c] EXCEPT !.slots = listing[c]]
    BY <1>1, <1>2
  <2>. PICK s, d : source[c] = [slots |-> s, dates |-> d] /\ d = source[c].dates
    BY <1>5, <2>1
  <2>. QED
    BY ONLY <2>1, source[c] = [slots |-> s, dates |-> d], d = source[c].dates
<1>7. source' = [c \in Crns |-> [slots |-> source'[c].slots, dates |-> source'[c].dates]]
  <2>1. ASSUME NEW c \in Crns PROVE source'[c] = [slots |-> source'[c].slots, dates |-> source'[c].dates]
    <3>1. CASE c \in DOMAIN listing
      <4>. PICK s, d : s = listing[c] /\ d = source[c].dates
        OBVIOUS
      <4>. PICK now : now = source'[c]
        OBVIOUS
      <4>1. now = [slots |-> s, dates |-> d]
        BY <1>6, <3>1
      <4>2. now = [slots |-> now.slots, dates |-> now.dates]
        BY ONLY <4>1
      <4>. QED
        BY ONLY <4>2, now = source'[c]
    <3>2. CASE c \notin DOMAIN listing
      BY <1>1, <1>5, <3>2
    <3>. QED
      BY <3>1, <3>2
  <2>2. source' = [c \in Crns |-> source'[c]]
    BY <1>1
  <2>. QED
    BY ONLY <2>1, <2>2
<1>8. ASSUME NEW c \in DOMAIN section'
      PROVE  ClassOK(section'[c].meetings, source'[c]) /\ \A k \in Kinds : section'[c].stamps[k] \in 0 .. today'
  <2>1. CASE c \in DOMAIN listing
    <3>. PICK held : held = IF c \in DOMAIN section THEN section[c] ELSE NewSection
      OBVIOUS
    <3>. PICK from, after, entry : from = source[c] /\ after = source'[c] /\ entry = listing[c]
      OBVIOUS
    <3>1. SectionShape(held) /\ held.meetings \in Seq(MeetingSet) /\ DatesOf(held.meetings, from.dates)
          /\ \A k \in Kinds : held.stamps[k] \in 0 .. today
      <4>1. CASE c \in DOMAIN section
        BY <4>1 DEF DocInv, SectionInv, ClassInv, ClassesOK, ClassOK, SlotsOf
      <4>2. CASE c \notin DOMAIN section
        <5>1. held = [part |-> Unknown, meetings |-> <<>>, stamps |-> [k \in Kinds |-> 0]]
          BY <4>2 DEF NewSection, Never
        <5>2. held.meetings = <<>> /\ \A k \in Kinds : held.stamps[k] = 0
          BY <5>1
        <5>3. SectionShape(held)
          BY <5>1 DEF SectionShape
        <5>4. DatesOf(held.meetings, from.dates)
          BY <5>2 DEF DatesOf
        <5>5. held.meetings \in Seq(MeetingSet)
          BY ONLY <5>2
        <5>6. \A k \in Kinds : held.stamps[k] \in 0 .. today
          BY <1>2, <5>2
        <5>. QED
          BY <5>3, <5>4, <5>5, <5>6
      <4>. QED
        BY <4>1, <4>2
    <3>2. entry \in Classes /\ after.slots = entry /\ after.dates = from.dates
      <4>1. entry \in Classes
        BY <2>1 DEF ClassInv, PrintedInv
      <4>. PICK d : d = from.dates
        OBVIOUS
      <4>2. after = [slots |-> entry, dates |-> d]
        BY <1>6, <2>1
      <4>. QED
        BY ONLY <4>1, <4>2, d = from.dates
    <3>. PICK new : new = FromListing(held, entry)
      OBVIOUS
    <3>3. section'[c] = new
      BY <1>1, <2>1 DEF UpsertListing
    <3>4. ClassOK(new.meetings, after)
      BY <3>1, <3>2, ClassListed
    <3>5. new.stamps = held.stamps
      BY <3>1, ListedRow
    <3>. QED
      BY <1>1, <3>1, <3>3, <3>4, <3>5
  <2>2. CASE c \notin DOMAIN listing
    <3>1. c \in DOMAIN section /\ c \in Crns /\ section'[c] = section[c] /\ source'[c] = source[c]
      BY <1>1, <1>2, <2>2
    <3>. QED
      BY <1>1, <3>1 DEF ClassInv, ClassesOK
  <2>. QED
    BY <2>1, <2>2
<1>. QED
  BY <1>3, <1>4, <1>7, <1>8 DEF ClassInv, ClassesOK

\* A row is merged, by a run or by a replay.
LEMMA MergeRowClass == ASSUME TimetableOK, DocInv, ClassInv, NEW k \in Kinds, MergeRow(k) PROVE ClassInv'
<1>. PICK run : run = weekly[k]
  OBVIOUS
<1>1. /\ run.rows # <<>> /\ Merge(k, Head(run.rows)) /\ RunShape(run)
      /\ UNCHANGED <<term, timetable, today, listing, archive, replaying>>
  BY DEF MergeRow, printed, DocInv, RunInv
<1>. PICK q : q = [run EXCEPT !.rows = Tail(run.rows)]
  OBVIOUS
<1>2. weekly' = [weekly EXCEPT ![k] = q]
  BY DEF MergeRow
<1>3. q.rows = Tail(run.rows) /\ q.docs = run.docs
  BY <1>1 DEF RunShape
<1>4. RowsOK(k, run.rows, today) /\ DocsOK(k, run.docs, today)
  BY DEF ClassInv, DocumentsOK
<1>5. RowOK(k, Head(run.rows), today) /\ RowsOK(k, q.rows, today)
  <2>. PICK rows : rows = run.rows
    OBVIOUS
  <2>1. RowOK(k, Head(rows), today) /\ RowsOK(k, Tail(rows), today)
    BY <1>1, <1>4, RowsGoOn
  <2>. QED
    BY ONLY <1>3, <2>1, rows = run.rows
<1>6. DocumentsOK'
  BY <1>1, <1>2, <1>3, <1>4, <1>5, OneWeekly DEF ClassInv
<1>7. ClassesOK'
  BY <1>1, <1>5, MergeClass DEF ClassInv
<1>8. PrintedInv'
  BY <1>1, SamePrinted DEF ClassInv
<1>. QED
  BY <1>6, <1>7, <1>8 DEF ClassInv

LEMMA ReplayClass == ASSUME TimetableOK, DocInv, ClassInv, ReplayRow PROVE ClassInv'
<1>. PICK k \in Kinds : k = replaying.kind
  BY DEF DocInv
<1>. PICK rows : rows = replaying.rows
  OBVIOUS
<1>1. /\ rows # <<>> /\ Merge(k, Head(rows)) /\ UNCHANGED <<term, timetable, today, listing, weekly, archive>>
      /\ replaying'.kind = k /\ replaying'.rows = Tail(rows)
  BY DEF ReplayRow, printed, DocInv
<1>2. RowOK(k, Head(rows), today) /\ RowsOK(k, Tail(rows), today)
  BY <1>1, RowsGoOn DEF ClassInv, DocumentsOK
<1>3. DocumentsOK'
  BY <1>1, <1>2 DEF ClassInv, DocumentsOK
<1>4. ClassesOK'
  BY <1>1, <1>2, MergeClass DEF ClassInv
<1>5. PrintedInv'
  BY <1>1, SamePrinted DEF ClassInv
<1>. QED
  BY <1>3, <1>4, <1>5 DEF ClassInv

\* Where Rice prints what it did and no section is written, the rows in hand
\* are all there is to say.
LEMMA DocumentsOnly ==
  ASSUME DocInv, ClassInv, DocumentsOK', UNCHANGED <<printed, sectionRows, listing>>
  PROVE  ClassInv'
<1>1. UNCHANGED <<term, timetable, today, listing>> /\ today \in Nat
  BY DEF printed, DocInv
<1>. QED
  BY <1>1, SamePrinted, SameClasses DEF ClassInv

LEMMA BeginWeeklyClass == ASSUME DocInv, ClassInv, NEW k \in Kinds, BeginWeekly(k) PROVE ClassInv'
<1>1. PICK todo :
        weekly' = [weekly EXCEPT ![k] = [NoRun EXCEPT !.pc = "asking", !.began = today,
                                                      !.todo = todo, !.targets = ToSet(todo)]]
  BY DEF BeginWeekly
<1>2. UNCHANGED <<printed, sectionRows, listing, today, archive, replaying>>
  BY DEF BeginWeekly, printed
<1>. PICK q : q = [NoRun EXCEPT !.pc = "asking", !.began = today, !.todo = todo, !.targets = ToSet(todo)]
  OBVIOUS
<1>3. q.docs = NoRun.docs /\ q.rows = NoRun.rows
  BY DEF NoRun
<1>4. DocsOK(k, q.docs, today) /\ RowsOK(k, q.rows, today)
  <2>. PICK docs, rows : docs = NoRun.docs /\ rows = NoRun.rows
    OBVIOUS
  <2>1. DocsOK(k, docs, today) /\ RowsOK(k, rows, today)
    BY NoRunOK
  <2>. QED
    BY ONLY <1>3, <2>1, docs = NoRun.docs, rows = NoRun.rows
<1>5. DocumentsOK'
  BY <1>1, <1>2, <1>4, OneWeekly DEF ClassInv
<1>. QED
  BY <1>2, <1>5, DocumentsOnly

\* A document is what Rice prints the day it is fetched.
LEMMA DocumentRows ==
  ASSUME TimetableOK, PrintedInv, today \in Nat, NEW k \in Kinds, NEW c \in Crns, NEW kept, NEW partial,
         NEW doc, doc = Document(k, c, kept, partial)
  PROVE  RowsOK(k, doc, today)
<1>1. CASE k = "detail"
  <2>. PICK row : row = [crn |-> c, fetched |-> today]
    OBVIOUS
  <2>. PICK S : S = {row}
    OBVIOUS
  <2>1. doc = <<row>>
    BY <1>1 DEF Document
  <2>2. doc \in Seq(S)
    BY ONLY <2>1, S = {row}
  <2>3. \A r \in S : RowOK(k, r, today)
    BY <1>1 DEF RowOK
  <2>. QED
    BY ONLY <2>2, <2>3 DEF RowsOK
<1>2. CASE k = "xml"
  <2>. PICK list \in Seq(Crns) : list = Associated[c]
    BY DEF TimetableOK
  <2>. PICK n \in Nat : n = Len(list) /\ DOMAIN list = 1 .. n
    OBVIOUS
  <2>. PICK places \in SUBSET (1 .. n) : places = {i \in DOMAIN list : list[i] \in kept}
    OBVIOUS
  <2>. PICK listed : listed = Chosen(list, places)
    OBVIOUS
  <2>1. Gathers(listed, list, places)
    BY ChosenIs
  <2>2. PICK T : listed \in Seq(T)
    BY <2>1 DEF Gathers
  <2>. PICK m \in Nat : m = Len(listed) /\ DOMAIN listed = 1 .. m
    BY ONLY <2>2
  <2>3. ASSUME NEW j \in 1 .. m PROVE listed[j] \in Crns
    <3>. PICK i \in places : listed[j] = list[i]
      BY <2>1 DEF Gathers
    <3>. QED
      OBVIOUS
  <2>4. doc = [j \in 1 .. m |-> XmlRow(listed[j], partial)]
    BY <1>2 DEF Document
  <2>. PICK S : S = {XmlRow(d, partial) : d \in Crns}
    OBVIOUS
  <2>5. doc \in Seq(S)
    <3>1. doc = [j \in 1 .. m |-> doc[j]] /\ \A j \in 1 .. m : doc[j] \in S
      BY <2>3, <2>4
    <3>. QED
      BY ONLY <3>1, m \in Nat, ListOf
  <2>6. ASSUME NEW d \in Crns PROVE RowOK(k, XmlRow(d, partial), today)
    <3>. PICK row : row = XmlRow(d, partial)
      OBVIOUS
    <3>. PICK entry \in Classes : entry = timetable[d]
      BY PrintedNow
    <3>1. row = [crn |-> d, code |-> entry.session, entry |-> entry,
                 meetings |-> IF partial THEN <<>> ELSE FeedMeetings(entry.texts)]
      BY DEF XmlRow
    <3>2. row.entry = entry /\ (row.meetings = <<>> \/ row.meetings = FeedMeetings(entry.texts))
      BY ONLY <3>1
    <3>. QED
      BY <1>2, <3>2 DEF RowOK
  <2>7. \A row \in S : RowOK(k, row, today)
    BY <2>6
  <2>. QED
    BY ONLY <2>5, <2>7 DEF RowsOK
<1>. QED
  BY <1>1, <1>2 DEF Kinds

LEMMA DocsOver ==
  ASSUME NEW k, NEW day, NEW newer, DocsOK(k, newer, day), NEW docs, DocsOK(k, docs, day)
  PROVE  DocsOK(k, Over(newer, docs), day)
  BY DEF DocsOK, Over
LEMMA AnsweredClass == ASSUME TimetableOK, DocInv, ClassInv, NEW k \in Kinds, Answered(k) PROVE ClassInv'
<1>. PICK run : run = weekly[k]
  OBVIOUS
<1>1. run.todo \in Seq(Crns) /\ run.todo # <<>> /\ RunShape(run) /\ today \in Nat
  BY DEF Answered, Asking, DocInv, RunInv
<1>. PICK c \in Crns : c = Head(run.todo)
  BY <1>1, TailSet
<1>0. PICK partial, kept : Received(k, c, Document(k, c, kept, partial))
  BY DEF Answered
<1>. PICK doc : doc = Document(k, c, kept, partial)
  OBVIOUS
<1>. PICK docs : docs = Over([d \in {c} |-> doc], run.docs)
  OBVIOUS
<1>2. weekly' = [weekly EXCEPT ![k] = [run EXCEPT !.pc = "merging", !.rows = doc, !.outages = 0, !.docs = docs]]
  BY <1>0 DEF Received
<1>. PICK q : q = [run EXCEPT !.pc = "merging", !.rows = doc, !.outages = 0, !.docs = docs]
  OBVIOUS
<1>3. q.rows = doc /\ q.docs = docs
  BY <1>1 DEF RunShape
<1>4. UNCHANGED <<printed, sectionRows, listing, today, archive, replaying>>
  BY DEF Answered, printed
<1>5. RowsOK(k, doc, today)
  BY <1>1, DocumentRows DEF ClassInv
<1>6. DocsOK(k, docs, today)
  <2>1. DocsOK(k, run.docs, today)
    BY DEF ClassInv, DocumentsOK
  <2>. PICK one : one = [d \in {c} |-> doc]
    OBVIOUS
  <2>2. DocsOK(k, one, today)
    BY <1>5 DEF DocsOK
  <2>3. docs = Over(one, run.docs)
    OBVIOUS
  <2>. QED
    BY <2>1, <2>2, <2>3, DocsOver
<1>7. DocumentsOK'
  BY <1>2, <1>3, <1>4, <1>5, <1>6, OneWeekly DEF ClassInv
<1>. QED
  BY <1>4, <1>7, DocumentsOnly

\* A run that is cut off leaves nothing; one that ends well leaves its documents.
LEMMA FailedClass ==
  ASSUME DocInv, ClassInv, NEW k \in Kinds, Fail(k), UNCHANGED <<printed, sectionRows, listing, archive, replaying>>
  PROVE  ClassInv'
<1>1. weekly' = [weekly EXCEPT ![k] = NoRun] /\ today' = today
  BY DEF Fail, printed
<1>2. DocumentsOK'
  BY <1>1, NoRunOK, OneWeekly DEF ClassInv
<1>. QED
  BY <1>2, DocumentsOnly
LEMMA UnansweredClass == ASSUME DocInv, ClassInv, NEW k \in Kinds, NEW result, Unanswered(k, result) PROVE ClassInv'
<1>1. UNCHANGED <<printed, sectionRows, listing, archive, replaying>>
  BY DEF Unanswered
<1>2. CASE Fail(k)
  BY <1>1, <1>2, FailedClass
<1>3. CASE ~Fail(k)
  <2>. PICK run : run = weekly[k]
    OBVIOUS
  <2>1. RunShape(run)
    BY DEF DocInv, RunInv
  <2>2. PICK todo, outages, missed :
          weekly' = [weekly EXCEPT ![k] = [run EXCEPT !.todo = todo, !.outages = outages, !.missed = missed]]
    <3>1. weekly' = [weekly EXCEPT ![k] = [run EXCEPT !.todo = Tail(run.todo), !.outages = CountFetch(run.outages, result),
                                                      !.missed = run.missed \cup {Head(run.todo)}]]
      BY <1>3, <2>1 DEF Unanswered, RunShape
    <3>. QED
      BY <3>1
  <2>. PICK q : q = [run EXCEPT !.todo = todo, !.outages = outages, !.missed = missed]
    OBVIOUS
  <2>3. q.rows = run.rows /\ q.docs = run.docs
    BY <2>1 DEF RunShape
  <2>4. today' = today /\ DocsOK(k, run.docs, today) /\ RowsOK(k, run.rows, today)
    BY <1>1 DEF ClassInv, DocumentsOK, printed
  <2>5. DocumentsOK'
    BY <1>1, <2>2, <2>3, <2>4, OneWeekly DEF ClassInv
  <2>. QED
    BY <1>1, <2>5, DocumentsOnly
<1>. QED
  BY <1>2, <1>3
LEMMA EndClass == ASSUME DocInv, ClassInv, NEW k \in Kinds, EndWeekly(k) PROVE ClassInv'
<1>. PICK docs, kept : docs = weekly[k].docs /\ kept = archive[k]
  OBVIOUS
<1>. PICK both : both = Over(docs, kept)
  OBVIOUS
<1>1. /\ UNCHANGED <<printed, sectionRows, listing, replaying>> /\ today' = today
      /\ weekly' = [weekly EXCEPT ![k] = NoRun] /\ archive' = [archive EXCEPT ![k] = both]
  <2>1. archive' = [archive EXCEPT ![k] = both]
    BY DEF EndWeekly, ClassInv, DocumentsOK
  <2>. QED
    BY <2>1 DEF EndWeekly, printed
<1>2. /\ archive = [l \in Kinds |-> archive[l]]
      /\ \A l \in Kinds : /\ DocsOK(l, weekly[l].docs, today) /\ RowsOK(l, weekly[l].rows, today)
                          /\ DocsOK(l, archive[l], today)
      /\ RowsOK(replaying.kind, replaying.rows, today)
  BY DEF ClassInv, DocumentsOK
<1>3. DocsOK(k, both, today)
  <2>1. DocsOK(k, docs, today) /\ DocsOK(k, kept, today)
    BY <1>2
  <2>. QED
    BY <2>1, DocsOver
<1>4. /\ archive' = [l \in Kinds |-> archive'[l]] /\ archive'[k] = both /\ \A l \in Kinds : l # k => archive'[l] = archive[l]
  BY <1>1, <1>2
<1>5. \A l \in Kinds : DocsOK(l, weekly'[l].docs, today) /\ RowsOK(l, weekly'[l].rows, today)
  <2>1. weekly'[k] = NoRun /\ \A l \in Kinds : l # k => weekly'[l] = weekly[l]
    BY <1>1 DEF DocInv
  <2>. QED
    BY <1>2, <2>1, NoRunOK
<1>6. DocumentsOK'
  BY <1>1, <1>2, <1>3, <1>4, <1>5 DEF DocumentsOK
<1>. QED
  BY <1>1, <1>6, DocumentsOnly

\* A section is stamped, and nothing else of it changes.
LEMMA NextClass == ASSUME DocInv, ClassInv, NEW k \in Kinds, NextCrn(k) PROVE ClassInv'
<1>. PICK run, crn : run = weekly[k] /\ crn = Head(run.todo)
  OBVIOUS
<1>1. /\ MarkFetched(k, crn) /\ RunShape(run) /\ today' = today /\ today \in Nat
      /\ UNCHANGED <<term, timetable, source, listing, archive, replaying>>
  BY DEF NextCrn, printed, DocInv, RunInv
<1>. PICK q : q = [run EXCEPT !.pc = "asking", !.todo = Tail(run.todo)]
  OBVIOUS
<1>2. weekly' = [weekly EXCEPT ![k] = q]
  BY DEF NextCrn
<1>3. q.rows = run.rows /\ q.docs = run.docs
  BY <1>1 DEF RunShape
<1>4. DocsOK(k, q.docs, today) /\ RowsOK(k, q.rows, today)
  BY <1>3 DEF ClassInv, DocumentsOK
<1>5. DocumentsOK'
  BY <1>1, <1>2, <1>4, OneWeekly DEF ClassInv
<1>6. PrintedInv'
  BY <1>1, SamePrinted DEF ClassInv
<1>7. CASE k = "xml" /\ crn \in DOMAIN section
  <2>. PICK held : held = section[crn]
    OBVIOUS
  <2>. PICK new : new = StampedXml(held)
    OBVIOUS
  <2>1. section' = [section EXCEPT ![crn] = new]
    BY <1>1, <1>7 DEF MarkFetched
  <2>2. SectionShape(held)
    BY <1>7 DEF DocInv, SectionInv
  <2>3. new.meetings = held.meetings
    BY <2>2 DEF SectionShape, StampedXml
  <2>4. new.stamps = [held.stamps EXCEPT !["xml"] = today] /\ held.stamps = [l \in Kinds |-> held.stamps[l]]
    <3>1. new.stamps = [held.stamps EXCEPT !["xml"] = today]
      BY <2>2, StampedRow
    <3>. QED
      BY <2>2, <3>1 DEF SectionShape
  <2>5. \A l \in Kinds : new.stamps[l] = today \/ new.stamps[l] = held.stamps[l]
    BY <2>4
  <2>6. /\ DOMAIN section' = DOMAIN section /\ section'[crn] = new
        /\ \A c \in DOMAIN section : c # crn => section'[c] = section[c]
    BY <1>7, <2>1 DEF DocInv, SectionInv
  <2>7. today \in 0 .. today
    BY <1>1
  <2>8. ASSUME NEW c \in DOMAIN section
        PROVE  ClassOK(section'[c].meetings, source[c]) /\ \A l \in Kinds : section'[c].stamps[l] \in 0 .. today
    <3>1. ClassOK(section[c].meetings, source[c]) /\ \A l \in Kinds : section[c].stamps[l] \in 0 .. today
      BY DEF ClassInv, ClassesOK
    <3>. QED
      BY <2>3, <2>5, <2>6, <2>7, <3>1
  <2>9. ClassesOK'
    BY <1>1, <2>6, <2>8 DEF ClassInv, ClassesOK
  <2>. QED
    BY <1>5, <1>6, <2>9 DEF ClassInv
<1>8. CASE ~(k = "xml" /\ crn \in DOMAIN section)
  <2>1. section' = section
    BY <1>1, <1>8 DEF MarkFetched
  <2>2. ClassesOK'
    BY <1>1, <2>1, SameClasses DEF ClassInv, sectionRows
  <2>. QED
    BY <1>5, <1>6, <2>2 DEF ClassInv
<1>. QED
  BY <1>7, <1>8

\* A replay has the rows of all the documents there are.
LEMMA AllRows ==
  ASSUME NEW k, NEW day, NEW docs, DocsOK(k, docs, day), NEW n \in Nat, NEW crns \in [1 .. n -> DOMAIN docs]
  PROVE  RowsOK(k, FlattenSeq([i \in DOMAIN crns |-> docs[crns[i]]]), day)
<1>. DEFINE S == UNION {ToSet(docs[c]) : c \in DOMAIN docs}
<1>1. ASSUME NEW c \in DOMAIN docs PROVE docs[c] \in Seq(S) /\ \A row \in ToSet(docs[c]) : RowOK(k, row, day)
  <2>. PICK list : list = docs[c]
    OBVIOUS
  <2>1. PICK R : list \in Seq(R) /\ \A row \in R : RowOK(k, row, day)
    BY DEF DocsOK, RowsOK
  <2>2. PICK m \in Nat : m = Len(list) /\ DOMAIN list = 1 .. m
    BY ONLY <2>1
  <2>3. ToSet(list) \subseteq R
    BY ONLY <2>1, <2>2 DEF ToSet
  <2>4. \A i \in 1 .. m : list[i] \in ToSet(list)
    BY ONLY <2>2 DEF ToSet
  <2>5. ToSet(list) \subseteq S
    OBVIOUS
  <2>. HIDE DEF S
  <2>6. list = [i \in 1 .. m |-> list[i]] /\ \A i \in 1 .. m : list[i] \in S
    <3>1. list = [i \in 1 .. m |-> list[i]]
      BY ONLY <2>1, <2>2
    <3>. QED
      BY ONLY <2>4, <2>5, <3>1
  <2>7. list \in Seq(S)
    BY ONLY <2>6, m \in Nat, ListOf
  <2>. QED
    BY ONLY <2>1, <2>3, <2>7, list = docs[c]
<1>2. \A row \in S : RowOK(k, row, day)
  BY <1>1
<1>. HIDE DEF S
<1>. PICK lists : lists = [i \in DOMAIN crns |-> docs[crns[i]]]
  OBVIOUS
<1>3. lists \in [1 .. n -> Seq(S)]
  BY <1>1
<1>4. FlattenSeq(lists) \in Seq(S)
  BY ONLY <1>3, n \in Nat, Flattened
<1>. PICK rows : rows = FlattenSeq(lists)
  OBVIOUS
<1>5. RowsOK(k, rows, day)
  BY ONLY <1>2, <1>4, rows = FlattenSeq(lists) DEF RowsOK
<1>. QED
  BY ONLY <1>5, rows = FlattenSeq(lists), lists = [i \in DOMAIN crns |-> docs[crns[i]]]

LEMMA BeginReplayClass == ASSUME DocumentsAssumption, DocInv, ClassInv, NEW k \in Kinds, BeginReplay(k) PROVE ClassInv'
<1>. PICK docs : docs = archive[k]
  OBVIOUS
<1>. PICK crns : crns = Ascending(DOMAIN docs)
  OBVIOUS
<1>. PICK rows : rows = FlattenSeq([i \in DOMAIN crns |-> docs[crns[i]]])
  OBVIOUS
<1>1. /\ replaying' = [kind |-> k, rows |-> rows] /\ today' = today
      /\ UNCHANGED <<printed, sectionRows, listing, weekly, archive>>
  BY DEF BeginReplay, printed
<1>2. DocsOK(k, docs, today)
  BY DEF ClassInv, DocumentsOK
<1>3. DOMAIN docs \in SUBSET Nat /\ IsFiniteSet(DOMAIN docs)
  <2>1. DOMAIN docs \subseteq Crns /\ IsFiniteSet(Crns) /\ Crns \subseteq Nat
    BY <1>2 DEF DocsOK, DocumentsAssumption
  <2>. QED
    BY ONLY <2>1, FS_Subset
<1>. PICK n \in Nat : n = Cardinality(DOMAIN docs)
  BY <1>3, FS_CardinalityType
<1>4. crns \in [1 .. n -> DOMAIN docs]
  BY <1>3, AscendingIs
<1>5. RowsOK(k, rows, today)
  BY <1>2, <1>4, AllRows
<1>6. DocumentsOK'
  BY <1>1, <1>5 DEF ClassInv, DocumentsOK
<1>. QED
  BY <1>1, <1>6, DocumentsOnly

LEMMA ClassKeeps ==
  ASSUME TimetableOK, DocumentsAssumption, DocInv, ClassInv, DocumentsStep PROVE ClassInv'
<1>1. CASE TimetableChanges \/ DayPasses \/ FetchListing \/ WriteListing \/ ReplayRow
  BY <1>1, TimetableClass, DayClass, FetchClass, WriteClass, ReplayClass
<1>2. CASE \E k \in Kinds : FailWeekly(k)
  BY <1>2, FailedClass DEF FailWeekly
<1>3. CASE \E k \in Kinds : BeginWeekly(k) \/ Answered(k) \/ MergeRow(k)
  BY <1>3, BeginWeeklyClass, AnsweredClass, MergeRowClass
<1>4. CASE \E k \in Kinds : NextCrn(k) \/ EndWeekly(k) \/ BeginReplay(k)
  BY <1>4, NextClass, EndClass, BeginReplayClass
<1>5. CASE \E k \in Kinds, result \in Live : Unanswered(k, result)
  BY <1>5, UnansweredClass
<1>. QED
  BY <1>1, <1>2, <1>3, <1>4, <1>5 DEF DocumentsStep

LEMMA ClassGoesOn ==
  ASSUME TimetableOK, DocumentsAssumption, DocInv, ClassInv, [IngestNext]_ingestVars PROVE ClassInv'
<1>1. CASE Reading
  BY <1>1, ClassKeeps DEF Reading
<1>2. CASE UNCHANGED docVars
  <2>1. UNCHANGED <<printed, sectionRows, listing, weekly, archive, replaying>> /\ today' = today /\ today \in Nat
    BY <1>2 DEF docVars, printed, sectionRows, DocInv
  <2>2. DocumentsOK'
    BY <2>1, SameDocuments DEF ClassInv
  <2>. QED
    BY <2>1, <2>2, DocumentsOnly
<1>3. ASSUME ~Reading PROVE UNCHANGED docVars
  BY <1>3 DEF IngestNext, UpsertCourses, UpsertAliases, EndReview, AtReview, Transact,
              Publishing, Polling, Searching, ingestVars
<1>. QED
  BY <1>1, <1>2, <1>3

LEMMA ClassStarts == ASSUME IngestInit PROVE ClassInv
<1>1. /\ term \in Terms /\ timetable = term.first /\ section = [c \in {} |-> Unknown]
      /\ listing = NoListing /\ weekly = [k \in Kinds |-> NoRun] /\ archive = [k \in Kinds |-> [c \in {} |-> <<>>]]
      /\ replaying = NoReplay /\ source = [c \in Crns |-> [slots |-> Unknown, dates |-> Unknown]]
  BY DEF IngestInit, DocumentsInit
<1>2. DOMAIN section = {} /\ DOMAIN listing = {}
  BY <1>1 DEF NoListing
<1>3. PrintedInv
  BY <1>1, <1>2 DEF PrintedInv
<1>4. DocumentsOK
  <2>. PICK kind, rows : kind = replaying.kind /\ rows = replaying.rows
    OBVIOUS
  <2>1. rows = <<>>
    BY <1>1 DEF NoReplay
  <2>2. rows \in Seq({})
    BY ONLY <2>1
  <2>3. RowsOK(kind, rows, today)
    BY <2>2, NoRowsOK
  <2>4. ASSUME NEW k \in Kinds
        PROVE  /\ DocsOK(k, weekly[k].docs, today) /\ RowsOK(k, weekly[k].rows, today)
               /\ DocsOK(k, archive[k], today)
    <3>1. weekly[k] = NoRun /\ DOMAIN archive[k] = {}
      BY <1>1
    <3>. QED
      BY <3>1, NoRunOK, NoDocsOK
  <2>5. archive = [k \in Kinds |-> archive[k]]
    BY <1>1
  <2>. QED
    BY <2>3, <2>4, <2>5 DEF DocumentsOK
<1>5. ClassesOK
  <2>1. source = [c \in Crns |-> [slots |-> source[c].slots, dates |-> source[c].dates]]
    BY <1>1
  <2>. QED
    BY <1>2, <2>1 DEF ClassesOK
<1>. QED
  BY <1>3, <1>4, <1>5 DEF ClassInv

\* The meetings of two sections, one list after the other.
Sched(c, i) == [owner |-> c, meeting |-> section[c].meetings[i], part |-> section[c].part]
LEMMA ToldIs ==
  ASSUME NEW c, NEW d, c # d, section[c].meetings \in Seq(MeetingSet), section[d].meetings \in Seq(MeetingSet)
  PROVE  Told(c, d) <=> \E i \in DOMAIN section[c].meetings, j \in DOMAIN section[d].meetings :
                            ConflictDays(Sched(c, i), Sched(d, j)) # {}
<1>. PICK x \in Seq(MeetingSet), y \in Seq(MeetingSet) : x = section[c].meetings /\ y = section[d].meetings
  OBVIOUS
<1>. PICK m \in Nat : m = Len(x) /\ DOMAIN x = 1 .. m
  OBVIOUS
<1>. PICK n \in Nat : n = Len(y) /\ DOMAIN y = 1 .. n
  OBVIOUS
<1>. PICK f, g : f = [i \in 1 .. m |-> Sched(c, i)] /\ g = [i \in 1 .. n |-> Sched(d, i)]
  OBVIOUS
<1>. PICK S : S = {Sched(c, i) : i \in 1 .. m} \cup {Sched(d, i) : i \in 1 .. n}
  OBVIOUS
<1>1. f \in Seq(S) /\ Len(f) = m /\ g \in Seq(S) /\ Len(g) = n
  <2>1. f = [i \in 1 .. m |-> f[i]] /\ \A i \in 1 .. m : f[i] \in S
    OBVIOUS
  <2>2. g = [i \in 1 .. n |-> g[i]] /\ \A i \in 1 .. n : g[i] \in S
    OBVIOUS
  <2>. QED
    BY ONLY <2>1, <2>2, m \in Nat, n \in Nat, ListOf
<1>. PICK all : all = f \o g
  OBVIOUS
<1>2. /\ DOMAIN all = 1 .. (m + n)
      /\ \A i \in 1 .. m : all[i] = f[i]
      /\ \A i \in 1 .. n : all[m + i] = g[i]
  BY ONLY <1>1, m \in Nat, n \in Nat, all = f \o g
<1>3. /\ \A i \in 1 .. m : all[i] = Sched(c, i)
      /\ \A i \in 1 .. n : all[m + i] = Sched(d, i)
  <2>1. \A i \in 1 .. m : all[i] = f[i] /\ f[i] = Sched(c, i)
    BY <1>2
  <2>2. \A i \in 1 .. n : all[m + i] = g[i] /\ g[i] = Sched(d, i)
    <3>1. \A i \in 1 .. n : g[i] = Sched(d, i)
      BY ONLY g = [i \in 1 .. n |-> Sched(d, i)]
    <3>. QED
      BY ONLY <1>2, <3>1
  <2>. QED
    BY ONLY <2>1, <2>2
<1>4. Told(c, d) <=> FindConflicts(all) # {}
  <2>1. Scheduled(c) = f /\ Scheduled(d) = g
    BY DEF Scheduled, Sched
  <2>. QED
    BY ONLY <2>1, all = f \o g DEF Told
<1>5. FindConflicts(all) # {} <=> \E i, j \in 1 .. (m + n) : /\ i < j /\ all[i].owner # all[j].owner
                                                            /\ ConflictDays(all[i], all[j]) # {}
  <2>1. ASSUME FindConflicts(all) # {}
        PROVE  \E i, j \in 1 .. (m + n) : i < j /\ all[i].owner # all[j].owner /\ ConflictDays(all[i], all[j]) # {}
    <3>. PICK conflict \in FindConflicts(all) : TRUE
      BY ONLY <2>1
    <3>. PICK p \in {q \in (DOMAIN all) \X (DOMAIN all) : q[1] < q[2]} :
           conflict = [a |-> all[p[1]].owner, b |-> all[p[2]].owner, days |-> ConflictDays(all[p[1]], all[p[2]])]
      BY ONLY conflict \in FindConflicts(all), Zenon DEF FindConflicts
    <3>1. conflict.a # conflict.b /\ conflict.days # {}
      BY ONLY conflict \in FindConflicts(all), Zenon DEF FindConflicts
    <3>5. p \in (DOMAIN all) \X (DOMAIN all) /\ p[1] < p[2]
      OBVIOUS
    <3>. PICK D : D = DOMAIN all
      OBVIOUS
    <3>. PICK i \in D, j \in D : p = <<i, j>>
      BY ONLY <3>5, D = DOMAIN all
    <3>2. i < j /\ conflict = [a |-> all[i].owner, b |-> all[j].owner, days |-> ConflictDays(all[i], all[j])]
      OBVIOUS
    <3>3. all[i].owner # all[j].owner /\ ConflictDays(all[i], all[j]) # {}
      BY ONLY <3>1, <3>2
    <3>4. i \in 1 .. (m + n) /\ j \in 1 .. (m + n)
      BY ONLY <1>2, i \in D, j \in D, D = DOMAIN all
    <3>. QED
      BY ONLY <3>2, <3>3, <3>4
  <2>2. ASSUME NEW i \in 1 .. (m + n), NEW j \in 1 .. (m + n), i < j, all[i].owner # all[j].owner, ConflictDays(all[i], all[j]) # {}
        PROVE  FindConflicts(all) # {}
    <3>. PICK p : p = <<i, j>>
      OBVIOUS
    <3>1. p \in {q \in (DOMAIN all) \X (DOMAIN all) : q[1] < q[2]} /\ p[1] = i /\ p[2] = j
      BY <1>2, <2>2
    <3>. PICK conflict : conflict = [a |-> all[p[1]].owner, b |-> all[p[2]].owner, days |-> ConflictDays(all[p[1]], all[p[2]])]
      OBVIOUS
    <3>2. conflict.a # conflict.b /\ conflict.days # {}
      BY <2>2, <3>1
    <3>3. conflict \in FindConflicts(all)
      BY ONLY <3>1, <3>2, conflict = [a |-> all[p[1]].owner, b |-> all[p[2]].owner, days |-> ConflictDays(all[p[1]], all[p[2]])]
         DEF FindConflicts
    <3>. QED
      BY <3>3
  <2>. QED
    BY <2>1, <2>2
<1>8. \A e, i : Sched(e, i).owner = e
  BY DEF Sched
<1>6. ASSUME NEW i \in 1 .. (m + n), NEW j \in 1 .. (m + n), i < j, all[i].owner # all[j].owner, ConflictDays(all[i], all[j]) # {}
      PROVE  \E k \in 1 .. m, l \in 1 .. n : ConflictDays(Sched(c, k), Sched(d, l)) # {}
  <2>1. \A k \in 1 .. (m + n) : k \in 1 .. m \/ (k - m \in 1 .. n /\ m + (k - m) = k)
    BY ONLY m \in Nat, n \in Nat
  <2>2. \A k \in 1 .. m : all[k].owner = c
    BY ONLY <1>3, <1>8
  <2>3. \A k \in 1 .. n : all[m + k].owner = d
    BY ONLY <1>3, <1>8
  <2>4. i \in 1 .. m /\ j \notin 1 .. m
    <3>1. CASE i \in 1 .. m /\ j \in 1 .. m
      BY <1>6, <2>2, <3>1
    <3>2. CASE i \notin 1 .. m
      <4>1. j \notin 1 .. m
        BY <1>6, <3>2
      <4>2. all[i].owner = d /\ all[j].owner = d
        BY ONLY <2>1, <2>3, <3>2, <4>1, i \in 1 .. (m + n), j \in 1 .. (m + n)
      <4>. QED
        BY <1>6, <4>2
    <3>. QED
      BY <3>1, <3>2
  <2>. PICK l \in 1 .. n : j = m + l
    BY <2>1, <2>4
  <2>5. all[i] = Sched(c, i) /\ all[j] = Sched(d, l)
    BY <1>3, <2>4
  <2>. QED
    BY <1>6, <2>4, <2>5
<1>7. ASSUME NEW k \in 1 .. m, NEW l \in 1 .. n, ConflictDays(Sched(c, k), Sched(d, l)) # {}
      PROVE  \E i, j \in 1 .. (m + n) : i < j /\ all[i].owner # all[j].owner /\ ConflictDays(all[i], all[j]) # {}
  <2>. PICK j \in 1 .. (m + n) : j = m + l
    BY ONLY m \in Nat, n \in Nat, l \in 1 .. n
  <2>0. k \in 1 .. (m + n) /\ k < j
    BY ONLY m \in Nat, n \in Nat, l \in 1 .. n, k \in 1 .. m, j = m + l
  <2>1. k \in 1 .. (m + n) /\ k < j /\ all[k] = Sched(c, k) /\ all[j] = Sched(d, l)
    BY ONLY <1>3, <2>0, l \in 1 .. n, k \in 1 .. m, j = m + l
  <2>2. all[k].owner = c /\ all[j].owner = d
    BY ONLY <2>1, <1>8
  <2>. QED
    BY ONLY <1>7, <2>1, <2>2, j \in 1 .. (m + n), c # d
<1>9. Told(c, d) <=> \E k \in 1 .. m, l \in 1 .. n : ConflictDays(Sched(c, k), Sched(d, l)) # {}
  <2>1. ASSUME Told(c, d) PROVE \E k \in 1 .. m, l \in 1 .. n : ConflictDays(Sched(c, k), Sched(d, l)) # {}
    <3>1. PICK i \in 1 .. (m + n), j \in 1 .. (m + n) :
            i < j /\ all[i].owner # all[j].owner /\ ConflictDays(all[i], all[j]) # {}
      BY ONLY <1>4, <1>5, <2>1
    <3>. QED
      BY ONLY <1>6, <3>1
  <2>2. ASSUME NEW k \in 1 .. m, NEW l \in 1 .. n, ConflictDays(Sched(c, k), Sched(d, l)) # {} PROVE Told(c, d)
    BY ONLY <1>4, <1>5, <1>7, <2>2
  <2>. QED
    BY ONLY <2>1, <2>2
<1>. QED
  BY ONLY <1>9, DOMAIN x = 1 .. m, DOMAIN y = 1 .. n, x = section[c].meetings, y = section[d].meetings

\* A section whose slots, and whose dates if any, are those of a class.
SettledOn(meetings, texts) ==
    /\ meetings \in Seq(MeetingSet) /\ texts \in Seq(Texts)
    /\ \A t \in ToSet(texts) : Readable(t) => \E n \in DOMAIN meetings : meetings[n].time = MeetingTime(t)
    /\ \A n \in DOMAIN meetings : meetings[n].dates # Unknown =>
          \E t \in ToSet(texts) : meetings[n].time = MeetingTime(t) /\ meetings[n].dates = t.dates
    /\ \A m, n \in DOMAIN texts : [texts[m] EXCEPT !.dates = Unknown] = [texts[n] EXCEPT !.dates = Unknown] => m = n
LEMMA SettledIs ==
  ASSUME TimetableOK, ClassInv, NEW c \in Crns, Settled(c), NEW texts, texts = timetable[c].texts
  PROVE  SettledOn(section[c].meetings, texts)
<1>. PICK meetings : meetings = section[c].meetings
  OBVIOUS
<1>. PICK from : from = source[c]
  OBVIOUS
<1>. PICK class : class = timetable[c]
  OBVIOUS
<1>1. ClassOK(meetings, from) /\ from.slots = class /\ from.dates \in {Unknown, class} /\ texts = class.texts
  BY DEF Settled, ClassInv, ClassesOK
<1>2. texts \in Seq(Texts)
  BY <1>1 DEF ClassOK, Classes
<1>3. SlotsOf(meetings, texts)
  BY <1>1 DEF ClassOK
<1>4. meetings \in Seq(MeetingSet)
  BY ONLY <1>3 DEF SlotsOf
<1>5. \A t \in ToSet(texts) : Readable(t) => \E n \in DOMAIN meetings : meetings[n].time = MeetingTime(t)
  BY ONLY <1>3 DEF SlotsOf
<1>6. ASSUME NEW n \in DOMAIN meetings, meetings[n].dates # Unknown
      PROVE  \E t \in ToSet(texts) : meetings[n].time = MeetingTime(t) /\ meetings[n].dates = t.dates
  <2>1. DatesOf(meetings, from.dates)
    BY ONLY <1>1 DEF ClassOK
  <2>2. from.dates # Unknown /\ \E t \in ToSet(from.dates.texts) : meetings[n].time = MeetingTime(t) /\ meetings[n].dates = t.dates
    BY ONLY <1>6, <2>1 DEF DatesOf
  <2>3. from.dates = class
    BY ONLY <1>1, <2>2
  <2>. QED
    BY ONLY <1>1, <2>2, <2>3
<1>7. \A m, n \in DOMAIN texts : [texts[m] EXCEPT !.dates = Unknown] = [texts[n] EXCEPT !.dates = Unknown] => m = n
  BY DEF Settled
<1>8. SettledOn(meetings, texts)
  BY ONLY <1>2, <1>4, <1>5, <1>6, <1>7 DEF SettledOn
<1>. QED
  BY <1>8

\* Then the dates of a meeting are those Rice prints for its slot.
LEMMA DatesMatch ==
  ASSUME TimetableOK, NEW meetings, NEW texts, SettledOn(meetings, texts), NEW n \in DOMAIN meetings,
         NEW t \in ToSet(texts), Readable(t), meetings[n].time = MeetingTime(t), meetings[n].dates # Unknown
  PROVE  meetings[n].dates = t.dates
<1>1. texts \in Seq(Texts)
  BY DEF SettledOn
<1>. PICK k \in Nat : k = Len(texts) /\ DOMAIN texts = 1 .. k
  BY ONLY <1>1
<1>. PICK s \in ToSet(texts) : meetings[n].time = MeetingTime(s) /\ meetings[n].dates = s.dates
  BY DEF SettledOn
<1>2. PICK i \in 1 .. k, j \in 1 .. k : s = texts[i] /\ t = texts[j]
  BY DEF ToSet
<1>3. s \in Texts /\ t \in Texts
  BY ONLY <1>1, <1>2, k = Len(texts)
<1>4. MeetingTime(t) \in Times /\ MeetingTime(t) = [days |-> t.days, start |-> t.from, end |-> t.to]
  BY <1>3, TimeType
<1>5. Readable(s)
  <2>1. MeetingTime(s) # Unknown
    BY <1>4 DEF TimetableOK
  <2>. QED
    BY <1>3, <2>1, TimeType
<1>6. MeetingTime(s) = [days |-> s.days, start |-> s.from, end |-> s.to]
  BY <1>3, <1>5, TimeType
<1>7. s.days = t.days /\ s.from = t.from /\ s.to = t.to
  <2>1. [days |-> s.days, start |-> s.from, end |-> s.to] = [days |-> t.days, start |-> t.from, end |-> t.to]
    BY <1>4, <1>6
  <2>. QED
    BY ONLY <2>1
<1>8. [s EXCEPT !.dates = Unknown] = [t EXCEPT !.dates = Unknown]
  BY ONLY <1>3, <1>7 DEF Texts
<1>9. i = j
  <2>1. \A m, l \in DOMAIN texts : [texts[m] EXCEPT !.dates = Unknown] = [texts[l] EXCEPT !.dates = Unknown] => m = l
    BY DEF SettledOn
  <2>2. [texts[i] EXCEPT !.dates = Unknown] = [texts[j] EXCEPT !.dates = Unknown]
    BY ONLY <1>2, <1>8
  <2>. QED
    BY ONLY <2>1, <2>2, DOMAIN texts = 1 .. k
<1>. QED
  BY <1>2, <1>9

\* Two texts that clash and the meetings that have their slots.
LEMMA ClashIsSeen ==
  ASSUME NEW s \in Texts, NEW t \in Texts, Clash(s, t), NEW a \in MeetingSet, NEW b \in MeetingSet, TimetableOK,
         a.time = MeetingTime(s), b.time = MeetingTime(t),
         a.dates # Unknown => a.dates = s.dates, b.dates # Unknown => b.dates = t.dates
  PROVE  ConflictsWith(a, b) /\ a.time.days \cap b.time.days # {}
<1>1. Readable(s) /\ Readable(t)
  BY DEF Clash
<1>2. /\ a.time = [days |-> s.days, start |-> s.from, end |-> s.to] /\ a.time \in Times
      /\ b.time = [days |-> t.days, start |-> t.from, end |-> t.to] /\ b.time \in Times
  BY <1>1, TimeType
<1>3. a.time # Unknown /\ b.time # Unknown
  BY <1>2 DEF TimetableOK
<1>4. /\ a.time.days = s.days /\ a.time.start = s.from /\ a.time.end = s.to
      /\ b.time.days = t.days /\ b.time.start = t.from /\ b.time.end = t.to
  BY ONLY <1>2
<1>5. s.from \in Nat /\ s.to \in Nat /\ t.from \in Nat /\ t.to \in Nat
  BY DEF Texts
<1>6. PICK day \in s.days \cap t.days, minute \in s.from .. (s.to - 1) : minute \in t.from .. (t.to - 1)
  BY DEF Clash
<1>7. s.from < t.to /\ t.from < s.to
  BY ONLY <1>5, <1>6
<1>8. Overlaps(a.time, b.time)
  BY <1>4, <1>6, <1>7 DEF Overlaps
<1>9. ASSUME a.dates # Unknown, b.dates # Unknown PROVE SpansOverlap(a.dates, b.dates)
  <2>. PICK x, y : x = s.dates /\ y = t.dates
    OBVIOUS
  <2>1. x # Unknown /\ y # Unknown /\ x \in Spans /\ y \in Spans /\ a.dates = x /\ b.dates = y
    BY <1>9 DEF Texts
  <2>2. (x[1] .. x[2]) \cap (y[1] .. y[2]) # {}
    BY <2>1 DEF Clash
  <2>3. x[1] \in Nat /\ x[2] \in Nat /\ y[1] \in Nat /\ y[2] \in Nat
    BY <2>1 DEF Spans
  <2>4. x[1] <= y[2] /\ y[1] <= x[2]
    BY ONLY <2>2, <2>3
  <2>. QED
    BY <2>1, <2>4 DEF SpansOverlap
<1>. QED
  BY <1>3, <1>4, <1>6, <1>8, <1>9 DEF ConflictsWith

\* And two meetings that overlap, and the texts they are from.
LEMMA ClashIsReal ==
  ASSUME NEW s \in Texts, NEW t \in Texts, NEW a \in MeetingSet, NEW b \in MeetingSet, ConflictsWith(a, b),
         a.time = MeetingTime(s), b.time = MeetingTime(t), a.dates = s.dates, b.dates = t.dates,
         a.dates # Unknown, b.dates # Unknown, a.dates[1] <= a.dates[2], b.dates[1] <= b.dates[2]
  PROVE  Clash(s, t)
<1>1. a.time # Unknown /\ b.time # Unknown /\ Overlaps(a.time, b.time) /\ SpansOverlap(a.dates, b.dates)
  BY DEF ConflictsWith
<1>2. Readable(s) /\ Readable(t)
  BY <1>1, TimeType
<1>3. /\ a.time = [days |-> s.days, start |-> s.from, end |-> s.to]
      /\ b.time = [days |-> t.days, start |-> t.from, end |-> t.to]
  BY <1>2, TimeType
<1>4. /\ a.time.days = s.days /\ a.time.start = s.from /\ a.time.end = s.to
      /\ b.time.days = t.days /\ b.time.start = t.from /\ b.time.end = t.to
  BY ONLY <1>3
<1>5. s.from \in Nat /\ s.to \in Nat /\ t.from \in Nat /\ t.to \in Nat
  BY DEF Texts
<1>6. s.days \cap t.days # {} /\ s.from < t.to /\ t.from < s.to
  BY <1>1, <1>4 DEF Overlaps
<1>7. s.from < s.to /\ t.from < t.to
  BY <1>2 DEF Readable
<1>8. \E minute \in s.from .. (s.to - 1) : minute \in t.from .. (t.to - 1)
  <2>1. CASE s.from <= t.from
    <3>1. t.from \in s.from .. (s.to - 1) /\ t.from \in t.from .. (t.to - 1)
      BY ONLY <1>5, <1>6, <1>7, <2>1
    <3>. QED
      BY ONLY <3>1
  <2>2. CASE ~(s.from <= t.from)
    <3>1. s.from \in s.from .. (s.to - 1) /\ s.from \in t.from .. (t.to - 1)
      BY ONLY <1>5, <1>6, <1>7, <2>2
    <3>. QED
      BY ONLY <3>1
  <2>. QED
    BY ONLY <2>1, <2>2
<1>9. (s.dates[1] .. s.dates[2]) \cap (t.dates[1] .. t.dates[2]) # {}
  <2>. PICK x, y : x = s.dates /\ y = t.dates
    OBVIOUS
  <2>1. x[1] \in Nat /\ x[2] \in Nat /\ y[1] \in Nat /\ y[2] \in Nat
    BY DEF Texts, Spans
  <2>2. x[1] <= y[2] /\ y[1] <= x[2] /\ x[1] <= x[2] /\ y[1] <= y[2]
    BY <1>1 DEF SpansOverlap
  <2>3. CASE x[1] <= y[1]
    <3>1. y[1] \in x[1] .. x[2] /\ y[1] \in y[1] .. y[2]
      BY ONLY <2>1, <2>2, <2>3
    <3>. QED
      BY <3>1
  <2>4. CASE ~(x[1] <= y[1])
    <3>1. x[1] \in x[1] .. x[2] /\ x[1] \in y[1] .. y[2]
      BY ONLY <2>1, <2>2, <2>4
    <3>. QED
      BY <3>1
  <2>. QED
    BY <2>3, <2>4
<1>. QED
  BY <1>2, <1>6, <1>8, <1>9 DEF Clash

\* What really clashes is told.
LEMMA TellsClashes ==
  ASSUME TimetableOK, ClassInv, NEW c \in Crns, NEW d \in Crns, c # d, Settled(c), Settled(d),
         NEW s \in ToSet(timetable[c].texts), NEW t \in ToSet(timetable[d].texts), Clash(s, t),
         (Dated(c) /\ Dated(d)) \/ section[c].part = section[d].part
  PROVE  Told(c, d)
<1>. PICK texts, others : texts = timetable[c].texts /\ others = timetable[d].texts
  OBVIOUS
<1>. PICK x, y : x = section[c].meetings /\ y = section[d].meetings
  OBVIOUS
<1>1. SettledOn(x, texts) /\ SettledOn(y, others)
  BY SettledIs
<1>2. x \in Seq(MeetingSet) /\ y \in Seq(MeetingSet) /\ texts \in Seq(Texts) /\ others \in Seq(Texts)
  BY ONLY <1>1 DEF SettledOn
<1>3. s \in Texts /\ t \in Texts
  BY ONLY <1>2, s \in ToSet(timetable[c].texts), t \in ToSet(timetable[d].texts),
          texts = timetable[c].texts, others = timetable[d].texts DEF ToSet
<1>4. Readable(s) /\ Readable(t)
  BY DEF Clash
<1>5. PICK i \in DOMAIN x : x[i].time = MeetingTime(s)
  BY <1>1, <1>4 DEF SettledOn
<1>6. PICK j \in DOMAIN y : y[j].time = MeetingTime(t)
  BY <1>1, <1>4 DEF SettledOn
<1>. PICK a, b : a = x[i] /\ b = y[j]
  OBVIOUS
<1>7. a \in MeetingSet /\ b \in MeetingSet
  BY ONLY <1>2, a = x[i], b = y[j], i \in DOMAIN x, j \in DOMAIN y
<1>8. (a.dates # Unknown => a.dates = s.dates) /\ (b.dates # Unknown => b.dates = t.dates)
  <2>1. a.dates # Unknown => a.dates = s.dates
    BY <1>1, <1>4, <1>5, DatesMatch
  <2>2. b.dates # Unknown => b.dates = t.dates
    BY <1>1, <1>4, <1>6, DatesMatch
  <2>. QED
    BY <2>1, <2>2
<1>9. ConflictsWith(a, b) /\ a.time.days \cap b.time.days # {}
  BY <1>3, <1>5, <1>6, <1>7, <1>8, ClashIsSeen
<1>. PICK p, q : p = Sched(c, i) /\ q = Sched(d, j)
  OBVIOUS
<1>10. p.meeting = a /\ q.meeting = b /\ p.part = section[c].part /\ q.part = section[d].part
  BY DEF Sched
<1>11. ConflictDays(p, q) # {}
  <2>1. CASE Dated(c) /\ Dated(d)
    <3>1. a.dates # Unknown /\ b.dates # Unknown
      BY <2>1 DEF Dated
    <3>. QED
      BY ONLY <1>9, <1>10, <3>1 DEF ConflictDays
  <2>2. CASE section[c].part = section[d].part
    BY ONLY <1>9, <1>10, <2>2 DEF ConflictDays
  <2>. QED
    BY <2>1, <2>2
<1>. QED
  BY <1>2, <1>11, ToldIs

\* What is told is a clash, where every date is there and none runs backwards.
LEMMA TellsNoOthers ==
  ASSUME TimetableOK, ClassInv, NEW c \in Crns, NEW d \in Crns, c # d, Settled(c), Settled(d),
         Told(c, d), Spanned(c), Spanned(d)
  PROVE  \E s \in ToSet(timetable[c].texts), t \in ToSet(timetable[d].texts) : Clash(s, t)
<1>. PICK texts, others : texts = timetable[c].texts /\ others = timetable[d].texts
  OBVIOUS
<1>. PICK x, y : x = section[c].meetings /\ y = section[d].meetings
  OBVIOUS
<1>1. SettledOn(x, texts) /\ SettledOn(y, others)
  BY SettledIs
<1>2. x \in Seq(MeetingSet) /\ y \in Seq(MeetingSet) /\ texts \in Seq(Texts) /\ others \in Seq(Texts)
  BY ONLY <1>1 DEF SettledOn
<1>3. PICK i \in DOMAIN x, j \in DOMAIN y : ConflictDays(Sched(c, i), Sched(d, j)) # {}
  BY <1>2, ToldIs
<1>. PICK a, b : a = x[i] /\ b = y[j]
  OBVIOUS
<1>4. a \in MeetingSet /\ b \in MeetingSet
  BY ONLY <1>2, a = x[i], b = y[j], i \in DOMAIN x, j \in DOMAIN y
<1>5. ConflictsWith(a, b)
  <2>. PICK p, q : p = Sched(c, i) /\ q = Sched(d, j)
    OBVIOUS
  <2>1. p.meeting = a /\ q.meeting = b
    BY DEF Sched
  <2>2. ConflictDays(p, q) # {}
    BY <1>3
  <2>. QED
    BY ONLY <2>1, <2>2 DEF ConflictDays
<1>6. /\ a.dates # Unknown /\ a.dates[1] <= a.dates[2]
      /\ b.dates # Unknown /\ b.dates[1] <= b.dates[2]
  BY DEF Spanned, Dated
<1>7. PICK s \in ToSet(texts) : a.time = MeetingTime(s) /\ a.dates = s.dates
  BY <1>1, <1>6 DEF SettledOn
<1>8. PICK t \in ToSet(others) : b.time = MeetingTime(t) /\ b.dates = t.dates
  BY <1>1, <1>6 DEF SettledOn
<1>9. s \in Texts /\ t \in Texts
  BY ONLY <1>2, s \in ToSet(texts), t \in ToSet(others) DEF ToSet
<1>10. Clash(s, t)
  BY <1>4, <1>5, <1>6, <1>7, <1>8, <1>9, ClashIsReal
<1>. QED
  BY <1>10

LEMMA TellsTrue == ASSUME TimetableOK, DocInv, ClassInv, DocumentsAssumption PROVE ConflictsAreTold
<1>1. DocumentsTypeOK
  <2>1. \A c \in DOMAIN section : c \in Crns /\ \A k \in Kinds : section[c].stamps[k] \in 0 .. today
    BY DEF DocInv, ClassInv, ClassesOK
  <2>2. today \in Nat /\ \A k \in Kinds : weekly[k].pc \in {"idle", "asking", "merging"}
    BY DEF DocInv, RunInv
  <2>. QED
    BY ONLY <2>1, <2>2 DEF DocumentsTypeOK
<1>2. ASSUME NEW c \in Crns, NEW d \in Crns, c < d, Settled(c), Settled(d)
      PROVE  LET clash == \E s \in ToSet(timetable[c].texts), t \in ToSet(timetable[d].texts) : Clash(s, t)
             IN  /\ clash /\ ((Dated(c) /\ Dated(d)) \/ section[c].part = section[d].part) => Told(c, d)
                 /\ Told(c, d) /\ Spanned(c) /\ Spanned(d) => clash
  <2>1. c # d
    BY <1>2 DEF DocumentsAssumption
  <2>2. ASSUME NEW s \in ToSet(timetable[c].texts), NEW t \in ToSet(timetable[d].texts), Clash(s, t),
               (Dated(c) /\ Dated(d)) \/ section[c].part = section[d].part
        PROVE  Told(c, d)
    BY <1>2, <2>1, <2>2, TellsClashes
  <2>3. Told(c, d) /\ Spanned(c) /\ Spanned(d)
          => \E s \in ToSet(timetable[c].texts), t \in ToSet(timetable[d].texts) : Clash(s, t)
    BY <1>2, <2>1, TellsNoOthers
  <2>. QED
    BY ONLY <2>2, <2>3
<1>. QED
  BY ONLY <1>1, <1>2 DEF ConflictsAreTold, Clashing

(* The clashes a student is shown are those of what Rice prints now, once   *)
(* the rows of two sections are from what Rice prints now: whatever         *)
(* listings, feeds, detail pages and replays were written before, in        *)
(* whatever order, cut off or not.  Two meetings that clash are told if     *)
(* both are dated or the store holds one part of term for both, two labels  *)
(* or two codes; two that are told clash, if every date is there and none   *)
(* runs backwards.  A label beside a code is outside it (SessionsDecide).   *)
THEOREM ClashesAreTold == IngestSpec => []ConflictsAreTold
<1>1. IngestInit => DocInv /\ ClassInv
  BY DocumentsStart, ClassStarts
<1>2. DocInv /\ ClassInv /\ [IngestNext]_ingestVars => DocInv' /\ ClassInv'
  BY DocumentsGoOn, ClassGoesOn, DocumentsAssumption, TimetableAssumption
<1>3. DocInv /\ ClassInv => ConflictsAreTold
  BY TellsTrue, DocumentsAssumption, TimetableAssumption
<1>. QED
  BY <1>1, <1>2, <1>3, PTL DEF IngestSpec
=============================================================================
