--------------------------- MODULE PlanStore_proofs ---------------------------
(***************************************************************************)
(* Proofs about PlanStore, for every set of accounts, requests and (finite *)
(* set of) plan ids: the inductive invariant, and the refinement of        *)
(* PlanBook.                                                               *)
(***************************************************************************)
EXTENDS PlanStore, FiniteSetTheorems, TLAPS

StepsOf(kind) ==
  CASE kind = "create"    -> {"lock", "insert", "commit_create", "envelope"}
    [] kind = "save"      -> {"exists", "update"}
    [] kind = "duplicate" -> {"read_source", "insert_copy", "envelope"}
    [] kind = "activate"  -> {"lock", "clear", "mark", "commit_activate"}
    [] kind = "remove"    -> {"lock", "count", "read_target", "delete_row",
                              "promote", "commit_remove"}

(* A finished request has nothing staged; a running one runs the steps of  *)
(* its kind, and only the steps that lock rows have any.                   *)
Shape(r) ==
  /\ pc[r] \in Outcomes => req[r] = NoRequest /\ tx[r] = NoTx
  /\ pc[r] \notin Outcomes =>
       /\ req[r] \in Request
       /\ pc[r] \in StepsOf(req[r].kind)
       /\ req[r].kind # "create" => req[r].plan \in PlanIds
  /\ pc[r] \in (Single \ {"envelope"}) \cup {"lock", "insert", "count", "clear"}
       => tx[r] = NoTx
  /\ pc[r] \in {"commit_create", "envelope"} => tx[r].rows = {}
  /\ pc[r] \in {"envelope"} => tx[r].target \in minted
  /\ pc[r] = "read_target" => tx[r].rows = {} /\ tx[r].promote = None
  /\ pc[r] \in ActivateSteps \cup RemoveSteps => tx[r].target = None

(* The rows a transaction has locked are rows of its account.              *)
RowsInv(r) ==
  pc[r] \in Locked => tx[r].rows \subseteq PlansOf(req[r].account)

(* Rows belong to existing accounts, ids are minted once.                  *)
TableInv ==
  /\ \A p \in PlanIds : plans[p].account # None =>
       p \in minted /\ plans[p].account \in accounts
  /\ \A a \in Accounts : \A p, q \in ActiveOf(a) : p = q

CreateInv(r) ==
  /\ pc[r] = "commit_create" =>
       /\ req[r].account \in accounts
       /\ tx[r].target \in PlanIds \ minted
       /\ \A s \in Requests : tx[s].target = tx[r].target => s = r
       /\ tx[r].flag <=> PlansOf(req[r].account) = {}
  /\ pc[r] = "insert_copy" /\ req[r].account \in accounts =>
       PlansOf(req[r].account) # {}

ActivateInv(r) ==
  /\ pc[r] = "mark" => ~tx[r].flag /\ tx[r].rows = ActiveOf(req[r].account)
  /\ pc[r] = "commit_activate" =>
       /\ tx[r].flag => req[r].plan \in PlansOf(req[r].account)
       /\ tx[r].rows = ActiveOf(req[r].account) \cup
                       (IF tx[r].flag THEN {req[r].plan} ELSE {})

(* What a deletion counted is still there: nobody else can delete.         *)
RemoveInv(r) ==
  /\ pc[r] = "read_target" /\ tx[r].count > 1
       /\ req[r].account \in accounts =>
       \E p, q \in PlansOf(req[r].account) : p # q
  /\ pc[r] \in {"delete_row", "promote", "commit_remove"} =>
       /\ req[r].plan \in PlansOf(req[r].account)
       /\ req[r].plan \in tx[r].rows
       /\ tx[r].flag = plans[req[r].plan].active
       /\ \E q \in PlansOf(req[r].account) : q # req[r].plan
  /\ pc[r] \in {"delete_row", "promote"} => tx[r].promote = None
  /\ pc[r] = "promote" => tx[r].flag
  /\ pc[r] = "commit_remove" =>
       IF tx[r].flag
         THEN tx[r].promote \in PlansOf(req[r].account) \ {req[r].plan}
         ELSE tx[r].promote = None

ReqInv(r) ==
  Shape(r) /\ RowsInv(r) /\ CreateInv(r) /\ ActivateInv(r) /\ RemoveInv(r)

IInv == HandlersTyped /\ LockMatchesPc /\ TableInv /\ \A r \in Requests : ReqInv(r)

-----------------------------------------------------------------------------
(* Only request r moves.                                                   *)
Only(r) ==
  \A s \in Requests \ {r} : pc'[s] = pc[s] /\ req'[s] = req[s] /\ tx'[s] = tx[s]

(* r stages no id another request has staged.                              *)
TargetStaysUnique(r) ==
  \/ tx'[r].target \in {None, tx[r].target}
  \/ \A q \in Requests : tx[q].target # tx'[r].target

(* The plans, and the active plans, an account has after the step.         *)
NextPlans(b)  == {q \in PlanIds : plans'[q].account = b}
NextActive(b) == {q \in PlanIds : plans'[q].account = b /\ plans'[q].active}

(* What s may rely on while another request moves: the plans its account   *)
(* had are still there, with the same active one, if s holds the lock.     *)
AccountKept(s) ==
  LET b == req[s].account IN
  /\ pc[s] \in Locked =>
       /\ PlansOf(b) \subseteq NextPlans(b)
       /\ NextActive(b) = ActiveOf(b)
       /\ \A q \in PlansOf(b) : plans'[q].active = plans[q].active
       /\ PlansOf(b) = {} => NextPlans(b) = {}
  /\ pc[s] = "insert_copy" /\ PlansOf(b) # {} => NextPlans(b) # {}
  /\ pc[s] = "commit_create" => tx[s].target \notin minted'

(* A step of r disturbs no other request whose account is kept.            *)
LEMMA OthersUndisturbed ==
  ASSUME IInv, NEW r \in Requests, NEW s \in Requests, s # r,
         Only(r), TargetStaysUnique(r), AccountKept(s),
         accounts' = accounts, minted \subseteq minted'
  PROVE  ReqInv(s)'
<1> pc'[s] = pc[s] /\ req'[s] = req[s] /\ tx'[s] = tx[s]
  BY DEF Only
<1> ReqInv(s)
  BY DEF IInv
<1> /\ PlansOf(req[s].account)' = NextPlans(req[s].account)
    /\ ActiveOf(req[s].account)' = NextActive(req[s].account)
  BY DEF PlansOf, ActiveOf, NextPlans, NextActive
<1> USE DEF AccountKept, Locked, CreateSteps, ActivateSteps, RemoveSteps
<1>1. Shape(s)'
  BY DEF ReqInv, Shape
<1>2. RowsInv(s)'
  BY DEF ReqInv, RowsInv
<1>3. CreateInv(s)'
  <2>1. ASSUME pc[s] = "commit_create"
        PROVE  \A q \in Requests : tx'[q].target = tx'[s].target => q = s
    <3>1. tx[s].target \in PlanIds /\ \A q \in Requests : tx[q].target = tx[s].target => q = s
      BY <2>1 DEF ReqInv, CreateInv
    <3>2. tx[s].target # None
      BY <3>1, PlanStoreAssumption
    <3>3. QED
      BY <3>1, <3>2 DEF Only, TargetStaysUnique
  <2>2. pc[s] = "commit_create" => (PlansOf(req[s].account)' = {}) = (PlansOf(req[s].account) = {})
    OBVIOUS
  <2>3. QED
    BY <2>1, <2>2 DEF ReqInv, CreateInv
<1>4. ActivateInv(s)'
  BY DEF ReqInv, ActivateInv
<1>5. RemoveInv(s)'
  BY DEF ReqInv, RemoveInv
<1>6. QED
  BY <1>1, <1>2, <1>3, <1>4, <1>5 DEF ReqInv

(* With the table unchanged every account is kept.                         *)
LEMMA TableUnchanged ==
  ASSUME IInv, NEW s \in Requests, req'[s] = req[s], UNCHANGED table
  PROVE  AccountKept(s)
BY DEF AccountKept, table, PlansOf, ActiveOf, NextPlans, NextActive, IInv, ReqInv, CreateInv

(* A handler that ends satisfies its part of the invariant.                *)
LEMMA FinishedRequest ==
  ASSUME IInv, NEW r \in Requests, NEW outcome \in Outcomes,
         Finish(r, outcome)
  PROVE  /\ ReqInv(r)'
         /\ Only(r) /\ TargetStaysUnique(r)
         /\ pc' \in [Requests -> PCs]
         /\ req' \in [Requests -> Request \cup {NoRequest}]
         /\ tx' \in [Requests -> Tx]
         /\ pc'[r] \notin Locked
<1> USE DEF IInv, HandlersTyped, Finish
<1>1. pc'[r] = outcome /\ req'[r] = NoRequest /\ tx'[r] = NoTx
  OBVIOUS
<1>2. NoTx \in Tx
  BY DEF NoTx, Tx
<1>3. outcome \notin Locked \cup {"lock"} \cup Single
  BY DEF Outcomes, Locked, CreateSteps, RemoveSteps, ActivateSteps, Single
<1>4. Shape(r)'
  BY <1>1, <1>3 DEF Shape, Locked, CreateSteps, RemoveSteps, ActivateSteps, Single
<1>5. RowsInv(r)' /\ CreateInv(r)' /\ ActivateInv(r)' /\ RemoveInv(r)'
  BY <1>1, <1>3 DEF RowsInv, CreateInv, ActivateInv, RemoveInv,
     Locked, CreateSteps, RemoveSteps, ActivateSteps, Single
<1>6. TargetStaysUnique(r)
  BY <1>1 DEF TargetStaysUnique, NoTx
<1>7. QED
  BY <1>1, <1>2, <1>3, <1>4, <1>5, <1>6 DEF ReqInv, Only, PCs

-----------------------------------------------------------------------------
(* The parts of IInv' that a step of r owes, when only r moves and the     *)
(* table stays as it is.                                                   *)
LEMMA QuietStep ==
  ASSUME IInv, NEW r \in Requests,
         Only(r), TargetStaysUnique(r), UNCHANGED table,
         pc' \in [Requests -> PCs],
         req' \in [Requests -> Request \cup {NoRequest}],
         tx' \in [Requests -> Tx],
         lock' \in [Accounts -> Requests \cup {None}],
         LockMatchesPc', ReqInv(r)'
  PROVE  IInv'
<1>1. HandlersTyped'
  BY DEF IInv, HandlersTyped, table
<1>2. TableInv'
  BY DEF IInv, TableInv, table, PlansOf, ActiveOf
<1>3. \A s \in Requests : ReqInv(s)'
  BY OthersUndisturbed, TableUnchanged DEF table, Only
<1>4. QED
  BY <1>1, <1>2, <1>3 DEF IInv

(* A transaction that ends gives back its lock and nothing else.           *)
LEMMA Released ==
  ASSUME IInv, NEW r \in Requests, Release(r), Only(r), pc'[r] \notin Locked
  PROVE  LockMatchesPc' /\ lock' \in [Accounts -> Requests \cup {None}]
<1> USE DEF IInv, HandlersTyped, Release
<1>1. lock' \in [Accounts -> Requests \cup {None}]
  OBVIOUS
<1>2. ASSUME NEW a \in Accounts, NEW s \in Requests
      PROVE  (lock[a] = s <=> pc[s] \in Locked /\ req[s].account = a)'
  BY <1>2, PlanStoreAssumption DEF LockMatchesPc, Only
<1>3. QED
  BY <1>1, <1>2 DEF LockMatchesPc

(* A step that keeps the lock keeps both its holder and its account.       *)
LEMMA LockKept ==
  ASSUME IInv, NEW r \in Requests, UNCHANGED lock, Only(r),
         (pc'[r] \in Locked /\ req'[r].account = req[r].account) <=> pc[r] \in Locked,
         pc'[r] \in Locked => pc[r] \in Locked
  PROVE  LockMatchesPc' /\ lock' \in [Accounts -> Requests \cup {None}]
<1>1. lock' \in [Accounts -> Requests \cup {None}]
  BY DEF IInv, HandlersTyped
<1>2. ASSUME NEW a \in Accounts, NEW s \in Requests
      PROVE  (lock[a] = s <=> pc[s] \in Locked /\ req[s].account = a)'
  <2>1. lock[a] = s <=> pc[s] \in Locked /\ req[s].account = a
    BY DEF IInv, LockMatchesPc
  <2>2. CASE s = r
    BY <2>1, <2>2
  <2>3. CASE s # r
    BY <2>1, <2>3 DEF Only
  <2>4. QED
    BY <2>2, <2>3
<1>3. QED
  BY <1>1, <1>2 DEF LockMatchesPc

(* A handler that ends without writing: the early returns.                 *)
LEMMA QuietEnd ==
  ASSUME IInv, NEW r \in Requests, NEW outcome \in Outcomes,
         Finish(r, outcome), UNCHANGED table,
         Release(r) \/ (UNCHANGED lock /\ pc[r] \notin Locked)
  PROVE  IInv'
<1>1. /\ ReqInv(r)' /\ Only(r) /\ TargetStaysUnique(r)
      /\ pc' \in [Requests -> PCs]
      /\ req' \in [Requests -> Request \cup {NoRequest}]
      /\ tx' \in [Requests -> Tx]
      /\ pc'[r] \notin Locked
  BY FinishedRequest
<1>2. LockMatchesPc' /\ lock' \in [Accounts -> Requests \cup {None}]
  <2>1. CASE Release(r)
    BY <1>1, <2>1, Released
  <2>2. CASE UNCHANGED lock /\ pc[r] \notin Locked
    BY <1>1, <2>2, LockKept
  <2>3. QED
    BY <2>1, <2>2
<1>3. QED
  BY <1>1, <1>2, QuietStep

USE DEF Locked, CreateSteps, RemoveSteps, ActivateSteps, Single, Outcomes, PCs

LEMMA BeginInv ==
  ASSUME IInv, NEW r \in Requests, Begin(r)
  PROVE  IInv'
<1> USE DEF IInv, HandlersTyped, Begin, Goto, FirstStatement
<1>1. PICK kind \in Kinds, a \in accounts, p \in PlanIds, v \in 1..MaxVersion :
        /\ req' = [req EXCEPT ![r] =
                    [kind    |-> kind,
                     account |-> a,
                     plan    |-> IF kind = "create" THEN None ELSE p,
                     version |-> IF kind = "save" THEN v ELSE 0]]
        /\ pc' = [pc EXCEPT ![r] = FirstStatement(kind)]
  OBVIOUS
<1>2. req'[r] \in Request /\ req'[r].kind = kind
  BY <1>1 DEF Request, Kinds
<1>3. pc'[r] \in {"lock", "exists", "read_source"} /\ pc'[r] \in StepsOf(kind)
  BY <1>1 DEF Kinds, StepsOf
<1>4. tx'[r] = NoTx /\ NoTx \in Tx
  BY DEF NoTx, Tx
<1>5. ReqInv(r)'
  <2>1. Shape(r)'
    BY <1>1, <1>2, <1>3, <1>4 DEF Shape
  <2>2. QED
    BY <2>1, <1>3 DEF ReqInv, RowsInv, CreateInv, ActivateInv, RemoveInv
<1>6. Only(r) /\ TargetStaysUnique(r)
  BY <1>1, <1>4 DEF Only, TargetStaysUnique, NoTx
<1>7. LockMatchesPc' /\ lock' \in [Accounts -> Requests \cup {None}]
  BY <1>3, <1>6, LockKept
<1>8. QED
  BY <1>1, <1>2, <1>3, <1>4, <1>5, <1>6, <1>7, QuietStep DEF table

LEMMA LockAccountInv ==
  ASSUME IInv, NEW r \in Requests, LockAccount(r)
  PROVE  IInv'
<1> USE DEF IInv, HandlersTyped, LockAccount, Goto, FirstLocked
<1>1. req[r] \in Request /\ pc[r] \in StepsOf(req[r].kind) /\ tx[r] = NoTx
  BY DEF ReqInv, Shape
<1>2. req[r].kind \in {"create", "remove", "activate"} /\ req[r].account \in Accounts
  BY <1>1 DEF Request, Kinds, StepsOf
<1>3. pc'[r] \in {"insert", "count", "clear"} /\ pc'[r] \in StepsOf(req[r].kind)
  BY <1>2 DEF StepsOf
<1>4. ReqInv(r)'
  <2>1. Shape(r)'
    BY <1>1, <1>2, <1>3 DEF ReqInv, Shape, NoTx
  <2>2. QED
    BY <2>1, <1>1, <1>3 DEF ReqInv, RowsInv, CreateInv, ActivateInv, RemoveInv, NoTx
<1>5. Only(r) /\ TargetStaysUnique(r)
  BY DEF Only, TargetStaysUnique
<1>6. LockMatchesPc' /\ lock' \in [Accounts -> Requests \cup {None}]
  BY <1>2, <1>3, <1>5, PlanStoreAssumption DEF LockMatchesPc, Only
<1>7. QED
  BY <1>3, <1>4, <1>5, <1>6, QuietStep

LEMMA InsertFirstInv ==
  ASSUME IInv, NEW r \in Requests, InsertFirst(r)
  PROVE  IInv'
<1> USE DEF IInv
<1> DEFINE a == req[r].account
<1>1. CASE a \notin accounts
  BY <1>1, QuietEnd DEF InsertFirst
<1>2. CASE a \in accounts
  <2>1. PICK p \in PlanIds :
          /\ Fresh(p)
          /\ tx' = [tx EXCEPT ![r].target = p, ![r].flag = (PlansOf(a) = {})]
    BY <1>2 DEF InsertFirst
  <2>2. /\ pc' = [pc EXCEPT ![r] = "commit_create"] /\ pc[r] = "insert"
        /\ UNCHANGED <<accounts, plans, minted, lock, req>>
    BY <1>2 DEF InsertFirst, Goto, table
  <2>3. tx[r] = NoTx /\ req[r] \in Request /\ req[r].kind = "create"
    BY <2>2 DEF ReqInv, Shape, StepsOf, Request, Kinds
  <2>4. /\ tx'[r].target = p /\ tx'[r].rows = {}
        /\ tx'[r].flag <=> PlansOf(a) = {}
        /\ tx' \in [Requests -> Tx] /\ pc' \in [Requests -> PCs]
    <3>1. PICK b \in BOOLEAN : b <=> PlansOf(a) = {}
      OBVIOUS
    <3>2. tx' = [tx EXCEPT ![r].target = p, ![r].flag = b]
      <4>1. b = (PlansOf(a) = {})
        BY <3>1, Zenon
      <4>2. QED
        BY <4>1, <2>1, Zenon
    <3>3. tx[r].rows = {}
      BY <2>3 DEF NoTx
    <3>4. tx' \in [Requests -> Tx] /\ pc' \in [Requests -> PCs]
      BY <2>2, <3>2 DEF HandlersTyped, Tx
    <3>5. tx'[r].target = p /\ tx'[r].rows = {} /\ tx'[r].flag = b
      BY <3>2, <3>3 DEF HandlersTyped, Tx
    <3>6. QED
      BY <3>1, <3>4, <3>5
  <2>5. Only(r) /\ TargetStaysUnique(r)
    BY <2>1, <2>2, <2>4 DEF Only, TargetStaysUnique, Fresh
  <2>6. Shape(r)' /\ RowsInv(r)' /\ ActivateInv(r)' /\ RemoveInv(r)'
    BY <2>2, <2>3, <2>4 DEF HandlersTyped, Shape, RowsInv, ActivateInv, RemoveInv, StepsOf
  <2>7. CreateInv(r)'
    BY <1>2, <2>1, <2>2, <2>4 DEF HandlersTyped, CreateInv, Fresh, PlansOf
  <2>8. LockMatchesPc' /\ lock' \in [Accounts -> Requests \cup {None}]
    BY <2>2, <2>5, LockKept DEF HandlersTyped
  <2>9. QED
    BY <2>2, <2>4, <2>5, <2>6, <2>7, <2>8, QuietStep DEF ReqInv, HandlersTyped, table
<1>3. QED
  BY <1>1, <1>2

LEMMA EnvelopeInv ==
  ASSUME IInv, NEW r \in Requests, Envelope(r)
  PROVE  IInv'
BY QuietEnd DEF Envelope

(* A step inside one handler that only moves to the next statement.        *)
LEMMA NextStatement ==
  ASSUME IInv, NEW r \in Requests, NEW label \in PCs, Goto(r, label),
         UNCHANGED <<table, lock, req, tx>>, ReqInv(r)',
         label \in Locked <=> pc[r] \in Locked
  PROVE  IInv'
<1>1. Only(r) /\ TargetStaysUnique(r)
  BY DEF IInv, HandlersTyped, Goto, Only, TargetStaysUnique
<1>2. LockMatchesPc' /\ lock' \in [Accounts -> Requests \cup {None}]
  BY <1>1, LockKept DEF IInv, HandlersTyped, Goto
<1>3. QED
  BY <1>1, <1>2, QuietStep DEF IInv, HandlersTyped, Goto

LEMMA ReadSourceInv ==
  ASSUME IInv, NEW r \in Requests, ReadSource(r)
  PROVE  IInv'
<1> USE DEF ReadSource
<1>1. CASE req[r].plan \in PlansOf(req[r].account)
  <2>1. ReqInv(r)'
    BY <1>1 DEF IInv, HandlersTyped, ReqInv, Goto, Shape, StepsOf, Request, Kinds,
       RowsInv, CreateInv, ActivateInv, RemoveInv, PlansOf, table, NoTx
  <2>2. QED
    BY <1>1, <2>1, NextStatement
<1>2. CASE req[r].plan \notin PlansOf(req[r].account)
  BY <1>2, QuietEnd
<1>3. QED
  BY <1>1, <1>2

LEMMA SaveExistsInv ==
  ASSUME IInv, NEW r \in Requests, SaveExists(r)
  PROVE  IInv'
<1> USE DEF SaveExists
<1>1. CASE req[r].plan \in PlansOf(req[r].account)
  <2>1. ReqInv(r)'
    BY <1>1 DEF IInv, HandlersTyped, ReqInv, Goto, Shape, StepsOf, Request, Kinds,
       RowsInv, CreateInv, ActivateInv, RemoveInv, PlansOf, table, NoTx
  <2>2. QED
    BY <1>1, <2>1, NextStatement
<1>2. CASE req[r].plan \notin PlansOf(req[r].account)
  BY <1>2, QuietEnd
<1>3. QED
  BY <1>1, <1>2

-----------------------------------------------------------------------------
(* The steps that write the table.                                         *)

LEMMA CommitCreateInv ==
  ASSUME IInv, NEW r \in Requests, CommitCreate(r)
  PROVE  IInv'
<1> USE DEF IInv
<1> DEFINE a == req[r].account
           p == tx[r].target
<1>1. pc[r] = "commit_create" /\ Release(r) /\ accounts' = accounts
  BY DEF CommitCreate
<1>2. /\ a \in accounts /\ a \in Accounts /\ req[r] \in Request
      /\ p \in PlanIds /\ p \notin minted
      /\ tx[r].flag <=> PlansOf(a) = {}
      /\ tx[r].rows = {} /\ req[r].kind = "create"
  BY <1>1 DEF ReqInv, Shape, CreateInv, StepsOf, Request, Kinds, HandlersTyped
<1>3. ActiveOf(a) = {} \/ ~tx[r].flag
  BY <1>2 DEF ActiveOf
<1>4. /\ plans' = [plans EXCEPT ![p] = NewRow(a, tx[r].flag)]
      /\ minted' = minted \cup {p}
      /\ pc' = [pc EXCEPT ![r] = "envelope"] /\ UNCHANGED <<req, tx>>
  BY <1>1, <1>3 DEF CommitCreate, Goto
<1>5. plans[p].account = None /\ tx[r].flag \in BOOLEAN
  BY <1>2 DEF TableInv, HandlersTyped, Tx
<1>6. /\ NextPlans(a) = PlansOf(a) \cup {p}
      /\ \A b \in Accounts \ {a} : NextPlans(b) = PlansOf(b)
  BY <1>2, <1>4, <1>5, PlanStoreAssumption DEF PlansOf, NextPlans, NewRow, HandlersTyped
<1>7. /\ \A b \in Accounts \ {a} : NextActive(b) = ActiveOf(b)
      /\ NextActive(a) = {p} \/ NextActive(a) = ActiveOf(a)
  BY <1>2, <1>3, <1>4, <1>5, PlanStoreAssumption DEF PlansOf, ActiveOf, NextActive, NewRow, HandlersTyped
<1>8. HandlersTyped'
  <2>1. NewRow(a, tx[r].flag) \in Row
    BY <1>2, <1>5 DEF NewRow, Row
  <2>2. plans' \in [PlanIds -> Row]
    BY <1>4, <2>1 DEF HandlersTyped
  <2>3. QED
    BY <1>1, <1>2, <1>4, <2>2 DEF HandlersTyped, Release
<1>9. TableInv'
  <2>1. \A q \in PlanIds : plans'[q].account # None =>
          q \in minted' /\ plans'[q].account \in accounts'
    BY <1>1, <1>2, <1>4 DEF TableInv, NewRow, HandlersTyped
  <2>2. ASSUME NEW b \in Accounts
        PROVE  \A q1, q2 \in ActiveOf(b)' : q1 = q2
    <3>1. NextActive(b) = ActiveOf(b) \/ NextActive(b) = {p}
      BY <1>7
    <3>2. \A q1, q2 \in NextActive(b) : q1 = q2
      BY <3>1 DEF TableInv
    <3>3. QED
      BY <3>2 DEF NextActive, ActiveOf, PlansOf
  <2>3. QED
    BY <2>1, <2>2 DEF TableInv
<1>10. Only(r) /\ TargetStaysUnique(r)
  BY <1>4 DEF Only, TargetStaysUnique, HandlersTyped
<1>11. LockMatchesPc'
  BY <1>1, <1>4, <1>10, Released DEF HandlersTyped
<1>12. ReqInv(r)'
  BY <1>2, <1>4 DEF HandlersTyped, ReqInv, Shape, StepsOf, RowsInv, CreateInv, ActivateInv, RemoveInv
<1>13. ASSUME NEW s \in Requests, s # r PROVE ReqInv(s)'
  <2>1. pc[s] \in Locked => req[s].account \in Accounts \ {a}
    BY <1>1, <1>2, <1>13 DEF LockMatchesPc, ReqInv, Shape, Request
  <2>2. pc[s] = "commit_create" => tx[s].target # p /\ tx[s].target \notin minted
    BY <1>1, <1>13 DEF ReqInv, CreateInv
  <2>3. AccountKept(s)
    <3>1. \A q \in PlanIds : q # p => plans'[q] = plans[q]
      BY <1>4 DEF HandlersTyped
    <3>3. p \notin PlansOf(req[s].account) \/ req[s].account = None
      BY <1>5 DEF PlansOf
    <3>4. pc[s] = "insert_copy" => req[s].account \in Accounts
      BY DEF ReqInv, Shape, Request
    <3>5. QED
      BY <1>4, <1>6, <1>7, <2>1, <2>2, <3>1, <3>3, <3>4, PlanStoreAssumption
      DEF AccountKept
  <2>4. QED
    BY <1>1, <1>4, <1>10, <1>13, <2>3, OthersUndisturbed
<1>14. QED
  BY <1>8, <1>9, <1>11, <1>12, <1>13

LEMMA InsertCopyInv ==
  ASSUME IInv, NEW r \in Requests, InsertCopy(r)
  PROVE  IInv'
<1> USE DEF IInv
<1> DEFINE a == req[r].account
<1>1. CASE a \notin accounts
  BY <1>1, QuietEnd DEF InsertCopy, table
<1>2. CASE a \in accounts
  <2>1. PICK p \in PlanIds :
          /\ Fresh(p)
          /\ plans' = [plans EXCEPT ![p] = NewRow(a, FALSE)]
          /\ minted' = minted \cup {p}
          /\ tx' = [tx EXCEPT ![r].target = p]
          /\ pc' = [pc EXCEPT ![r] = "envelope"]
          /\ UNCHANGED <<accounts, lock, req>>
    BY <1>2 DEF InsertCopy, Goto
  <2>2. /\ pc[r] = "insert_copy" /\ req[r] \in Request /\ a \in Accounts
        /\ PlansOf(a) # {} /\ tx[r] = NoTx /\ req[r].kind = "duplicate"
        /\ req[r].plan \in PlanIds
    BY <1>2 DEF InsertCopy, ReqInv, Shape, CreateInv, StepsOf, Request, Kinds, HandlersTyped
  <2>3. p \notin minted /\ plans[p].account = None
    BY <2>1 DEF Fresh, TableInv
  <2>4. /\ NextPlans(a) = PlansOf(a) \cup {p}
        /\ \A b \in Accounts \ {a} : NextPlans(b) = PlansOf(b)
    BY <2>1, <2>2, <2>3, PlanStoreAssumption DEF PlansOf, NextPlans, NewRow, HandlersTyped
  <2>5. \A b \in Accounts : NextActive(b) = ActiveOf(b)
    BY <2>1, <2>2, <2>3, PlanStoreAssumption DEF PlansOf, ActiveOf, NextActive, NewRow, HandlersTyped
  <2>6. tx'[r].target = p /\ tx'[r].rows = {} /\ tx' \in [Requests -> Tx]
    <3>1. tx[r].rows = {}
      BY <2>2 DEF NoTx
    <3>2. QED
      BY <2>1, <3>1 DEF HandlersTyped, Tx
  <2>7. HandlersTyped'
    <3>1. NewRow(a, FALSE) \in Row
      BY <2>2 DEF NewRow, Row
    <3>2. QED
      BY <2>1, <2>6, <3>1 DEF HandlersTyped
  <2>8. TableInv'
    <3>1. \A q \in PlanIds : plans'[q].account # None =>
            q \in minted' /\ plans'[q].account \in accounts'
      BY <1>2, <2>1 DEF TableInv, NewRow, HandlersTyped
    <3>2. \A b \in Accounts : \A q1, q2 \in NextActive(b) : q1 = q2
      BY <2>5 DEF TableInv
    <3>3. QED
      BY <3>1, <3>2 DEF TableInv, NextActive, ActiveOf, PlansOf
  <2>9. Only(r) /\ TargetStaysUnique(r)
    BY <2>1, <2>6 DEF Only, TargetStaysUnique, Fresh, HandlersTyped
  <2>10. LockMatchesPc'
    BY <2>1, <2>2, <2>9, LockKept DEF HandlersTyped
  <2>11. ReqInv(r)'
    BY <2>1, <2>2, <2>6 DEF HandlersTyped, ReqInv, Shape, StepsOf, RowsInv, CreateInv, ActivateInv, RemoveInv
  <2>12. ASSUME NEW s \in Requests, s # r PROVE ReqInv(s)'
    <3>1. pc[s] \in Locked \cup {"insert_copy"} => req[s].account \in Accounts
      BY DEF ReqInv, Shape, Request
    <3>2. pc[s] = "commit_create" => tx[s].target \notin minted \cup {p}
      BY <2>1 DEF ReqInv, CreateInv, Fresh
    <3>3. \A q \in PlanIds : q # p => plans'[q] = plans[q]
      BY <2>1 DEF HandlersTyped
    <3>4. p \notin PlansOf(req[s].account) \/ req[s].account = None
      BY <2>3 DEF PlansOf
    <3>5. AccountKept(s)
      <4> DEFINE b == req[s].account
      <4>1. ASSUME b \in Accounts
            PROVE  /\ PlansOf(b) \subseteq NextPlans(b)
                   /\ NextActive(b) = ActiveOf(b)
                   /\ PlansOf(b) = {} => NextPlans(b) = {}
                   /\ PlansOf(b) # {} => NextPlans(b) # {}
        <5>1. CASE b = a
          BY <2>2, <2>4, <2>5, <5>1
        <5>2. CASE b # a
          BY <2>4, <2>5, <4>1, <5>2
        <5>3. QED
          BY <5>1, <5>2
      <4>2. ASSUME b \in Accounts, NEW q \in PlansOf(b)
            PROVE  plans'[q].active = plans[q].active
        BY <3>3, <3>4, <4>2, PlanStoreAssumption DEF PlansOf
      <4>3. QED
        BY <2>1, <3>1, <3>2, <4>1, <4>2 DEF AccountKept
    <3>6. QED
      BY <2>1, <2>9, <2>12, <3>5, OthersUndisturbed
  <2>13. QED
    BY <2>7, <2>8, <2>10, <2>11, <2>12
<1>3. QED
  BY <1>1, <1>2

LEMMA SaveUpdateInv ==
  ASSUME IInv, NEW r \in Requests, SaveUpdate(r)
  PROVE  IInv'
<1> USE DEF IInv
<1> DEFINE p == req[r].plan
<1>1. CASE ~VersionIsCurrent(r)
  BY <1>1, QuietEnd DEF SaveUpdate, table
<1>2. CASE VersionIsCurrent(r)
  <2>1. /\ plans' = [plans EXCEPT ![p].version = @ + 1] /\ Finish(r, "ok")
        /\ UNCHANGED <<accounts, minted, lock>> /\ pc[r] = "update"
    BY <1>2 DEF SaveUpdate
  <2>2. p \in PlanIds /\ plans[p] \in Row
    BY <1>2 DEF VersionIsCurrent, PlansOf, HandlersTyped
  <2>3. /\ plans' \in [PlanIds -> Row]
        /\ \A q \in PlanIds : /\ plans'[q].account = plans[q].account
                              /\ plans'[q].active = plans[q].active
    BY <2>1, <2>2 DEF HandlersTyped, Row
  <2>4. /\ \A b : NextPlans(b) = PlansOf(b) /\ NextActive(b) = ActiveOf(b)
    BY <2>3 DEF NextPlans, NextActive, PlansOf, ActiveOf
  <2>5. /\ ReqInv(r)' /\ Only(r) /\ TargetStaysUnique(r)
        /\ pc' \in [Requests -> PCs] /\ pc'[r] \notin Locked
        /\ req' \in [Requests -> Request \cup {NoRequest}]
        /\ tx' \in [Requests -> Tx]
    BY <2>1, FinishedRequest
  <2>6. HandlersTyped'
    BY <2>1, <2>3, <2>5 DEF HandlersTyped
  <2>7. TableInv'
    <3>1. \A b \in Accounts : \A q1, q2 \in NextActive(b) : q1 = q2
      BY <2>4 DEF TableInv
    <3>2. QED
      BY <2>1, <2>3, <3>1 DEF TableInv, NextActive, ActiveOf, PlansOf
  <2>8. LockMatchesPc'
    BY <2>1, <2>5, LockKept
  <2>9. ASSUME NEW s \in Requests, s # r PROVE ReqInv(s)'
    <3>1. AccountKept(s)
      BY <2>1, <2>3, <2>4 DEF AccountKept, PlansOf, ReqInv, CreateInv
    <3>2. QED
      BY <2>1, <2>5, <2>9, <3>1, OthersUndisturbed
  <2>10. QED
    BY <2>5, <2>6, <2>7, <2>8, <2>9
<1>3. QED
  BY <1>1, <1>2

LEMMA ClearActiveInv ==
  ASSUME IInv, NEW r \in Requests, ClearActive(r)
  PROVE  IInv'
<1> USE DEF IInv
<1>1. /\ pc[r] = "clear" /\ UNCHANGED <<accounts, plans, minted, lock, req>>
      /\ tx' = [tx EXCEPT ![r].rows = ActiveOf(req[r].account)]
      /\ pc' = [pc EXCEPT ![r] = "mark"]
  BY DEF ClearActive, Goto, table
<1>2. tx[r] = NoTx /\ req[r].kind = "activate" /\ req[r] \in Request
  BY <1>1 DEF ReqInv, Shape, StepsOf, Request, Kinds
<1>3. tx[r].target = None /\ tx[r].flag = FALSE /\ tx[r].rows = {}
  BY <1>2 DEF NoTx
<1>4. ActiveOf(req[r].account) \subseteq PlansOf(req[r].account)
  BY DEF ActiveOf
<1>5. /\ tx' \in [Requests -> Tx] /\ tx'[r].rows = ActiveOf(req[r].account)
      /\ tx'[r].target = None /\ ~tx'[r].flag
  BY <1>1, <1>3, <1>4 DEF HandlersTyped, Tx, PlansOf
<1>6. pc'[r] = "mark" /\ req'[r] = req[r] /\ pc' \in [Requests -> PCs]
  BY <1>1 DEF HandlersTyped
<1>7. Shape(r)' /\ CreateInv(r)' /\ RemoveInv(r)'
  BY <1>1, <1>2, <1>5, <1>6 DEF ReqInv, Shape, StepsOf, CreateInv, RemoveInv
<1>8. RowsInv(r)' /\ ActivateInv(r)'
  BY <1>1, <1>4, <1>5, <1>6 DEF RowsInv, ActivateInv, PlansOf, ActiveOf
<1>9. Only(r) /\ TargetStaysUnique(r)
  BY <1>1, <1>5 DEF HandlersTyped, Only, TargetStaysUnique
<1>10. LockMatchesPc' /\ lock' \in [Accounts -> Requests \cup {None}]
  BY <1>1, <1>6, <1>9, LockKept
<1>11. QED
  BY <1>1, <1>5, <1>6, <1>7, <1>8, <1>9, <1>10, QuietStep DEF ReqInv, HandlersTyped, table

LEMMA MarkActiveInv ==
  ASSUME IInv, NEW r \in Requests, MarkActive(r)
  PROVE  IInv'
<1> USE DEF IInv
<1> DEFINE a == req[r].account
           p == req[r].plan
<1>1. /\ pc[r] = "mark" /\ UNCHANGED <<accounts, plans, minted, lock, req>>
      /\ pc' = [pc EXCEPT ![r] = "commit_activate"]
      /\ IF p \in PlansOf(a)
           THEN tx' = [tx EXCEPT ![r].flag = TRUE, ![r].rows = @ \cup {p}]
           ELSE tx' = tx
  BY DEF MarkActive, Goto, table
<1>2. /\ req[r].kind = "activate" /\ req[r] \in Request /\ ~tx[r].flag
      /\ tx[r].rows = ActiveOf(a) /\ tx[r].target = None /\ tx[r] \in Tx
  BY <1>1 DEF ReqInv, Shape, StepsOf, Request, Kinds, ActivateInv, HandlersTyped
<1>3. ActiveOf(a) \subseteq PlansOf(a) /\ PlansOf(a) \subseteq PlanIds
  BY DEF ActiveOf, PlansOf
<1>4. /\ tx' \in [Requests -> Tx] /\ tx'[r].target = None
      /\ tx'[r].flag <=> p \in PlansOf(a)
      /\ tx'[r].rows = ActiveOf(a) \cup (IF tx'[r].flag THEN {p} ELSE {})
  <2>1. CASE p \in PlansOf(a)
    <3>1. tx'[r] = [tx[r] EXCEPT !.flag = TRUE, !.rows = @ \cup {p}]
      BY <1>1, <2>1 DEF HandlersTyped
    <3>2. tx'[r].flag = TRUE /\ tx'[r].rows = tx[r].rows \cup {p} /\ tx'[r].target = tx[r].target
      BY <1>2, <3>1 DEF Tx
    <3>3. tx' \in [Requests -> Tx]
      <4>1. tx'[r] \in Tx
        <5>1. PICK rows \in SUBSET PlanIds : rows = tx[r].rows \cup {p}
          BY <1>2, <1>3, <2>1
        <5>2. tx'[r] = [count |-> tx[r].count, flag |-> TRUE, target |-> tx[r].target,
                        promote |-> tx[r].promote, rows |-> rows]
          BY <1>2, <3>1, <5>1 DEF Tx
        <5>3. QED
          BY <1>2, <5>2 DEF Tx
      <4>2. \A s \in Requests \ {r} : tx'[s] = tx[s]
        BY <1>1, <2>1 DEF HandlersTyped
      <4>3. tx' = [s \in Requests |-> tx'[s]]
        BY <1>1, <2>1 DEF HandlersTyped
      <4>4. QED
        BY <4>1, <4>2, <4>3 DEF HandlersTyped
    <3>4. QED
      BY <1>2, <2>1, <3>2, <3>3
  <2>2. CASE p \notin PlansOf(a)
    BY <1>1, <1>2, <2>2 DEF HandlersTyped
  <2>3. QED
    BY <2>1, <2>2
<1>6. pc'[r] = "commit_activate" /\ req'[r] = req[r] /\ pc' \in [Requests -> PCs]
  BY <1>1 DEF HandlersTyped
<1>7. Shape(r)' /\ CreateInv(r)' /\ RemoveInv(r)'
  BY <1>1, <1>2, <1>4, <1>6 DEF ReqInv, Shape, StepsOf, CreateInv, RemoveInv
<1>8. RowsInv(r)' /\ ActivateInv(r)'
  <2>1. PlansOf(req[r].account)' = PlansOf(a) /\ ActiveOf(req[r].account)' = ActiveOf(a)
    BY <1>1 DEF PlansOf, ActiveOf
  <2>2. QED
    BY <1>1, <1>3, <1>4, <1>6, <2>1 DEF RowsInv, ActivateInv
<1>9. Only(r) /\ TargetStaysUnique(r)
  BY <1>1, <1>4 DEF HandlersTyped, Only, TargetStaysUnique
<1>10. LockMatchesPc' /\ lock' \in [Accounts -> Requests \cup {None}]
  BY <1>1, <1>6, <1>9, LockKept
<1>11. QED
  BY <1>1, <1>4, <1>6, <1>7, <1>8, <1>9, <1>10, QuietStep DEF ReqInv, HandlersTyped, table

LEMMA CountPlansInv ==
  ASSUME IInv, NEW r \in Requests, CountPlans(r)
  PROVE  IInv'
<1> USE DEF IInv
<1> DEFINE a == req[r].account
           n == Cardinality(PlansOf(a))
<1>1. /\ pc[r] = "count" /\ UNCHANGED <<accounts, plans, minted, lock, req>>
      /\ tx' = [tx EXCEPT ![r].count = n]
      /\ pc' = [pc EXCEPT ![r] = "read_target"]
  BY DEF CountPlans, Goto, table
<1>2. tx[r] = NoTx /\ req[r].kind = "remove" /\ req[r] \in Request
  BY <1>1 DEF ReqInv, Shape, StepsOf, Request, Kinds
<1>3. tx[r].target = None /\ tx[r].rows = {} /\ tx[r].promote = None
  BY <1>2 DEF NoTx
<1>4. PlansOf(a) \subseteq PlanIds /\ IsFiniteSet(PlansOf(a)) /\ n \in Nat
  <2>1. PlansOf(a) \subseteq PlanIds
    BY DEF PlansOf
  <2>2. IsFiniteSet(PlansOf(a))
    BY <2>1, FS_Subset, PlanStoreAssumption
  <2>3. QED
    BY <2>1, <2>2, FS_CardinalityType
<1>5. /\ tx' \in [Requests -> Tx] /\ tx'[r].count = n
      /\ tx'[r].target = None /\ tx'[r].rows = {} /\ tx'[r].promote = None
  <2> HIDE DEF n
  <2> QED
    BY <1>1, <1>3, <1>4 DEF HandlersTyped, Tx
<1>6. pc'[r] = "read_target" /\ req'[r] = req[r] /\ pc' \in [Requests -> PCs]
  BY <1>1 DEF HandlersTyped
<1>7. n > 1 => \E p, q \in PlansOf(a) : p # q
  <2> SUFFICES ASSUME \A p, q \in PlansOf(a) : p = q
               PROVE  n <= 1
    BY <1>4
  <2>1. CASE PlansOf(a) = {}
    BY <2>1, FS_EmptySet
  <2>2. ASSUME NEW p \in PlansOf(a) PROVE n <= 1
    <3>1. PlansOf(a) = {p}
      OBVIOUS
    <3>2. Cardinality({p}) = 1
      BY FS_Singleton
    <3>3. QED
      BY <3>1, <3>2
  <2>3. QED
    BY <2>1, <2>2
<1>8. Shape(r)' /\ RowsInv(r)' /\ CreateInv(r)' /\ ActivateInv(r)'
  BY <1>1, <1>2, <1>5, <1>6 DEF ReqInv, Shape, StepsOf, RowsInv, CreateInv, ActivateInv
<1>9. RemoveInv(r)'
  <2>1. PlansOf(req[r].account)' = PlansOf(a)
    BY <1>1 DEF PlansOf
  <2> HIDE DEF n
  <2>2. QED
    BY <1>5, <1>6, <1>7, <2>1 DEF RemoveInv
<1>10. Only(r) /\ TargetStaysUnique(r)
  BY <1>1, <1>5 DEF HandlersTyped, Only, TargetStaysUnique
<1>11. LockMatchesPc' /\ lock' \in [Accounts -> Requests \cup {None}]
  BY <1>1, <1>6, <1>10, LockKept
<1>12. QED
  BY <1>1, <1>5, <1>6, <1>8, <1>9, <1>10, <1>11, QuietStep DEF ReqInv, HandlersTyped, table

LEMMA ReadTargetInv ==
  ASSUME IInv, NEW r \in Requests, ReadTarget(r)
  PROVE  IInv'
<1> USE DEF IInv
<1> DEFINE a == req[r].account
           p == req[r].plan
<1>1. CASE Finish(r, "not_found") /\ Release(r)
  BY <1>1, QuietEnd DEF ReadTarget
<1>2. CASE Finish(r, "conflict") /\ Release(r)
  BY <1>2, QuietEnd DEF ReadTarget
<1>3. CASE /\ p \in PlansOf(a) /\ tx[r].count > 1
           /\ tx' = [tx EXCEPT ![r].flag = plans[p].active, ![r].rows = {p}]
           /\ pc' = [pc EXCEPT ![r] = "delete_row"]
           /\ UNCHANGED <<lock, req>>
  <2>1. pc[r] = "read_target" /\ UNCHANGED <<accounts, plans, minted>>
    BY DEF ReadTarget, table
  <2>2. /\ req[r].kind = "remove" /\ req[r] \in Request /\ a \in Accounts
        /\ tx[r] \in Tx /\ tx[r].target = None /\ p \in PlanIds
        /\ plans[p].active \in BOOLEAN /\ tx[r].promote = None
    <3>1. /\ req[r].kind = "remove" /\ req[r] \in Request /\ a \in Accounts
          /\ tx[r].target = None /\ tx[r].promote = None
      BY <1>3, <2>1 DEF ReqInv, Shape, StepsOf, Request, Kinds
    <3>2. p \in PlanIds
      BY <1>3 DEF PlansOf
    <3>3. QED
      BY <3>1, <3>2 DEF HandlersTyped, Row
  <2>3. a \in accounts
    BY <1>3, <2>2, PlanStoreAssumption DEF TableInv, PlansOf
  <2>4. \E q \in PlansOf(a) : q # p
    BY <1>3, <2>1, <2>3 DEF ReqInv, RemoveInv
  <2>5. tx'[r] = [count |-> tx[r].count, flag |-> plans[p].active, target |-> None,
                  promote |-> None, rows |-> {p}]
    BY <1>3, <2>2 DEF HandlersTyped, Tx
  <2>6. tx'[r] \in Tx
    BY <2>2, <2>5 DEF Tx
  <2>7. tx' \in [Requests -> Tx] /\ pc' \in [Requests -> PCs] /\ Only(r)
    BY <1>3, <2>6 DEF HandlersTyped, Only
  <2>8. pc'[r] = "delete_row" /\ req'[r] = req[r]
    BY <1>3 DEF HandlersTyped
  <2>9. Shape(r)' /\ CreateInv(r)' /\ ActivateInv(r)'
    BY <1>3, <2>2, <2>5, <2>8 DEF Shape, StepsOf, CreateInv, ActivateInv
  <2>10. PlansOf(req[r].account)' = PlansOf(a)
    BY <2>1, <2>8 DEF PlansOf
  <2>11. RowsInv(r)' /\ RemoveInv(r)'
    <3>1. /\ tx'[r].flag = plans'[p].active /\ tx'[r].rows = {p}
          /\ tx'[r].promote = None
      BY <2>1, <2>5
    <3>2. QED
      <4>1. RowsInv(r)'
        BY <1>3, <2>8, <2>10, <3>1 DEF RowsInv
      <4>2. pc'[r] \in {"delete_row", "promote", "commit_remove"} =>
              /\ p \in PlansOf(req[r].account)'
              /\ p \in tx'[r].rows
              /\ tx'[r].flag = plans'[p].active
              /\ \E x \in PlansOf(req[r].account)' : x # p
        BY <1>3, <2>4, <2>10, <3>1
      <4>3. QED
        BY <2>8, <3>1, <4>1, <4>2, Zenon DEF RemoveInv
  <2>12. TargetStaysUnique(r)
    BY <2>5 DEF TargetStaysUnique
  <2>13. LockMatchesPc' /\ lock' \in [Accounts -> Requests \cup {None}]
    BY <1>3, <2>1, <2>7, <2>8, LockKept
  <2>14. QED
    BY <1>3, <2>1, <2>7, <2>9, <2>11, <2>12, <2>13, QuietStep DEF ReqInv, HandlersTyped, table
<1>4. QED
  BY <1>1, <1>2, <1>3 DEF ReadTarget, Goto

LEMMA DeleteRowInv ==
  ASSUME IInv, NEW r \in Requests, DeleteRow(r)
  PROVE  IInv'
<1> USE DEF IInv
<1> DEFINE label == IF tx[r].flag THEN "promote" ELSE "commit_remove"
<1>1. /\ pc[r] = "delete_row" /\ UNCHANGED <<table, lock, req, tx>>
      /\ Goto(r, label) /\ label \in {"promote", "commit_remove"}
      /\ label = "promote" <=> tx[r].flag
  BY DEF DeleteRow
<1> HIDE DEF label
<1>2. ReqInv(r)'
  <2>1. pc'[r] = label
    BY <1>1 DEF Goto, HandlersTyped
  <2>2. req[r].kind = "remove" /\ req[r] \in Request
    BY <1>1 DEF ReqInv, Shape, StepsOf, Request, Kinds
  <2>3. PlansOf(req[r].account)' = PlansOf(req[r].account)
    BY <1>1 DEF PlansOf, table
  <2>4. Shape(r)' /\ RowsInv(r)' /\ CreateInv(r)' /\ ActivateInv(r)'
    BY <1>1, <2>1, <2>2, <2>3 DEF table, ReqInv, Shape, StepsOf, RowsInv, CreateInv, ActivateInv
  <2>5. RemoveInv(r)'
    BY <1>1, <2>1, <2>3 DEF table, ReqInv, RemoveInv
  <2>6. QED
    BY <2>4, <2>5 DEF ReqInv
<1>3. QED
  BY <1>1, <1>2, NextStatement

LEMMA PromoteInv ==
  ASSUME IInv, NEW r \in Requests, Promote(r)
  PROVE  IInv'
<1> USE DEF IInv
<1> DEFINE a == req[r].account
           p == req[r].plan
<1>1. /\ pc[r] = "promote" /\ UNCHANGED <<accounts, plans, minted, lock, req>>
      /\ pc' = [pc EXCEPT ![r] = "commit_remove"]
  BY DEF Promote, Goto, table
<1>2. /\ req[r].kind = "remove" /\ req[r] \in Request /\ tx[r] \in Tx
      /\ tx[r].target = None /\ tx[r].flag /\ tx[r].rows \subseteq PlansOf(a)
      /\ p \in PlansOf(a) /\ p \in tx[r].rows /\ tx[r].flag = plans[p].active
      /\ \E q \in PlansOf(a) : q # p
  BY <1>1 DEF ReqInv, Shape, StepsOf, Request, Kinds, RemoveInv, RowsInv, HandlersTyped
<1>3. PICK q \in PlansOf(a) \ {p} :
        tx' = [tx EXCEPT ![r].promote = q, ![r].rows = @ \cup {q}]
  BY <1>2 DEF Promote
<1>4. PICK rows \in SUBSET PlanIds : rows = tx[r].rows \cup {q}
  BY <1>2, <1>3 DEF PlansOf
<1>5. tx'[r] = [count |-> tx[r].count, flag |-> tx[r].flag, target |-> None,
                promote |-> q, rows |-> rows]
  BY <1>2, <1>3, <1>4 DEF HandlersTyped, Tx
<1>6. tx'[r] \in Tx
  <2>1. q \in PlanIds
    BY <1>3 DEF PlansOf
  <2>2. QED
    BY <1>2, <1>5, <2>1 DEF Tx
<1>7. tx' \in [Requests -> Tx] /\ pc' \in [Requests -> PCs] /\ Only(r)
  BY <1>1, <1>3, <1>6 DEF HandlersTyped, Only
<1>8. pc'[r] = "commit_remove" /\ req'[r] = req[r]
  BY <1>1 DEF HandlersTyped
<1>9. Shape(r)' /\ CreateInv(r)' /\ ActivateInv(r)'
  BY <1>2, <1>5, <1>8 DEF ReqInv, Shape, StepsOf, CreateInv, ActivateInv, PlansOf
<1>10. PlansOf(req[r].account)' = PlansOf(a)
  BY <1>1, <1>8 DEF PlansOf
<1>11. RowsInv(r)' /\ RemoveInv(r)'
  <2>1. /\ tx'[r].flag = tx[r].flag /\ tx'[r].rows = tx[r].rows \cup {q}
        /\ tx'[r].promote = q /\ plans' = plans
    BY <1>1, <1>4, <1>5
  <2>2. RowsInv(r)'
    BY <1>2, <1>3, <1>8, <1>10, <2>1 DEF RowsInv
  <2>3. RemoveInv(r)'
    BY <1>2, <1>3, <1>8, <1>10, <2>1 DEF RemoveInv
  <2>4. QED
    BY <2>2, <2>3
<1>12. TargetStaysUnique(r)
  BY <1>5 DEF TargetStaysUnique
<1>13. LockMatchesPc' /\ lock' \in [Accounts -> Requests \cup {None}]
  BY <1>1, <1>7, <1>8, LockKept
<1>14. QED
  BY <1>1, <1>7, <1>9, <1>11, <1>12, <1>13, QuietStep DEF ReqInv, HandlersTyped, table

LEMMA DropInv ==
  ASSUME IInv, NEW r \in Requests, Drop(r) \/ Victim(r)
  PROVE  IInv'
BY QuietEnd DEF Drop, Victim

(* A locked transaction of another request is another account's.           *)
LEMMA OneLockHolder ==
  ASSUME IInv, NEW r \in Requests, NEW s \in Requests, s # r,
         pc[r] \in Locked, pc[s] \in Locked
  PROVE  req[s].account \in Accounts \ {req[r].account}
BY DEF IInv, LockMatchesPc, ReqInv, Shape, Request

(* What the two transactions that change existing rows have in common.     *)
LEMMA LockedWrite ==
  ASSUME IInv, NEW r \in Requests, pc[r] \in Locked,
         NEW outcome \in Outcomes, Finish(r, outcome), Release(r),
         UNCHANGED <<accounts, minted>>,
         plans' \in [PlanIds -> Row],
         \A q \in PlanIds : plans'[q] = plans[q] \/
           /\ q \in PlansOf(req[r].account)
           /\ plans'[q].account \in {req[r].account, None},
         PlansOf(req[r].account) # {} => NextPlans(req[r].account) # {},
         \A q1, q2 \in NextActive(req[r].account) : q1 = q2
  PROVE  IInv'
<1> USE DEF IInv
<1> DEFINE a == req[r].account
<1>1. /\ ReqInv(r)' /\ Only(r) /\ TargetStaysUnique(r)
      /\ pc' \in [Requests -> PCs] /\ pc'[r] \notin Locked
      /\ req' \in [Requests -> Request \cup {NoRequest}]
      /\ tx' \in [Requests -> Tx]
  BY FinishedRequest
<1>2. LockMatchesPc' /\ lock' \in [Accounts -> Requests \cup {None}]
  BY <1>1, Released
<1>3. a \in Accounts
  BY DEF ReqInv, Shape, Request
<1>4. \A b \in Accounts \ {a} :
        /\ NextPlans(b) = PlansOf(b) /\ NextActive(b) = ActiveOf(b)
        /\ \A q \in PlansOf(b) : plans'[q].active = plans[q].active
  BY PlanStoreAssumption DEF NextPlans, NextActive, PlansOf, ActiveOf
<1>5. TableInv'
  <2>1. ASSUME NEW q \in PlanIds, plans'[q].account # None
        PROVE  q \in minted' /\ plans'[q].account \in accounts'
    <3>1. CASE plans'[q] = plans[q]
      BY <2>1, <3>1 DEF TableInv
    <3>2. CASE q \in PlansOf(a) /\ plans'[q].account \in {a, None}
      BY <1>3, <2>1, <3>2, PlanStoreAssumption DEF TableInv, PlansOf
    <3>3. QED
      BY <3>1, <3>2
  <2>2. \A b \in Accounts : \A q1, q2 \in NextActive(b) : q1 = q2
    BY <1>4 DEF TableInv
  <2>3. QED
    BY <2>1, <2>2 DEF TableInv, NextActive, ActiveOf, PlansOf
<1>6. ASSUME NEW s \in Requests, s # r PROVE ReqInv(s)'
  <2>1. pc[s] \in Locked => req[s].account \in Accounts \ {a}
    BY <1>6, OneLockHolder
  <2>2. pc[s] = "insert_copy" => req[s].account \in Accounts
    BY DEF ReqInv, Shape, Request
  <2>3. pc[s] = "commit_create" => tx[s].target \notin minted'
    BY DEF ReqInv, CreateInv
  <2>4. AccountKept(s)
    BY <1>4, <2>1, <2>2, <2>3 DEF AccountKept
  <2>5. QED
    BY <1>1, <1>6, <2>4, OthersUndisturbed
<1>7. QED
  BY <1>1, <1>2, <1>5, <1>6 DEF HandlersTyped

LEMMA CommitActivateInv ==
  ASSUME IInv, NEW r \in Requests, CommitActivate(r)
  PROVE  IInv'
<1> USE DEF IInv
<1> DEFINE a == req[r].account
           p == req[r].plan
<1>1. /\ pc[r] = "commit_activate" /\ Release(r) /\ UNCHANGED <<accounts, minted>>
  BY DEF CommitActivate
<1>2. /\ tx[r].flag => p \in PlansOf(a)
      /\ tx[r].rows = ActiveOf(a) \cup (IF tx[r].flag THEN {p} ELSE {})
      /\ tx[r].rows \subseteq PlansOf(a) /\ tx[r].flag \in BOOLEAN
      /\ ActiveOf(a) \subseteq tx[r].rows
  BY <1>1 DEF ReqInv, ActivateInv, RowsInv, HandlersTyped, Tx
<1>3. PICK outcome \in {"ok", "not_found"} : Finish(r, outcome)
  BY <1>2 DEF CommitActivate
<1>4. plans' = Activated(r)
  BY <1>2 DEF CommitActivate
<1>5. \A q \in PlanIds :
        /\ plans'[q].account = plans[q].account /\ plans'[q].version = plans[q].version
        /\ q \in tx[r].rows => (plans'[q].active <=> tx[r].flag /\ q = p)
        /\ q \notin tx[r].rows => plans'[q] = plans[q]
        /\ plans'[q] \in Row
  <2> SUFFICES ASSUME NEW q \in PlanIds
      PROVE /\ plans'[q].account = plans[q].account /\ plans'[q].version = plans[q].version
            /\ q \in tx[r].rows => (plans'[q].active <=> tx[r].flag /\ q = p)
            /\ q \notin tx[r].rows => plans'[q] = plans[q]
            /\ plans'[q] \in Row
    OBVIOUS
  <2>1. plans[q] \in Row
    BY DEF HandlersTyped
  <2>2. CASE q \in tx[r].rows
    <3>1. PICK v \in BOOLEAN : v = (tx[r].flag /\ q = p)
      OBVIOUS
    <3>2. plans'[q] = [plans[q] EXCEPT !.active = v]
      BY <1>4, <2>2, <3>1, Zenon DEF Activated
    <3>3. QED
      BY <2>1, <2>2, <3>1, <3>2 DEF Row
  <2>3. CASE q \notin tx[r].rows
    <3>1. plans'[q] = [plans[q] EXCEPT !.active = @]
      BY <1>4, <2>3, Zenon DEF Activated
    <3>2. QED
      BY <2>1, <2>3, <3>1 DEF Row
  <2>4. QED
    BY <2>2, <2>3
<1>6. plans' \in [PlanIds -> Row]
  BY <1>4, <1>5 DEF Activated
<1>7. PlansOf(a) # {} => NextPlans(a) # {}
  BY <1>5 DEF PlansOf, NextPlans
<1>8. \A q1, q2 \in NextActive(a) : q1 = q2
  BY <1>2, <1>5 DEF NextActive, ActiveOf, PlansOf
<1>9. \A q \in PlanIds : plans'[q] = plans[q] \/
        (q \in PlansOf(a) /\ plans'[q].account \in {a, None})
  <2> SUFFICES ASSUME NEW q \in PlanIds
      PROVE plans'[q] = plans[q] \/ (q \in PlansOf(a) /\ plans'[q].account \in {a, None})
    OBVIOUS
  <2>1. CASE q \in tx[r].rows
    <3>1. q \in PlansOf(a) /\ plans'[q].account = plans[q].account
      BY <1>2, <1>5, <2>1
    <3>2. QED
      BY <3>1 DEF PlansOf
  <2>2. CASE q \notin tx[r].rows
    BY <1>5, <2>2, Zenon
  <2>3. QED
    BY <2>1, <2>2
<1>10. QED
  BY <1>1, <1>3, <1>6, <1>7, <1>8, <1>9, LockedWrite

LEMMA CommitRemoveInv ==
  ASSUME IInv, NEW r \in Requests, CommitRemove(r)
  PROVE  IInv'
<1> USE DEF IInv
<1> DEFINE a == req[r].account
           p == req[r].plan
           q == tx[r].promote
<1>1. /\ pc[r] = "commit_remove" /\ Release(r) /\ UNCHANGED <<accounts, minted>>
      /\ Finish(r, "ok") /\ plans' = Removed(r)
  BY DEF CommitRemove
<1>2. /\ p \in PlansOf(a) /\ tx[r].flag = plans[p].active
      /\ \E x \in PlansOf(a) : x # p
      /\ tx[r].flag => q \in PlansOf(a) \ {p}
      /\ ~tx[r].flag => q = None
      /\ a \in Accounts /\ tx[r].flag \in BOOLEAN
  BY <1>1 DEF ReqInv, RemoveInv, HandlersTyped, Tx, Shape, Request
<1>3. \A x \in PlanIds :
        /\ x = p => plans'[x] = Absent
        /\ x # p /\ x # q => plans'[x] = plans[x]
        /\ x # p /\ x = q => plans'[x] = [plans[x] EXCEPT !.active = TRUE]
  BY <1>1 DEF Removed
<1>4. plans' \in [PlanIds -> Row]
  <2>1. Absent \in Row
    BY DEF Absent, Row
  <2>2. \A x \in PlanIds : [plans[x] EXCEPT !.active = TRUE] \in Row
    BY DEF HandlersTyped, Row
  <2>3. QED
    BY <1>1, <2>1, <2>2 DEF HandlersTyped, Removed
<1>5. \A x \in PlanIds : plans'[x] = plans[x] \/
        (x \in PlansOf(a) /\ plans'[x].account \in {a, None})
  <2>1. ASSUME NEW x \in PlanIds, x # p, x = q
        PROVE  x \in PlansOf(a) /\ plans'[x].account = a
    <3>1. x \in PlansOf(a)
      BY <1>2, <2>1, PlanStoreAssumption
    <3>2. QED
      BY <1>3, <2>1, <3>1 DEF PlansOf, HandlersTyped, Row
  <2>2. Absent.account = None
    BY DEF Absent
  <2> SUFFICES ASSUME NEW x \in PlanIds
      PROVE plans'[x] = plans[x] \/ (x \in PlansOf(a) /\ plans'[x].account \in {a, None})
    OBVIOUS
  <2>3. CASE x = p
    BY <1>2, <1>3, <2>2, <2>3
  <2>4. CASE x # p /\ x = q
    BY <2>1, <2>4
  <2>5. CASE x # p /\ x # q
    BY <1>3, <2>5, Zenon
  <2>6. QED
    BY <2>3, <2>4, <2>5
<1>6. NextPlans(a) # {}
  <2>1. PICK x \in PlansOf(a) : x # p
    BY <1>2
  <2>2. plans'[x].account = a
    <3>1. x \in PlanIds /\ plans[x].account = a /\ plans[x] \in Row
      BY <2>1 DEF PlansOf, HandlersTyped
    <3>2. [plans[x] EXCEPT !.active = TRUE].account = a
      BY <3>1 DEF Row
    <3>3. QED
      BY <1>3, <2>1, <3>1, <3>2
  <2>3. QED
    BY <2>1, <2>2 DEF NextPlans, PlansOf
<1>7. \A x, y \in NextActive(a) : x = y
  <2>1. ASSUME NEW x \in NextActive(a)
        PROVE  x \in PlanIds /\ x # p /\ (x = q \/ x \in ActiveOf(a))
    <3>1. x \in PlanIds /\ plans'[x].account = a /\ plans'[x].active
      BY <2>1 DEF NextActive
    <3>2. x # p
      <4>1. Absent.account = None /\ a # None
        BY <1>2, PlanStoreAssumption DEF Absent
      <4>2. QED
        BY <1>3, <3>1, <4>1, Zenon
    <3>3. CASE x = q
      BY <3>1, <3>2, <3>3
    <3>4. CASE x # q
      BY <1>3, <3>1, <3>2, <3>4 DEF ActiveOf, PlansOf
    <3>5. QED
      BY <3>1, <3>2, <3>3, <3>4
  <2>2. CASE tx[r].flag
    <3>1. p \in ActiveOf(a)
      BY <1>2, <2>2 DEF ActiveOf
    <3>2. ActiveOf(a) = {p}
      BY <1>2, <3>1 DEF TableInv
    <3>3. QED
      BY <2>1, <3>2
  <2>3. CASE ~tx[r].flag
    BY <1>2, <2>1, <2>3, PlanStoreAssumption DEF TableInv
  <2>4. QED
    BY <1>2, <2>2, <2>3
<1>8. QED
  BY <1>1, <1>4, <1>5, <1>6, <1>7, LockedWrite

(* No open transaction holds a row that a deletion has taken, and none has *)
(* an insert for an account that is being deleted.                         *)
DeletionInv ==
  /\ deleting \subseteq accounts /\ taken \subseteq PlanIds
  /\ \A r \in Requests :
       /\ tx[r].rows \cap taken = {}
       /\ pc[r] = "commit_create" => req[r].account \notin deleting

(* So a cascade that has taken all the account's rows takes none from an   *)
(* open transaction.                                                       *)
LEMMA CommitDeletionInv ==
  ASSUME IInv, DeletionInv, NEW a \in Accounts, CommitDeletion(a)
  PROVE  IInv'
<1> USE DEF IInv
<1>0. /\ UNCHANGED <<minted, lock, req, pc, tx>> /\ accounts' = accounts \ {a}
      /\ a \in deleting /\ PlansOf(a) \subseteq taken
  BY DEF CommitDeletion, EndDeletion
<1>1. /\ UNCHANGED <<minted, lock, req, pc, tx>> /\ accounts' = accounts \ {a}
      /\ \A r \in Requests : tx[r].rows \cap PlansOf(a) = {}
      /\ \A r \in Requests : ~(req[r].account = a /\ pc[r] = "commit_create")
  BY <1>0 DEF DeletionInv
<1>2. \A p \in PlanIds : /\ plans[p].account = a => plans'[p] = Absent
                         /\ plans[p].account # a => plans'[p] = plans[p]
  BY DEF CommitDeletion
<1>3. a # None /\ Absent.account = None /\ ~Absent.active
  BY PlanStoreAssumption DEF Absent
<1>4. \A p \in PlanIds : plans'[p].account = plans[p].account \/ plans'[p].account = None
  BY <1>2, <1>3, Zenon
<1>5. \A b \in Accounts \ {a} : NextPlans(b) = PlansOf(b) /\ NextActive(b) = ActiveOf(b)
  <2> TAKE b \in Accounts \ {a}
  <2>1. b # None
    BY PlanStoreAssumption
  <2>2. QED
    BY <1>2, <1>3, <2>1 DEF NextPlans, PlansOf, NextActive, ActiveOf
<1>6. NextPlans(a) = {} /\ NextActive(a) = {}
  BY <1>2, <1>3 DEF NextPlans, NextActive
<1>7. HandlersTyped'
  <2>1. Absent \in Row
    BY DEF Absent, Row
  <2>2. plans' \in [PlanIds -> Row]
    BY <2>1 DEF CommitDeletion, HandlersTyped
  <2>3. QED
    BY <1>1, <2>2 DEF HandlersTyped
<1>8. LockMatchesPc'
  BY <1>1 DEF LockMatchesPc
<1>9. TableInv'
  <2>1. ASSUME NEW p \in PlanIds, plans'[p].account # None
        PROVE  p \in minted' /\ plans'[p].account \in accounts'
    <3>1. plans[p].account # a
      BY <1>2, <1>3, <2>1
    <3>2. QED
      BY <1>1, <1>2, <2>1, <3>1 DEF TableInv
  <2>2. ASSUME NEW b \in Accounts, NEW p \in NextActive(b), NEW q \in NextActive(b)
        PROVE  p = q
    BY <1>5, <1>6, <2>2 DEF TableInv
  <2>3. \A b \in Accounts : ActiveOf(b)' = NextActive(b)
    BY DEF ActiveOf, PlansOf, NextActive
  <2>4. QED
    BY <2>1, <2>2, <2>3 DEF TableInv
<1>10. ASSUME NEW r \in Requests
       PROVE  ReqInv(r)'
  <2> DEFINE b == req[r].account
  <2>1. /\ ReqInv(r) /\ pc'[r] = pc[r] /\ req'[r] = req[r] /\ tx'[r] = tx[r]
        /\ minted' = minted /\ \A s \in Requests : tx'[s] = tx[s]
    BY <1>1
  <2>2. /\ PlansOf(req[r].account)' = NextPlans(b)
        /\ ActiveOf(req[r].account)' = NextActive(b)
    BY <2>1 DEF PlansOf, ActiveOf, NextPlans, NextActive
  <2>3. Shape(r)'
    BY <2>1 DEF ReqInv, Shape
  <2>4. CASE pc[r] \in Outcomes
    BY <2>1, <2>3, <2>4 DEF ReqInv, RowsInv, CreateInv, ActivateInv, RemoveInv,
       Outcomes, Locked, CreateSteps, ActivateSteps, RemoveSteps
  <2>5. CASE pc[r] \notin Outcomes /\ b # a
    <3>1. b \in Accounts
      BY <2>1, <2>5 DEF ReqInv, Shape, Request
    <3>2. /\ NextPlans(b) = PlansOf(b) /\ NextActive(b) = ActiveOf(b)
          /\ b \in accounts' <=> b \in accounts
          /\ \A p \in PlansOf(b) : plans'[p] = plans[p]
      BY <1>1, <1>2, <1>5, <2>5, <3>1 DEF PlansOf
    <3>3. RowsInv(r)'
      BY <2>1, <2>2, <3>2 DEF ReqInv, RowsInv
    <3>4. CreateInv(r)'
      BY <2>1, <2>2, <3>2 DEF ReqInv, CreateInv
    <3>5. ActivateInv(r)'
      BY <2>1, <2>2, <3>2 DEF ReqInv, ActivateInv
    <3>6. RemoveInv(r)'
      BY <2>1, <2>2, <3>2 DEF ReqInv, RemoveInv
    <3>7. QED
      BY <2>3, <3>3, <3>4, <3>5, <3>6 DEF ReqInv
  <2>6. CASE pc[r] \notin Outcomes /\ b = a
    <3>1. pc[r] \in Locked => tx[r].rows = {}
      BY <1>1, <2>1, <2>6 DEF ReqInv, RowsInv
    <3>2. pc[r] # "commit_create" /\ b \notin accounts'
      BY <1>1, <2>6
    <3>3. pc[r] \notin {"delete_row", "promote", "commit_remove"}
      BY <2>1, <3>1 DEF ReqInv, RemoveInv, Locked, RemoveSteps
    <3>4. NextPlans(b) = {} /\ NextActive(b) = {}
      BY <1>6, <2>6
    <3>5. RowsInv(r)' /\ CreateInv(r)' /\ RemoveInv(r)'
      BY <2>1, <2>2, <3>1, <3>2, <3>3 DEF RowsInv, CreateInv, RemoveInv
    <3>6. pc[r] = "commit_activate" => ~tx[r].flag
      BY <2>1, <3>1 DEF ReqInv, ActivateInv, Locked, ActivateSteps
    <3>7. ActivateInv(r)'
      <4>1. pc[r] = "mark" => ~tx[r].flag /\ tx[r].rows = {}
        BY <2>1, <3>1 DEF ReqInv, ActivateInv, Locked, ActivateSteps
      <4>2. pc[r] = "commit_activate" => ~tx[r].flag /\ tx[r].rows = {}
        BY <3>1, <3>6 DEF Locked, ActivateSteps
      <4>3. QED
        BY <2>1, <2>2, <3>4, <4>1, <4>2 DEF ActivateInv
    <3>8. QED
      BY <2>3, <3>5, <3>7 DEF ReqInv
  <2>7. QED
    BY <2>4, <2>5, <2>6
<1>11. QED
  BY <1>7, <1>8, <1>9, <1>10

-----------------------------------------------------------------------------
LEMMA InitInv == Init => IInv
<1> SUFFICES ASSUME Init PROVE IInv
  OBVIOUS
<1>1. Absent \in Row /\ Absent.account = None /\ NoTx \in Tx
  BY DEF Absent, Row, NoTx, Tx
<1>2. HandlersTyped
  BY <1>1 DEF Init, HandlersTyped, PCs, Outcomes
<1>3. \A r \in Requests : pc[r] = "idle" /\ req[r] = NoRequest /\ tx[r] = NoTx
  BY DEF Init
<1>4. LockMatchesPc
  BY <1>3, PlanStoreAssumption
  DEF Init, LockMatchesPc, Locked, CreateSteps, RemoveSteps, ActivateSteps
<1>5. TableInv
  BY <1>1, PlanStoreAssumption DEF Init, TableInv, ActiveOf, PlansOf
<1>6. \A r \in Requests : ReqInv(r)
  BY <1>3 DEF ReqInv, Shape, RowsInv, CreateInv, ActivateInv, RemoveInv,
     Outcomes, Locked, CreateSteps, RemoveSteps, ActivateSteps, Single
<1>7. QED
  BY <1>2, <1>4, <1>5, <1>6 DEF IInv

LEMMA StatementInv ==
  ASSUME IInv, NEW r \in Requests, Statement(r)
  PROVE  IInv'
BY LockAccountInv, InsertFirstInv, CommitCreateInv, EnvelopeInv, ReadSourceInv,
   InsertCopyInv, SaveExistsInv, SaveUpdateInv, ClearActiveInv, MarkActiveInv,
   CommitActivateInv, CountPlansInv, ReadTargetInv, DeleteRowInv, PromoteInv,
   CommitRemoveInv
DEF Statement

(* What the steps of a handler are, a deadlock's victim's among them.      *)
Moves(r) == Begin(r) \/ Statement(r) \/ Drop(r) \/ Victim(r)

handlers == <<accounts, plans, minted, lock, req, pc, tx>>

LEMMA StepIs ==
  ASSUME [Next]_vars
  PROVE  \/ UNCHANGED handlers
         \/ \E r \in Requests : Moves(r)
         \/ \E a \in Accounts : CommitDeletion(a)
BY DEF Next, vars, handlers, table, Client, Running, Cascading, DeleteAccount, CascadeRow,
   BreakDeadlock, EndDeletion, Moves

(* A handler locks rows that no deletion has taken.                        *)
LEMMA RowsAreFree ==
  ASSUME IInv, DeletionInv, NEW r \in Requests, Moves(r)
  PROVE  /\ \A s \in Requests \ {r} : tx'[s] = tx[s] /\ pc'[s] = pc[s] /\ req'[s] = req[s]
         /\ tx'[r].rows \cap taken = {}
         /\ pc'[r] = "commit_create" => req'[r].account \notin deleting
<1>. /\ req \in [Requests -> Request \cup {NoRequest}] /\ pc \in [Requests -> PCs]
     /\ tx \in [Requests -> Tx] /\ tx[r].rows \cap taken = {}
     /\ Shape(r)
  BY DEF IInv, HandlersTyped, DeletionInv, ReqInv
<1>1. CASE Begin(r)
  BY <1>1 DEF Begin, Goto, FirstStatement, NoTx
<1>2. CASE Drop(r) \/ Victim(r)
  BY <1>2 DEF Drop, Victim, Finish, NoTx
<1>3. CASE InsertFirst(r)
  <2>1. CASE Finish(r, "error")
    BY <2>1 DEF Finish, NoTx
  <2>2. CASE /\ Goto(r, "commit_create") /\ req' = req /\ req[r].account \notin deleting
             /\ \E p \in PlanIds : tx' = [tx EXCEPT ![r].target = p, ![r].flag = (PlansOf(req[r].account) = {})]
    <3>. PICK p \in PlanIds : tx' = [tx EXCEPT ![r].target = p, ![r].flag = (PlansOf(req[r].account) = {})]
      BY <2>2
    <3>1. tx[r] \in [count : Nat, flag : BOOLEAN, target : PlanIds \cup {None},
                     promote : PlanIds \cup {None}, rows : SUBSET PlanIds]
      BY DEF Tx
    <3>2. tx'[r].rows = tx[r].rows /\ \A s \in Requests \ {r} : tx'[s] = tx[s]
      BY <3>1
    <3>. QED
      BY <2>2, <3>2 DEF Goto
  <2>. QED
    BY <1>3, <2>1, <2>2 DEF InsertFirst
<1>4. CASE CommitCreate(r) \/ CommitActivate(r) \/ CommitRemove(r)
  BY <1>4 DEF CommitCreate, CommitActivate, CommitRemove, Finish, Goto, NoTx
<1>5. CASE LockAccount(r) \/ Envelope(r) \/ ReadSource(r) \/ InsertCopy(r) \/ SaveExists(r) \/ SaveUpdate(r)
  <2>1. CASE LockAccount(r) \/ Envelope(r) \/ ReadSource(r)
    BY <2>1 DEF LockAccount, Envelope, ReadSource, Goto, Finish, FirstLocked, NoTx, Tx
  <2>2. CASE InsertCopy(r)
    <3>1. CASE Finish(r, "error")
      BY <3>1 DEF Finish, NoTx
    <3>2. CASE Goto(r, "envelope") /\ req' = req /\ \E p \in PlanIds : tx' = [tx EXCEPT ![r].target = p]
      BY <3>2 DEF Goto, Tx
    <3>. QED
      BY <2>2, <3>1, <3>2 DEF InsertCopy
  <2>3. CASE SaveExists(r) \/ SaveUpdate(r)
    BY <2>3 DEF SaveExists, SaveUpdate, Goto, Finish, NoTx, Tx
  <2>. QED
    BY <1>5, <2>1, <2>2, <2>3
<1>6. CASE ClearActive(r)
  BY <1>6 DEF ClearActive, Goto, RowLocked, Tx
<1>7. CASE MarkActive(r)
  BY <1>7 DEF MarkActive, Goto, RowLocked, Tx
<1>8. CASE CountPlans(r) \/ DeleteRow(r)
  BY <1>8 DEF CountPlans, DeleteRow, Goto, Tx
<1>9. CASE ReadTarget(r)
  BY <1>9 DEF ReadTarget, Goto, Finish, RowLocked, NoTx, Tx
<1>10. CASE Promote(r)
  <2>1. CASE UNCHANGED tx
    BY <1>10, <2>1 DEF Promote, Goto
  <2>2. CASE \E q \in PlanIds : ~RowLocked(q) /\ tx' = [tx EXCEPT ![r].promote = q, ![r].rows = @ \cup {q}]
    <3>. PICK q \in PlanIds : ~RowLocked(q) /\ tx' = [tx EXCEPT ![r].promote = q, ![r].rows = @ \cup {q}]
      BY <2>2
    <3>1. tx'[r].rows = tx[r].rows \cup {q} /\ \A s \in Requests \ {r} : tx'[s] = tx[s]
      BY DEF Tx
    <3>. QED
      BY <1>10, <3>1 DEF Promote, Goto, RowLocked
  <2>. QED
    BY <1>10, <2>1, <2>2 DEF Promote, PlansOf
<1>. QED
  BY <1>1, <1>2, <1>3, <1>4, <1>5, <1>6, <1>7, <1>8, <1>9, <1>10 DEF Moves, Statement

LEMMA DeletionInvKept ==
  ASSUME IInv, DeletionInv, [Next]_vars
  PROVE  DeletionInv'
<1>1. CASE UNCHANGED vars
  BY <1>1 DEF vars, DeletionInv
<1>2. ASSUME NEW r \in Requests, Moves(r), UNCHANGED deletion
      PROVE  DeletionInv'
  <2>1. accounts' = accounts
    BY <1>2 DEF Moves, Begin, Drop, Victim, Statement, table, LockAccount, InsertFirst, CommitCreate, Envelope,
       ReadSource, InsertCopy, SaveExists, SaveUpdate, ClearActive, MarkActive, CommitActivate,
       CountPlans, ReadTarget, DeleteRow, Promote, CommitRemove
  <2>. QED
    BY <1>2, <2>1, RowsAreFree DEF DeletionInv, deletion
<1>3. ASSUME NEW a \in Accounts, DeleteAccount(a)
      PROVE  DeletionInv'
  BY <1>3 DEF DeletionInv, DeleteAccount, table
<1>4. ASSUME NEW a \in Accounts, CascadeRow(a)
      PROVE  DeletionInv'
  BY <1>4 DEF DeletionInv, CascadeRow, RowLocked, table, PlansOf
<1>5. ASSUME NEW a \in Accounts, EndDeletion(a), accounts' \in {accounts, accounts \ {a}}
      PROVE  DeletionInv'
  BY <1>5 DEF DeletionInv, EndDeletion
<1>. QED
  BY <1>1, <1>2, <1>3, <1>4, <1>5 DEF Next, Client, Running, Cascading, CommitDeletion, BreakDeadlock, Moves

LEMMA NextInv == IInv /\ DeletionInv /\ [Next]_vars => IInv' /\ DeletionInv'
<1> SUFFICES ASSUME IInv, DeletionInv, [Next]_vars PROVE IInv'
  BY DeletionInvKept
<1>1. CASE UNCHANGED handlers
  BY <1>1 DEF handlers, IInv, HandlersTyped, LockMatchesPc, TableInv, ActiveOf, PlansOf,
     ReqInv, Shape, RowsInv, CreateInv, ActivateInv, RemoveInv
<1>2. ASSUME NEW r \in Requests, Moves(r)
      PROVE  IInv'
  BY <1>2, BeginInv, StatementInv, DropInv DEF Moves
<1>3. ASSUME NEW a \in Accounts, CommitDeletion(a)
      PROVE  IInv'
  BY <1>3, CommitDeletionInv
<1>4. QED
  BY <1>1, <1>2, <1>3, StepIs

(* The inductive invariant holds in every reachable state.                 *)
THEOREM InvariantHolds == Spec => [](IInv /\ DeletionInv)
<1>1. Init => DeletionInv
  BY DEF Init, DeletionInv, NoTx
<1>2. QED
  BY InitInv, <1>1, NextInv, PTL DEF Spec

(* Every variable keeps its type: in particular a request that waits for   *)
(* a lock is never left in a state its handler does not have.              *)
THEOREM TypeCorrect == Spec => []TypeOK
<1>1. IInv /\ DeletionInv => TypeOK
  BY DEF IInv, DeletionInv, TypeOK
<1>2. QED
  BY <1>1, InvariantHolds, PTL

(* The advisory lock of an account is held exactly while a handler runs    *)
(* between lock_account and the end of its transaction.                    *)
THEOREM LocksReleased == Spec => []LockMatchesPc
<1>1. IInv => LockMatchesPc
  BY DEF IInv
<1>2. QED
  BY <1>1, InvariantHolds, PTL

-----------------------------------------------------------------------------
(* The unique index.                                                       *)

LEMMA NoRefusal ==
  ASSUME IInv, NEW r \in Requests,
         Moves(r),
         pc[r] # "unique_violation"
  PROVE  /\ pc'[r] # "unique_violation"
         /\ \A s \in Requests \ {r} : pc'[s] = pc[s]
<1> pc \in [Requests -> PCs]
  BY DEF IInv, HandlersTyped
<1>1. CASE Begin(r)
  BY <1>1 DEF Begin, Goto, FirstStatement
<1>2. CASE Drop(r) \/ Victim(r)
  BY <1>2 DEF Drop, Victim, Finish
<1>3. CASE CommitCreate(r)
  <2>1. tx[r].flag => PlansOf(req[r].account) = {}
    BY <1>3 DEF CommitCreate, IInv, ReqInv, CreateInv
  <2>2. ~(tx[r].flag /\ ActiveOf(req[r].account) # {})
    BY <2>1 DEF ActiveOf
  <2>3. QED
    BY <1>3, <2>2 DEF CommitCreate, Goto
<1>4. CASE CommitActivate(r)
  <2>1. ActiveOf(req[r].account) \subseteq tx[r].rows
    BY <1>4 DEF CommitActivate, IInv, ReqInv, ActivateInv
  <2>2. QED
    BY <1>4, <2>1 DEF CommitActivate, Finish
<1>5. CASE LockAccount(r) \/ InsertFirst(r) \/ Envelope(r) \/ ReadSource(r)
        \/ InsertCopy(r) \/ SaveExists(r) \/ SaveUpdate(r)
  BY <1>5 DEF LockAccount, InsertFirst, Envelope, ReadSource, InsertCopy,
     SaveExists, SaveUpdate, Goto, Finish, FirstLocked
<1>6. CASE ClearActive(r) \/ MarkActive(r) \/ CountPlans(r) \/ ReadTarget(r)
        \/ DeleteRow(r) \/ Promote(r) \/ CommitRemove(r)
  BY <1>6 DEF ClearActive, MarkActive, CountPlans, ReadTarget, DeleteRow,
     Promote, CommitRemove, Goto, Finish
<1>7. QED
  BY <1>1, <1>2, <1>3, <1>4, <1>5, <1>6 DEF Moves, Statement

(* No interleaving of create_plan, set_active_plan, delete_plan, dropped   *)
(* handlers and account deletions makes plans_one_active_per_account       *)
(* refuse a commit: the account lock is enough.                            *)
THEOREM IndexUnused == Spec => []IndexNeverRefuses
<1>1. Init => IndexNeverRefuses
  BY DEF Init, IndexNeverRefuses
<1>2. IInv /\ IndexNeverRefuses /\ [Next]_vars => IndexNeverRefuses'
  <2> SUFFICES ASSUME IInv, IndexNeverRefuses, [Next]_vars
               PROVE  IndexNeverRefuses'
    OBVIOUS
  <2>1. CASE UNCHANGED handlers
    BY <2>1 DEF handlers, IndexNeverRefuses
  <2>2. ASSUME NEW r \in Requests, Moves(r)
        PROVE  IndexNeverRefuses'
    <3>1. /\ pc'[r] # "unique_violation"
          /\ \A s \in Requests \ {r} : pc'[s] = pc[s]
      BY <2>2, NoRefusal DEF IndexNeverRefuses
    <3>2. QED
      BY <3>1 DEF IndexNeverRefuses
  <2>3. ASSUME NEW a \in Accounts, CommitDeletion(a)
        PROVE  IndexNeverRefuses'
    BY <2>3 DEF CommitDeletion, EndDeletion, IndexNeverRefuses
  <2>4. QED
    BY <2>1, <2>2, <2>3, StepIs
<1>3. QED
  BY InvariantHolds, <1>1, <1>2, PTL DEF Spec

-----------------------------------------------------------------------------
(* The refinement of PlanBook: each table write is one atomic operation.   *)

LEMMA BookCreate ==
  ASSUME IInv, NEW r \in Requests, CommitCreate(r)
  PROVE  Book!Next \/ UNCHANGED table
<1> DEFINE a == req[r].account
           p == tx[r].target
<1>1. /\ a \in accounts /\ a \in Accounts /\ p \in PlanIds \ minted
      /\ tx[r].flag \in BOOLEAN
      /\ tx[r].flag <=> PlansOf(a) = {}
  BY DEF CommitCreate, IInv, ReqInv, CreateInv, HandlersTyped, Tx
<1>2. ~(tx[r].flag /\ ActiveOf(a) # {})
  BY <1>1 DEF ActiveOf
<1>3. /\ plans' = [plans EXCEPT ![p] = NewRow(a, tx[r].flag)]
      /\ minted' = minted \cup {p} /\ accounts' = accounts
  BY <1>2 DEF CommitCreate
<1>4. tx[r].flag = (Book!PlansOf(a) = {})
  BY <1>1, Zenon DEF PlansOf, Book!PlansOf
<1>5. plans' = [plans EXCEPT ![p] =
        [account |-> a, active |-> Book!PlansOf(a) = {}, version |-> 1]]
  BY <1>3, <1>4, Zenon DEF NewRow
<1>6. Book!Create(a, p)
  BY <1>1, <1>3, <1>5, Zenon DEF Book!Create
<1>7. QED
  BY <1>1, <1>6, Zenon DEF Book!Next

LEMMA BookDuplicate ==
  ASSUME IInv, NEW r \in Requests, InsertCopy(r)
  PROVE  Book!Next \/ UNCHANGED table
<1> DEFINE a == req[r].account
<1>1. CASE a \notin accounts
  BY <1>1 DEF InsertCopy, table
<1>2. CASE a \in accounts
  <2>1. PICK p \in PlanIds :
          /\ p \notin minted
          /\ plans' = [plans EXCEPT ![p] = NewRow(a, FALSE)]
          /\ minted' = minted \cup {p} /\ accounts' = accounts
    BY <1>2 DEF InsertCopy, Fresh
  <2>2. a \in Accounts /\ Book!PlansOf(a) # {}
    BY <1>2 DEF InsertCopy, IInv, ReqInv, CreateInv, PlansOf, Book!PlansOf, HandlersTyped
  <2>3. Book!Duplicate(a, p)
    BY <1>2, <2>1, <2>2 DEF Book!Duplicate, NewRow
  <2>4. QED
    BY <2>2, <2>3 DEF Book!Next
<1>3. QED
  BY <1>1, <1>2

LEMMA BookSave ==
  ASSUME IInv, NEW r \in Requests, SaveUpdate(r)
  PROVE  Book!Next \/ UNCHANGED table
<1> DEFINE a == req[r].account
           p == req[r].plan
<1>1. CASE VersionIsCurrent(r)
  <2>1. a \in Accounts
    BY DEF SaveUpdate, IInv, ReqInv, Shape, Outcomes, Request
  <2>2. p \in PlanIds /\ Book!Save(a, p)
    BY <1>1 DEF SaveUpdate, VersionIsCurrent, PlansOf, Book!PlansOf, Book!Save
  <2>3. QED
    BY <2>1, <2>2 DEF Book!Next
<1>2. CASE ~VersionIsCurrent(r)
  BY <1>2 DEF SaveUpdate, table
<1>3. QED
  BY <1>1, <1>2

LEMMA BookActivate ==
  ASSUME IInv, NEW r \in Requests, CommitActivate(r)
  PROVE  Book!Next \/ UNCHANGED table
<1> USE DEF IInv
<1> DEFINE a == req[r].account
           p == req[r].plan
<1>1. pc[r] = "commit_activate" /\ UNCHANGED <<accounts, minted>>
  BY DEF CommitActivate
<1>2. /\ tx[r].flag => p \in PlansOf(a)
      /\ tx[r].rows = ActiveOf(a) \cup (IF tx[r].flag THEN {p} ELSE {})
      /\ tx[r].rows \subseteq PlansOf(a) /\ tx[r].flag \in BOOLEAN
      /\ ActiveOf(a) \subseteq tx[r].rows /\ a \in Accounts
  BY <1>1 DEF ReqInv, ActivateInv, RowsInv, HandlersTyped, Tx, Shape, Request, Outcomes,
     Locked, ActivateSteps
<1>3. plans' = Activated(r)
  BY <1>2 DEF CommitActivate
<1>4. ASSUME NEW f \in BOOLEAN,
             \A q \in PlansOf(a) : (f /\ q = p) <=> (tx[r].flag /\ q = p)
      PROVE  plans' = [q \in PlanIds |-> IF q \in PlansOf(a)
                         THEN [plans[q] EXCEPT !.active = (f /\ q = p)]
                         ELSE plans[q]]
  <2> SUFFICES ASSUME NEW q \in PlanIds
      PROVE  [plans[q] EXCEPT !.active =
                IF q \in tx[r].rows THEN tx[r].flag /\ q = req[r].plan ELSE @]
             = (IF q \in PlansOf(a)
                  THEN [plans[q] EXCEPT !.active = (f /\ q = p)] ELSE plans[q])
    BY <1>3, Zenon DEF Activated
  <2>1. plans[q] \in Row
    BY DEF HandlersTyped
  <2>2. CASE q \in tx[r].rows
    <3>1. (tx[r].flag /\ q = p) = (f /\ q = p)
      BY <1>2, <1>4, <2>2, Zenon
    <3>2. q \in PlansOf(a)
      BY <1>2, <2>2
    <3>3. QED
      BY <2>2, <3>1, <3>2, Zenon
  <2>3. CASE q \notin tx[r].rows /\ q \in PlansOf(a)
    <3>1. ~plans[q].active /\ plans[q].active \in BOOLEAN
      BY <1>2, <2>1, <2>3 DEF ActiveOf, Row
    <3>2. ~(f /\ q = p)
      BY <1>2, <1>4, <2>3
    <3>3. PICK v \in BOOLEAN : v = (f /\ q = p)
      OBVIOUS
    <3>4. plans[q].active = v
      BY <3>1, <3>2, <3>3
    <3>5. [plans[q] EXCEPT !.active = v] = [plans[q] EXCEPT !.active = plans[q].active]
      BY <3>4, Zenon
    <3>6. QED
      BY <2>3, <3>3, <3>5, Zenon
  <2>4. CASE q \notin tx[r].rows /\ q \notin PlansOf(a)
    <3>1. [plans[q] EXCEPT !.active = @] = plans[q]
      BY <2>1 DEF Row
    <3>2. QED
      BY <2>4, <3>1, Zenon
  <2>5. QED
    BY <2>2, <2>3, <2>4
<1>5. CASE tx[r].flag
  <2>1. plans' = [q \in PlanIds |-> IF q \in PlansOf(a)
                    THEN [plans[q] EXCEPT !.active = (TRUE /\ q = p)]
                    ELSE plans[q]]
    BY <1>4, <1>5, Zenon
  <2>2. \A q : (TRUE /\ q = p) = (q = p)
    BY Zenon
  <2>3. plans' = [q \in PlanIds |-> IF q \in PlansOf(a)
                    THEN [plans[q] EXCEPT !.active = (q = p)] ELSE plans[q]]
    BY <2>1, <2>2, Zenon
  <2>4. Book!Activate(a, p)
    BY <1>1, <1>2, <1>5, <2>3, Zenon DEF Book!Activate, Book!PlansOf, PlansOf
  <2>5. p \in PlanIds
    BY <1>2, <1>5 DEF PlansOf
  <2>6. QED
    BY <1>2, <2>4, <2>5, Zenon DEF Book!Next
<1>6. CASE ~tx[r].flag
  <2>1. plans' = [q \in PlanIds |-> IF q \in PlansOf(a)
                    THEN [plans[q] EXCEPT !.active = (FALSE /\ q = p)]
                    ELSE plans[q]]
    BY <1>4, <1>6, Zenon
  <2>2. \A q : (FALSE /\ q = p) = FALSE
    BY Zenon
  <2>3. plans' = [q \in PlanIds |-> IF q \in PlansOf(a)
                    THEN [plans[q] EXCEPT !.active = FALSE] ELSE plans[q]]
    BY <2>1, <2>2, Zenon
  <2>4. Book!Deactivate(a)
    BY <1>1, <2>3, Zenon DEF Book!Deactivate, Book!PlansOf, PlansOf
  <2>5. QED
    BY <1>2, <2>4, Zenon DEF Book!Next
<1>7. QED
  BY <1>5, <1>6

(* A deletion committed by remove finds another plan of the account.       *)
LEMMA RemovalFacts ==
  ASSUME IInv, NEW r \in Requests, CommitRemove(r)
  PROVE  /\ req[r].account \in Accounts
         /\ req[r].plan \in PlansOf(req[r].account)
         /\ \E q \in PlansOf(req[r].account) : q # req[r].plan
         /\ tx[r].flag = plans[req[r].plan].active
         /\ tx[r].flag \in BOOLEAN
         /\ tx[r].flag => tx[r].promote \in PlansOf(req[r].account) \ {req[r].plan}
         /\ ~tx[r].flag => tx[r].promote = None
BY DEF CommitRemove, IInv, ReqInv, RemoveInv, HandlersTyped, Tx, Shape, Request, Outcomes

LEMMA BookRemove ==
  ASSUME IInv, NEW r \in Requests, CommitRemove(r)
  PROVE  Book!Next \/ UNCHANGED table
<1> DEFINE a == req[r].account
           p == req[r].plan
<1>1. /\ a \in Accounts /\ p \in PlansOf(a) /\ tx[r].flag = plans[p].active
      /\ tx[r].flag \in BOOLEAN
      /\ tx[r].flag => tx[r].promote \in PlansOf(a) \ {p}
      /\ ~tx[r].flag => tx[r].promote = None
  BY RemovalFacts
<1>2. PICK q \in PlansOf(a) \ {p} : tx[r].flag => q = tx[r].promote
  BY RemovalFacts
<1>3. plans' = Removed(r) /\ UNCHANGED <<accounts, minted>>
  BY DEF CommitRemove
<1>4. plans \in [PlanIds -> Row] /\ p \in PlanIds /\ q \in PlanIds /\ q # p
  BY <1>1, <1>2 DEF IInv, HandlersTyped, PlansOf
<1>5. PICK v \in BOOLEAN : v = (plans[q].active \/ plans[p].active)
  BY <1>4, Zenon DEF Row
<1>6. plans' = [plans EXCEPT ![p] = Absent, ![q].active = v]
  <2> DEFINE old == [plans EXCEPT ![p] = Absent, ![q].active = v]
  <2>1. old \in [PlanIds -> {old[x] : x \in PlanIds}] /\ DOMAIN old = PlanIds
    BY <1>4
  <2>2. old[p] = Absent
    BY <1>4
  <2>3. old[q] = [plans[q] EXCEPT !.active = v]
    BY <1>4
  <2>4. \A x \in PlanIds \ {p, q} : old[x] = plans[x]
    BY <1>4
  <2>5. ASSUME NEW x \in PlanIds PROVE Removed(r)[x] = old[x]
    <3>1. CASE x = p
      BY <2>2, <3>1 DEF Removed
    <3>2. CASE x = q /\ tx[r].flag
      <4>1. v = TRUE
        BY <1>1, <1>5, <3>2
      <4>2. Removed(r)[x] = [plans[x] EXCEPT !.active = TRUE]
        BY <1>2, <1>4, <3>2 DEF Removed
      <4>3. QED
        BY <2>3, <3>2, <4>1, <4>2
    <3>3. CASE x = q /\ ~tx[r].flag
      <4>1. x # tx[r].promote
        BY <1>1, <1>4, <3>3, PlanStoreAssumption
      <4>2. Removed(r)[x] = plans[x]
        BY <1>4, <3>3, <4>1 DEF Removed
      <4>3. v = plans[q].active
        BY <1>1, <1>4, <1>5, <3>3 DEF Row
      <4>4. [plans[q] EXCEPT !.active = plans[q].active] = plans[q]
        BY <1>4 DEF Row
      <4>5. QED
        BY <2>3, <3>3, <4>2, <4>3, <4>4
    <3>4. CASE x \notin {p, q}
      <4>1. x # tx[r].promote
        BY <1>1, <1>2, <3>4, PlanStoreAssumption
      <4>2. QED
        BY <2>4, <3>4, <4>1 DEF Removed
    <3>5. QED
      BY <3>1, <3>2, <3>3, <3>4
  <2>6. Removed(r) = [x \in PlanIds |-> old[x]]
    BY <2>5 DEF Removed
  <2>7. QED
    BY <1>3, <1>4, <2>6
<1>7. plans' = [plans EXCEPT ![p] = Absent, ![q].active = @ \/ plans[p].active]
  BY <1>5, <1>6, Zenon
<1>8. Book!Remove(a, p, q)
  BY <1>1, <1>2, <1>3, <1>7, Zenon DEF Book!Remove, Book!PlansOf, PlansOf,
     Book!Absent, Absent
<1>9. QED
  BY <1>1, <1>4, <1>8, Zenon DEF Book!Next

LEMMA BookDeleteAccount ==
  ASSUME DeletionInv, NEW a \in Accounts, CommitDeletion(a)
  PROVE  Book!DeleteAccount(a)
BY DEF DeletionInv, CommitDeletion, EndDeletion, Book!DeleteAccount, Book!Absent, Absent

(* Every step that is not one of the commits leaves the table alone.       *)
LEMMA TableWriters ==
  ASSUME NEW r \in Requests, Moves(r)
  PROVE  \/ UNCHANGED table
         \/ CommitCreate(r) \/ InsertCopy(r) \/ SaveUpdate(r)
         \/ CommitActivate(r) \/ CommitRemove(r)
<1>1. CASE Begin(r) \/ Drop(r) \/ Victim(r)
  BY <1>1 DEF Begin, Drop, Victim
<1>2. CASE LockAccount(r) \/ InsertFirst(r) \/ Envelope(r) \/ ReadSource(r)
        \/ SaveExists(r) \/ ClearActive(r) \/ MarkActive(r) \/ CountPlans(r)
        \/ ReadTarget(r) \/ DeleteRow(r) \/ Promote(r)
  BY <1>2 DEF LockAccount, InsertFirst, Envelope, ReadSource, SaveExists,
     ClearActive, MarkActive, CountPlans, ReadTarget, DeleteRow, Promote
<1>3. QED
  BY <1>1, <1>2 DEF Moves, Statement

(* The plan endpoints implement the plan book: however the statements of   *)
(* any number of handlers interleave, the table changes only by the atomic *)
(* operations of PlanBook.                                                 *)
THEOREM PlanStoreImplementsPlanBook == Spec => ImplementsPlanBook
<1>1. Init => Book!Init
  BY DEF Init, Book!Init, Absent, Book!Absent
<1>2. IInv /\ DeletionInv /\ [Next]_vars => [Book!Next]_(Book!bookVars)
  <2> SUFFICES ASSUME IInv, DeletionInv, [Next]_vars
               PROVE  Book!Next \/ UNCHANGED table
    BY DEF table, Book!bookVars
  <2>1. CASE UNCHANGED handlers
    BY <2>1 DEF handlers, table
  <2>2. ASSUME NEW r \in Requests, Moves(r)
        PROVE  Book!Next \/ UNCHANGED table
    BY <2>2, TableWriters, BookCreate, BookDuplicate, BookSave, BookActivate,
       BookRemove
  <2>3. ASSUME NEW a \in Accounts, CommitDeletion(a)
        PROVE  Book!Next
    BY <2>3, BookDeleteAccount DEF Book!Next
  <2>4. QED
    BY <2>1, <2>2, <2>3, StepIs
<1>3. QED
  BY InvariantHolds, <1>1, <1>2, PTL DEF Spec, Book!Spec, ImplementsPlanBook

-----------------------------------------------------------------------------
(* The last plan.                                                          *)

(* What LastPlanKept allows a step to do to account a.                     *)
KeepsOne(a) ==
  /\ PlansOf(a) # {} => NextPlans(a) # {} \/ a \notin accounts'
  /\ ActiveOf(a) # {} =>
       \/ NextActive(a) # {}
       \/ a \notin accounts'
       \/ \E r \in Requests : /\ pc[r] = "commit_activate"
                              /\ pc'[r] = "not_found"
                              /\ req[r].account = a

(* Every plan of a is still there, and still active if it was.             *)
KeepsAll(a) ==
  \A x \in PlansOf(a) :
    plans'[x].account = a /\ (plans[x].active => plans'[x].active)

LEMMA KeepsAllKeepsOne ==
  ASSUME NEW a \in Accounts, KeepsAll(a)
  PROVE  KeepsOne(a)
BY DEF KeepsAll, KeepsOne, PlansOf, ActiveOf, NextPlans, NextActive

LEMMA InsertsKeep ==
  ASSUME IInv, NEW r \in Requests, CommitCreate(r) \/ InsertCopy(r),
         NEW a \in Accounts
  PROVE  KeepsAll(a)
<1>1. CASE UNCHANGED plans
  BY <1>1 DEF KeepsAll, PlansOf
<1>2. CASE \E p \in PlanIds \ minted, row \in Row : plans' = [plans EXCEPT ![p] = row]
  <2>1. PICK p \in PlanIds \ minted, row \in Row : plans' = [plans EXCEPT ![p] = row]
    BY <1>2
  <2>2. p \notin PlansOf(a)
    BY PlanStoreAssumption DEF PlansOf, IInv, TableInv
  <2>3. QED
    BY <2>1, <2>2 DEF KeepsAll, PlansOf, IInv, HandlersTyped
<1>3. CASE CommitCreate(r)
  <2>1. /\ tx[r].target \in PlanIds \ minted /\ tx[r].flag \in BOOLEAN
        /\ req[r].account \in Accounts
    BY <1>3 DEF CommitCreate, IInv, ReqInv, CreateInv, HandlersTyped, Tx
  <2>2. NewRow(req[r].account, tx[r].flag) \in Row
    BY <2>1 DEF NewRow, Row
  <2>3. \/ UNCHANGED plans
        \/ plans' = [plans EXCEPT ![tx[r].target] = NewRow(req[r].account, tx[r].flag)]
    BY <1>3, Zenon DEF CommitCreate
  <2>4. QED
    BY <1>1, <1>2, <2>1, <2>2, <2>3
<1>4. CASE InsertCopy(r)
  <2>1. CASE req[r].account \notin accounts
    BY <1>1, <1>4, <2>1 DEF InsertCopy
  <2>2. CASE req[r].account \in accounts
    <3>1. NewRow(req[r].account, FALSE) \in Row
      BY <2>2 DEF NewRow, Row, IInv, HandlersTyped
    <3>2. \E p \in PlanIds \ minted : plans' = [plans EXCEPT ![p] = NewRow(req[r].account, FALSE)]
      BY <1>4, <2>2 DEF InsertCopy, Fresh
    <3>3. QED
      BY <1>2, <3>1, <3>2
  <2>3. QED
    BY <2>1, <2>2
<1>5. QED
  BY <1>3, <1>4

LEMMA SaveKeeps ==
  ASSUME IInv, NEW r \in Requests, SaveUpdate(r), NEW a \in Accounts
  PROVE  KeepsAll(a)
<1>1. \/ UNCHANGED plans
      \/ plans' = [plans EXCEPT ![req[r].plan].version = @ + 1]
  BY DEF SaveUpdate
<1>2. plans \in [PlanIds -> Row]
  BY DEF IInv, HandlersTyped
<1>3. ASSUME NEW x \in PlanIds
      PROVE  plans'[x].account = plans[x].account /\ plans'[x].active = plans[x].active
  BY <1>1, <1>2 DEF Row
<1>4. QED
  BY <1>3 DEF KeepsAll, PlansOf

LEMMA ActivateKeeps ==
  ASSUME IInv, NEW r \in Requests, CommitActivate(r), NEW b \in Accounts
  PROVE  KeepsOne(b)
<1> USE DEF IInv
<1> DEFINE a == req[r].account
           p == req[r].plan
<1>1. pc[r] = "commit_activate"
  BY DEF CommitActivate
<1>2. /\ tx[r].flag => p \in PlansOf(a)
      /\ tx[r].rows = ActiveOf(a) \cup (IF tx[r].flag THEN {p} ELSE {})
      /\ tx[r].rows \subseteq PlansOf(a) /\ tx[r].flag \in BOOLEAN
  BY <1>1 DEF ReqInv, ActivateInv, RowsInv, HandlersTyped, Tx, Locked, ActivateSteps
<1>3. plans' = Activated(r) /\ Finish(r, IF tx[r].flag THEN "ok" ELSE "not_found")
  BY <1>2 DEF CommitActivate
<1>4. ASSUME NEW x \in PlanIds
      PROVE  /\ plans'[x].account = plans[x].account
             /\ x \in tx[r].rows => (plans'[x].active <=> tx[r].flag /\ x = p)
             /\ x \notin tx[r].rows => plans'[x].active = plans[x].active
  <2>1. plans[x] \in Row
    BY DEF HandlersTyped
  <2>2. CASE x \in tx[r].rows
    <3>1. PICK v \in BOOLEAN : v = (tx[r].flag /\ x = p)
      OBVIOUS
    <3>2. plans'[x] = [plans[x] EXCEPT !.active = v]
      BY <1>3, <2>2, <3>1, Zenon DEF Activated
    <3>3. QED
      BY <2>1, <2>2, <3>1, <3>2 DEF Row
  <2>3. CASE x \notin tx[r].rows
    <3>1. plans'[x] = [plans[x] EXCEPT !.active = @]
      BY <1>3, <2>3, Zenon DEF Activated
    <3>2. QED
      BY <2>1, <2>3, <3>1 DEF Row
  <2>4. QED
    BY <2>2, <2>3
<1>5. CASE b # a
  <2>1. PlansOf(b) \cap tx[r].rows = {}
    BY <1>2, <1>5 DEF PlansOf
  <2>2. KeepsAll(b)
    BY <1>4, <2>1 DEF KeepsAll, PlansOf
  <2>3. QED
    BY <2>2, KeepsAllKeepsOne
<1>6. CASE b = a /\ tx[r].flag
  BY <1>2, <1>4, <1>6 DEF KeepsOne, PlansOf, NextPlans, NextActive
<1>7. CASE b = a /\ ~tx[r].flag
  <2>1. pc'[r] = "not_found"
    BY <1>3, <1>7 DEF Finish, HandlersTyped
  <2>2. PlansOf(b) # {} => NextPlans(b) # {}
    BY <1>4 DEF PlansOf, NextPlans
  <2>3. QED
    BY <1>1, <1>7, <2>1, <2>2 DEF KeepsOne
<1>8. QED
  BY <1>5, <1>6, <1>7

LEMMA RemoveKeeps ==
  ASSUME IInv, NEW r \in Requests, CommitRemove(r), NEW b \in Accounts
  PROVE  KeepsOne(b)
<1> DEFINE a == req[r].account
           p == req[r].plan
           q == tx[r].promote
<1>1. /\ p \in PlansOf(a) /\ tx[r].flag = plans[p].active /\ tx[r].flag \in BOOLEAN
      /\ tx[r].flag => q \in PlansOf(a) \ {p}
      /\ \E x \in PlansOf(a) : x # p
  BY RemovalFacts
<1>2. ASSUME NEW x \in PlanIds, x # p
      PROVE  /\ plans'[x].account = plans[x].account
             /\ plans[x].active => plans'[x].active
             /\ x = q => plans'[x].active
  <2>1. plans[x] \in Row
    BY DEF IInv, HandlersTyped
  <2>2. plans'[x] = IF x = q THEN [plans[x] EXCEPT !.active = TRUE] ELSE plans[x]
    BY <1>2 DEF CommitRemove, Removed
  <2>3. QED
    BY <2>1, <2>2 DEF Row
<1>3. CASE b # a
  <2>1. p \notin PlansOf(b)
    BY <1>1, <1>3 DEF PlansOf
  <2>2. KeepsAll(b)
    BY <1>2, <2>1 DEF KeepsAll, PlansOf
  <2>3. QED
    BY <2>2, KeepsAllKeepsOne
<1>4. CASE b = a
  <2>1. NextPlans(b) # {}
    BY <1>1, <1>2, <1>4 DEF NextPlans, PlansOf
  <2>2. ActiveOf(b) # {} => NextActive(b) # {}
    <3>1. CASE tx[r].flag
      <4>1. q \in PlansOf(a) /\ q # p
        BY <1>1, <3>1
      <4>2. q \in NextActive(b)
        BY <1>2, <1>4, <4>1 DEF NextActive, PlansOf
      <4>3. QED
        BY <4>2
    <3>2. CASE ~tx[r].flag
      <4>1. p \notin ActiveOf(b)
        BY <1>1, <3>2 DEF ActiveOf
      <4>2. QED
        BY <1>2, <4>1 DEF ActiveOf, PlansOf, NextActive
    <3>3. QED
      BY <1>1, <3>1, <3>2
  <2>3. QED
    BY <2>1, <2>2 DEF KeepsOne
<1>5. QED
  BY <1>3, <1>4

(* No interleaving of deletions removes the last plan of an account that   *)
(* still exists, and none but a failed activation leaves it without an     *)
(* active plan (delete_plan, set_active_plan).                             *)
THEOREM LastPlanIsKept == Spec => LastPlanKept
<1>1. ASSUME IInv, [Next]_vars, NEW a \in Accounts
      PROVE  KeepsOne(a)
  <2>1. CASE UNCHANGED table
    <3>1. plans' = plans
      BY <2>1 DEF table
    <3>2. QED
      BY <3>1, KeepsAllKeepsOne DEF KeepsAll, PlansOf
  <2>2. ASSUME NEW r \in Requests, Moves(r)
        PROVE  KeepsOne(a)
    BY <1>1, <2>1, <2>2, TableWriters, InsertsKeep, SaveKeeps, ActivateKeeps,
       RemoveKeeps, KeepsAllKeepsOne
  <2>3. ASSUME NEW b \in Accounts, CommitDeletion(b)
        PROVE  KeepsOne(a)
    <3>1. CASE a = b
      BY <2>3, <3>1 DEF CommitDeletion, KeepsOne
    <3>2. CASE a # b
      <4>1. \A x \in PlansOf(a) : plans'[x] = plans[x]
        BY <2>3, <3>2 DEF CommitDeletion, PlansOf
      <4>2. KeepsAll(a)
        BY <4>1 DEF KeepsAll, PlansOf
      <4>3. QED
        BY <4>2, KeepsAllKeepsOne
    <3>3. QED
      BY <3>1, <3>2
  <2>4. CASE UNCHANGED handlers
    BY <2>1, <2>4 DEF handlers, table
  <2>5. QED
    BY <1>1, <2>2, <2>3, <2>4, StepIs
<1>2. ASSUME NEW a \in Accounts
      PROVE  PlansOf(a)' = NextPlans(a) /\ ActiveOf(a)' = NextActive(a)
  BY DEF PlansOf, ActiveOf, NextPlans, NextActive
<1>3. IInv /\ [Next]_vars => [\A a \in Accounts :
       /\ PlansOf(a) # {} /\ PlansOf(a)' = {} => a \notin accounts'
       /\ ActiveOf(a) # {} /\ ActiveOf(a)' = {} =>
            \/ a \notin accounts'
            \/ \E r \in Requests :
                 /\ pc[r] = "commit_activate" /\ pc'[r] = "not_found"
                 /\ req[r].account = a]_vars
  BY <1>1, <1>2 DEF KeepsOne
<1>4. QED
  BY InvariantHolds, <1>3, PTL DEF Spec, LastPlanKept
=============================================================================
