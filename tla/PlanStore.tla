------------------------------ MODULE PlanStore ------------------------------
(***************************************************************************)
(* The plans table and the API handlers that write it.                     *)
(*                                                                         *)
(* Source: crates/skyspace-store/src/plans.rs, the handlers in             *)
(* crates/skyspace-api/src/routes/plans.rs and the schema in               *)
(* crates/skyspace-store/migrations/0006_plans.sql.                        *)
(*                                                                         *)
(* A request is a process that runs one handler.  Its steps are the SQL    *)
(* statements of the handler under READ COMMITTED: a statement reads what  *)
(* is committed, a transaction's own writes are staged in tx[r] and reach  *)
(* the table when it commits, and a row a transaction has touched blocks   *)
(* every other writer of that row until it ends.                           *)
(*                                                                         *)
(* Left out: the body of a plan, its name and its catalog year (PlanSync   *)
(* follows the body), and updated_at, whose only effect here is to choose  *)
(* which remaining plan a deletion activates: the model may choose any.    *)
(***************************************************************************)
EXTENDS Naturals, FiniteSets

CONSTANTS
  Accounts,    \* account ids
  PlanIds,     \* the uuids the store can mint; none is minted twice
  Requests,    \* handlers that can run at the same time
  None,        \* absence of an account, a plan or a lock holder
  MaxVersion   \* bound on the version a save can reach

ASSUME PlanStoreAssumption ==
  /\ None \notin Accounts \cup PlanIds \cup Requests
  /\ IsFiniteSet(PlanIds)
  /\ MaxVersion \in Nat \ {0}

VARIABLES
  accounts,    \* accounts that exist
  plans,       \* the committed rows of the table, by id
  minted,      \* ids already handed out
  lock,        \* lock[a]: the request holding a's advisory lock, or None
  req,         \* req[r]: what request r was asked to do
  pc,          \* pc[r]: the statement r runs next, or how it ended
  tx,          \* tx[r]: what r has read, and the writes it has staged
  deleting,    \* accounts whose deletion is under way
  taken        \* rows those deletions have locked so far

table    == <<accounts, plans, minted>>
deletion == <<deleting, taken>>
vars     == <<accounts, plans, minted, lock, req, pc, tx, deleting, taken>>

-----------------------------------------------------------------------------
(* The table.                                                              *)

Row == [account : Accounts \cup {None}, active : BOOLEAN, version : Nat]

Absent == [account |-> None, active |-> FALSE, version |-> 0]

PlansOf(a)  == {p \in PlanIds : plans[p].account = a}
ActiveOf(a) == {p \in PlansOf(a) : plans[p].active}

NewRow(a, active) == [account |-> a, active |-> active, version |-> 1]

-----------------------------------------------------------------------------
(* Requests.                                                               *)

Kinds == {"create", "save", "duplicate", "activate", "remove"}

Request == [kind : Kinds, account : Accounts,
            plan : PlanIds \cup {None}, version : Nat]

NoRequest == [kind |-> "save", account |-> None, plan |-> None, version |-> 0]

(* count: plans counted by a deletion.  flag: whether the row inserted or  *)
(* deleted is the active one, or whether the row to activate was found.    *)
(* target: the row staged for insertion.  promote: the plan a deletion     *)
(* activates.  rows: the committed rows this transaction has locked.       *)
Tx == [count : Nat, flag : BOOLEAN, target : PlanIds \cup {None},
       promote : PlanIds \cup {None}, rows : SUBSET PlanIds]

NoTx == [count |-> 0, flag |-> FALSE, target |-> None,
         promote |-> None, rows |-> {}]

(* The answer's status; nobody waits for one of an idle request's.         *)
Outcomes == {"idle", "ok", "not_found", "conflict", "error", "unique_violation"}

(* The statements that run between lock_account and the commit.            *)
CreateSteps   == {"insert", "commit_create"}
RemoveSteps   == {"count", "read_target", "delete_row", "promote",
                  "commit_remove"}
ActivateSteps == {"clear", "mark", "commit_activate"}
Locked        == CreateSteps \cup RemoveSteps \cup ActivateSteps

(* Statements outside any transaction of more than one statement.          *)
Single == {"exists", "update", "read_source", "insert_copy", "envelope"}

PCs == Outcomes \cup {"lock"} \cup Locked \cup Single

(* A row that an open transaction has written or selected for update, or   *)
(* that the deletion of its account has reached.                           *)
RowLocked(p) == p \in taken \/ \E r \in Requests : p \in tx[r].rows

(* The partial unique index makes a transaction wait for another that has  *)
(* an uncommitted active row of the same account.                          *)
IndexBusy(r) ==
  \E s \in Requests \ {r} :
    /\ req[s].account = req[r].account
    /\ tx[s].flag
    /\ pc[s] \in {"commit_create", "commit_activate"}

Goto(r, label) == pc' = [pc EXCEPT ![r] = label]

Finish(r, outcome) ==
  /\ pc' = [pc EXCEPT ![r] = outcome]
  /\ req' = [req EXCEPT ![r] = NoRequest]
  /\ tx' = [tx EXCEPT ![r] = NoTx]

(* Mutant: a session lock (pg_advisory_lock) outlives the transaction.     *)
ReleaseNothing(r) == lock' = lock

(* The end of a transaction, committed or rolled back: the advisory lock   *)
(* is transaction scoped and goes with it.                                 *)
Release(r) ==
  lock' = [a \in Accounts |-> IF lock[a] = r THEN None ELSE lock[a]]

FirstStatement(kind) ==
  IF kind = "save" THEN "exists"
  ELSE IF kind = "duplicate" THEN "read_source" ELSE "lock"

FirstLocked(kind) ==
  IF kind = "create" THEN "insert"
  ELSE IF kind = "remove" THEN "count" ELSE "clear"

(* Bound: enough ids are left for every request that may mint one.         *)
IdsLeft ==
  LET minting == {s \in Requests : /\ req[s].kind \in {"create", "duplicate"}
                                   /\ pc[s] \notin Outcomes \cup {"envelope"}}
  IN  Cardinality(minting) < Cardinality(PlanIds \ minted)

(* Bound: nothing is saved while a plan has been saved MaxVersion times.   *)
SavesLeft == \A p \in PlanIds : plans[p].version <= MaxVersion

(* A signed-in client sends a request, naming any plan id it likes: its    *)
(* own, another account's or a deleted one.  The session extractor found   *)
(* the account when the request came in.                                   *)
Begin(r) ==
  /\ pc[r] \in Outcomes
  /\ \E kind \in Kinds, a \in accounts, p \in PlanIds, v \in 1..MaxVersion :
       /\ kind \in {"create", "duplicate"} => IdsLeft
       /\ kind = "save" => SavesLeft
       /\ req' = [req EXCEPT ![r] =
                    [kind    |-> kind,
                     account |-> a,
                     plan    |-> IF kind = "create" THEN None ELSE p,
                     version |-> IF kind = "save" THEN v ELSE 0]]
       /\ Goto(r, FirstStatement(kind))
  /\ tx' = [tx EXCEPT ![r] = NoTx]
  /\ UNCHANGED <<table, lock>>

(* Mutant: the transaction does not wait for the account.                  *)
LockAccountUnheld(r) ==
  /\ pc[r] = "lock"
  /\ lock' = [lock EXCEPT ![req[r].account] = r]
  /\ Goto(r, FirstLocked(req[r].kind))
  /\ UNCHANGED <<table, req, tx>>

(* lock_account: pg_advisory_xact_lock, the first statement of every       *)
(* transaction that checks before it writes.                               *)
LockAccount(r) ==
  /\ pc[r] = "lock"
  /\ lock[req[r].account] = None
  /\ lock' = [lock EXCEPT ![req[r].account] = r]
  /\ Goto(r, FirstLocked(req[r].kind))
  /\ UNCHANGED <<table, req, tx>>

-----------------------------------------------------------------------------
(* create_plan and the insert it shares with duplicate_plan.               *)

Fresh(p) == p \notin minted /\ \A s \in Requests : tx[s].target # p

(* insert_plan with active_if_first: "$5 and not exists (select ...)".     *)
(* The foreign key waits for a deletion of the account under way, and      *)
(* refuses a plan of an account deleted since the request was admitted.    *)
InsertFirst(r) ==
  LET a == req[r].account IN
  /\ pc[r] = "insert"
  /\ a \notin deleting
  /\ IF a \notin accounts
       THEN Finish(r, "error") /\ Release(r)
       ELSE /\ PlansOf(a) = {} => ~IndexBusy(r)
            /\ \E p \in PlanIds :
                 /\ Fresh(p)
                 /\ tx' = [tx EXCEPT ![r].target = p,
                                     ![r].flag = (PlansOf(a) = {})]
            /\ Goto(r, "commit_create")
            /\ UNCHANGED <<lock, req>>
  /\ UNCHANGED table

(* The index refuses a second active row of the account.                   *)
CommitCreate(r) ==
  LET a == req[r].account
      p == tx[r].target IN
  /\ pc[r] = "commit_create"
  /\ IF tx[r].flag /\ ActiveOf(a) # {}
       THEN /\ Finish(r, "unique_violation")
            /\ UNCHANGED <<plans, minted>>
       ELSE /\ plans' = [plans EXCEPT ![p] = NewRow(a, tx[r].flag)]
            /\ minted' = minted \cup {p}
            /\ Goto(r, "envelope")
            /\ UNCHANGED <<req, tx>>
  /\ Release(r)
  /\ UNCHANGED accounts

(* The response body is read back: the plan may already be gone.           *)
Envelope(r) ==
  /\ pc[r] = "envelope"
  /\ Finish(r, IF plans[tx[r].target].account = req[r].account
                 THEN "ok" ELSE "not_found")
  /\ UNCHANGED <<table, lock>>

(* duplicate_plan reads the source, then inserts the copy, with no lock    *)
(* and no transaction around the two.  The copy is never active.           *)
ReadSource(r) ==
  /\ pc[r] = "read_source"
  /\ IF req[r].plan \in PlansOf(req[r].account)
       THEN Goto(r, "insert_copy") /\ UNCHANGED <<req, tx>>
       ELSE Finish(r, "not_found")
  /\ UNCHANGED <<table, lock>>

InsertCopy(r) ==
  LET a == req[r].account IN
  /\ pc[r] = "insert_copy"
  /\ a \notin deleting
  /\ IF a \notin accounts
       THEN Finish(r, "error") /\ UNCHANGED <<plans, minted>>
       ELSE \E p \in PlanIds :
              /\ Fresh(p)
              /\ plans' = [plans EXCEPT ![p] = NewRow(a, FALSE)]
              /\ minted' = minted \cup {p}
              /\ tx' = [tx EXCEPT ![r].target = p]
              /\ Goto(r, "envelope")
              /\ UNCHANGED req
  /\ UNCHANGED <<accounts, lock>>

-----------------------------------------------------------------------------
(* save: the handler looks the plan up, then one guarded UPDATE.           *)

SaveExists(r) ==
  /\ pc[r] = "exists"
  /\ IF req[r].plan \in PlansOf(req[r].account)
       THEN Goto(r, "update") /\ UNCHANGED <<req, tx>>
       ELSE Finish(r, "not_found")
  /\ UNCHANGED <<table, lock>>

VersionIsCurrent(r) ==
  /\ req[r].plan \in PlansOf(req[r].account)
  /\ plans[req[r].plan].version = req[r].version

SaveUpdate(r) ==
  /\ pc[r] = "update"
  /\ ~RowLocked(req[r].plan)
  /\ IF VersionIsCurrent(r)
       THEN /\ plans' = [plans EXCEPT ![req[r].plan].version = @ + 1]
            /\ Finish(r, "ok")
       ELSE /\ Finish(r, "conflict")
            /\ UNCHANGED plans
  /\ UNCHANGED <<accounts, minted, lock>>

-----------------------------------------------------------------------------
(* set_active_plan: clear the active flag, then set it on the named plan.  *)
(* It commits whether or not the second statement found a row.             *)

ClearActive(r) ==
  /\ pc[r] = "clear"
  /\ \A p \in ActiveOf(req[r].account) : ~RowLocked(p)
  /\ tx' = [tx EXCEPT ![r].rows = ActiveOf(req[r].account)]
  /\ Goto(r, "mark")
  /\ UNCHANGED <<table, lock, req>>

MarkActive(r) ==
  LET a == req[r].account
      p == req[r].plan IN
  /\ pc[r] = "mark"
  /\ IF p \in PlansOf(a)
       THEN /\ p \notin tx[r].rows => ~RowLocked(p)
            /\ ~IndexBusy(r)
            /\ tx' = [tx EXCEPT ![r].flag = TRUE, ![r].rows = @ \cup {p}]
       ELSE UNCHANGED tx
  /\ Goto(r, "commit_activate")
  /\ UNCHANGED <<table, lock, req>>

Activated(r) ==
  [p \in PlanIds |->
     [plans[p] EXCEPT !.active =
        IF p \in tx[r].rows THEN tx[r].flag /\ p = req[r].plan ELSE @]]

CommitActivate(r) ==
  /\ pc[r] = "commit_activate"
  /\ IF tx[r].flag /\ ActiveOf(req[r].account) \ tx[r].rows # {}
       THEN Finish(r, "unique_violation") /\ UNCHANGED plans
       ELSE /\ plans' = Activated(r)
            /\ Finish(r, IF tx[r].flag THEN "ok" ELSE "not_found")
  /\ Release(r)
  /\ UNCHANGED <<accounts, minted>>

-----------------------------------------------------------------------------
(* delete_plan: count, read the row for update, refuse the last plan,      *)
(* delete, and activate a remaining plan when the active one went.         *)

(* Mutant: the deletion counts the plans that would be left.               *)
CountPlansLeft(r) ==
  /\ pc[r] = "count"
  /\ tx' = [tx EXCEPT ![r].count = Cardinality(PlansOf(req[r].account)) - 1]
  /\ Goto(r, "read_target")
  /\ UNCHANGED <<table, lock, req>>

CountPlans(r) ==
  /\ pc[r] = "count"
  /\ tx' = [tx EXCEPT ![r].count = Cardinality(PlansOf(req[r].account))]
  /\ Goto(r, "read_target")
  /\ UNCHANGED <<table, lock, req>>

ReadTarget(r) ==
  LET p == req[r].plan IN
  /\ pc[r] = "read_target"
  /\ ~RowLocked(p)
  /\ \/ /\ p \notin PlansOf(req[r].account)
        /\ Finish(r, "not_found")
        /\ Release(r)
     \/ /\ p \in PlansOf(req[r].account)
        /\ tx[r].count <= 1
        /\ Finish(r, "conflict")
        /\ Release(r)
     \/ /\ p \in PlansOf(req[r].account)
        /\ tx[r].count > 1
        /\ tx' = [tx EXCEPT ![r].flag = plans[p].active, ![r].rows = {p}]
        /\ Goto(r, "delete_row")
        /\ UNCHANGED <<lock, req>>
  /\ UNCHANGED table

(* Mutant: the deleted active plan hands over to no other.                 *)
DeleteRowOnly(r) ==
  /\ pc[r] = "delete_row"
  /\ Goto(r, "commit_remove")
  /\ UNCHANGED <<table, lock, req, tx>>

DeleteRow(r) ==
  /\ pc[r] = "delete_row"
  /\ Goto(r, IF tx[r].flag THEN "promote" ELSE "commit_remove")
  /\ UNCHANGED <<table, lock, req, tx>>

Promote(r) ==
  LET rest == PlansOf(req[r].account) \ {req[r].plan} IN
  /\ pc[r] = "promote"
  /\ \/ /\ rest = {}
        /\ UNCHANGED tx
     \/ \E q \in rest :
          /\ ~RowLocked(q)
          /\ tx' = [tx EXCEPT ![r].promote = q, ![r].rows = @ \cup {q}]
  /\ Goto(r, "commit_remove")
  /\ UNCHANGED <<table, lock, req>>

Removed(r) ==
  [p \in PlanIds |->
     IF p = req[r].plan THEN Absent
     ELSE IF p = tx[r].promote THEN [plans[p] EXCEPT !.active = TRUE]
     ELSE plans[p]]

CommitRemove(r) ==
  /\ pc[r] = "commit_remove"
  /\ plans' = Removed(r)
  /\ Finish(r, "ok")
  /\ Release(r)
  /\ UNCHANGED <<accounts, minted>>

-----------------------------------------------------------------------------
(* The client went away: axum drops the handler, sqlx rolls back.          *)
Drop(r) ==
  /\ pc[r] \notin Outcomes
  /\ Finish(r, "idle")
  /\ Release(r)
  /\ UNCHANGED table

(* delete_account: one statement.  It first locks the account's row, for   *)
(* which it waits until no insert that references the account is open.     *)
DeleteAccount(a) ==
  /\ a \in accounts \ deleting
  /\ \A r \in Requests : ~(req[r].account = a /\ pc[r] = "commit_create")
  /\ deleting' = deleting \cup {a}
  /\ UNCHANGED <<table, lock, req, pc, tx, taken>>

(* The cascade then locks the account's plans one by one, in an order that *)
(* is Postgres' own.  The statement runs on when its client goes away.     *)
CascadeRow(a) ==
  /\ a \in deleting
  /\ \E p \in PlansOf(a) : ~RowLocked(p) /\ taken' = taken \cup {p}
  /\ UNCHANGED <<table, lock, req, pc, tx, deleting>>

EndDeletion(a) ==
  /\ deleting' = deleting \ {a}
  /\ taken' = taken \ PlansOf(a)
  /\ UNCHANGED <<minted, lock, req, pc, tx>>

CommitDeletion(a) ==
  /\ a \in deleting
  /\ PlansOf(a) \subseteq taken
  /\ accounts' = accounts \ {a}
  /\ plans' = [p \in PlanIds |-> IF plans[p].account = a THEN Absent ELSE plans[p]]
  /\ EndDeletion(a)

(* Rows a request that holds one already may be waiting for.               *)
Wanted(r) ==
  IF pc[r] = "mark" THEN PlansOf(req[r].account) \cap {req[r].plan}
  ELSE IF pc[r] = "promote" THEN PlansOf(req[r].account) \ {req[r].plan}
  ELSE {}

Victim(r) == Finish(r, "error") /\ Release(r) /\ UNCHANGED table

(* A deletion that comes to a row of r's while r waits for one of its rows *)
(* is a cycle, and no other can form: only one of an account's requests    *)
(* holds its lock, and the others hold no row.  Postgres ends the one that *)
(* looks first: r's transaction, or the deletion.                          *)
BreakDeadlock(a, r) ==
  /\ a \in deleting
  /\ PlansOf(a) \cap tx[r].rows # {}
  /\ Wanted(r) \cap taken # {}
  /\ \/ Victim(r) /\ UNCHANGED deletion
     \/ EndDeletion(a) /\ UNCHANGED <<accounts, plans>>

-----------------------------------------------------------------------------
Init ==
  /\ accounts = Accounts
  /\ plans = [p \in PlanIds |-> Absent]
  /\ minted = {}
  /\ lock = [a \in Accounts |-> None]
  /\ req = [r \in Requests |-> NoRequest]
  /\ pc = [r \in Requests |-> "idle"]
  /\ tx = [r \in Requests |-> NoTx]
  /\ deleting = {} /\ taken = {}

(* The steps a handler takes once it has been admitted.                    *)
Statement(r) ==
  \/ LockAccount(r)
  \/ InsertFirst(r) \/ CommitCreate(r) \/ Envelope(r)
  \/ ReadSource(r) \/ InsertCopy(r)
  \/ SaveExists(r) \/ SaveUpdate(r)
  \/ ClearActive(r) \/ MarkActive(r) \/ CommitActivate(r)
  \/ CountPlans(r) \/ ReadTarget(r) \/ DeleteRow(r) \/ Promote(r)
  \/ CommitRemove(r)

Client(r)  == (Begin(r) \/ Drop(r)) /\ UNCHANGED deletion
Running(r)  == \/ Statement(r) /\ UNCHANGED deletion
               \/ \E a \in Accounts : BreakDeadlock(a, r)
Cascading(a) == CascadeRow(a) \/ CommitDeletion(a)

Next ==
  \/ \E r \in Requests : Client(r) \/ Running(r)
  \/ \E a \in Accounts : DeleteAccount(a) \/ Cascading(a)

(* A started handler keeps running, and Postgres grants a waited-for       *)
(* advisory lock or row in arrival order, so a statement that can run      *)
(* again and again does run; and it looks for a deadlock once a second.    *)
Fairness ==
  /\ \A r \in Requests : /\ SF_vars(Statement(r) /\ UNCHANGED deletion)
                         /\ WF_vars(\E a \in Accounts : BreakDeadlock(a, r))
  /\ \A a \in Accounts : SF_vars(Cascading(a))

Spec     == Init /\ [][Next]_vars
FairSpec == Spec /\ Fairness

-----------------------------------------------------------------------------
(* Properties.                                                             *)

(* Who holds which advisory lock is exactly who runs a locked statement:   *)
(* an early return, an error or a dropped handler leaves no lock behind.   *)
LockMatchesPc ==
  \A a \in Accounts, r \in Requests :
    lock[a] = r <=> pc[r] \in Locked /\ req[r].account = a

HandlersTyped ==
  /\ accounts \subseteq Accounts
  /\ plans \in [PlanIds -> Row]
  /\ minted \subseteq PlanIds
  /\ lock \in [Accounts -> Requests \cup {None}]
  /\ req \in [Requests -> Request \cup {NoRequest}]
  /\ pc \in [Requests -> PCs]
  /\ tx \in [Requests -> Tx]

TypeOK == HandlersTyped /\ deleting \subseteq accounts /\ taken \subseteq PlanIds

(* The account lock makes every check-then-write of the "first plan" and   *)
(* "active plan" rules safe: the unique index that backs them up never     *)
(* has to refuse a request (plans.rs, lock_account).                       *)
IndexNeverRefuses == \A r \in Requests : pc[r] # "unique_violation"

(* Seen from the table, every handler is one atomic operation of the       *)
(* abstract plan book, however the statements of several requests,         *)
(* dropped handlers and account deletions interleave.                      *)
Book == INSTANCE PlanBook WITH accounts <- accounts, plans <- plans, minted <- minted
ImplementsPlanBook == Book!Spec

(* The account's last plan survives concurrent deletions, and only         *)
(* activating a plan the account lacks leaves it without an active one.    *)
LastPlanKept ==
  [][\A a \in Accounts :
       /\ PlansOf(a) # {} /\ PlansOf(a)' = {} => a \notin accounts'
       /\ ActiveOf(a) # {} /\ ActiveOf(a)' = {} =>
            \/ a \notin accounts'
            \/ \E r \in Requests :
                 /\ pc[r] = "commit_activate" /\ pc'[r] = "not_found"
                 /\ req[r].account = a]_vars

(* No request and no deletion waits forever for a lock or a row, whatever  *)
(* else runs: also when an activation or a deletion of a plan and the      *)
(* cascade that deletes its account wait for each other's rows.            *)
RequestsEnd ==
  /\ \A r \in Requests : pc[r] \notin Outcomes ~> pc[r] \in Outcomes
  /\ \A a \in Accounts : a \in deleting ~> a \notin deleting

(* "The one active plan per account" (dto.rs): an account with plans has   *)
(* an active one.  The code breaks this: set_active_plan commits its first *)
(* statement although the second found no row.                             *)
SomePlanActive ==
  \A a \in Accounts : PlansOf(a) # {} => ActiveOf(a) # {}

=============================================================================
