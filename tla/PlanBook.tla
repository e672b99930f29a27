------------------------------- MODULE PlanBook -------------------------------
(***************************************************************************)
(* What the plan endpoints promise: every operation on an account's plans  *)
(* happens at once, the last plan is never deleted, at most one plan of an *)
(* account is active, and a deleted active plan hands over to another one. *)
(* PlanStore is shown to implement this module.                            *)
(*                                                                         *)
(* Deactivate is the one step the documentation does not promise: it is    *)
(* what activating a plan the account does not have really does.           *)
(***************************************************************************)
EXTENDS Naturals

CONSTANTS Accounts, PlanIds, None

VARIABLES accounts, plans, minted

bookVars == <<accounts, plans, minted>>

Absent == [account |-> None, active |-> FALSE, version |-> 0]

PlansOf(a)  == {p \in PlanIds : plans[p].account = a}
ActiveOf(a) == {p \in PlansOf(a) : plans[p].active}

Init ==
  /\ accounts = Accounts
  /\ plans = [p \in PlanIds |-> Absent]
  /\ minted = {}

(* A new plan is active exactly when it is the account's first.            *)
Create(a, p) ==
  /\ a \in accounts
  /\ p \notin minted
  /\ plans' = [plans EXCEPT ![p] =
       [account |-> a, active |-> PlansOf(a) = {}, version |-> 1]]
  /\ minted' = minted \cup {p}
  /\ UNCHANGED accounts

(* A copy joins an account that already has a plan and is never active.    *)
Duplicate(a, p) ==
  /\ a \in accounts
  /\ PlansOf(a) # {}
  /\ p \notin minted
  /\ plans' = [plans EXCEPT ![p] = [account |-> a, active |-> FALSE, version |-> 1]]
  /\ minted' = minted \cup {p}
  /\ UNCHANGED accounts

Save(a, p) ==
  /\ p \in PlansOf(a)
  /\ plans' = [plans EXCEPT ![p].version = @ + 1]
  /\ UNCHANGED <<accounts, minted>>

Activate(a, p) ==
  /\ p \in PlansOf(a)
  /\ plans' = [q \in PlanIds |->
       IF q \in PlansOf(a) THEN [plans[q] EXCEPT !.active = (q = p)] ELSE plans[q]]
  /\ UNCHANGED <<accounts, minted>>

Deactivate(a) ==
  /\ plans' = [q \in PlanIds |->
       IF q \in PlansOf(a) THEN [plans[q] EXCEPT !.active = FALSE] ELSE plans[q]]
  /\ UNCHANGED <<accounts, minted>>

(* Another plan q remains, and takes over when p was the active one.       *)
Remove(a, p, q) ==
  /\ p \in PlansOf(a)
  /\ q \in PlansOf(a) \ {p}
  /\ plans' = [plans EXCEPT ![p] = Absent,
                            ![q].active = @ \/ plans[p].active]
  /\ UNCHANGED <<accounts, minted>>

DeleteAccount(a) ==
  /\ a \in accounts
  /\ accounts' = accounts \ {a}
  /\ plans' = [p \in PlanIds |-> IF plans[p].account = a THEN Absent ELSE plans[p]]
  /\ UNCHANGED minted

Next ==
  \E a \in Accounts :
    \/ \E p \in PlanIds : \/ Create(a, p) \/ Duplicate(a, p)
                          \/ Save(a, p)   \/ Activate(a, p)
    \/ \E p, q \in PlanIds : Remove(a, p, q)
    \/ Deactivate(a)
    \/ DeleteAccount(a)

Spec == Init /\ [][Next]_bookVars

-----------------------------------------------------------------------------
(* At most one plan of an account is active (dto.rs: "The one active plan  *)
(* per account").                                                          *)
OneActive ==
  \A a \in Accounts : \A p, q \in ActiveOf(a) : p = q

(* An account keeps a plan until the account itself goes, and only a       *)
(* deactivation takes the active flag from an account altogether.          *)
LastPlanKept ==
  [][\A a \in Accounts :
       /\ PlansOf(a) # {} /\ PlansOf(a)' = {} => a \notin accounts'
       /\ ActiveOf(a) # {} /\ ActiveOf(a)' = {} =>
            Deactivate(a) \/ DeleteAccount(a)]_bookVars
=============================================================================
