------------------------------ MODULE Accounts ------------------------------
(***************************************************************************)
(* Accounts and what they own: the sign-in handlers beside the schedule,    *)
(* collection and claim handlers.  A library request acts for the account   *)
(* of a session that is valid as it begins, and an account's rows go with   *)
(* it in the statement that deletes it (on delete cascade).                 *)
(***************************************************************************)
EXTENDS SignIn, Sequences

CONSTANTS Workers, HeldTerms, HeldSections, Documents, Names, Courses,
          MaxClaimSchedules, MaxClaimItems, MaxMade, MaxVersion, Free,
          GuestStores,      \* what the browser may have kept before it signed in
          Quotas            \* bound: [requests, library] begun to each part

VARIABLES schedules, collections, work, made, guest, landed, quota
AccountIds == {accounts[e] : e \in Emails} \ {0}
Lib == INSTANCE Library WITH alive <- AccountIds
libVars == <<schedules, collections, work, made, guest, landed>>
allVars == <<vars, libVars, quota>>

\* A guest record keeps the id it was minted with, and is cleared by a claim only.
ASSUME AccountsAssumption ==
    /\ MaxMade \in Nat /\ MaxVersion \in Nat \ {0}
    /\ MaxClaimSchedules \in Nat /\ MaxClaimItems \in Nat
    /\ GuestStores \subseteq [schedules : Seq(Lib!Guests), courses : SUBSET Courses, cleared : {FALSE}]
    /\ \A g \in GuestStores :
          /\ Len(g.schedules) <= MaxMade
          /\ \A i, j \in DOMAIN g.schedules : g.schedules[i].client = g.schedules[j].client => i = j

AccountsInit == Init /\ Lib!LibInit(GuestStores) /\ quota \in Quotas

Cascade(rows) == {x \in rows : x.account \in AccountIds'}
SignInStep == /\ Next
              /\ begun' <= quota.requests
              /\ schedules' = Cascade(schedules) /\ collections' = Cascade(collections)
              /\ UNCHANGED <<work, made, guest, landed, quota>>
Signed == {sessions[t].account : t \in {u \in Serials : sessions[u] # None /\ sessions[u].expires > now}}
LibraryRequest == /\ quota.library > 0
                  /\ quota' = [quota EXCEPT !.library = @ - 1]
                  /\ \E a \in Signed, w \in Workers : Lib!Ask(w, a)
                  /\ UNCHANGED vars
LibraryStep == (\E w \in Workers : Lib!Proceed(w)) /\ UNCHANGED <<vars, quota>>
AccountsNext == SignInStep \/ LibraryRequest \/ LibraryStep
AccountsSpec == AccountsInit /\ [][AccountsNext]_allVars
-----------------------------------------------------------------------------
AccountsTypeOK == TypeOK /\ Lib!LibTypeOK
(* A claim whose answer is lost and that is sent again, beside sign-ins and  *)
(* other requests, clears the browser's store only when all that the limits  *)
(* and the held terms let through has been in the account; what they do not  *)
(* is cleared too.  Every table keeps its keys.                              *)
ClaimIsComplete == AccountsTypeOK /\ Lib!ClaimIsComplete
(* A schedule's document is replaced whole, by a save that names its version *)
(* only; a claim that meets a newer row rewrites its section rows alone.     *)
ReplacedWhole == Lib!ReplacedWhole
=============================================================================
