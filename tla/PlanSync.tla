------------------------------- MODULE PlanSync -------------------------------
(***************************************************************************)
(* One stored plan, edited from several browser tabs.                      *)
(*                                                                         *)
(* Source: web/src/datasource/planSaver.ts (the save queue of a tab),      *)
(* loadBundle and savePlan of web/src/datasource/api.ts (the version a tab *)
(* names), the pages that load and edit the plan (web/src/plan/usePlan.ts, *)
(* web/src/plan/PlanPage.tsx, web/src/catalog/useAddToPlan.tsx) and the    *)
(* guarded update of save_plan.                                            *)
(*                                                                         *)
(* A tab is one JavaScript thread: everything up to the next timer or      *)
(* network answer is one action, so a PUT is sent in the action that       *)
(* starts it or that ends the one before.  The network answers a request   *)
(* late, answers two requests in either order, loses a request or its      *)
(* answer, or delivers a request its tab has given up on.                  *)
(*                                                                         *)
(* A document is the set of edits it contains, numbered in the order they  *)
(* were made.  The plan exists, is the active one and is never deleted;    *)
(* the session stays valid (PlanStore and SignIn follow those).            *)
(***************************************************************************)
EXTENDS Naturals, Sequences, FiniteSets

CONSTANTS
  Tabs,      \* browser tabs and devices signed in to the account
  MaxEdits,  \* bound on the edits made
  None       \* absence of a document, or of an author

ASSUME PlanSyncAssumption ==
  /\ MaxEdits \in Nat /\ IsFiniteSet(Tabs)
  /\ None \notin Tabs /\ \A d \in SUBSET (1..MaxEdits) : d # None

VARIABLES
  doc, version,   \* the stored document and its version
  late,           \* PUTs still on the way whose tab no longer listens
  known,          \* planVersions of api.ts: the version a PUT will name
  pending, chain, put, status,     \* planSaver.ts
  page, shown, load,               \* what each tab shows and is loading
  by,             \* history: which tab made an edit
  stored,         \* history: the edits of every document accepted so far
  hurried         \* history: tabs that did not wait for their own saves

server  == <<doc, version, stored>>
saver   == <<pending, chain, put, status>>
ui      == <<page, shown, load>>
vars    == <<doc, version, late, known, pending, chain, put, status,
             page, shown, load, by, stored, hurried>>

Edits == 1..MaxEdits
Docs  == SUBSET Edits

Loaders == {"page", "pick"}

(* A load is the plan list and then the bundle; "flush" awaits the writes  *)
(* started before it, "listed" and "read" are answers on the way back.     *)
(* gone: the page that asked is no longer there.                           *)
Load == [stage : {"idle", "flush", "list", "listed", "bundle", "read"},
         wait : Nat, version : Nat, doc : Docs, gone : BOOLEAN]

NoLoad == [stage |-> "idle", wait |-> 0, version |-> 0, doc |-> {}, gone |-> FALSE]
Asked  == [NoLoad EXCEPT !.stage = "list"]

(* put is the PUT of Head(chain): on its way, or answered.                 *)
Put == [stage : {"none", "sent", "ok", "stale"}, version : Nat]

NoPut   == [stage |-> "none", version |-> 0]
Sent(v) == [stage |-> "sent", version |-> v]

-----------------------------------------------------------------------------
(* The save queue.  The debounce timer is armed exactly while a plan is    *)
(* pending, and inFlight is defined exactly while chain is not empty.      *)

Busy(t) == pending[t] # None \/ chain[t] # <<>>

(* writeNow with the pending plan d, which joins the chain of writes.      *)
WriteNow(t, d) ==
  /\ pending' = [pending EXCEPT ![t] = None]
  /\ chain' = [chain EXCEPT ![t] = Append(@, d)]
  /\ put' = IF chain[t] = <<>> THEN [put EXCEPT ![t] = Sent(known[t])] ELSE put
  /\ status' = [status EXCEPT ![t] = "saving"]

(* Mutant: leaving the board cancels the timer and forgets to write.       *)
FlushPlanSaveDrops(t) ==
  /\ pending' = [pending EXCEPT ![t] = None]
  /\ UNCHANGED <<chain, put, status>>

FlushPlanSave(t) ==
  IF pending[t] = None THEN UNCHANGED saver ELSE WriteNow(t, pending[t])

(* queuePlanSave with the debounce: the newest plan wins.                  *)
QueuePlanSave(t, d) ==
  /\ pending' = [pending EXCEPT ![t] = d]
  /\ status' = [status EXCEPT ![t] = "pending"]
  /\ UNCHANGED <<chain, put>>

(* The debounce has run out.                                               *)
Timer(t) ==
  /\ pending[t] # None
  /\ WriteNow(t, pending[t])
  /\ UNCHANGED <<server, late, known, ui, by, hurried>>

(* Mutant: inFlight is not cleared when the last write ends.               *)
EndOfWriteInFlight(t, outcome) ==
  /\ put' = [put EXCEPT ![t] = NoPut]
  /\ status' = [status EXCEPT ![t] = outcome]
  /\ UNCHANGED <<pending, chain, load>>

(* Mutant: the outcome is shown although an edit was queued meanwhile, and *)
(* nothing awaits a flush.                                                 *)
EndOfWriteEager(t, outcome) ==
  LET rest == Tail(chain[t]) IN
  /\ chain' = [chain EXCEPT ![t] = rest]
  /\ put' = [put EXCEPT ![t] = IF rest = <<>> THEN NoPut ELSE Sent(known'[t])]
  /\ status' = [status EXCEPT ![t] = outcome]
  /\ UNCHANGED <<pending, load>>

(* A write ends.  The next of the chain starts at once; the last one tells *)
(* its outcome unless an edit was queued meanwhile.  A pick that awaited   *)
(* this write has one less to wait for.                                    *)
EndOfWrite(t, outcome) ==
  LET rest   == Tail(chain[t])
      pick   == load[t]["pick"] IN
  /\ chain' = [chain EXCEPT ![t] = rest]
  /\ put' = [put EXCEPT ![t] = IF rest = <<>> THEN NoPut ELSE Sent(known'[t])]
  /\ status' = [status EXCEPT ![t] =
       IF rest # <<>> THEN @
       ELSE IF pending[t] = None THEN outcome ELSE "pending"]
  /\ load' = IF pick.stage # "flush" THEN load
             ELSE [load EXCEPT ![t]["pick"] =
                     [pick EXCEPT
                       !.wait  = pick.wait - 1,
                       !.stage = IF pick.wait = 1 THEN "list" ELSE "flush"]]
  /\ UNCHANGED pending

-----------------------------------------------------------------------------
(* The store: save_plan replaces the body when the version is current.     *)

(* Mutant: save_plan without its version guard.                            *)
AcceptedAlways(v, d) ==
  /\ doc' = d
  /\ version' = version + 1
  /\ stored' = stored \cup d

Accepted(v, d) ==
  /\ v = version
  /\ doc' = d
  /\ version' = version + 1
  /\ stored' = stored \cup d

Refused(v) == v # version /\ UNCHANGED server

ServerPut(t) ==
  /\ put[t].stage = "sent"
  /\ \/ Accepted(put[t].version, Head(chain[t])) /\ put' = [put EXCEPT ![t].stage = "ok"]
     \/ Refused(put[t].version) /\ put' = [put EXCEPT ![t].stage = "stale"]
  /\ UNCHANGED <<late, known, pending, chain, status, ui, by, hurried>>

LatePut ==
  /\ \E m \in late :
       /\ late' = late \ {m}
       /\ Accepted(m.version, m.doc) \/ Refused(m.version)
  /\ UNCHANGED <<known, saver, ui, by, hurried>>

(* savePlan: an accepted PUT moves the known version on, a 409 is a        *)
(* conflict.                                                               *)
PutAnswered(t) ==
  \/ /\ put[t].stage = "ok"
     /\ known' = [known EXCEPT ![t] = put[t].version + 1]
     /\ EndOfWrite(t, "saved")
     /\ UNCHANGED <<server, late, page, shown, by, hurried>>
  \/ /\ put[t].stage = "stale"
     /\ UNCHANGED known
     /\ EndOfWrite(t, "conflict")
     /\ UNCHANGED <<server, late, page, shown, by, hurried>>

(* The fetch rejects, before or after the server acted on it.  A request   *)
(* that has not arrived yet may still do so.                               *)
PutFails(t) ==
  /\ put[t].stage # "none"
  /\ \/ UNCHANGED late
     \/ /\ put[t].stage = "sent"
        /\ late' = late \cup {[version |-> put[t].version, doc |-> Head(chain[t])]}
  /\ UNCHANGED known
  /\ EndOfWrite(t, "failed")
  /\ UNCHANGED <<server, page, shown, by, hurried>>

-----------------------------------------------------------------------------
(* Loading: loadBundle.  Bound: one page load and one pick at a time in a  *)
(* tab.                                                                    *)

(* A page mounts, or its error card retries.                               *)
StartLoad(t, to) ==
  /\ page[t] \in {"away", to}
  /\ shown[t] = None
  /\ load[t]["page"].stage = "idle"
  /\ page' = [page EXCEPT ![t] = to]
  /\ load' = [load EXCEPT ![t]["page"] = Asked]
  /\ hurried' = IF Busy(t) \/ load[t]["pick"].stage # "idle"
                  THEN hurried \cup {t} ELSE hurried
  /\ UNCHANGED <<server, late, known, saver, shown, by>>

ListRead(t, l) ==
  /\ load[t][l].stage = "list"
  /\ load' = [load EXCEPT ![t][l] =
       [load[t][l] EXCEPT !.stage = "listed", !.version = version]]
  /\ UNCHANGED <<server, late, known, saver, page, shown, by, hurried>>

ListAnswered(t, l) ==
  /\ load[t][l].stage = "listed"
  /\ known' = [known EXCEPT ![t] = load[t][l].version]
  /\ load' = [load EXCEPT ![t][l] =
       [load[t][l] EXCEPT !.stage = "bundle", !.version = 0]]
  /\ UNCHANGED <<server, late, saver, page, shown, by, hurried>>

BundleRead(t, l) ==
  /\ load[t][l].stage = "bundle"
  /\ load' = [load EXCEPT ![t][l] =
       [load[t][l] EXCEPT !.stage = "read", !.doc = doc]]
  /\ UNCHANGED <<server, late, known, saver, page, shown, by, hurried>>

LoadFails(t, l) ==
  /\ load[t][l].stage \notin {"idle", "flush"}
  /\ load' = [load EXCEPT ![t][l] = NoLoad]
  /\ UNCHANGED <<server, late, known, saver, page, shown, by, hurried>>

(* The page that asked shows the plan; one that has gone ignores it.       *)
PageLoaded(t) ==
  /\ load[t]["page"].stage = "read"
  /\ load' = [load EXCEPT ![t]["page"] = NoLoad]
  /\ shown' = IF page[t] = "away" THEN shown
              ELSE [shown EXCEPT ![t] = load[t]["page"].doc]
  /\ UNCHANGED <<server, late, known, saver, page, by, hurried>>

-----------------------------------------------------------------------------
(* Editing.                                                                *)

Made == {e \in Edits : by[e] # None}

(* Bound: every pick under way has an edit left to make.                   *)
EditsLeft ==
  Cardinality(Made) + Cardinality({t \in Tabs : load[t]["pick"].stage # "idle"})
    < MaxEdits

NextEdit == Cardinality(Made) + 1

(* An edit on the board: usePlan queues the board's whole document.        *)
Edit(t) ==
  LET d == shown[t] \cup {NextEdit} IN
  /\ page[t] = "plan" /\ shown[t] # None /\ EditsLeft
  /\ shown' = [shown EXCEPT ![t] = d]
  /\ by' = [by EXCEPT ![NextEdit] = t]
  /\ QueuePlanSave(t, d)
  /\ UNCHANGED <<server, late, known, page, load, hurried>>

(* "Add to plan": flush the queue, await it, load, edit, save at once.     *)
Pick(t) ==
  /\ page[t] = "catalog" /\ shown[t] # None /\ EditsLeft
  /\ load[t]["pick"].stage = "idle"
  /\ FlushPlanSave(t)
  /\ load' = [load EXCEPT ![t]["pick"] =
       IF chain'[t] = <<>> THEN Asked
       ELSE [NoLoad EXCEPT !.stage = "flush", !.wait = Len(chain'[t])]]
  /\ UNCHANGED <<server, late, known, page, shown, by, hurried>>

(* The chosen term may have gone from the plan: then nothing is queued.    *)
(* The page that asked, if still there, shows the plan with the pick.      *)
PickLoaded(t) ==
  LET pick == load[t]["pick"]
      d    == pick.doc \cup {NextEdit} IN
  /\ pick.stage = "read"
  /\ load' = [load EXCEPT ![t]["pick"] = NoLoad]
  /\ \/ UNCHANGED <<saver, by, shown>>
     \/ /\ by' = [by EXCEPT ![NextEdit] = t]
        /\ WriteNow(t, d)
        /\ shown' = IF pick.gone THEN shown ELSE [shown EXCEPT ![t] = d]
  /\ UNCHANGED <<server, late, known, page, hurried>>

(* Leaving the board flushes the queue; nothing awaits that.               *)
Leave(t) ==
  /\ page[t] # "away"
  /\ page' = [page EXCEPT ![t] = "away"]
  /\ shown' = [shown EXCEPT ![t] = None]
  /\ IF page[t] = "plan" /\ shown[t] # None THEN FlushPlanSave(t)
     ELSE UNCHANGED saver
  /\ load' = [load EXCEPT ![t]["pick"] =
       [load[t]["pick"] EXCEPT !.gone = load[t]["pick"].stage # "idle"]]
  /\ UNCHANGED <<server, late, known, by, hurried>>

(* The tab is reloaded or closed.  The pagehide flush sends the pending    *)
(* plan unless another write is in flight; what was sent may arrive.       *)
LastWords(t) ==
  IF chain[t] = <<>>
    THEN IF pending[t] = None THEN {}
         ELSE {[version |-> known[t], doc |-> pending[t]]}
    ELSE IF put[t].stage # "sent" THEN {}
         ELSE {[version |-> put[t].version, doc |-> Head(chain[t])]}

Reload(t) ==
  /\ late' \in {late, late \cup LastWords(t)}
  /\ known' = [known EXCEPT ![t] = 0]
  /\ pending' = [pending EXCEPT ![t] = None]
  /\ chain' = [chain EXCEPT ![t] = <<>>]
  /\ put' = [put EXCEPT ![t] = NoPut]
  /\ status' = [status EXCEPT ![t] = "saved"]
  /\ page' = [page EXCEPT ![t] = "away"]
  /\ shown' = [shown EXCEPT ![t] = None]
  /\ load' = [load EXCEPT ![t] = [l \in Loaders |-> NoLoad]]
  /\ hurried' = IF Busy(t) THEN hurried \cup {t} ELSE hurried
  /\ UNCHANGED <<server, by>>

-----------------------------------------------------------------------------
Init ==
  /\ doc = {} /\ version = 1 /\ late = {}
  /\ known = [t \in Tabs |-> 0]
  /\ pending = [t \in Tabs |-> None]
  /\ chain = [t \in Tabs |-> <<>>]
  /\ put = [t \in Tabs |-> NoPut]
  /\ status = [t \in Tabs |-> "saved"]
  /\ page = [t \in Tabs |-> "away"]
  /\ shown = [t \in Tabs |-> None]
  /\ load = [t \in Tabs |-> [l \in Loaders |-> NoLoad]]
  /\ by = [e \in Edits |-> None]
  /\ stored = {} /\ hurried = {}

(* What the user does.                                                     *)
UserStep(t) ==
  \/ \E to \in {"plan", "catalog"} : StartLoad(t, to)
  \/ Edit(t) \/ Pick(t) \/ Leave(t) \/ Reload(t)

(* What the browser and the network do on their own.                       *)
LoadStep(t) ==
  \/ \E l \in Loaders : ListRead(t, l) \/ ListAnswered(t, l) \/ BundleRead(t, l)
                        \/ LoadFails(t, l)
  \/ PageLoaded(t) \/ PickLoaded(t)

SaveStep(t) == Timer(t) \/ ServerPut(t) \/ PutAnswered(t) \/ PutFails(t)

Next ==
  \/ \E t \in Tabs : UserStep(t) \/ LoadStep(t) \/ SaveStep(t)
  \/ LatePut

(* The debounce timer fires, and the browser answers or rejects every      *)
(* fetch.  Nothing is assumed of the user or of late requests.             *)
Fairness ==
  \A t \in Tabs :
    /\ WF_vars(Timer(t))
    /\ WF_vars(ServerPut(t))
    /\ WF_vars(PutAnswered(t) \/ PutFails(t))
    /\ WF_vars(PickLoaded(t))
    /\ \A l \in Loaders : WF_vars(ListRead(t, l) \/ ListAnswered(t, l)
                                  \/ BundleRead(t, l) \/ LoadFails(t, l))

Spec     == Init /\ [][Next]_vars
FairSpec == Spec /\ Fairness

-----------------------------------------------------------------------------
(* Properties.                                                             *)

TypeOK ==
  /\ doc \in Docs /\ version \in Nat \ {0}
  /\ late \subseteq [version : Nat, doc : Docs]
  /\ known \in [Tabs -> Nat]
  /\ pending \in [Tabs -> {None} \cup Docs]
  /\ \A t \in Tabs : \A i \in DOMAIN chain[t] : chain[t][i] \in Docs
  /\ put \in [Tabs -> Put]
  /\ \A t \in Tabs : (put[t].stage = "none") <=> (chain[t] = <<>>)
  /\ status \in [Tabs -> {"saved", "pending", "saving", "conflict", "failed"}]
  /\ page \in [Tabs -> {"away", "plan", "catalog"}]
  /\ shown \in [Tabs -> {None} \cup Docs]
  /\ load \in [Tabs -> [Loaders -> Load]]
  /\ by \in [Edits -> Tabs \cup {None}]
  /\ stored \subseteq Made /\ hurried \subseteq Tabs

(* No accepted edit is ever overwritten.  planSaver.ts claims it without   *)
(* condition; the code breaks it.                                          *)
NoLostUpdate == stored \subseteq doc

(* What the queue and the version do ensure: nothing is overwritten while  *)
(* every user waits for a save to end before opening another page.  (And   *)
(* the values have their types; a tab has a chain while a PUT is under way.)*)
PatientUsersLoseNothing == TypeOK /\ (hurried = {} => NoLostUpdate)

(* "Saved" tells the truth: the document on the board of a patient user    *)
(* has been stored, whatever requests and answers were lost.               *)
SavedMeansStored ==
  \A t \in Tabs \ hurried :
    status[t] = "saved" /\ shown[t] # None => shown[t] \subseteq stored

Newest(d) == CHOOSE e \in d : \A f \in d : f <= e

(* "A later plan never lands before an earlier one" (planSaver.ts): also   *)
(* when the earlier request was given up and arrives late.                 *)
InOrder ==
  [][version' # version =>
       \A e \in stored : by[e] = by[Newest(doc')] => e < Newest(doc')]_vars

Queued(t, e) ==
  \/ pending[t] # None /\ e \in pending[t]
  \/ \E i \in DOMAIN chain[t] : e \in chain[t][i]

(* Every queued edit is stored, or its tab says that it was not, in a      *)
(* chain of writes any of which may fail.                                  *)
EditsSettle ==
  \A t \in Tabs, e \in Edits :
    Queued(t, e) /\ t \notin hurried ~>
      \/ e \in stored
      \/ status[t] \in {"conflict", "failed"}
      \/ t \in hurried

(* The saver never stays at "Unsaved changes" or "Saving", and a pick ends.*)
SaverSettles ==
  \A t \in Tabs :
    /\ Busy(t) ~> ~Busy(t)
    /\ load[t]["pick"].stage # "idle" ~> load[t]["pick"].stage = "idle"
=============================================================================
