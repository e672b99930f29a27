------------------------------ MODULE Programs ------------------------------
(***************************************************************************)
(* Degree programs from Rice's page to a student's plan: the requirements   *)
(* job and replay queue drafts, a reviewer approves or rejects them, and a  *)
(* publish writes one version and its requirement rows, keeping the id of   *)
(* every rule whose fingerprint an earlier publish had.  An edition is one  *)
(* (slug, catalog year) with one URL; all editions here share a slug, so    *)
(* their publishes queue at its programs row.                               *)
(***************************************************************************)
EXTENDS Pages, Fetching, Orders

CONSTANTS Editions,     \* in the order of the program index
          SitePages,    \* the pages Rice may publish
          Reviewers, None,
          Budgets       \* the editions the index lists; and bounds:
                        \* [index, edits, runs, faults, decisions, desks]
ASSUME ProgramsAssumption ==
    Budgets \subseteq [index : SUBSET Editions, edits : Nat, runs : Nat, faults : Nat, decisions : Nat, desks : Nat]

(* Editions are numbered in the order of the index, ids are pairs of a      *)
(* number and a path, and a page is lists: rows, codes and footnotes.       *)
IsList(s) == s \in Seq(ToSet(s))
PagesOK ==
    /\ Editions \subseteq Nat /\ IsFiniteSet(Editions) /\ None \notin Nat \X Seq(Nat)
    /\ \A page \in SitePages : /\ IsList(page.rows) /\ IsList(page.footnotes)
                              /\ \A n \in DOMAIN page.rows : IsList(page.rows[n].codes)
ASSUME PagesAssumption == PagesOK

VARIABLES site,         \* what Rice publishes, by edition
          raws,         \* raw_responses: [edition, page, run]
          outcomes,     \* ingest_runs: running, ok or failed
          jobs,         \* the requirements job and the replay
          drafts,       \* program_drafts
          rules,        \* requirements, by id
          versions,     \* program_versions, by edition
          desk,         \* what each reviewer is at
          choice,       \* a plan's `fills`: a rule id with the rule it was
          bound         \* bound: what is left of the budget
programVars == <<site, raws, outcomes, jobs, drafts, rules, versions, desk, choice, bound>>

Jobs == {"pull", "replay"}
NoJob == [pc |-> "idle", run |-> 0, todo |-> <<>>, outages |-> 0]
AtDesk == [pc |-> "idle", draft |-> 0]
NoRules == [id \in {} |-> None]
ProgramsInit ==
    /\ site \in [Editions -> SitePages]
    /\ raws = <<>> /\ outcomes = <<>> /\ jobs = [j \in Jobs |-> NoJob]
    /\ drafts = <<>> /\ rules = NoRules /\ versions = [e \in Editions |-> None]
    /\ desk = [r \in Reviewers |-> AtDesk] /\ choice = None
    /\ bound \in Budgets
stored == <<drafts, rules, versions, choice>>
-----------------------------------------------------------------------------
(* Rice edits a page. *)
Spend(part) == bound[part] > 0 /\ bound' = [bound EXCEPT ![part] = @ - 1]
Edit(e) == /\ Spend("edits")
           /\ e \in bound.index
           /\ \E page \in SitePages \ {site[e]} : site' = [site EXCEPT ![e] = page]
           /\ UNCHANGED <<raws, outcomes, jobs, stored, desk>>

(* The run frame: one run of a job at a time, closed ok or failed, or never *)
(* closed when the process stops.                                           *)
BeginRun(j, todo, pc) ==
    /\ jobs[j].pc = "idle" /\ Spend("runs")
    /\ outcomes' = Append(outcomes, "running")
    /\ jobs' = [jobs EXCEPT ![j] = [NoJob EXCEPT !.pc = pc, !.run = Len(outcomes) + 1, !.todo = todo]]
    /\ UNCHANGED <<site, raws, stored, desk>>
Close(j, outcome) == /\ outcomes' = [outcomes EXCEPT ![jobs[j].run] = outcome]
                     /\ jobs' = [jobs EXCEPT ![j] = NoJob]
Goto(j, pc) == /\ jobs' = [jobs EXCEPT ![j].pc = pc] /\ UNCHANGED outcomes
NextPage(j, outages) ==
    /\ jobs' = [jobs EXCEPT ![j] = [pc |-> "page", run |-> @.run, todo |-> Tail(@.todo), outages |-> outages]]
    /\ UNCHANGED outcomes
EndRun(j) == /\ jobs[j].pc = "page" /\ jobs[j].todo = <<>>
             /\ Close(j, "ok")
             /\ UNCHANGED <<site, raws, stored, desk, bound>>
Stop(j) == /\ jobs[j].pc # "idle" /\ Spend("faults")
           /\ jobs' = [jobs EXCEPT ![j] = NoJob]
           /\ UNCHANGED <<site, raws, outcomes, stored, desk>>

(* pull requirements: the index, then one page per program. *)
PullIndex ==
    /\ jobs["pull"].pc = "index"
    /\ \/ Goto("pull", "page") /\ UNCHANGED bound
       \/ \E result \in Got \ {"body"} : Close("pull", "failed") /\ Spend("faults")
    /\ UNCHANGED <<site, raws, stored, desk>>
(* A page that will not come is skipped until Rice is down; one without a   *)
(* course list ends the run.                                                *)
PullPage ==
    LET job == jobs["pull"]
        e == Head(job.todo)
    IN  /\ job.pc = "page" /\ job.todo # <<>>
        /\ \E result \in Got :
             \/ /\ result # "body" /\ Spend("faults")
                /\ IF Down(CountFetch(job.outages, result)) THEN Close("pull", "failed")
                   ELSE NextPage("pull", CountFetch(job.outages, result))
                /\ UNCHANGED raws
             \/ /\ result = "body"
                /\ raws' = Append(raws, [edition |-> e, page |-> site[e], run |-> job.run])
                /\ IF site[e].rows = <<>> THEN Close("pull", "failed") ELSE
                     /\ jobs' = [jobs EXCEPT !["pull"] = [pc |-> "select", run |-> job.run, outages |-> 0,
                                                          todo |-> <<raws'[Len(raws')]>> \o Tail(job.todo)]]
                     /\ UNCHANGED outcomes
                /\ UNCHANGED bound
        /\ UNCHANGED <<site, stored, desk>>
(* replay: the newest body of each URL that an ok run fetched, oldest first. *)
Replayable == {n \in DOMAIN raws :
                  /\ outcomes[raws[n].run] = "ok"
                  /\ \A m \in DOMAIN raws : (m > n /\ raws[m].edition = raws[n].edition)
                                               => outcomes[raws[m].run] # "ok"}
ReplayPage ==
    /\ jobs["replay"].pc = "page" /\ jobs["replay"].todo # <<>>
    /\ \/ Head(jobs["replay"].todo).page.rows # <<>> /\ Goto("replay", "select") /\ UNCHANGED bound
       \/ NextPage("replay", 0) /\ Spend("faults")      \* the blob cannot be read
    /\ UNCHANGED <<site, raws, stored, desk>>
(* put_draft: is the page queued already?  Then write it. *)
Fetched(j) == Head(jobs[j].todo)
Queued(row) == \E d \in DOMAIN drafts : drafts[d].edition = row.edition /\ drafts[d].page = row.page
SelectDraft(j) ==
    /\ jobs[j].pc = "select"
    /\ IF Queued(Fetched(j)) THEN NextPage(j, jobs[j].outages) ELSE Goto(j, "insert")
    /\ UNCHANGED <<site, raws, stored, desk, bound>>
InsertDraft(j) ==
    /\ jobs[j].pc = "insert"
    /\ drafts' = Append(drafts, [edition |-> Fetched(j).edition, page |-> Fetched(j).page, state |-> "pending"])
    /\ NextPage(j, jobs[j].outages)
    /\ UNCHANGED <<site, raws, rules, versions, desk, choice, bound>>
JobStep == \/ BeginRun("pull", Ascending(bound.index), "index")
           \/ BeginRun("replay", [n \in 1..Cardinality(Replayable) |-> raws[Ascending(Replayable)[n]]], "page")
           \/ PullIndex \/ PullPage \/ ReplayPage
           \/ \E j \in Jobs : SelectDraft(j) \/ InsertDraft(j) \/ EndRun(j) \/ Stop(j)
-----------------------------------------------------------------------------
(* publish: a rule's fingerprint is its path in the tree and its text.      *)
Fingerprint(tree, path) == <<path, At(tree, path).label>>
Held(e) == {id \in DOMAIN rules : rules[id].edition = e}
IdOf(e, tree, path) ==
    IF \E id \in Held(e) : rules[id].mark = Fingerprint(tree, path)
    THEN CHOOSE id \in Held(e) : rules[id].mark = Fingerprint(tree, path)
    ELSE <<bound.decisions, path>>
Row(e, tree, path) ==
    [edition |-> e, mark |-> Fingerprint(tree, path), retired |-> FALSE,
     parent |-> IF path = <<>> THEN None ELSE IdOf(e, tree, Front(path)),
     ordinal |-> IF path = <<>> THEN 0 ELSE Last(path),
     label |-> At(tree, path).label, kind |-> At(tree, path).kind, filter |-> At(tree, path).filter]
(* The rows after a publish: the carried ones written, the rest retired.    *)
Carried(e, tree) == {IdOf(e, tree, path) : path \in Paths(tree)}
KeepLive(row, e) == row        \* mutant: rules a publish leaves out stay live
Retire(row, e) == [row EXCEPT !.retired = @ \/ row.edition = e]
Written(e, tree) ==
    LET path == [id \in Carried(e, tree) |-> CHOOSE p \in Paths(tree) : IdOf(e, tree, p) = id]
    IN  [id \in DOMAIN rules \cup Carried(e, tree) |->
            IF id \in Carried(e, tree) THEN Row(e, tree, path[id])
            ELSE Retire(rules[id], e)]
RetiredBefore(rows, e) ==      \* mutant: listed before this publish retires its rules
    {id \in DOMAIN rules : rules[id].edition = e /\ rules[id].retired}
RetiredIn(rows, e) == {id \in DOMAIN rows : rows[id].edition = e /\ rows[id].retired}
Publish(e, tree, d) ==
    /\ rules' = Written(e, tree)
    /\ versions' = [versions EXCEPT ![e] = [draft |-> d, retired |-> RetiredIn(rules', e)]]

(* skyspace review: approve reads the draft, locks its row, publishes and   *)
(* commits, and then writes the page's aliases in a transaction of its own. *)
Locked(d) == \E r \in Reviewers : desk[r].pc = "publish" /\ desk[r].draft = d
ReadDraft(r) == /\ desk[r].pc = "idle" /\ bound.decisions > 0
                /\ Cardinality({s \in Reviewers : desk[s].pc # "idle"}) < bound.desks
                /\ \E d \in DOMAIN drafts : desk' = [desk EXCEPT ![r] = [pc |-> "lock", draft |-> d]]
                /\ UNCHANGED <<site, raws, outcomes, jobs, stored, bound>>
LockDraft(r) ==
    /\ desk[r].pc = "lock" /\ ~Locked(desk[r].draft)
    /\ desk' = [desk EXCEPT ![r] = IF drafts[desk[r].draft].state = "rejected" THEN AtDesk
                                   ELSE [@ EXCEPT !.pc = "publish"]]
    /\ UNCHANGED <<site, raws, outcomes, jobs, stored, bound>>
ApproveDraft(r) ==
    LET d == desk[r].draft
    IN  /\ desk[r].pc = "publish" /\ Spend("decisions")
        /\ Publish(drafts[d].edition, IntoProgram(ParsePage(drafts[d].page)), d)
        /\ drafts' = [drafts EXCEPT ![d].state = "approved"]
        /\ desk' = [desk EXCEPT ![r].pc = "aliases"]
        /\ UNCHANGED <<site, raws, outcomes, jobs, choice>>
BroughtBy(r) == ParsePage(drafts[desk[r].draft].page).aliases
LeaveDesk(r) == /\ desk[r].pc \in {"lock", "publish", "aliases"} /\ Spend("faults")
                /\ desk' = [desk EXCEPT ![r] = AtDesk]
                /\ UNCHANGED <<site, raws, outcomes, jobs, stored>>
RejectDraft(d) == /\ ~Locked(d) /\ Spend("decisions")
                  /\ drafts' = [drafts EXCEPT ![d].state = "rejected"]
                  /\ UNCHANGED <<site, raws, outcomes, jobs, rules, versions, desk, choice>>
ReviewStep == \/ \E r \in Reviewers : ReadDraft(r) \/ LockDraft(r) \/ ApproveDraft(r) \/ LeaveDesk(r)
              \/ \E d \in DOMAIN drafts : RejectDraft(d)

(* load_program: the live rows, grouped by parent, in ordinal order.        *)
LiveRows(e) == {id \in Held(e) : ~rules[id].retired}
Children(live, parent) ==
    LET children == {id \in live : rules[id].parent = parent}
    IN  InOrder(children, [id \in children |-> rules[id].ordinal])
Build(live) ==
    LET tree[id \in live] == LET of == Children(live, id)
                              IN  Node(rules[id].label, rules[id].kind, rules[id].filter,
                                       [n \in DOMAIN of |-> tree[of[n]]])
    IN  tree
LoadProgram(e) == LET live == LiveRows(e)
                      roots == Children(live, None)
                  IN  IF Len(roots) = 1 THEN Build(live)[roots[1]] ELSE None
(* A student fills a rule of a loaded program. *)
Choose == /\ choice = None
          /\ \E e \in Editions : \E id \in LiveRows(e) : choice' = [id |-> id, mark |-> rules[id].mark]
          /\ UNCHANGED <<site, raws, outcomes, jobs, drafts, rules, versions, desk, bound>>
ProgramsStep == (\E e \in Editions : Edit(e)) \/ JobStep \/ ReviewStep \/ Choose
-----------------------------------------------------------------------------
ProgramsTypeOK ==
    /\ \A d \in DOMAIN drafts : drafts[d].state \in {"pending", "approved", "rejected"}
    /\ \A n \in DOMAIN outcomes : outcomes[n] \in {"running", "ok", "failed"}
    /\ \A id \in DOMAIN rules : rules[id].edition \in Editions /\ rules[id].retired \in BOOLEAN
    /\ \A e \in Editions : versions[e] # None => versions[e].draft \in DOMAIN drafts

(* What the parser makes of each page, and the pages of whose rows it drops *)
(* nothing but the comments under "Total Credit Hours Required".            *)
Trees == [page \in SitePages |-> IntoProgram(ParsePage(page))]
Whole == {page \in SitePages : PageSays(page) \subseteq TreeSays(Trees[page], ParsePage(page).aliases)}

(* What a student is shown is the page the reviewer approved: the tree      *)
(* rebuilt from the live rows is the approved draft's, whatever was         *)
(* published, retired and revived before.  Every code, heading, rule,       *)
(* footnote and comment of the page is in it, except the comments under     *)
(* "Total Credit Hours Required" (RowSays).  Types are right.               *)
PublishedPage(e) == drafts[versions[e].draft].page
PublishedIsThePage ==
    /\ ProgramsTypeOK
    /\ \A e \in Editions : versions[e] # None =>
           PublishedPage(e) \in Whole /\ LoadProgram(e) = Trees[PublishedPage(e)]

(* A rule a student chose stays the rule it was, whatever is published      *)
(* later: its row is never lost, its fingerprint never changes, and either  *)
(* it is in the tree students load or the version lists it as retired.      *)
ChoicesResolve ==
    choice # None =>
        /\ choice.id \in DOMAIN rules /\ rules[choice.id].mark = choice.mark
        /\ rules[choice.id].retired <=> choice.id \in versions[rules[choice.id].edition].retired
=============================================================================
