------------------------------- MODULE Ingest -------------------------------
(***************************************************************************)
(* What the operator's jobs bring in, together: program pages queued,       *)
(* reviewed and published, the aliases a reviewer's approval and the        *)
(* catalog's pages write, and the seats poll.  An approval publishes in one *)
(* transaction and writes the page's aliases in the next.  The seats poll,  *)
(* the jobs that read the documents of a section, and a student's search    *)
(* share no table that matters to the others, so a behaviour has one of     *)
(* them busy; what a job writes under a search is any other catalog.        *)
(***************************************************************************)
EXTENDS Aliases, Programs, Seats, Documents, Search

CONSTANTS Feeds,      \* the cross-list groups a subject's catalog page may carry
          Scenes      \* bounds: [budget, opens, seats, docs, search] of a behaviour
(* Reviewers write aliases; pages bring codes the catalog may have.         *)
WritersOK ==
    /\ Reviewers \subseteq Writers /\ Feeds \subseteq Seq(SUBSET Codes)
    /\ \A page \in SitePages : \A n \in DOMAIN page.rows : ToSet(page.rows[n].codes) \subseteq Codes
ASSUME WritersAssumption == WritersOK
VARIABLE scene
ingestVars == <<aliasVars, programVars, seatVars, docVars, searchVars, scene>>

NoReading == [kinds |-> {}, listings |-> 0, runs |-> 0, replays |-> 0, faults |-> 0, days |-> 0, changes |-> 0]
NoSearch == [types |-> 0, mores |-> 0, writes |-> 0, faults |-> 0]
CatalogWriters == Writers \ Reviewers
(* A part that stays idle starts in one of its states only; the numbers of  *)
(* sections move from wherever they start.                                  *)
IngestInit ==
    /\ scene \in Scenes
    /\ bound = scene.budget /\ left = scene.docs /\ turns = scene.search
    /\ AliasInit /\ ProgramsInit
    /\ \A e \in Editions : (bound.runs = 0 \/ e \notin bound.index) =>
                            site[e] = CHOOSE page \in SitePages : TRUE
    /\ rice = [s \in Sections |-> Min(Numbers)] /\ SeatsInit
    /\ DocumentsInit
    /\ left = NoReading => term = CHOOSE t \in Terms : TRUE
    /\ SearchInit
    /\ scene.search = NoSearch => shelf = (CHOOSE c \in Catalogs : TRUE) /\ typed = (CHOOSE q \in Searches : TRUE)

(* upsert_courses, from the catalog job or a replay of its pages. *)
UpsertCourses(w) == /\ scene.opens > 0 /\ scene' = [scene EXCEPT !.opens = @ - 1]
                    /\ \E feed \in Feeds : Open(w, feed)
                    /\ UNCHANGED <<programVars, seatVars, docVars, searchVars>>
(* The end of an approval: upsert_aliases with the pairs the page printed,  *)
(* and the command is over when that transaction is.                        *)
AtReview(r, pc) == /\ desk' = [desk EXCEPT ![r] = IF pc = "idle" THEN AtDesk ELSE [@ EXCEPT !.pc = pc]]
                   /\ UNCHANGED <<site, raws, outcomes, jobs, stored, bound, seatVars, docVars, searchVars, scene>>
UpsertAliases(r) == desk[r].pc = "aliases" /\ Open(r, BroughtBy(r)) /\ AtReview(r, "writing")
EndReview(r) == desk[r].pc = "writing" /\ txn[r].pc = "idle" /\ AtReview(r, "idle") /\ UNCHANGED aliasVars
Transact(w) == AliasStep(w) /\ UNCHANGED <<programVars, seatVars, docVars, searchVars, scene>>
Publishing == ProgramsStep /\ UNCHANGED <<aliasVars, seatVars, docVars, searchVars, scene>>
Polling == scene.seats /\ SeatsStep /\ UNCHANGED <<aliasVars, programVars, docVars, searchVars, scene>>
Reading == DocumentsStep /\ UNCHANGED <<aliasVars, programVars, seatVars, searchVars, scene>>
Searching == scene.search # NoSearch /\ SearchStep /\ UNCHANGED <<aliasVars, programVars, seatVars, docVars, scene>>
IngestNext == \/ \E w \in CatalogWriters : UpsertCourses(w)
              \/ \E r \in Reviewers : UpsertAliases(r) \/ EndReview(r)
              \/ \E w \in Writers : Transact(w)
              \/ Publishing \/ Polling \/ Reading \/ Searching
IngestSpec == IngestInit /\ [][IngestNext]_ingestVars
=============================================================================
