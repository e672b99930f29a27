------------------------------- MODULE Listings -------------------------------
(***************************************************************************)
(* The listings of one term: the "pull listings" job, the replay of        *)
(* archived pages that may run beside it, and a client of the catalog that *)
(* keeps a page and its ETag.                                              *)
(*                                                                         *)
(* Source: crates/skyspace-ingest/src/jobs/listings.rs and jobs/mod.rs     *)
(* (the run), guards.rs, replay.rs, the writes of                          *)
(* crates/skyspace-store/src/ingest.rs, and the ETag of                    *)
(* crates/skyspace-api/src/routes/catalog.rs.                              *)
(*                                                                         *)
(* A crn stands for Weight[crn] sections that come and go together, and    *)
(* belongs to one subject.  What Rice answers for a subject is any set of  *)
(* that subject's crns, a page without the table, or no answer.            *)
(*                                                                         *)
(* Time is counted in phases of runs: the pages of a run share one time,   *)
(* its writes the next one.  The host and the database agree on the clock. *)
(* Left out: everything of a row but the page it came from and whether it  *)
(* is withdrawn; issues, statistics and canaries, which change no row.     *)
(***************************************************************************)
EXTENDS Integers, FiniteSets

CONSTANTS
  Subjects,    \* subjects Rice can list
  Crns,        \* sections, by registration number
  SubjectOf,   \* the subject of a crn
  Weight,      \* how many sections a crn stands for
  MaxWeight,   \* and the most that one stands for
  None,        \* absence of a page, of a subject or of a set of crns
  MaxRuns,     \* bound on the listing runs
  MaxReplays   \* bound on the replays

ASSUME ListingsAssumption ==
  /\ IsFiniteSet(Crns)
  /\ SubjectOf \in [Crns -> Subjects]
  /\ MaxWeight \in Nat /\ Weight \in [Crns -> 1..MaxWeight]
  /\ MaxRuns \in Nat /\ MaxReplays \in Nat
  /\ None \notin Subjects

VARIABLES
  now,       \* the phase of the last run
  rows,      \* sections: the page a row came from, and when it was withdrawn
  newest,    \* raw_responses: the newest page of a subject from an ok run
  version,   \* data_version: how many ok runs have finished
  baseline,  \* rows_written of the last ok run
  run,       \* the open listing run, whose lock no other run can take
  replay,    \* the open replay and the pages it has still to write
  client,    \* the catalog page a client keeps
  started,   \* bound: runs and replays begun so far
  written,   \* history: the crns of the page the job wrote last for a
             \* subject, or None while it is half written
  unmarked   \* history: rows were written since the last ok run ended,
             \* by a replay or by a run that did not end ok

store == <<rows, newest, version, baseline>>
vars  == <<now, rows, newest, version, baseline, run, replay, client, started,
           written, unmarked>>

-----------------------------------------------------------------------------
(* Rows and pages.                                                         *)

CrnsOf(s) == {c \in Crns : SubjectOf[c] = s}

(* A time of 0 is "never": a row with at = 0 does not exist.               *)
Row == [at : Nat, withdrawn : Nat]

IsLive(c)  == rows[c].at # 0 /\ rows[c].withdrawn = 0
LiveOf(s)  == {c \in CrnsOf(s) : IsLive(c)}
LiveRows   == [c \in {d \in Crns : IsLive(d)} |-> rows[c].at]

(* A fetched page: "rows" parsed, "form" has no table of sections.         *)
Page == [kind : {"rows", "form"}, at : Nat, crns : SUBSET Crns]

PagesOf(s) ==
  [kind : {"rows"}, at : {now}, crns : SUBSET CrnsOf(s)] \cup
  [kind : {"form"}, at : {now}, crns : {{}}]

Sections(crns) == {section \in crns \X (1..MaxWeight) : section[2] <= Weight[section[1]]}

Count(crns) == Cardinality(Sections(crns))

(* Mutant: a listed section stays withdrawn.                               *)
UpsertListingStays(crns, at, fetched) ==
  [c \in Crns |->
     IF c \in crns THEN [at |-> at, withdrawn |-> rows[c].withdrawn] ELSE rows[c]]

(* Mutant: any listing clears a withdrawal.                                *)
UpsertListingClears(crns, at, fetched) ==
  [c \in Crns |->
     IF c \in crns THEN [at |-> at, withdrawn |-> 0] ELSE rows[c]]

(* upsert_listing of every row of a page, in one transaction.  A           *)
(* withdrawal is cleared by a body fetched after it only.                  *)
UpsertListing(crns, at, fetched) ==
  [c \in Crns |->
     IF c \in crns
       THEN [at |-> at,
             withdrawn |-> IF rows[c].withdrawn < fetched THEN 0
                           ELSE rows[c].withdrawn]
       ELSE rows[c]]

-----------------------------------------------------------------------------
(* The guards.                                                             *)

(* Mutant: a subject with one section may lose it.                         *)
ZeroRowsLoose(previous, kept) == previous > 1 /\ kept = 0

ZeroRows(previous, kept) == previous > 0 /\ kept = 0

(* More than 20% away from the last good run; no history, no guard.        *)
VolumeDrifts(previous, total) ==
  previous > 0 /\ (5 * (total - previous) > previous \/ 5 * (previous - total) > previous)

-----------------------------------------------------------------------------
(* The listing run.                                                        *)

RunStages == {"idle", "fetch", "upsert", "withdraw"}

Run == [stage : RunStages, todo : SUBSET Subjects,
        previous : [Subjects -> Nat],
        pages : [Subjects -> Page \cup {None}],
        quarantine : BOOLEAN, subject : Subjects \cup {None}]

NoRun == [stage |-> "idle", todo |-> {},
          previous |-> [s \in Subjects |-> 0],
          pages |-> [s \in Subjects |-> None],
          quarantine |-> FALSE, subject |-> None]

Parsed(s) == run.pages[s] # None /\ run.pages[s].kind = "rows"

Total == Count(UNION {run.pages[s].crns : s \in {t \in Subjects : Parsed(t)}})

(* Take the lock, open the run, check the term, read the subjects Rice     *)
(* lists now, and what the guards compare with.                            *)
Begin ==
  /\ run.stage = "idle" /\ started.runs < MaxRuns
  /\ \E listed \in SUBSET Subjects :
       run' = [NoRun EXCEPT
                 !.stage = "fetch", !.todo = listed,
                 !.previous = [s \in Subjects |-> Count(LiveOf(s))]]
  /\ now' = now + 1
  /\ started' = [started EXCEPT !.runs = @ + 1]
  /\ UNCHANGED <<store, replay, client, written, unmarked>>

(* one_subject: a fetch that fails leaves the subject out of the run.  A   *)
(* page without the table is nothing to write when the subject was empty.  *)
OneSubject(s) ==
  /\ run.stage = "fetch" /\ s \in run.todo
  /\ \/ run' = [run EXCEPT !.todo = @ \ {s}]
     \/ \E page \in PagesOf(s) :
          run' = [run EXCEPT
                    !.todo = @ \ {s},
                    !.pages[s] = page,
                    !.quarantine = @ \/ ZeroRows(run.previous[s], Count(page.crns))]
  /\ UNCHANGED <<now, store, replay, client, started, written, unmarked>>

(* The guards over the whole term.  The fill rates of the fields may drift *)
(* once there is a good run to compare with.                               *)
Quarantine ==
  /\ run.stage = "fetch" /\ run.todo = {}
  /\ run.quarantine \/ VolumeDrifts(baseline, Total) \/ version > 0
  /\ run' = NoRun
  /\ UNCHANGED <<now, store, replay, client, started, written, unmarked>>

PassGuards ==
  /\ run.stage = "fetch" /\ run.todo = {}
  /\ ~run.quarantine /\ ~VolumeDrifts(baseline, Total)
  /\ run' = [run EXCEPT !.stage = "upsert", !.todo = {s \in Subjects : Parsed(s)}]
  /\ now' = now + 1
  /\ UNCHANGED <<store, replay, client, started, written, unmarked>>

UpsertSections(s) ==
  /\ run.stage = "upsert" /\ s \in run.todo
  /\ rows' = UpsertListing(run.pages[s].crns, run.pages[s].at, now)
  /\ run' = [run EXCEPT !.stage = "withdraw", !.subject = s]
  /\ written' = [written EXCEPT ![s] = None]
  /\ UNCHANGED <<now, newest, version, baseline, replay, client, started, unmarked>>

(* withdraw_missing for the subject just written.                          *)
WithdrawMissing ==
  LET s == run.subject IN
  /\ run.stage = "withdraw"
  /\ rows' = [c \in Crns |->
       IF c \in LiveOf(s) \ run.pages[s].crns THEN [rows[c] EXCEPT !.withdrawn = now]
       ELSE rows[c]]
  /\ run' = [run EXCEPT !.stage = "upsert", !.todo = @ \ {s}, !.subject = None]
  /\ written' = [written EXCEPT ![s] = run.pages[s].crns]
  /\ UNCHANGED <<now, newest, version, baseline, replay, client, started, unmarked>>

(* Mutant: the job is not one of those that move the tag.                  *)
FinishOkUnmarked ==
  /\ run.stage = "upsert" /\ run.todo = {}
  /\ newest' = [s \in Subjects |-> IF run.pages[s] = None THEN newest[s] ELSE run.pages[s]]
  /\ version' = IF version = 0 THEN 1 ELSE version
  /\ baseline' = Total
  /\ unmarked' = FALSE
  /\ run' = NoRun
  /\ UNCHANGED <<now, rows, replay, client, started, written>>

(* finish with RunOutcome::Ok: the run's pages are what a replay reads.    *)
FinishOk ==
  /\ run.stage = "upsert" /\ run.todo = {}
  /\ newest' = [s \in Subjects |-> IF run.pages[s] = None THEN newest[s] ELSE run.pages[s]]
  /\ version' = version + 1
  /\ baseline' = Total
  /\ unmarked' = FALSE
  /\ run' = NoRun
  /\ UNCHANGED <<now, rows, replay, client, started, written>>

(* Mutant: the pages of a run that did not end ok are replayed too.        *)
StopKeepsPages ==
  /\ run.stage # "idle"
  /\ run' = NoRun
  /\ newest' = [s \in Subjects |-> IF run.pages[s] = None THEN newest[s] ELSE run.pages[s]]
  /\ unmarked' = (unmarked \/ run.stage \in {"upsert", "withdraw"})
  /\ UNCHANGED <<now, rows, version, baseline, replay, client, started, written>>

(* The run ends with an error (five outages in a row, an unreadable page,  *)
(* the store) or its process dies, wherever it was.                        *)
Stop ==
  /\ run.stage # "idle"
  /\ run' = NoRun
  /\ unmarked' = (unmarked \/ run.stage \in {"upsert", "withdraw"})
  /\ UNCHANGED <<now, store, replay, client, started, written>>

-----------------------------------------------------------------------------
(* The replay, under a lock of its own.                                    *)

Replay == [open : BOOLEAN, pages : SUBSET Page]

(* Mutant: a subject never fetched by a good run is not left out.          *)
RawResponsesOuter(since) ==
  {newest[s] : s \in {t \in Subjects : newest[t] # None => newest[t].at >= since}}

(* raw_responses_since: the pages are chosen once, when the replay starts. *)
RawResponsesSince(since) ==
  {newest[s] : s \in {t \in Subjects : newest[t] # None /\ newest[t].at >= since}}

ReplayBegin ==
  /\ ~replay.open /\ started.replays < MaxReplays
  /\ \E since \in 0..now :
       replay' = [open |-> TRUE, pages |-> RawResponsesSince(since)]
  /\ started' = [started EXCEPT !.replays = @ + 1]
  /\ UNCHANGED <<now, store, run, client, written, unmarked>>

(* The oldest page is written, or cannot be read and is skipped.           *)
ReplayListing ==
  \E page \in replay.pages :
    /\ replay.open
    /\ \A other \in replay.pages : page.at <= other.at
    /\ replay' = [replay EXCEPT !.pages = @ \ {page}]
    /\ \/ UNCHANGED <<rows, unmarked>>
       \/ /\ rows' = UpsertListing(page.crns, page.at, page.at)
          /\ unmarked' = (unmarked \/ rows' # rows)
    /\ UNCHANGED <<now, newest, version, baseline, run, client, started, written>>

(* The replay is done, stopped by the store, or dies.                      *)
ReplayEnd ==
  /\ replay.open
  /\ replay' = [open |-> FALSE, pages |-> {}]
  /\ UNCHANGED <<now, store, run, client, started, written, unmarked>>

-----------------------------------------------------------------------------
(* GET /sections: the tag is made from the version read before the rows.   *)

NoRows == [c \in {} |-> 0]

ReadVersion ==
  /\ client' = [stage |-> "tagged", tag |-> version, rows |-> NoRows]
  /\ UNCHANGED <<now, store, run, replay, started, written, unmarked>>

ReadRows ==
  /\ client.stage = "tagged"
  /\ client' = [stage |-> "kept", tag |-> client.tag, rows |-> LiveRows]
  /\ UNCHANGED <<now, store, run, replay, started, written, unmarked>>
-----------------------------------------------------------------------------
Init ==
  /\ now = 0
  /\ rows = [c \in Crns |-> [at |-> 0, withdrawn |-> 0]]
  /\ newest = [s \in Subjects |-> None]
  /\ version = 0 /\ baseline = 0
  /\ run = NoRun
  /\ replay = [open |-> FALSE, pages |-> {}]
  /\ client = [stage |-> "none", tag |-> 0, rows |-> NoRows]
  /\ started = [runs |-> 0, replays |-> 0]
  /\ written = [s \in Subjects |-> {}]
  /\ unmarked = FALSE

Next ==
  \/ Begin \/ Quarantine \/ PassGuards \/ WithdrawMissing \/ FinishOk \/ Stop
  \/ \E s \in Subjects : OneSubject(s) \/ UpsertSections(s)
  \/ ReplayBegin \/ ReplayListing \/ ReplayEnd
  \/ ReadVersion \/ ReadRows

Spec == Init /\ [][Next]_vars

-----------------------------------------------------------------------------
(* Properties.                                                             *)

TypeOK ==
  /\ now \in Nat
  /\ rows \in [Crns -> Row]
  /\ newest \in [Subjects -> Page \cup {None}]
  /\ version \in Nat /\ baseline \in Nat
  /\ run \in Run
  /\ replay \in Replay
  /\ client.stage \in {"none", "tagged", "kept"} /\ client.tag \in 0..version
  /\ started.runs \in 0..MaxRuns /\ started.replays \in 0..MaxReplays
  /\ written \in [Subjects -> (SUBSET Crns) \cup {None}]
  /\ unmarked \in BOOLEAN

(* The live sections of a subject are those of the page the job wrote last *)
(* for it: a relisted section comes back, a missing one goes, and neither  *)
(* a replay of older pages, a quarantined run nor a run that stopped later *)
(* brings one back or takes one away.                                      *)
LiveIsLastWritten ==
  \A s \in Subjects : written[s] # None => LiveOf(s) = written[s]

(* A replay "cannot undo a withdrawal" (replay.rs), nor add or withdraw a  *)
(* section: at whatever point of a listing run its pages are written.      *)
ReplayKeepsLiveSet ==
  [][replay' # replay => \A c \in Crns : IsLive(c) <=> IsLive(c)']_vars

(* No step of any run leaves a subject that had live sections without one: *)
(* the zero-rows guard holds up to the moment the rows are withdrawn.      *)
NoSubjectEmptied ==
  [][\A s \in Subjects : LiveOf(s) # {} => LiveOf(s)' # {}]_vars

(* A client answered "not modified" holds the rows the store has, unless a *)
(* run is writing them, or a replay or a run that did not end ok wrote     *)
(* since the last good run.                                                *)
TagTellsTruth ==
  client.stage = "kept" /\ client.tag = version /\ ~unmarked
    /\ run.stage \notin {"upsert", "withdraw"}
      => client.rows = LiveRows

(* "the tables end on what Rice last published" (replay.rs): once replay   *)
(* and runs are over, no row holds an older page than the newest good one. *)
(* The code breaks this when a run ends while a replay is writing.         *)
ReplayEndsOnNewest ==
  ~replay.open /\ run.stage = "idle" =>
    \A s \in Subjects : newest[s] # None =>
      \A c \in newest[s].crns : rows[c].at >= newest[s].at

=============================================================================
