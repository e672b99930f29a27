# Skyspace: TLA+ models and proofs

Skyspace is a course catalog and degree planner for Rice University: a Rust
workspace (`src/crates/`) with a Postgres store, ingest jobs and an HTTP API,
and a React application (`src/web/`). This directory holds TLA+ modules that
model the parts of it where order matters or where many rules must agree, the
TLC configurations that check them, and proofs, checked by TLAPS, of what
matters most.

Paths below are relative to `src/`.

## 1. Inventory

| Part | Code | State it keeps | Operations | What must be true of it | Module |
|---|---|---|---|---|---|
| Plan store and routes | `crates/skyspace-store/src/plans.rs`, `crates/skyspace-api/src/routes/plans.rs` | table `plans`: owner, active flag, version, body | create, save, duplicate, activate, delete, account deletion | each request is one atomic operation; at most one active plan; the last plan is kept; no request waits for ever, also when row locks close a circle | `PlanStore`, `PlanBook` |
| Plan synchronisation | `web/src/datasource/planSaver.ts`, `api.ts`, `web/src/plan/usePlan.ts`, `PlanPage.tsx`, `web/src/catalog/useAddToPlan.tsx` | per tab: pending plan, timer, chain of writes, status, version cache, document on screen | edit, debounce, write, flush, load, pick, leave, reload | edits are stored or reported, in order, not overwritten; the status is true | `PlanSync` |
| Degree engine | `crates/skyspace-core/src/` (`evaluate.rs`, `warn.rs`, `prereq.rs`, `program.rs`, `plan.rs`, `term.rs`), `plan_bundle` in `plans.rs` | none: functions of a plan and a slice of the catalog | evaluate requirements, parse and judge prerequisites, warn, preview a drop, choose the slice | no course counts twice where that is forbidden; what is met was earned; preview and warning agree; the slice is enough | `Terms`, `Requirements`, `Prereqs`, `Evaluation`, `Warnings`, `Bundle` |
| Plan page | reducer of `web/src/plan/usePlan.ts`, `useBoardDrag.ts` | the plan on screen and its last report | drag, drop, edit, claim, convert and move columns, change year and programs | the board stays well formed; no edit loses a card | `PlanDoc`, `Board` |
| Listing job, replay, ETag | `crates/skyspace-ingest/src/jobs/listings.rs`, `jobs/mod.rs`, `guards.rs`, `replay.rs`, `crates/skyspace-store/src/ingest.rs`, `crates/skyspace-api/src/routes/catalog.rs` | `sections`, `raw_responses`, `ingest_runs`, the job lock; a client's cached page | run, quarantine, upsert, withdraw, fail or die, replay, conditional GET | a section is live exactly when the newest good page lists it; a broken scrape empties nothing; a tag certifies its rows | `Listings` |
| Sign-in and sessions | `crates/skyspace-store/src/sessions.rs`, `accounts.rs`, `crates/skyspace-api/src/routes/account.rs`, `session.rs` | `login_codes`, `login_ip_windows`, `sessions`, `accounts` | request a code, present it, touch, expire, sign out, delete the account | a code signs in once and before it expires; few guesses; limits hold; a signed-out token stays out | `SignIn` |
| Schedules, collections, claim | `crates/skyspace-store/src/schedules.rs`, `collections.rs`, `routes/account.rs` (claim), `web/src/datasource/api.ts` | `schedules`, `collections`, the browser's guest store | create, save, delete, star, claim guest data and claim again | a claim loses nothing its limits let through; a document is replaced whole, and only by a save | `Library`, `Accounts` |
| Programs and review | `crates/skyspace-parse/src/program.rs`, `jobs/requirements.rs`, `replay.rs`, `crates/skyspace-store/src/programs.rs`, `crates/skyspace-cli/src/commands/review.rs` | archived pages, drafts, program versions, requirement rows | pull, replay, queue, approve, reject, publish, load | what students load is what was approved; a chosen rule still resolves | `Pages`, `Programs`, `Fetching` |
| Aliases | `crates/skyspace-store/src/ingest.rs` | `course_aliases` | write a group, flatten chains, for three writers | no cycle; one look-up is enough | `Aliases` |
| Seats poll | `jobs/seats.rs`, `crates/skyspace-store/src/seats.rs` | `section_seat_state`, `seat_snapshots`, the lock | poll, batch, flush at a deadline or outage | current numbers, chart and poll agree | `Seats` |
| Section documents | `jobs/detail.rs`, `jobs/sections.rs`, `jobs/listings.rs`, `replay.rs`, `store/src/ingest.rs`, `core/src/schedule.rs` | part of term, meetings and stamps of a section, archived documents | list, fetch what is due, merge, mark, replay | real clashes are told; a section that is due is served | `Documents`, `Meetings`, `Fetching` |
| Catalog search | `store/src/catalog.rs`, `routes/catalog.rs`, `web/src/catalog/CatalogPage.tsx` | the rows on screen and the requests on their way | type, load more, answer, fail | the rows are the first of all that match; the counts and the API's suggestions are true | `Search` |
| Other jobs | `jobs/reference.rs`, the other columns of `jobs/catalog.rs` | reference tables | upsert | as the listing job | not modelled |
| API frame, CLI reports, feedback, usage events, layout parsers, pages, deployment | see `PROJECT.json` | none, or append-only | parsing, rendering, configuration | tests cover them | not modelled |

### How the parts interact

* A browser tab talks to the API through `web/src/datasource/api.ts`. Saves of
  a plan go through one queue per tab (`planSaver.ts`), name the version the
  tab knows, and are refused with 409 when the store has moved on.
* The plan page runs the engine in the browser (wasm) on the bundle that
  `plan_bundle` sent: the plan, the published programs it names, and the facts,
  aliases, prerequisites and exclusions of the courses in it.
* An API handler runs SQL statements on a Postgres pool under READ COMMITTED.
  Handlers that check before they write run in a transaction that first takes
  an advisory lock keyed by the account, or lock the row they judge. A client
  that disconnects drops its handler, which rolls back.
* Deleting an account cascades, in one statement, to its sessions, plans,
  schedules and collections, whatever their requests are doing. The statement
  locks the rows one after the other, without the advisory lock, so it and a
  plan request can wait for each other.
* An operator, or a timer, starts jobs through the CLI. A job takes a session
  lock of its own name, opens a row in `ingest_runs`, fetches and archives
  pages, and writes the catalog tables. `replay` writes the same tables under
  a different lock. A reviewer's `approve` publishes a draft in one transaction
  and writes the aliases of its page in the next.
* The API makes the ETag of a catalog page from the time of the last good run,
  so the jobs and the clients' caches meet in `data_version`. A search is
  several statements, between which a job may write.

### What is hard here

Interleavings of SQL statements of several requests; row locks that close a
circle; dropped handlers; tabs that race each other and their own saves;
requests that are lost, arrive late or whose answers are lost; claims that are
sent again; jobs that die between two transactions; a replay beside a live run;
two writers of aliases that each flatten what they saw; documents of one
section that arrive in any order, each with other columns; caches validated by
a tag; and, in the engine, sequences of legal edits and trees of rules whose
counts, words and warnings must agree. `PROJECT.json` lists each hazard at its
line, and the properties that guard it.

## 2. Modules

| Module | What it is |
|---|---|
| `PlanBook` | abstract: every plan operation is atomic |
| `PlanStore` | the plans table, one process per request, one action per SQL statement |
| `PlanSync` | tabs, save queue, network and the stored plan |
| `Terms` ← `Requirements` ← `PlanDoc` ← `Prereqs` ← `Evaluation` ← `Warnings` ← `Bundle` ← `Board` | the engine as operators, each module extending the one before, and the plan page on top |
| `SignIn`; `Library`; `Accounts` | sign-in; schedules, collections and the claim; both over one table of accounts |
| `Listings` | listing runs, replay, and a client with an ETag |
| `Fetching`, `Pages`, `Programs`; `Aliases`; `Seats`; `Meetings`, `Documents`; `Search`; `Ingest` | the jobs, the review, the search, and `Ingest` that composes them; they share `Orders`, the lists made from sets and lists |
| `PlanStore_proofs`, `PlanSync_proofs`, `Listings_proofs`; `Accounts_proofs` (with `SignIn`), `Ingest_proofs` (with `Aliases` and `Seats`), `Board_proofs` ← `Reports_proofs`; `Orders_proofs` | theorems; what `Orders` promises, for `Ingest_proofs` and `Board_proofs` |
| `MCPlanStore`, `MCPlanSync`, `MCBoard`, `MCAccounts`, `MCListings`, `MCIngest` | the instances TLC checks |

A definition whose comment says "mutant" is not part of a model: `PROJECT.json`
names the definition it stands in for and the property that then fails.

### PlanStore

`plans` is the committed table; `tx[r]` holds what request `r` has read and
staged; `lock[a]` is the advisory lock of account `a`; `pc[r]` is the statement
`r` runs next or how it ended. A statement that must wait (for the account
lock, for a row that another transaction has written, for an uncommitted entry
of the unique index) is not enabled. The statements of a handler are:

* create: `LockAccount`, `InsertFirst`, `CommitCreate`, `Envelope`
* save: `SaveExists`, `SaveUpdate`
* duplicate: `ReadSource`, `InsertCopy`, `Envelope`
* activate: `LockAccount`, `ClearActive`, `MarkActive`, `CommitActivate`
* delete: `LockAccount`, `CountPlans`, `ReadTarget`, `DeleteRow`, `Promote`,
  `CommitRemove`

`Drop` is a client that goes away, at any statement. `DeleteAccount` begins the
cascading deletion: `CascadeRow` locks one plan row of the account, in any
order, waiting for a request that has written it, and `CommitDeletion` ends it
(`deleting`, `taken`). `BreakDeadlock` is Postgres: when a request and a
cascade wait for each other, one of the two is aborted, the request with a 500.
No `Drop` stops a cascade that has begun. The index never blocks or refuses by
decree: `CommitCreate` and `CommitActivate` contain the refusal, and
`IndexNeverRefuses` says it is never reached. Left out: the body, the name and
the year of a plan, and `updated_at`, whose only effect here is which plan a
deletion promotes (any remaining plan, in the model).

`PlanBook` states what the endpoints promise. It contains one step the docs do
not promise, `Deactivate`, because the code takes it: see section 4.

### PlanSync

One stored plan, `doc` with `version`. A document is the set of edits it
contains. A tab is one JavaScript thread, so an action runs to the next timer
or network answer. `pending`, `chain` (the promise chain behind `inFlight`),
`put` (the PUT of the head of the chain) and `status` are `planSaver.ts`;
`known` is `planVersions` of `api.ts`; `page`, `shown` and `load` are the page
on screen, its document and the loads under way. `late` holds requests whose
tab no longer listens and that may still reach the store.

`by`, `stored` and `hurried` are history. `hurried` has the tabs that opened or
reloaded a page while their own save or pick was still running.

Environment assumptions: the plan exists, is active and is not deleted, and the
session stays valid. Bounds: `MaxEdits`, and one page load and one pick at a
time per tab.

### Listings

One term. A run is `Begin` (lock, run row, term check, subject list, counts for
the guards), `OneSubject` for each subject, `Quarantine` or `PassGuards`, then
`UpsertSections` and `WithdrawMissing` for each parsed subject, and `FinishOk`;
`Stop` is an error or a dead process at any point. A replay is `ReplayBegin`,
`ReplayListing` for each page, `ReplayEnd`. A client is `ReadVersion` then
`ReadRows`. What Rice answers is any set of a subject's sections, a page with
no table, or no answer. `rows[c]` keeps the page a row came from and when it
was withdrawn; a crn carries a weight, so that the 20% guard can let a small
subject change and stop a large one.

Assumptions: the host and the database agree on the clock (`upsert_listing`
compares the host's time, `withdraw_missing` stamps the database's), no two
runs end in the same second (`data_version` is in whole seconds), and a section
does not move to another subject. Time advances by phases of runs. Issues,
statistics and canaries change no row and are left out. The fill-rate guard is
a nondeterministic quarantine once a good run exists. Bounds: `MaxRuns`,
`MaxReplays`, `MaxWeight`.

### The engine: Terms, Requirements, PlanDoc, Prereqs, Evaluation, Warnings, Bundle

The engine is pure, so it is a chain of operators, one module per idea, each
extending the one before.

* `Terms`: a term code (`term.rs`) as a year and a season, its position on the
  board, and the credit arithmetic: cents that saturate at `MaxCents` as the
  code's integers saturate at their width.
* `Requirements`: programs as trees of rules, the filters a rule puts on a
  course (`yes`, `no` or unknown), and `CourseFacts`, what the catalog says of a
  course in a year, by its canonical code. The code recurses over trees to a
  bound on their depth; here a fold goes from level to level up to that bound,
  so that the modules declare nothing RECURSIVE and can be proved about.
* `PlanDoc`: the plan document and every edit of the page's reducer.
* `Prereqs`: the prerequisite text from tokens (`Parse`, with the depth bound)
  to an expression, `Fold`, and `Judge` against the cards of earlier terms.
* `Evaluation`: cards in board order, the tree flattened to slots, the
  student's pins, the matching by augmenting paths, and the fold of outcomes,
  hours, progress and claims up the tree.
* `Warnings`: each kind of warning of `warn.rs`, and `PreviewPlacement`, what a
  drag shows before the drop.
* `Bundle`: the slice of the catalog `plan_bundle` sends for a plan.

Names, texts and ids are members of small sets; a course's text search and its
rendering are left out.

### Board

`plan` is the document, `report` the last report or none. An edit is an action
(`Drop`, `DropFromTray`, `RemoveCard`, `DropOnRequirement`, `MoveManual`,
`ChangeHours`, `EditManual`, `MatchAgain`, `Claim`, `Tick`, `Untick`,
`ChangeTerm`, `AddAfter`, `AddAt`, `RemoveColumn`, `ChangeYear`,
`ChangePrograms`) with the guard the page puts on it, and it makes the report
stale; `Recompute` evaluates. `AddAt` takes a position its dialog offers
(`OpenPositions`: from the year of matriculation, one constant, on). The
properties of the engine are stated of the plans such sequences of edits reach,
so they cover pins on rules that have gone, cards in converted columns, and
claims a change of program has orphaned.

`MatchingIsMaximum` compares the augmenting paths with Hall's formula, a
definition that does not search; `PreviewAgrees` and `WarningsCanBeFollowed` do
the edit and ask again. `BundleSuffices` compares the report over the slice with
the one over the whole catalog; it is violated, see section 4.

### SignIn

One action per SQL statement, since handlers interleave between them:
`EmailRequest`, `CountSends`, `PutCode`, `RecordSend`, `SendMail`;
`EmailVerify`, `ReadCode` (which locks the row), `Judge`; `Sso`;
`CreateAccount`, `OpenSession`; `SessionRequest`, `Lookup`, `Expire`,
`TouchSession`, and then `View`, `Logout` or `RemoveAccount`; `Drop` at any
point; `Tick`. Each handler carries the time it read when it began. The n-th
request mints code n, account n and token n: what the random generator makes
distinct is distinct here, and a guess that is no mailed code is 0. `wrong`,
`opened` and `signedOut` are history.

### Library and Accounts

`Library` has the handlers of schedules and collections and the claim: the
claim is one transaction for the schedules (`NameSchedule` for each record,
which looks for the record and a free name, then `CommitSchedules`, the
upserts) and one for the collection (`NameCollection`, `CommitCollections`). A
record over the limits or of a term that is not held is skipped (`Lands`,
`CollectionLands`): the answer is still a 200.
Only an answer (`Answered`) clears the browser's store, and `Abandon` is a
failure, a rollback or a lost answer, after which the browser claims again.
A saved schedule is two statements (`SaveSchedule`, `Replace`), a starred
course too (`CourseRequest`, `WriteCourse`).

`Accounts` composes the two over one table of accounts: a library request acts
for a session that is valid as it begins, and a step of `SignIn` that deletes
an account deletes its rows in the same step, whatever a claim of it is doing.

### Fetching, Pages, Programs

`Fetching` says how an answer, an error and an outage count in a run and when a
run gives Rice up. `Pages` is the program page parser, row by row with its open
group and area, and the tree a draft becomes. In `Programs` Rice edits pages;
`PullIndex`, `PullPage` and `ReplayPage` fetch or read them; `SelectDraft` and
`InsertDraft` are the two statements of `put_draft`; `EndRun` and `Stop` end a
run; a reviewer reads a draft, locks it, approves (`ApproveDraft` publishes:
fingerprints give a rule the id it had, the rest is retired), leaves or
rejects; `LoadProgram` rebuilds the tree from the live rows, and `Choose` is a
plan that names one of its rules.

### Aliases

`canon` is the committed table; `txn[w]` a writer's transaction with its own
rows and the snapshot of the statement it is in. `Open`, `WriteMember` for each
row of a group and `EndGroup`, `FlattenStart` and `FlattenEnd` for each
statement of the loop, and `Commit` or `Abort`. A statement reads what was
committed when it began, waits for rows another transaction has written, and
then looks again only at the row it waited for (READ COMMITTED). `settled` is
history: the last transaction to commit had seen all the others.

### Seats

`Check` (window and interval), `Begin` (the lock), `ReadCrn` for each section
of the poll set, `Deadline`, `Flush` for each batch (a set, since a run reads a
section once), `Conclude`; `Lose` is a failed batch or a dead process. Rice's
clock (`RiceMoves`), its numbers (`Enroll`) and the interval move on their own.
`read` is history.

### Meetings and Documents

Two sections whose rows three jobs and a replay fill; `section` has those that
are held. `CrnsDue` is the order of the query: never fetched, then oldest, then
by id. `FetchListing` and `WriteListing` are the nightly listing;
`BeginWeekly`, `Answered` or `Unanswered`, `MergeRow` for each row of a
document, `NextCrn`, `EndWeekly` and `FailWeekly` are the weekly runs of feeds
and of detail pages; `BeginReplay` and `ReplayRow` replay them; Rice may
publish a second timetable and days pass. `Meetings` has `WriteClassMeetings`,
which merges what a document says with what the row holds, and `FindConflicts`.
`source` and `rewound` are history.

### Search

A search is several statements (`SelectPage`, `SearchCounts`, `CountHidden`,
and one `Suggest` for each active filter of an empty result), between which
`JobWrites` may replace the catalog. The page is `Type`, `LoadMore`,
`AnswerFirst` and `AnswerMore` (dropped when the query on screen is another),
and `SearchFails`. The suggestions end in the API's answer: the web adapter
drops them. `spoiled` is history: a job wrote, or `AnswerMore` appended a page
asked for after another number of rows. Validation, the query parameters,
every filter with its conversions (a day that ends at 24:00 ends at 00:00, in
SQL), the four sorts, paging and the counts are the code's; what a keyword finds
in a section (SQL text search) is a fact of the section, and the browser's cache
and the tags are in `Listings`. The schema keeps CRNs apart and not section
names, so the sort may leave rows equal: each `SelectPage` returns those in the
order of some `tie` in `Ties`. `PagesAreWhole` promises the order of rows only of
catalogs where `NamesAreUnique`, and one catalog has two sections of one name.

### Ingest

Composes the jobs, the reviewers and the search. An approval publishes in one
transaction and `UpsertAliases` opens the next; the command ends with that one
(`EndReview`). The seats poll, the documents and the search share no table that
matters to the rest, so a behaviour (`scene`) has one of these parts busy.

## 3. Runs

| Run | Instance | Checks | States |
|---|---|---|---|
| `plan_store` | 1 account, 2 ids, 2 requests, versions to 1 named | `TypeOK`, `LockMatchesPc`, `IndexNeverRefuses`, refinement `ImplementsPlanBook`, `LastPlanKept`, `RequestsEnd` | 68 thousand |
| `plan_store_active` | 1 account, 2 ids, 1 request | `SomePlanActive` is violated | |
| `plan_sync` | 2 interchangeable tabs, 2 edits | `PatientUsersLoseNothing`, `InOrder` | 1.3 million |
| `plan_sync_one_tab` | 1 tab, 3 edits, fairness | `SavedMeansStored`, `EditsSettle`, `SaverSettles` | 56 thousand |
| `plan_sync_lost` | 1 tab, 2 edits | `NoLostUpdate` is violated | |
| `listings` | 3 crns (weights 5, 1, 1) in 2 subjects, 3 runs, 1 replay | `TypeOK`, `LiveIsLastWritten`, `TagTellsTruth`, `ReplayKeepsLiveSet`, `NoSubjectEmptied` | 3.3 million |
| `listings_replay` | as above, 2 runs | `ReplayEndsOnNewest` is violated | |
| `board` | 3 plans, 3 programs, 5 courses, 2 edits | `BoardIsOrdered`, `MatchingIsMaximum`, `MetIsEarned`, `HundredMeansMet`, `SelfChecksAreTold`, `PreviewAgrees`, `WarningsCanBeFollowed`, `ExclusionsAreFair`, `NoCardVanishes` | 15 thousand |
| `board_bundle` | 2 plans, an alias group of three codes | `BundleSuffices` is violated | |
| `accounts` | 1 address, 1 IP, 2 sign-in handlers, 2 library handlers | `SessionsAreEarned`, `FiveGuesses`, `IpSendsBounded`, `SignedOutStaysOut`, `ClaimIsComplete`, `ReplacedWhole` | 2.7 million |
| `ingest` | 16 scenes, see below | `PublishedIsThePage`, `ChoicesResolve`, `AliasesResolve`, `SeatsAgree`, `ConflictsAreTold`, `DueSectionsAreServed`, `PagesAreWhole`, `SuggestionsHelp` | 610 thousand |
| `ingest_session` | a listing and a feed run over two sections | `SessionsDecide` is violated | |

The type invariant of a module is a conjunct of its first invariant where the
table does not name it.

### Bounds, and why they are enough

*Plans.* Two requests already show every race of a check and a write, since
nothing in a handler depends on a third; requests begin again after they end,
so sequences of any length occur; one account suffices because the lock, the
index and the cascade are per account; with two plans a deletion has one left to
activate, and a cascade can hold one row and wait for the other, which is the
least a deadlock takes. The proofs do not depend on any of this.

*Sync.* Two tabs and two edits are what a lost update needs; three edits in
one tab give a chain of three writes.

*Listings.* Three runs let a section be listed, withdrawn and listed again;
the weights let the volume guard both pass and refuse the loss of a section.
The proofs hold for any number of subjects, sections, runs and replays.

*Board.* The three programs have every kind of rule: distribution with a
department spread and a hours rule (university), a choice with allowances,
additional hours and a group deeper than the depth bound (major), and a course
taken twice in a program of a later year only (minor). The three plans have
pins, manual cards with and without a course, aliases, away and off columns,
and a pin on a rule that is gone. Two edits let one undo what another relies
on. `MaxCents` is 18 so that sums saturate; ECON 307 has two other codes, STAT
310 and MATH 310: a plan has one and a prerequisite names the other.

*Accounts.* The limits are 2 guesses, 2 sends per address and 1 per IP, the
clock runs to 2 and every window is 2 wide, so each limit and each expiry is
reached. Four sign-in requests are a code, its replacement, and two that
present it. `Quotas` splits the requests between sign-in and library. One guest
store has two schedules of one name and courses, so that naming matters;
another has a schedule of a term the store does not hold, which no claim can
land; a third has a schedule and a collection over `MaxClaimItems`, here 1.
Three library requests let a claim be sent twice beside another request.

*Ingest.* A scene says what is busy and how much of it there is: a page that
is published, retired and revived; a fault at any point; two reviewers; two
editions of one program; an approval's aliases beside a catalog page; Rice
down with both jobs at work; four catalog pages at once; the seats poll with
two pollers, three polled sections, batches of two and a fault; feeds with
a replay, a new timetable and a fault; three listings and two feed runs; two
feed runs with two faults; detail pages and their replay; a student who types
and loads more, a request failing; and one under whom a job writes. Two outages
in a row are what makes Rice count as down. Searches run over five or six sections with
pages of at most three rows, so a result has up to three pages, and eleven
queries use every filter, sort and limit, the end of the day and bounds that
exclude each other included. There are three catalogs, one with two sections of
one name, and two orders of ties.

Deadlock checking is off everywhere: the system may be idle for ever (users
may do nothing, ids, edits, runs and requests run out). That nobody hangs is
checked by the liveness properties instead.

Every property has a mutant in `PROJECT.json`: a plausible bug in a definition
(a lock that is not awaited, a lost version guard, a withdrawal that any page
clears, a claim that is over before it was answered, a late page that is
appended to another query's rows, ...) under which TLC finds that
property violated.

### Fairness

`PlanStore!Fairness` is strong fairness of each request's next statement.
Weak fairness would not do, because a request that waits is enabled again and
again as others come and go. The code justifies the strong form: Postgres
queues waiters for advisory and row locks in arrival order, and the runtime
polls every handler; the cascade is as fair as the requests. `BreakDeadlock` has
weak fairness of its own: Postgres looks for deadlocks once a second. It is no
part of the statement's fairness, because a waiter gets its row when the other
side is aborted, and deletions aborted again and again would else count as its
steps and keep it from that row for ever. Nothing is assumed of `Begin`, `Drop` or `DeleteAccount`.

`PlanSync!Fairness` is weak: the debounce timer fires, and a fetch is answered
or rejected. Users, and requests whose tab is gone, owe nothing. A save may
fail every time, so the liveness properties promise that an edit is stored
*or* that the tab says otherwise, never that it is stored.

The other specifications state no liveness. A job may stop at any time and is
started again by its schedule; two alias writers may truly deadlock, and
Postgres then aborts one; a student may never ask again; and a sign-in handler
waits only for the row of its own address, whose holder always has a next
statement. The evaluation of a plan is one step.

## 4. What the checks found

* **An account can be left with no active plan** (`plan_store_active`).
  `set_active_plan` clears the flag before it looks for the named plan and
  commits although it found none; the client sees 404.
* **A save can overwrite an accepted edit** (`plan_sync_lost`). The flush on
  leaving the board is not awaited; a page opened meanwhile shows the plan from
  before it, and a PUT names the newest version the tab knows, not the one its
  document was loaded under. `PatientUsersLoseNothing` is what does hold: no
  accepted edit is overwritten while every user lets a save end before opening
  another page.
* **A replay can end on an older page** (`listings_replay`). Its pages are
  chosen when it starts, and a listing run may end before they are written.
  Which sections are live is not affected (`ReplayKeepsLiveSet`).
* **The slice of the catalog can miss an alias** (`board_bundle`). `plan_bundle`
  promises everything the engine needs for one plan (`plans.rs:613`) and reads
  the alias rows once (`plans.rs:635`). Of a cross-listed group of three codes,
  a plan with one brings that row and the canonical code, not the row of the
  third: a prerequisite that names the third is then missing from a plan that
  has the course.
* **Clashes of one session may not be told** (`ingest_session`). "Same part of
  term = same dates, so time alone decides" (`schedule.rs:77`), but a listing
  stores the session's label (`listing.rs:136`) and a feed its code
  (`xml.rs:233`). Two sections of one session, one row from each, differ, and
  unless both have dates their clash is not found.

The models show more, which is not stated as a property because the code makes
no promise against it, or because the promise is only a comment about a case
the product may accept. In short:

*Plans.* A save of a plan deleted in between answers 409 rather than 404; a
failure between `createPlan`'s two requests leaves a plan that is not active; a
keepalive request on `pagehide` may be cancelled. An activation holds the rows
it has cleared and waits for the one it marks (`plans.rs:587`, `:591`), a removal
the one it has deleted and waits for the one it promotes (`:523`, `:543`); the
cascade of an account's deletion takes the same rows in its own order, so they
can deadlock, and Postgres ends one with an error the client sees as 500.
`RequestsEnd` says that no request hangs on it.

*Sync.* A save whose answer is lost makes the tab's next save report that
another tab changed the plan (`planSaver.ts:12`, `:53`), although no other tab
exists: the 409 cannot tell.

*Engine.* A card that may not fill a course rule on an attribute, such as AP
credit (`plan.rs:325`), is still counted by a credits rule on it
(`evaluate.rs:814`). A column that goes Rice, away, Rice loses its observed
flag and term code (`plan.rs:196`), and one that goes away, Rice, away its
credits' source. `distinct_departments` counts claimed cards too.

*Sign-in.* `delete_expired_sessions` and `expire_login_codes` have no caller,
though `0007_sessions.sql` says that old rows are deleted nightly. Consuming or
burning a code deletes its row and with it the send window of the address.
`put_login_code`'s second select may find no row.

*Claim.* A schedule or collection over the limits, or of a term that is not
held, is skipped and named in a 200 (`account.rs:303`, `:316`), upon which the
browser clears its whole store (`api.ts:540`): what was skipped is kept nowhere.
`ClaimIsComplete` promises only what the limits and terms let through. A claim
sent again mints new ids for its collection. "Never overwrites" (`types.ts:95`)
holds of documents: where a row came since the claim looked, the upsert keeps the
document, edited or not, and rewrites its section rows to the guest's, so they
need not be the document's any more (`schedules.rs:1-2`, `:72`, `:358-372`).
`ReplacedWhole` names this as the one way section rows change alone.

*Programs.* `put_draft` checks and then inserts, so a pull and a replay queue
one page twice, though the comment says they do not. `reject_draft` does not
look at the state it replaces. `load_program` reads the version and its rows in
two statements. A row inserted in a page shifts the paths, so the siblings
after it get new ids. Comments under a "Total Credit Hours Required" heading are
dropped, although `program.rs:309` says "never dropped". A page without a table
fails the whole pull, and is skipped by a replay.

*Aliases.* A code in two groups keeps one alias only. Writers that overlap can
leave a chain until the next write, or deadlock; `AliasesResolve` therefore
promises one look-up only when the last commit had seen all before it.

*Seats.* The poll set has one order and a deadline, so its tail may never be
read. The interval is checked before the lock. A poll cut short ends "ok".

*Documents.* A replay can overwrite newer data, and stamps what it replays
with the time of the replay. `ConflictsAreTold` speaks of two sections that
both have dates or have one stored part of term; of a label beside a code it says
nothing, which is what `SessionsDecide` shows. Two meetings of one slot with
different dates get the dates of the first when they are listed again. A feed
may never list a lone section, whose dates then stay unknown. A document that
does not parse ends the weekly run and stays first in its order.

*Listings.* A replay, and a run that fails half way, change rows without moving
the ETag until the next good run (`TagTellsTruth` excludes exactly that
window). An ok run that skipped subjects lowers the baseline of the volume
guard, so that later full runs may be quarantined.

*Search.* Levels that exclude each other find every level, although
`routes/catalog.rs:158-160` says they are intersected: an empty intersection is
no filter. `endsBefore` = 1440 is accepted (`routes/catalog.rs:85`) and wraps
to 00:00 in SQL, so no timed section is found; the web never sends it
(`query.ts:64`). `Sensible` excludes both kinds of query. "A new query starts
over" (`CatalogPage.tsx:119`), but an answer for more is appended whenever the
query is the same again (`:145-149`): a student who loads rows 3 and 4, asks
for more, types another query and the first again has rows 5 and 6 behind rows
1 and 2. `PagesAreWhole` excepts a screen this has happened to, and holds of
every other. Nothing in the schema makes section names unique
(`0003_catalog.sql:119`), so rows a sort leaves equal may come in another order
on the next page. `levelMin` works in whole hundreds; the rail's "500+" asks
for 500 to 599. The web drops the suggestions the API computes
(`section.ts:306`). Seats runs do not move the tag although a filter and a sort
depend on seats. A first request that fails leaves the skeleton, and nothing
asks again.

## 5. Proofs

All theorems are of the form `Spec => ...` for every value of the constants,
assuming only the module's own assumption: `PlanStoreAssumption`,
`PlanSyncAssumption`, `ListingsAssumption`, `SignInAssumption`,
`AccountsAssumption`, `CodesAssumption`, `SeatsAssumption`,
`ProgramsAssumption`, `PagesAssumption`, `WritersAssumption`,
`DocumentsAssumption`, `CatalogAssumption` (the absent value is none of the
others, the sets that are counted are finite, codes, bounds and limits are
numbers, a budget has its parts, reviewers write aliases; for the pages that
rows, codes and footnotes are lists and their codes codes; for the search the
types of a section's columns and of a query's fields, and that a tie gives each
CRN a rank of its own). TLC evaluates each of them in the
runs.

**`PlanStore_proofs`.** `TypeCorrect`, `LocksReleased`, `IndexUnused`,
`PlanStoreImplementsPlanBook`, `LastPlanIsKept`. None of the invariants is
inductive alone. The inductive invariant adds what the code relies on between
statements: whoever runs a locked statement holds the account's lock; hence
what it read is still true of the table (its count, whether its row is the
first or the active one, which rows it has cleared), up to the deletion of the
whole account; ids staged by two requests differ and are not minted; at most
one plan of an account is active. Of the cascade it says (`DeletionInv`) that
no row is both taken by it and written by an open transaction, and that an
account that goes has no plan about to be committed by a create, so that what
the cascade commits disturbs no handler that has read rows without its knowing.
A deadlock's victim is a `Drop` that ends in an error. Each action is a lemma
of its own. The refinement (`Book == INSTANCE PlanBook WITH ...`) follows step
by step: a commit is the abstract operation, any other statement is a stutter,
and a commit after the account went is a stutter too.

**`Listings_proofs`.** `TypeCorrect`, `LiveSectionsAreLastWritten`,
`TagsTellTruth`, `ReplaysKeepLiveSet`, `SubjectsAreNotEmptied`. The invariant
says that every page a replay may write is replayable: each of its sections
exists and is live or was withdrawn no earlier than the page was fetched, so
that writing it again clears nothing. It also says that a run past its guards
holds no empty page for a subject with live sections (`Guarded`, `ToWrite`),
that in its own phase no section of a subject still to be written has been
withdrawn, and what the rows of the subject being written are between its
upsert and its withdrawal (`HalfWritten`).

**`SignIn`, in `Accounts_proofs`.** `SignInTypeCorrect`, `CodesOpenOneSession`,
`CodesTakeFewGuesses`, `TokensStayOut`, `SendsStayBounded`, for any number of
addresses, handlers and requests and any limits. The invariant says that every
serial is one that was begun and belongs to one handler, and that a token in
the table or in a request is of a handler that is over (`SerialInv`); that the
handler that judges a guess holds the lock of the row and the row is still what
it read (`LockInv`, `ReqInv`); that a code not sent yet is nowhere and codes of
two addresses differ (`CodeInv`); that a code that was accepted is on no row
and in no other handler's hand (`SpentInv`), from which one session per code
follows; and that a row counts exactly the wrong guesses made against its code
(`WrongInv`), from which the bound on guesses follows. For the sends of an IP
the invariant counts those recorded in the window together with the handlers
that have passed the check and not recorded: each passed when fewer than the
limit were recorded, so the excess is one less than the handlers there are.

**`Aliases`, in `Ingest_proofs`.** `AliasesDoResolve`, for any codes, writers
and groups. The invariant says that the rows of the table, of every open
transaction and of every snapshot descend, and that while no other transaction
has committed since a statement began, its snapshot is the rows it works on; so
when the loop ends because a statement changed nothing, no chain is left. The
theorem is about `AliasSpec`, where a writer may open with any groups.
`AliasesAreUndisturbed` is the refinement: the alias transactions among all the
jobs are those of `AliasSpec`, because what a parsed page or a catalog page
brings are groups of codes; `IngestedAliasesResolve` follows.

**`Seats`, in `Ingest_proofs`.** `SeatsDoAgree`, for any sections, pollers,
batch size, numbers and clock. `SeatsAgree` says nothing of what a run has in
hand, and is not inductive without it: the invariant adds that only the holder
of the lock has readings in hand (`LockInv`), that each of them is the last
reading of its section, will not be taken again in this run, and is no older
than the section's chart (`HandInv`), so that writing it makes it the newest
snapshot. `SeatsSpec` is the poll alone; `PollIsUndisturbed` says that the poll
beside all the other jobs is still `SeatsSpec`.

**`PlanSync_proofs`.** `PatientUsersKeepTheirEdits`, `SavedIsTrue`,
`NeverOutOfOrder`, for any tabs and edits. The proof goes in layers, each on
the ones before. First what each action moves: a step hands documents from
page to timer to queue to request, or stores one (`StepIsAMove`), so that the
later layers argue about few kinds of step and not about every action. Then
the order (`OrderInv`): documents are made of edits made, no one names a
version beyond the store's, an edit in a tab's hands is the tab's own or is
stored, a tab's queue is ordered by its newest edits, and what is still to be
written is newer than what the tab has stored, also while an abandoned request
is on its way; `InOrder` follows. Then the tabs of users who wait for their
saves (`PatientInv`): a load runs alone, a pick after the writes it awaits, the
queue is nested and the board covers it; `SavedMeansStored` follows. Last
(`FreshInv`): as long as nobody has hurried, whoever holds the store's current
version has read everything that is stored, so no accepted save drops an edit.

**`Accounts_proofs`.** `LibraryLeavesSignIn` is the refinement that carries the
theorems of `SignIn` over to the composed system. `NothingIsLostByAClaim` and
`SchedulesAreReplacedWhole` rest on `ClaimInv`, for any limits: the tables keep
their keys; of the records a claim has looked at, each that may land is staged
or has landed already (`Staged`); the id a request minted for its collection is
its own and no row has it yet; after the first transaction the schedules have
landed, and before the answer all has (`HandlerInv`). What landed stays landed,
whatever is edited, claimed again, signed out or deleted meanwhile. Landing is
per account and client id, since the same browser may claim into two accounts.
What the limits skip is not promised to land. `SchedulesAreReplacedWhole` goes
action by action: a save changes document, version and section rows together,
and only the upsert of a claim can change section rows alone.

**`Ingest_proofs`.** `ChoicesStayTrue` is about publishing. Its invariant
(`ProgramInv`) says that an id is minted from the decisions left, so that the
ids of a new publish are no rule's yet (the code's serial ids give the same),
that a version lists just the retired rules of its edition (`VersionInv`), and
that a choice names a rule there is, with its fingerprint (`ChoiceInv`).

`PublishedStaysThePage` says, for all pages and editions, that a load gives the
tree of the approved page and that the tree, with the page's aliases, says all
that the page's rows say, except the comments under a "Total Credit Hours
Required" heading, which the parser drops (`RowSays`). Four arguments meet
there. What the parser makes of a page (`Parsed`): reading row by row is a
function of the rows read so far, and each kind of row keeps the page a list of
areas of rules of two levels, so the draft becomes a tree of three (`Level3`);
no induction over the depth is needed, for a program page never nests deeper.
What a load makes of rows: when the live rows of an edition stand for the nodes
of one tree, one to a path, each with its parent's id and its place (`Shows`),
the children of a row come back in order (`ChildrenOf`), and the only function
that `load_program`'s recursion describes is the one that gives each row the
node it stands for (`LoadsTree`). What a page says (`NothingIsDropped`): a
row's codes and text are said by the reading once the row is taken up
(`OnRowSays`), wherever they go: an area, an open group, an `or`, an alias or a
self-check; no later row unsays them (`SaysOn`); a group that closes says as a
rule what it said open; and what the draft says, some node of the tree says
(`DraftTold`). And what a publish writes: an id per path, new or carried by its
fingerprint, no two paths the same (`IdsDiffer`), the rest of the edition
retired, other editions untouched (`WritesTree`). The invariants are that jobs,
drafts and desks hold what they should (`QueueInv`, which
`AliasesAreUndisturbed` uses too), that ids are minted (`RuleInv`), and that
each published edition shows the page of its draft (`LiveInv`).

`DueSectionsServed` is about the weekly runs: each run knows the day it began
and the sections that were due, all of them held; the detail page in hand is of
the CRN asked for and no older than the run; and every section the run has
passed is stamped (`RunInv`). The lemma that does the work is `MergeKeeps`: a
merge, by whichever run or replay, stamps one section with a day that undoes no
run, or a replay leaves its name in `rewound`. Listings, replays, the other
run and faults may come in any order between the steps of a run.

`PagesStayWhole` is about the search. `PagesAreWhole` compares the screen with
a definition of the result that shares neither the level arithmetic nor the
paging with the code, so the proof has two halves. The first is about the
operators: keys under one query have one length and a tie puts equal keys in
some order, so that the numbers of sections ahead fill 0 to the size less one
(`RanksFill`) and the ordered result holds every section once
(`OrderedIsSorted`); where names of sections are unique, keys differ and the
tie does not matter (`TiesMatterNot`); the levels that bounds and names leave,
where they leave any, and a day's end before 24:00 are exactly what was asked
for (`LevelsAreWanted`, `FoundIsWanted`); and a page of a page is a page
(`FirstSlice`). The second is the invariant (`SearchInv`): a request that no
job has overtaken holds the rows of its result from its own offset, and the
counts of the whole result, as far as its statements have come; and unspoiled
rows on screen are the first of their query. `SuggestionsDoHelp` is about the
answers to such requests. `ActiveKept` says which filters `Active` keeps and in
which places, from what `Orders` says of any such list (`AscendingIs`,
`ChosenIs`); with it `DropsAre` shows that the code's cut of that list leaves
the filters `SuggestionsHelp` counts out. The invariant (`OffersInv`) is that a
request offers what the filters it has probed give, those still to do give the
rest, and only the first page of an empty result has any.

`ClashesAreTold` is about rows of sections, each of which a listing, a feed and
a detail page fill in part. The invariant (`ClassInv`) says where what a row
holds is from: its meetings are at the times and days of the timetable entry
its source names, in that entry's order, and every date it has is of the entry
of the feed it was written from (`SlotsOf`, `DatesOf`), whatever was merged
into it; the same of every listing, document, archived document and replay on
its way. So once both entries are what Rice prints now, the meetings of two
rows are the printed ones, and `FindConflicts`, a list made by folding, holds
the pairs that clash, where both rows are dated or name one part of term
(`TellsTrue`). The timetable may say anything of the right shape
(`TimetableOK`), dates that run backwards included: two such spans can overlap
by `DateSpan::overlaps` and hold no day, so what is told is a clash if no date
runs backwards (`Spanned`), which `MCIngest` has too.

**`Board_proofs`.** `BoardStaysOrdered`, `CardsDoNotVanish` and
`ExclusionsStayFair`, for any plans, any catalog, any hours and origins typed
and any number of edits. The inductive invariant is `Ordered(plan)` with the
bound on edits. What makes it inductive is the shape of each card and each
column in `PlanOK`: a card that names no course has an origin, so that
converting a column back to Rice is refused rather than leaving a card of
neither kind; every incoming card has an origin, so that dragging one to an
away column keeps that column's kind; the ids of a list are distinct, so that
taking one card off takes one. `Boarded` states the same by columns 1 to N and
`Place` 0 to N (incoming first), because an edit is a change at one place. Four
lemmas carry the edits: one column changed and the others left (`Given`), every
card repainted alike (`Repainted`, for choices, claims and hours), a column
filled and a card taken away elsewhere (`Filled`), columns put in or taken out
(`MadeOf`); then one lemma for each operation of the reducer and one for each
action of the page. An id is fresh when `CanMint` holds, from which a converted
card keeps its number among the cards (`Keeps`); `CardsDoNotVanish` then
compares the finite sets of ids before and after. The assumptions are what the
page gives: boards opened are in order (`BoardsAssumption`), typed hours fit
their width and a typed origin is one (`TypedAssumption`). `ExclusionsStayFair`
is about the report of any ordered plan: the places are finitely many and
comparable, so a course that is on the plan has an earliest card
(`EarliestIs`); of the rows that say one pair, either way round, the first is
told and no other (`ToldAre`, by `LeastIs`); and rows turned round say the same
pairs (`ReverseHolds`). It assumes the catalog's exclusion rows are finitely
many and that a missing position is no number (`CatalogAssumption`, which also
gives the records' years and texts their types).

**`Reports_proofs`.** `HundredsAreMet`, `MetIsAlwaysEarned`,
`SelfChecksAlwaysTold`, `MatchingStaysMaximum` and `WarningsAlwaysClear`, as
generally. `HundredsAreMet` is about the whole evaluation. The invariant that
carries it over the steps is `Current`: the report is absent or the evaluation
of the plan that is shown, because every edit clears it and only `Recompute`
makes one (`StepCurrent`). The rest says what one evaluation gives, for rules
of any depth and any cards. A count is `Good` when no more is met than is
counted and, where anything counts, all of it is met exactly when the outcome
is `met`; a report `Fits` when it lies in a set of good reports that holds each
one's children (`Closed`) and what it counts is within a bound. `Fits` replaces
an induction over trees, which the prover does not have: leaves fit (`LeafFits`
and one lemma for each kind), a group of children that fit does (`GroupFits`,
by the sums of `TotalsCompare`), and the levels of the evaluation are taken one
after the other with `UpTo` (`TreeFits`); what is walked of a report stays in
its closed set (`WalkStays`). The bound is `Tally`, what a rule can count at
most. `RulesAssumption` keeps it within the counter's width, because a sum of
counts that stops at u16's largest value would show 100 for a group of which a
part is unmet: a program with more than 65,535 rules under one group. Without
it the lemma on sums is false, so the assumption is needed; a published program
has some hundred rules. It also says that a group is a list and a choice's
count a number, which is their type in `program.rs`, and that a program's nodes
are its walk and no two of its rules have one id: the ids are primary keys
(`0005_programs.sql:50`), and a tree holds each row once.

`MetIsAlwaysEarned` says two things of each program that is reported: no card
fills two of its course slots or additional-hours rules, and a course rule is
met exactly when enough of the cards that fill it, none there by claim, are
cards the rule accepts. The argument goes through each part of the evaluation.
`CardsApart`: the cards collected have distinct entries, since the board has
(`BoardIsOrdered`), so to count entries is to count cards. `NodesAre` and
`SlotsAre`: each slot is a course rule of the tree. `PinsAre` and
`CandidatesAre`: a pin goes to one slot, and a free card is only offered to
slots whose filter takes it. `MatchesAre`: whatever the matching has tried and
taken back, a card it holds is held by one slot and is one of that slot's
candidates (`Fine`, kept by each `Try`, by a slot that asks all its cards, by
each level of `Augment` and by each slot in turn). So what each course rule is
`Assigned` is a list without repetition, apart from every other's, of cards
that are claimed or earn it (`AssignedAre`). `TreeTold` follows the fold of
reports with `told`, the set of reports made beside their rules: a course rule
has its `CourseReport`, and an additional-hours rule takes only cards nobody
had used (`Spends`), from one lot that the fold hands on. `ReportsFound`: each
rule has its report, and `ReportOf` finds that one. `CourseEarned` counts.

`SelfChecksAlwaysTold` follows the same fold. A report is `Honest` when it
counts itself if it asks and has no children, and the capped sum of its
children's counts if it has some; `told` holds honest reports only. What is
walked of a report is then `Matched` with what is walked of its rule
(`OneMatched`, `GroupMatched`): place by place the reports are of the rules
(`Mirror`), and the count shown is the number of those that ask, or that number
capped (`CountOf`). Sums of numbers that agree up to the width agree up to the
width (`CappedTotal`), whichever groups they were capped in. No two rules have
one id, so places can be counted as reports (`AskedOnce`); a program has no
more rules than a counter tells (`RulesAssumption`), so nothing is capped.

`MatchingStaysMaximum` is the correctness of the matching. `Rank` is Hall's
formula: how many of some slots can hold a card each is the least, over sets S
of them, of the slots outside S and the cards near S. The theorem says that a
slot is filled exactly when it raises the rank of the slots up to it, so what is
filled does not depend on the order of the cards. The search (`TryMoves`,
`TriedMoves`, `AugmentMoves`) is shown level by level: when a slot that asked is
refused, nothing has changed and all cards it could come by are held by slots
that asked for all theirs (`Stuck`); when it is served, it holds one card more
and each other slot as many as before (`Changed`), which survives the moment
in which a slot that moves over still has its old card. The bound on the depth
of asking is enough, because each level marks a card (`Moving`: cards seen and
levels left are at least all cards). On sets, `Best` is the invariant from slot
to slot: some S leaves room for no more slots than are filled. A slot that is
served adds one to both sides (`GrowthBest`); one that is stuck adds itself and
the slots it asked to S (`StuckBest`, where the inequality of the two sets is the
submodularity of room); and no matching exceeds the room (`RoomBounds`).

`WarningsAlwaysClear` is about prerequisite texts of any length and nesting. A
text may say anything: what it is read as is `Legible`, a member of a set of
expressions that holds each one's parts, where a course has a name and no list
is empty (`TextRead`, one level of parentheses after the other). A verdict is
`Sound` when it names courses, and at least one when it says that something is
missing. `Clears` compares the verdicts of one expression on two boards, the
second with the same courses no later and with every course of G brought in:
the second is never worse, and what was missing, all that it named being in G,
is missing no more. `AllClears` and `AnyClears` are the two folds, a level of
the expression after the other (`JudgeClears`), and what lies below the bound
on depth is unknown on either board. For alternatives the nearest miss alone
speaks, and another can become the nearest when one of its courses is brought
in; but some alternative that named courses had all of them brought in, which
is enough. `GrantedFirst` says that putting credits into the incoming column
makes such a second board. The theorem then takes G to be all that the report
named: warnings of other kinds are apart (`OthersTold`), and they are finitely
many, so the credits make a list.

Only model-checked:

* liveness under fairness (`RequestsEnd`, `EditsSettle`, `SaverSettles`) and
  everything about ENABLED, which the prover does not handle;
* one invariant of `Board` about a report: `PreviewAgrees`, which compares what a
  preview computes with a second evaluation, of the plan after the drop.

## 6. Not modelled

Listed with reasons in `PROJECT.json`. In short: middleware, wire types and
configuration; the layout parsers of catalog and detail pages, which fixture
tests cover; SQL text search; the single-row reads; the CLI's reports;
append-only feedback and usage events; deployment; presentation; the interim
TypeScript engine, a stand-in for demos. Of modelled parts: the reference job
and the columns of the catalog job other than aliases (plain upserts like the
listing job's), the page state of schedules and favorites, `createPlan`'s two
requests, and torn reads of queries of several statements that only read
(`load_sections`, `load_program`).

## 7. Plan

Done: `PlanBook` and `PlanStore`, `PlanSync`, `Listings`, the engine and
`Board`, `SignIn`, `Library` and `Accounts`, the jobs, the review and `Search`
under `Ingest`; with proofs of all of them, the engine's reports in part.

Next, in order of what would hurt most:

1. A theorem about what a drag's preview says.
2. `ScheduleSync`: schedule saves without a queue and favorites by difference.
3. The weekly job's liveness under a document that does not parse.

Bounds stay at the least that lets two actors race and one thing happen twice.
Modules meant for proofs declare no RECURSIVE operator.
