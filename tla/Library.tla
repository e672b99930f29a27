------------------------------- MODULE Library -------------------------------
(***************************************************************************)
(* Schedules, collections and the guest claim: schedules.rs, collections.rs *)
(* and their routes, with the claim of routes/account.rs and the browser    *)
(* that retries it.                                                         *)
(*                                                                          *)
(* A document is [term, name, crns]; a name is <<word, suffix>>, suffix 1   *)
(* when none is shown (lower() is left out: words are compared whole).      *)
(* Requests of one statement are one action.  A transaction's writes show   *)
(* at its commit; what it read before may have changed by then.             *)
(***************************************************************************)
EXTENDS Naturals, Sequences, FiniteSetsExt

CONSTANTS
    Workers,            \* handlers of several statements that may run at once
    HeldTerms, HeldSections,    \* terms, and the <<term, crn>> of sections
    Documents,          \* what a page saves
    Names, Courses,     \* of collections
    MaxClaimSchedules, MaxClaimItems,   \* of one claim; of one document in it
    MaxMade,            \* bound: rows and guest collection ids ever made
    MaxVersion,         \* bound: saves of one schedule
    Free                \* a worker with nothing to do

VARIABLES
    alive,          \* the accounts there are (kept by SignIn)
    schedules,      \* rows [id, account, client, version, doc, sections]
    collections,    \* rows [id, account, client, name, courses]
    work,           \* what each worker is doing
    made,           \* ids minted
    guest,          \* the browser's store: [schedules, courses, cleared]
    landed          \* history: <<account, client>> of the guest records a claim has committed,
                    \* client 0 for the collection
libVars == <<schedules, collections, work, made, guest, landed>>

Ids == 1 .. MaxMade
Favorites == <<"Favorites", 1>>      \* the one collection a guest keeps
\* A schedule a browser keeps; items counts its candidates and busy blocks.
Guests == [client : Ids, doc : Documents, items : Nat]
SectionsOf(doc) == {<<doc.term, c>> : c \in doc.crns} \cap HeldSections
OfAccount(rows, a) == {x \in rows : x.account = a}
Named(rows, a, id) == {x \in rows : x.account = a /\ x.id = id}
Claimed(rows, a, client) == {x \in rows : x.account = a /\ x.client = client}

LibInit(guests) ==
    /\ schedules = {} /\ collections = {} /\ landed = {}
    /\ work = [w \in Workers |-> Free]
    /\ guest \in guests
    /\ made = Len(guest.schedules)       \* a guest record's id is minted with it

(* Schedules *)
ScheduleRow(a, client, doc, id) ==
    [id |-> id, account |-> a, client |-> client, version |-> 1, doc |-> doc,
     sections |-> SectionsOf(doc)]
\* A document is refused when its term is not held.
CreateSchedule(a) == \E doc \in Documents :
    /\ a \in alive /\ made < MaxMade /\ doc.term \in HeldTerms
    /\ made' = made + 1
    /\ schedules' = schedules \cup {ScheduleRow(a, 0, doc, made + 1)}
    /\ UNCHANGED <<collections, work, guest, landed>>
DeleteSchedule(a) == \E s \in OfAccount(schedules, a) :
    /\ schedules' = schedules \ {s}
    /\ UNCHANGED <<collections, work, made, guest, landed>>
\* save looks the schedule up, then updates it where the version is current.
SaveSchedule(w, a) == \E s \in OfAccount(schedules, a), doc \in Documents, v \in 1 .. MaxVersion :
    /\ work[w] = Free /\ doc.term \in HeldTerms /\ v <= s.version /\ s.version < MaxVersion
    /\ work' = [work EXCEPT ![w] = [pc |-> "save", account |-> a, id |-> s.id, version |-> v, doc |-> doc]]
    /\ UNCHANGED <<schedules, collections, made, guest, landed>>
SavedBodyOnly(s, doc) == [s EXCEPT !.doc = doc, !.version = @ + 1]   \* mutant: sections stay
Saved(s, doc) == [ScheduleRow(s.account, s.client, doc, s.id) EXCEPT !.version = s.version + 1]
Replace(w) ==
    LET q == work[w]
        current == {s \in Named(schedules, q.account, q.id) : s.version = q.version}
    IN  /\ q # Free /\ q.pc = "save"
        /\ schedules' = (schedules \ current)
                         \cup {Saved(s, q.doc) : s \in current}
        /\ work' = [work EXCEPT ![w] = Free]
        /\ UNCHANGED <<collections, made, guest, landed>>

(* Collections: a name is taken once in an account *)
Taken(a, name) == \E c \in OfAccount(collections, a) : c.name = name
CreateCollection(a) == \E name \in Names :
    /\ a \in alive /\ made < MaxMade /\ ~Taken(a, name)
    /\ made' = made + 1
    /\ collections' = collections \cup
          {[id |-> made + 1, account |-> a, client |-> 0, name |-> name, courses |-> {}]}
    /\ UNCHANGED <<schedules, work, guest, landed>>
RenameCollection(a) == \E c \in OfAccount(collections, a), name \in Names :
    /\ ~Taken(a, name)
    /\ collections' = (collections \ {c}) \cup {[c EXCEPT !.name = name]}
    /\ UNCHANGED <<schedules, work, made, guest, landed>>
DeleteCollection(a) == \E c \in OfAccount(collections, a) :
    /\ collections' = collections \ {c}
    /\ UNCHANGED <<schedules, work, made, guest, landed>>
\* add_course and remove_course ask whose the collection is, then write.
CourseRequest(w, a) == \E c \in OfAccount(collections, a), course \in Courses, pc \in {"add", "drop"} :
    /\ work[w] = Free
    /\ work' = [work EXCEPT ![w] = [pc |-> pc, account |-> a, id |-> c.id, course |-> course]]
    /\ UNCHANGED <<schedules, collections, made, guest, landed>>
\* A collection deleted meanwhile takes no row: the foreign key refuses the insert.
WriteCourse(w) ==
    LET q == work[w]
        target == Named(collections, q.account, q.id)
    IN  /\ q # Free /\ q.pc \in {"add", "drop"}
        /\ collections' = (collections \ target) \cup
              {[c EXCEPT !.courses = IF q.pc = "add" THEN c.courses \cup {q.course}
                                     ELSE c.courses \ {q.course}] : c \in target}
        /\ work' = [work EXCEPT ![w] = Free]
        /\ UNCHANGED <<schedules, made, guest, landed>>

(***************************************************************************)
(* The claim: one transaction for the schedules, then one for the           *)
(* collections.  Each record is looked up and named before it is inserted;  *)
(* the inserts of a transaction are kept in "staged" until it commits.      *)
(***************************************************************************)
\* The least suffix from 2 on that is free; one is, among one more than are taken.
FreeName(taken, name) ==
    IF name \notin taken THEN name
    ELSE <<name[1], Min({n \in 2 .. Cardinality(taken) + 2 : <<name[1], n>> \notin taken})>>
\* What the limits and the held terms let through; the rest is named as
\* skipped in the same 200.  (The browser sends one collection at most, so the
\* limit of 12 collections in a claim skips none.)
Lands(i) == /\ i <= MaxClaimSchedules /\ guest.schedules[i].items <= MaxClaimItems
            /\ guest.schedules[i].doc.term \in HeldTerms
CollectionLands == guest.courses # {} /\ Cardinality(guest.courses) <= MaxClaimItems
\* The browser sends what it keeps, its collection under an id minted now; what
\* it keeps stays as it is until it is cleared.
Claim(w, a) ==
    /\ work[w] = Free /\ ~guest.cleared /\ made < MaxMade
    /\ made' = made + 1
    /\ work' = [work EXCEPT ![w] =
          [pc |-> "schedules", account |-> a, next |-> 1, staged |-> {}, client |-> made + 1]]
    /\ UNCHANGED <<schedules, collections, guest, landed>>
Claiming(w, pc) == work[w] # Free /\ work[w].pc = pc
TakenNames(q, term) == {s.doc.name : s \in {t \in OfAccount(schedules, q.account) : t.doc.term = term}}
                       \cup {g.doc.name : g \in {h \in q.staged : h.doc.term = term}}
Renamed(g, name) == [client |-> g.client, doc |-> [term |-> g.doc.term, name |-> name, crns |-> g.doc.crns]]
NameSchedule(w) ==
    LET q == work[w]
        g == guest.schedules[q.next]
        named == Renamed(g, FreeName(TakenNames(q, g.doc.term), g.doc.name))
    IN  /\ Claiming(w, "schedules") /\ q.next <= Len(guest.schedules)
        /\ work' = [work EXCEPT ![w] =
              [pc |-> "schedules", account |-> q.account, next |-> q.next + 1, client |-> q.client,
               staged |-> IF ~Lands(q.next) \/ Claimed(schedules, q.account, g.client) # {}
                          THEN q.staged ELSE q.staged \cup {named}]]
        /\ UNCHANGED <<schedules, collections, made, guest, landed>>
\* The upsert: a row that has come since keeps its document, and the claim
\* still rewrites its section rows.
Kept(s, doc) == [s EXCEPT !.sections = SectionsOf(doc)]
Upsert(q, staged, ids) ==
    LET Old(g) == Claimed(schedules, q.account, g.client)
        new == {g \in staged : Old(g) = {}}
    IN  (schedules \ (UNION {Old(g) : g \in staged}))
        \cup (UNION {{Kept(s, g.doc) : s \in Old(g)} : g \in staged})
        \cup {ScheduleRow(q.account, g.client, g.doc, ids + Cardinality({h \in new : h.client <= g.client})) :
                g \in new}
CommitSchedules(w) ==
    LET q == work[w]
    IN  /\ Claiming(w, "schedules") /\ q.next > Len(guest.schedules)
        /\ q.staged # {} => q.account \in alive
        /\ made + Cardinality(q.staged) <= MaxMade
        /\ made' = made + Cardinality(q.staged)
        /\ schedules' = Upsert(q, q.staged, made)
        /\ landed' = landed \cup {<<q.account, s.client>> :
              s \in {t \in OfAccount(schedules', q.account) : t.client # 0}}
        /\ work' = [work EXCEPT ![w] =
              [pc |-> "collections", account |-> q.account, client |-> q.client]]
        /\ UNCHANGED <<collections, guest>>
NameCollection(w) ==
    LET q == work[w]
    IN  /\ Claiming(w, "collections")
        /\ work' = [work EXCEPT ![w] =
              IF ~CollectionLands \/ Claimed(collections, q.account, q.client) # {}
              THEN [pc |-> "answer", account |-> q.account]
              ELSE [pc |-> "collection", account |-> q.account, client |-> q.client,
                    name |-> FreeName({c.name : c \in OfAccount(collections, q.account)}, Favorites)]]
        /\ UNCHANGED <<schedules, collections, made, guest, landed>>
\* A name taken meanwhile, or an account deleted, fails the whole transaction.
AnsweredAll(q) == [pc |-> "answer", account |-> q.account]     \* mutant: the failure is not told
Failed(q) == Free
CommitCollections(w) ==
    LET q == work[w]
    IN  /\ Claiming(w, "collection")
        /\ IF q.account \notin alive \/ Taken(q.account, q.name)
           THEN UNCHANGED <<collections, landed>> /\ work' = [work EXCEPT ![w] = Failed(q)]
           ELSE /\ collections' = collections \cup
                      {[id |-> q.client, account |-> q.account, client |-> q.client,
                        name |-> q.name, courses |-> guest.courses]}
                /\ landed' = landed \cup {<<q.account, 0>>}
                /\ work' = [work EXCEPT ![w] = [pc |-> "answer", account |-> q.account]]
        /\ UNCHANGED <<schedules, made, guest>>
\* Only a 200 clears the browser's store; Abandon loses it and keeps the store.
Answered(w) == /\ Claiming(w, "answer")
               /\ guest' = [guest EXCEPT !.cleared = TRUE]
               /\ work' = [work EXCEPT ![w] = Free]
               /\ UNCHANGED <<schedules, collections, made, landed>>
\* The client goes away, or a statement fails: staged writes are gone.
Abandon(w) == /\ work[w] # Free
              /\ work' = [work EXCEPT ![w] = Free]
              /\ UNCHANGED <<schedules, collections, made, guest, landed>>

Ask(w, a) == \/ SaveSchedule(w, a) \/ CourseRequest(w, a) \/ Claim(w, a)
             \/ CreateSchedule(a) \/ DeleteSchedule(a)
             \/ CreateCollection(a) \/ RenameCollection(a) \/ DeleteCollection(a)
Proceed(w) == \/ Replace(w) \/ WriteCourse(w)
              \/ NameSchedule(w) \/ CommitSchedules(w) \/ NameCollection(w) \/ CommitCollections(w)
              \/ Answered(w) \/ Abandon(w)
-----------------------------------------------------------------------------
(***************************************************************************)
(* Properties.                                                             *)
(***************************************************************************)
LibTypeOK ==
    /\ \A s \in schedules : /\ s.id \in Ids /\ s.client \in 0 .. MaxMade
                             /\ s.version \in 1 .. MaxVersion /\ s.doc.term \in HeldTerms
                             /\ s.sections \subseteq HeldSections
    /\ \A c \in collections : c.id \in Ids /\ c.courses \subseteq Courses
    /\ \A rows \in {schedules, collections} : \A x, y \in rows :
          /\ x.id = y.id => x = y
          /\ x.account = y.account /\ x.client = y.client /\ x.client # 0 => x = y
          /\ x.account \in alive
    /\ \A x, y \in collections : x.account = y.account /\ x.name = y.name => x = y

\* The browser's store is cleared only when all that the claim's limits and the
\* held terms let through has been in one account: its two transactions, its
\* retries and the requests beside it lose none of that.  What they do not let
\* through is named in the answer (routes/account.rs, claim) and cleared with
\* the rest (api.ts, claimGuestData), so it is kept nowhere.
Wanted == {guest.schedules[i].client : i \in {j \in DOMAIN guest.schedules : Lands(j)}}
          \cup (IF CollectionLands THEN {0} ELSE {})
ClaimIsComplete == guest.cleared /\ Wanted # {} => \E x \in landed : {x[1]} \X Wanted \subseteq landed

\* A schedule's document and version change together, with its section rows,
\* and by a save of the version it has only.  Its section rows change alone
\* only where a claim meets a row that came after it looked: the upsert keeps
\* that row's document, edited or not, and rewrites its section rows to the
\* guest's (schedules.rs, claim_schedules; the doc of write_schedule_sections
\* says they are the document's).
BySave(s, t) == \E w \in Workers : /\ work[w] # Free /\ work[w].pc = "save"
    /\ work[w].id = s.id /\ work[w].version = s.version /\ work[w].doc = t.doc
ByClaim(s, t) == \E w \in Workers : /\ Claiming(w, "schedules") /\ work[w].account = s.account
    /\ \E g \in work[w].staged : g.client = s.client /\ t.sections = SectionsOf(g.doc)
WritesWhole == \A s \in schedules, t \in schedules' : s.id = t.id =>
    /\ <<s.doc, s.version>> # <<t.doc, t.version>> =>
          t.version = s.version + 1 /\ t.sections = SectionsOf(t.doc) /\ BySave(s, t)
    /\ s.sections # t.sections => t.version = s.version + 1 \/ ByClaim(s, t)
ReplacedWhole == [][WritesWhole]_schedules
=============================================================================
