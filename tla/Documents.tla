----------------------------- MODULE Documents -----------------------------
(***************************************************************************)
(* The documents that fill a section's row.  The nightly listing gives its  *)
(* part of term by label and its meetings without dates; the weekly feed of *)
(* a CRN lists the sections associated with it, perhaps not itself, with    *)
(* the part by code and the meetings with dates; the weekly detail page     *)
(* gives reserved seats and fees.  A weekly run asks for the CRNs whose     *)
(* copy is missing or stale and merges a document section by section; a     *)
(* replay merges again what the last good runs fetched.  The three jobs     *)
(* and the replay hold different locks.                                     *)
(***************************************************************************)
EXTENDS Meetings, Fetching

CONSTANTS Crns,         \* numbers, in the order of sections.id
          Associated,   \* the sections the feed of a CRN lists
          Terms,        \* [first, later]: two states of Rice's timetable: [session, texts] by CRN
          StaleAfter,
          DocBudgets    \* bounds: [kinds, listings, runs, replays, faults, days, changes]
ASSUME DocumentsAssumption == Crns \subseteq Nat /\ IsFiniteSet(Crns)
(* What Rice may print of a section; its dates may run backwards.          *)
Texts == [days : SUBSET STRING, from : Nat, to : Nat, dates : {Unknown} \cup Spans]
Classes == [session : STRING, texts : Seq(Texts)]
TimetableOK ==
    /\ Unknown \notin Times /\ Unknown \notin Classes
    /\ \A c \in Crns : Associated[c] \in Seq(Crns)
    /\ \A pair \in Terms, c \in Crns : pair.first[c] \in Classes /\ pair.later[c] \in Classes
ASSUME TimetableAssumption == TimetableOK

VARIABLES term, timetable,      \* what Rice says, and its two states
          today,
          section,      \* sections and meetings, of the CRNs held: [part, meetings, stamps]
          listing,      \* the listing a run has in hand
          weekly,       \* the runs for feed and detail
          archive,      \* by kind and CRN: the document of the last good run
          replaying,    \* what a replay has still to merge: [kind, rows]
          source,       \* history: by section, the timetable entry its slots and its dates are from
          rewound,      \* history: sections whose detail a replay wrote since a run began
          left          \* bound
docVars == <<term, timetable, today, section, listing, weekly, archive, replaying, source, rewound, left>>

Kinds == {"xml", "detail"}
Never == 0
NoListing == [c \in {} |-> Unknown]
NoReplay == [kind |-> "xml", rows |-> <<>>]
NoRun == [pc |-> "idle", todo |-> <<>>, rows |-> <<>>, outages |-> 0, began |-> 0,
          targets |-> {}, missed |-> {}, docs |-> [c \in {} |-> <<>>]]
DocumentsInit ==
    /\ term \in Terms /\ timetable = term.first /\ today = 1
    /\ section = [c \in {} |-> Unknown]
    /\ listing = NoListing /\ weekly = [k \in Kinds |-> NoRun]
    /\ archive = [k \in Kinds |-> [c \in {} |-> <<>>]] /\ replaying = NoReplay
    /\ source = [c \in Crns |-> [slots |-> Unknown, dates |-> Unknown]] /\ rewound = {}
    /\ left \in DocBudgets
sectionRows == <<section, source>>
work == <<listing, weekly, archive, replaying, rewound>>
printed == <<term, timetable, today>>
Takes(part) == left[part] > 0 /\ left' = [left EXCEPT ![part] = @ - 1]
-----------------------------------------------------------------------------
TimetableChanges == /\ Takes("changes") /\ timetable' = term.later
                    /\ UNCHANGED <<term, today, sectionRows, work>>
DayPasses == Takes("days") /\ today' = today + 1 /\ UNCHANGED <<term, timetable, sectionRows, work>>

(* A row whose CRN, code or credits cannot be read is left out of a page or *)
(* a feed.                                                                  *)
FetchListing == /\ listing = NoListing /\ left.listings > 0
                /\ \E kept \in (SUBSET Crns) \ {{}} :
                      /\ listing' = [c \in kept |-> timetable[c]]
                      /\ kept # Crns => left.faults > 0
                      /\ left' = [left EXCEPT !.listings = @ - 1, !.faults = IF kept = Crns THEN @ ELSE @ - 1]
                /\ UNCHANGED <<printed, sectionRows, weekly, archive, replaying, rewound>>
(* upsert_listing of each row, in one transaction. *)
NewSection == [part |-> Unknown, meetings |-> <<>>, stamps |-> [k \in Kinds |-> Never]]
FromListing(held, entry) ==
    [held EXCEPT !.part = <<"label", entry.session>>,
                 !.meetings = WriteClassMeetings(@, ListedMeetings(entry.texts), TRUE)]
UpsertListing(c, entry) == FromListing(IF c \in DOMAIN section THEN section[c] ELSE NewSection, entry)
WriteListing == /\ listing # NoListing
                /\ section' = [c \in DOMAIN section \cup DOMAIN listing |->
                                  IF c \in DOMAIN listing THEN UpsertListing(c, listing[c]) ELSE section[c]]
                /\ source' = [c \in Crns |-> IF c \in DOMAIN listing THEN [source[c] EXCEPT !.slots = listing[c]] ELSE source[c]]
                /\ listing' = NoListing
                /\ UNCHANGED <<printed, weekly, archive, replaying, rewound, left>>
-----------------------------------------------------------------------------
Due(kind) == {c \in DOMAIN section : \/ section[c].stamps[kind] = Never
                                      \/ section[c].stamps[kind] < today - StaleAfter}
Before(kind, c, d) == \/ section[c].stamps[kind] < section[d].stamps[kind]
                      \/ section[c].stamps[kind] = section[d].stamps[kind] /\ c < d
CrnsDue(kind) ==           \* in order: the never fetched first, then the oldest
    {todo \in [1..Cardinality(Due(kind)) -> Due(kind)] :
        /\ ToSet(todo) = Due(kind)
        /\ \A m, n \in DOMAIN todo : m < n => Before(kind, todo[m], todo[n])}
BeginWeekly(kind) ==
    /\ weekly[kind].pc = "idle" /\ kind \in left.kinds /\ Takes("runs")
    /\ \E todo \in CrnsDue(kind) :
         weekly' = [weekly EXCEPT ![kind] = [NoRun EXCEPT !.pc = "asking", !.began = today,
                                                          !.todo = todo, !.targets = ToSet(todo)]]
    /\ rewound' = IF kind = "detail" THEN {} ELSE rewound
    /\ UNCHANGED <<printed, sectionRows, listing, archive, replaying>>

(* The rows of a document.  The feed may come without its times. *)
XmlRow(c, partial) == [crn |-> c, code |-> timetable[c].session, entry |-> timetable[c],
                       meetings |-> IF partial THEN <<>> ELSE FeedMeetings(timetable[c].texts)]
Document(kind, c, kept, partial) ==
    IF kind = "detail" THEN <<[crn |-> c, fetched |-> today]>>
    ELSE LET listed == Chosen(Associated[c], {n \in DOMAIN Associated[c] : Associated[c][n] \in kept})
         IN  [n \in DOMAIN listed |-> XmlRow(listed[n], partial)]
Over(newer, docs) == [c \in DOMAIN newer \cup DOMAIN docs |-> IF c \in DOMAIN newer THEN newer[c] ELSE docs[c]]
Asking(kind) == weekly[kind].pc = "asking" /\ weekly[kind].todo # <<>>
Received(kind, c, doc) ==
    LET run == weekly[kind]
    IN  weekly' = [weekly EXCEPT ![kind] = [run EXCEPT !.pc = "merging", !.rows = doc, !.outages = 0,
                                                       !.docs = Over([d \in {c} |-> doc], @)]]
Answered(kind) ==          \* a document; it is archived when the run ends well
    /\ Asking(kind)
    /\ LET c == Head(weekly[kind].todo)
       IN  \E partial \in IF kind = "xml" THEN BOOLEAN ELSE {FALSE},
              kept \in IF kind = "xml" THEN SUBSET ToSet(Associated[c]) ELSE {{}} :
              /\ Received(kind, c, Document(kind, c, kept, partial))
              /\ IF kind = "detail" \/ (~partial /\ kept = ToSet(Associated[c])) THEN UNCHANGED left ELSE Takes("faults")
    /\ UNCHANGED <<printed, sectionRows, listing, archive, replaying, rewound>>
Fail(kind) == weekly' = [weekly EXCEPT ![kind] = NoRun]
(* No document: the CRN is passed over, unless Rice is down. *)
Unanswered(kind, result) ==
    LET run == weekly[kind]
        outages == CountFetch(run.outages, result)
    IN  /\ Asking(kind) /\ result # "body" /\ Takes("faults")
        /\ IF Down(outages) THEN Fail(kind)
           ELSE weekly' = [weekly EXCEPT ![kind] = [run EXCEPT !.todo = Tail(@), !.outages = outages,
                                                               !.missed = @ \cup {Head(run.todo)}]]
        /\ UNCHANGED <<printed, sectionRows, listing, archive, replaying, rewound>>
(* A document that does not parse, a refused write or a stop ends the run. *)
FailWeekly(kind) == /\ weekly[kind].pc # "idle" /\ Takes("faults") /\ Fail(kind)
                    /\ UNCHANGED <<printed, sectionRows, listing, archive, replaying, rewound>>

(* upsert_section_xml: one transaction; a CRN the store does not hold is    *)
(* passed over, and a row without meetings leaves the held ones alone.      *)
FromFeed(held, row) ==
    [held EXCEPT !.part = <<"code", row.code>>, !.stamps["xml"] = today,
                 !.meetings = IF row.meetings = <<>> THEN @ ELSE WriteClassMeetings(@, row.meetings, FALSE)]
UpsertSectionXml(row) ==
    IF row.crn \notin DOMAIN section THEN UNCHANGED sectionRows
    ELSE /\ section' = [section EXCEPT ![row.crn] = FromFeed(@, row)]
         /\ source' = IF row.meetings = <<>> THEN source
                      ELSE [source EXCEPT ![row.crn] = [slots |-> row.entry, dates |-> row.entry]]
FromDetail(held, row) == [held EXCEPT !.stamps["detail"] = row.fetched]
UpsertSectionDetail(row) ==
    /\ section' = IF row.crn \notin DOMAIN section THEN section
                  ELSE [section EXCEPT ![row.crn] = FromDetail(@, row)]
    /\ UNCHANGED source
Merge(kind, row) == IF kind = "xml" THEN UpsertSectionXml(row) ELSE UpsertSectionDetail(row)
MergeRow(kind) ==
    /\ weekly[kind].pc = "merging" /\ weekly[kind].rows # <<>>
    /\ Merge(kind, Head(weekly[kind].rows))
    /\ LET run == weekly[kind] IN weekly' = [weekly EXCEPT ![kind] = [run EXCEPT !.rows = Tail(@)]]
    /\ UNCHANGED <<printed, listing, archive, replaying, rewound, left>>
(* mark_xml_fetched, when the document's rows are in. *)
LeaveDue(kind, c) == UNCHANGED section                      \* mutant: the feed stamps what it lists
StampedXml(held) == [held EXCEPT !.stamps["xml"] = today]
MarkFetched(kind, c) ==
    section' = IF kind = "xml" /\ c \in DOMAIN section THEN [section EXCEPT ![c] = StampedXml(@)] ELSE section
NextCrn(kind) ==
    /\ weekly[kind].pc = "merging" /\ weekly[kind].rows = <<>>
    /\ MarkFetched(kind, Head(weekly[kind].todo))
    /\ LET run == weekly[kind]
       IN  weekly' = [weekly EXCEPT ![kind] = [run EXCEPT !.pc = "asking", !.todo = Tail(@)]]
    /\ UNCHANGED <<printed, source, listing, archive, replaying, rewound, left>>
EndWeekly(kind) ==
    /\ weekly[kind].pc = "asking" /\ weekly[kind].todo = <<>>
    /\ archive' = [archive EXCEPT ![kind] = Over(weekly[kind].docs, @)]
    /\ weekly' = [weekly EXCEPT ![kind] = NoRun]
    /\ UNCHANGED <<printed, sectionRows, listing, replaying, rewound, left>>

(* replay_section_xml and replay_detail, of the documents there were when   *)
(* the replay began; it stamps no CRN that its feed does not list.          *)
BeginReplay(kind) ==
    /\ replaying.rows = <<>> /\ DOMAIN archive[kind] # {} /\ Takes("replays")
    /\ LET crns == Ascending(DOMAIN archive[kind])
       IN  replaying' = [kind |-> kind, rows |-> FlattenSeq([n \in DOMAIN crns |-> archive[kind][crns[n]]])]
    /\ UNCHANGED <<printed, sectionRows, listing, weekly, archive, rewound>>
ReplayRow ==
    /\ replaying.rows # <<>>
    /\ Merge(replaying.kind, Head(replaying.rows))
    /\ rewound' = IF replaying.kind = "detail" THEN rewound \cup {Head(replaying.rows).crn} ELSE rewound
    /\ replaying' = [replaying EXCEPT !.rows = Tail(@)]
    /\ UNCHANGED <<printed, listing, weekly, archive, left>>
DocumentsStep ==
    \/ TimetableChanges \/ DayPasses \/ FetchListing \/ WriteListing \/ ReplayRow
    \/ \E kind \in Kinds : \/ BeginWeekly(kind) \/ Answered(kind) \/ FailWeekly(kind) \/ MergeRow(kind)
                           \/ \E result \in Live : Unanswered(kind, result)
                           \/ NextCrn(kind) \/ EndWeekly(kind) \/ BeginReplay(kind)
-----------------------------------------------------------------------------
DocumentsTypeOK ==
    /\ today \in Nat
    /\ \A c \in DOMAIN section : c \in Crns /\ \A k \in Kinds : section[c].stamps[k] \in 0..today
    /\ \A k \in Kinds : weekly[k].pc \in {"idle", "asking", "merging"}

(* The clashes a student is shown.  Take two sections whose slots are those *)
(* Rice prints now and whose dates, where there are any, are too.  Two      *)
(* meetings that really clash are told when both have dates, or when the    *)
(* parts of term the store holds are equal: both written by listings as one *)
(* label, or both by feeds as one code.  What is told is a clash unless     *)
(* dates are missing or Rice printed them backwards.  It must hold whatever *)
(* listings, whole and partial feeds and replays went before, and in        *)
(* whatever order.  It says nothing of a label beside a code: SessionsDecide*)
(* is about those.                                                          *)
Settled(c) == /\ c \in DOMAIN section /\ source[c].slots = timetable[c]
              /\ source[c].dates \in {Unknown, timetable[c]}
              /\ \A m, n \in DOMAIN timetable[c].texts :     \* no slot with two spans of dates
                    [timetable[c].texts[m] EXCEPT !.dates = Unknown] = [timetable[c].texts[n] EXCEPT !.dates = Unknown]
                    => m = n
Scheduled(c) == [n \in DOMAIN section[c].meetings |->
                    [owner |-> c, meeting |-> section[c].meetings[n], part |-> section[c].part]]
Told(c, d) == FindConflicts(Scheduled(c) \o Scheduled(d)) # {}
Clash(s, t) == /\ Readable(s) /\ Readable(t)
               /\ \E day \in s.days \cap t.days, minute \in s.from..(s.to - 1) : minute \in t.from..(t.to - 1)
               /\ s.dates # Unknown /\ t.dates # Unknown => (s.dates[1]..s.dates[2]) \cap (t.dates[1]..t.dates[2]) # {}
Dated(c) == \A n \in DOMAIN section[c].meetings : section[c].meetings[n].dates # Unknown
Spanned(c) == Dated(c) /\ \A n \in DOMAIN section[c].meetings : section[c].meetings[n].dates[1] <= section[c].meetings[n].dates[2]
Clashing(c, d) == \E s \in ToSet(timetable[c].texts), t \in ToSet(timetable[d].texts) : Clash(s, t)
ConflictsAreTold ==
    /\ DocumentsTypeOK
    /\ \A c, d \in Crns :
        c < d /\ Settled(c) /\ Settled(d) =>
            LET clash == Clashing(c, d)
            IN  /\ clash /\ ((Dated(c) /\ Dated(d)) \/ section[c].part = section[d].part) => Told(c, d)
                /\ Told(c, d) /\ Spanned(c) /\ Spanned(d) => clash

(* Two sections of one session meet on the same dates, so their times alone *)
(* decide: a clash of theirs is told (schedule.rs, ScheduledMeeting).  The  *)
(* store compares what the documents wrote, and a listing writes a session  *)
(* by its label, a feed by its code.                                        *)
SessionsDecide ==
    \A c, d \in Crns : c < d /\ Settled(c) /\ Settled(d)
                           /\ timetable[c].session = timetable[d].session /\ Clashing(c, d) => Told(c, d)

(* A weekly run serves every section that was due when it began: what it    *)
(* has asked for and got is not due again until the copy is stale, also     *)
(* when the feed of a CRN leaves out the CRN itself.  (A replay that writes *)
(* an older detail page over a newer one makes the section due again.)      *)
DueSectionsAreServed ==
    \A kind \in Kinds :
        LET run == weekly[kind]
        IN  \A c \in run.targets \ (run.missed \cup ToSet(run.todo)) :
                section[c].stamps[kind] >= run.began \/ (kind = "detail" /\ c \in rewound)
=============================================================================
