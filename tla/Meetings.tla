------------------------------ MODULE Meetings ------------------------------
(***************************************************************************)
(* When a section meets: what the listing and the section feed say of it,   *)
(* the rows the store keeps, and the clashes a schedule shows.  Rice's text *)
(* of a meeting is its day letters, two clock times and, in the feed only,  *)
(* two dates; a time or dates that cannot be read are Unknown.  Minutes and *)
(* dates are numbers.                                                       *)
(***************************************************************************)
EXTENDS Naturals, SequencesExt, Orders

CONSTANT Unknown

Letters == {"M", "T", "W", "R", "F", "S", "U"}
Times == [days : SUBSET Letters, start : Nat, end : Nat]
Spans == Nat \X Nat
DaySet(letters) == IF letters \subseteq Letters THEN letters ELSE Unknown
Readable(text) == DaySet(text.days) \notin {Unknown, {}} /\ text.from < text.to
MeetingTime(text) == IF Readable(text) THEN [days |-> text.days, start |-> text.from, end |-> text.to] ELSE Unknown
ListedMeetings(texts) ==
    LET shown == Chosen(texts, {n \in DOMAIN texts : texts[n].days # {} \/ texts[n].to # 0})   \* a blank line is no meeting
    IN  [n \in DOMAIN shown |-> [time |-> MeetingTime(shown[n]), dates |-> Unknown]]
FeedMeetings(texts) == [n \in DOMAIN texts |-> [time |-> MeetingTime(texts[n]), dates |-> texts[n].dates]]

(* The columns a new row is matched on; all unread meetings look alike. *)
Slot(meeting) == meeting.time
WriteClassMeetings(old, meetings, keepDates) ==
    LET existing == IF keepDates THEN old ELSE <<>>
        same(m) == {n \in DOMAIN existing : Slot(existing[n]) = Slot(m)}
    IN  [n \in DOMAIN meetings |->
            IF meetings[n].dates = Unknown /\ same(meetings[n]) # {}
            THEN [meetings[n] EXCEPT !.dates = existing[Min(same(meetings[n]))].dates]
            ELSE meetings[n]]
-----------------------------------------------------------------------------
Overlaps(a, b) == a.days \cap b.days # {} /\ a.start < b.end /\ b.start < a.end
SpansTouch(x, y) == x[1] < y[2] /\ y[1] < x[2]             \* mutant: the last day is left out
SpansOverlap(x, y) == x[1] <= y[2] /\ y[1] <= x[2]
ConflictsWith(a, b) == /\ a.time # Unknown /\ b.time # Unknown
                       /\ Overlaps(a.time, b.time)
                       /\ a.dates = Unknown \/ b.dates = Unknown \/ SpansOverlap(a.dates, b.dates)
(* A scheduled meeting: owner, meeting, part of term. *)
ConflictDays(a, b) ==
    LET apart == /\ a.meeting.dates = Unknown \/ b.meeting.dates = Unknown
                 /\ a.part # Unknown /\ b.part # Unknown /\ a.part # b.part
    IN  IF ~apart /\ ConflictsWith(a.meeting, b.meeting)
        THEN a.meeting.time.days \cap b.meeting.time.days ELSE {}
FindConflicts(meetings) ==
    {conflict \in {[a |-> meetings[p[1]].owner, b |-> meetings[p[2]].owner,
                    days |-> ConflictDays(meetings[p[1]], meetings[p[2]])] :
                   p \in {q \in (DOMAIN meetings) \X (DOMAIN meetings) : q[1] < q[2]}} :
        conflict.a # conflict.b /\ conflict.days # {}}
=============================================================================
