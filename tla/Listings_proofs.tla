---------------------------- MODULE Listings_proofs ----------------------------
(***************************************************************************)
(* Proofs about Listings, for every set of subjects, every finite set of   *)
(* crns and every weight: the inductive invariant, and that no interleaving *)
(* of runs, replays and clients breaks the rules about live sections.      *)
(***************************************************************************)
EXTENDS Listings, FiniteSetTheorems, TLAPS

Writing == run.stage \in {"upsert", "withdraw"}

(* A page that a replay may write: its sections exist, and each is live or *)
(* was withdrawn after the page was fetched.                               *)
Replayable(page) ==
  /\ page.at \in 1..now
  /\ \A c \in page.crns : rows[c].at # 0 /\ (IsLive(c) \/ rows[c].withdrawn >= page.at)

(* Nothing was withdrawn in the future.                                    *)
Times ==
  /\ \A c \in Crns : rows[c].withdrawn <= now
  /\ run.stage # "idle" => now >= 1

PagesFit ==
  \A s \in Subjects : run.pages[s] # None =>
    /\ run.pages[s].crns \subseteq CrnsOf(s)
    /\ run.pages[s].at \in 1..now
    /\ run.pages[s].kind = "form" => run.pages[s].crns = {}

(* While pages are fetched, a subject with live sections had some when the *)
(* run began, and only a subject that had none may have an empty page.     *)
Guarded ==
  run.stage = "fetch" =>
    \A s \in Subjects :
      /\ LiveOf(s) # {} => run.previous[s] > 0
      /\ ~run.quarantine /\ Parsed(s) /\ run.pages[s].crns = {} => run.previous[s] = 0

(* A subject still to be written has a parsed page, was not withdrawn from *)
(* in this run, and does not lose all its live sections.                   *)
ToWrite ==
  Writing =>
    \A s \in run.todo :
      /\ Parsed(s)
      /\ \A c \in CrnsOf(s) : rows[c].withdrawn < now
      /\ LiveOf(s) # {} => run.pages[s].crns # {}

(* A subject that has been written could be replayed from its page.        *)
Written ==
  Writing => \A s \in Subjects \ run.todo : Parsed(s) => Replayable(run.pages[s])

HalfWritten ==
  run.stage = "withdraw" =>
    /\ run.subject \in run.todo
    /\ run.pages[run.subject].crns \subseteq LiveOf(run.subject)

GoodPages ==
  /\ \A s \in Subjects : newest[s] # None => Replayable(newest[s])
  /\ \A page \in replay.pages : Replayable(page)

IInv ==
  /\ TypeOK /\ Times /\ PagesFit /\ Guarded /\ ToWrite /\ Written /\ HalfWritten
  /\ GoodPages /\ LiveIsLastWritten /\ TagTellsTruth

-----------------------------------------------------------------------------
(* Counting sections.                                                      *)

LEMMA CountIsPositive ==
  ASSUME NEW crns \in SUBSET Crns
  PROVE  Count(crns) \in Nat /\ (Count(crns) = 0 <=> crns = {})
<1>1. IsFiniteSet(crns \X (1..MaxWeight))
  <2>1. IsFiniteSet(crns)
    BY FS_Subset, ListingsAssumption
  <2>2. IsFiniteSet(1..MaxWeight)
    BY FS_Interval, ListingsAssumption
  <2>3. QED
    BY <2>1, <2>2, FS_Product
<1>2. IsFiniteSet(Sections(crns))
  BY <1>1, FS_Subset DEF Sections
<1>3. Count(crns) \in Nat /\ (Count(crns) = 0 <=> Sections(crns) = {})
  BY <1>2, FS_CardinalityType, FS_EmptySet DEF Count
<1>4. ASSUME NEW c \in crns PROVE Sections(crns) # {}
  <2>1. 1 \in 1..MaxWeight /\ 1 <= Weight[c]
    BY ListingsAssumption
  <2>2. <<c, 1>> \in Sections(crns)
    BY <2>1 DEF Sections
  <2>3. QED
    BY <2>2
<1>5. crns = {} => Sections(crns) = {}
  BY DEF Sections
<1>6. QED
  BY <1>3, <1>4, <1>5

-----------------------------------------------------------------------------
(* Writing rows.                                                           *)

(* After a page is written its sections exist; one is live if it was not   *)
(* withdrawn at or after the time given, and keeps its withdrawal if so.   *)
LEMMA UpsertedRows ==
  ASSUME TypeOK, NEW crns \in SUBSET Crns, NEW at \in Nat \ {0},
         NEW fetched \in Nat \ {0}, rows' = UpsertListing(crns, at, fetched)
  PROVE  /\ rows' \in [Crns -> Row]
         /\ \A c \in Crns \ crns : rows'[c] = rows[c]
         /\ \A c \in crns :
              /\ rows'[c].at = at
              /\ rows'[c].withdrawn = IF rows[c].withdrawn < fetched THEN 0
                                      ELSE rows[c].withdrawn
              /\ IsLive(c)' <=> rows[c].withdrawn < fetched
<1>1. \A c \in Crns : rows[c] \in Row /\ rows[c].withdrawn \in Nat /\ rows[c].at \in Nat
  BY DEF TypeOK, Row
<1>2. \A c \in crns :
        rows'[c] = [at |-> at,
                    withdrawn |-> IF rows[c].withdrawn < fetched THEN 0
                                  ELSE rows[c].withdrawn]
  BY DEF UpsertListing
<1>3. \A c \in Crns \ crns : rows'[c] = rows[c]
  BY DEF UpsertListing
<1>4. rows' \in [Crns -> Row]
  BY <1>1 DEF UpsertListing, Row
<1>5. ASSUME NEW c \in crns
      PROVE  /\ rows'[c].at = at
             /\ rows'[c].withdrawn = IF rows[c].withdrawn < fetched THEN 0
                                     ELSE rows[c].withdrawn
             /\ IsLive(c)' <=> rows[c].withdrawn < fetched
  <2>1. /\ rows'[c].at = at
        /\ rows'[c].withdrawn = IF rows[c].withdrawn < fetched THEN 0
                                ELSE rows[c].withdrawn
    <3>1. CASE rows[c].withdrawn < fetched
      <4>1. rows'[c] = [at |-> at, withdrawn |-> 0]
        BY <1>2, <3>1
      <4>2. QED
        BY <3>1, <4>1
    <3>2. CASE ~(rows[c].withdrawn < fetched)
      <4>1. rows'[c] = [at |-> at, withdrawn |-> rows[c].withdrawn]
        BY <1>2, <3>2
      <4>2. QED
        BY <3>2, <4>1
    <3>3. QED
      BY <3>1, <3>2
  <2>2. rows[c].withdrawn \in Nat
    BY <1>1
  <2>3. IsLive(c)' <=> rows[c].withdrawn < fetched
    BY <2>1, <2>2 DEF IsLive
  <2>4. QED
    BY <2>1, <2>3
<1>6. QED
  BY <1>3, <1>4, <1>5

(* Writing a replayable page at its own time changes no liveness and keeps *)
(* every withdrawal.                                                       *)
LEMMA ReplayedRows ==
  ASSUME IInv, NEW page \in Page, Replayable(page),
         rows' = UpsertListing(page.crns, page.at, page.at)
  PROVE  /\ rows' \in [Crns -> Row]
         /\ \A c \in Crns : /\ IsLive(c)' <=> IsLive(c)
                            /\ rows'[c].withdrawn = rows[c].withdrawn
                            /\ rows[c].at # 0 => rows'[c].at # 0
<1>1. page.crns \in SUBSET Crns /\ page.at \in Nat \ {0}
  BY DEF Page, Replayable
<1>2. \A c \in Crns : rows[c].withdrawn \in Nat /\ rows[c].at \in Nat
  BY DEF IInv, TypeOK, Row
<1>3. /\ rows' \in [Crns -> Row]
      /\ \A c \in Crns \ page.crns : rows'[c] = rows[c]
      /\ \A c \in page.crns :
           /\ rows'[c].at = page.at
           /\ rows'[c].withdrawn = IF rows[c].withdrawn < page.at THEN 0
                                   ELSE rows[c].withdrawn
  BY <1>1, UpsertedRows DEF IInv
<1>4. ASSUME NEW c \in page.crns
      PROVE  /\ IsLive(c)' <=> IsLive(c)
             /\ rows'[c].withdrawn = rows[c].withdrawn
             /\ rows'[c].at # 0
  <2>1. rows[c].at # 0 /\ (rows[c].withdrawn = 0 \/ rows[c].withdrawn >= page.at)
    BY DEF Replayable, IsLive
  <2>2. rows'[c].withdrawn = rows[c].withdrawn /\ rows'[c].at # 0
    BY <1>1, <1>2, <1>3, <2>1
  <2>3. QED
    BY <2>1, <2>2 DEF IsLive
<1>5. QED
  BY <1>3, <1>4 DEF IsLive

(* A page stays replayable while time goes on, sections keep existing and  *)
(* a withdrawal is never replaced by an earlier one.                       *)
LEMMA StaysReplayable ==
  ASSUME NEW page, page.crns \subseteq Crns, Replayable(page),
         now \in Nat, now' \in Nat, now <= now',
         \A c \in page.crns :
           /\ rows'[c].at # 0
           /\ IsLive(c)' \/ rows'[c].withdrawn >= page.at
  PROVE  Replayable(page)'
BY DEF Replayable

-----------------------------------------------------------------------------
LEMMA Initially == Init => IInv
<1> SUFFICES ASSUME Init PROVE IInv
  OBVIOUS
<1> USE DEF Init
<1>1. TypeOK
  <2>1. rows \in [Crns -> Row] /\ newest \in [Subjects -> Page \cup {None}]
    BY DEF Row
  <2>2. run \in Run
    BY DEF Run, RunStages, NoRun
  <2>3. replay \in Replay /\ client.stage = "none" /\ client.tag \in 0..version
    BY DEF Replay
  <2>4. started.runs \in 0..MaxRuns /\ started.replays \in 0..MaxReplays
    BY ListingsAssumption
  <2>5. written \in [Subjects -> (SUBSET Crns) \cup {None}]
    OBVIOUS
  <2>6. QED
    BY <2>1, <2>2, <2>3, <2>4, <2>5 DEF TypeOK
<1>2. Times /\ PagesFit /\ Guarded /\ ToWrite /\ Written /\ HalfWritten /\ GoodPages
  BY DEF Times, PagesFit, Guarded, ToWrite, Written, HalfWritten, GoodPages, NoRun, Writing
<1>3. LiveIsLastWritten /\ TagTellsTruth
  BY DEF LiveIsLastWritten, TagTellsTruth, LiveOf, IsLive, CrnsOf
<1>4. QED
  BY <1>1, <1>2, <1>3 DEF IInv

-----------------------------------------------------------------------------
(* Steps that write no row.                                                *)

LEMMA SameRows ==
  ASSUME rows' = rows
  PROVE  /\ \A c : IsLive(c)' <=> IsLive(c)
         /\ \A s : LiveOf(s)' = LiveOf(s)
         /\ LiveRows' = LiveRows
<1>1. \A c : IsLive(c)' <=> IsLive(c)
  BY DEF IsLive
<1>2. \A s : LiveOf(s)' = LiveOf(s)
  BY <1>1 DEF LiveOf, CrnsOf
<1>3. LiveRows' = LiveRows
  BY DEF LiveRows, IsLive
<1>4. QED
  BY <1>1, <1>2, <1>3

LEMMA SameRowsReplayable ==
  ASSUME IInv, rows' = rows, now' \in Nat, now <= now', NEW page, Replayable(page)
  PROVE  Replayable(page)'
<1>1. \A c : IsLive(c)' <=> IsLive(c)
  BY SameRows
<1>2. now \in Nat
  BY DEF IInv, TypeOK
<1>3. QED
  BY <1>1, <1>2 DEF Replayable

LEMMA BeginStep == IInv /\ Begin => IInv'
<1> SUFFICES ASSUME IInv, Begin PROVE IInv'
  OBVIOUS
<1> USE DEF Begin, store
<1>1. PICK listed \in SUBSET Subjects :
        run' = [NoRun EXCEPT
                  !.stage = "fetch", !.todo = listed,
                  !.previous = [s \in Subjects |-> Count(LiveOf(s))]]
  OBVIOUS
<1>2. /\ run'.stage = "fetch" /\ run'.todo = listed /\ run'.quarantine = FALSE
      /\ run'.previous = [s \in Subjects |-> Count(LiveOf(s))]
      /\ run'.pages = [s \in Subjects |-> None] /\ run'.subject = None
  BY <1>1 DEF NoRun
<1>3. \A s : LiveOf(s) \in SUBSET Crns
  BY DEF LiveOf, CrnsOf
<1>4. now \in Nat /\ now' = now + 1 /\ rows' = rows
  BY DEF IInv, TypeOK
<1>5. TypeOK'
  <2>1. run' \in Run
    <3>1. [s \in Subjects |-> Count(LiveOf(s))] \in [Subjects -> Nat]
      BY <1>3, CountIsPositive
    <3>2. QED
      BY <1>1, <3>1 DEF Run, RunStages, NoRun
  <2>2. started'.runs \in 0..MaxRuns /\ started'.replays \in 0..MaxReplays
    BY ListingsAssumption DEF IInv, TypeOK
  <2>3. QED
    BY <1>4, <2>1, <2>2 DEF IInv, TypeOK
<1>6. Times'
  BY <1>4 DEF IInv, Times, TypeOK, Row
<1>7. PagesFit' /\ ToWrite' /\ Written' /\ HalfWritten'
  BY <1>2 DEF PagesFit, ToWrite, Written, HalfWritten, Writing
<1>8. Guarded'
  <2>1. ASSUME NEW s \in Subjects
        PROVE  /\ LiveOf(s)' # {} => run'.previous[s] > 0
               /\ ~Parsed(s)'
    <3>1. run'.previous[s] = Count(LiveOf(s)) /\ LiveOf(s)' = LiveOf(s)
      BY <1>2, <1>4, SameRows
    <3>2. QED
      BY <1>2, <1>3, <3>1, CountIsPositive DEF Parsed
  <2>2. QED
    BY <2>1 DEF Guarded
<1>9. GoodPages'
  BY <1>4, SameRowsReplayable DEF IInv, GoodPages
<1>10. LiveIsLastWritten'
  BY <1>4, SameRows DEF IInv, LiveIsLastWritten
<1>11. TagTellsTruth'
  BY <1>2, <1>4, SameRows DEF IInv, TagTellsTruth, TypeOK
<1>12. QED
  BY <1>5, <1>6, <1>7, <1>8, <1>9, <1>10, <1>11 DEF IInv

LEMMA OneSubjectStep ==
  ASSUME IInv, NEW s \in Subjects, OneSubject(s)
  PROVE  IInv'
<1>1. rows' = rows /\ now' = now /\ now \in Nat /\ now >= 1
  BY DEF IInv, TypeOK, Times, OneSubject, store
<1>2. run \in Run /\ run.stage = "fetch"
  BY DEF IInv, TypeOK, OneSubject
<1>0. /\ newest' = newest /\ version' = version /\ baseline' = baseline
      /\ replay' = replay /\ client' = client /\ started' = started
      /\ written' = written /\ unmarked' = unmarked
  BY DEF OneSubject, store
<1>6. GoodPages'
  <2>1. \A page : Replayable(page) => Replayable(page)'
    BY <1>1, SameRowsReplayable
  <2>2. QED
    BY <1>0, <2>1 DEF IInv, GoodPages
<1>7. Times' /\ LiveIsLastWritten'
  BY <1>0, <1>1, SameRows DEF IInv, Times, LiveIsLastWritten
<1>3. CASE run' = [run EXCEPT !.todo = @ \ {s}]
  <2>1. /\ run'.stage = "fetch" /\ run'.previous = run.previous
        /\ run'.pages = run.pages /\ run'.quarantine = run.quarantine
        /\ run' \in Run
    BY <1>2, <1>3 DEF Run
  <2>2. TypeOK'
    BY <1>0, <1>1, <2>1 DEF IInv, TypeOK
  <2>3. ToWrite' /\ Written' /\ HalfWritten'
    BY <2>1 DEF ToWrite, Written, HalfWritten, Writing
  <2>8. PagesFit'
    BY <1>1, <2>1 DEF IInv, PagesFit, CrnsOf
  <2>4. Guarded'
    BY <1>1, <1>2, <2>1, SameRows DEF IInv, Guarded, Parsed
  <2>6. TagTellsTruth'
    BY <1>0, <1>1, <1>2, <2>1, SameRows DEF IInv, TagTellsTruth
  <2>7. QED
    BY <1>6, <1>7, <2>2, <2>3, <2>4, <2>6, <2>8 DEF IInv
<1>4. ASSUME NEW page \in PagesOf(s),
             run' = [run EXCEPT
                       !.todo = @ \ {s},
                       !.pages[s] = page,
                       !.quarantine = @ \/ ZeroRows(run.previous[s], Count(page.crns))]
      PROVE  IInv'
  <2>1. /\ page.kind \in {"rows", "form"} /\ page.at = now
        /\ page.crns \subseteq CrnsOf(s) /\ page \in Page
        /\ page.kind = "form" => page.crns = {}
    BY <1>1 DEF PagesOf, Page, CrnsOf
  <2>2. /\ run'.stage = "fetch" /\ run'.previous = run.previous
        /\ run'.pages = [run.pages EXCEPT ![s] = page]
        /\ run'.todo = run.todo \ {s} /\ run'.subject = run.subject
        /\ run.pages \in [Subjects -> Page \cup {None}]
        /\ run.previous \in [Subjects -> Nat]
    BY <1>2, <1>4 DEF Run
  <2>3. run'.quarantine <=> run.quarantine \/ ZeroRows(run.previous[s], Count(page.crns))
    BY <1>2, <1>4 DEF Run
  <2>4. page.crns \in SUBSET Crns
    BY <2>1 DEF CrnsOf
  <2>5. run' \in Run
    <3>1. run'.quarantine \in BOOLEAN
      BY <1>2, <1>4 DEF Run, ZeroRows
    <3>2. run'.pages \in [Subjects -> Page \cup {None}]
      BY <2>1, <2>2
    <3>3. QED
      BY <1>2, <1>4, <2>2, <3>1, <3>2 DEF Run
  <2>6. TypeOK'
    BY <1>0, <1>1, <2>5 DEF IInv, TypeOK
  <2>7. ToWrite' /\ Written' /\ HalfWritten'
    BY <2>2 DEF ToWrite, Written, HalfWritten, Writing
  <2>8. PagesFit'
    <3>1. ASSUME NEW t \in Subjects, run'.pages[t] # None
          PROVE  /\ run'.pages[t].crns \subseteq CrnsOf(t)
                 /\ run'.pages[t].at \in 1..now
                 /\ run'.pages[t].kind = "form" => run'.pages[t].crns = {}
      <4>1. CASE t = s
        BY <1>1, <2>1, <2>2, <4>1
      <4>2. CASE t # s
        BY <2>2, <3>1, <4>2 DEF IInv, PagesFit
      <4>3. QED
        BY <4>1, <4>2
    <3>2. QED
      BY <1>1, <3>1 DEF PagesFit, CrnsOf
  <2>9. Guarded'
    <3>1. ASSUME NEW t \in Subjects
          PROVE  /\ LiveOf(t)' # {} => run'.previous[t] > 0
                 /\ ~run'.quarantine /\ Parsed(t)' /\ run'.pages[t].crns = {}
                      => run'.previous[t] = 0
      <4>1. LiveOf(t)' # {} => run'.previous[t] > 0
        BY <1>1, <1>2, <2>2, SameRows DEF IInv, Guarded
      <4>2. CASE t = s
        <5>1. Count(page.crns) = 0 <=> page.crns = {}
          BY <2>4, CountIsPositive
        <5>2. page.crns = {} /\ ~run'.quarantine => run.previous[s] = 0
          <6>1. page.crns = {} /\ ~run'.quarantine => ~(run.previous[s] > 0)
            BY <2>3, <5>1 DEF ZeroRows
          <6>2. run.previous[s] \in Nat
            BY <2>2
          <6>3. QED
            BY <6>1, <6>2
        <5>3. run'.pages[t] = page
          BY <2>2, <4>2
        <5>4. QED
          BY <2>2, <4>1, <4>2, <5>2, <5>3
      <4>3. CASE t # s
        <5>1. run'.pages[t] = run.pages[t]
          BY <2>2, <4>3
        <5>2. QED
          BY <1>2, <2>2, <2>3, <4>1, <5>1 DEF IInv, Guarded, Parsed
      <4>4. QED
        BY <4>2, <4>3
    <3>2. QED
      BY <3>1 DEF Guarded
  <2>11. TagTellsTruth'
    BY <1>0, <1>1, <1>2, <2>2, SameRows DEF IInv, TagTellsTruth
  <2>12. QED
    BY <1>6, <1>7, <2>6, <2>7, <2>8, <2>9, <2>11 DEF IInv
<1>5. QED
  BY <1>3, <1>4 DEF OneSubject

(* A closed run says nothing about the rows.                               *)
LEMMA ClosedRun ==
  ASSUME run' = NoRun
  PROVE  PagesFit' /\ Guarded' /\ ToWrite' /\ Written' /\ HalfWritten' /\ run' \in Run
<1>1. /\ run'.stage = "idle"
      /\ \A s \in Subjects : run'.pages[s] = None
      /\ run' \in Run
  BY DEF NoRun, Run, RunStages
<1>2. QED
  BY <1>1 DEF PagesFit, Guarded, ToWrite, Written, HalfWritten, Writing

LEMMA QuarantineStep == IInv /\ Quarantine => IInv'
<1> SUFFICES ASSUME IInv, Quarantine PROVE IInv'
  OBVIOUS
<1>1. /\ run.stage = "fetch" /\ run' = NoRun /\ now' = now /\ rows' = rows
      /\ newest' = newest /\ version' = version /\ baseline' = baseline
      /\ replay' = replay /\ client' = client /\ started' = started
      /\ written' = written /\ unmarked' = unmarked
  BY DEF Quarantine, store
<1>2. now \in Nat
  BY DEF IInv, TypeOK
<1>3. PagesFit' /\ Guarded' /\ ToWrite' /\ Written' /\ HalfWritten' /\ run' \in Run
  BY <1>1, ClosedRun
<1>4. TypeOK'
  BY <1>1, <1>3 DEF IInv, TypeOK
<1>5. Times'
  BY <1>1, <1>2 DEF IInv, Times, NoRun
<1>6. GoodPages'
  <2>1. \A page : Replayable(page) => Replayable(page)'
    BY <1>1, <1>2, SameRowsReplayable
  <2>2. QED
    BY <1>1, <2>1 DEF IInv, GoodPages
<1>7. LiveIsLastWritten' /\ TagTellsTruth'
  BY <1>1, SameRows DEF IInv, LiveIsLastWritten, TagTellsTruth
<1>8. QED
  BY <1>3, <1>4, <1>5, <1>6, <1>7 DEF IInv

LEMMA StopStep == IInv /\ Stop => IInv'
<1> SUFFICES ASSUME IInv, Stop PROVE IInv'
  OBVIOUS
<1>1. /\ run' = NoRun /\ now' = now /\ rows' = rows
      /\ newest' = newest /\ version' = version /\ baseline' = baseline
      /\ replay' = replay /\ client' = client /\ started' = started
      /\ written' = written /\ unmarked' = (unmarked \/ run.stage \in {"upsert", "withdraw"})
  BY DEF Stop, store
<1>2. now \in Nat
  BY DEF IInv, TypeOK
<1>3. PagesFit' /\ Guarded' /\ ToWrite' /\ Written' /\ HalfWritten' /\ run' \in Run
  BY <1>1, ClosedRun
<1>4. TypeOK'
  <2>1. unmarked' \in BOOLEAN
    BY <1>1
  <2>2. QED
    BY <1>1, <1>3, <2>1 DEF IInv, TypeOK
<1>5. Times'
  BY <1>1, <1>2 DEF IInv, Times, NoRun
<1>6. GoodPages'
  <2>1. \A page : Replayable(page) => Replayable(page)'
    BY <1>1, <1>2, SameRowsReplayable
  <2>2. QED
    BY <1>1, <2>1 DEF IInv, GoodPages
<1>7. LiveIsLastWritten'
  BY <1>1, SameRows DEF IInv, LiveIsLastWritten
<1>8. TagTellsTruth'
  BY <1>1, SameRows DEF IInv, TagTellsTruth
<1>9. QED
  BY <1>3, <1>4, <1>5, <1>6, <1>7, <1>8 DEF IInv

LEMMA PassGuardsStep == IInv /\ PassGuards => IInv'
<1> SUFFICES ASSUME IInv, PassGuards PROVE IInv'
  OBVIOUS
<1>1. /\ run.stage = "fetch" /\ run.todo = {} /\ ~run.quarantine
      /\ run' = [run EXCEPT !.stage = "upsert", !.todo = {s \in Subjects : Parsed(s)}]
      /\ now' = now + 1 /\ rows' = rows
      /\ newest' = newest /\ version' = version /\ baseline' = baseline
      /\ replay' = replay /\ client' = client /\ started' = started
      /\ written' = written /\ unmarked' = unmarked
  BY DEF PassGuards, store
<1>2. now \in Nat /\ now' \in Nat /\ now < now' /\ run \in Run /\ rows \in [Crns -> Row]
  BY <1>1 DEF IInv, TypeOK
<1>3. /\ run'.stage = "upsert" /\ run'.todo = {s \in Subjects : Parsed(s)}
      /\ run'.pages = run.pages /\ run' \in Run
  <2>1. {s \in Subjects : Parsed(s)} \in SUBSET Subjects
    OBVIOUS
  <2>2. QED
    BY <1>1, <1>2, <2>1 DEF Run, RunStages
<1>4. TypeOK'
  BY <1>1, <1>2, <1>3 DEF IInv, TypeOK
<1>5. Times'
  BY <1>1, <1>2 DEF IInv, Times, Row
<1>6. PagesFit'
  <2>1. \A i \in 1..now : i \in 1..now'
    BY <1>1, <1>2
  <2>2. QED
    BY <1>3, <2>1 DEF IInv, PagesFit, CrnsOf
<1>7. Guarded' /\ HalfWritten' /\ Written'
  BY <1>3 DEF Guarded, HalfWritten, Written, Parsed
<1>8. ToWrite'
  <2>1. ASSUME NEW s \in Subjects, Parsed(s)
        PROVE  /\ Parsed(s)'
               /\ \A c \in CrnsOf(s) : rows'[c].withdrawn < now'
               /\ LiveOf(s)' # {} => run'.pages[s].crns # {}
    <3>1. Parsed(s)'
      BY <1>3, <2>1 DEF Parsed
    <3>2. \A c \in CrnsOf(s) : rows'[c].withdrawn < now'
      BY <1>1, <1>2 DEF IInv, Times, CrnsOf, Row
    <3>3. LiveOf(s)' # {} => run'.pages[s].crns # {}
      <4>1. LiveOf(s)' = LiveOf(s)
        BY <1>1, SameRows
      <4>2. /\ LiveOf(s) # {} => run.previous[s] > 0
            /\ run.pages[s].crns = {} => run.previous[s] = 0
        BY <1>1, <2>1 DEF IInv, Guarded
      <4>3. QED
        BY <1>3, <4>1, <4>2
    <3>4. QED
      BY <3>1, <3>2, <3>3
  <2>2. QED
    BY <1>3, <2>1 DEF ToWrite, CrnsOf
<1>9. GoodPages'
  <2>1. \A page : Replayable(page) => Replayable(page)'
    BY <1>1, <1>2, SameRowsReplayable
  <2>2. QED
    BY <1>1, <2>1 DEF IInv, GoodPages
<1>10. LiveIsLastWritten'
  BY <1>1, SameRows DEF IInv, LiveIsLastWritten
<1>11. TagTellsTruth'
  BY <1>1, <1>3, SameRows DEF IInv, TagTellsTruth
<1>12. QED
  BY <1>4, <1>5, <1>6, <1>7, <1>8, <1>9, <1>10, <1>11 DEF IInv

LEMMA FinishOkStep == IInv /\ FinishOk => IInv'
<1> SUFFICES ASSUME IInv, FinishOk PROVE IInv'
  OBVIOUS
<1>1. /\ run.stage = "upsert" /\ run.todo = {} /\ run' = NoRun
      /\ now' = now /\ rows' = rows
      /\ newest' = [s \in Subjects |-> IF run.pages[s] = None THEN newest[s] ELSE run.pages[s]]
      /\ version' = version + 1 /\ baseline' = Total
      /\ replay' = replay /\ client' = client /\ started' = started
      /\ written' = written /\ unmarked' = FALSE
  BY DEF FinishOk
<1>2. /\ now \in Nat /\ version \in Nat /\ run \in Run
      /\ run.pages \in [Subjects -> Page \cup {None}]
      /\ newest \in [Subjects -> Page \cup {None}]
  BY DEF IInv, TypeOK, Run
<1>3. PagesFit' /\ Guarded' /\ ToWrite' /\ Written' /\ HalfWritten' /\ run' \in Run
  BY <1>1, ClosedRun
<1>4. TypeOK'
  <2>1. newest' \in [Subjects -> Page \cup {None}]
    BY <1>1, <1>2
  <2>2. Total \in Nat
    <3>1. \A s \in Subjects : Parsed(s) => run.pages[s].crns \subseteq Crns
      BY DEF IInv, PagesFit, Parsed, CrnsOf
    <3>2. UNION {run.pages[s].crns : s \in {t \in Subjects : Parsed(t)}} \in SUBSET Crns
      BY <3>1
    <3>3. QED
      BY <3>2, CountIsPositive DEF Total
  <2>3. version' \in Nat /\ client'.tag \in 0..version'
    BY <1>1, <1>2 DEF IInv, TypeOK
  <2>4. QED
    BY <1>1, <1>3, <2>1, <2>2, <2>3 DEF IInv, TypeOK
<1>5. Times'
  BY <1>1, <1>2 DEF IInv, Times, NoRun
<1>6. GoodPages'
  <2>1. \A page : Replayable(page) => Replayable(page)'
    BY <1>1, <1>2, SameRowsReplayable
  <2>2. ASSUME NEW s \in Subjects, newest'[s] # None PROVE Replayable(newest'[s])
    <3>1. CASE run.pages[s] = None
      BY <1>1, <2>2, <3>1 DEF IInv, GoodPages
    <3>2. CASE run.pages[s] # None /\ run.pages[s].kind = "rows"
      BY <1>1, <3>2 DEF IInv, Written, Writing, Parsed
    <3>3. CASE run.pages[s] # None /\ run.pages[s].kind = "form"
      BY <1>1, <3>3 DEF IInv, PagesFit, Replayable
    <3>4. QED
      BY <1>2, <3>1, <3>2, <3>3 DEF Page
  <2>3. QED
    BY <1>1, <2>1, <2>2 DEF IInv, GoodPages
<1>7. LiveIsLastWritten'
  BY <1>1, SameRows DEF IInv, LiveIsLastWritten
<1>8. TagTellsTruth'
  <2>1. client'.tag # version'
    BY <1>1, <1>2 DEF IInv, TypeOK
  <2>2. QED
    BY <2>1 DEF TagTellsTruth
<1>9. QED
  BY <1>3, <1>4, <1>5, <1>6, <1>7, <1>8 DEF IInv

-----------------------------------------------------------------------------
(* Steps that write rows.                                                  *)

LEMMA UpsertSectionsStep ==
  ASSUME IInv, NEW s \in Subjects, UpsertSections(s)
  PROVE  IInv'
<1> DEFINE page == run.pages[s]
<1>1. /\ run.stage = "upsert" /\ s \in run.todo
      /\ rows' = UpsertListing(page.crns, page.at, now)
      /\ run' = [run EXCEPT !.stage = "withdraw", !.subject = s]
      /\ written' = [written EXCEPT ![s] = None]
      /\ now' = now /\ newest' = newest /\ version' = version /\ baseline' = baseline
      /\ replay' = replay /\ client' = client /\ started' = started
      /\ unmarked' = unmarked
  BY DEF UpsertSections
<1>2. /\ now \in Nat \ {0} /\ run \in Run /\ rows \in [Crns -> Row]
      /\ written \in [Subjects -> (SUBSET Crns) \cup {None}]
  BY <1>1 DEF IInv, TypeOK, Times
<1>3. /\ run'.stage = "withdraw" /\ run'.subject = s /\ run'.todo = run.todo
      /\ run'.pages = run.pages /\ run' \in Run
  BY <1>1, <1>2 DEF Run, RunStages
<1>4. Parsed(s) /\ page # None
  BY <1>1 DEF IInv, ToWrite, Writing, Parsed
<1>5. page.crns \subseteq CrnsOf(s) /\ page.at \in 1..now
  BY <1>4 DEF IInv, PagesFit
<1>6. page.crns \in SUBSET Crns /\ page.at \in Nat \ {0}
  BY <1>5, <1>2 DEF CrnsOf
<1>7. /\ rows' \in [Crns -> Row]
      /\ \A c \in Crns \ page.crns : rows'[c] = rows[c]
      /\ \A c \in page.crns :
           /\ rows'[c].at = page.at
           /\ rows'[c].withdrawn = IF rows[c].withdrawn < now THEN 0
                                   ELSE rows[c].withdrawn
           /\ IsLive(c)' <=> rows[c].withdrawn < now
  <2> HIDE DEF page
  <2>1. QED
    BY <1>1, <1>2, <1>6, UpsertedRows DEF IInv
<1>8. \A c \in page.crns : rows[c].withdrawn < now
  BY <1>1, <1>5 DEF IInv, ToWrite, Writing
<1> HIDE DEF page
<1>9. \A c \in page.crns : IsLive(c)' /\ rows'[c].at # 0 /\ rows'[c].withdrawn = 0
  BY <1>6, <1>7, <1>8
<1>10. \A c \in Crns \ page.crns : rows'[c] = rows[c] /\ (IsLive(c)' <=> IsLive(c))
  BY <1>7 DEF IsLive
<1>11. \A t \in Subjects \ {s} : LiveOf(t)' = LiveOf(t)
  BY <1>5, <1>10 DEF LiveOf, CrnsOf
<1>12. TypeOK'
  <2>1. written' \in [Subjects -> (SUBSET Crns) \cup {None}]
    BY <1>1, <1>2
  <2>2. QED
    BY <1>1, <1>3, <1>7, <2>1 DEF IInv, TypeOK
<1>13. Times'
  <2>1. \A c \in Crns : rows'[c].withdrawn <= now
    BY <1>2, <1>9, <1>10 DEF IInv, Times
  <2>2. QED
    BY <1>1, <1>2, <2>1 DEF Times
<1>14. PagesFit' /\ Guarded'
  BY <1>1, <1>3 DEF IInv, PagesFit, Guarded, CrnsOf
<1>15. ToWrite'
  <2>1. ASSUME NEW t \in run.todo
        PROVE  /\ Parsed(t)'
               /\ \A c \in CrnsOf(t) : rows'[c].withdrawn < now
               /\ LiveOf(t)' # {} => run'.pages[t].crns # {}
    <3>1. /\ Parsed(t)
          /\ \A c \in CrnsOf(t) : rows[c].withdrawn < now
          /\ LiveOf(t) # {} => run.pages[t].crns # {}
          /\ t \in Subjects
      BY <1>1, <1>2 DEF IInv, ToWrite, Writing, Run
    <3>2. Parsed(t)'
      BY <1>3, <3>1 DEF Parsed
    <3>3. \A c \in CrnsOf(t) : rows'[c].withdrawn < now
      BY <1>2, <1>9, <1>10, <3>1 DEF CrnsOf
    <3>4. LiveOf(t)' # {} => run'.pages[t].crns # {}
      <4>1. CASE t # s
        BY <1>3, <1>11, <3>1, <4>1
      <4>2. CASE t = s /\ page.crns = {}
        <5>1. LiveOf(s)' = LiveOf(s)
          BY <1>10, <4>2 DEF LiveOf, CrnsOf
        <5>2. QED
          BY <1>3, <3>1, <4>2, <5>1
      <4>3. CASE t = s /\ page.crns # {}
        BY <1>3, <4>3 DEF page
      <4>4. QED
        BY <4>1, <4>2, <4>3
    <3>5. QED
      BY <3>2, <3>3, <3>4
  <2>2. QED
    BY <1>1, <1>3, <2>1 DEF ToWrite, CrnsOf
<1>16. \A p : p.crns \subseteq Crns /\ Replayable(p) => Replayable(p)'
  <2>1. ASSUME NEW p, p.crns \subseteq Crns, Replayable(p) PROVE Replayable(p)'
    <3>1. \A c \in p.crns : rows'[c].at # 0 /\ (IsLive(c)' \/ rows'[c].withdrawn >= p.at)
      BY <1>9, <1>10, <2>1 DEF Replayable
    <3>2. QED
      BY <1>1, <1>2, <2>1, <3>1, StaysReplayable
  <2>2. QED
    BY <2>1
<1>17. Written'
  <2>1. ASSUME NEW t \in Subjects \ run.todo, Parsed(t)' PROVE Replayable(run.pages[t])'
    <3>1. Parsed(t)
      BY <1>3, <2>1 DEF Parsed
    <3>2. Replayable(run.pages[t]) /\ run.pages[t].crns \subseteq Crns
      BY <1>1, <3>1 DEF IInv, Written, Writing, PagesFit, Parsed, CrnsOf
    <3>4. /\ run.pages[t].at \in 1..now
          /\ \A c \in run.pages[t].crns :
               rows'[c].at # 0 /\ (IsLive(c)' \/ rows'[c].withdrawn >= run.pages[t].at)
      BY <1>9, <1>10, <3>2 DEF Replayable
    <3>5. QED
      BY <1>1, <1>3, <3>4 DEF Replayable
  <2>2. QED
    BY <1>3, <2>1 DEF Written
<1>18. HalfWritten'
  <2>1. page.crns \subseteq LiveOf(s)'
    BY <1>5, <1>9 DEF LiveOf, CrnsOf
  <2>2. QED
    BY <1>1, <1>3, <2>1 DEF HalfWritten, page
<1>19. GoodPages'
  <2>1. \A t \in Subjects : newest[t] # None => newest[t].crns \subseteq Crns
    BY DEF IInv, TypeOK, Page
  <2>2. \A p \in replay.pages : p.crns \subseteq Crns
    BY DEF IInv, TypeOK, Page, Replay
  <2>3. QED
    BY <1>1, <1>16, <2>1, <2>2 DEF IInv, GoodPages
<1>20. LiveIsLastWritten'
  BY <1>1, <1>2, <1>11 DEF IInv, LiveIsLastWritten
<1>21. TagTellsTruth'
  BY <1>3 DEF TagTellsTruth
<1>22. QED
  BY <1>12, <1>13, <1>14, <1>15, <1>17, <1>18, <1>19, <1>20, <1>21 DEF IInv

(* s is the subject half written, page the run's page of it.               *)
LEMMA WithdrawFrom ==
  ASSUME IInv, WithdrawMissing, NEW s, s = run.subject, NEW page, page = run.pages[s]
  PROVE  IInv'
<1>1. /\ run.stage = "withdraw"
      /\ rows' = [c \in Crns |->
           IF c \in LiveOf(s) \ page.crns THEN [rows[c] EXCEPT !.withdrawn = now]
           ELSE rows[c]]
      /\ run' = [run EXCEPT !.stage = "upsert", !.todo = @ \ {s}, !.subject = None]
      /\ written' = [written EXCEPT ![s] = page.crns]
      /\ now' = now /\ newest' = newest /\ version' = version /\ baseline' = baseline
      /\ replay' = replay /\ client' = client /\ started' = started
      /\ unmarked' = unmarked
  BY DEF WithdrawMissing
<1>2. /\ now \in Nat \ {0} /\ run \in Run /\ rows \in [Crns -> Row]
      /\ written \in [Subjects -> (SUBSET Crns) \cup {None}]
  BY <1>1 DEF IInv, TypeOK, Times
<1>3. s \in run.todo /\ s \in Subjects /\ page.crns \subseteq LiveOf(s)
  BY <1>1, <1>2 DEF IInv, HalfWritten, Run
<1>4. /\ run'.stage = "upsert" /\ run'.todo = run.todo \ {s}
      /\ run'.pages = run.pages /\ run' \in Run
  BY <1>1, <1>2 DEF Run, RunStages
<1>5. Parsed(s) /\ page # None
  BY <1>1, <1>3 DEF IInv, ToWrite, Writing, Parsed
<1>6. page.crns \subseteq CrnsOf(s) /\ page.at \in 1..now
  BY <1>3, <1>5 DEF IInv, PagesFit
<1>7. \A c \in Crns : rows[c] \in Row
  BY <1>2
<1>8. \A c \in LiveOf(s) \ page.crns :
        c \in CrnsOf(s) /\ rows'[c].at = rows[c].at /\ rows'[c].withdrawn = now
  BY <1>1, <1>7 DEF LiveOf, CrnsOf, Row
<1>9. \A c \in Crns : c \notin LiveOf(s) \ page.crns => rows'[c] = rows[c]
  BY <1>1
<1>10. rows' \in [Crns -> Row]
  BY <1>1, <1>2, <1>7 DEF Row
<1>11. \A c \in LiveOf(s) \ page.crns : ~IsLive(c)'
  BY <1>2, <1>8 DEF IsLive
<1>12. \A c \in Crns : c \notin LiveOf(s) \ page.crns => (IsLive(c)' <=> IsLive(c))
  BY <1>9 DEF IsLive
<1>13. LiveOf(s)' = page.crns
  BY <1>3, <1>6, <1>11, <1>12 DEF LiveOf, CrnsOf
<1>14. \A t \in Subjects \ {s} : LiveOf(t)' = LiveOf(t)
  BY <1>8, <1>12 DEF LiveOf, CrnsOf
<1>15. TypeOK'
  <2>1. written' \in [Subjects -> (SUBSET Crns) \cup {None}]
    BY <1>1, <1>2, <1>6 DEF CrnsOf
  <2>2. QED
    BY <1>1, <1>4, <1>10, <2>1 DEF IInv, TypeOK
<1>16. Times'
  <2>1. \A c \in Crns : rows'[c].withdrawn <= now
    BY <1>2, <1>8, <1>9 DEF IInv, Times
  <2>2. QED
    BY <1>1, <1>2, <2>1 DEF Times
<1>17. PagesFit' /\ Guarded' /\ HalfWritten'
  BY <1>1, <1>4 DEF IInv, PagesFit, Guarded, HalfWritten, CrnsOf
<1>18. ToWrite'
  <2>1. ASSUME NEW t \in run'.todo
        PROVE  /\ Parsed(t)'
               /\ \A c \in CrnsOf(t) : rows'[c].withdrawn < now
               /\ LiveOf(t)' # {} => run'.pages[t].crns # {}
    <3>1. /\ Parsed(t)
          /\ \A c \in CrnsOf(t) : rows[c].withdrawn < now
          /\ LiveOf(t) # {} => run.pages[t].crns # {}
          /\ t \in Subjects /\ t # s
      BY <1>1, <1>2, <1>4 DEF IInv, ToWrite, Writing, Run
    <3>2. Parsed(t)'
      BY <1>4, <3>1 DEF Parsed
    <3>3. \A c \in CrnsOf(t) : rows'[c].withdrawn < now
      BY <1>8, <1>9, <3>1 DEF CrnsOf
    <3>4. LiveOf(t)' # {} => run'.pages[t].crns # {}
      BY <1>4, <1>14, <3>1
    <3>5. QED
      BY <3>2, <3>3, <3>4
  <2>2. QED
    BY <1>1, <1>4, <2>1 DEF ToWrite, CrnsOf
(* A row is as it was, or was withdrawn just now, after any page.          *)
<1>19. ASSUME NEW p, p.crns \subseteq Crns, Replayable(p)
       PROVE  /\ p.at \in 1..now
              /\ \A c \in p.crns :
                   rows'[c].at # 0 /\ (IsLive(c)' \/ rows'[c].withdrawn >= p.at)
  <2>1. p.at \in 1..now /\ now \in Nat
    BY <1>2, <1>19 DEF Replayable
  <2>2. ASSUME NEW c \in p.crns
        PROVE  rows'[c].at # 0 /\ (IsLive(c)' \/ rows'[c].withdrawn >= p.at)
    <3>1. rows[c].at # 0 /\ (IsLive(c) \/ rows[c].withdrawn >= p.at)
      BY <1>19 DEF Replayable
    <3>2. CASE c \in LiveOf(s) \ page.crns
      BY <1>8, <2>1, <3>1, <3>2
    <3>3. CASE c \notin LiveOf(s) \ page.crns
      BY <1>9, <1>12, <1>19, <3>1, <3>3
    <3>4. QED
      BY <3>2, <3>3
  <2>3. QED
    BY <2>1, <2>2
<1>20. ASSUME NEW c \in page.crns
       PROVE  rows'[c].at # 0 /\ IsLive(c)'
  <2>1. rows'[c] = rows[c] /\ IsLive(c)
    BY <1>3, <1>6, <1>9 DEF LiveOf, CrnsOf
  <2>2. QED
    BY <2>1 DEF IsLive
<1>21. Written'
  <2>1. ASSUME NEW t \in Subjects \ run'.todo, Parsed(t)' PROVE Replayable(run.pages[t])'
    <3>1. CASE t = s
      <4>1. run'.pages[t] = page
        BY <1>4, <3>1
      <4>2. QED
        BY <1>1, <1>6, <1>20, <4>1 DEF Replayable
    <3>2. CASE t # s
      <4>1. t \in Subjects \ run.todo /\ Parsed(t)
        BY <1>4, <2>1, <3>2 DEF Parsed
      <4>2. Replayable(run.pages[t]) /\ run.pages[t].crns \subseteq Crns
        BY <1>1, <4>1 DEF IInv, Written, Writing, PagesFit, Parsed, CrnsOf
      <4>3. /\ run.pages[t].at \in 1..now
            /\ \A c \in run.pages[t].crns :
                 rows'[c].at # 0 /\ (IsLive(c)' \/ rows'[c].withdrawn >= run.pages[t].at)
        BY <1>19, <4>2
      <4>4. QED
        BY <1>1, <1>4, <4>3 DEF Replayable
    <3>3. QED
      BY <3>1, <3>2
  <2>2. QED
    BY <2>1 DEF Written
<1>22. GoodPages'
  <2>1. \A p : p.crns \subseteq Crns /\ Replayable(p) => Replayable(p)'
    BY <1>1, <1>19 DEF Replayable
  <2>2. \A t \in Subjects : newest[t] # None => newest[t].crns \subseteq Crns
    BY DEF IInv, TypeOK, Page
  <2>3. \A p \in replay.pages : p.crns \subseteq Crns
    BY DEF IInv, TypeOK, Page, Replay
  <2>4. QED
    BY <1>1, <2>1, <2>2, <2>3 DEF IInv, GoodPages
<1>23. LiveIsLastWritten'
  <2>1. ASSUME NEW t \in Subjects, written'[t] # None PROVE LiveOf(t)' = written'[t]
    <3>1. CASE t = s
      BY <1>1, <1>2, <1>3, <1>13, <3>1
    <3>2. CASE t # s
      BY <1>1, <1>2, <1>14, <2>1, <3>2 DEF IInv, LiveIsLastWritten
    <3>3. QED
      BY <3>1, <3>2
  <2>2. QED
    BY <2>1 DEF LiveIsLastWritten
<1>24. TagTellsTruth'
  BY <1>4 DEF TagTellsTruth
<1>25. QED
  BY <1>15, <1>16, <1>17, <1>18, <1>21, <1>22, <1>23, <1>24 DEF IInv

LEMMA WithdrawMissingStep == IInv /\ WithdrawMissing => IInv'
BY WithdrawFrom

-----------------------------------------------------------------------------
(* The replay and the clients.                                             *)

(* Where the run, and what it has written, stay as they are, and liveness  *)
(* and withdrawals too, everything the run relies on stays.                *)
LEMMA RunUndisturbed ==
  ASSUME IInv, run' = run, now' = now, written' = written, rows' \in [Crns -> Row],
         \A c \in Crns : /\ IsLive(c)' <=> IsLive(c)
                         /\ rows'[c].withdrawn = rows[c].withdrawn
                         /\ rows[c].at # 0 => rows'[c].at # 0
  PROVE  /\ Times' /\ PagesFit' /\ Guarded' /\ ToWrite' /\ Written' /\ HalfWritten'
         /\ LiveIsLastWritten'
         /\ \A page : page.crns \subseteq Crns /\ Replayable(page) => Replayable(page)'
<1>1. \A s \in Subjects : LiveOf(s)' = LiveOf(s)
  BY DEF LiveOf, CrnsOf
<1>2. Times' /\ PagesFit' /\ Guarded'
  BY <1>1 DEF IInv, Times, PagesFit, Guarded, Parsed, CrnsOf
<1>3. run.todo \subseteq Subjects /\ run.subject \in Subjects \cup {None}
  BY DEF IInv, TypeOK, Run
<1>4. ToWrite' /\ HalfWritten'
  BY <1>1, <1>3 DEF IInv, ToWrite, HalfWritten, Writing, Parsed, CrnsOf
<1>5. ASSUME NEW page, page.crns \subseteq Crns, Replayable(page)
      PROVE  /\ page.at \in 1..now
             /\ \A c \in page.crns :
                  rows'[c].at # 0 /\ (IsLive(c)' \/ rows'[c].withdrawn >= page.at)
  BY <1>5 DEF Replayable
<1>6. Written'
  <2>1. ASSUME NEW t \in Subjects \ run.todo, Writing, Parsed(t) PROVE Replayable(run.pages[t])'
    <3>1. Replayable(run.pages[t]) /\ run.pages[t].crns \subseteq Crns
      BY <2>1 DEF IInv, Written, PagesFit, Parsed, CrnsOf
    <3>2. QED
      BY <1>5, <3>1 DEF Replayable
  <2>2. QED
    BY <2>1 DEF Written, Writing, Parsed
<1>7. LiveIsLastWritten'
  BY <1>1 DEF IInv, LiveIsLastWritten
<1>8. QED
  BY <1>2, <1>4, <1>5, <1>6, <1>7 DEF Replayable

LEMMA ReplayBeginStep == IInv /\ ReplayBegin => IInv'
<1> SUFFICES ASSUME IInv, ReplayBegin PROVE IInv'
  OBVIOUS
<1>1. /\ now' = now /\ rows' = rows /\ newest' = newest /\ version' = version
      /\ baseline' = baseline /\ run' = run /\ client' = client
      /\ written' = written /\ unmarked' = unmarked
      /\ started.replays < MaxReplays
      /\ started' = [started EXCEPT !.replays = @ + 1]
  BY DEF ReplayBegin, store
<1>2. PICK since \in 0..now : replay' = [open |-> TRUE, pages |-> RawResponsesSince(since)]
  BY DEF ReplayBegin
<1>3. \A page \in replay'.pages : page \in Page /\ \E s \in Subjects : newest[s] # None /\ page = newest[s]
  BY <1>2 DEF RawResponsesSince, IInv, TypeOK
<1>4. rows \in [Crns -> Row]
  BY DEF IInv, TypeOK
<1>5. /\ Times' /\ PagesFit' /\ Guarded' /\ ToWrite' /\ Written' /\ HalfWritten'
      /\ LiveIsLastWritten'
      /\ \A page : page.crns \subseteq Crns /\ Replayable(page) => Replayable(page)'
  BY <1>1, <1>4, SameRows, RunUndisturbed
<1>6. TypeOK'
  <2>1. replay' \in Replay
    BY <1>2, <1>3 DEF Replay
  <2>2. started'.runs \in 0..MaxRuns /\ started'.replays \in 0..MaxReplays
    BY <1>1, ListingsAssumption DEF IInv, TypeOK
  <2>3. QED
    BY <1>1, <2>1, <2>2 DEF IInv, TypeOK
<1>7. GoodPages'
  <2>1. \A s \in Subjects : newest[s] # None => newest[s].crns \subseteq Crns
    BY DEF IInv, TypeOK, Page
  <2>2. QED
    BY <1>1, <1>3, <1>5, <2>1 DEF IInv, GoodPages
<1>8. TagTellsTruth'
  BY <1>1, SameRows DEF IInv, TagTellsTruth
<1>9. QED
  BY <1>5, <1>6, <1>7, <1>8 DEF IInv

(* Writing a page of the replay: no liveness moves.                        *)
LEMMA ReplayListingRows ==
  ASSUME IInv, ReplayListing
  PROVE  /\ rows' \in [Crns -> Row]
         /\ \A c \in Crns : /\ IsLive(c)' <=> IsLive(c)
                            /\ rows'[c].withdrawn = rows[c].withdrawn
                            /\ rows[c].at # 0 => rows'[c].at # 0
<1>1. PICK page \in replay.pages :
        rows' = rows \/ rows' = UpsertListing(page.crns, page.at, page.at)
  BY DEF ReplayListing
<1>2. page \in Page /\ Replayable(page)
  BY DEF IInv, TypeOK, Replay, GoodPages
<1>3. CASE rows' = rows
  BY <1>3, SameRows DEF IInv, TypeOK
<1>4. CASE rows' = UpsertListing(page.crns, page.at, page.at)
  BY <1>2, <1>4, ReplayedRows
<1>5. QED
  BY <1>1, <1>3, <1>4

LEMMA ReplayListingStep == IInv /\ ReplayListing => IInv'
<1> SUFFICES ASSUME IInv, ReplayListing PROVE IInv'
  OBVIOUS
<1>1. /\ now' = now /\ newest' = newest /\ version' = version
      /\ baseline' = baseline /\ run' = run /\ client' = client
      /\ written' = written /\ started' = started
      /\ replay.open
  BY DEF ReplayListing
<1>2. PICK page \in replay.pages : replay' = [replay EXCEPT !.pages = @ \ {page}]
  BY DEF ReplayListing
<1>3. \/ rows' = rows /\ unmarked' = unmarked
      \/ unmarked' = (unmarked \/ rows' # rows)
  BY DEF ReplayListing
<1>4. replay' \in Replay /\ replay'.pages = replay.pages \ {page}
  BY <1>2 DEF IInv, TypeOK, Replay
<1>5. /\ rows' \in [Crns -> Row]
      /\ Times' /\ PagesFit' /\ Guarded' /\ ToWrite' /\ Written' /\ HalfWritten'
      /\ LiveIsLastWritten'
      /\ \A p : p.crns \subseteq Crns /\ Replayable(p) => Replayable(p)'
  BY <1>1, ReplayListingRows, RunUndisturbed
<1>6. TypeOK'
  <2>1. unmarked' \in BOOLEAN
    BY <1>3 DEF IInv, TypeOK
  <2>2. QED
    BY <1>1, <1>4, <1>5, <2>1 DEF IInv, TypeOK
<1>7. GoodPages'
  <2>1. \A s \in Subjects : newest[s] # None => newest[s].crns \subseteq Crns
    BY DEF IInv, TypeOK, Page
  <2>2. \A p \in replay.pages : p.crns \subseteq Crns
    BY DEF IInv, TypeOK, Page, Replay
  <2>3. QED
    BY <1>1, <1>4, <1>5, <2>1, <2>2 DEF IInv, GoodPages
<1>8. TagTellsTruth'
  <2>1. ~unmarked' => ~unmarked /\ rows' = rows
    BY <1>3
  <2>2. QED
    BY <1>1, <2>1, SameRows DEF IInv, TagTellsTruth
<1>9. QED
  BY <1>5, <1>6, <1>7, <1>8 DEF IInv

LEMMA ReplayEndStep == IInv /\ ReplayEnd => IInv'
<1> SUFFICES ASSUME IInv, ReplayEnd PROVE IInv'
  OBVIOUS
<1>1. /\ now' = now /\ rows' = rows /\ newest' = newest /\ version' = version
      /\ baseline' = baseline /\ run' = run /\ client' = client
      /\ written' = written /\ unmarked' = unmarked /\ started' = started
      /\ replay' = [open |-> FALSE, pages |-> {}]
  BY DEF ReplayEnd, store
<1>2. rows \in [Crns -> Row]
  BY DEF IInv, TypeOK
<1>3. /\ Times' /\ PagesFit' /\ Guarded' /\ ToWrite' /\ Written' /\ HalfWritten'
      /\ LiveIsLastWritten'
      /\ \A page : page.crns \subseteq Crns /\ Replayable(page) => Replayable(page)'
  BY <1>1, <1>2, SameRows, RunUndisturbed
<1>4. TypeOK'
  <2>1. replay' \in Replay /\ replay'.pages = {}
    BY <1>1 DEF Replay
  <2>2. QED
    BY <1>1, <2>1 DEF IInv, TypeOK
<1>5. GoodPages'
  <2>1. \A s \in Subjects : newest[s] # None => newest[s].crns \subseteq Crns
    BY DEF IInv, TypeOK, Page
  <2>2. QED
    BY <1>1, <1>3, <2>1 DEF IInv, GoodPages
<1>6. TagTellsTruth'
  BY <1>1, SameRows DEF IInv, TagTellsTruth
<1>7. QED
  BY <1>3, <1>4, <1>5, <1>6 DEF IInv

LEMMA ClientStep == IInv /\ (ReadVersion \/ ReadRows) => IInv'
<1> SUFFICES ASSUME IInv, ReadVersion \/ ReadRows PROVE IInv'
  OBVIOUS
<1>1. /\ now' = now /\ rows' = rows /\ newest' = newest /\ version' = version
      /\ baseline' = baseline /\ run' = run /\ replay' = replay
      /\ written' = written /\ unmarked' = unmarked /\ started' = started
  BY DEF ReadVersion, ReadRows, store
<1>2. \/ client' = [stage |-> "tagged", tag |-> version, rows |-> NoRows]
      \/ client' = [stage |-> "kept", tag |-> client.tag, rows |-> LiveRows]
  BY DEF ReadVersion, ReadRows
<1>3. rows \in [Crns -> Row]
  BY DEF IInv, TypeOK
<1>4. /\ Times' /\ PagesFit' /\ Guarded' /\ ToWrite' /\ Written' /\ HalfWritten'
      /\ LiveIsLastWritten'
      /\ \A page : page.crns \subseteq Crns /\ Replayable(page) => Replayable(page)'
  BY <1>1, <1>3, SameRows, RunUndisturbed
<1>5. TypeOK'
  <2>1. client'.stage \in {"none", "tagged", "kept"} /\ client'.tag \in 0..version
    BY <1>2 DEF IInv, TypeOK
  <2>2. QED
    BY <1>1, <2>1 DEF IInv, TypeOK
<1>6. GoodPages'
  <2>1. \A s \in Subjects : newest[s] # None => newest[s].crns \subseteq Crns
    BY DEF IInv, TypeOK, Page
  <2>2. \A p \in replay.pages : p.crns \subseteq Crns
    BY DEF IInv, TypeOK, Page, Replay
  <2>3. QED
    BY <1>1, <1>4, <2>1, <2>2 DEF IInv, GoodPages
<1>7. TagTellsTruth'
  <2>1. CASE client' = [stage |-> "tagged", tag |-> version, rows |-> NoRows]
    BY <2>1 DEF TagTellsTruth
  <2>2. CASE client' = [stage |-> "kept", tag |-> client.tag, rows |-> LiveRows]
    <3>1. client'.rows = LiveRows
      BY <2>2
    <3>2. LiveRows' = LiveRows
      BY <1>1, SameRows
    <3>3. QED
      BY <3>1, <3>2 DEF TagTellsTruth
  <2>3. QED
    BY <1>2, <2>1, <2>2
<1>8. QED
  BY <1>4, <1>5, <1>6, <1>7 DEF IInv

LEMMA StutterStep == IInv /\ UNCHANGED vars => IInv'
<1> SUFFICES ASSUME IInv, UNCHANGED vars PROVE IInv'
  OBVIOUS
<1>1. /\ now' = now /\ rows' = rows /\ newest' = newest /\ version' = version
      /\ baseline' = baseline /\ run' = run /\ replay' = replay /\ client' = client
      /\ written' = written /\ unmarked' = unmarked /\ started' = started
  BY DEF vars
<1>2. rows \in [Crns -> Row]
  BY DEF IInv, TypeOK
<1>3. /\ Times' /\ PagesFit' /\ Guarded' /\ ToWrite' /\ Written' /\ HalfWritten'
      /\ LiveIsLastWritten'
  BY <1>1, <1>2, SameRows, RunUndisturbed
<1>4. TypeOK' /\ GoodPages' /\ TagTellsTruth'
  <2>1. TypeOK'
    BY <1>1 DEF IInv, TypeOK
  <2>2. now \in Nat
    BY DEF IInv, TypeOK
  <2>3. \A page : Replayable(page) => Replayable(page)'
    BY <1>1, <2>2, SameRowsReplayable
  <2>4. GoodPages'
    BY <1>1, <2>3 DEF IInv, GoodPages
  <2>5. TagTellsTruth'
    BY <1>1, SameRows DEF IInv, TagTellsTruth
  <2>6. QED
    BY <2>1, <2>4, <2>5
<1>5. QED
  BY <1>3, <1>4 DEF IInv

-----------------------------------------------------------------------------
(* The theorems.                                                           *)

LEMMA Inductive == IInv /\ [Next]_vars => IInv'
<1> SUFFICES ASSUME IInv, [Next]_vars PROVE IInv'
  OBVIOUS
<1>1. CASE Next
  BY <1>1, BeginStep, OneSubjectStep, QuarantineStep, PassGuardsStep, UpsertSectionsStep,
     WithdrawMissingStep, FinishOkStep, StopStep, ReplayBeginStep, ReplayListingStep,
     ReplayEndStep, ClientStep DEF Next
<1>2. CASE UNCHANGED vars
  BY <1>2, StutterStep
<1>3. QED
  BY <1>1, <1>2

(* In every reachable state, for every number of subjects, crns and runs.  *)
THEOREM InvariantHolds == Spec => []IInv
<1>1. Init => IInv
  BY Initially
<1>2. IInv /\ [Next]_vars => IInv'
  BY Inductive
<1>3. QED
  BY <1>1, <1>2, PTL DEF Spec

(* Every variable keeps its type.                                          *)
THEOREM TypeCorrect == Spec => []TypeOK
<1>1. IInv => TypeOK
  BY DEF IInv
<1>2. QED
  BY <1>1, InvariantHolds, PTL

(* The live sections of a subject are those of the page written last,      *)
(* whatever replays, quarantined and stopped runs come between.            *)
THEOREM LiveSectionsAreLastWritten == Spec => []LiveIsLastWritten
<1>1. IInv => LiveIsLastWritten
  BY DEF IInv
<1>2. QED
  BY <1>1, InvariantHolds, PTL

(* A "not modified" answer is true outside the two cases the property      *)
(* names: rows being written, and rows written by what moves no tag.       *)
THEOREM TagsTellTruth == Spec => []TagTellsTruth
<1>1. IInv => TagTellsTruth
  BY DEF IInv
<1>2. QED
  BY <1>1, InvariantHolds, PTL

(* A replay neither undoes nor makes a withdrawal, at any point of a run.  *)
THEOREM ReplaysKeepLiveSet == Spec => ReplayKeepsLiveSet
<1>1. IInv /\ [Next]_vars =>
        [replay' # replay => \A c \in Crns : IsLive(c) <=> IsLive(c)']_vars
  <2> SUFFICES ASSUME IInv, Next, replay' # replay, NEW c \in Crns
               PROVE  IsLive(c) <=> IsLive(c)'
    BY DEF vars
  <2>1. ReplayBegin \/ ReplayListing \/ ReplayEnd
    BY DEF Next, Begin, Quarantine, PassGuards, WithdrawMissing, FinishOk, Stop,
           OneSubject, UpsertSections, ReadVersion, ReadRows
  <2>2. CASE ReplayBegin \/ ReplayEnd
    BY <2>2, SameRows DEF ReplayBegin, ReplayEnd, store
  <2>3. CASE ReplayListing
    BY <2>3, ReplayListingRows
  <2>4. QED
    BY <2>1, <2>2, <2>3
<1>2. QED
  BY <1>1, InvariantHolds, PTL DEF Spec, ReplayKeepsLiveSet

LEMMA UpsertKeepsLive ==
  ASSUME IInv, NEW s \in Subjects, UpsertSections(s), NEW t \in Subjects, LiveOf(t) # {}
  PROVE  LiveOf(t)' # {}
<1>1. s \in run.todo /\ Writing /\ rows' = UpsertListing(run.pages[s].crns, run.pages[s].at, now)
  BY DEF UpsertSections, Writing
<1>2. now \in Nat \ {0} /\ Parsed(s) /\ \A c \in CrnsOf(s) : rows[c].withdrawn < now
  BY <1>1 DEF IInv, TypeOK, Times, ToWrite, Writing
<1>3. run.pages[s].crns \subseteq CrnsOf(s) /\ run.pages[s].at \in 1..now
  BY <1>2 DEF IInv, PagesFit, Parsed
<1>4. run.pages[s].crns \in SUBSET Crns /\ run.pages[s].at \in Nat \ {0}
  BY <1>2, <1>3 DEF CrnsOf
<1>5. /\ \A c \in Crns \ run.pages[s].crns : rows'[c] = rows[c]
      /\ \A c \in run.pages[s].crns : IsLive(c)' <=> rows[c].withdrawn < now
  BY <1>1, <1>2, <1>4, UpsertedRows DEF IInv
<1>6. \A c \in Crns : IsLive(c) => IsLive(c)'
  BY <1>2, <1>3, <1>5 DEF IsLive
<1>7. QED
  BY <1>6 DEF LiveOf, CrnsOf

LEMMA WithdrawKeepsLive ==
  ASSUME IInv, WithdrawMissing, NEW t \in Subjects, LiveOf(t) # {}
  PROVE  LiveOf(t)' # {}
<1>1. PICK s : s = run.subject
  OBVIOUS
<1>2. /\ run.stage = "withdraw"
      /\ rows' = [c \in Crns |->
           IF c \in LiveOf(s) \ run.pages[s].crns THEN [rows[c] EXCEPT !.withdrawn = now]
           ELSE rows[c]]
  BY <1>1 DEF WithdrawMissing
<1>3. s \in run.todo /\ run.pages[s].crns \subseteq LiveOf(s)
  BY <1>1, <1>2 DEF IInv, HalfWritten
<1>4. PICK c \in LiveOf(t) : c \notin LiveOf(s) \ run.pages[s].crns
  <2>1. CASE t = s
    BY <1>2, <1>3, <2>1 DEF IInv, ToWrite, Writing
  <2>2. CASE t # s
    BY <2>2 DEF LiveOf, CrnsOf
  <2>3. QED
    BY <2>1, <2>2
<1>5. c \in Crns /\ rows'[c] = rows[c]
  BY <1>2, <1>4 DEF LiveOf, CrnsOf
<1>6. c \in LiveOf(t)'
  BY <1>5 DEF LiveOf, IsLive, CrnsOf
<1>7. QED
  BY <1>6

(* No step takes the last live section of a subject.                       *)
THEOREM SubjectsAreNotEmptied == Spec => NoSubjectEmptied
<1>1. IInv /\ [Next]_vars =>
        [\A s \in Subjects : LiveOf(s) # {} => LiveOf(s)' # {}]_vars
  <2> SUFFICES ASSUME IInv, Next, NEW t \in Subjects, LiveOf(t) # {}
               PROVE  LiveOf(t)' # {}
    OBVIOUS
  <2>1. CASE \E s \in Subjects : UpsertSections(s)
    BY <2>1, UpsertKeepsLive
  <2>2. CASE WithdrawMissing
    BY <2>2, WithdrawKeepsLive
  <2>3. CASE ReplayListing
    <3>1. \A c \in Crns : IsLive(c)' <=> IsLive(c)
      BY <2>3, ReplayListingRows
    <3>2. QED
      BY <3>1 DEF LiveOf, CrnsOf
  <2>4. CASE rows' = rows
    BY <2>4, SameRows
  <2>5. QED
    BY <2>1, <2>2, <2>3, <2>4
       DEF Next, Begin, Quarantine, PassGuards, FinishOk, Stop, OneSubject, ReplayBegin,
           ReplayEnd, ReadVersion, ReadRows, store
<1>2. QED
  BY <1>1, InvariantHolds, PTL DEF Spec, NoSubjectEmptied
=============================================================================
