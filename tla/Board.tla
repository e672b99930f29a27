-------------------------------- MODULE Board --------------------------------
(***************************************************************************)
(* The plan page: the student edits the board, every edit makes the last   *)
(* report stale, and the engine evaluates the plan again (usePlan.ts over   *)
(* the wasm engine).  Each action below is one way the page offers to      *)
(* change the plan, with the guard the page puts on it.                    *)
(***************************************************************************)
EXTENDS Bundle

CONSTANTS
    Boards,        \* the plans the student may open
    Catalog,       \* the published catalog
    CatalogYearHeld,  \* the year whose facts the page holds
    Limits,        \* Rice's normal load
    Tray,          \* courses that can be dragged in from the catalog
    YearsOffered,  \* catalog years the settings offer
    HoursTyped,    \* hours the student types in the edit dialog
    OriginsTyped,  \* credit origins the student picks
    Matriculation, \* the student's first term
    MaxEdits       \* bound: edits after opening

VARIABLES plan, report, edits
vars == <<plan, report, edits>>

Programs   == Catalog.programs
Facts      == CourseFacts(Catalog, AllCodes(Catalog), CatalogYearHeld, Catalog.aliases)
Rows       == Prerequisites(Catalog, AllCodes(Catalog))
Exclusions == ExclusionRows(Catalog, AllCodes(Catalog))
Bundle(p) == [plan |-> p, programs |-> Programs, facts |-> Facts,
              prerequisites |-> Rows, exclusions |-> Exclusions,
              limits |-> Limits, invalidations |-> {}]
Majors == {p.id : p \in {q \in Programs : q.kind = "major"}}
CourseRuleIds == UNION {{r.id : r \in CourseRules(p)} : p \in Programs}
RiceCards == {tc[2].id : tc \in OnTerms(plan, {"rice"})}
ManualCards == EntriesOf(plan) \ RiceCards
Columns(kinds) == {t.id : t \in {u \in ToSet(plan.terms) : u.kind \in kinds}}
Indices(to) == {0} \cup {Len(t.cards) : t \in TermsNamed(plan, to)}
Observed(course) == IF Known(Facts, course)
                    THEN [attributes |-> Info(Facts, course).attributes,
                          credits |-> Info(Facts, course).credits] ELSE None
Hours(course) == IF Known(Facts, course) THEN MinHours(Info(Facts, course).credits) ELSE 0

\* The places the settings offer for a column: from the first one's year to a year
\* past the last one's, the first PositionsLooked of them, minus what exists.
PositionsLooked == 60
OpenPositions(p) ==
    LET held  == IF p.terms = <<>> THEN <<Matriculation>> ELSE [k \in DOMAIN p.terms |-> p.terms[k].id]
        from  == At(YearOf(held[1]), Fall)
        until == At(YearOf(held[Len(held)]) + 1, Summer)
    IN  {q \in from .. until : q < from + PositionsLooked /\ TermsNamed(p, q) = {}}

Edit(p) == /\ edits < MaxEdits
           /\ plan' = p
           /\ p # plan
           /\ report' = None
           /\ edits' = edits + 1

Init == plan \in Boards /\ report = None /\ edits = 0

Recompute == /\ report = None
             /\ report' = Evaluate(Bundle(plan))
             /\ UNCHANGED <<plan, edits>>

(* Drag and drop *)
Drop == \E e \in RiceCards, to \in Columns({"rice", "away"}) : \E i \in Indices(to) :
            /\ CanMint(plan)
            /\ Edit(DropCard(plan, e, to, i, "study_abroad"))
DropFromTray == \E c \in Tray, to \in Columns({"rice", "away"}) :
            /\ CanMint(plan)
            /\ Edit(DropCourse(plan, Facts, c, Hours(c), Observed(c), <<>>, to, 0, "study_abroad"))
RemoveCard == \E e \in EntriesOf(plan) : Edit(WithoutEntry(plan, e))
DropOnRequirement == \E e \in RiceCards, p \in Programs : \E r \in CourseRules(p) :
            Edit(SetFills(plan, e, p, r.id))

(* Manual cards and the edit dialog *)
MoveManual == \E e \in ManualCards, to \in Columns({"away"}) \cup {Incoming} :
            Edit(MoveManualCard(plan, e, to))
ChangeHours == \E e \in EntriesOf(plan), h \in HoursTyped : Edit(SetCredits(plan, e, h))
EditManual == \E e \in ManualCards, o \in OriginsTyped, c \in Tray \cup {None},
                 s \in {"manual", "equivalent"} : Edit(EditManualCard(plan, e, o, c, s))
MatchAgain == \E e \in EntriesOf(plan), p \in Programs : Edit(ClearFill(plan, e, p))
Claim == \E e \in EntriesOf(plan), p \in Programs : \E r \in CourseRules(p) :
            Edit(SetFillClaim(SetFills(plan, e, p, r.id), e, r.id))
Tick == \E p \in Programs : \E n \in ToSet(Nodes(p)) :
            ~IsGroup(n) /\ n.kind \notin {"course", "credits"} /\ Edit(ConfirmSelfCheck(plan, n.id))
Untick == \E r \in plan.selfChecks : Edit(ClearSelfCheck(plan, r))

(* Columns and settings *)
ChangeTerm == \E t \in Columns(TermKinds), k \in TermKinds : Edit(SetTerm(plan, t, k, "study_abroad"))
AddAfter == \E t \in Columns(TermKinds) : Edit(AddTermAfter(plan, t))
AddAt == \E q \in OpenPositions(plan) : Edit(AddTermAt(plan, q))
RemoveColumn == \E t \in Columns(TermKinds) : Edit(RemoveTerm(plan, t))
ChangeYear == \E y \in YearsOffered : Edit(SetCatalogYear(plan, y))
ChangePrograms == \E p \in {q.id : q \in Programs} :
            Edit(SetPrograms(plan, IF p \in ToSet(plan.programs)
                                   THEN Chosen(plan.programs, {k \in DOMAIN plan.programs : plan.programs[k] # p})
                                   ELSE Append(plan.programs, p), Majors, Programs))

Next == \/ Recompute
        \/ Drop \/ DropFromTray \/ RemoveCard \/ DropOnRequirement
        \/ MoveManual \/ ChangeHours \/ EditManual \/ MatchAgain \/ Claim \/ Tick \/ Untick
        \/ ChangeTerm \/ AddAfter \/ AddAt \/ RemoveColumn \/ ChangeYear \/ ChangePrograms
Spec == Init /\ [][Next]_vars
-----------------------------------------------------------------------------
(***************************************************************************)
(* Properties.                                                             *)
(***************************************************************************)
CardOK(c) ==
    /\ c = [id |-> c.id, course |-> c.course, credits |-> c.credits, fills |-> c.fills, claims |-> c.claims,
            origin |-> c.origin, source |-> c.source, observed |-> c.observed, carried |-> c.carried]
    /\ c.id \in Entries /\ c.credits \in Credits /\ (c.origin = None => c.course # None)
CardsOK(cards) ==
    /\ cards \in Seq(ToSet(cards)) /\ \A c \in ToSet(cards) : CardOK(c)
    /\ \A i, j \in DOMAIN cards : cards[i].id = cards[j].id => i = j
TermOK(t) ==
    /\ t = PlanTerm(t.id, t.kind, t.cards, t.nonCourse) /\ t.id \in Nat /\ t.kind \in TermKinds
    /\ CardsOK(t.cards)
    /\ t.kind = "rice" => \A c \in ToSet(t.cards) : c.origin = None
    /\ t.kind = "away" => \A c \in ToSet(t.cards) : c.origin # None
    /\ t.kind = "off" => t.cards = <<>>
PlanOK(p) ==
    /\ p = Plan(p.catalogYear, p.programs, p.incoming, p.terms, p.selfChecks)
    /\ CardsOK(p.incoming) /\ \A c \in ToSet(p.incoming) : c.origin # None
    /\ p.terms \in Seq(ToSet(p.terms)) /\ \A t \in ToSet(p.terms) : TermOK(t)
SidebarOK(p) == p.programs \in Seq(ToSet(p.programs))
Holds(cards) == {c.id : c \in ToSet(cards)}
InBoardOrder(p) == \A i, j \in DOMAIN p.terms : i < j => p.terms[i].id < p.terms[j].id
NoCardTwice(p) ==
    \A t \in ToSet(p.terms) : /\ Holds(t.cards) \cap Holds(p.incoming) = {}
                              /\ \A u \in ToSet(p.terms) \ {t} : Holds(t.cards) \cap Holds(u.cards) = {}
Ordered(p) == PlanOK(p) /\ InBoardOrder(p) /\ NoCardTwice(p)

\* The plans the student opens are boards the page made; what is typed or
\* dragged in has hours that fit and names an origin and a course.
ASSUME BoardsAssumption == Matriculation \in Nat /\ \A p \in Boards : Ordered(p) /\ SidebarOK(p)
ASSUME TypedAssumption ==
    /\ HoursTyped \subseteq Credits /\ None \notin Tray /\ None \notin OriginsTyped \cup {"study_abroad"}
    /\ \A c \in DOMAIN Facts.byCode : MinHours(Facts.byCode[c].credits) \in Credits
ASSUME MaxEditsAssumption == MaxEdits \in Nat
\* Rows can be listed, a prerequisite is a list of words, those that are codes
\* name a course, and `none' is no position.
WordsOK(text) == text \in Seq(ToSet(text)) /\ \A w \in ToSet(text) : w.kind = "code" => w.code # None
ASSUME CatalogAssumption ==
    /\ IsFiniteSet(Catalog.exclusions) /\ IsFiniteSet(Catalog.records) /\ None \notin Int /\ MaxExprDepth \in Nat
    /\ \A r \in Catalog.records : r.year \in Int /\ WordsOK(r.text)
\* No two rules of a program have one id, a group is a list of rules, a choice
\* or a course asks for a number, and neither what a rule can count nor the
\* number of rules is more than a counter tells.
Tally(root, level) ==
    LET tally[n \in 0 .. MaxDepth] ==      \* of each rule with n levels left to read
            [r \in Below(root, MaxDepth - n, Under) |->
                IF r.kind = "select" THEN r.count
                ELSE IF r.kind = "all" /\ n > 0 THEN Total([i \in DOMAIN r.of |-> tally[n - 1][r.of[i]]]) ELSE 1]
    IN  tally[level]
RuleOK(r) == /\ IsGroup(r) => r.of \in Seq(ToSet(r.of))
             /\ (r.kind = "select" => r.count \in Nat) /\ (r.kind = "course" => r.semesters \in Nat)
RulesOK(root) == \A n \in 0 .. MaxDepth : \A r \in Below(root, MaxDepth - n, Under) :
                     RuleOK(r) /\ Tally(root, n)[r] \in 0 .. MaxCents
ProgramOK(p) == /\ p.nodes = Walk(p.root) /\ RulesOK(p.root)
                /\ \A r, s \in Below(p.root, MaxDepth, Under) : r.id = s.id => r = s
                /\ \A i, j \in DOMAIN p.nodes : p.nodes[i].id = p.nodes[j].id => i = j
                /\ Len(p.nodes) <= MaxCents
ASSUME RulesAssumption == MaxDepth \in Nat /\ \A p \in Programs : ProgramOK(p)

Reported(P(_, _)) ==     \* P of each evaluated program and its report
    report # None => \A k \in DOMAIN report.programs : P(ChosenPrograms(Bundle(plan))[k], report.programs[k])
Cards == CollectCards(plan, Facts)
ReportOf(tree, id) == CHOOSE r \in ToSet(Rules(tree)) : r.rule = id

\* The columns stay in board order, one per position, an Off column holds no
\* card, an away column only cards with an origin and a Rice column none of
\* them, and no card sits in two places, whatever the student does.
TypeOK == PlanOK(plan) /\ SidebarOK(plan) /\ edits \in 0 .. MaxEdits
BoardIsOrdered == TypeOK /\ InBoardOrder(plan) /\ NoCardTwice(plan)

\* Hall's formula: how many of these slots can hold a card each at once.
Rank(slots, fits) ==
    LET Near(S) == {sc[2] : sc \in {x \in fits : x[1] \in S}}
        Size(S) == Cardinality(slots) - Cardinality(S) + Cardinality(Near(S))
    IN  CHOOSE n \in 0 .. Cardinality(slots) :
            /\ \E S \in SUBSET slots : Size(S) = n
            /\ \A S \in SUBSET slots : n <= Size(S)
\* The matching leaves no slot empty that some other assignment would fill
\* without emptying an earlier one; so which slots are filled, and every count
\* made from them, does not depend on the order of the cards, and a card added
\* to the board never empties a slot.  (The test progress_ignores_course_order.)
MatchingIsMaximum ==
    Reported(LAMBDA program, rep :
        LET p    == Placement(Slots(program), Cards, Facts)
            fits == FreeMatches(p, "yes")
            held == MatchSlots(Candidates(p, fits), Cards)
        IN  \A s \in DOMAIN p.slots :
              (\E i \in DOMAIN held : held[i] = s) <=>
                 Rank(1 .. s, {sc \in fits : sc[1] <= s}) >
                 Rank(1 .. (s - 1), {sc \in fits : sc[1] < s}))

\* Within one program a card fills at most one course slot or additional-hours
\* rule, and a course rule is met only by enough cards that it accepts and that
\* are not there by claim.
MetIsEarned ==
    Reported(LAMBDA program, rep :
        LET rules == {n \in ToSet(Nodes(program)) :
                        \/ n.kind = "course"
                        \/ n.kind = "credits" /\ n.scope = "additional"}
            Held(r) == ReportOf(rep.root, r.id).filledBy
            Card(e) == CHOOSE c \in ToSet(Cards) : c.entry = e
        IN  /\ \A r, s \in rules : r.id # s.id => ToSet(Held(r)) \cap ToSet(Held(s)) = {}
            /\ \A r \in CourseRules(program) :
                 LET one == ReportOf(rep.root, r.id)
                     earned == {e \in ToSet(Held(r)) \ ToSet(one.claimedBy) :
                                  /\ Card(e).code # None
                                  /\ FilterMatch(r.filter, Card(e).code, Facts) # "no"
                                  /\ ~Barred(Card(e), r)}
                 IN  one.outcome = "met" <=> Cardinality(earned) >= r.semesters)

\* The ring and the word agree: at every rule the engine can decide, the
\* percentage is 100 exactly when the outcome is `met'.
HundredMeansMet ==
    report # None => \A r \in ToSet(AllRules(report.programs)) :
        /\ r.progress.met <= r.progress.checkable
        /\ r.progress.checkable > 0 =>
             (RequirementsPercent(r.progress) = 100 <=> r.outcome = "met")

\* No self-check is silent: each unticked leaf the engine cannot decide is a
\* warning of its own, and those counted are the leaves.  (evaluate.rs: every
\* requirement is reported once.)
SelfChecksAreTold ==
    Reported(LAMBDA program, rep :
        /\ [k \in DOMAIN Rules(rep.root) |-> Rules(rep.root)[k].rule] =
              [k \in DOMAIN Nodes(program) |-> Nodes(program)[k].id]
        /\ rep.progress.selfChecks =
              Cardinality({r \in ToSet(Rules(rep.root)) :
                             r.children = <<>> /\ r.outcome \in {"check", "confirmed"}})
        /\ \A r \in ToSet(Rules(rep.root)) : r.children = <<>> /\ r.outcome = "check" =>
              \E w \in report.warnings : w.kind = "self_check" /\ w.body.rule = r.rule)

\* The preview of a drop and the warning after it cannot disagree (warn.rs,
\* preview_placement): `satisfied' means no prerequisite warning for that
\* course in that term, anything else with a published requirement means one,
\* and the hours shown are the hours the term then has.
VerdictAgrees(kind, told) ==
    LET kinds == {w.kind : w \in told}
    IN  CASE kind = "satisfied" -> told = {}
          [] kind = "unknown" -> kinds \subseteq {"prerequisite_unparsed"}
          [] kind = "same_term" -> /\ told # {}
                                   /\ {w.body.problem.problem : w \in told} \subseteq {"same_term", "later"}
          [] OTHER -> kinds = {"prerequisite"}
Told(p, to, course) ==
    {w \in PrerequisiteProblems(p, Rows, Facts) : w.body.term = to /\ w.body.course = course}
Agrees(preview, to, course, after) ==
    /\ VerdictAgrees(preview[to].prerequisites.kind, Told(after, to, course))
    /\ \A t \in TermsNamed(after, to) : preview[to].creditsAfter = PlannedCredits(t)
PreviewAgrees ==
    report # None =>
        /\ \A l \in UNION {Located(plan, e) : e \in RiceCards} : \A to \in Columns({"rice"}) :
             Agrees(PreviewPlacement(Bundle(plan), report, l.card.course, l.card.id), to,
                    l.card.course, MoveCourse(plan, l.card.id, to, 0))
        /\ \A c \in {d \in Tray : ~DuplicateOf(plan, Facts, d) /\ CanMint(plan)} :
             \A to \in Columns({"rice"}) :
               Agrees(PreviewPlacement(Bundle(plan), report, c, None), to, c,
                      DropCourse(plan, Facts, c, Hours(c), None, <<>>, to, 0, "other"))

\* Doing what the prerequisite warnings say clears them: with every course
\* they name brought in as credit from before, no such warning is left.
WarningsCanBeFollowed ==
    report # None =>
        LET told == {w \in report.warnings : w.kind = "prerequisite"}
            granted == {ManualCard(0, "transfer", w.body.problem.course, 0, None, <<>>, {}) : w \in told}
            after == [plan EXCEPT !.incoming = @ \o SetToSeq(granted)]
        IN  \A w \in PrerequisiteProblems(after, Rows, Facts) :
                w.kind # "prerequisite"

\* Which pairs of courses are reported as mutually exclusive does not depend on
\* the order of the rows, each pair is reported once, and the course named as
\* the blocker never comes later than the one it blocks.
PairsTold(told) == {{Canonical(Facts, w.body.blocked), Canonical(Facts, w.body.blocker)} : w \in told}
FairOrder(w) == LET When(t) == IF t = None THEN Incoming ELSE t
                IN  When(w.body.blockerTerm) <= When(w.body.blockedTerm)
FairlyTold(told, reversed) == /\ PairsTold(told) = PairsTold(reversed)
                              /\ Cardinality(told) = Cardinality(PairsTold(told))
                              /\ \A w \in told : FairOrder(w)
ExclusionsAreFair == FairlyTold(ExclusionProblems(plan, Exclusions, Facts),
                                ExclusionProblems(plan, Reverse(Exclusions), Facts))

\* The slice of the catalog the server takes for a plan is everything the
\* engine needs: the report made with it is the report made with the whole
\* catalog.  (plans.rs, plan_bundle.)  The alias table is read once, so of a
\* group of three codes the slice has the rows that touch a code the plan or
\* a program names, and not the row of the third code.
BundleSuffices ==
    report # None => Evaluate(PlanBundle(Catalog, plan, Limits))
                        = Evaluate(WholeBundle(Catalog, plan, Limits))

\* No edit loses a card except taking that one card off: moving, converting a
\* column, changing programs or years all keep every card on the board.
NoCardVanishes ==
    [][\/ Cardinality(EntriesOf(plan')) >= Cardinality(EntriesOf(plan))
       \/ \E e \in EntriesOf(plan) : plan' = WithoutEntry(plan, e)]_vars
=============================================================================
