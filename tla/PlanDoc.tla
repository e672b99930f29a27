------------------------------- MODULE PlanDoc -------------------------------
(***************************************************************************)
(* The plan document (skyspace-core, plan.rs) and the edits the board makes *)
(* to it (the reducer of usePlan.ts and dropOn of useBoardDrag.ts).        *)
(*                                                                         *)
(* A PlannedCourse and a ManualCourseCard share one record: `origin' is    *)
(* None exactly on a planned course, `course' is its code, or the Rice     *)
(* equivalent of a manual card (None without one).  Names, notes, labels   *)
(* and titles are left out; a claim is the requirement it is about.        *)
(* A column's position names it, because the board holds one column per    *)
(* position: `id' is the position.                                         *)
(***************************************************************************)
EXTENDS Requirements, Orders

CONSTANT Entries          \* card ids the browser may mint
TermKinds == {"rice", "away", "off"}
BarringOrigins == {"ap", "ib"}         \* CreditOrigin::bars_attribute_slots

PlannedCourse(id, course, credits, fills, observed) ==
    [id |-> id, course |-> course, credits |-> credits, fills |-> fills,
     claims |-> {}, origin |-> None, source |-> None, observed |-> observed,
     carried |-> None]
ManualCard(id, origin, course, credits, source, fills, claims) ==
    [id |-> id, course |-> course, credits |-> credits, fills |-> fills,
     claims |-> claims, origin |-> origin, source |-> source,
     observed |-> None, carried |-> None]
PlanTerm(position, kind, cards, nonCourse) ==
    [id |-> position, kind |-> kind, cards |-> cards, nonCourse |-> nonCourse]
Plan(year, programs, incoming, terms, selfChecks) ==
    [catalogYear |-> year, programs |-> programs, incoming |-> incoming,
     terms |-> terms, selfChecks |-> selfChecks]

SumCredits(cards) == FoldLeft(LAMBDA sum, c : Plus(sum, c.credits), 0, cards)
PlannedCredits(term) == SumCredits(term.cards)
ExpectedGraduation(plan) == {t.id : t \in {u \in ToSet(plan.terms) :
                               \A v \in ToSet(plan.terms) : v.id <= u.id}}

(* Where a card is *)
CardsOf(plan) == ToSet(plan.incoming)
                    \cup UNION {ToSet(t.cards) : t \in ToSet(plan.terms)}
EntriesOf(plan) == {c.id : c \in CardsOf(plan)}
TermsNamed(plan, id) == {t \in ToSet(plan.terms) : t.id = id}
Located(plan, e) ==      \* empty when the card is gone
    {[where |-> "incoming", card |-> c] : c \in {d \in ToSet(plan.incoming) : d.id = e}}
    \cup UNION {{[where |-> t.kind, card |-> c] : c \in {d \in ToSet(t.cards) : d.id = e}} :
                  t \in ToSet(plan.terms)}
Fresh(plan) == CHOOSE e \in Entries : e \notin EntriesOf(plan)
CanMint(plan) == Entries \ EntriesOf(plan) # {}

(* Reducer helpers *)
MapTerms(plan, F(_)) == [plan EXCEPT !.terms = [k \in DOMAIN plan.terms |-> F(plan.terms[k])]]
MapCards(plan, F(_)) ==
    LET Each(t) == [t EXCEPT !.cards = [i \in DOMAIN t.cards |-> F(t.cards[i])]]
    IN  [MapTerms(plan, Each) EXCEPT
            !.incoming = [i \in DOMAIN plan.incoming |-> F(plan.incoming[i])]]
MapEntry(plan, e, F(_)) == MapCards(plan, LAMBDA c : IF c.id = e THEN F(c) ELSE c)
WithoutEntry(plan, e) ==
    LET Kept(cards) == Chosen(cards, {i \in DOMAIN cards : cards[i].id # e})
    IN  [MapTerms(plan, LAMBDA t : [t EXCEPT !.cards = Kept(t.cards)])
           EXCEPT !.incoming = Kept(plan.incoming)]
InsertCourse(plan, to, index, card) ==      \* only a Rice column takes it
    MapTerms(plan, LAMBDA t :
        IF t.id = to /\ t.kind = "rice"
        THEN [t EXCEPT !.cards = InsertAt(t.cards, 1 + (IF index < Len(t.cards) THEN index ELSE Len(t.cards)), card)]
        ELSE t)
InsertManualCard(plan, to, card) ==         \* to = Incoming: the first column
    IF to = Incoming THEN [plan EXCEPT !.incoming = Append(@, card)]
    ELSE MapTerms(plan, LAMBDA t :
            IF t.id = to /\ t.kind = "away"
            THEN [t EXCEPT !.cards = Append(t.cards, card)] ELSE t)

(* Refusals: nothing is ever deleted by a toggle *)
KindChangeForgetsNoRice(t, kind) == kind = "off" /\ kind # t.kind /\ t.cards # <<>>   \* mutant
KindChangeBlocked(t, kind) ==
    /\ kind # t.kind
    /\ \/ kind = "off" /\ t.cards # <<>>
       \/ kind = "rice" /\ t.kind = "away" /\ \E c \in ToSet(t.cards) : c.course = None
RemoveBlocked(t) == \/ KindChangeBlocked(t, "off")
                    \/ t.nonCourse # {}

Convert(t, kind, origin) ==     \* origin: what the column's label suggests
    LET ToManual(c) == ManualCard(c.id, IF c.carried = None THEN origin ELSE c.carried,
                                  c.course, c.credits, None, c.fills, c.claims)
        ToPlanned(c) == [PlannedCourse(c.id, c.course, c.credits, c.fills, None)
                            EXCEPT !.claims = c.claims, !.carried = c.origin]
        cards == IF kind = t.kind THEN t.cards
                 ELSE IF kind = "off" \/ t.kind = "off" THEN <<>>
                 ELSE IF kind = "away" THEN [i \in DOMAIN t.cards |-> ToManual(t.cards[i])]
                 ELSE LET mapped == Chosen(t.cards, {i \in DOMAIN t.cards : t.cards[i].course # None})
                      IN  [i \in DOMAIN mapped |-> ToPlanned(mapped[i])]
    IN  [t EXCEPT !.kind = kind, !.cards = cards]

(* reducePlan, one operator per action *)
MoveCourse(plan, e, to, index) ==
    IF \E l \in Located(plan, e) : l.where = "rice"
    THEN InsertCourse(WithoutEntry(plan, e), to, index, (CHOOSE l \in Located(plan, e) : TRUE).card)
    ELSE plan
MoveManualCard(plan, e, to) ==
    IF \E l \in Located(plan, e) : l.where # "rice"
    THEN InsertManualCard(WithoutEntry(plan, e), to, (CHOOSE l \in Located(plan, e) : TRUE).card)
    ELSE plan
Unpinned(fills, rules) == SelectSeq(fills, LAMBDA r : r \notin rules)
Unpin(card, rules) == [card EXCEPT !.fills = Unpinned(@, rules), !.claims = @ \ rules]
SetFills(plan, e, program, rule) ==
    MapEntry(plan, e, LAMBDA c :
        LET clear == Unpin(c, RuleIds(program)) IN [clear EXCEPT !.fills = Append(@, rule)])
ClearFill(plan, e, program) == MapEntry(plan, e, LAMBDA c : Unpin(c, RuleIds(program)))
SetFillClaim(plan, e, rule) == MapEntry(plan, e, LAMBDA c : [c EXCEPT !.claims = @ \cup {rule}])
SetCredits(plan, e, credits) == MapEntry(plan, e, LAMBDA c : [c EXCEPT !.credits = credits])
EditManualCard(plan, e, origin, course, source) ==
    MapEntry(plan, e, LAMBDA c : IF c.origin = None THEN c
        ELSE [c EXCEPT !.origin = origin, !.course = course, !.source = source])
ConfirmSelfCheck(plan, rule) == [plan EXCEPT !.selfChecks = @ \cup {rule}]
ClearSelfCheck(plan, rule)   == [plan EXCEPT !.selfChecks = @ \ {rule}]
SetTerm(plan, id, kind, origin) ==
    MapTerms(plan, LAMBDA t : IF t.id = id /\ ~KindChangeBlocked(t, kind)
                              THEN Convert(t, kind, origin) ELSE t)
AddTermAtEnd(plan, position) ==      \* mutant: not put in board order
    IF TermsNamed(plan, position) # {} THEN plan
    ELSE [plan EXCEPT !.terms = Append(@, PlanTerm(position, "rice", <<>>, {}))]
AddTermAt(plan, position) ==
    IF TermsNamed(plan, position) # {} THEN plan
    ELSE LET terms == ToSet(plan.terms) \cup {PlanTerm(position, "rice", <<>>, {})}
         IN  [plan EXCEPT !.terms = InOrder(terms, [t \in terms |-> t.id])]
FreePosition(plan, after) ==    \* the next position no column holds
    CHOOSE p \in (after + 1) .. (after + 1 + Len(plan.terms)) :
        /\ TermsNamed(plan, p) = {}
        /\ \A q \in (after + 1) .. (p - 1) : TermsNamed(plan, q) # {}
AddTermAfter(plan, after) ==
    IF TermsNamed(plan, after) = {} THEN plan ELSE AddTermAt(plan, FreePosition(plan, after))
RemoveTerm(plan, id) ==
    [plan EXCEPT !.terms = Chosen(@, {k \in DOMAIN @ : @[k].id # id \/ RemoveBlocked(@[k])})]
SetCatalogYear(plan, year) == [plan EXCEPT !.catalogYear = year]
SetPrograms(plan, programs, majors, held) ==
    LET dropped == UNION {RuleIds(p) : p \in {q \in held : /\ q.id \in ToSet(plan.programs)
                                                           /\ q.id \notin ToSet(programs)}}
    IN  IF ToSet(programs) \cap majors = {} THEN plan     \* a plan keeps a major
        ELSE [MapCards(plan, LAMBDA c : Unpin(c, dropped))
                EXCEPT !.programs = programs, !.selfChecks = @ \ dropped]

(* dropOn: a card or a tray course (card = None) let go over a column *)
DuplicateOf(plan, facts, course) ==     \* a tray course already on the board is refused
    /\ ~(Known(facts, course) /\ Info(facts, course).repeatable)
    /\ \E c \in CardsOf(plan) : /\ c.course # None
                                /\ Canonical(facts, c.course) = Canonical(facts, course)
DropCard(plan, e, to, index, origin) ==
    LET card == (CHOOSE l \in Located(plan, e) : TRUE).card
    IN  IF \E t \in TermsNamed(plan, to) : t.kind = "rice" THEN MoveCourse(plan, e, to, index)
        ELSE IF \E t \in TermsNamed(plan, to) : t.kind = "away"
        THEN InsertManualCard(WithoutEntry(plan, e), to,
                ManualCard(Fresh(plan), origin, card.course, card.credits, None, card.fills, {}))
        ELSE plan
DropCourse(plan, facts, course, credits, observed, fills, to, index, origin) ==
    IF DuplicateOf(plan, facts, course) THEN plan
    ELSE IF \E t \in TermsNamed(plan, to) : t.kind = "rice"
    THEN InsertCourse(plan, to, index, PlannedCourse(Fresh(plan), course, credits, fills, observed))
    ELSE IF \E t \in TermsNamed(plan, to) : t.kind = "away"
    THEN InsertManualCard(plan, to, ManualCard(Fresh(plan), origin, course, credits, None, fills, {}))
    ELSE plan
=============================================================================
