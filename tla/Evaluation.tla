----------------------------- MODULE Evaluation -----------------------------
(***************************************************************************)
(* The evaluation of a plan against its programs: skyspace-core,           *)
(* evaluate.rs.  Per program: collect the cards in board order, flatten    *)
(* the tree to slots in document order, pin the student's choices, match   *)
(* what is free by augmenting paths, then fold outcomes and progress up    *)
(* the tree while the `Additional' credit rules use cards up.              *)
(***************************************************************************)
EXTENDS Prereqs

(* Progress *)
Zero == [met |-> 0, checkable |-> 0, claimed |-> 0, creditsMet |-> 0, creditsRequired |-> 0,
         creditsUnknown |-> 0, selfChecks |-> 0, confirmed |-> 0]
Added(progresses) ==     \* all of them, each count and sum stopping at its width
    [f \in DOMAIN Zero |-> Capped(Total([k \in DOMAIN progresses |-> progresses[k][f]]))]
Percent(n, d) == IF d = 0 THEN 100
                 ELSE IF (n * 100) \div d > 100 THEN 100 ELSE (n * 100) \div d
RequirementsPercent(p) == Percent(p.met, p.checkable)
CreditsPercent(p)      == Percent(p.creditsMet, p.creditsRequired)
Bit(b) == IF b THEN 1 ELSE 0

W(kind, body) == [kind |-> kind, body |-> body]     \* a warning

(* Cards, in board order: incoming credit, then each column's *)
CollectCards(plan, facts) ==
    LET Views(cards, term) == [i \in DOMAIN cards |->
            [entry |-> cards[i].id, term |-> term, credits |-> cards[i].credits,
             fills |-> cards[i].fills, claims |-> cards[i].claims, origin |-> cards[i].origin,
             code |-> IF cards[i].course = None THEN None ELSE Canonical(facts, cards[i].course)]]
    IN  Views(plan.incoming, None)
          \o FlattenSeq([k \in DOMAIN plan.terms |-> Views(plan.terms[k].cards, plan.terms[k].id)])
BarsAttributeSlots(card) == card.origin \in BarringOrigins

(* Slots: one per semester of every course rule, document order *)
Slots(program) ==
    LET nodes == Nodes(program)
    IN  FlattenSeq([i \in DOMAIN nodes |->
            IF nodes[i].kind = "course" THEN [k \in 1 .. nodes[i].semesters |-> nodes[i]] ELSE <<>>])

(* A program's placement: its slots, the cards, each card's choice (the      *)
(* first fill naming a slot of this program) and the pins: a choice takes    *)
(* its requirement's first free slot.                                        *)
Choice(slots, card) ==
    LET named == {k \in DOMAIN card.fills : \E s \in DOMAIN slots : slots[s].id = card.fills[k]}
        first == {k \in named : \A j \in named : k <= j}
    IN  IF first = {} THEN None ELSE card.fills[CHOOSE k \in first : TRUE]
Pinned(slots, choice) ==     \* card index -> slot index
    LET Room(i) == Ascending({s \in DOMAIN slots : slots[s].id = choice[i]})
        Nth(i)  == Cardinality({j \in 1 .. i : choice[j] = choice[i]})
    IN  [i \in {j \in DOMAIN choice : choice[j] # None /\ Nth(j) <= Len(Room(j))} |->
            Room(i)[Nth(i)]]
WithPins(slots, cards, facts, choice) ==
    [slots |-> slots, cards |-> cards, facts |-> facts, choice |-> choice,
     pins |-> Pinned(slots, choice)]
Placement(slots, cards, facts) ==
    WithPins(slots, cards, facts, [i \in DOMAIN cards |-> Choice(slots, cards[i])])

\* A pin the filter rejects is a claim; AP and IB on an attribute slot too.
Barred(card, rule)   == BarsAttributeSlots(card) /\ NeedsAttribute(rule.filter)
Rejected(card, rule, facts) ==
    card.code = None \/ FilterMatch(rule.filter, card.code, facts) = "no"
BarredPins(p)   == {i \in DOMAIN p.pins : Barred(p.cards[i], p.slots[p.pins[i]])}
RejectedPins(p) == {i \in DOMAIN p.pins : Rejected(p.cards[i], p.slots[p.pins[i]], p.facts)}
ClaimedByFilter(p) == RejectedPins(p)      \* mutant: AP credit counts everywhere
Claimed(p) == BarredPins(p) \cup RejectedPins(p)
Overbooked(p)   == {i \in DOMAIN p.choice \ DOMAIN p.pins : p.choice[i] # None}
PinWarnings(p) ==
    {W("choice_unmatched", [term |-> p.cards[i].term, entry |-> p.cards[i].entry,
                            rule |-> p.choice[i]]) :
       i \in Overbooked(p) \cup (RejectedPins(p) \ BarredPins(p))}
    \cup {W("credit_ineligible", [entry |-> p.cards[i].entry, rule |-> p.choice[i],
                                  origin |-> p.cards[i].origin]) : i \in BarredPins(p)}

(* The free pool: which cards each open slot takes, in board order *)
FreeMatches(p, answer) ==     \* <<slot, card>> with this FilterMatch
    {sc \in {s \in DOMAIN p.slots : \A i \in DOMAIN p.pins : p.pins[i] # s}
            \X {i \in DOMAIN p.cards \ DOMAIN p.pins : p.cards[i].code # None} :
        /\ ~Barred(p.cards[sc[2]], p.slots[sc[1]])
        /\ FilterMatch(p.slots[sc[1]].filter, p.cards[sc[2]].code, p.facts) = answer}
Candidates(p, fits) ==
    [s \in DOMAIN p.slots |-> Ascending({i \in DOMAIN p.cards : <<s, i>> \in fits})]
AttributeUnknown(p) ==
    {W("attribute_unknown", [term |-> p.cards[sc[2]].term, entry |-> p.cards[sc[2]].entry,
                             course |-> p.cards[sc[2]].code]) :
       sc \in {x \in FreeMatches(p, "unknown") : p.cards[x[2]].term # None}}

(* Maximum matching by augmenting paths.  state: [ok, seen, slotOf], slotOf  *)
(* the slot each card holds (0 for none).  A slot asks its cards in order;   *)
(* one that is held is asked of the slot that holds it; n is how many cards  *)
(* may still be asked.                                                       *)
Try(slot, card, st, Moved(_)) ==
    LET marked == [st EXCEPT !.seen = @ \cup {card}]
        freed == IF st.slotOf[card] = 0 THEN [marked EXCEPT !.ok = TRUE] ELSE Moved(<<st.slotOf[card], marked>>)
    IN  IF st.ok \/ card \in st.seen THEN st
        ELSE IF freed.ok THEN [freed EXCEPT !.slotOf[card] = slot] ELSE freed
Augment(candidates, cards) ==
    LET States == [ok : BOOLEAN, seen : SUBSET DOMAIN cards, slotOf : [DOMAIN cards -> 0 .. Len(candidates)]]
        augment[n \in 0 .. Len(cards)] ==
            [x \in (DOMAIN candidates) \X States |->
                LET mine == candidates[x[1]]
                    tried[k \in 0 .. Len(mine)] ==
                        IF k = 0 \/ n = 0 THEN [x[2] EXCEPT !.ok = FALSE]
                        ELSE Try(x[1], mine[k], tried[k - 1], LAMBDA y : augment[n - 1][y])
                IN  tried[Len(mine)]]
    IN  augment[Len(cards)]
MatchGreedily(candidates, cards) ==      \* mutant: no card ever moves over
    FoldLeft(LAMBDA slotOf, s :
                LET free == SelectSeq(candidates[s], LAMBDA i : slotOf[i] = 0)
                IN  IF free = <<>> THEN slotOf ELSE [slotOf EXCEPT ![free[1]] = s],
             [i \in DOMAIN cards |-> 0], [s \in DOMAIN candidates |-> s])
MatchSlots(candidates, cards) ==
    LET matched[s \in 0 .. Len(candidates)] ==
            IF s = 0 THEN [i \in DOMAIN cards |-> 0]
            ELSE Augment(candidates, cards)[<<s, [ok |-> FALSE, seen |-> {}, slotOf |-> matched[s - 1]]>>].slotOf
    IN  matched[Len(candidates)]

\* What each course rule received: the pins in board order, then the matches.
AssignedBy(p, slotOf) ==
    [r \in {p.slots[s].id : s \in DOMAIN p.slots} |->
        Ascending({i \in DOMAIN p.cards : i \in DOMAIN p.pins /\ p.choice[i] = r})
          \o Ascending({i \in DOMAIN p.cards : slotOf[i] # 0 /\ p.slots[slotOf[i]].id = r})]
MatchCards(p) == AssignedBy(p, MatchSlots(Candidates(p, FreeMatches(p, "yes")), p.cards))

(* Rules.  ctx: [cards, facts, assigned, claimed, confirmed, claimedIn];     *)
(* an outcome is met, partial, unmet, check (not ticked) or confirmed.       *)
Assigned(ctx, r) == IF r.id \in DOMAIN ctx.assigned THEN ctx.assigned[r.id] ELSE <<>>
EntriesIn(ctx) == {ctx.cards[i].entry : i \in DOMAIN ctx.cards}
EntriesAt(ctx, indices) == [k \in DOMAIN indices |-> ctx.cards[indices[k]].entry]
CreditsOf(ctx, indices) == FoldLeft(LAMBDA sum, i : Plus(sum, ctx.cards[i].credits), 0, indices)
LastClaim(ctx, r) == LET at == {t \in DOMAIN ctx.claimedIn : r.id \in ctx.claimedIn[t]}
                     IN  {t \in at : \A u \in at : u <= t}
Report(ctx, r, outcome, progress, filled, claimed, children) ==
    [rule |-> r.id, outcome |-> outcome, progress |-> progress, filledBy |-> filled,
     claimedBy |-> claimed, claimedIn |-> LastClaim(ctx, r),
     children |-> children]
SelfCheck(ctx, r) ==
    LET ticked == r.id \in ctx.confirmed
    IN  Report(ctx, r, IF ticked THEN "confirmed" ELSE "check",
               [Zero EXCEPT !.selfChecks = 1, !.confirmed = Bit(ticked)], <<>>, <<>>, <<>>)
Graded(met, some) == IF met THEN "met" ELSE IF some THEN "partial" ELSE "unmet"

CourseReport(ctx, r) ==
    LET filled  == Assigned(ctx, r)
        claimed == {k \in DOMAIN filled : filled[k] \in ctx.claimed}
        matched == Chosen(filled, DOMAIN filled \ claimed)
        met     == Len(matched) >= r.semesters
        hours   == IF r.hours # None THEN {r.hours}
                   ELSE {Info(ctx.facts, c).credits :
                           c \in {d \in SingleCode(r.filter) : Known(ctx.facts, d)}}
    IN  Report(ctx, r, Graded(met, filled # <<>>),
            [Zero EXCEPT !.checkable = 1, !.met = Bit(met),
                !.claimed = Bit(~met /\ Len(filled) > Len(matched)),
                !.creditsMet = CreditsOf(ctx, matched),
                !.creditsRequired = IF hours = {} THEN 0
                                    ELSE Times(MinHours(CHOOSE h \in hours : TRUE), r.semesters),
                !.creditsUnknown = Bit(hours = {})],
            EntriesAt(ctx, filled),
            EntriesAt(ctx, Chosen(filled, claimed)), <<>>)

\* Cards in board order until the minimum is reached; `used' are taken already.
CreditsReport(ctx, r, used) ==
    LET eligible == {i \in DOMAIN ctx.cards :
            /\ IF ctx.cards[i].code = None THEN r.from.include = {}
               ELSE FilterMatch(r.from, ctx.cards[i].code, ctx.facts) = "yes"
            /\ r.scope = "any" \/ ctx.cards[i].entry \notin used}
        taken == Ascending({i \in eligible :
                    CreditsOf(ctx, Ascending({j \in eligible : j < i})) < r.minimum})
        total == CreditsOf(ctx, taken)
    IN  Report(ctx, r, Graded(total >= r.minimum, total > 0),
               [Zero EXCEPT !.checkable = 1, !.met = Bit(total >= r.minimum),
                            !.creditsMet = total, !.creditsRequired = r.minimum],
               EntriesAt(ctx, taken), <<>>, <<>>)

DistinctReport(ctx, r, siblings) ==
    LET rules == SelectSeq(siblings, LAMBDA s : s.kind = "course")
        held  == FlattenSeq([k \in DOMAIN rules |-> Assigned(ctx, rules[k])])
        slots == FoldLeft(LAMBDA n, s : n + s.semesters, 0, rules)
        Department(i) == IF ctx.cards[i].code # None /\ Known(ctx.facts, ctx.cards[i].code)
                         THEN Info(ctx.facts, ctx.cards[i].code).department ELSE None
        departments == {Department(i) : i \in ToSet(held)}
        met == Len(held) >= slots /\ Cardinality(departments) >= r.minimum
    IN  IF None \in departments
        THEN [SelfCheck(ctx, r) EXCEPT !.filledBy = EntriesAt(ctx, held)]
        ELSE Report(ctx, r, Graded(met, held # <<>>),
                    [Zero EXCEPT !.checkable = 1, !.met = Bit(met)], EntriesAt(ctx, held), <<>>, <<>>)

\* A Select holds the hours of its `count' best options and asks for its own.
SelectHours(r, children) ==
    LET held == SortSeq([k \in DOMAIN children |-> children[k].progress.creditsMet],
                        LAMBDA a, b : a > b)
    IN  FoldLeft(Plus, 0, SubSeq(held, 1, IF r.count < Len(held) THEN r.count ELSE Len(held)))
Needed(r, checkable, selfCheck) ==
    IF r.kind = "all" \/ (selfCheck /\ checkable < r.count) THEN checkable ELSE r.count
GroupProgressSummed(r, sum, met, needed, children) == sum      \* mutant: a Select as an All
GroupProgress(r, sum, met, needed, children) ==
    IF r.kind = "all" THEN sum
    ELSE [sum EXCEPT !.met = IF met < needed THEN met ELSE needed,
                     !.checkable = needed,
                     !.creditsMet = SelectHours(r, children),
                     !.creditsRequired = IF r.hours = None THEN 0 ELSE MinHours(r.hours),
                     !.creditsUnknown = Bit(r.hours = None)]
GroupOf(ctx, r, children, met, needed, selfCheck) ==
    LET sum  == Added([k \in DOMAIN children |-> children[k].progress])
        some == \E c \in ToSet(children) : c.outcome \in {"met", "partial", "confirmed"}
    IN  Report(ctx, r, IF needed = 0 /\ selfCheck THEN "check" ELSE Graded(met >= needed, some),
               GroupProgress(r, sum, met, needed, children), <<>>, <<>>, children)
GroupReport(ctx, r, children) ==
    LET checkable == {k \in DOMAIN children : children[k].progress.checkable > 0}
        met       == {k \in checkable : children[k].outcome = "met"}
        selfCheck == \E c \in ToSet(children) : c.outcome \in {"check", "confirmed"}
    IN  GroupOf(ctx, r, children, Cardinality(met), Needed(r, Cardinality(checkable), selfCheck), selfCheck)

(* The walk: document order, `used' threaded through.  A group at MaxDepth  *)
(* is not read: it is the student's to check.                               *)
RuleReport(ctx, r, used) ==      \* of a rule that is no group
    LET credits == CreditsReport(ctx, r, used)
        Same(report) == [report |-> report, used |-> used]
    IN  CASE r.kind = "course" -> Same(CourseReport(ctx, r))
          [] r.kind = "credits" ->
               [report |-> credits,
                used |-> IF r.scope = "additional" THEN used \cup ToSet(credits.filledBy) ELSE used]
          [] OTHER -> Same(SelfCheck(ctx, r))
Inside(ctx, r, used, Eval(_)) ==      \* the reports of a group's children
    LET inside[k \in 0 .. Len(r.of)] ==
            IF k = 0 THEN [reports |-> <<>>, used |-> used]
            ELSE LET c == r.of[k]
                     one == Eval(<<c, inside[k - 1].used>>)
                 IN  IF c.kind = "distinct"
                     THEN [reports |-> Append(inside[k - 1].reports, DistinctReport(ctx, c, r.of)),
                           used |-> inside[k - 1].used]
                     ELSE [reports |-> Append(inside[k - 1].reports, one.report), used |-> one.used]
    IN  inside[Len(r.of)]
Group(ctx, r, inside) == [report |-> GroupReport(ctx, r, inside.reports), used |-> inside.used]
EvalAt(ctx, root) ==
    LET eval[n \in 0 .. MaxDepth] ==      \* of each rule with n levels left to read, and what is used
            [x \in Below(root, MaxDepth - n, Under) \X SUBSET EntriesIn(ctx) |->
                IF IsGroup(x[1]) /\ n > 0
                THEN Group(ctx, x[1], Inside(ctx, x[1], x[2], LAMBDA y : eval[n - 1][y]))
                ELSE RuleReport(ctx, x[1], x[2])]
    IN  eval[MaxDepth]

Context(plan, p, assigned) ==
    [cards |-> p.cards, facts |-> p.facts, assigned |-> assigned,
     claimed |-> Claimed(p), confirmed |-> plan.selfChecks,
     claimedIn |-> [t \in {u.id : u \in ToSet(plan.terms)} |->
                      UNION {u.nonCourse : u \in TermsNamed(plan, t)}]]
Used(ctx) == UNION {ToSet(EntriesAt(ctx, ctx.assigned[r])) : r \in DOMAIN ctx.assigned}
Tree(program, ctx) == EvalAt(ctx, program.root)[<<program.root, Used(ctx)>>].report
Declared(plan, program, root) ==
    [program |-> program.id, year |-> plan.catalogYear, evaluatedWith |-> program.year,
     root |-> root, declared |-> program.total,
     progress |-> IF program.total = None THEN root.progress
                  ELSE [root.progress EXCEPT !.creditsRequired = program.total]]
PlacedReport(plan, program, p) ==
    Declared(plan, program, Tree(program, Context(plan, p, MatchCards(p))))
ProgramReport(plan, program, cards, facts) ==
    PlacedReport(plan, program, Placement(Slots(program), cards, facts))

\* The plan's year when held, else the earliest later one, else the latest.
PickVersion(versions, wanted) ==
    {p \in versions : \A q \in versions :
        \/ p.year = wanted
        \/ q.year # wanted /\ p.year > wanted /\ (q.year > wanted => p.year <= q.year)
        \/ q.year < wanted /\ p.year < wanted /\ p.year >= q.year}
ChosenPrograms(bundle) ==     \* in sidebar order, what is evaluated
    LET Pick(id) == PickVersion({p \in bundle.programs : p.id = id}, bundle.plan.catalogYear)
        ids  == bundle.plan.programs
        held == Chosen(ids, {k \in DOMAIN ids : Pick(ids[k]) # {}})
    IN  [k \in DOMAIN held |-> CHOOSE p \in Pick(held[k]) : TRUE]

Children(report) == report.children
Rules(report) == WalkTo(report, MaxDepth, Children)
AllRules(reports) == FlattenSeq([k \in DOMAIN reports |-> Rules(reports[k].root)])

ProgramWarnings(bundle, cards, chosen) ==
    LET plan == bundle.plan
        Of(program) == Placement(Slots(program), cards, bundle.facts)
        live == UNION {RuleIds(chosen[k]) : k \in DOMAIN chosen}
        retired == UNION {p.retired : p \in bundle.programs}
    IN  {W("program_unavailable", [program |-> id, year |-> plan.catalogYear]) :
            id \in ToSet(plan.programs) \ {chosen[k].id : k \in DOMAIN chosen}}
        \cup {W("program_year_substituted", [program |-> chosen[k].id, wanted |-> plan.catalogYear,
                                             used |-> chosen[k].year]) :
                k \in {j \in DOMAIN chosen : chosen[j].year # plan.catalogYear}}
        \cup (UNION {PinWarnings(Of(chosen[k])) \cup AttributeUnknown(Of(chosen[k])) :
                       k \in DOMAIN chosen})
        \cup {W("choice_missing", [term |-> cards[ir[1]].term, entry |-> cards[ir[1]].entry,
                                   rule |-> ir[2], retired |-> ir[2] \in retired]) :
                ir \in UNION {{i} \X (ToSet(cards[i].fills) \ live) : i \in DOMAIN cards}}

\* Plan-level progress: a course in two programs is still one course.
PlanProgress(reports, cards) ==
    LET Largest(a, r) == IF r.progress.creditsRequired > a THEN r.progress.creditsRequired ELSE a
    IN  [Added([k \in DOMAIN reports |-> reports[k].progress])
           EXCEPT !.creditsMet = SumCredits(cards), !.creditsRequired = FoldLeft(Largest, 0, reports)]
=============================================================================
