------------------------------ MODULE Warnings ------------------------------
(***************************************************************************)
(* What the engine tells the student: skyspace-core, warn.rs.  Warnings    *)
(* never block.  They are a set here: their order is display order.        *)
(* PreviewPlacement answers, before a drop, what the drop would mean.      *)
(***************************************************************************)
EXTENDS Evaluation

CONSTANT MinTermsForSeasonWarning       \* MIN_TERMS_FOR_SEASON_WARNING
HighLoadCredentials == {"BMus", "BArch", "MMus"}

FilledEntries(rules) == UNION {ToSet(rules[k].filledBy) : k \in DOMAIN rules}

\* <<term, card>> for the cards on Rice columns, and for those on any column.
OnTerms(plan, kinds) ==
    UNION {{t} \X ToSet(t.cards) : t \in {u \in ToSet(plan.terms) : u.kind \in kinds}}

FillsNoRequirement(plan, rules) ==
    {W("fills_no_requirement", [term |-> tc[1].id, entry |-> tc[2].id, course |-> tc[2].course]) :
       tc \in {x \in OnTerms(plan, {"rice", "away"}) :
                 x[2].course # None /\ x[2].id \notin FilledEntries(rules)}}

CourseSlotEntries(program, rules) ==
    LET courses == {n.id : n \in {m \in ToSet(Nodes(program)) : m.kind = "course"}}
    IN  UNION {ToSet(rules[k].filledBy) : k \in {j \in DOMAIN rules : rules[j].rule \in courses}}
DuplicateCourses(facts, programs, cards, rules) ==
    LET Copies(code) == {c \in ToSet(cards) : c.code = code}
        Repeats(code) ==
            \/ Known(facts, code) /\ Info(facts, code).repeatable
            \/ \E p \in programs : \A c \in Copies(code) : c.entry \in CourseSlotEntries(p, rules)
    IN  {W("duplicate_course", [course |-> code, terms |-> {c.term : c \in Copies(code)} \ {None}]) :
           code \in {c \in {d.code : d \in ToSet(cards)} \ {None} :
                       Cardinality(Copies(c)) >= 2 /\ ~Repeats(c)}}

Problems(verdict) ==
    {[course |-> c, problem |-> "not_in_plan"] : c \in ToSet(verdict.missing)}
    \cup {[course |-> c, problem |-> "same_term"] : c \in ToSet(verdict.same)}
    \cup {[course |-> l.code, problem |-> "later"] : l \in ToSet(verdict.later)}
PrerequisiteProblems(plan, rows, facts) ==
    LET taken == Taken(plan, facts, None)
        Fact(tc) == PrereqFact(rows, Canonical(facts, tc[2].course))
        Result(tc) == Judge(Fact(tc).expr, tc[1].id, taken, facts)
        required == {tc \in OnTerms(plan, {"rice"}) : Fact(tc).kind = "requires"}
    IN  {W("prerequisite_unparsed", [term |-> tc[1].id, course |-> tc[2].course]) :
           tc \in {x \in required : Result(x).truth = Unknown}}
        \cup UNION {{W("prerequisite", [term |-> tc[1].id, course |-> tc[2].course, problem |-> p]) :
                       p \in Problems(Result(tc))} :
                      tc \in {x \in required : Result(x).truth = Missing}}

\* One warning per unordered pair, from its first row; the earlier course blocks.
ExclusionsAsPrinted(plan, rows, facts) ==      \* mutant: the first row's direction
    LET taken == Taken(plan, facts, None)
    IN  {W("mutually_exclusive", [blocked |-> r.blocked, blocker |-> r.blocker,
              blockedTerm |-> taken[Canonical(facts, r.blocked)].term,
              blockerTerm |-> taken[Canonical(facts, r.blocker)].term]) :
           r \in {q \in ToSet(rows) : {Canonical(facts, q.blocked), Canonical(facts, q.blocker)}
                                        \subseteq DOMAIN taken}}
ExclusionProblems(plan, rows, facts) ==
    LET taken == Taken(plan, facts, None)
        Pair(k) == {Canonical(facts, rows[k].blocked), Canonical(facts, rows[k].blocker)}
        First(k) == \A j \in 1 .. (k - 1) : Pair(j) # Pair(k)
        Warn(k) == LET a == taken[Canonical(facts, rows[k].blocked)]
                       b == taken[Canonical(facts, rows[k].blocker)]
                   IN  IF b.when <= a.when
                       THEN [blocked |-> rows[k].blocked, blockedTerm |-> a.term,
                             blocker |-> rows[k].blocker, blockerTerm |-> b.term]
                       ELSE [blocked |-> rows[k].blocker, blockedTerm |-> b.term,
                             blocker |-> rows[k].blocked, blockerTerm |-> a.term]
    IN  {W("mutually_exclusive", Warn(k)) :
           k \in {j \in DOMAIN rows : Pair(j) \subseteq DOMAIN taken /\ First(j)}}

SeasonUnlikely(plan, facts) ==
    {W("season_unlikely", [term |-> tc[1].id, course |-> tc[2].course]) :
       tc \in {x \in OnTerms(plan, {"rice"}) :
                 /\ Known(facts, x[2].course)
                 /\ Info(facts, x[2].course).terms >= MinTermsForSeasonWarning
                 /\ SeasonOf(x[1].id) \notin Info(facts, x[2].course).seasons}}

MusicOrArchitecture(bundle) ==
    \E p \in bundle.programs : /\ p.id \in ToSet(bundle.plan.programs)
                               /\ p.credential \in HighLoadCredentials
NormalLoad(limits, season, high) ==     \* empty: Rice prints no summer load
    IF season = Summer THEN {limits.summer} \ {None}
    ELSE {IF high THEN limits.music ELSE limits.fallSpring}
OverSemesterLoad(plan, limits, high) ==
    {W("over_semester_load", [term |-> t.id, planned |-> PlannedCredits(t)]) :
       t \in {u \in ToSet(plan.terms) : /\ u.kind = "rice"
                /\ \E n \in NormalLoad(limits, SeasonOf(u.id), high) : PlannedCredits(u) > n}}

\* The catalog moved under a placed course.
CourseFactsChanged(plan, facts) ==
    {W("course_facts_changed", [term |-> tc[1].id, entry |-> tc[2].id,
          lost   |-> tc[2].observed.attributes \ Info(facts, tc[2].course).attributes,
          gained |-> Info(facts, tc[2].course).attributes \ tc[2].observed.attributes,
          hours  |-> {MinHours(tc[2].observed.credits), MinHours(Info(facts, tc[2].course).credits)}]) :
       tc \in {x \in OnTerms(plan, {"rice"}) :
                 /\ x[2].observed # None /\ Known(facts, x[2].course)
                 /\ \/ x[2].observed.attributes # Info(facts, x[2].course).attributes
                    \/ MinHours(x[2].observed.credits) # MinHours(Info(facts, x[2].course).credits)}}

ManualCredits(plan) ==
    {W("manual_credits", [entry |-> c.id, credits |-> c.credits]) :
       c \in {d \in ToSet(plan.incoming) \cup {tc[2] : tc \in OnTerms(plan, {"away"})} :
                d.course = None \/ d.source = "manual"}}

DoubleCounted(reports, chosen, cards) ==
    LET Kind(id) == {chosen[k].kind : k \in {j \in DOMAIN chosen : chosen[j].id = id}}
        Holders(e) == {reports[k].program : k \in {j \in DOMAIN reports :
                          /\ Kind(reports[j].program) # {"university"}
                          /\ e \in FilledEntries(Rules(reports[j].root))}}
    IN  {W("double_counted", [entry |-> c.entry, course |-> c.code, programs |-> Holders(c.entry)]) :
           c \in {d \in ToSet(cards) : /\ d.code # None
                                       /\ Cardinality(Holders(d.entry)) > 1
                                       /\ \E id \in Holders(d.entry) : Kind(id) # {"major"}}}

SelfChecksOnTop(reports) ==      \* mutant: nested rules are not walked
    UNION {{W("self_check", [program |-> reports[k].program, rule |-> r.rule]) :
              r \in {q \in ToSet(reports[k].root.children) :
                       q.children = <<>> /\ q.outcome = "check"}} : k \in DOMAIN reports}
SelfChecks(reports) ==
    UNION {{W("self_check", [program |-> reports[k].program, rule |-> r.rule]) :
              r \in {q \in ToSet(Rules(reports[k].root)) :
                       q.children = <<>> /\ q.outcome = "check"}} : k \in DOMAIN reports}

(* The whole report *)
PlanWarnings(bundle, cards, chosen, reports, rules) ==
    LET plan == bundle.plan
        facts == bundle.facts
    IN  ProgramWarnings(bundle, cards, chosen)
            \cup FillsNoRequirement(plan, rules)
            \cup DuplicateCourses(facts, bundle.programs, cards, rules)
            \cup PrerequisiteProblems(plan, bundle.prerequisites, facts)
            \cup ExclusionProblems(plan, bundle.exclusions, facts)
            \cup SeasonUnlikely(plan, facts)
            \cup {W("plan_invalidated", d) : d \in bundle.invalidations}
            \cup OverSemesterLoad(plan, bundle.limits, MusicOrArchitecture(bundle))
            \cup CourseFactsChanged(plan, facts)
            \cup ManualCredits(plan)
            \cup DoubleCounted(reports, chosen, cards)
            \cup SelfChecks(reports)
Summary(bundle, cards, chosen, reports) ==
    [programs |-> reports, progress |-> PlanProgress(reports, cards),
     warnings |-> PlanWarnings(bundle, cards, chosen, reports, AllRules(reports))]
Reports(bundle, cards, chosen) ==
    Summary(bundle, cards, chosen,
        [k \in DOMAIN chosen |-> ProgramReport(bundle.plan, chosen[k], cards, bundle.facts)])
Evaluate(bundle) == Reports(bundle, CollectCards(bundle.plan, bundle.facts), ChosenPrograms(bundle))

(* The preview of a drop *)
EvaluatedPrograms(bundle, report) ==
    {p \in bundle.programs : \E k \in DOMAIN report.programs :
        report.programs[k].program = p.id /\ report.programs[k].evaluatedWith = p.year}
CourseRules(program) == {n \in ToSet(Nodes(program)) : n.kind = "course"}
RepeatedByARule(programs, code, facts) ==
    \E p \in programs : \E r \in CourseRules(p) :
        r.semesters > 1 /\ FilterMatch(r.filter, code, facts) = "yes"
RequirementsRaisedBy(programs, report, code, facts) ==
    LET rules == AllRules(report.programs)
        open == {rules[k].rule : k \in {j \in DOMAIN rules : rules[j].outcome # "met"}}
    IN  UNION {{[program |-> p.id, rule |-> r.id] : r \in {s \in CourseRules(p) :
                  s.id \in open /\ FilterMatch(s.filter, code, facts) = "yes"}} : p \in programs}

VerdictNearest(fact, target, taken, facts) ==      \* mutant: a missing course is not told
    LET r == Judge(fact.expr, target, taken, facts)
    IN  CASE fact.kind # "requires" -> [kind |-> "satisfied", courses |-> {}]
          [] fact.kind = "requires" /\ r.truth = Satisfied -> [kind |-> "satisfied", courses |-> {}]
          [] fact.kind = "requires" /\ r.truth = Unknown -> [kind |-> "unknown", courses |-> {}]
          [] OTHER -> [kind |-> IF r.same # <<>> THEN "same_term" ELSE "missing",
                       courses |-> {p.course : p \in Problems(r)}]
VerdictOf(fact, target, taken, facts) ==
    LET r == Judge(fact.expr, target, taken, facts)
    IN  CASE fact.kind = "unknown" -> [kind |-> "unknown", courses |-> {}]
          [] fact.kind = "none_required" -> [kind |-> "satisfied", courses |-> {}]
          [] fact.kind = "requires" /\ r.truth = Satisfied -> [kind |-> "satisfied", courses |-> {}]
          [] fact.kind = "requires" /\ r.truth = Unknown -> [kind |-> "unknown", courses |-> {}]
          [] fact.kind = "requires" /\ r.truth = Missing /\ r.same # <<>> /\ r.missing = <<>> ->
               [kind |-> "same_term", courses |-> ToSet(r.same)]
          [] OTHER -> [kind |-> "missing", courses |-> {p.course : p \in Problems(r)}]

\* moving: the card being dragged, or None for a course from the tray.
PreviewPlacement(bundle, report, course, moving) ==
    LET plan == bundle.plan
        facts == bundle.facts
        code == Canonical(facts, course)
        taken == Taken(plan, facts, moving)
        fact == PrereqFact(bundle.prerequisites, code)
        programs == EvaluatedPrograms(bundle, report)
        repeats == \/ Known(facts, code) /\ Info(facts, code).repeatable
                   \/ RepeatedByARule(programs, code, facts)
        held == {c.credits : c \in {d \in CardsOf(plan) : d.id = moving}}
        credits == IF held # {} THEN CHOOSE h \in held : TRUE
                   ELSE IF Known(facts, code) THEN MinHours(Info(facts, code).credits) ELSE 0
        Here(t) == \E c \in ToSet(t.cards) : c.id = moving
    IN  [p \in {t.id : t \in {u \in ToSet(plan.terms) : u.kind # "off"}} |->
          LET t == CHOOSE u \in TermsNamed(plan, p) : TRUE
          IN  [prerequisites |-> IF t.kind = "rice" THEN VerdictOf(fact, p, taken, facts)
                                 ELSE [kind |-> "unknown", courses |-> {}],
               duplicateOf |-> IF repeats \/ code \notin DOMAIN taken THEN {}
                               ELSE {taken[code].term} \ {None, p},
               creditsAfter |-> IF Here(t) THEN PlannedCredits(t) ELSE Plus(PlannedCredits(t), credits),
               fills |-> RequirementsRaisedBy(programs, report, code, facts)]]
=============================================================================
