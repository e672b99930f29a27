-------------------------------- MODULE Bundle --------------------------------
(***************************************************************************)
(* The slice of the database one plan is judged with: skyspace-store,      *)
(* plan_bundle and what it reads (plans.rs, programs_for_plan).            *)
(*                                                                         *)
(* A catalog is [records, seen, aliases, exclusions, programs]: records    *)
(* are course_catalog rows [course, year, credits, attributes, department, *)
(* repeatable, text]; seen is the <<course, term code>> of sections;       *)
(* aliases is course_aliases, <<alias, canonical>>; exclusions are         *)
(* [blocked, year, blocker]; programs are the published versions.          *)
(***************************************************************************)
EXTENDS Warnings

DefaultLimits == [fallSpring |-> 1800, music |-> 2000, summer |-> None]

PlanCodes(plan) == {c.course : c \in CardsOf(plan)} \ {None}
Filters(r) == CASE r.kind = "course" -> {r.filter} [] r.kind = "credits" -> {r.from} [] OTHER -> {}
ProgramCodes(program) ==
    {s.code : s \in {t \in UNION {f.include \cup f.exclude :
                              f \in UNION {Filters(n) : n \in ToSet(Nodes(program))}} :
                       t.kind = "code"}}

\* One reading of the alias table: the rows with either side in `codes'.
Aliases(catalog, codes) == {a \in catalog.aliases : a[1] \in codes \/ a[2] \in codes}
WithAliases(codes, pairs) == codes \cup UNION {{a[1], a[2]} : a \in pairs}

\* The record of the plan's year, else the newest held.
Record(catalog, course, year) ==
    CHOOSE r \in catalog.records : /\ r.course = course
        /\ \A q \in catalog.records : q.course = course =>
              r.year = year \/ (q.year # year /\ q.year <= r.year)
InfoOf(r, terms) ==
    CourseInfo(r.credits, r.attributes, r.department, r.repeatable,
               {SeasonOf(p) : p \in UNION {Position(t) : t \in terms}}, Cardinality(terms))
CourseFacts(catalog, codes, year, pairs) ==
    [aliases |-> [c \in {a[1] : a \in pairs} |-> (CHOOSE a \in pairs : a[1] = c)[2]],
     byCode |-> [c \in {r.course : r \in catalog.records} \cap codes |->
                   InfoOf(Record(catalog, c, year), {s[2] : s \in {t \in catalog.seen : t[1] = c}})]]
Prerequisites(catalog, codes) == FoldPrerequisites({r \in catalog.records : r.course \in codes})
\* One row for each <<blocked, blocker>>, the newest year's.
ExclusionRows(catalog, codes) ==
    SetToSeq({e \in catalog.exclusions : /\ e.blocked \in codes
        /\ \A f \in catalog.exclusions :
              f.blocked = e.blocked /\ f.blocker = e.blocker => f.year <= e.year})
ProgramsForPlan(catalog, plan) ==
    UNION {PickVersion({p \in catalog.programs : p.id = id}, plan.catalogYear) :
             id \in ToSet(plan.programs)}

BundleOf(catalog, plan, limits, codes, pairs) ==
    [plan |-> plan, programs |-> ProgramsForPlan(catalog, plan),
     facts |-> CourseFacts(catalog, codes, plan.catalogYear, pairs),
     prerequisites |-> Prerequisites(catalog, codes),
     exclusions |-> ExclusionRows(catalog, codes), limits |-> limits, invalidations |-> {}]
Sliced(catalog, plan, limits, codes) ==
    BundleOf(catalog, plan, limits, WithAliases(codes, Aliases(catalog, codes)),
             Aliases(catalog, codes))
PlanBundle(catalog, plan, limits) ==
    Sliced(catalog, plan, limits,
           PlanCodes(plan) \cup UNION {ProgramCodes(p) : p \in ProgramsForPlan(catalog, plan)})

\* The reference: nothing left out.
AllCodes(catalog) == {r.course : r \in catalog.records} \cup UNION {{a[1], a[2]} : a \in catalog.aliases}
WholeBundle(catalog, plan, limits) ==
    BundleOf(catalog, plan, limits, AllCodes(catalog), catalog.aliases)

\* today's column, before an operator has set the current term.
PositionOfDate(year, month) == IF month \in 8 .. 12 THEN At(year + 1, Fall)
                               ELSE IF month \in 1 .. 5 THEN At(year, Spring) ELSE At(year, Summer)
\* What the plan is judged as of: the current term's column when it has one.
Today(current, year, month) ==
    IF current # None /\ Position(current) # {} THEN CHOOSE p \in Position(current) : TRUE
    ELSE PositionOfDate(year, month)
=============================================================================
