------------------------------- MODULE MCBoard -------------------------------
(***************************************************************************)
(* A university program with distribution, an hours rule and a department  *)
(* spread, a major with a choice, an allowance and a group below the depth *)
(* bound, a minor published for a later year only; three boards, and a     *)
(* fourth for the slice of the catalog that the server sends.              *)
(***************************************************************************)
EXTENDS Board

C140 == Course("COMP", 140)
C182 == Course("COMP", 182)
H101 == Course("HIST", 101)
E307 == Course("ECON", 307)
S310 == Course("STAT", 310)      \* other codes of ECON 307: the least is
M310 == Course("MATH", 310)      \* canonical (ingest.rs, write_alias_group)

One(c) == Filter({ByCode(c)}, {})
MCPrograms ==
    {Program("univ", 2026, "university", "", None,
        All("u", None, <<
            All("u1", None, <<CourseRule("d1", Fixed(3), Filter({ByAttribute("GRP1")}, {}), 1),
                              CourseRule("d2", Fixed(3), Filter({ByAttribute("GRP1")}, {ByCode(S310)}), 1),
                              Distinct("dd", 2)>>),
            CreditsRule("ad", 3, "any", Filter({ByAttribute("AD")}, {}))>>), {}),
     Program("major", 2026, "major", "BSCS", 15,
        All("m", None, <<
            CourseRule("core", None, One(C140), 1),
            Select("sel", Fixed(3), 1, <<CourseRule("s1", None, One(C182), 1),
                                         CourseRule("s2", None, Filter({ByCode(E307), ByCode(C140)}, {}), 1),
                                         SelfCheckRule("exam", "non_course")>>),
            CreditsRule("free", 4, "additional", Filter({}, {})),
            All("deep", None, <<All("deeper", None, <<CourseRule("never", None, One(H101), 1)>>)>>)>>),
        {"gone"}),
     Program("minor", 2027, "minor", "", None,
        All("n", None, <<CourseRule("twice", None, Filter({ByNumber(None, 100, 199)}, {}), 2)>>), {})}

Row(course, year, credits, attributes, department, repeatable, text) ==
    [course |-> course, year |-> year, credits |-> credits, attributes |-> attributes,
     department |-> department, repeatable |-> repeatable, text |-> text]
MCRecords ==
    {Row(C140, 2026, Fixed(4), {}, "CS", FALSE, <<>>),
     Row(C182, 2026, Range2(3, 4), {}, "CS", FALSE, <<CodeToken(C140), Or, CodeToken(M310)>>),
     Row(H101, 2025, Fixed(3), {"GRP1"}, "History", FALSE, <<CodeToken(C182)>>),
     Row(H101, 2026, Fixed(3), {"GRP1", "AD"}, "History", FALSE,
         <<CodeToken(S310), And, CodeToken(C140), Or, CodeToken(C182)>>),
     Row(E307, 2025, Either(3, 1), {"GRP1"}, "Economics", TRUE,
         <<Open, CodeToken(C140), And, CodeToken(C182), Close, Or, CodeToken(H101)>>)}
Code(year, season) == [year |-> year, season |-> season]
MCSeen == ({C140} \X {Code(y, FALL) : y \in 2023 .. 2026})
            \cup ({C182, E307} \X {Code(2025, SPRING), Code(2026, SPRING)})
            \cup ({H101} \X {Code(2025, FALL), Code(2025, SPRING), Code(2026, FALL), Code(2025, 15)})
MCCatalog ==
    [records |-> MCRecords, seen |-> MCSeen, aliases |-> {<<S310, E307>>, <<M310, E307>>},
     programs |-> MCPrograms,
     exclusions |-> {[blocked |-> H101, year |-> 2026, blocker |-> S310],
                     [blocked |-> E307, year |-> 2025, blocker |-> H101],
                     [blocked |-> C140, year |-> 2025, blocker |-> C182],
                     [blocked |-> C140, year |-> 2026, blocker |-> C182]}]
MCLimits == [fallSpring |-> 6, music |-> 8, summer |-> None]

F27 == At(2027, Fall)
Board1 == Plan(2026, <<"univ", "major">>, <<>>,
    <<PlanTerm(F27, "rice", <<PlannedCourse(1, C140, 4, <<>>, None),
                              PlannedCourse(2, H101, 3, <<"d2">>, [attributes |-> {"AD"}, credits |-> Fixed(3)])>>, {}),
      PlanTerm(F27 + 1, "rice", <<PlannedCourse(3, C182, 3, <<>>, None)>>, {})>>, {"exam"})
Board2 == Plan(2026, <<"univ", "major", "minor">>,
    <<ManualCard(1, "ap", H101, 3, "manual", <<>>, {})>>,
    <<PlanTerm(F27, "rice", <<PlannedCourse(2, C140, 4, <<"s2">>, None)>>, {"exam"}),
      PlanTerm(F27 + 1, "away", <<ManualCard(3, "study_abroad", S310, 1, None, <<"core">>, {})>>, {}),
      PlanTerm(F27 + 3, "off", <<>>, {})>>, {})
Board3 == Plan(2027, <<"univ", "minor">>, <<ManualCard(4, "transfer", None, 15, None, <<"gone">>, {})>>,
    <<PlanTerm(F27, "rice", <<PlannedCourse(1, H101, 3, <<>>, None),
                              PlannedCourse(2, E307, 1, <<>>, None)>>, {}),
      PlanTerm(F27 + 2, "rice", <<PlannedCourse(3, H101, 3, <<"d1">>, None)>>, {})>>, {})
MCBoards == {Board1, Board2, Board3}
\* A plan that names one other code of the group and not its canonical one.
Board4 == Plan(2026, <<"univ">>, <<>>,
    <<PlanTerm(F27, "rice", <<PlannedCourse(1, S310, 1, <<>>, None)>>, {}),
      PlanTerm(F27 + 1, "rice", <<PlannedCourse(2, C182, 3, <<>>, None)>>, {})>>, {})
MCBundleBoards == {Board3, Board4}
MCTray == {C182, S310}
=============================================================================
