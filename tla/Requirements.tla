---------------------------- MODULE Requirements ----------------------------
(***************************************************************************)
(* Programs and their requirement trees, the filters their rules read and  *)
(* the course facts those filters ask: skyspace-core, program.rs and the   *)
(* CourseFacts half of evaluate.rs.  A code is [subject, number]; a filter *)
(* is two sets of selectors, because `any' does not see their order.       *)
(***************************************************************************)
EXTENDS Terms, Sequences, FiniteSets, SequencesExt

CONSTANTS None,       \* Rust's Option::None
          MaxDepth    \* MAX_TREE_DEPTH: how deep a tree is read

(* Course facts: [aliases: code -> canonical code, byCode: canonical code -> *)
(* CourseInfo].  CourseInfo keeps what the engine reads.                     *)
Course(subject, number) == [subject |-> subject, number |-> number]
CourseInfo(credits, attributes, department, repeatable, seasons, observed) ==
    [credits |-> credits, attributes |-> attributes, department |-> department,
     repeatable |-> repeatable, seasons |-> seasons, terms |-> observed]

Canonical(facts, code) ==
    IF code \in DOMAIN facts.aliases THEN facts.aliases[code] ELSE code
Known(facts, code) == Canonical(facts, code) \in DOMAIN facts.byCode
Info(facts, code)  == facts.byCode[Canonical(facts, code)]

(* Selectors and filters *)
ByCode(c)                 == [kind |-> "code", code |-> c]
BySubject(s)              == [kind |-> "subject", subject |-> s]
ByNumber(s, low, high)    == [kind |-> "number_range", subject |-> s,
                              low |-> low, high |-> high]
ByAttribute(a)            == [kind |-> "attribute", attribute |-> a]
Filter(include, exclude)  == [include |-> include, exclude |-> exclude]

\* An attribute selector with no facts for the course cannot answer.
Undecided(s, code, facts) == s.kind = "attribute" /\ ~Known(facts, code)
Accepts(s, code, facts) ==
    \/ s.kind = "code" /\ Canonical(facts, s.code) = code
    \/ s.kind = "subject" /\ s.subject = code.subject
    \/ /\ s.kind = "number_range"
       /\ s.subject \in {None, code.subject}
       /\ code.number \in s.low .. s.high
    \/ /\ s.kind = "attribute" /\ Known(facts, code)
       /\ s.attribute \in Info(facts, code).attributes

FilterMatch(f, code, facts) ==
    IF \E s \in f.exclude : Accepts(s, code, facts) THEN "no"
    ELSE IF f.include = {} \/ \E s \in f.include : Accepts(s, code, facts) THEN "yes"
    ELSE IF \E s \in f.include : Undecided(s, code, facts) THEN "unknown"
    ELSE "no"

NeedsAttribute(f) == \E s \in f.include : s.kind = "attribute"
SingleCode(f) == {s.code : s \in {t \in f.include :
                                    t.kind = "code" /\ Cardinality(f.include) = 1}}

(* The tree.  `hours' is the printed hours column, or None. *)
All(id, hours, of)         == [kind |-> "all", id |-> id, hours |-> hours, of |-> of]
Select(id, hours, n, of)   == [kind |-> "select", id |-> id, hours |-> hours,
                               count |-> n, of |-> of]
CourseRule(id, hours, f, semesters) ==
    [kind |-> "course", id |-> id, hours |-> hours, filter |-> f, semesters |-> semesters]
CreditsRule(id, minimum, scope, from) ==
    [kind |-> "credits", id |-> id, hours |-> None, minimum |-> minimum,
     scope |-> scope, from |-> from]
SelfCheckRule(id, kind)    == [kind |-> kind, id |-> id, hours |-> None]
Distinct(id, minimum)      == [kind |-> "distinct", id |-> id, hours |-> None,
                               minimum |-> minimum]

IsGroup(r) == r.kind \in {"all", "select"}

\* The nodes of a tree down to a depth: as a set, and depth first in document order.
Below(root, depth, Lower(_)) ==
    LET below[n \in 0 .. depth] == IF n = 0 THEN {root}
                                   ELSE below[n - 1] \cup UNION {ToSet(Lower(r)) : r \in below[n - 1]}
    IN  below[depth]
WalkTo(root, depth, Lower(_)) ==
    LET walk[n \in 0 .. depth] ==      \* of each node with n levels left to read
            [r \in Below(root, depth - n, Lower) |->
                <<r>> \o IF n = 0 THEN <<>> ELSE FlattenSeq([i \in DOMAIN Lower(r) |-> walk[n - 1][Lower(r)[i]]])]
    IN  walk[depth][root]
Under(r) == IF IsGroup(r) THEN r.of ELSE <<>>
Walk(root) == WalkTo(root, MaxDepth, Under)
Nodes(program) == program.nodes
RuleIds(program) == {n.id : n \in ToSet(Nodes(program))}
FindRule(program, id) == {n \in ToSet(Nodes(program)) : n.id = id}

Program(id, year, kind, credential, total, root, retired) ==
    [id |-> id, year |-> year, kind |-> kind, credential |-> credential,
     total |-> total, root |-> root, nodes |-> Walk(root), retired |-> retired]
=============================================================================
