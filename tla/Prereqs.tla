------------------------------ MODULE Prereqs ------------------------------
(***************************************************************************)
(* Prerequisites and exclusions: skyspace-core, prereq.rs.  Rice's text is *)
(* parsed into an expression (Parse), the newest edition of each course's  *)
(* text is kept (FoldPrerequisites), and an expression is judged against   *)
(* where each course first appears on the board (Taken, Judge).            *)
(***************************************************************************)
EXTENDS PlanDoc

CONSTANT MaxExprDepth       \* MAX_EXPR_DEPTH: how deep parentheses are read

(* Tokens: what tokenize makes of the words of the published text.  Words   *)
(* that are no course code are "junk"; a code's two words are one token.    *)
CodeToken(c) == [kind |-> "code", code |-> c]
And   == [kind |-> "and"]
Or    == [kind |-> "or"]
Open  == [kind |-> "open"]
Close == [kind |-> "close"]
Junk  == [kind |-> "junk"]

Needs(c)     == [kind |-> "course", code |-> c]
AllOf(of)    == [kind |-> "all", of |-> of]
AnyOf(of)    == [kind |-> "any", of |-> of]
Unparsed     == [kind |-> "unparsed"]

(* The parser: [ok, expr, at].  An expression is read from each place, one  *)
(* level of parentheses at a time (inner: the level within); a level that   *)
(* mixes AND and OR is refused, because Rice's precedence is unknown.       *)
Refused == [ok |-> FALSE, expr |-> Unparsed, at |-> 0]
KindAt(toks, at) == IF at \in DOMAIN toks THEN toks[at].kind ELSE "end"

Term(toks, at, inner) ==
    CASE KindAt(toks, at) = "code" -> [ok |-> TRUE, expr |-> Needs(toks[at].code), at |-> at + 1]
      [] KindAt(toks, at) = "open" /\ inner # <<>> ->
           LET group == inner[at + 1]
           IN  IF group.ok /\ KindAt(toks, group.at) = "close" THEN [group EXCEPT !.at = @ + 1] ELSE Refused
      [] OTHER -> Refused
Rest(toks, read, inner) ==     \* one more (AND term) or (OR term)
    LET op == KindAt(toks, read.at)
        next == Term(toks, read.at + 1, inner)
    IN  IF ~read.ok \/ op \notin {"and", "or"} THEN read
        ELSE [ok |-> read.op \in {None, op} /\ next.ok, at |-> next.at, op |-> op,
              children |-> Append(read.children, next.expr)]
Expression(toks, at, inner) ==
    LET first == Term(toks, at, inner)
        read[n \in 0 .. Len(toks)] ==
            IF n = 0 THEN [ok |-> first.ok, at |-> first.at, op |-> None, children |-> <<first.expr>>]
            ELSE Rest(toks, read[n - 1], inner)
        all == read[Len(toks)]
    IN  IF ~all.ok THEN Refused
        ELSE [ok |-> TRUE, at |-> all.at,
              expr |-> CASE all.op = None -> all.children[1] [] all.op = "and" -> AllOf(all.children)
                         [] OTHER -> AnyOf(all.children)]

ParseText(toks) ==
    LET level[n \in 0 .. MaxExprDepth] ==
            [at \in 1 .. (Len(toks) + 1) |-> Expression(toks, at, IF n = 0 THEN <<>> ELSE level[n - 1])]
        all == level[MaxExprDepth][1]
    IN  IF all.ok /\ all.at = Len(toks) + 1 THEN all.expr ELSE Unparsed

Parts(e) == IF e.kind \in {"all", "any"} THEN e.of ELSE <<>>
\* The codes an expression names, to the depth bound.
Codes(e) == {p.code : p \in {q \in Below(e, MaxExprDepth, Parts) : q.kind = "course"}}

(* Facts: a course Rice has never listed is unknown, which is not the same  *)
(* as having no prerequisite.                                               *)
UnknownFact        == [kind |-> "unknown"]
NoneRequired(year) == [kind |-> "none_required", year |-> year]
Requires(year, e)  == [kind |-> "requires", year |-> year, expr |-> e]

\* observations: [course, year, text], text the tokens of the newest edition.
FoldPrerequisites(observations) ==
    [c \in {o.course : o \in observations} |->
        LET o == CHOOSE o \in observations : /\ o.course = c
                    /\ \A p \in observations : p.course = c => p.year <= o.year
        IN  IF o.text = <<>> THEN NoneRequired(o.year) ELSE Requires(o.year, ParseText(o.text))]
PrereqFact(rows, course) == IF course \in DOMAIN rows THEN rows[course] ELSE UnknownFact

(* Taken: canonical code -> the earliest card that has it, the first in     *)
(* board order among equals.  `skip' is the card being dragged.             *)
PlacedOnTerms(plan, facts, skip) ==      \* mutant: incoming credit is forgotten
    FlattenSeq([k \in DOMAIN plan.terms |->
        [i \in DOMAIN plan.terms[k].cards |->
            [code |-> Canonical(facts, plan.terms[k].cards[i].course), when |-> plan.terms[k].id,
             term |-> plan.terms[k].id, entry |-> plan.terms[k].cards[i].id]]])
Placed(plan, facts, skip) ==
    LET Row(c, when, term) == [code |-> Canonical(facts, c.course), when |-> when,
                               term |-> term, entry |-> c.id]
        Counts(c) == c.course # None /\ c.id # skip
        Rows(cards, when, term) ==
            LET kept == Chosen(cards, {i \in DOMAIN cards : Counts(cards[i])}) IN [i \in DOMAIN kept |-> Row(kept[i], when, term)]
    IN  Rows(plan.incoming, Incoming, None)
          \o FlattenSeq([k \in DOMAIN plan.terms |->
                Rows(plan.terms[k].cards, plan.terms[k].id, plan.terms[k].id)])
Taken(plan, facts, skip) ==
    LET rows == Placed(plan, facts, skip)
    IN  [c \in {rows[i].code : i \in DOMAIN rows} |->
           rows[CHOOSE i \in DOMAIN rows :
                  /\ rows[i].code = c
                  /\ \A j \in DOMAIN rows : rows[j].code = c =>
                       \/ rows[i].when < rows[j].when
                       \/ rows[i].when = rows[j].when /\ i <= j]]

(* Three-valued truth in its order: all is the least, any the greatest.     *)
Missing == 0
Unknown == 1
Satisfied == 2

Verdict(truth, missing, same, later) ==
    [truth |-> truth, missing |-> missing, same |-> same, later |-> later]
Nothing(truth) == Verdict(truth, <<>>, <<>>, <<>>)

JudgeCourse(code, target, taken, facts) ==
    LET c == Canonical(facts, code)
    IN  CASE c \notin DOMAIN taken -> Verdict(Missing, <<code>>, <<>>, <<>>)
          [] c \in DOMAIN taken /\ taken[c].when < target -> Nothing(Satisfied)
          [] c \in DOMAIN taken /\ taken[c].when = target -> Verdict(Missing, <<>>, <<code>>, <<>>)
          [] OTHER -> Verdict(Missing, <<>>, <<>>, <<[code |-> code, term |-> taken[c].term]>>)

\* The nearest miss speaks for a group of options: same term, later, absent.
NearestMiss(results) ==
    LET FirstWith(P(_)) == SelectInSeq(results, P)
        same  == FirstWith(LAMBDA r : r.same # <<>>)
        later == FirstWith(LAMBDA r : r.later # <<>>)
        gone  == FirstWith(LAMBDA r : r.missing # <<>>)
    IN  CASE same # 0 -> results[same] [] same = 0 /\ later # 0 -> results[later]
          [] same = 0 /\ later = 0 /\ gone # 0 -> results[gone] [] OTHER -> Nothing(Missing)

JudgeOne(e, results, target, taken, facts) ==      \* results: of its parts
    LET truths == {results[i].truth : i \in DOMAIN results}
        any == Max({Missing} \cup truths)
        Joined(field) == FlattenSeq([i \in DOMAIN results |-> results[i][field]])
    IN  CASE e.kind = "unparsed" -> Nothing(Unknown)
          [] e.kind = "course" -> JudgeCourse(e.code, target, taken, facts)
          [] e.kind = "all" ->
               Verdict(Min({Satisfied} \cup truths), Joined("missing"), Joined("same"), Joined("later"))
          [] OTHER -> IF any = Satisfied THEN Nothing(Satisfied)
                      ELSE [NearestMiss(results) EXCEPT !.truth = any]
Judge(e, target, taken, facts) ==
    LET judge[n \in 0 .. (MaxExprDepth + 1)] ==     \* of each part with n levels left to read
            [p \in Below(e, MaxExprDepth + 1 - n, Parts) |->
                IF n = 0 THEN Nothing(Unknown)
                ELSE JudgeOne(p, [i \in DOMAIN Parts(p) |-> judge[n - 1][Parts(p)[i]]], target, taken, facts)]
    IN  judge[MaxExprDepth + 1][e]
=============================================================================
