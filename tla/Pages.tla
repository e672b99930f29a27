------------------------------- MODULE Pages -------------------------------
(***************************************************************************)
(* One General Announcements program page, read row by row into a draft,    *)
(* and the draft turned into a requirement tree.  A row is what the parser  *)
(* reads off a <tr>: its class, its text (comment, label or title), whether *)
(* the text stands in the code cell, the codes of that cell, and whether it *)
(* is indented.  A text is <<shape, name>>, where the shape says which of   *)
(* the parser's patterns it matches.  Rules carry no ids here: the store    *)
(* gives them.                                                              *)
(***************************************************************************)
EXTENDS Naturals, Sequences, SequencesExt

NoText == <<"none", "">>
Node(label, kind, filter, of) == [label |-> label, kind |-> kind, filter |-> filter, of |-> of]
SelfCheck(text) == Node(text, "unverifiable", <<>>, <<>>)
Area(title) == [title |-> title, rules |-> <<>>, unparsed |-> <<>>]
Code(code) == <<"code", code>>
NoGroup == [kind |-> "none"]
NewPage == [areas |-> <<>>, aliases |-> <<>>, group |-> NoGroup, summary |-> FALSE]
-----------------------------------------------------------------------------
Classify(tr) ==
    CASE tr.class = "listsum" -> IF tr.text[1] = "total" THEN "total" ELSE "skip"
      [] tr.class = "areaheader" -> IF tr.text[1] = "total" THEN "subtotal" ELSE "area"
      [] tr.class = "areasubheader" -> "rule"
      [] tr.class = "orclass" -> IF tr.codes = <<>> THEN "comment" ELSE "or"
      [] tr.class = "plain" /\ tr.codes # <<>> -> "course"
      [] tr.class = "plain" /\ tr.codes = <<>> /\ tr.text # NoText ->
            IF tr.text[1] = "total" /\ ~tr.cell THEN "subtotal" ELSE "comment"
      [] OTHER -> "skip"

(* The area a row lands in: the last one, or a nameless first one. *)
Placed(page) == IF page.areas = <<>> THEN [page EXCEPT !.areas = <<Area(NoText)>>] ELSE page
AddRule(page, rule) ==
    LET p == Placed(page) IN [p EXCEPT !.areas[Len(p.areas)].rules = Append(@, rule)]
Unparsed(page, text) ==
    LET p == Placed(page) IN [p EXCEPT !.areas[Len(p.areas)].unparsed = Append(@, text)]
OpenGroup(page, kind, text) ==
    [page EXCEPT !.group = [kind |-> kind, label |-> text, options |-> <<>>, include |-> <<>>]]
CloseGroup(page) ==
    LET g == page.group
        p == [page EXCEPT !.group = NoGroup]
    IN  CASE g.kind = "none" -> page
          [] g.kind # "none" /\ g.options = <<>> /\ g.include = <<>> -> Unparsed(p, g.label)
          [] OTHER -> AddRule(p, Node(g.label, g.kind, g.include, g.options))

Rule(page, text) ==
    IF text[1] \in {"select", "credits"} THEN OpenGroup(page, text[1], text) ELSE Unparsed(page, text)
WithAliases(page, codes) ==
    [page EXCEPT !.aliases = @ \o [n \in 1..(Len(codes) - 1) |-> {codes[1], codes[n + 1]}]]
CourseRow(page, tr) ==
    LET rule == Node(tr.text, "course", <<Code(tr.codes[1])>>, <<>>)
        p == WithAliases(page, tr.codes)
    IN  CASE page.group.kind = "all" -> [p EXCEPT !.group.options = Append(@, rule)]
          [] page.group.kind = "select" /\ tr.indented -> [p EXCEPT !.group.options = Append(@, rule)]
          [] page.group.kind = "credits" /\ tr.indented ->
                [p EXCEPT !.group.include = Append(@, Code(tr.codes[1]))]
          [] OTHER -> AddRule(CloseGroup(p), rule)
(* `or MATH 105` joins the rule above it, when that rule is a course. *)
CanJoin(rules) == rules # <<>> /\ Last(rules).kind = "course"
Joined(rules, codes) == [rules EXCEPT ![Len(rules)].filter = Append(@, Code(codes[1]))]
OrRow(page, codes) ==
    LET g == page.group
        n == Len(page.areas)
    IN  CASE g.kind = "credits" -> WithAliases([page EXCEPT !.group.include = Append(@, Code(codes[1]))], codes)
          [] g.kind \in {"select", "all"} /\ CanJoin(g.options) ->
                WithAliases([page EXCEPT !.group.options = Joined(@, codes)], codes)
          [] g.kind = "none" /\ n > 0 /\ CanJoin(page.areas[n].rules) ->
                WithAliases([page EXCEPT !.areas[n].rules = Joined(@, codes)], codes)
          [] OTHER -> Unparsed(page, <<"or", codes>>)
(* A heading opens a group of required courses, the "any course between"    *)
(* form is a range rule, and everything else is kept verbatim.              *)
Comment(page, text) ==
    CASE text[1] = "heading" -> OpenGroup(page, "all", text)
      [] text[1] = "between" -> AddRule(page, Node(text, "course", <<text>>, <<>>))
      [] OTHER -> Unparsed(page, text)

OnRow(page, tr) ==
    LET kind == Classify(tr)
    IN  CASE kind = "area" -> [CloseGroup(page) EXCEPT !.summary = FALSE, !.areas = Append(@, Area(tr.text))]
          [] kind = "subtotal" -> [CloseGroup(page) EXCEPT !.summary = TRUE]
          [] kind = "total" -> CloseGroup(page)
          [] kind = "rule" -> Rule(CloseGroup(page), tr.text)
          [] kind = "course" -> CourseRow(page, tr)
          [] kind = "or" -> OrRow(page, tr.codes)
          [] kind = "comment" /\ ~page.summary -> Comment(CloseGroup(page), tr.text)
          [] OTHER -> page
ParsePage(page) ==
    LET read[n \in 0..Len(page.rows)] == IF n = 0 THEN NewPage ELSE OnRow(read[n - 1], page.rows[n])
        all == CloseGroup(read[Len(page.rows)])
    IN  [areas |-> all.areas, aliases |-> all.aliases, footnotes |-> page.footnotes, title |-> page.title]
(* The requirement tree of a draft: All of one All per area, every row that *)
(* was not understood and every footnote a self-check.                      *)
IntoProgram(draft) ==
    LET checks(texts) == [n \in DOMAIN texts |-> SelfCheck(texts[n])]
        areas == [n \in DOMAIN draft.areas |->
                     Node(draft.areas[n].title, "all", <<>>,
                          draft.areas[n].rules \o checks(draft.areas[n].unparsed))]
    IN  Node(draft.title, "all", <<>>, areas \o checks(draft.footnotes))
-----------------------------------------------------------------------------
(* A requirement tree by paths: <<>> the root, <<1, 2>> the second child of *)
(* the first.  An area's rule has children and those have none, so no path  *)
(* is longer than three.                                                    *)
At(tree, path) == LET node[n \in 0..Len(path)] == IF n = 0 THEN tree ELSE node[n - 1].of[path[n]]
                  IN  node[Len(path)]
Below(tree, paths) == UNION {{Append(path, n) : n \in DOMAIN At(tree, path).of} : path \in paths}
Paths(tree) ==
    LET areas == Below(tree, {<<>>})
        rules == Below(tree, areas)
    IN  {<<>>} \cup areas \cup rules \cup Below(tree, rules)

(* What a row of a page puts into the tree: its codes, and its text.  A     *)
(* comment under a "Total Credit Hours Required" heading puts nothing: the  *)
(* parser skips it, so it is in no `unparsed' list and is not reported,     *)
(* although parse_program_page says that nothing is dropped.                *)
RowSays(page, n) ==
    LET tr == page.rows[n]
        kind == Classify(tr)
        heads == {m \in 1..n : Classify(page.rows[m]) \in {"area", "subtotal"}}
        summary == heads # {} /\ Classify(page.rows[CHOOSE m \in heads : \A k \in heads : k <= m]) = "subtotal"
    IN  CASE kind \in {"course", "or"} -> {Code(tr.codes[i]) : i \in DOMAIN tr.codes}
          [] kind \in {"area", "rule"} \/ (kind = "comment" /\ ~summary) -> {tr.text}
          [] OTHER -> {}
PageSays(page) == (UNION {RowSays(page, n) : n \in DOMAIN page.rows}) \cup ToSet(page.footnotes)
TreeSays(tree, aliases) ==
    LET nodes == {At(tree, path) : path \in Paths(tree)}
        spelled(node) == IF node.label[1] = "or" THEN ToSet(node.label[2]) ELSE {}
    IN  {node.label : node \in nodes} \cup (UNION {ToSet(node.filter) : node \in nodes})
        \cup {Code(c) : c \in (UNION {spelled(node) : node \in nodes}) \cup (UNION ToSet(aliases))}
=============================================================================
