------------------------------- MODULE Search -------------------------------
(***************************************************************************)
(* The section search: GET /sections over the catalog's tables, and the     *)
(* catalog page that walks its pages.  A search is several statements, and  *)
(* a job may write between two of them.  A student may type another query   *)
(* while an answer is on its way; "Load more" asks for the page after the   *)
(* rows on screen and appends it.  One term; what a keyword finds in a      *)
(* section (SQL text search) is a fact of the section.  Tags and the        *)
(* browser's cache (Listings) are left out: an answer is the server's.      *)
(***************************************************************************)
EXTENDS Integers, SequencesExt, Orders

CONSTANTS Catalogs,     \* the live sections there may be, by CRN
          Searches,     \* what a student may ask for
          Ties,         \* ranks of the CRNs: the orders rows may come in that a sort leaves equal
          Keywords, Attributes,
          MaxOffset, MaxLimit, MaxSuggestions, Unset,
          Turns         \* bounds: [types, mores, writes, faults]

LastNumber == 9999      \* a course number has at most four digits
OrUnset(values) == values \cup {Unset}
Days == {"M", "T", "W", "R", "F", "S", "U"}
Section == [subject : Nat, number : 0..LastNumber, code : Nat, credits : Nat \X Nat, seats : OrUnset(Int),
            meetings : SUBSET [days : SUBSET Days, from : OrUnset(Nat), to : OrUnset(Nat)],
            words : [Keywords -> [code : Nat, title : Nat, taught : BOOLEAN]],
            department : Nat, school : Nat, part : Nat,
            attributes : SUBSET Attributes, catalog : SUBSET Attributes]
Query == [q : OrUnset(Keywords), subject : SUBSET Nat, department : SUBSET Nat, school : SUBSET Nat,
          attr : SUBSET Attributes, level : SUBSET Nat, levelMin : OrUnset(Nat), levelMax : OrUnset(Nat),
          creditsMin : OrUnset(Nat), creditsMax : OrUnset(Nat), days : SUBSET Days,
          startsAfter : OrUnset(Nat), endsBefore : OrUnset(Nat), part : SUBSET Nat,
          openSeatsOnly : BOOLEAN, scheduledOnly : BOOLEAN,
          sort : {"relevance", "courseNumber", "credits", "openSeats"}, offset : Nat, limit : Nat]

(* A query begins with its first row.                                       *)
CatalogOK ==
    /\ MaxSuggestions \in Nat /\ MaxOffset \in Nat /\ MaxLimit \in Nat \ {0} /\ Ties # {}
    /\ Unset \notin Int \cup Searches \cup Keywords
    /\ \A query \in Searches : query \in Query /\ query.offset = 0
    /\ \A catalog \in Catalogs :
           /\ IsFiniteSet(DOMAIN catalog) /\ \A c \in DOMAIN catalog : catalog[c] \in Section
           /\ \A tie \in Ties : \A c, d \in DOMAIN catalog : tie[c] \in Nat /\ (tie[c] = tie[d] => c = d)
ASSUME CatalogAssumption == CatalogOK

VARIABLES shelf,        \* the live sections
          typed,        \* the query in the URL
          asks,         \* the request for a first page and the one for more
          results,      \* what the page holds: the query, its rows and the last page's counts
          spoiled,      \* history: a job wrote since the first page was asked for, or an answer
                        \* for more was appended that was asked for after another number of rows
          turns         \* bound
searchVars == <<shelf, typed, asks, results, spoiled, turns>>
-----------------------------------------------------------------------------
(* CatalogQuery: what is refused, and what the store is asked.  Lists are   *)
(* sets: they are sorted and their repetitions dropped.                     *)
OrElse(value, default) == IF value = Unset THEN default ELSE value
MinutesInDay == 24 * 60
Reversed(min, max) == min # Unset /\ max # Unset /\ min > max
Validate(query) ==
    /\ ~Reversed(query.levelMin, query.levelMax) /\ ~Reversed(query.creditsMin, query.creditsMax)
    /\ OrElse(query.startsAfter, 0) < MinutesInDay /\ OrElse(query.endsBefore, 0) <= MinutesInDay
    /\ query.startsAfter # Unset /\ query.endsBefore # Unset => query.startsAfter < query.endsBefore
    /\ query.offset <= MaxOffset
Clamped(limit) == IF limit < 1 THEN 1 ELSE IF limit > MaxLimit THEN MaxLimit ELSE limit
Levels(query) ==
    LET range == {100 * n : n \in (OrElse(query.levelMin, 0) \div 100)..(OrElse(query.levelMax, LastNumber) \div 100)}
    IN  IF query.levelMin = Unset /\ query.levelMax = Unset THEN query.level
        ELSE IF query.level = {} THEN range ELSE range \cap query.level
ToStoreQuery(query) == [query EXCEPT !.level = Levels(query), !.limit = Clamped(query.limit)]

(* push_search: an empty list filters nothing, and a filter on what is not  *)
(* known of a section refuses it.  Minutes are added to a time of day, so   *)
(* that the last minute of the day and one more is midnight again.          *)
TimeOfDay(minutes) == minutes % MinutesInDay
LevelOf(section) == 100 * (section.number \div 100)
Timed(section) == {m \in section.meetings : m.from # Unset}
Matches(section, query, withScheduled) ==
    /\ query.q # Unset => \/ section.words[query.q].code < 3
                          \/ section.words[query.q].title > 0
                          \/ section.words[query.q].taught
    /\ query.subject # {} => section.subject \in query.subject
    /\ query.department # {} => section.department \in query.department
    /\ query.school # {} => section.school \in query.school
    /\ query.attr # {} => (section.attributes \cup section.catalog) \cap query.attr # {}
    /\ query.level # {} => LevelOf(section) \in query.level
    /\ query.creditsMin # Unset => section.credits[2] >= query.creditsMin
    /\ query.creditsMax # Unset => section.credits[1] <= query.creditsMax
    /\ query.days # {} => \A m \in Timed(section) : m.days \subseteq query.days
    /\ query.startsAfter # Unset => \A m \in Timed(section) : m.from >= TimeOfDay(query.startsAfter)
    /\ query.endsBefore # Unset => \A m \in Timed(section) : m.to <= TimeOfDay(query.endsBefore)
    /\ query.part # {} => section.part \in query.part
    /\ query.openSeatsOnly => section.seats # Unset /\ section.seats > 0
    /\ withScheduled /\ query.scheduledOnly => Timed(section) # {}
Courses(crns) == {<<shelf[c].subject, shelf[c].number>> : c \in crns}
Found(query, withScheduled) == {c \in DOMAIN shelf : Matches(shelf[c], query, withScheduled)}

(* push_order: the sort, then subject, number and section; sections these   *)
(* do not tell apart come as the database has them, statement by statement. *)
SortedBy(section, query) ==
    CASE query.sort = "relevance" ->
            IF query.q = Unset THEN <<>>
            ELSE <<Min({section.words[query.q].code, 2}), -section.words[query.q].title>>
      [] query.sort = "courseNumber" -> <<>>
      [] query.sort = "credits" -> section.credits
      [] query.sort = "openSeats" -> IF section.seats = Unset THEN <<1, 0>> ELSE <<0, -section.seats>>
SortKey(section, query) == SortedBy(section, query) \o <<section.subject, section.number, section.code>>
Precedes(key, other) == \E n \in DOMAIN key : key[n] < other[n] /\ \A m \in 1..(n - 1) : key[m] = other[m]
Ordered(crns, query, tie) ==
    LET key(c) == SortKey(shelf[c], query)
        ahead == [c \in crns |-> {d \in crns : Precedes(key(d), key(c)) \/ (key(d) = key(c) /\ tie[d] < tie[c])}]
    IN  [n \in 1..Cardinality(crns) |-> CHOOSE c \in crns : Cardinality(ahead[c]) = n - 1]
Slice(rows, offset, limit) == SubSeq(rows, offset + 1, Min({offset + limit, Len(rows)}))

(* The empty state: each active filter, the first few of them, and the      *)
(* query without it.                                                        *)
Filter(field, active, without) == [field |-> field, active |-> active, without |-> without]
Filters(query) ==
    <<Filter("q", query.q # Unset, [query EXCEPT !.q = Unset]),
      Filter("subject", query.subject # {}, [query EXCEPT !.subject = {}]),
      Filter("department", query.department # {}, [query EXCEPT !.department = {}]),
      Filter("school", query.school # {}, [query EXCEPT !.school = {}]),
      Filter("attr", query.attr # {}, [query EXCEPT !.attr = {}]),
      Filter("level", query.level # {} \/ query.levelMin # Unset \/ query.levelMax # Unset,
             [query EXCEPT !.level = {}, !.levelMin = Unset, !.levelMax = Unset]),
      Filter("credits", query.creditsMin # Unset \/ query.creditsMax # Unset,
             [query EXCEPT !.creditsMin = Unset, !.creditsMax = Unset]),
      Filter("days", query.days # {}, [query EXCEPT !.days = {}]),
      Filter("time", query.startsAfter # Unset \/ query.endsBefore # Unset,
             [query EXCEPT !.startsAfter = Unset, !.endsBefore = Unset]),
      Filter("partOfTerm", query.part # {}, [query EXCEPT !.part = {}]),
      Filter("openSeatsOnly", query.openSeatsOnly, [query EXCEPT !.openSeatsOnly = FALSE]),
      Filter("scheduledOnly", query.scheduledOnly, [query EXCEPT !.scheduledOnly = FALSE])>>
Active(query) == LET filters == Filters(query) IN Chosen(filters, {n \in DOMAIN filters : filters[n].active})
DropAll(query) == Slice(Filters(query), 0, MaxSuggestions)   \* mutant: cut before the idle ones are left out
DropFilters(query) == Slice(Active(query), 0, MaxSuggestions)
-----------------------------------------------------------------------------
(* A request: the statements of its handler, one action each.               *)
NoAsk == [pc |-> "none", query |-> Unset, late |-> FALSE, items |-> <<>>, total |-> 0, courses |-> 0,
          hidden |-> 0, todo |-> <<>>, suggestions |-> <<>>]
Asked(query, offset) == [NoAsk EXCEPT !.pc = "page", !.query = [query EXCEPT !.offset = offset]]
NoResults == [key |-> Unset, rows |-> <<>>, more |-> FALSE, total |-> 0, courses |-> 0, hidden |-> 0]
SearchInit ==
    /\ shelf \in Catalogs /\ typed \in Searches
    /\ asks = [first |-> Asked(typed, 0), more |-> NoAsk]
    /\ results = NoResults /\ spoiled = FALSE
    /\ turns \in Turns
Turn(part) == turns[part] > 0 /\ turns' = [turns EXCEPT ![part] = @ - 1]
screen == <<typed, results, spoiled>>
Serve(k, answer) == asks' = [asks EXCEPT ![k] = answer] /\ UNCHANGED <<shelf, screen, turns>>

SelectPage(k) ==
    LET q == ToStoreQuery(asks[k].query)
    IN  /\ asks[k].pc = "page" /\ Validate(asks[k].query)
        /\ \E tie \in Ties :
               Serve(k, [asks[k] EXCEPT !.pc = "counts", !.items = Slice(Ordered(Found(q, TRUE), q, tie), q.offset, q.limit)])
SearchCounts(k) ==
    /\ asks[k].pc = "counts"
    /\ LET found == Found(ToStoreQuery(asks[k].query), TRUE)
       IN  Serve(k, [asks[k] EXCEPT !.pc = IF asks[k].query.scheduledOnly THEN "hidden" ELSE "loaded",
                                    !.total = Cardinality(found), !.courses = Cardinality(Courses(found))])
CountHidden(k) ==
    /\ asks[k].pc = "hidden"
    /\ LET all == Cardinality(Found(ToStoreQuery(asks[k].query), FALSE))
       IN  Serve(k, [asks[k] EXCEPT !.pc = "loaded", !.hidden = Max({all - asks[k].total, 0})])
Loaded(k) ==
    /\ asks[k].pc = "loaded"
    /\ Serve(k, [asks[k] EXCEPT !.pc = "suggest",
                                !.todo = IF asks[k].total = 0 /\ asks[k].query.offset = 0
                                          THEN DropFilters(asks[k].query) ELSE <<>>])
Suggest(k) ==
    /\ asks[k].pc = "suggest" /\ asks[k].todo # <<>>
    /\ LET filter == Head(asks[k].todo)
           wouldMatch == Cardinality(Found(ToStoreQuery(filter.without), TRUE))
           offer == [field |-> filter.field, wouldMatch |-> wouldMatch]
       IN  Serve(k, [asks[k] EXCEPT !.todo = Tail(@),
                                    !.suggestions = IF wouldMatch > 0 THEN Append(@, offer) ELSE @])
Ready(k) == asks[k].pc = "suggest" /\ asks[k].todo = <<>>
HasMore(ask) == ask.query.offset + Len(ask.items) < ask.total
-----------------------------------------------------------------------------
(* The catalog page.  The key of a query is the query from its first row.   *)
(* An answer for more is appended to any rows of its key, also to those of  *)
(* a first page asked for again since.  The page keeps no suggestions.      *)
Key(query) == [query EXCEPT !.offset = 0]
Type(query) ==
    /\ Turn("types") /\ query # typed
    /\ typed' = query /\ asks' = [asks EXCEPT !.first = Asked(query, 0)]
    /\ UNCHANGED <<shelf, results, spoiled>>
LoadMore ==
    /\ Turn("mores") /\ results.key = typed /\ results.more /\ asks.more = NoAsk
    /\ asks' = [asks EXCEPT !.more = Asked(typed, Len(results.rows))]
    /\ UNCHANGED <<shelf, screen>>
Shown(ask, rows) ==
    [key |-> Key(ask.query), rows |-> rows, more |-> HasMore(ask),
     total |-> ask.total, courses |-> ask.courses, hidden |-> ask.hidden]
AnswerFirst ==
    /\ Ready("first") /\ asks' = [asks EXCEPT !["first"] = NoAsk]
    /\ results' = Shown(asks.first, asks.first.items) /\ spoiled' = asks.first.late
    /\ UNCHANGED <<shelf, typed, turns>>
Appended(ask) ==
    /\ results' = Shown(ask, results.rows \o ask.items)
    /\ spoiled' = (spoiled \/ ask.late \/ ask.query.offset # Len(results.rows))
AppendAlways ==            \* mutant: the answer is appended whatever is on screen
    /\ Ready("more") /\ asks' = [asks EXCEPT !.more = NoAsk] /\ Appended(asks.more)
    /\ UNCHANGED <<shelf, typed, turns>>
AnswerMore ==
    /\ Ready("more") /\ asks' = [asks EXCEPT !["more"] = NoAsk]
    /\ IF results.key = Key(asks.more.query) THEN Appended(asks.more) ELSE UNCHANGED <<results, spoiled>>
    /\ UNCHANGED <<shelf, typed, turns>>
(* A refused query is a failed request too, and nothing asks again.         *)
SearchFails(k) ==
    /\ asks[k] # NoAsk
    /\ \/ asks[k].pc = "page" /\ ~Validate(asks[k].query) /\ turns' = turns
       \/ Turn("faults")
    /\ asks' = [asks EXCEPT ![k] = NoAsk]
    /\ UNCHANGED <<shelf, screen>>
Overtaken(ask) == IF ask = NoAsk THEN NoAsk ELSE [ask EXCEPT !.late = TRUE]
JobWrites ==
    /\ Turn("writes") /\ \E catalog \in Catalogs \ {shelf} : shelf' = catalog
    /\ asks' = [k \in DOMAIN asks |-> Overtaken(asks[k])]
    /\ spoiled' = TRUE /\ UNCHANGED <<typed, results>>
SearchStep ==
    \/ \E k \in DOMAIN asks : \/ SelectPage(k) \/ SearchCounts(k) \/ CountHidden(k)
                              \/ Loaded(k) \/ Suggest(k) \/ SearchFails(k)
    \/ \E query \in Searches : Type(query)
    \/ LoadMore \/ AnswerFirst \/ AnswerMore \/ JobWrites
-----------------------------------------------------------------------------
SearchTypeOK ==
    /\ shelf \in Catalogs /\ typed \in Searches /\ spoiled \in BOOLEAN
    /\ results.key \in Searches \cup {Unset} /\ Range(results.rows) \subseteq UNION {DOMAIN c : c \in Catalogs}
    /\ \A k \in DOMAIN asks :
           asks[k].pc \in {"none", "page", "counts", "hidden", "loaded", "suggest"}

(* What a query asks for, read plainly: a level being one of those named    *)
(* and one between the bounds, of whole hundreds, and no meeting that ends  *)
(* after the minute named.  Two queries the code reads otherwise: one whose *)
(* levels and bounds exclude each other finds every level, where the doc of *)
(* to_store_query has them intersected, and one for the end of the day      *)
(* finds no section that has a time.                                        *)
LevelWanted(level, query) ==
    /\ query.level # {} => level \in query.level
    /\ query.levelMin # Unset => level >= 100 * (query.levelMin \div 100)
    /\ query.levelMax # Unset => level <= query.levelMax
AnyLevel(query) == [query EXCEPT !.level = {}, !.levelMin = Unset, !.levelMax = Unset]
AnyTime(query) == [query EXCEPT !.endsBefore = Unset]
Sensible(query) ==
    /\ Levels(query) # {} \/ query = AnyLevel(query)
    /\ query.endsBefore # Unset => query.endsBefore < MinutesInDay
Wanted(query, withScheduled) ==
    {c \in DOMAIN shelf :
        /\ Matches(shelf[c], AnyTime(AnyLevel(query)), withScheduled) /\ LevelWanted(LevelOf(shelf[c]), query)
        /\ query.endsBefore # Unset => \A m \in Timed(shelf[c]) : m.to <= query.endsBefore}

(* Rice prints one section of a course under one code; the schema keeps     *)
(* only CRNs apart.                                                         *)
NamesAreUnique ==
    \A c, d \in DOMAIN shelf :
        /\ shelf[c].subject = shelf[d].subject /\ shelf[c].number = shelf[d].number
        /\ shelf[c].code = shelf[d].code
        => c = d

(* While no job writes, the counts on screen are those of the whole result, *)
(* "Load more" is offered exactly when rows are missing, and the rows are   *)
(* the first of all that the query wants, in its order, none twice and none *)
(* left out, as long as course and section code name a section.  Excepted   *)
(* is what CatalogPage does to a student who loads more, types another      *)
(* query and the first again before the answer: the page for later rows is  *)
(* appended to the new first one, since only the query is compared.         *)
PagesAreWhole ==
    /\ SearchTypeOK
    /\ results.key # Unset /\ ~spoiled /\ Sensible(results.key) =>
           LET all == Wanted(results.key, TRUE)
           IN  /\ NamesAreUnique => \A tie \in Ties :
                      results.rows = Slice(Ordered(all, results.key, tie), 0, Len(results.rows))
               /\ results.total = Cardinality(all) /\ results.courses = Cardinality(Courses(all))
               /\ results.hidden = Cardinality(Wanted(results.key, FALSE) \ all)
               /\ results.more <=> Len(results.rows) < Cardinality(all)

(* An answer of the API no job wrote under: an empty result offers each     *)
(* active filter, of the first few, that alone keeps it empty, with the     *)
(* number of rows the query has without it; a result with rows, or a later  *)
(* page, offers none.                                                       *)
SuggestionsHelp ==
    \A k \in DOMAIN asks : Ready(k) /\ ~asks[k].late /\ Sensible(asks[k].query) =>
        LET query == asks[k].query
            Helps(f) == f.active /\ Wanted(f.without, TRUE) # {}
            Ahead(n) == Cardinality({m \in 1..n : Filters(query)[m].active})
            offered == {n \in DOMAIN Filters(query) : Helps(Filters(query)[n]) /\ Ahead(n) <= MaxSuggestions}
        IN  Range(asks[k].suggestions) =
                IF Wanted(query, TRUE) # {} \/ query.offset > 0 THEN {}
                ELSE {[field |-> Filters(query)[n].field,
                       wouldMatch |-> Cardinality(Wanted(Filters(query)[n].without, TRUE))] : n \in offered}
=============================================================================
