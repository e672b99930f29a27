------------------------------ MODULE MCIngest ------------------------------
(* Small instances of Ingest. *)
EXTENDS Ingest, TLC

(* Rows of a program page: class, text, codes, text in the code cell, indented. *)
Tr(class, text, codes, cell, indented) ==
    [class |-> class, text |-> text, codes |-> codes, cell |-> cell, indented |-> indented]
AreaRow(name) == Tr("areaheader", <<"prose", name>>, <<>>, FALSE, FALSE)
Summary == Tr("areaheader", <<"total", "">>, <<>>, FALSE, FALSE)
Required(name, codes) == Tr("plain", <<"title", name>>, codes, FALSE, FALSE)
Option(name, codes) == Tr("plain", <<"title", name>>, codes, FALSE, TRUE)
RuleRow(shape, name) == Tr("areasubheader", <<shape, name>>, <<>>, FALSE, FALSE)
Plain(shape, name) == Tr("plain", <<shape, name>>, <<>>, FALSE, FALSE)
Or(codes) == Tr("orclass", NoText, codes, FALSE, FALSE)
Page(rows) == [title |-> <<"prose", "CS">>, rows |-> rows, footnotes |-> <<<<"prose", "note">>>>]

NoTable == Page(<<>>)
FirstPage == Page(<<Plain("prose", "intro"), AreaRow("core"), RuleRow("select", "one of"),
                    Option("y", <<1>>), Or(<<2, 3>>), Required("x", <<4>>), Or(<<3>>)>>)
SecondPage == Page(<<AreaRow("core"), RuleRow("credits", "hours"), Option("x", <<2>>), Or(<<3>>),
                     Plain("heading", "math"), Required("y", <<4>>), Or(<<1>>), Plain("between", "range"),
                     Summary, Plain("prose", "sum"), Required("w", <<3>>)>>)
MCSitePages == {NoTable, FirstPage, SecondPage}
Budget(index, edits, runs, faults, decisions, desks) ==
    [index |-> index, edits |-> edits, runs |-> runs, faults |-> faults, decisions |-> decisions, desks |-> desks]
Quiet == Budget({1}, 0, 0, 0, 0, 0)
Scene(budget, opens, seats) == [budget |-> budget, opens |-> opens, seats |-> seats, docs |-> NoReading, search |-> NoSearch]
Docs(kinds, listings, runs, replays, faults, days, changes) ==
    [kinds |-> kinds, listings |-> listings, runs |-> runs, replays |-> replays, faults |-> faults, days |-> days, changes |-> changes]
Reads(docs) == [Scene(Quiet, 0, FALSE) EXCEPT !.docs = docs]
Looks(search) == [Scene(Quiet, 0, FALSE) EXCEPT !.search = search]
Typing(types, mores, writes, faults) == [types |-> types, mores |-> mores, writes |-> writes, faults |-> faults]
MCScenes == {Scene(Budget({1}, 1, 2, 0, 3, 1), 0, FALSE),     \* publish, retire, revive
             Scene(Budget({1}, 1, 2, 1, 1, 1), 0, FALSE),     \* a fault anywhere
             Scene(Budget({1}, 0, 1, 0, 2, 2), 0, FALSE),     \* two reviewers
             Scene(Budget({1, 2}, 0, 1, 0, 2, 1), 0, FALSE),  \* two editions of a program
             Scene(Budget({1}, 0, 1, 0, 1, 1), 1, FALSE),     \* an approval's aliases and a catalog page
             Scene(Budget({1, 2}, 1, 2, 2, 0, 0), 0, FALSE),  \* Rice is down; both jobs queue drafts
             Scene(Quiet, 4, FALSE),                          \* four catalog pages
             Scene(Quiet, 0, TRUE),                           \* the seats poll
             Reads(Docs({"xml"}, 2, 1, 1, 1, 1, 1)),          \* a feed run, its replay, a new timetable, a fault
             Reads(Docs({"xml"}, 3, 2, 0, 0, 1, 1)),          \* three listings, two feed runs, a new timetable
             Reads(Docs({"xml"}, 1, 2, 1, 2, 1, 0)),          \* two feed runs and two faults
             Reads(Docs({"detail"}, 1, 2, 1, 2, 1, 0)),       \* detail pages and their replay
             Looks(Typing(2, 1, 0, 0)),                       \* two more queries and a page
             Looks(Typing(1, 3, 0, 1)),                       \* one more query, pages, a request fails
             Looks(Typing(1, 0, 1, 1)), Looks(Typing(0, 2, 1, 1))}      \* a job writes, a request fails
MCFeedScenes == {Reads(Docs({"xml"}, 1, 1, 0, 0, 0, 0))}            \* a listing and a feed run
MCFeedBudgets == {scn.docs : scn \in MCFeedScenes}
MCBudgets == {scn.budget : scn \in MCScenes}
MCTurns == {scn.search : scn \in MCScenes}
MCDocBudgets == {scn.docs : scn \in MCScenes}
(* Meetings, and two states of a timetable for two sections. *)
Text(days, from, to, dates) == [days |-> days, from |-> from, to |-> to, dates |-> dates]
Tba == Text({}, 0, 1, Unknown)
Blank == Text({}, 0, 0, Unknown)
Mon(dates) == Text({"M", "W"}, 1, 3, dates)
Later(dates) == Text({"M"}, 3, 4, dates)
Tue(dates) == Text({"T", "W"}, 2, 4, dates)
Class(session, texts) == [session |-> session, texts |-> texts]
MCTerms == {[first |-> <<Class("full", <<Mon(<<1, 4>>), Tba>>), Class("full", <<Tue(<<1, 4>>)>>)>>,
             later |-> <<Class("full", <<Mon(<<1, 4>>)>>), Class("half", <<Tue(<<4, 5>>), Later(<<1, 4>>)>>)>>],
            [first |-> <<Class("full", <<Mon(<<1, 2>>)>>), Class("half", <<Mon(<<3, 4>>)>>)>>,
             later |-> <<Class("full", <<Mon(<<1, 2>>), Mon(<<3, 4>>)>>), Class("half", <<Mon(<<2, 3>>)>>)>>],
            [first |-> <<Class("full", <<Later(<<1, 4>>)>>), Class("full", <<Later(<<3, 2>>)>>)>>,
             later |-> <<Class("full", <<Blank>>), Class("full", <<Mon(Unknown)>>)>>]}
MCFeeds == {<<{1, 2}>>, <<{2, 3}>>, <<{3, 4}>>, <<{1, 3}, {2, 4}>>, <<{2, 3, 4}>>, <<{1, 4}>>}
MCFacts == [s \in 1..4 |-> [withdrawn |-> s = 4, timed |-> s = 1, saved |-> s = 2, collected |-> s = 3]]
MCAssociated == <<<<2>>, <<1, 2>>>>      \* the feed of the first leaves it out
(* Sections of COMP, MATH and ELEC, timed or not, polled or not, and what   *)
(* one keyword finds in them; later one is withdrawn and another opened.    *)
Word(code, title, taught) == [k \in {"k"} |-> [code |-> code, title |-> title, taught |-> taught]]
Meets(days, from, to) == [days |-> days, from |-> from, to |-> to]
Listed(subject, number, code, credits, meetings, seats, word) ==
    [subject |-> subject, number |-> number, code |-> code, credits |-> credits, meetings |-> meetings,
     seats |-> seats, words |-> word, department |-> subject, school |-> subject \div 2,
     attributes |-> IF seats = 5 THEN {"AD"} ELSE {}, catalog |-> IF number = 220 THEN {"AD"} ELSE {}, part |-> Len(credits)]
MCCatalog == [c \in 1..5 |->
    CASE c = 1 -> Listed(1, 140, 1, <<4, 4>>, {Meets({"M", "W"}, 9, 10)}, 3, Word(0, 0, FALSE))
      [] c = 2 -> Listed(1, 140, 2, <<4, 4>>, {Meets({}, Unset, Unset)}, Unset, Word(1, 0, TRUE))
      [] c = 3 -> Listed(2, 212, 1, <<3, 3>>, {Meets({"T"}, 11, 12), Meets({}, Unset, Unset)}, 0, Word(3, 2, FALSE))
      [] c = 4 -> Listed(2, 500, 1, <<1, 3>>, {Meets({"F"}, 13, 14)}, 5, Word(3, 0, TRUE))
      [] c = 5 -> Listed(3, 220, 1, <<3, 3>>, {Meets({"M"}, 9, 10), Meets({"W"}, 13, 14)}, Unset, Word(3, 0, FALSE))]
MCCatalogs == {MCCatalog, [c \in {2, 3, 4, 5, 6} |-> IF c = 6 THEN [MCCatalog[1] EXCEPT !.number = 300] ELSE MCCatalog[c]],
               [MCCatalog EXCEPT ![3] = [MCCatalog[1] EXCEPT !.meetings = {Meets({"T"}, 11, 12)}]]}   \* two of one name
MCTies == {[c \in 1..6 |-> c], [c \in 1..6 |-> 6 - c]}
AllSections == [q |-> Unset, subject |-> {}, department |-> {}, school |-> {}, attr |-> {}, level |-> {},
                levelMin |-> Unset, levelMax |-> Unset, creditsMin |-> Unset, creditsMax |-> Unset, days |-> {},
                startsAfter |-> Unset, endsBefore |-> Unset, part |-> {}, openSeatsOnly |-> FALSE,
                scheduledOnly |-> TRUE, sort |-> "relevance", offset |-> 0, limit |-> 2]
MCSearches == {AllSections,
    [AllSections EXCEPT !.q = "k"],
    [AllSections EXCEPT !.scheduledOnly = FALSE, !.sort = "credits"],
    [AllSections EXCEPT !.scheduledOnly = FALSE, !.sort = "openSeats", !.limit = 9],
    [AllSections EXCEPT !.subject = {3}, !.level = {500}, !.days = {"M", "W"}],
    [AllSections EXCEPT !.levelMin = 150, !.levelMax = 250, !.sort = "courseNumber", !.limit = 0],
    [AllSections EXCEPT !.levelMax = 499, !.level = {500}],
    [AllSections EXCEPT !.creditsMax = 2, !.creditsMin = 3],
    [AllSections EXCEPT !.attr = {"AD"}, !.creditsMax = 2, !.school = {0}, !.department = {1, 2}],
    [AllSections EXCEPT !.endsBefore = MinutesInDay],
    [AllSections EXCEPT !.startsAfter = 10, !.endsBefore = 13, !.part = {2}, !.openSeatsOnly = TRUE]}
Sym == Permutations(Reviewers) \cup Permutations(Pollers)
=============================================================================
