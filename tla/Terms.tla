------------------------------- MODULE Terms -------------------------------
(***************************************************************************)
(* Terms, seasons, credit hours and board positions: skyspace-core,        *)
(* term.rs.  Rice keys its data by a term code (202710 is Fall 2026); the  *)
(* plan board orders its columns by a position, which an Away or Off       *)
(* column has too.  Hours are hundredths of an hour in a u16, so a sum     *)
(* saturates at MaxCents instead of wrapping.                              *)
(***************************************************************************)
EXTENDS Integers

CONSTANT MaxCents   \* u16::MAX: every count and every sum of hours stops here
ASSUME MaxCentsAssumption == MaxCents \in Nat

(* Term codes *)
FALL   == 10
SPRING == 20
SUMMER == 30
QUADMESTERS == {5, 11, 15, 25}              \* MBA terms: never on a board
Years       == 2000 .. 2099
SeasonCodes == {FALL, SPRING, SUMMER} \cup QUADMESTERS
TermCode    == [year : Years, season : SeasonCodes]

\* The six digits TermCode::parse splits: four of year, two of season.
Digits(c) == c.year * 100 + c.season
Parse(n)  == {c \in TermCode : Digits(c) = n}    \* empty: the text is refused

\* The derived order: year, then raw season code.
CodeBefore(c, d) == \/ c.year < d.year
                    \/ c.year = d.year /\ c.season < d.season

CatalogYear(c)   == c.year - 1
CalendarYear(c)  == IF c.season <= 11 THEN c.year - 1 ELSE c.year
IsQuadmester(c)  == c.season \in QUADMESTERS

(* Board positions: (academic year, season) in the derived order, packed in *)
(* one number; variant order Fall, Spring, Summer is the code's.            *)
SeasonOf(p)  == p % 3                        \* 0 Fall, 1 Spring, 2 Summer
YearOf(p)    == p \div 3
Fall == 0
Spring == 1
Summer == 2
At(year, season) == 3 * year + season
PositionYear(p)  == IF SeasonOf(p) = Fall THEN YearOf(p) - 1 ELSE YearOf(p)
\* The positions a code stands for: none for a quadmester.
Position(c) == {At(c.year, s) : s \in {t \in {Fall, Spring, Summer} :
                                         c.season = 10 * (t + 1)}}
Incoming == -1       \* Taken::Incoming sorts before every term

(* Credit hours *)
Credits == 0 .. MaxCents
Capped(n)   == IF n > MaxCents THEN MaxCents ELSE n
Plus(a, b)  == IF a + b > MaxCents THEN MaxCents ELSE a + b
Times(a, n) == IF a * n > MaxCents THEN MaxCents ELSE a * n

\* Fixed(c), Range {min, max} and Either(a, b) as printed, low end first or not.
Fixed(c)     == [kind |-> "fixed",  a |-> c, b |-> c]
Range2(a, b) == [kind |-> "range",  a |-> a, b |-> b]
Either(a, b) == [kind |-> "either", a |-> a, b |-> b]
MinHours(r) == IF r.kind = "either" /\ r.b < r.a THEN r.b ELSE r.a
MaxHours(r) == IF r.kind = "either" /\ r.a > r.b THEN r.a ELSE r.b
=============================================================================
