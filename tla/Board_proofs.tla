---------------------------- MODULE Board_proofs ----------------------------
(***************************************************************************)
(* Proofs about the board: whatever the student does, for any plans, any    *)
(* catalog and any number of edits, the columns stay in order, no card sits *)
(* in two places, none is lost, and the report tells every exclusion the    *)
(* plan falls under.  Reports_proofs goes on with the rest of the report.   *)
(***************************************************************************)
EXTENDS Board, Orders_proofs

-----------------------------------------------------------------------------
(* Lists of cards.                                                          *)

\* A list of cards by its places.
LEMMA CardsIntro ==
  ASSUME NEW n \in Nat, NEW f, f = [i \in 1 .. n |-> f[i]], \A i \in 1 .. n : CardOK(f[i]),
         \A i, j \in 1 .. n : f[i].id = f[j].id => i = j
  PROVE  CardsOK(f) /\ Len(f) = n /\ DOMAIN f = 1 .. n
<1>1. ToSet(f) = {f[i] : i \in 1 .. n}
  BY DEF ToSet
<1>2. \A i \in 1 .. n : f[i] \in ToSet(f)
  BY <1>1
<1>3. f \in Seq(ToSet(f)) /\ Len(f) = n /\ DOMAIN f = 1 .. n
  BY <1>2, ListOf
<1>4. \A c \in ToSet(f) : CardOK(c)
  BY <1>1
<1>. QED
  BY <1>3, <1>4 DEF CardsOK

LEMMA CardsElim ==
  ASSUME NEW cards, CardsOK(cards)
  PROVE  /\ Len(cards) \in Nat /\ DOMAIN cards = 1 .. Len(cards)
         /\ cards = [i \in 1 .. Len(cards) |-> cards[i]]
         /\ \A i \in 1 .. Len(cards) : CardOK(cards[i]) /\ cards[i] \in ToSet(cards)
         /\ \A i, j \in 1 .. Len(cards) : cards[i].id = cards[j].id => i = j
         /\ \A c \in ToSet(cards) : \E i \in 1 .. Len(cards) : c = cards[i]
<1>1. cards \in Seq(ToSet(cards))
  BY DEF CardsOK
<1>2. Len(cards) \in Nat /\ DOMAIN cards = 1 .. Len(cards) /\ cards = [i \in 1 .. Len(cards) |-> cards[i]]
  BY ONLY <1>1
<1>3. /\ \A i \in 1 .. Len(cards) : cards[i] \in ToSet(cards)
      /\ \A c \in ToSet(cards) : \E i \in 1 .. Len(cards) : c = cards[i]
  BY <1>2 DEF ToSet
<1>. QED
  BY <1>2, <1>3 DEF CardsOK

\* The cards that are kept.
LEMMA KeptIs ==
  ASSUME NEW cards, CardsOK(cards), NEW places \in SUBSET DOMAIN cards
  PROVE  CardsOK(Chosen(cards, places)) /\ ToSet(Chosen(cards, places)) = {cards[n] : n \in places}
<1>. PICK N \in Nat : N = Len(cards) /\ DOMAIN cards = 1 .. N
  BY CardsElim
<1>. PICK kept : kept = Chosen(cards, places)
  OBVIOUS
<1>1. Gathers(kept, cards, places)
  BY ChosenIs
<1>2. \A i \in 1 .. N : CardOK(cards[i])
  BY CardsElim
<1>3. \A i, j \in 1 .. N : cards[i].id = cards[j].id => i = j
  BY CardsElim
<1>4. PICK k \in Nat : k = Len(kept) /\ kept = [i \in 1 .. k |-> kept[i]]
  <2>1. kept \in Seq({cards[n] : n \in places})
    BY <1>1 DEF Gathers
  <2>. QED
    BY ONLY <2>1
<1>5. \A j \in 1 .. k : \E n \in places : PlaceOf(places, n) = j /\ kept[j] = cards[n]
  BY <1>1, <1>4 DEF Gathers
<1>6. \A n \in places : PlaceOf(places, n) \in 1 .. k /\ kept[PlaceOf(places, n)] = cards[n]
  BY <1>1, <1>4 DEF Gathers
<1>7. CardsOK(kept) /\ DOMAIN kept = 1 .. k
  <2>1. \A i \in 1 .. k : CardOK(kept[i])
    BY <1>2, <1>5
  <2>2. \A i, j \in 1 .. k : kept[i].id = kept[j].id => i = j
    BY <1>3, <1>5
  <2>. QED
    BY <1>4, <2>1, <2>2, CardsIntro
<1>8. ToSet(kept) = {cards[n] : n \in places}
  BY <1>5, <1>6, <1>7 DEF ToSet
<1>. QED
  BY <1>7, <1>8

\* A card put into a list that does not hold it.
Inserted(new, cards, card) ==
  CardsOK(new) /\ ToSet(new) = ToSet(cards) \cup {card}
LEMMA InsertIs ==
  ASSUME NEW cards, CardsOK(cards), NEW card, CardOK(card), card.id \notin Holds(cards),
         NEW at \in 1 .. (Len(cards) + 1)
  PROVE  Inserted(InsertAt(cards, at, card), cards, card)
<1>. PICK n \in Nat : n = Len(cards) /\ DOMAIN cards = 1 .. n
  BY CardsElim
<1>. PICK new : new = InsertAt(cards, at, card)
  OBVIOUS
<1>0. cards \in Seq(ToSet(cards) \cup {card})
  <2>1. cards \in Seq(ToSet(cards))
    BY DEF CardsOK
  <2>. QED
    BY ONLY <2>1
<1>1. /\ new = [i \in 1 .. (n + 1) |-> new[i]]
      /\ \A i \in 1 .. (n + 1) : new[i] = IF i < at THEN cards[i] ELSE IF i = at THEN card ELSE cards[i - 1]
  <2>. PICK S : S = ToSet(cards) \cup {card}
    OBVIOUS
  <2>. PICK left : left = SubSeq(cards, 1, at - 1)
    OBVIOUS
  <2>. PICK right : right = SubSeq(cards, at, n)
    OBVIOUS
  <2>1. cards \in Seq(S) /\ <<card>> \in Seq(S) /\ Len(<<card>>) = 1 /\ <<card>>[1] = card
    BY <1>0
  <2>2. left \in Seq(S) /\ Len(left) = at - 1 /\ \A i \in 1 .. (at - 1) : left[i] = cards[i]
    BY <2>1
  <2>3. right \in Seq(S) /\ Len(right) = n - at + 1 /\ \A i \in 1 .. (n - at + 1) : right[i] = cards[at + i - 1]
    BY <2>1
  <2>4. new = left \o <<card>> \o right
    BY DEF InsertAt
  <2>. PICK most : most = left \o <<card>>
    OBVIOUS
  <2>5. most \in Seq(S) /\ Len(most) = at /\ \A i \in 1 .. at : most[i] = IF i < at THEN cards[i] ELSE card
    BY <2>1, <2>2
  <2>6. /\ new \in Seq(S) /\ Len(new) = n + 1
        /\ \A i \in 1 .. (n + 1) : new[i] = IF i <= at THEN most[i] ELSE right[i - at]
    <3>1. /\ new \in Seq(S) /\ Len(new) = Len(most) + Len(right)
          /\ \A i \in 1 .. (Len(most) + Len(right)) :
               new[i] = IF i <= Len(most) THEN most[i] ELSE right[i - Len(most)]
      <4>1. most \in Seq(S) /\ right \in Seq(S) /\ new = most \o right
        BY <2>3, <2>4, <2>5
      <4>. QED
        BY ONLY <4>1
    <3>2. Len(most) = at /\ Len(right) = n - at + 1 /\ at + (n - at + 1) = n + 1
      BY <2>3, <2>5
    <3>. QED
      BY ONLY <3>1, <3>2
  <2>7. ASSUME NEW i \in 1 .. (n + 1)
        PROVE  new[i] = IF i < at THEN cards[i] ELSE IF i = at THEN card ELSE cards[i - 1]
    <3>1. CASE i <= at
      BY <2>5, <2>6, <3>1
    <3>2. CASE i > at
      <4>1. i - at \in 1 .. (n - at + 1) /\ at + (i - at) - 1 = i - 1 /\ ~(i <= at) /\ ~(i < at) /\ i # at
        BY <3>2
      <4>2. right[i - at] = cards[i - 1]
        BY <2>3, <4>1
      <4>. QED
        BY <2>6, <4>1, <4>2
    <3>. QED
      BY <3>1, <3>2
  <2>. QED
    BY <2>6, <2>7
<1>2. \A i \in 1 .. n : CardOK(cards[i]) /\ cards[i] \in ToSet(cards) /\ cards[i].id # card.id
  BY CardsElim DEF Holds
<1>3. \A i, j \in 1 .. n : cards[i].id = cards[j].id => i = j
  BY CardsElim
<1>4. \A i \in 1 .. (n + 1) : CardOK(new[i])
  BY <1>1, <1>2
<1>5. ASSUME NEW i \in 1 .. (n + 1), NEW j \in 1 .. (n + 1), new[i].id = new[j].id PROVE i = j
  BY <1>1, <1>2, <1>3, <1>5
<1>6. CardsOK(new) /\ DOMAIN new = 1 .. (n + 1)
  <2>1. n + 1 \in Nat
    OBVIOUS
  <2>. QED
    BY <1>1, <1>4, <1>5, <2>1, CardsIntro
<1>7. ASSUME NEW c \in ToSet(new) PROVE c \in ToSet(cards) \cup {card}
  BY <1>1, <1>2, <1>6, <1>7 DEF ToSet
<1>8. ASSUME NEW c \in ToSet(cards) \cup {card} PROVE c \in ToSet(new)
  <2>1. CASE c = card
    BY <1>1, <1>6, <2>1 DEF ToSet
  <2>2. CASE c \in ToSet(cards)
    <3>. PICK i \in 1 .. n : c = cards[i]
      BY <2>2, CardsElim
    <3>. PICK k \in 1 .. (n + 1) : k = (IF i < at THEN i ELSE i + 1)
      OBVIOUS
    <3>1. new[k] = cards[i]
      BY <1>1
    <3>. QED
      BY <1>6, <3>1 DEF ToSet
  <2>. QED
    BY <2>1, <2>2
<1>. QED
  BY <1>6, <1>7, <1>8 DEF Inserted

LEMMA AppendIs ==
  ASSUME NEW cards, CardsOK(cards), NEW card, CardOK(card), card.id \notin Holds(cards)
  PROVE  Inserted(Append(cards, card), cards, card)
<1>. PICK n \in Nat : n = Len(cards) /\ DOMAIN cards = 1 .. n
  BY CardsElim
<1>1. Append(cards, card) = InsertAt(cards, n + 1, card)
  <2>. PICK S : S = ToSet(cards) \cup {card}
    OBVIOUS
  <2>1. cards \in Seq(S) /\ card \in S
    <3>1. cards \in Seq(ToSet(cards))
      BY DEF CardsOK
    <3>. QED
      BY ONLY <3>1, S = ToSet(cards) \cup {card}
  <2>2. SubSeq(cards, 1, (n + 1) - 1) = cards /\ SubSeq(cards, n + 1, Len(cards)) = <<>>
    BY <2>1
  <2>3. InsertAt(cards, n + 1, card) = cards \o <<card>> \o <<>>
    <3>1. InsertAt(cards, n + 1, card)
            = SubSeq(cards, 1, (n + 1) - 1) \o <<card>> \o SubSeq(cards, n + 1, Len(cards))
      BY ONLY DEF InsertAt
    <3>. QED
      BY ONLY <2>2, <3>1
  <2>. QED
    BY <2>1, <2>3
<1>2. n + 1 \in 1 .. (Len(cards) + 1)
  OBVIOUS
<1>. QED
  BY <1>1, <1>2, InsertIs

\* Cards that are changed where they lie.
LEMMA MappedIs ==
  ASSUME NEW cards, CardsOK(cards), NEW new, new = [i \in DOMAIN cards |-> new[i]],
         \A i \in DOMAIN cards : CardOK(new[i]) /\ new[i].id = cards[i].id
  PROVE  CardsOK(new) /\ Holds(new) = Holds(cards)
<1>. PICK n \in Nat : n = Len(cards) /\ DOMAIN cards = 1 .. n
  BY CardsElim
<1>1. \A i, j \in 1 .. n : new[i].id = new[j].id => i = j
  BY CardsElim
<1>2. CardsOK(new) /\ DOMAIN new = 1 .. n
  BY <1>1, CardsIntro
<1>3. \A e : e \in Holds(new) <=> \E i \in 1 .. n : e = new[i].id
  BY <1>2 DEF Holds, ToSet
<1>4. \A e : e \in Holds(cards) <=> \E i \in 1 .. n : e = cards[i].id
  BY DEF Holds, ToSet
<1>5. \A e : e \in Holds(new) <=> e \in Holds(cards)
  BY <1>3, <1>4
<1>. QED
  BY <1>2, <1>5

-----------------------------------------------------------------------------
(* Plans by the places of their columns.                                    *)

Boarded(p, N) ==
  /\ p = Plan(p.catalogYear, p.programs, p.incoming, p.terms, p.selfChecks)
  /\ CardsOK(p.incoming) /\ \A c \in ToSet(p.incoming) : c.origin # None
  /\ p.terms = [k \in 1 .. N |-> p.terms[k]]
  /\ \A k \in 1 .. N : TermOK(p.terms[k])
  /\ \A i, j \in 1 .. N : i < j => p.terms[i].id < p.terms[j].id
  /\ \A k \in 1 .. N : Holds(p.terms[k].cards) \cap Holds(p.incoming) = {}
  /\ \A j, k \in 1 .. N : j # k => Holds(p.terms[j].cards) \cap Holds(p.terms[k].cards) = {}

LEMMA TermsAre ==
  ASSUME NEW N \in Nat, NEW p, Boarded(p, N)
  PROVE  /\ p.terms \in Seq(ToSet(p.terms)) /\ Len(p.terms) = N /\ DOMAIN p.terms = 1 .. N
         /\ \A k \in 1 .. N : p.terms[k] \in ToSet(p.terms)
         /\ \A t \in ToSet(p.terms) : \E k \in 1 .. N : t = p.terms[k]
<1>. PICK terms : terms = p.terms
  OBVIOUS
<1>1. terms = [k \in 1 .. N |-> terms[k]]
  BY DEF Boarded
<1>2. DOMAIN terms = 1 .. N
  BY <1>1
<1>3. /\ \A k \in 1 .. N : terms[k] \in ToSet(terms)
      /\ \A t \in ToSet(terms) : \E k \in 1 .. N : t = terms[k]
  BY <1>2 DEF ToSet
<1>4. terms \in Seq(ToSet(terms)) /\ Len(terms) = N
  BY <1>1, <1>3, ListOf
<1>. QED
  BY <1>2, <1>3, <1>4

LEMMA BoardedElim ==
  ASSUME NEW p, Ordered(p)
  PROVE  \E N \in Nat : Boarded(p, N)
<1>. PICK terms : terms = p.terms
  OBVIOUS
<1>1. /\ p = Plan(p.catalogYear, p.programs, p.incoming, p.terms, p.selfChecks)
      /\ CardsOK(p.incoming) /\ \A c \in ToSet(p.incoming) : c.origin # None
      /\ terms \in Seq(ToSet(terms)) /\ \A t \in ToSet(terms) : TermOK(t)
  BY DEF Ordered, PlanOK
<1>. PICK N \in Nat : N = Len(terms) /\ terms = [k \in 1 .. N |-> terms[k]] /\ DOMAIN terms = 1 .. N
  BY <1>1
<1>2. \A k \in 1 .. N : terms[k] \in ToSet(terms)
  BY DEF ToSet
<1>3. \A i, j \in 1 .. N : i < j => terms[i].id < terms[j].id
  BY DEF Ordered, InBoardOrder
<1>4. \A k \in 1 .. N : terms[k].id \in Int
  BY <1>1, <1>2 DEF TermOK
<1>5. \A i, j \in 1 .. N : i # j => terms[i] # terms[j]
  <2>1. SUFFICES ASSUME NEW i \in 1 .. N, NEW j \in 1 .. N, i # j, terms[i] = terms[j] PROVE FALSE
    OBVIOUS
  <2>2. i < j \/ j < i
    BY <2>1
  <2>. PICK m \in Int : m = terms[i].id
    BY <1>4
  <2>3. m < m
    BY <1>3, <2>1, <2>2
  <2>. QED
    BY ONLY <2>3, m \in Int
<1>0. \A t \in ToSet(terms) : /\ Holds(t.cards) \cap Holds(p.incoming) = {}
                              /\ \A u \in ToSet(terms) \ {t} : Holds(t.cards) \cap Holds(u.cards) = {}
  BY DEF Ordered, NoCardTwice
<1>6. \A k \in 1 .. N : Holds(terms[k].cards) \cap Holds(p.incoming) = {}
  BY <1>0, <1>2
<1>7. ASSUME NEW j \in 1 .. N, NEW k \in 1 .. N, j # k PROVE Holds(terms[j].cards) \cap Holds(terms[k].cards) = {}
  <2>1. terms[k] \in ToSet(terms) \ {terms[j]} /\ terms[j] \in ToSet(terms)
    BY <1>2, <1>5, <1>7
  <2>. QED
    BY ONLY <1>0, <2>1
<1>8. Boarded(p, N)
  BY <1>1, <1>2, <1>3, <1>6, <1>7 DEF Boarded
<1>. QED
  BY <1>8

LEMMA BoardedIntro ==
  ASSUME NEW N \in Nat, NEW p, Boarded(p, N)
  PROVE  Ordered(p)
<1>. PICK terms : terms = p.terms
  OBVIOUS
<1>1. /\ terms \in Seq(ToSet(terms)) /\ DOMAIN terms = 1 .. N
      /\ \A t \in ToSet(terms) : \E k \in 1 .. N : t = terms[k]
  BY TermsAre
<1>2. PlanOK(p)
  BY <1>1 DEF Boarded, PlanOK
<1>3. InBoardOrder(p)
  BY <1>1 DEF Boarded, InBoardOrder
<1>4. ASSUME NEW t \in ToSet(p.terms)
      PROVE  /\ Holds(t.cards) \cap Holds(p.incoming) = {}
             /\ \A u \in ToSet(p.terms) \ {t} : Holds(t.cards) \cap Holds(u.cards) = {}
  <2>. PICK j \in 1 .. N : t = terms[j]
    BY <1>1
  <2>1. ASSUME NEW u \in ToSet(p.terms) \ {t} PROVE Holds(t.cards) \cap Holds(u.cards) = {}
    <3>. PICK k \in 1 .. N : u = terms[k]
      BY <1>1
    <3>. QED
      BY j # k DEF Boarded
  <2>. QED
    BY <2>1 DEF Boarded
<1>. QED
  BY <1>2, <1>3, <1>4 DEF Ordered, NoCardTwice

LEMMA EntriesAre ==
  ASSUME NEW N \in Nat, NEW p, Boarded(p, N)
  PROVE  \A e : e \in EntriesOf(p) <=> \/ e \in Holds(p.incoming)
                                       \/ \E k \in 1 .. N : e \in Holds(p.terms[k].cards)
<1>. PICK terms : terms = p.terms
  OBVIOUS
<1>1. /\ \A k \in 1 .. N : terms[k] \in ToSet(terms)
      /\ \A t \in ToSet(terms) : \E k \in 1 .. N : t = terms[k]
  BY TermsAre
<1>2. \A c : c \in CardsOf(p) <=> \/ c \in ToSet(p.incoming)
                                  \/ \E k \in 1 .. N : c \in ToSet(terms[k].cards)
  BY <1>1 DEF CardsOf
<1>3. ASSUME NEW e \in EntriesOf(p)
      PROVE  e \in Holds(p.incoming) \/ \E k \in 1 .. N : e \in Holds(terms[k].cards)
  <2>. PICK c \in CardsOf(p) : e = c.id
    BY <1>3 DEF EntriesOf
  <2>. QED
    BY <1>2 DEF Holds
<1>4. ASSUME NEW e, e \in Holds(p.incoming) \/ \E k \in 1 .. N : e \in Holds(terms[k].cards)
      PROVE  e \in EntriesOf(p)
  <2>. PICK c : e = c.id /\ (c \in ToSet(p.incoming) \/ \E k \in 1 .. N : c \in ToSet(terms[k].cards))
    BY <1>4 DEF Holds
  <2>. QED
    BY <1>2 DEF EntriesOf
<1>. QED
  BY <1>3, <1>4

\* A plan made from another column by column: at most one place is given what
\* was nowhere before.
MadeOf(q, p, N) ==
  /\ q = Plan(q.catalogYear, q.programs, q.incoming, q.terms, q.selfChecks)
  /\ CardsOK(q.incoming) /\ \A c \in ToSet(q.incoming) : c.origin # None
  /\ q.terms = [k \in 1 .. N |-> q.terms[k]]
  /\ \A k \in 1 .. N : TermOK(q.terms[k]) /\ q.terms[k].id = p.terms[k].id
Given(q, p, N, at, extra) ==
  /\ Holds(q.incoming) \subseteq Holds(p.incoming) \cup (IF at = 0 THEN extra ELSE {})
  /\ \A k \in 1 .. N : Holds(q.terms[k].cards) \subseteq
                          Holds(p.terms[k].cards) \cup (IF at = k THEN extra ELSE {})
LEMMA PlanMade ==
  ASSUME NEW N \in Nat, NEW p, Boarded(p, N), NEW q, MadeOf(q, p, N),
         NEW extra, extra \cap EntriesOf(p) = {}, NEW at \in 0 .. N, Given(q, p, N, at, extra)
  PROVE  Boarded(q, N)
<1>0. /\ Holds(q.incoming) \subseteq Holds(p.incoming) \cup (IF at = 0 THEN extra ELSE {})
      /\ \A k \in 1 .. N : Holds(q.terms[k].cards) \subseteq
                             Holds(p.terms[k].cards) \cup (IF at = k THEN extra ELSE {})
  BY DEF Given
<1>1. /\ \A x \in Holds(p.incoming) : x \notin extra
      /\ \A k \in 1 .. N : \A x \in Holds(p.terms[k].cards) : x \notin extra
  BY EntriesAre
<1>2. ASSUME NEW k \in 1 .. N PROVE Holds(q.terms[k].cards) \cap Holds(q.incoming) = {}
  <2>1. Holds(p.terms[k].cards) \cap Holds(p.incoming) = {}
    BY DEF Boarded
  <2>. QED
    BY <1>0, <1>1, <2>1
<1>3. ASSUME NEW j \in 1 .. N, NEW k \in 1 .. N, j # k
      PROVE  Holds(q.terms[j].cards) \cap Holds(q.terms[k].cards) = {}
  <2>1. Holds(p.terms[j].cards) \cap Holds(p.terms[k].cards) = {}
    BY <1>3 DEF Boarded
  <2>. QED
    BY <1>0, <1>1, <1>3, <2>1
<1>4. \A i, j \in 1 .. N : i < j => q.terms[i].id < q.terms[j].id
  BY DEF Boarded, MadeOf
<1>. QED
  BY <1>2, <1>3, <1>4 DEF Boarded, MadeOf

LEMMA PlanKept ==
  ASSUME NEW N \in Nat, NEW p, Boarded(p, N), NEW q, MadeOf(q, p, N),
         Holds(q.incoming) \subseteq Holds(p.incoming),
         \A k \in 1 .. N : Holds(q.terms[k].cards) \subseteq Holds(p.terms[k].cards)
  PROVE  Boarded(q, N)
<1>1. {} \cap EntriesOf(p) = {} /\ 0 \in 0 .. N
  OBVIOUS
<1>2. Given(q, p, N, 0, {})
  BY DEF Given
<1>. QED
  BY <1>1, <1>2, PlanMade

\* Every card repainted where it lies.
Repainted(q, p, G) ==
  /\ q = Plan(q.catalogYear, q.programs, q.incoming, q.terms, q.selfChecks)
  /\ q.incoming = [i \in DOMAIN p.incoming |-> G[p.incoming[i]]]
  /\ q.terms = [k \in DOMAIN p.terms |->
                  [p.terms[k] EXCEPT !.cards = [i \in DOMAIN p.terms[k].cards |-> G[p.terms[k].cards[i]]]]]
Gentle(G, p) ==
  \A c \in CardsOf(p) : CardOK(c) => CardOK(G[c]) /\ G[c].id = c.id /\ (G[c].origin = None <=> c.origin = None)
LEMMA RepaintedIs ==
  ASSUME NEW N \in Nat, NEW p, Boarded(p, N), NEW q, NEW G, Repainted(q, p, G), Gentle(G, p)
  PROVE  Boarded(q, N) /\ EntriesOf(q) = EntriesOf(p)
<1>1. DOMAIN p.terms = 1 .. N /\ \A k \in 1 .. N : p.terms[k] \in ToSet(p.terms)
  BY TermsAre
<1>2. ASSUME NEW cards, CardsOK(cards), ToSet(cards) \subseteq CardsOf(p),
             NEW new, new = [i \in DOMAIN cards |-> G[cards[i]]]
      PROVE  /\ CardsOK(new) /\ Holds(new) = Holds(cards) /\ DOMAIN new = DOMAIN cards
             /\ \A c \in ToSet(new) : \E d \in ToSet(cards) : c.origin = None <=> d.origin = None
  <2>1. \A i \in DOMAIN cards : cards[i] \in ToSet(cards) /\ CardOK(cards[i])
    BY <1>2, CardsElim
  <2>2. \A i \in DOMAIN cards : /\ CardOK(new[i]) /\ new[i].id = cards[i].id
                                /\ new[i].origin = None <=> cards[i].origin = None
    BY <1>2, <2>1 DEF Gentle
  <2>3. new = [i \in DOMAIN cards |-> new[i]] /\ DOMAIN new = DOMAIN cards
    BY <1>2
  <2>4. CardsOK(new) /\ Holds(new) = Holds(cards)
    BY <1>2, <2>2, <2>3, MappedIs
  <2>5. \A c \in ToSet(new) : \E i \in DOMAIN cards : c = new[i]
    BY <2>3 DEF ToSet
  <2>. QED
    BY <2>1, <2>2, <2>3, <2>4, <2>5
<1>3. /\ CardsOK(q.incoming) /\ Holds(q.incoming) = Holds(p.incoming)
      /\ \A c \in ToSet(q.incoming) : c.origin # None
  <2>1. /\ ToSet(p.incoming) \subseteq CardsOf(p) /\ CardsOK(p.incoming)
        /\ \A c \in ToSet(p.incoming) : c.origin # None
    BY DEF CardsOf, Boarded
  <2>. QED
    BY <1>2, <2>1 DEF Repainted
<1>4. q.terms = [k \in 1 .. N |-> q.terms[k]] /\ DOMAIN q.terms = 1 .. N
  BY <1>1 DEF Repainted
<1>5. ASSUME NEW k \in 1 .. N
      PROVE  TermOK(q.terms[k]) /\ q.terms[k].id = p.terms[k].id /\ Holds(q.terms[k].cards) = Holds(p.terms[k].cards)
  <2>. PICK t : t = p.terms[k]
    OBVIOUS
  <2>. PICK new : new = [i \in DOMAIN t.cards |-> G[t.cards[i]]]
    OBVIOUS
  <2>1. TermOK(t) /\ t \in ToSet(p.terms)
    BY <1>1 DEF Boarded
  <2>2. t = PlanTerm(t.id, t.kind, t.cards, t.nonCourse) /\ CardsOK(t.cards) /\ ToSet(t.cards) \subseteq CardsOf(p)
    BY <2>1 DEF TermOK, CardsOf
  <2>3. /\ CardsOK(new) /\ Holds(new) = Holds(t.cards) /\ DOMAIN new = DOMAIN t.cards
        /\ \A c \in ToSet(new) : \E d \in ToSet(t.cards) : c.origin = None <=> d.origin = None
    BY <1>2, <2>2
  <2>4. q.terms[k] = PlanTerm(t.id, t.kind, new, t.nonCourse)
    <3>1. q.terms[k] = [t EXCEPT !.cards = new]
      BY <1>1 DEF Repainted
    <3>. QED
      BY ONLY <2>2, <3>1 DEF PlanTerm
  <2>. PICK u : u = q.terms[k]
    OBVIOUS
  <2>5. u = PlanTerm(u.id, u.kind, u.cards, u.nonCourse) /\ u.id = t.id /\ u.kind = t.kind /\ u.cards = new
    BY ONLY <2>4, u = q.terms[k] DEF PlanTerm
  <2>6. t.kind = "off" => new = <<>>
    BY <2>1 DEF TermOK
  <2>7. TermOK(u)
    BY <2>1, <2>3, <2>5, <2>6 DEF TermOK
  <2>. QED
    BY <2>3, <2>5, <2>7
<1>6. MadeOf(q, p, N)
  BY <1>3, <1>4, <1>5 DEF MadeOf, Repainted
<1>7. Boarded(q, N)
  BY <1>3, <1>5, <1>6, PlanKept
<1>8. \A e : e \in EntriesOf(q) <=> e \in EntriesOf(p)
  <2>1. \A e : e \in EntriesOf(p) <=> \/ e \in Holds(p.incoming)
                                      \/ \E k \in 1 .. N : e \in Holds(p.terms[k].cards)
    BY EntriesAre
  <2>2. \A e : e \in EntriesOf(q) <=> \/ e \in Holds(q.incoming)
                                      \/ \E k \in 1 .. N : e \in Holds(q.terms[k].cards)
    BY <1>7, EntriesAre
  <2>. QED
    BY <1>3, <1>5, <2>1, <2>2
<1>. QED
  BY <1>7, <1>8

-----------------------------------------------------------------------------
(* Edits that leave every card where it is.                                 *)

LEMMA CardsLie ==
  ASSUME NEW N \in Nat, NEW p, Boarded(p, N)
  PROVE  /\ \A i \in DOMAIN p.incoming : p.incoming[i] \in CardsOf(p)
         /\ \A k \in DOMAIN p.terms : \A i \in DOMAIN p.terms[k].cards : p.terms[k].cards[i] \in CardsOf(p)
BY DEF CardsOf, ToSet

LEMMA SetCreditsIs ==
  ASSUME NEW N \in Nat, NEW p, Boarded(p, N), NEW e, NEW h \in Credits
  PROVE  Boarded(SetCredits(p, e, h), N) /\ EntriesOf(SetCredits(p, e, h)) = EntriesOf(p)
<1>. PICK q : q = SetCredits(p, e, h)
  OBVIOUS
<1>. PICK G : G = [c \in CardsOf(p) |-> IF c.id = e THEN [c EXCEPT !.credits = h] ELSE c]
  OBVIOUS
<1>1. Repainted(q, p, G)
  <2>1. /\ q = [p EXCEPT !.terms = q.terms, !.incoming = q.incoming]
        /\ q.incoming = [i \in DOMAIN p.incoming |-> G[p.incoming[i]]]
        /\ q.terms = [k \in DOMAIN p.terms |->
                        [p.terms[k] EXCEPT !.cards = [i \in DOMAIN p.terms[k].cards |-> G[p.terms[k].cards[i]]]]]
    BY CardsLie DEF SetCredits, MapEntry, MapCards, MapTerms, Boarded, Plan
  <2>. QED
    BY <2>1 DEF Repainted, Boarded, Plan
<1>2. Gentle(G, p)
  BY DEF Gentle, CardOK
<1>. QED
  BY <1>1, <1>2, RepaintedIs

LEMMA UnpinIs ==
  ASSUME NEW card, CardOK(card), NEW rules
  PROVE  CardOK(Unpin(card, rules)) /\ Unpin(card, rules).id = card.id /\ Unpin(card, rules).origin = card.origin
<1>. PICK fills : fills = Unpinned(card.fills, rules)
  OBVIOUS
<1>. PICK claims : claims = card.claims \ rules
  OBVIOUS
<1>1. Unpin(card, rules) = [card EXCEPT !.fills = fills, !.claims = claims]
  BY DEF Unpin
<1>. QED
  BY ONLY <1>1, CardOK(card) DEF CardOK

LEMMA ClearFillIs ==
  ASSUME NEW N \in Nat, NEW p, Boarded(p, N), NEW e, NEW program
  PROVE  Boarded(ClearFill(p, e, program), N) /\ EntriesOf(ClearFill(p, e, program)) = EntriesOf(p)
<1>. PICK q : q = ClearFill(p, e, program)
  OBVIOUS
<1>. PICK G : G = [c \in CardsOf(p) |-> IF c.id = e THEN Unpin(c, RuleIds(program)) ELSE c]
  OBVIOUS
<1>1. Repainted(q, p, G)
  <2>1. /\ q = [p EXCEPT !.terms = q.terms, !.incoming = q.incoming]
        /\ q.incoming = [i \in DOMAIN p.incoming |-> G[p.incoming[i]]]
        /\ q.terms = [k \in DOMAIN p.terms |->
                        [p.terms[k] EXCEPT !.cards = [i \in DOMAIN p.terms[k].cards |-> G[p.terms[k].cards[i]]]]]
    BY CardsLie DEF ClearFill, MapEntry, MapCards, MapTerms, Boarded, Plan
  <2>. QED
    BY <2>1 DEF Repainted, Boarded, Plan
<1>2. Gentle(G, p)
  BY UnpinIs DEF Gentle, CardOK
<1>. QED
  BY <1>1, <1>2, RepaintedIs

LEMMA SetFillsIs ==
  ASSUME NEW N \in Nat, NEW p, Boarded(p, N), NEW e, NEW program, NEW rule
  PROVE  Boarded(SetFills(p, e, program, rule), N) /\ EntriesOf(SetFills(p, e, program, rule)) = EntriesOf(p)
<1>. PICK q : q = SetFills(p, e, program, rule)
  OBVIOUS
<1>. PICK G : G = [c \in CardsOf(p) |-> IF c.id = e THEN [Unpin(c, RuleIds(program)) EXCEPT !.fills = Append(@, rule)] ELSE c]
  OBVIOUS
<1>1. Repainted(q, p, G)
  <2>1. /\ q = [p EXCEPT !.terms = q.terms, !.incoming = q.incoming]
        /\ q.incoming = [i \in DOMAIN p.incoming |-> G[p.incoming[i]]]
        /\ q.terms = [k \in DOMAIN p.terms |->
                        [p.terms[k] EXCEPT !.cards = [i \in DOMAIN p.terms[k].cards |-> G[p.terms[k].cards[i]]]]]
    BY CardsLie DEF SetFills, MapEntry, MapCards, MapTerms, Boarded, Plan
  <2>. QED
    BY <2>1 DEF Repainted, Boarded, Plan
<1>2. Gentle(G, p)
  <2>1. ASSUME NEW c \in CardsOf(p), CardOK(c), NEW d, d = Unpin(c, RuleIds(program))
        PROVE  /\ CardOK([d EXCEPT !.fills = Append(@, rule)])
               /\ [d EXCEPT !.fills = Append(@, rule)].id = c.id
               /\ [d EXCEPT !.fills = Append(@, rule)].origin = c.origin
    <3>1. CardOK(d) /\ d.id = c.id /\ d.origin = c.origin
      BY <2>1, UnpinIs
    <3>. QED
      BY ONLY <3>1 DEF CardOK
  <2>. QED
    BY <2>1 DEF Gentle
<1>. QED
  BY <1>1, <1>2, RepaintedIs

LEMMA SetFillClaimIs ==
  ASSUME NEW N \in Nat, NEW p, Boarded(p, N), NEW e, NEW rule
  PROVE  Boarded(SetFillClaim(p, e, rule), N) /\ EntriesOf(SetFillClaim(p, e, rule)) = EntriesOf(p)
<1>. PICK q : q = SetFillClaim(p, e, rule)
  OBVIOUS
<1>. PICK G : G = [c \in CardsOf(p) |-> IF c.id = e THEN [c EXCEPT !.claims = @ \cup {rule}] ELSE c]
  OBVIOUS
<1>1. Repainted(q, p, G)
  <2>1. /\ q = [p EXCEPT !.terms = q.terms, !.incoming = q.incoming]
        /\ q.incoming = [i \in DOMAIN p.incoming |-> G[p.incoming[i]]]
        /\ q.terms = [k \in DOMAIN p.terms |->
                        [p.terms[k] EXCEPT !.cards = [i \in DOMAIN p.terms[k].cards |-> G[p.terms[k].cards[i]]]]]
    BY CardsLie DEF SetFillClaim, MapEntry, MapCards, MapTerms, Boarded, Plan
  <2>. QED
    BY <2>1 DEF Repainted, Boarded, Plan
<1>2. Gentle(G, p)
  BY DEF Gentle, CardOK
<1>. QED
  BY <1>1, <1>2, RepaintedIs

LEMMA EditManualCardIs ==
  ASSUME NEW N \in Nat, NEW p, Boarded(p, N), NEW e, NEW origin, NEW course, NEW source, origin # None
  PROVE  Boarded(EditManualCard(p, e, origin, course, source), N) /\ EntriesOf(EditManualCard(p, e, origin, course, source)) = EntriesOf(p)
<1>. PICK q : q = EditManualCard(p, e, origin, course, source)
  OBVIOUS
<1>. PICK G : G = [c \in CardsOf(p) |-> IF c.id = e
            THEN IF c.origin = None THEN c
                 ELSE [c EXCEPT !.origin = origin, !.course = course, !.source = source]
            ELSE c]
  OBVIOUS
<1>1. Repainted(q, p, G)
  <2>1. /\ q = [p EXCEPT !.terms = q.terms, !.incoming = q.incoming]
        /\ q.incoming = [i \in DOMAIN p.incoming |-> G[p.incoming[i]]]
        /\ q.terms = [k \in DOMAIN p.terms |->
                        [p.terms[k] EXCEPT !.cards = [i \in DOMAIN p.terms[k].cards |-> G[p.terms[k].cards[i]]]]]
    BY CardsLie DEF EditManualCard, MapEntry, MapCards, MapTerms, Boarded, Plan
  <2>. QED
    BY <2>1 DEF Repainted, Boarded, Plan
<1>2. Gentle(G, p)
  BY DEF Gentle, CardOK
<1>. QED
  BY <1>1, <1>2, RepaintedIs

\* Edits of what is no card.
LEMMA CardsStay ==
  ASSUME NEW N \in Nat, NEW p, Boarded(p, N), NEW q,
         q = Plan(q.catalogYear, q.programs, q.incoming, q.terms, q.selfChecks),
         q.incoming = p.incoming, q.terms = p.terms
  PROVE  Boarded(q, N) /\ EntriesOf(q) = EntriesOf(p)
BY DEF Boarded, EntriesOf, CardsOf

LEMMA SelfChecksAre ==
  ASSUME NEW N \in Nat, NEW p, Boarded(p, N), NEW rule
  PROVE  /\ Boarded(ConfirmSelfCheck(p, rule), N) /\ EntriesOf(ConfirmSelfCheck(p, rule)) = EntriesOf(p)
         /\ Boarded(ClearSelfCheck(p, rule), N) /\ EntriesOf(ClearSelfCheck(p, rule)) = EntriesOf(p)
<1>. PICK a : a = ConfirmSelfCheck(p, rule)
  OBVIOUS
<1>. PICK b : b = ClearSelfCheck(p, rule)
  OBVIOUS
<1>1. /\ a = Plan(a.catalogYear, a.programs, a.incoming, a.terms, a.selfChecks)
      /\ a.incoming = p.incoming /\ a.terms = p.terms
  BY DEF ConfirmSelfCheck, Boarded, Plan
<1>2. /\ b = Plan(b.catalogYear, b.programs, b.incoming, b.terms, b.selfChecks)
      /\ b.incoming = p.incoming /\ b.terms = p.terms
  BY DEF ClearSelfCheck, Boarded, Plan
<1>. QED
  BY <1>1, <1>2, CardsStay

LEMMA SetCatalogYearIs ==
  ASSUME NEW N \in Nat, NEW p, Boarded(p, N), NEW year
  PROVE  Boarded(SetCatalogYear(p, year), N) /\ EntriesOf(SetCatalogYear(p, year)) = EntriesOf(p)
<1>. PICK q : q = SetCatalogYear(p, year)
  OBVIOUS
<1>1. /\ q = Plan(q.catalogYear, q.programs, q.incoming, q.terms, q.selfChecks)
      /\ q.incoming = p.incoming /\ q.terms = p.terms
  BY DEF SetCatalogYear, Boarded, Plan
<1>. QED
  BY <1>1, CardsStay

LEMMA SetProgramsIs ==
  ASSUME NEW N \in Nat, NEW p, Boarded(p, N), NEW programs, NEW majors, NEW held
  PROVE  /\ Boarded(SetPrograms(p, programs, majors, held), N)
         /\ EntriesOf(SetPrograms(p, programs, majors, held)) = EntriesOf(p)
<1>. PICK q : q = SetPrograms(p, programs, majors, held)
  OBVIOUS
<1>. PICK dropped : dropped = UNION {RuleIds(x) : x \in {y \in held : /\ y.id \in ToSet(p.programs)
                                                                     /\ y.id \notin ToSet(programs)}}
  OBVIOUS
<1>1. CASE q = p
  BY <1>1
<1>2. CASE q # p
  <2>. PICK G : G = [c \in CardsOf(p) |-> Unpin(c, dropped)]
    OBVIOUS
  <2>1. q = [MapCards(p, LAMBDA c : Unpin(c, dropped)) EXCEPT !.programs = programs, !.selfChecks = @ \ dropped]
    BY <1>2 DEF SetPrograms
  <2>2. Repainted(q, p, G)
    <3>. PICK m : m = MapCards(p, LAMBDA c : Unpin(c, dropped))
      OBVIOUS
    <3>2. /\ m = [p EXCEPT !.terms = m.terms, !.incoming = m.incoming]
          /\ m.incoming = [i \in DOMAIN p.incoming |-> G[p.incoming[i]]]
          /\ m.terms = [k \in DOMAIN p.terms |->
                          [p.terms[k] EXCEPT !.cards = [i \in DOMAIN p.terms[k].cards |-> G[p.terms[k].cards[i]]]]]
      BY CardsLie DEF MapCards, MapTerms, Boarded, Plan
    <3>3. q = [m EXCEPT !.programs = programs, !.selfChecks = @ \ dropped]
      BY <2>1
    <3>1. /\ q = [p EXCEPT !.terms = q.terms, !.incoming = q.incoming,
                           !.programs = q.programs, !.selfChecks = q.selfChecks]
          /\ q.incoming = m.incoming /\ q.terms = m.terms
      BY <3>2, <3>3 DEF Boarded, Plan
    <3>. QED
      BY <3>1, <3>2 DEF Repainted, Boarded, Plan
  <2>3. Gentle(G, p)
    BY UnpinIs DEF Gentle
  <2>. QED
    BY <2>2, <2>3, RepaintedIs
<1>. QED
  BY <1>1, <1>2

-----------------------------------------------------------------------------
(* Edits that move cards.                                                   *)

LEMMA EmptyIs ==
  ASSUME NEW cards, CardsOK(cards)
  PROVE  ToSet(cards) = {} <=> cards = <<>>
<1>. PICK n \in Nat : n = Len(cards) /\ DOMAIN cards = 1 .. n
  BY CardsElim
<1>1. cards = [i \in 1 .. n |-> cards[i]]
  BY CardsElim
<1>2. ToSet(cards) = {} <=> n = 0
  <2>1. n # 0 => 1 \in 1 .. n
    OBVIOUS
  <2>2. n = 0 => 1 .. n = {}
    OBVIOUS
  <2>. QED
    BY <2>1, <2>2 DEF ToSet
<1>3. n = 0 <=> cards = <<>>
  BY <1>1
<1>. QED
  BY <1>2, <1>3

\* A column with other cards.
Suits(kind, cards) ==
  /\ kind = "rice" => \A c \in ToSet(cards) : c.origin = None
  /\ kind = "away" => \A c \in ToSet(cards) : c.origin # None
  /\ kind = "off" => cards = <<>>
Recarded(u, t, kind, new) == u = [t EXCEPT !.kind = kind, !.cards = new]
LEMMA RecardedIs ==
  ASSUME NEW t, TermOK(t), NEW new, CardsOK(new), NEW kind \in TermKinds, Suits(kind, new), NEW u,
         Recarded(u, t, kind, new)
  PROVE  TermOK(u) /\ u.id = t.id /\ u.kind = kind /\ u.cards = new
<1>1. u = PlanTerm(t.id, kind, new, t.nonCourse)
  BY DEF TermOK, PlanTerm, Recarded
<1>2. /\ u = PlanTerm(u.id, u.kind, u.cards, u.nonCourse)
      /\ u.id = t.id /\ u.kind = kind /\ u.cards = new
  BY ONLY <1>1 DEF PlanTerm
<1>. QED
  BY <1>2 DEF TermOK, Suits

LEMMA TermElim ==
  ASSUME NEW t, TermOK(t)
  PROVE  /\ t.kind \in TermKinds /\ CardsOK(t.cards) /\ Suits(t.kind, t.cards)
         /\ \A new : Recarded([t EXCEPT !.cards = new], t, t.kind, new)
<1>1. t.kind \in TermKinds /\ CardsOK(t.cards) /\ Suits(t.kind, t.cards)
  BY DEF TermOK, Suits
<1>2. t = PlanTerm(t.id, t.kind, t.cards, t.nonCourse)
  BY DEF TermOK
<1>3. \A new : [t EXCEPT !.cards = new] = [t EXCEPT !.kind = t.kind, !.cards = new]
  BY ONLY <1>2 DEF PlanTerm
<1>. QED
  BY <1>1, <1>3 DEF Recarded

SameColumns(q, p, N) == \A k \in 1 .. N : q.terms[k].id = p.terms[k].id /\ q.terms[k].kind = p.terms[k].kind
Left(cards, e) == Chosen(cards, {i \in DOMAIN cards : cards[i].id # e})
LEMMA LeftIs ==
  ASSUME NEW cards, CardsOK(cards), NEW e
  PROVE  /\ CardsOK(Left(cards, e)) /\ ToSet(Left(cards, e)) \subseteq ToSet(cards)
         /\ Holds(Left(cards, e)) = Holds(cards) \ {e}
<1>. PICK places : places = {i \in DOMAIN cards : cards[i].id # e}
  OBVIOUS
<1>. PICK left : left = Left(cards, e)
  OBVIOUS
<1>1. CardsOK(left) /\ ToSet(left) = {cards[n] : n \in places}
  BY KeptIs DEF Left
<1>2. \A x : x \in ToSet(left) <=> x \in ToSet(cards) /\ x.id # e
  BY <1>1 DEF ToSet
<1>3. ASSUME NEW x PROVE x \in Holds(left) <=> x \in Holds(cards) \ {e}
  BY <1>2 DEF Holds
<1>. QED
  BY <1>1, <1>2, <1>3

LEMMA WithoutEntryIs ==
  ASSUME NEW N \in Nat, NEW p, Boarded(p, N), NEW e
  PROVE  /\ Boarded(WithoutEntry(p, e), N) /\ SameColumns(WithoutEntry(p, e), p, N)
         /\ EntriesOf(WithoutEntry(p, e)) = EntriesOf(p) \ {e}
<1>. PICK q : q = WithoutEntry(p, e)
  OBVIOUS
<1>0. DOMAIN p.terms = 1 .. N
  BY TermsAre
<1>1. /\ q = Plan(q.catalogYear, q.programs, q.incoming, q.terms, q.selfChecks)
      /\ q.incoming = Left(p.incoming, e)
      /\ q.terms = [k \in 1 .. N |-> [p.terms[k] EXCEPT !.cards = Left(p.terms[k].cards, e)]]
  BY <1>0 DEF WithoutEntry, MapTerms, Left, Boarded, Plan
<1>2. /\ CardsOK(q.incoming) /\ Holds(q.incoming) = Holds(p.incoming) \ {e}
      /\ \A c \in ToSet(q.incoming) : c.origin # None
  BY <1>1, LeftIs DEF Boarded
<1>3. ASSUME NEW k \in 1 .. N
      PROVE  /\ TermOK(q.terms[k]) /\ q.terms[k].id = p.terms[k].id /\ q.terms[k].kind = p.terms[k].kind
             /\ Holds(q.terms[k].cards) = Holds(p.terms[k].cards) \ {e}
  <2>. PICK t : t = p.terms[k]
    OBVIOUS
  <2>. PICK new : new = Left(t.cards, e)
    OBVIOUS
  <2>1. TermOK(t)
    BY DEF Boarded
  <2>2. t.kind \in TermKinds /\ CardsOK(t.cards) /\ Suits(t.kind, t.cards)
    BY <2>1, TermElim
  <2>3. CardsOK(new) /\ ToSet(new) \subseteq ToSet(t.cards) /\ Holds(new) = Holds(t.cards) \ {e}
    BY <2>2, LeftIs
  <2>4. Suits(t.kind, new)
    BY <2>2, <2>3, EmptyIs DEF Suits
  <2>. PICK u : u = q.terms[k]
    OBVIOUS
  <2>5. u = [t EXCEPT !.cards = new]
    BY <1>1
  <2>6. Recarded(u, t, t.kind, new)
    BY <2>1, <2>5, TermElim
  <2>7. TermOK(u) /\ u.id = t.id /\ u.kind = t.kind /\ u.cards = new
    BY ONLY <2>1, <2>2, <2>3, <2>4, <2>6, RecardedIs
  <2>. QED
    BY <2>3, <2>7
<1>4. MadeOf(q, p, N)
  BY <1>1, <1>2, <1>3 DEF MadeOf
<1>5. Boarded(q, N)
  BY <1>2, <1>3, <1>4, PlanKept
<1>6. \A x : x \in EntriesOf(q) <=> x \in EntriesOf(p) \ {e}
  <2>1. \A x : x \in EntriesOf(p) <=> \/ x \in Holds(p.incoming)
                                      \/ \E k \in 1 .. N : x \in Holds(p.terms[k].cards)
    BY EntriesAre
  <2>2. \A x : x \in EntriesOf(q) <=> \/ x \in Holds(q.incoming)
                                      \/ \E k \in 1 .. N : x \in Holds(q.terms[k].cards)
    BY <1>5, EntriesAre
  <2>. QED
    BY <1>2, <1>3, <2>1, <2>2
<1>. QED
  BY <1>3, <1>5, <1>6 DEF SameColumns

LEMMA InsertedHolds ==
  ASSUME NEW new, NEW cards, NEW card, Inserted(new, cards, card)
  PROVE  Holds(new) = Holds(cards) \cup {card.id}
<1>1. \A c : c \in ToSet(new) <=> c \in ToSet(cards) \/ c = card
  BY DEF Inserted
<1>. QED
  BY <1>1 DEF Holds

Filled(q, p, N, m, new) ==
  /\ q = Plan(q.catalogYear, q.programs, p.incoming, q.terms, q.selfChecks)
  /\ q.terms = [k \in 1 .. N |-> q.terms[k]]
  /\ \A k \in 1 .. N : q.terms[k] = IF k = m THEN [p.terms[k] EXCEPT !.cards = new] ELSE p.terms[k]
LEMMA FillColumn ==
  ASSUME NEW N \in Nat, NEW p, Boarded(p, N), NEW m \in 1 .. N,
         NEW card, card.id \notin EntriesOf(p), NEW new, Inserted(new, p.terms[m].cards, card),
         Suits(p.terms[m].kind, new), NEW q, Filled(q, p, N, m, new)
  PROVE  Boarded(q, N) /\ EntriesOf(q) = EntriesOf(p) \cup {card.id}
<1>0. /\ q = Plan(q.catalogYear, q.programs, p.incoming, q.terms, q.selfChecks)
      /\ q.terms = [k \in 1 .. N |-> q.terms[k]]
      /\ \A k \in 1 .. N : q.terms[k] = IF k = m THEN [p.terms[k] EXCEPT !.cards = new] ELSE p.terms[k]
  BY DEF Filled
<1>. PICK t : t = p.terms[m]
  OBVIOUS
<1>. PICK u : u = q.terms[m]
  OBVIOUS
<1>1. TermOK(t) /\ CardsOK(new) /\ Holds(new) = Holds(t.cards) \cup {card.id}
  BY InsertedHolds DEF Boarded, Inserted
<1>2. Recarded(u, t, t.kind, new)
  <2>1. u = [t EXCEPT !.cards = new]
    BY <1>0
  <2>. QED
    BY <1>1, <2>1, TermElim
<1>3. TermOK(u) /\ u.id = t.id /\ u.kind = t.kind /\ u.cards = new
  BY <1>1, <1>2, TermElim, RecardedIs
<1>4. q.incoming = p.incoming /\ q = Plan(q.catalogYear, q.programs, q.incoming, q.terms, q.selfChecks)
  BY <1>0 DEF Plan
<1>5. ASSUME NEW k \in 1 .. N
      PROVE  /\ TermOK(q.terms[k]) /\ q.terms[k].id = p.terms[k].id
             /\ Holds(q.terms[k].cards) = Holds(p.terms[k].cards) \cup (IF m = k THEN {card.id} ELSE {})
  <2>1. CASE k = m
    BY <1>1, <1>3, <2>1
  <2>2. CASE k # m
    <3>1. q.terms[k] = p.terms[k] /\ TermOK(p.terms[k])
      BY <1>0, <2>2 DEF Boarded
    <3>. QED
      BY <2>2, <3>1
  <2>. QED
    BY <2>1, <2>2
<1>6. MadeOf(q, p, N)
  <2>1. CardsOK(p.incoming) /\ \A c \in ToSet(p.incoming) : c.origin # None
    BY DEF Boarded
  <2>. QED
    BY <1>0, <1>4, <1>5, <2>1 DEF MadeOf
<1>7. Boarded(q, N)
  <2>1. Given(q, p, N, m, {card.id})
    BY <1>4, <1>5 DEF Given
  <2>2. m \in 0 .. N /\ {card.id} \cap EntriesOf(p) = {}
    OBVIOUS
  <2>. QED
    BY <1>6, <2>1, <2>2, PlanMade
<1>8. \A x : x \in EntriesOf(q) <=> x \in EntriesOf(p) \cup {card.id}
  <2>1. \A x : x \in EntriesOf(p) <=> \/ x \in Holds(p.incoming)
                                      \/ \E k \in 1 .. N : x \in Holds(p.terms[k].cards)
    BY EntriesAre
  <2>2. \A x : x \in EntriesOf(q) <=> \/ x \in Holds(q.incoming)
                                      \/ \E k \in 1 .. N : x \in Holds(q.terms[k].cards)
    BY <1>7, EntriesAre
  <2>3. ASSUME NEW x PROVE x \in EntriesOf(q) <=> x \in EntriesOf(p) \cup {card.id}
    <3>1. x = card.id => x \in EntriesOf(q)
      BY <1>5, <2>2
    <3>2. x # card.id => \A k \in 1 .. N : x \in Holds(q.terms[k].cards) <=> x \in Holds(p.terms[k].cards)
      BY <1>5
    <3>. QED
      BY <1>4, <1>5, <2>1, <2>2, <3>1, <3>2
  <2>. QED
    BY <2>3
<1>. QED
  BY <1>7, <1>8

\* The columns are told apart by their positions.
LEMMA OneColumn ==
  ASSUME NEW N \in Nat, NEW p, Boarded(p, N), NEW j \in 1 .. N, NEW k \in 1 .. N,
         p.terms[j].id = p.terms[k].id
  PROVE  j = k
<1>1. p.terms[k].id \in Int
  BY DEF Boarded, TermOK
<1>2. ~(j < k) /\ ~(k < j)
  <2>. PICK x \in Int : x = p.terms[k].id
    BY <1>1
  <2>1. (j < k => x < x) /\ (k < j => x < x)
    BY DEF Boarded
  <2>. QED
    BY ONLY <2>1, x \in Int
<1>. QED
  BY <1>2

Takes(p, N, kind, to) == \E k \in 1 .. N : p.terms[k].id = to /\ p.terms[k].kind = kind
LEMMA InsertCourseIs ==
  ASSUME NEW N \in Nat, NEW p, Boarded(p, N), NEW to, NEW index \in Nat, Takes(p, N, "rice", to),
         NEW card, CardOK(card), card.origin = None, card.id \notin EntriesOf(p)
  PROVE  /\ Boarded(InsertCourse(p, to, index, card), N)
         /\ EntriesOf(InsertCourse(p, to, index, card)) = EntriesOf(p) \cup {card.id}
<1>. PICK q : q = InsertCourse(p, to, index, card)
  OBVIOUS
<1>. PICK m \in 1 .. N : p.terms[m].id = to /\ p.terms[m].kind = "rice"
  BY DEF Takes
<1>. PICK cards : cards = p.terms[m].cards
  OBVIOUS
<1>. PICK n : n = Len(cards)
  OBVIOUS
<1>. PICK at : at = 1 + (IF index < n THEN index ELSE n)
  OBVIOUS
<1>. PICK new : new = InsertAt(cards, at, card)
  OBVIOUS
<1>1. CardsOK(cards) /\ Suits("rice", cards) /\ card.id \notin Holds(cards)
  <2>1. TermOK(p.terms[m]) /\ card.id \notin Holds(cards)
    BY EntriesAre DEF Boarded
  <2>. QED
    BY <2>1, TermElim
<1>2. Inserted(new, cards, card)
  <2>1. at \in 1 .. (Len(cards) + 1)
    <3>1. n \in Nat
      BY <1>1, CardsElim
    <3>. QED
      BY ONLY <3>1, index \in Nat, n = Len(cards), at = 1 + (IF index < n THEN index ELSE n)
  <2>. QED
    BY <1>1, <2>1, InsertIs
<1>3. Suits("rice", new)
  <2>1. \A c \in ToSet(new) : c \in ToSet(cards) \/ c = card
    BY <1>2 DEF Inserted
  <2>. QED
    BY <1>1, <2>1 DEF Suits
<1>4. DOMAIN p.terms = 1 .. N
  BY TermsAre
<1>5. /\ q = Plan(q.catalogYear, q.programs, p.incoming, q.terms, q.selfChecks)
      /\ q.terms = [k \in 1 .. N |->
            IF p.terms[k].id = to /\ p.terms[k].kind = "rice"
            THEN [p.terms[k] EXCEPT !.cards = InsertAt(p.terms[k].cards,
                    1 + (IF index < Len(p.terms[k].cards) THEN index ELSE Len(p.terms[k].cards)), card)]
            ELSE p.terms[k]]
  BY <1>4 DEF InsertCourse, MapTerms, Boarded, Plan
<1>7. \A k \in 1 .. N : p.terms[k].id = to => k = m
  BY OneColumn
<1>6. Filled(q, p, N, m, new)
  BY <1>5, <1>7 DEF Filled
<1>. QED
  BY <1>2, <1>3, <1>5, <1>6, FillColumn

LEMMA InsertManualCardIs ==
  ASSUME NEW N \in Nat, NEW p, Boarded(p, N), NEW to, to = Incoming \/ Takes(p, N, "away", to),
         NEW card, CardOK(card), card.origin # None, card.id \notin EntriesOf(p)
  PROVE  /\ Boarded(InsertManualCard(p, to, card), N)
         /\ EntriesOf(InsertManualCard(p, to, card)) = EntriesOf(p) \cup {card.id}
<1>. PICK q : q = InsertManualCard(p, to, card)
  OBVIOUS
<1>1. CASE to = Incoming
  <2>1. q = Plan(q.catalogYear, q.programs, Append(p.incoming, card), p.terms, q.selfChecks)
    BY <1>1 DEF InsertManualCard, Boarded, Plan
  <2>2. q.incoming = Append(p.incoming, card) /\ q.terms = p.terms
    BY ONLY <2>1 DEF Plan
  <2>3. Inserted(q.incoming, p.incoming, card)
    <3>1. CardsOK(p.incoming) /\ card.id \notin Holds(p.incoming)
      BY EntriesAre DEF Boarded
    <3>. QED
      BY <2>2, <3>1, AppendIs
  <2>4. CardsOK(q.incoming) /\ Holds(q.incoming) = Holds(p.incoming) \cup {card.id}
    BY <2>3, InsertedHolds DEF Inserted
  <2>8. \A c \in ToSet(q.incoming) : c.origin # None
    <3>1. /\ \A c \in ToSet(q.incoming) : c \in ToSet(p.incoming) \/ c = card
          /\ \A c \in ToSet(p.incoming) : c.origin # None
      BY <2>3 DEF Inserted, Boarded
    <3>. QED
      BY <3>1
  <2>5. MadeOf(q, p, N)
    BY <2>1, <2>2, <2>4, <2>8 DEF MadeOf, Boarded
  <2>6. Boarded(q, N)
    <3>1. Given(q, p, N, 0, {card.id})
      BY <2>2, <2>4 DEF Given
    <3>2. 0 \in 0 .. N /\ {card.id} \cap EntriesOf(p) = {}
      OBVIOUS
    <3>. QED
      BY <2>5, <3>1, <3>2, PlanMade
  <2>7. \A x : x \in EntriesOf(q) <=> x \in EntriesOf(p) \cup {card.id}
    <3>1. \A x : x \in EntriesOf(p) <=> \/ x \in Holds(p.incoming)
                                        \/ \E k \in 1 .. N : x \in Holds(p.terms[k].cards)
      BY EntriesAre
    <3>2. \A x : x \in EntriesOf(q) <=> \/ x \in Holds(q.incoming)
                                        \/ \E k \in 1 .. N : x \in Holds(q.terms[k].cards)
      BY <2>6, EntriesAre
    <3>. QED
      BY <2>2, <2>4, <3>1, <3>2
  <2>. QED
    BY <2>6, <2>7
<1>2. CASE to # Incoming
  <2>. PICK m \in 1 .. N : p.terms[m].id = to /\ p.terms[m].kind = "away"
    BY <1>2 DEF Takes
  <2>. PICK cards : cards = p.terms[m].cards
    OBVIOUS
  <2>. PICK new : new = Append(cards, card)
    OBVIOUS
  <2>1. CardsOK(cards) /\ Suits("away", cards) /\ card.id \notin Holds(cards)
    <3>1. TermOK(p.terms[m]) /\ card.id \notin Holds(cards)
      BY EntriesAre DEF Boarded
    <3>. QED
      BY <3>1, TermElim
  <2>2. Inserted(new, cards, card)
    BY <2>1, AppendIs
  <2>3. Suits("away", new)
    <3>1. \A c \in ToSet(new) : c \in ToSet(cards) \/ c = card
      BY <2>2 DEF Inserted
    <3>. QED
      BY <2>1, <3>1 DEF Suits
  <2>4. DOMAIN p.terms = 1 .. N
    BY TermsAre
  <2>5. /\ q = Plan(q.catalogYear, q.programs, p.incoming, q.terms, q.selfChecks)
        /\ q.terms = [k \in 1 .. N |->
              IF p.terms[k].id = to /\ p.terms[k].kind = "away"
              THEN [p.terms[k] EXCEPT !.cards = Append(p.terms[k].cards, card)] ELSE p.terms[k]]
    BY <1>2, <2>4 DEF InsertManualCard, MapTerms, Boarded, Plan
  <2>7. \A k \in 1 .. N : p.terms[k].id = to => k = m
    BY OneColumn
  <2>6. Filled(q, p, N, m, new)
    BY <2>5, <2>7 DEF Filled
  <2>8. Suits(p.terms[m].kind, new) /\ Inserted(new, p.terms[m].cards, card)
    BY <2>2, <2>3
  <2>9. Boarded(q, N) /\ EntriesOf(q) = EntriesOf(p) \cup {card.id}
    BY ONLY <2>6, <2>8, FillColumn, N \in Nat, Boarded(p, N), m \in 1 .. N, card.id \notin EntriesOf(p)
  <2>. QED
    BY <2>9
<1>. QED
  BY <1>1, <1>2

\* A card that is on the board is in one place.
Place(p, k) == IF k = 0 THEN p.incoming ELSE p.terms[k].cards
PlaceKind(p, k) == IF k = 0 THEN "incoming" ELSE p.terms[k].kind
LEMMA PlacesAre ==
  ASSUME NEW N \in Nat, NEW p, Boarded(p, N)
  PROVE  /\ \A k \in 0 .. N : CardsOK(Place(p, k)) /\ PlaceKind(p, k) \in TermKinds \cup {"incoming"}
         /\ \A k \in 0 .. N : \A c \in ToSet(Place(p, k)) : c.origin = None <=> PlaceKind(p, k) = "rice"
         /\ \A j, k \in 0 .. N : j # k => Holds(Place(p, j)) \cap Holds(Place(p, k)) = {}
<1>1. ASSUME NEW k \in 0 .. N
      PROVE  /\ CardsOK(Place(p, k)) /\ PlaceKind(p, k) \in TermKinds \cup {"incoming"}
             /\ \A c \in ToSet(Place(p, k)) : c.origin = None <=> PlaceKind(p, k) = "rice"
  <2>1. CASE k = 0
    BY <2>1 DEF Boarded, Place, PlaceKind
  <2>2. CASE k # 0
    <3>. PICK t : t = p.terms[k]
      OBVIOUS
    <3>1. TermOK(t)
      BY <2>2 DEF Boarded
    <3>2. t.kind \in TermKinds /\ CardsOK(t.cards) /\ Suits(t.kind, t.cards)
      BY <3>1, TermElim
    <3>3. ToSet(<<>>) = {}
      BY DEF ToSet
    <3>. QED
      BY <2>2, <3>2, <3>3 DEF Place, PlaceKind, Suits, TermKinds
  <2>. QED
    BY <2>1, <2>2
<1>2. ASSUME NEW j \in 0 .. N, NEW k \in 0 .. N, j # k
      PROVE  Holds(Place(p, j)) \cap Holds(Place(p, k)) = {}
  <2>1. CASE j = 0
    BY <1>2, <2>1 DEF Boarded, Place
  <2>2. CASE k = 0
    BY <1>2, <2>2 DEF Boarded, Place
  <2>3. CASE j # 0 /\ k # 0
    <3>1. j \in 1 .. N /\ k \in 1 .. N
      BY <2>3
    <3>2. Holds(p.terms[j].cards) \cap Holds(p.terms[k].cards) = {}
      BY <1>2, <3>1 DEF Boarded
    <3>. QED
      BY ONLY <2>3, <3>2 DEF Place
  <2>. QED
    BY <2>1, <2>2, <2>3
<1>. QED
  BY <1>1, <1>2

LEMMA LocatedIs ==
  ASSUME NEW N \in Nat, NEW p, Boarded(p, N), NEW e, NEW l \in Located(p, e)
  PROVE  /\ CardOK(l.card) /\ l.card.id = e /\ e \in EntriesOf(p)
         /\ l.card.origin = None <=> l.where = "rice"
         /\ \A m \in Located(p, e) : m = l
<1>0. /\ \A k \in 1 .. N : p.terms[k] \in ToSet(p.terms)
      /\ \A t \in ToSet(p.terms) : \E k \in 1 .. N : t = p.terms[k]
  BY TermsAre
<1>1. ASSUME NEW m \in Located(p, e)
      PROVE  \E k \in 0 .. N : \E c \in ToSet(Place(p, k)) : c.id = e /\ m = [where |-> PlaceKind(p, k), card |-> c]
  <2>1. CASE m \in {[where |-> "incoming", card |-> c] : c \in {d \in ToSet(p.incoming) : d.id = e}}
    <3>1. 0 \in 0 .. N /\ Place(p, 0) = p.incoming /\ PlaceKind(p, 0) = "incoming"
      BY DEF Place, PlaceKind
    <3>. QED
      BY <2>1, <3>1
  <2>2. CASE \E t \in ToSet(p.terms) : m \in {[where |-> t.kind, card |-> c] : c \in {d \in ToSet(t.cards) : d.id = e}}
    <3>. PICK k \in 1 .. N : m \in {[where |-> p.terms[k].kind, card |-> c] :
                                      c \in {d \in ToSet(p.terms[k].cards) : d.id = e}}
      BY <1>0, <2>2
    <3>1. k \in 0 .. N /\ Place(p, k) = p.terms[k].cards /\ PlaceKind(p, k) = p.terms[k].kind
      BY DEF Place, PlaceKind
    <3>. QED
      BY <3>1
  <2>. QED
    BY <2>1, <2>2 DEF Located
<1>2. PICK k \in 0 .. N : \E c \in ToSet(Place(p, k)) : c.id = e /\ l = [where |-> PlaceKind(p, k), card |-> c]
  BY <1>1
<1>3. PICK c \in ToSet(Place(p, k)) : c.id = e /\ l = [where |-> PlaceKind(p, k), card |-> c]
  BY <1>2
<1>4. CardOK(c) /\ (c.origin = None <=> PlaceKind(p, k) = "rice")
  BY PlacesAre DEF CardsOK
<1>5. e \in Holds(Place(p, k))
  BY <1>3 DEF Holds
<1>6. e \in EntriesOf(p)
  <2>1. k = 0 => e \in Holds(p.incoming)
    BY <1>5 DEF Place
  <2>2. k # 0 => k \in 1 .. N /\ e \in Holds(p.terms[k].cards)
    BY <1>5 DEF Place
  <2>. QED
    BY <2>1, <2>2, EntriesAre
<1>7. ASSUME NEW m \in Located(p, e) PROVE m = l
  <2>. PICK j \in 0 .. N : \E d \in ToSet(Place(p, j)) : d.id = e /\ m = [where |-> PlaceKind(p, j), card |-> d]
    BY <1>1
  <2>. PICK d \in ToSet(Place(p, j)) : d.id = e /\ m = [where |-> PlaceKind(p, j), card |-> d]
    OBVIOUS
  <2>1. e \in Holds(Place(p, j))
    BY DEF Holds
  <2>2. j = k
    BY <1>5, <2>1, PlacesAre
  <2>3. d = c
    <3>1. CardsOK(Place(p, k))
      BY PlacesAre
    <3>. PICK n : n = Len(Place(p, k))
      OBVIOUS
    <3>2. \A i, h \in 1 .. n : Place(p, k)[i].id = Place(p, k)[h].id => i = h
      BY <3>1, CardsElim
    <3>. PICK i \in 1 .. n : c = Place(p, k)[i]
      BY <3>1, CardsElim
    <3>. PICK h \in 1 .. n : d = Place(p, k)[h]
      BY <2>2, <3>1, CardsElim
    <3>. QED
      BY <1>3, <3>2
  <2>. QED
    BY <1>3, <2>2, <2>3
<1>. QED
  BY <1>3, <1>4, <1>6, <1>7

\* The card the reducer finds.
LEMMA FoundIs ==
  ASSUME NEW N \in Nat, NEW p, Boarded(p, N), NEW e, NEW l \in Located(p, e)
  PROVE  (CHOOSE m \in Located(p, e) : TRUE) = l
<1>1. (CHOOSE m \in Located(p, e) : TRUE) \in Located(p, e)
  OBVIOUS
<1>. QED
  BY <1>1, LocatedIs

\* A card on the board is found there.
LEMMA IsLocated ==
  ASSUME NEW N \in Nat, NEW p, Boarded(p, N), NEW k \in 1 .. N, NEW c \in ToSet(p.terms[k].cards)
  PROVE  [where |-> p.terms[k].kind, card |-> c] \in Located(p, c.id)
<1>1. p.terms[k] \in ToSet(p.terms)
  BY TermsAre
<1>2. [where |-> p.terms[k].kind, card |-> c] \in
        {[where |-> p.terms[k].kind, card |-> x] : x \in {d \in ToSet(p.terms[k].cards) : d.id = c.id}}
  OBVIOUS
<1>. QED
  BY <1>1, <1>2 DEF Located

LEMMA TakesStays ==
  ASSUME NEW N \in Nat, NEW p, NEW q, SameColumns(q, p, N), NEW kind, NEW to, Takes(p, N, kind, to)
  PROVE  Takes(q, N, kind, to)
BY DEF SameColumns, Takes

LEMMA MoveCourseIs ==
  ASSUME NEW N \in Nat, NEW p, Boarded(p, N), NEW e, NEW to, Takes(p, N, "rice", to), NEW index \in Nat
  PROVE  /\ Boarded(MoveCourse(p, e, to, index), N)
         /\ EntriesOf(MoveCourse(p, e, to, index)) = EntriesOf(p)
<1>. PICK q : q = MoveCourse(p, e, to, index)
  OBVIOUS
<1>1. CASE ~\E l \in Located(p, e) : l.where = "rice"
  BY <1>1 DEF MoveCourse
<1>2. CASE \E l \in Located(p, e) : l.where = "rice"
  <2>. PICK l \in Located(p, e) : l.where = "rice"
    BY <1>2
  <2>. PICK r : r = WithoutEntry(p, e)
    OBVIOUS
  <2>1. q = InsertCourse(r, to, index, l.card)
    BY <1>2, FoundIs DEF MoveCourse
  <2>2. CardOK(l.card) /\ l.card.id = e /\ l.card.origin = None /\ e \in EntriesOf(p)
    BY LocatedIs
  <2>3. Boarded(r, N) /\ EntriesOf(r) = EntriesOf(p) \ {e} /\ Takes(r, N, "rice", to)
    BY WithoutEntryIs, TakesStays
  <2>4. Boarded(q, N) /\ EntriesOf(q) = EntriesOf(r) \cup {e}
    BY <2>1, <2>2, <2>3, InsertCourseIs
  <2>. QED
    BY <2>2, <2>3, <2>4
<1>. QED
  BY <1>1, <1>2

LEMMA MoveManualCardIs ==
  ASSUME NEW N \in Nat, NEW p, Boarded(p, N), NEW e, NEW to, to = Incoming \/ Takes(p, N, "away", to)
  PROVE  /\ Boarded(MoveManualCard(p, e, to), N)
         /\ EntriesOf(MoveManualCard(p, e, to)) = EntriesOf(p)
<1>. PICK q : q = MoveManualCard(p, e, to)
  OBVIOUS
<1>1. CASE ~\E l \in Located(p, e) : l.where # "rice"
  BY <1>1 DEF MoveManualCard
<1>2. CASE \E l \in Located(p, e) : l.where # "rice"
  <2>. PICK l \in Located(p, e) : l.where # "rice"
    BY <1>2
  <2>. PICK r : r = WithoutEntry(p, e)
    OBVIOUS
  <2>1. q = InsertManualCard(r, to, l.card)
    BY <1>2, FoundIs DEF MoveManualCard
  <2>2. CardOK(l.card) /\ l.card.id = e /\ l.card.origin # None /\ e \in EntriesOf(p)
    BY LocatedIs
  <2>3. Boarded(r, N) /\ EntriesOf(r) = EntriesOf(p) \ {e} /\ (to = Incoming \/ Takes(r, N, "away", to))
    BY WithoutEntryIs, TakesStays
  <2>4. Boarded(q, N) /\ EntriesOf(q) = EntriesOf(r) \cup {e}
    BY <2>1, <2>2, <2>3, InsertManualCardIs
  <2>. QED
    BY <2>2, <2>3, <2>4
<1>. QED
  BY <1>1, <1>2

\* A card the board does not hold is minted.
LEMMA FreshIs ==
  ASSUME NEW p, CanMint(p)
  PROVE  Fresh(p) \in Entries /\ Fresh(p) \notin EntriesOf(p)
BY DEF CanMint, Fresh

LEMMA ColumnTakes ==
  ASSUME NEW N \in Nat, NEW p, Boarded(p, N), NEW kind, NEW to
  PROVE  (\E t \in TermsNamed(p, to) : t.kind = kind) <=> Takes(p, N, kind, to)
<1>1. /\ \A k \in 1 .. N : p.terms[k] \in ToSet(p.terms)
      /\ \A t \in ToSet(p.terms) : \E k \in 1 .. N : t = p.terms[k]
  BY TermsAre
<1>. QED
  BY <1>1 DEF TermsNamed, Takes

LEMMA ManualCardIs ==
  ASSUME NEW id \in Entries, NEW origin, origin # None, NEW course, NEW credits \in Credits, NEW source,
         NEW fills, NEW claims
  PROVE  /\ CardOK(ManualCard(id, origin, course, credits, source, fills, claims))
         /\ ManualCard(id, origin, course, credits, source, fills, claims).id = id
         /\ ManualCard(id, origin, course, credits, source, fills, claims).origin = origin
BY DEF ManualCard, CardOK

LEMMA PlannedCourseIs ==
  ASSUME NEW id \in Entries, NEW course, course # None, NEW credits \in Credits, NEW fills, NEW observed
  PROVE  /\ CardOK(PlannedCourse(id, course, credits, fills, observed))
         /\ PlannedCourse(id, course, credits, fills, observed).id = id
         /\ PlannedCourse(id, course, credits, fills, observed).origin = None
BY DEF PlannedCourse, CardOK

\* A Rice card let go over a column keeps its place, or becomes a card of an
\* away column under a new id.
Dropped(q, p, N, e) ==
    /\ Boarded(q, N)
    /\ \/ EntriesOf(q) = EntriesOf(p)
       \/ EntriesOf(q) = (EntriesOf(p) \ {e}) \cup {Fresh(p)}
LEMMA DropCardIs ==
  ASSUME NEW N \in Nat, NEW p, Boarded(p, N), CanMint(p), NEW k \in 1 .. N, p.terms[k].kind = "rice",
         NEW c \in ToSet(p.terms[k].cards), NEW e, e = c.id, NEW to, NEW index \in Nat,
         NEW origin, origin # None, NEW q, q = DropCard(p, e, to, index, origin)
  PROVE  Dropped(q, p, N, e)
<1>1. PICK l \in Located(p, e) : l = [where |-> "rice", card |-> c]
  BY IsLocated
<1>2. (CHOOSE m \in Located(p, e) : TRUE).card = c
  <2>1. (CHOOSE m \in Located(p, e) : TRUE) = l
    BY FoundIs
  <2>2. l.card = c
    BY ONLY <1>1
  <2>. QED
    BY ONLY <2>1, <2>2
<1>7. \A kind : (\E t \in TermsNamed(p, to) : t.kind = kind) <=> Takes(p, N, kind, to)
  BY ColumnTakes
<1>3. CardOK(c)
  BY <1>1, LocatedIs
<1>4. CASE Takes(p, N, "rice", to)
  <2>1. q = MoveCourse(p, e, to, index)
    BY <1>4, <1>7 DEF DropCard
  <2>. QED
    BY <1>4, <2>1, MoveCourseIs DEF Dropped
<1>5. CASE ~Takes(p, N, "rice", to) /\ Takes(p, N, "away", to)
  <2>. PICK r : r = WithoutEntry(p, e)
    OBVIOUS
  <2>. PICK new : new = ManualCard(Fresh(p), origin, c.course, c.credits, None, c.fills, {})
    OBVIOUS
  <2>1. q = InsertManualCard(r, to, new)
    BY <1>2, <1>5, <1>7 DEF DropCard
  <2>2. Boarded(r, N) /\ EntriesOf(r) = EntriesOf(p) \ {e} /\ Takes(r, N, "away", to)
    BY <1>5, WithoutEntryIs, TakesStays
  <2>3. CardOK(new) /\ new.id = Fresh(p) /\ new.origin # None /\ new.id \notin EntriesOf(r)
    <3>1. c.credits \in Credits
      BY <1>3 DEF CardOK
    <3>2. Fresh(p) \in Entries /\ Fresh(p) \notin EntriesOf(p)
      BY FreshIs
    <3>. QED
      BY <2>2, <3>1, <3>2, ManualCardIs
  <2>4. Boarded(q, N) /\ EntriesOf(q) = EntriesOf(r) \cup {new.id}
    BY <2>1, <2>2, <2>3, InsertManualCardIs
  <2>. QED
    BY <2>2, <2>3, <2>4 DEF Dropped
<1>6. CASE ~Takes(p, N, "rice", to) /\ ~Takes(p, N, "away", to)
  <2>1. q = p
    BY <1>6, <1>7 DEF DropCard
  <2>. QED
    BY <2>1 DEF Dropped
<1>. QED
  BY <1>4, <1>5, <1>6

LEMMA DropCourseIs ==
  ASSUME NEW N \in Nat, NEW p, Boarded(p, N), CanMint(p), NEW facts, NEW course, course # None,
         NEW credits \in Credits, NEW observed, NEW fills, NEW to, NEW index \in Nat, NEW origin, origin # None
  PROVE  /\ Boarded(DropCourse(p, facts, course, credits, observed, fills, to, index, origin), N)
         /\ EntriesOf(p) \subseteq
              EntriesOf(DropCourse(p, facts, course, credits, observed, fills, to, index, origin))
<1>. PICK q : q = DropCourse(p, facts, course, credits, observed, fills, to, index, origin)
  OBVIOUS
<1>1. Fresh(p) \in Entries /\ Fresh(p) \notin EntriesOf(p)
  BY FreshIs
<1>6. \A kind : (\E t \in TermsNamed(p, to) : t.kind = kind) <=> Takes(p, N, kind, to)
  BY ColumnTakes
<1>2. CASE q = p
  BY <1>2
<1>3. CASE Takes(p, N, "rice", to) /\ q # p
  <2>. PICK new : new = PlannedCourse(Fresh(p), course, credits, fills, observed)
    OBVIOUS
  <2>1. q = InsertCourse(p, to, index, new)
    BY <1>3, <1>6 DEF DropCourse
  <2>2. CardOK(new) /\ new.id = Fresh(p) /\ new.origin = None
    BY <1>1, PlannedCourseIs
  <2>3. Boarded(q, N) /\ EntriesOf(q) = EntriesOf(p) \cup {new.id}
    BY <1>1, <1>3, <2>1, <2>2, InsertCourseIs
  <2>. QED
    BY <2>3
<1>4. CASE ~Takes(p, N, "rice", to) /\ Takes(p, N, "away", to) /\ q # p
  <2>. PICK new : new = ManualCard(Fresh(p), origin, course, credits, None, fills, {})
    OBVIOUS
  <2>1. q = InsertManualCard(p, to, new)
    BY <1>4, <1>6 DEF DropCourse
  <2>2. CardOK(new) /\ new.id = Fresh(p) /\ new.origin # None
    BY <1>1, ManualCardIs
  <2>3. Boarded(q, N) /\ EntriesOf(q) = EntriesOf(p) \cup {new.id}
    BY <1>1, <1>4, <2>1, <2>2, InsertManualCardIs
  <2>. QED
    BY <2>3
<1>5. CASE ~Takes(p, N, "rice", to) /\ ~Takes(p, N, "away", to) /\ q # p
  BY <1>5, <1>6 DEF DropCourse
<1>. QED
  BY <1>2, <1>3, <1>4, <1>5

-----------------------------------------------------------------------------
(* Edits of the columns.                                                    *)

LEMMA NoCards == CardsOK(<<>>) /\ ToSet(<<>>) = {} /\ Holds(<<>>) = {} /\ \A kind : Suits(kind, <<>>)
<1>1. ToSet(<<>>) = {} /\ Holds(<<>>) = {}
  BY DEF ToSet, Holds
<1>2. CardsOK(<<>>)
  BY <1>1 DEF CardsOK
<1>. QED
  BY <1>1, <1>2 DEF Suits

\* A column changes its kind only when that leaves every card on it.
LEMMA ConvertIs ==
  ASSUME NEW t, TermOK(t), NEW kind \in TermKinds, ~KindChangeBlocked(t, kind), NEW origin, origin # None
  PROVE  /\ TermOK(Convert(t, kind, origin)) /\ Convert(t, kind, origin).id = t.id
         /\ Holds(Convert(t, kind, origin).cards) = Holds(t.cards)
<1>. PICK u : u = Convert(t, kind, origin)
  OBVIOUS
<1>1. t.kind \in TermKinds /\ CardsOK(t.cards) /\ Suits(t.kind, t.cards)
  BY TermElim
<1>2. ASSUME NEW new, CardsOK(new), Suits(kind, new), Holds(new) = Holds(t.cards), Recarded(u, t, kind, new)
      PROVE  TermOK(u) /\ u.id = t.id /\ Holds(u.cards) = Holds(t.cards)
  BY <1>2, RecardedIs
<1>3. CASE kind = t.kind
  <2>1. Recarded(u, t, kind, t.cards)
    BY <1>3 DEF Convert, Recarded
  <2>. QED
    BY <1>1, <1>2, <1>3, <2>1
<1>4. CASE kind # t.kind /\ (kind = "off" \/ t.kind = "off")
  <2>1. Recarded(u, t, kind, <<>>)
    BY <1>4 DEF Convert, Recarded
  <2>2. t.cards = <<>>
    BY <1>1, <1>4 DEF KindChangeBlocked, Suits
  <2>. QED
    BY <1>2, <2>1, <2>2, NoCards
<1>5. CASE kind = "away" /\ t.kind = "rice"
  <2>. PICK new : new = [i \in DOMAIN t.cards |-> ManualCard(t.cards[i].id,
           IF t.cards[i].carried = None THEN origin ELSE t.cards[i].carried, t.cards[i].course,
           t.cards[i].credits, None, t.cards[i].fills, t.cards[i].claims)]
    OBVIOUS
  <2>1. Recarded(u, t, kind, new)
    BY <1>5 DEF Convert, Recarded
  <2>2. ASSUME NEW i \in DOMAIN t.cards
        PROVE  CardOK(new[i]) /\ new[i].id = t.cards[i].id /\ new[i].origin # None
    <3>1. CardOK(t.cards[i])
      BY <1>1, CardsElim
    <3>2. t.cards[i].id \in Entries /\ t.cards[i].credits \in Credits
      BY <3>1 DEF CardOK
    <3>. PICK o : o = (IF t.cards[i].carried = None THEN origin ELSE t.cards[i].carried) /\ o # None
      OBVIOUS
    <3>3. new[i] = ManualCard(t.cards[i].id, o, t.cards[i].course, t.cards[i].credits, None,
                              t.cards[i].fills, t.cards[i].claims)
      OBVIOUS
    <3>. QED
      BY <3>2, <3>3, ManualCardIs
  <2>3. new = [i \in DOMAIN t.cards |-> new[i]]
    OBVIOUS
  <2>4. CardsOK(new) /\ Holds(new) = Holds(t.cards)
    BY <1>1, <2>2, <2>3, MappedIs
  <2>5. Suits(kind, new)
    <3>1. DOMAIN new = DOMAIN t.cards
      OBVIOUS
    <3>. QED
      BY <1>5, <2>2, <3>1 DEF Suits, ToSet
  <2>. QED
    BY <1>2, <2>1, <2>4, <2>5
<1>6. CASE kind = "rice" /\ t.kind = "away"
  <2>. PICK places : places = {i \in DOMAIN t.cards : t.cards[i].course # None}
    OBVIOUS
  <2>. PICK mapped : mapped = Chosen(t.cards, places)
    OBVIOUS
  <2>1. CardsOK(mapped) /\ ToSet(mapped) = {t.cards[i] : i \in places}
    BY <1>1, KeptIs
  <2>2. \A i \in DOMAIN t.cards : t.cards[i].course # None
    <3>1. \A i \in DOMAIN t.cards : t.cards[i] \in ToSet(t.cards)
      BY DEF ToSet
    <3>. QED
      BY <1>6, <3>1 DEF KindChangeBlocked
  <2>3. ToSet(mapped) = ToSet(t.cards)
    <3>1. places = DOMAIN t.cards
      BY <2>2
    <3>. QED
      BY <2>1, <3>1 DEF ToSet
  <2>. PICK new : new = [i \in DOMAIN mapped |->
           [PlannedCourse(mapped[i].id, mapped[i].course, mapped[i].credits, mapped[i].fills, None)
              EXCEPT !.claims = mapped[i].claims, !.carried = mapped[i].origin]]
    OBVIOUS
  <2>4. Recarded(u, t, kind, new)
    BY <1>6 DEF Convert, Recarded
  <2>5. ASSUME NEW i \in DOMAIN mapped
        PROVE  CardOK(new[i]) /\ new[i].id = mapped[i].id /\ new[i].origin = None
    <3>. PICK c : c = mapped[i]
      OBVIOUS
    <3>1. CardOK(c) /\ c \in ToSet(t.cards)
      <4>1. CardsOK(mapped)
        BY <2>1
      <4>2. DOMAIN mapped = 1 .. Len(mapped) /\ \A j \in 1 .. Len(mapped) : CardOK(mapped[j]) /\ mapped[j] \in ToSet(mapped)
        BY ONLY <4>1, CardsElim
      <4>3. CardOK(c) /\ c \in ToSet(mapped)
        BY ONLY <4>2, i \in DOMAIN mapped, c = mapped[i]
      <4>. QED
        BY ONLY <2>3, <4>3
    <3>2. c.course # None
      BY <2>2, <3>1 DEF ToSet
    <3>. PICK d : d = PlannedCourse(c.id, c.course, c.credits, c.fills, None)
      OBVIOUS
    <3>3. new[i] = [d EXCEPT !.claims = c.claims, !.carried = c.origin]
      OBVIOUS
    <3>. QED
      BY ONLY <3>1, <3>2, <3>3, c = mapped[i], d = PlannedCourse(c.id, c.course, c.credits, c.fills, None)
         DEF CardOK, PlannedCourse
  <2>6. new = [i \in DOMAIN mapped |-> new[i]]
    OBVIOUS
  <2>7. CardsOK(new) /\ Holds(new) = Holds(mapped)
    BY ONLY <2>1, <2>5, <2>6, MappedIs
  <2>8. Suits(kind, new)
    <3>1. DOMAIN new = DOMAIN mapped
      OBVIOUS
    <3>. QED
      BY ONLY <1>6, <2>5, <3>1 DEF Suits, ToSet
  <2>9. Holds(mapped) = Holds(t.cards)
    BY <2>3 DEF Holds
  <2>. QED
    BY <1>2, <2>4, <2>7, <2>8, <2>9
<1>. QED
  BY <1>1, <1>3, <1>4, <1>5, <1>6 DEF TermKinds

LEMMA SetTermIs ==
  ASSUME NEW N \in Nat, NEW p, Boarded(p, N), NEW id, NEW kind \in TermKinds, NEW origin, origin # None
  PROVE  /\ Boarded(SetTerm(p, id, kind, origin), N)
         /\ EntriesOf(SetTerm(p, id, kind, origin)) = EntriesOf(p)
<1>. PICK q : q = SetTerm(p, id, kind, origin)
  OBVIOUS
<1>0. DOMAIN p.terms = 1 .. N
  BY TermsAre
<1>1. /\ q = Plan(q.catalogYear, q.programs, p.incoming, q.terms, q.selfChecks)
      /\ q.terms = [k \in 1 .. N |-> IF p.terms[k].id = id /\ ~KindChangeBlocked(p.terms[k], kind)
                                     THEN Convert(p.terms[k], kind, origin) ELSE p.terms[k]]
  BY <1>0 DEF SetTerm, MapTerms, Boarded, Plan
<1>2. q.incoming = p.incoming /\ q = Plan(q.catalogYear, q.programs, q.incoming, q.terms, q.selfChecks)
  BY <1>1 DEF Plan
<1>3. ASSUME NEW k \in 1 .. N
      PROVE  /\ TermOK(q.terms[k]) /\ q.terms[k].id = p.terms[k].id
             /\ Holds(q.terms[k].cards) = Holds(p.terms[k].cards)
  <2>1. TermOK(p.terms[k])
    BY DEF Boarded
  <2>. QED
    BY <1>1, <2>1, ConvertIs
<1>4. MadeOf(q, p, N)
  BY <1>1, <1>2, <1>3 DEF MadeOf, Boarded
<1>5. Boarded(q, N)
  BY <1>2, <1>3, <1>4, PlanKept
<1>6. \A x : x \in EntriesOf(q) <=> x \in EntriesOf(p)
  <2>1. \A x : x \in EntriesOf(p) <=> \/ x \in Holds(p.incoming)
                                      \/ \E k \in 1 .. N : x \in Holds(p.terms[k].cards)
    BY EntriesAre
  <2>2. \A x : x \in EntriesOf(q) <=> \/ x \in Holds(q.incoming)
                                      \/ \E k \in 1 .. N : x \in Holds(q.terms[k].cards)
    BY <1>5, EntriesAre
  <2>. QED
    BY <1>2, <1>3, <2>1, <2>2
<1>. QED
  BY <1>5, <1>6

\* Only an empty column is taken off.
LEMMA PlacesOrdered ==
  ASSUME NEW N \in Nat, NEW places \in SUBSET (1 .. N), NEW m \in places, NEW n \in places,
         PlaceOf(places, m) < PlaceOf(places, n)
  PROVE  m < n
<1>1. SUFFICES ASSUME ~(m < n) PROVE FALSE
  OBVIOUS
<1>. PICK A : A = {y \in places : y <= m}
  OBVIOUS
<1>. PICK B : B = {y \in places : y <= n}
  OBVIOUS
<1>2. B \in SUBSET A /\ A \in SUBSET (1 .. N)
  <2>1. m \in Int /\ n \in Int /\ \A y \in places : y \in Int /\ y \in 1 .. N
    OBVIOUS
  <2>2. \A y \in places : y <= n => y <= m
    BY ONLY <1>1, <2>1
  <2>. QED
    BY <2>1, <2>2
<1>3. IsFiniteSet(A) /\ Cardinality(A) \in Nat
  <2>1. IsFiniteSet(1 .. N)
    BY FS_Interval
  <2>. QED
    BY <1>2, <2>1, FS_Subset, FS_CardinalityType
<1>4. Cardinality(B) \in Nat /\ Cardinality(B) <= Cardinality(A)
  BY <1>2, <1>3, FS_Subset, FS_CardinalityType
<1>5. Cardinality(A) < Cardinality(B)
  BY DEF PlaceOf
<1>. QED
  BY ONLY <1>3, <1>4, <1>5

LEMMA RemoveTermIs ==
  ASSUME NEW N \in Nat, NEW p, Boarded(p, N), NEW id
  PROVE  /\ \E M \in Nat : Boarded(RemoveTerm(p, id), M)
         /\ EntriesOf(RemoveTerm(p, id)) = EntriesOf(p)
<1>. PICK q : q = RemoveTerm(p, id)
  OBVIOUS
<1>. PICK places : places = {k \in 1 .. N : p.terms[k].id # id \/ RemoveBlocked(p.terms[k])}
  OBVIOUS
<1>. PICK terms : terms = Chosen(p.terms, places)
  OBVIOUS
<1>1. q = Plan(p.catalogYear, p.programs, p.incoming, terms, p.selfChecks)
  <2>1. DOMAIN p.terms = 1 .. N
    BY TermsAre
  <2>. QED
    BY <2>1 DEF RemoveTerm, Boarded, Plan
<1>2. /\ q = Plan(q.catalogYear, q.programs, q.incoming, q.terms, q.selfChecks)
      /\ q.incoming = p.incoming /\ q.terms = terms
  BY ONLY <1>1 DEF Plan
<1>3. Gathers(terms, p.terms, places)
  BY ChosenIs
<1>. PICK M \in Nat : M = Len(terms) /\ terms = [k \in 1 .. M |-> terms[k]]
  <2>1. terms \in Seq({p.terms[n] : n \in places})
    BY <1>3 DEF Gathers
  <2>. QED
    BY ONLY <2>1
<1>4. \A j \in 1 .. M : \E n \in places : PlaceOf(places, n) = j /\ terms[j] = p.terms[n]
  BY <1>3 DEF Gathers
<1>5. \A n \in places : PlaceOf(places, n) \in 1 .. M /\ terms[PlaceOf(places, n)] = p.terms[n]
  BY <1>3 DEF Gathers
<1>6. Boarded(q, M)
  <2>1. ASSUME NEW k \in 1 .. M
        PROVE  TermOK(terms[k]) /\ Holds(terms[k].cards) \cap Holds(p.incoming) = {}
    <3>. PICK n \in places : terms[k] = p.terms[n]
      BY <1>4
    <3>. QED
      BY DEF Boarded
  <2>2. ASSUME NEW i \in 1 .. M, NEW j \in 1 .. M, i < j
        PROVE  terms[i].id < terms[j].id /\ Holds(terms[i].cards) \cap Holds(terms[j].cards) = {}
    <3>. PICK m \in places : PlaceOf(places, m) = i /\ terms[i] = p.terms[m]
      BY <1>4
    <3>. PICK n \in places : PlaceOf(places, n) = j /\ terms[j] = p.terms[n]
      BY <1>4
    <3>1. m < n
      BY <2>2, PlacesOrdered
    <3>2. m # n /\ m \in 1 .. N /\ n \in 1 .. N
      BY <3>1
    <3>. QED
      BY <3>1, <3>2 DEF Boarded
  <2>3. \A i, j \in 1 .. M : i # j => Holds(terms[i].cards) \cap Holds(terms[j].cards) = {}
    <3>1. ASSUME NEW i \in 1 .. M, NEW j \in 1 .. M, i # j
          PROVE  Holds(terms[i].cards) \cap Holds(terms[j].cards) = {}
      <4>1. i < j \/ j < i
        BY ONLY <3>1, i \in 1 .. M, j \in 1 .. M
      <4>2. /\ i < j => Holds(terms[i].cards) \cap Holds(terms[j].cards) = {}
            /\ j < i => Holds(terms[j].cards) \cap Holds(terms[i].cards) = {}
        BY <2>2
      <4>. QED
        BY ONLY <4>1, <4>2
    <3>. QED
      BY <3>1
  <2>4. CardsOK(q.incoming) /\ \A c \in ToSet(q.incoming) : c.origin # None
    BY <1>2 DEF Boarded
  <2>. QED
    BY <1>2, <2>1, <2>2, <2>3, <2>4 DEF Boarded
<1>7. ASSUME NEW k \in 1 .. N, k \notin places PROVE Holds(p.terms[k].cards) = {}
  <2>1. ~RemoveBlocked(p.terms[k]) /\ TermOK(p.terms[k])
    BY <1>7 DEF Boarded
  <2>2. p.terms[k].cards = <<>>
    BY <2>1 DEF RemoveBlocked, KindChangeBlocked, TermOK
  <2>. QED
    BY <2>2, NoCards
<1>8. \A x : x \in EntriesOf(q) <=> x \in EntriesOf(p)
  <2>1. \A x : x \in EntriesOf(p) <=> \/ x \in Holds(p.incoming)
                                      \/ \E k \in 1 .. N : x \in Holds(p.terms[k].cards)
    BY EntriesAre
  <2>2. \A x : x \in EntriesOf(q) <=> \/ x \in Holds(q.incoming)
                                      \/ \E k \in 1 .. M : x \in Holds(q.terms[k].cards)
    BY <1>6, EntriesAre
  <2>3. ASSUME NEW x, NEW k \in 1 .. N, x \in Holds(p.terms[k].cards)
        PROVE  \E j \in 1 .. M : x \in Holds(terms[j].cards)
    <3>1. k \in places
      BY <1>7, <2>3
    <3>. QED
      BY <1>5, <2>3, <3>1
  <2>4. ASSUME NEW x, NEW j \in 1 .. M, x \in Holds(terms[j].cards)
        PROVE  \E k \in 1 .. N : x \in Holds(p.terms[k].cards)
    <3>. PICK n \in places : terms[j] = p.terms[n]
      BY <1>4
    <3>. QED
      BY <2>4
  <2>. QED
    BY <1>2, <2>1, <2>2, <2>3, <2>4
<1>. QED
  BY <1>6, <1>8

\* A new column goes where its position puts it.
LEMMA AddTermAtIs ==
  ASSUME NEW N \in Nat, NEW p, Boarded(p, N), NEW position \in Nat
  PROVE  /\ \E M \in Nat : Boarded(AddTermAt(p, position), M)
         /\ EntriesOf(AddTermAt(p, position)) = EntriesOf(p)
<1>. PICK q : q = AddTermAt(p, position)
  OBVIOUS
<1>1. CASE TermsNamed(p, position) # {}
  BY <1>1 DEF AddTermAt
<1>2. CASE TermsNamed(p, position) = {}
  <2>. PICK new : new = PlanTerm(position, "rice", <<>>, {})
    OBVIOUS
  <2>. PICK S : S = ToSet(p.terms) \cup {new}
    OBVIOUS
  <2>. PICK key : key = [t \in S |-> t.id]
    OBVIOUS
  <2>. PICK g : g = InOrder(S, key)
    OBVIOUS
  <2>0. /\ \A k \in 1 .. N : p.terms[k] \in ToSet(p.terms)
        /\ \A t \in ToSet(p.terms) : \E k \in 1 .. N : t = p.terms[k]
    BY TermsAre
  <2>1. q = Plan(p.catalogYear, p.programs, p.incoming, g, p.selfChecks)
    BY <1>2 DEF AddTermAt, Boarded, Plan
  <2>2. /\ q = Plan(q.catalogYear, q.programs, q.incoming, q.terms, q.selfChecks)
        /\ q.incoming = p.incoming /\ q.terms = g
    BY ONLY <2>1 DEF Plan
  <2>3. new.id = position /\ new.cards = <<>> /\ TermOK(new)
    BY NoCards DEF TermOK, PlanTerm, TermKinds
  <2>4. \A t \in S : TermOK(t) /\ t.id \in Nat
    BY <2>0, <2>3 DEF Boarded, TermOK
  <2>5. IsFiniteSet(S)
    <3>1. IsFiniteSet(ToSet(p.terms))
      <4>1. IsFiniteSet(1 .. N)
        BY FS_Interval
      <4>. PICK h : h = [k \in 1 .. N |-> p.terms[k]]
        OBVIOUS
      <4>2. h \in Surjection(1 .. N, ToSet(p.terms))
        BY <2>0 DEF Surjection
      <4>. QED
        BY <4>1, <4>2, FS_Surjection
    <3>. QED
      BY <3>1, FS_AddElement
  <2>6. ASSUME NEW t \in S, NEW u \in S, t.id = u.id PROVE t = u
    <3>1. \A k \in 1 .. N : p.terms[k].id # position
      BY <1>2, <2>0 DEF TermsNamed
    <3>2. CASE t = new \/ u = new
      BY <2>0, <2>3, <2>6, <3>1, <3>2
    <3>3. CASE t # new /\ u # new
      <4>. PICK j \in 1 .. N : t = p.terms[j]
        BY <2>0, <3>3
      <4>. PICK k \in 1 .. N : u = p.terms[k]
        BY <2>0, <3>3
      <4>. QED
        BY <2>6, OneColumn
    <3>. QED
      BY <3>2, <3>3
  <2>. PICK M \in Nat : M = Cardinality(S)
    BY <2>5, FS_CardinalityType
  <2>7. Listed(S, key, g, M)
    <3>1. key \in [S -> Int] /\ \A c, d \in S : key[c] = key[d] => c = d
      BY <2>4, <2>6
    <3>2. Listed(S, key, InOrder(S, key), M)
      BY ONLY <2>5, <3>1, SortedIs, M \in Nat, M = Cardinality(S)
    <3>. QED
      BY ONLY <3>2, g = InOrder(S, key)
  <2>8. /\ g \in [1 .. M -> S] /\ \A t \in S : \E i \in 1 .. M : t = g[i]
        /\ \A i, j \in 1 .. M : g[i].id < g[j].id <=> i < j
    <3>1. /\ g \in [1 .. M -> S] /\ \A t \in S : \E i \in 1 .. M : t = g[i]
          /\ \A i, j \in 1 .. M : key[g[i]] < key[g[j]] <=> i < j
      BY <2>7 DEF Listed, Grows
    <3>2. \A i \in 1 .. M : key[g[i]] = g[i].id
      BY <3>1
    <3>. QED
      BY ONLY <3>1, <3>2
  <2>9. ASSUME NEW t \in S, NEW u \in S
        PROVE  /\ Holds(t.cards) \cap Holds(p.incoming) = {}
               /\ t # u => Holds(t.cards) \cap Holds(u.cards) = {}
    <3>1. CASE t = new \/ u = new
      <4>1. Holds(new.cards) = {}
        BY <2>3, NoCards
      <4>2. \A x \in S : Holds(x.cards) \cap Holds(p.incoming) = {}
        BY <2>0, <4>1 DEF Boarded
      <4>. QED
        BY <3>1, <4>1, <4>2
    <3>2. CASE t # new /\ u # new
      <4>. PICK j \in 1 .. N : t = p.terms[j]
        BY <2>0, <3>2
      <4>. PICK k \in 1 .. N : u = p.terms[k]
        BY <2>0, <3>2
      <4>. QED
        BY DEF Boarded
    <3>. QED
      BY <3>1, <3>2
  <2>10. Boarded(q, M)
    <3>1. \A i \in 1 .. M : g[i] \in S /\ TermOK(g[i])
      BY <2>4, <2>8
    <3>2. ASSUME NEW i \in 1 .. M, NEW j \in 1 .. M, i # j PROVE g[i] # g[j]
      <4>1. i < j \/ j < i
        BY ONLY <3>2, M \in Nat, i \in 1 .. M, j \in 1 .. M
      <4>2. g[i].id < g[j].id \/ g[j].id < g[i].id
        BY ONLY <2>8, <4>1, i \in 1 .. M, j \in 1 .. M
      <4>. PICK x \in Nat : x = g[i].id
        BY <2>4, <3>1
      <4>3. g[i] = g[j] => x < x
        BY ONLY <4>2, x = g[i].id
      <4>. QED
        BY ONLY <4>3, x \in Nat
    <3>3. CardsOK(q.incoming) /\ \A c \in ToSet(q.incoming) : c.origin # None
      BY <2>2 DEF Boarded
    <3>4. q.terms = [k \in 1 .. M |-> q.terms[k]]
      BY <2>2, <2>8
    <3>5. /\ \A k \in 1 .. M : Holds(g[k].cards) \cap Holds(q.incoming) = {}
          /\ \A j, k \in 1 .. M : j # k => Holds(g[j].cards) \cap Holds(g[k].cards) = {}
      BY ONLY <2>2, <2>9, <3>1, <3>2
    <3>6. \A i, j \in 1 .. M : i < j => g[i].id < g[j].id
      BY ONLY <2>8
    <3>. QED
      BY ONLY <2>2, <3>1, <3>3, <3>4, <3>5, <3>6 DEF Boarded
  <2>11. \A x : x \in EntriesOf(q) <=> x \in EntriesOf(p)
    <3>1. \A x : x \in EntriesOf(p) <=> \/ x \in Holds(p.incoming)
                                        \/ \E k \in 1 .. N : x \in Holds(p.terms[k].cards)
      BY EntriesAre
    <3>2. \A x : x \in EntriesOf(q) <=> \/ x \in Holds(q.incoming)
                                        \/ \E k \in 1 .. M : x \in Holds(q.terms[k].cards)
      BY <2>10, EntriesAre
    <3>3. ASSUME NEW x, NEW k \in 1 .. N, x \in Holds(p.terms[k].cards)
          PROVE  \E j \in 1 .. M : x \in Holds(g[j].cards)
      <4>1. p.terms[k] \in S
        BY <2>0
      <4>. PICK j \in 1 .. M : p.terms[k] = g[j]
        BY ONLY <2>8, <4>1
      <4>. QED
        BY <3>3
    <3>4. ASSUME NEW x, NEW j \in 1 .. M, x \in Holds(g[j].cards)
          PROVE  \E k \in 1 .. N : x \in Holds(p.terms[k].cards)
      <4>1. g[j] \in S /\ g[j] # new
        BY <2>3, <2>8, <3>4, NoCards
      <4>. QED
        BY <2>0, <3>4, <4>1
    <3>. QED
      BY <2>2, <3>1, <3>2, <3>3, <3>4
  <2>. QED
    BY <2>10, <2>11
<1>. QED
  BY <1>1, <1>2

\* After any column there is a position that no column has.
LEMMA FreePositionIs ==
  ASSUME NEW N \in Nat, NEW p, Boarded(p, N), NEW after \in Nat
  PROVE  FreePosition(p, after) \in Nat
<1>. PICK S : S = {n \in 0 .. N : TermsNamed(p, after + 1 + n) # {}}
  OBVIOUS
<1>0. /\ Len(p.terms) = N /\ \A k \in 1 .. N : p.terms[k] \in ToSet(p.terms)
      /\ \A t \in ToSet(p.terms) : \E k \in 1 .. N : t = p.terms[k]
  BY TermsAre
<1>1. \E n \in 0 .. N : n \notin S
  <2>1. SUFFICES ASSUME \A n \in 0 .. N : n \in S PROVE FALSE
    OBVIOUS
  <2>. DEFINE f == [n \in 0 .. N |-> CHOOSE k \in 1 .. N : p.terms[k].id = after + 1 + n]
  <2>2. \A n \in 0 .. N : f[n] \in 1 .. N /\ p.terms[f[n]].id = after + 1 + n
    <3>1. ASSUME NEW n \in 0 .. N PROVE \E k \in 1 .. N : p.terms[k].id = after + 1 + n
      <4>1. TermsNamed(p, after + 1 + n) # {}
        BY <2>1
      <4>. PICK t \in ToSet(p.terms) : t.id = after + 1 + n
        BY <4>1 DEF TermsNamed
      <4>. QED
        BY <1>0
    <3>. QED
      BY <3>1
  <2>3. f \in [0 .. N -> 1 .. N]
    BY <2>2
  <2>4. /\ IsFiniteSet(0 .. N) /\ Cardinality(0 .. N) = N + 1
        /\ IsFiniteSet(1 .. N) /\ Cardinality(1 .. N) = N
    <3>1. /\ 0 \in Int /\ 1 \in Int /\ N \in Int
          /\ (IF 0 > N THEN 0 ELSE N - 0 + 1) = N + 1 /\ (IF 1 > N THEN 0 ELSE N - 1 + 1) = N
      OBVIOUS
    <3>. QED
      BY <3>1, FS_Interval
  <2>. HIDE DEF f
  <2>5. PICK m \in 0 .. N, n \in 0 .. N : m # n /\ f[m] = f[n]
    <3>1. Cardinality(1 .. N) < Cardinality(0 .. N)
      BY ONLY <2>4, N \in Nat
    <3>. QED
      BY ONLY <2>3, <2>4, <3>1, FS_PigeonHole
  <2>6. after + 1 + m = after + 1 + n
    BY <2>2, <2>5
  <2>. QED
    BY <2>5, <2>6
<1>2. \E n \in 0 .. N : n \notin S /\ \A m \in 0 .. N : m < n => m \in S
  <2>1. SUFFICES ASSUME \A n \in 0 .. N : n \notin S => \E m \in 0 .. N : m < n /\ m \notin S PROVE FALSE
    OBVIOUS
  <2>. DEFINE T == {n \in 0 .. N : \A m \in 0 .. n : m \in S}
  <2>2. 0 \in T
    BY <2>1
  <2>3. ASSUME NEW n \in 0 .. N, n < N, n \in T PROVE n + 1 \in T
    <3>0. n + 1 \in 0 .. N /\ \A m \in 0 .. N : m < n + 1 => m \in 0 .. n
      BY ONLY <2>3, N \in Nat, n \in 0 .. N
    <3>1. n + 1 \in 0 .. N /\ \A m \in 0 .. N : m < n + 1 => m \in S
      <4>1. \A m \in 0 .. n : m \in S
        BY <2>3
      <4>. QED
        BY ONLY <3>0, <4>1
    <3>2. n + 1 \in S
      BY <2>1, <3>1
    <3>3. \A m \in 0 .. (n + 1) : m \in 0 .. N /\ (m < n + 1 \/ m = n + 1)
      BY <3>1
    <3>. QED
      BY <3>1, <3>2, <3>3
  <2>4. \A n \in 0 .. N : n \in T
    <3>. HIDE DEF T
    <3>. QED
      BY <2>2, <2>3, UpTo
  <2>. QED
    BY <1>1, <2>4
<1>. PICK n \in 0 .. N : n \notin S /\ \A m \in 0 .. N : m < n => m \in S
  BY <1>2
<1>. PICK x \in Int : x = after + 1 + n
  OBVIOUS
<1>. DEFINE Free(y) == TermsNamed(p, y) = {} /\ \A z \in (after + 1) .. (y - 1) : TermsNamed(p, z) # {}
<1>3. x \in (after + 1) .. (after + 1 + N) /\ Free(x)
  <2>1. x \in (after + 1) .. (after + 1 + N) /\ TermsNamed(p, x) = {}
    OBVIOUS
  <2>2. ASSUME NEW z \in (after + 1) .. (x - 1) PROVE TermsNamed(p, z) # {}
    <3>. PICK m \in 0 .. N : m = z - after - 1 /\ m < n
      OBVIOUS
    <3>1. after + 1 + m = z
      BY ONLY m = z - after - 1, z \in (after + 1) .. (x - 1), after \in Int, x \in Int
    <3>2. TermsNamed(p, after + 1 + m) # {}
      <4>1. m \in S
        OBVIOUS
      <4>. QED
        BY ONLY <4>1, S = {i \in 0 .. N : TermsNamed(p, after + 1 + i) # {}}
    <3>. QED
      BY ONLY <3>1, <3>2
  <2>. QED
    BY <2>1, <2>2
<1>4. FreePosition(p, after) = CHOOSE y \in (after + 1) .. (after + 1 + N) : Free(y)
  BY <1>0 DEF FreePosition
<1>5. FreePosition(p, after) \in (after + 1) .. (after + 1 + N)
  <2>. HIDE DEF Free
  <2>. QED
    BY <1>3, <1>4
<1>. QED
  BY <1>5

LEMMA AddTermAfterIs ==
  ASSUME NEW N \in Nat, NEW p, Boarded(p, N), NEW after \in Nat
  PROVE  /\ \E M \in Nat : Boarded(AddTermAfter(p, after), M)
         /\ EntriesOf(AddTermAfter(p, after)) = EntriesOf(p)
<1>1. FreePosition(p, after) \in Nat
  BY FreePositionIs
<1>2. CASE TermsNamed(p, after) = {}
  BY <1>2 DEF AddTermAfter
<1>3. CASE TermsNamed(p, after) # {}
  <2>1. AddTermAfter(p, after) = AddTermAt(p, FreePosition(p, after))
    BY <1>3 DEF AddTermAfter
  <2>. QED
    BY <1>1, <2>1, AddTermAtIs
<1>. QED
  BY <1>2, <1>3

-----------------------------------------------------------------------------
(* The page.                                                                *)

LEMMA EntriesFinite ==
  ASSUME NEW N \in Nat, NEW p, Boarded(p, N)
  PROVE  IsFiniteSet(EntriesOf(p))
<1>1. \A k \in 0 .. N : CardsOK(Place(p, k))
  BY PlacesAre
<1>2. ASSUME NEW k \in 0 .. N PROVE IsFiniteSet(Holds(Place(p, k)))
  <2>. PICK cards : cards = Place(p, k)
    OBVIOUS
  <2>. PICK n \in Nat : n = Len(cards) /\ DOMAIN cards = 1 .. n
    BY <1>1, CardsElim
  <2>. PICK f : f = [i \in 1 .. n |-> cards[i].id]
    OBVIOUS
  <2>1. f \in Surjection(1 .. n, Holds(cards))
    BY DEF Surjection, Holds, ToSet
  <2>2. IsFiniteSet(1 .. n)
    BY FS_Interval
  <2>. QED
    BY <2>1, <2>2, FS_Surjection
<1>. PICK T : T = {Holds(Place(p, k)) : k \in 0 .. N}
  OBVIOUS
<1>3. IsFiniteSet(T)
  <2>. PICK f : f = [k \in 0 .. N |-> Holds(Place(p, k))]
    OBVIOUS
  <2>1. f \in Surjection(0 .. N, T)
    BY DEF Surjection
  <2>2. IsFiniteSet(0 .. N)
    BY FS_Interval
  <2>. QED
    BY <2>1, <2>2, FS_Surjection
<1>4. IsFiniteSet(UNION T)
  <2>1. \A x \in T : IsFiniteSet(x)
    BY <1>2
  <2>. QED
    BY <1>3, <2>1, FS_UNION
<1>5. EntriesOf(p) \in SUBSET UNION T
  <2>1. ASSUME NEW e \in EntriesOf(p) PROVE \E k \in 0 .. N : e \in Holds(Place(p, k))
    <3>1. \/ e \in Holds(p.incoming)
          \/ \E k \in 1 .. N : e \in Holds(p.terms[k].cards)
      BY EntriesAre
    <3>2. CASE e \in Holds(p.incoming)
      <4>1. 0 \in 0 .. N /\ Place(p, 0) = p.incoming
        BY DEF Place
      <4>. QED
        BY <3>2, <4>1
    <3>3. CASE \E k \in 1 .. N : e \in Holds(p.terms[k].cards)
      <4>. PICK k \in 1 .. N : e \in Holds(p.terms[k].cards)
        BY <3>3
      <4>1. k \in 0 .. N /\ Place(p, k) = p.terms[k].cards
        BY DEF Place
      <4>. QED
        BY <4>1
    <3>. QED
      BY <3>1, <3>2, <3>3
  <2>. QED
    BY <2>1
<1>. QED
  BY <1>4, <1>5, FS_Subset

\* An edit leaves a board with every card, or with one under a new id, or it
\* took that one card off.
Keeps(p, q) ==
  /\ Ordered(q)
  /\ \/ EntriesOf(p) \subseteq EntriesOf(q)
     \/ \E e \in EntriesOf(p) : \E n : n \notin EntriesOf(p) /\ EntriesOf(q) = (EntriesOf(p) \ {e}) \cup {n}
     \/ \E e \in EntriesOf(p) : q = WithoutEntry(p, e)
LEMMA KeepsSame ==
  ASSUME NEW p, NEW M \in Nat, NEW q, Boarded(q, M), EntriesOf(q) = EntriesOf(p)
  PROVE  Keeps(p, q)
BY BoardedIntro DEF Keeps

LEMMA KeepsIs ==
  ASSUME NEW N \in Nat, NEW p, Boarded(p, N), NEW q, Keeps(p, q)
  PROVE  \/ Cardinality(EntriesOf(q)) >= Cardinality(EntriesOf(p))
         \/ \E e \in EntriesOf(p) : q = WithoutEntry(p, e)
<1>. PICK A : A = EntriesOf(p)
  OBVIOUS
<1>. PICK B : B = EntriesOf(q)
  OBVIOUS
<1>1. IsFiniteSet(A) /\ IsFiniteSet(B) /\ Cardinality(A) \in Nat /\ Cardinality(B) \in Nat
  <2>1. \E M \in Nat : Boarded(q, M)
    BY BoardedElim DEF Keeps
  <2>. QED
    BY <2>1, EntriesFinite, FS_CardinalityType
<1>2. CASE A \subseteq B
  <2>1. Cardinality(A) <= Cardinality(B)
    BY <1>1, <1>2, FS_Subset
  <2>. QED
    BY <1>1, <2>1
<1>3. CASE \E e \in A : \E n : n \notin A /\ B = (A \ {e}) \cup {n}
  <2>. PICK e \in A : \E n : n \notin A /\ B = (A \ {e}) \cup {n}
    BY <1>3
  <2>. PICK n : n \notin A /\ B = (A \ {e}) \cup {n}
    OBVIOUS
  <2>. PICK C : C = A \ {e}
    OBVIOUS
  <2>1. IsFiniteSet(C) /\ Cardinality(C) = Cardinality(A) - 1
    BY <1>1, FS_RemoveElement
  <2>2. Cardinality(B) = Cardinality(C) + 1
    <3>1. n \notin C
      OBVIOUS
    <3>. QED
      BY <2>1, <3>1, FS_AddElement
  <2>. QED
    BY <1>1, <2>1, <2>2
<1>. QED
  BY <1>2, <1>3 DEF Keeps

LEMMA ColumnsAre ==
  ASSUME NEW N \in Nat, Boarded(plan, N), NEW kinds, NEW to \in Columns(kinds)
  PROVE  to \in Nat /\ \E kind \in kinds : Takes(plan, N, kind, to)
<1>. PICK t \in ToSet(plan.terms) : t.kind \in kinds /\ t.id = to
  BY DEF Columns
<1>. PICK k \in 1 .. N : t = plan.terms[k]
  BY TermsAre
<1>1. t.id \in Nat
  BY DEF Boarded, TermOK
<1>2. Takes(plan, N, t.kind, to)
  BY DEF Takes
<1>. QED
  BY <1>1, <1>2

\* The settings offer no place before the first year.
LEMMA OpeningsAre ==
  ASSUME NEW N \in Nat, Boarded(plan, N), NEW q \in OpenPositions(plan)
  PROVE  q \in Nat
<1>. PICK held : held = IF plan.terms = <<>> THEN <<Matriculation>> ELSE [k \in DOMAIN plan.terms |-> plan.terms[k].id]
  OBVIOUS
<1>1. held[1] \in Nat
  <2>1. CASE plan.terms = <<>>
    <3>1. held = <<Matriculation>>
      BY <2>1
    <3>. QED
      BY ONLY <3>1, BoardsAssumption
  <2>2. CASE plan.terms # <<>>
    <3>1. DOMAIN plan.terms = 1 .. N /\ plan.terms = [k \in 1 .. N |-> plan.terms[k]]
      BY TermsAre DEF Boarded
    <3>2. N # 0
      BY <2>2, <3>1
    <3>3. 1 \in 1 .. N
      BY <3>2
    <3>4. held = [k \in 1 .. N |-> plan.terms[k].id]
      BY ONLY <2>2, <3>1,
              held = IF plan.terms = <<>> THEN <<Matriculation>> ELSE [k \in DOMAIN plan.terms |-> plan.terms[k].id]
    <3>5. held[1] = plan.terms[1].id
      BY ONLY <3>3, <3>4
    <3>. QED
      BY <3>3, <3>5 DEF Boarded, TermOK
  <2>. QED
    BY <2>1, <2>2
<1>. PICK from : from = 3 * (held[1] \div 3)
  OBVIOUS
<1>2. from \in Nat
  <2>1. held[1] \div 3 \in Nat
    BY ONLY <1>1
  <2>. QED
    BY ONLY <2>1, from = 3 * (held[1] \div 3)
<1>3. \E until : q \in from .. until
  <2>1. At(YearOf(held[1]), Fall) = from
    BY <1>2 DEF At, YearOf, Fall
  <2>. QED
    BY <2>1 DEF OpenPositions
<1>. QED
  BY ONLY <1>2, <1>3

LEMMA IndicesAre ==
  ASSUME NEW N \in Nat, Boarded(plan, N), NEW to, NEW i \in Indices(to)
  PROVE  i \in Nat
<1>1. CASE i = 0
  BY <1>1
<1>2. CASE i # 0
  <2>. PICK t \in TermsNamed(plan, to) : i = Len(t.cards)
    BY <1>2 DEF Indices
  <2>. PICK k \in 1 .. N : t = plan.terms[k]
    BY TermsAre DEF TermsNamed
  <2>1. CardsOK(t.cards)
    BY TermElim DEF Boarded
  <2>. QED
    BY <2>1, CardsElim
<1>. QED
  BY <1>1, <1>2

LEMMA RiceCardsAre ==
  ASSUME NEW N \in Nat, Boarded(plan, N), NEW e \in RiceCards
  PROVE  \E k \in 1 .. N : plan.terms[k].kind = "rice" /\ \E c \in ToSet(plan.terms[k].cards) : c.id = e
<1>. PICK tc \in OnTerms(plan, {"rice"}) : e = tc[2].id
  BY DEF RiceCards
<1>. PICK t \in ToSet(plan.terms) : t.kind = "rice" /\ tc \in {t} \X ToSet(t.cards)
  BY DEF OnTerms
<1>. PICK k \in 1 .. N : t = plan.terms[k]
  BY ONLY TermsAre, t \in ToSet(plan.terms), N \in Nat, Boarded(plan, N)
<1>. QED
  OBVIOUS

LEMMA HoursFit ==
  ASSUME NEW course
  PROVE  Hours(course) \in Credits
<1>1. 0 \in Credits
  BY MaxCentsAssumption DEF Credits
<1>2. Known(Facts, course) => MinHours(Info(Facts, course).credits) \in Credits
  BY TypedAssumption DEF Known, Info
<1>. QED
  BY <1>1, <1>2 DEF Hours

\* Each edit the page offers.
LEMMA DropKeeps == ASSUME NEW N \in Nat, Boarded(plan, N), Drop PROVE Keeps(plan, plan')
<1>. PICK e \in RiceCards, to \in Columns({"rice", "away"}) : \E i \in Indices(to) :
        CanMint(plan) /\ Edit(DropCard(plan, e, to, i, "study_abroad"))
  BY DEF Drop
<1>. PICK i \in Indices(to) : CanMint(plan) /\ Edit(DropCard(plan, e, to, i, "study_abroad"))
  OBVIOUS
<1>. PICK q : q = DropCard(plan, e, to, i, "study_abroad")
  OBVIOUS
<1>1. plan' = q
  BY DEF Edit
<1>2. PICK k \in 1 .. N : plan.terms[k].kind = "rice" /\ \E c \in ToSet(plan.terms[k].cards) : c.id = e
  BY RiceCardsAre
<1>3. Dropped(q, plan, N, e)
  <2>1. PICK c \in ToSet(plan.terms[k].cards) : e = c.id
    BY <1>2
  <2>2. i \in Nat /\ "study_abroad" # None
    BY IndicesAre, TypedAssumption
  <2>. QED
    BY <1>2, <2>1, <2>2, DropCardIs
<1>4. Fresh(plan) \notin EntriesOf(plan) /\ e \in EntriesOf(plan)
  <2>1. e \in Holds(plan.terms[k].cards)
    BY <1>2 DEF Holds
  <2>. QED
    BY <2>1, FreshIs, EntriesAre
<1>5. Ordered(q)
  BY <1>3, BoardedIntro DEF Dropped
<1>. QED
  BY <1>1, <1>3, <1>4, <1>5 DEF Keeps, Dropped

LEMMA DropFromTrayKeeps == ASSUME NEW N \in Nat, Boarded(plan, N), DropFromTray PROVE Keeps(plan, plan')
<1>. PICK c \in Tray, to \in Columns({"rice", "away"}) :
        CanMint(plan) /\ Edit(DropCourse(plan, Facts, c, Hours(c), Observed(c), <<>>, to, 0, "study_abroad"))
  BY DEF DropFromTray
<1>1. plan' = DropCourse(plan, Facts, c, Hours(c), Observed(c), <<>>, to, 0, "study_abroad")
  BY DEF Edit
<1>2. c # None /\ "study_abroad" # None /\ Hours(c) \in Credits /\ 0 \in Nat
  BY TypedAssumption, HoursFit
<1>3. Boarded(plan', N) /\ EntriesOf(plan) \subseteq EntriesOf(plan')
  BY <1>1, <1>2, DropCourseIs
<1>. QED
  BY <1>3, BoardedIntro DEF Keeps

LEMMA RemoveCardKeeps == ASSUME NEW N \in Nat, Boarded(plan, N), RemoveCard PROVE Keeps(plan, plan')
<1>. PICK e \in EntriesOf(plan) : plan' = WithoutEntry(plan, e)
  BY DEF RemoveCard, Edit
<1>1. Boarded(plan', N)
  BY WithoutEntryIs
<1>. QED
  BY <1>1, BoardedIntro DEF Keeps

LEMMA MarksKeep ==
  ASSUME NEW N \in Nat, Boarded(plan, N),
         DropOnRequirement \/ ChangeHours \/ EditManual \/ MatchAgain \/ Claim \/ Tick \/ Untick
  PROVE  Keeps(plan, plan')
<1>1. CASE DropOnRequirement
  <2>. PICK e, p, r : plan' = SetFills(plan, e, p, r)
    BY <1>1 DEF DropOnRequirement, Edit
  <2>. QED
    BY SetFillsIs, KeepsSame
<1>2. CASE ChangeHours
  <2>. PICK e \in EntriesOf(plan), h \in HoursTyped : plan' = SetCredits(plan, e, h)
    BY <1>2 DEF ChangeHours, Edit
  <2>. h \in Credits
    BY TypedAssumption
  <2>. QED
    BY SetCreditsIs, KeepsSame
<1>3. CASE EditManual
  <2>. PICK e, o, c, s : plan' = EditManualCard(plan, e, o, c, s) /\ o # None
    BY <1>3, TypedAssumption DEF EditManual, Edit
  <2>. QED
    BY EditManualCardIs, KeepsSame
<1>4. CASE MatchAgain
  <2>. PICK e, p : plan' = ClearFill(plan, e, p)
    BY <1>4 DEF MatchAgain, Edit
  <2>. QED
    BY ClearFillIs, KeepsSame
<1>5. CASE Claim
  <2>. PICK e, p, r : plan' = SetFillClaim(SetFills(plan, e, p, r), e, r)
    BY <1>5 DEF Claim, Edit
  <2>. PICK q : q = SetFills(plan, e, p, r)
    OBVIOUS
  <2>1. Boarded(q, N) /\ EntriesOf(q) = EntriesOf(plan)
    BY SetFillsIs
  <2>2. Boarded(plan', N) /\ EntriesOf(plan') = EntriesOf(plan)
    BY <2>1, SetFillClaimIs
  <2>. QED
    BY <2>2, KeepsSame
<1>6. CASE Tick
  <2>. PICK r : plan' = ConfirmSelfCheck(plan, r)
    BY <1>6 DEF Tick, Edit
  <2>. QED
    BY SelfChecksAre, KeepsSame
<1>7. CASE Untick
  <2>. PICK r : plan' = ClearSelfCheck(plan, r)
    BY <1>7 DEF Untick, Edit
  <2>. QED
    BY SelfChecksAre, KeepsSame
<1>. QED
  BY <1>1, <1>2, <1>3, <1>4, <1>5, <1>6, <1>7

LEMMA MoveManualKeeps == ASSUME NEW N \in Nat, Boarded(plan, N), MoveManual PROVE Keeps(plan, plan')
<1>. PICK e \in ManualCards, to \in Columns({"away"}) \cup {Incoming} : plan' = MoveManualCard(plan, e, to)
  BY DEF MoveManual, Edit
<1>1. to = Incoming \/ Takes(plan, N, "away", to)
  BY ColumnsAre
<1>. QED
  BY <1>1, MoveManualCardIs, KeepsSame

LEMMA ColumnsKeep ==
  ASSUME NEW N \in Nat, Boarded(plan, N),
         ChangeTerm \/ AddAfter \/ AddAt \/ RemoveColumn \/ ChangeYear \/ ChangePrograms
  PROVE  Keeps(plan, plan')
<1>1. CASE ChangeTerm
  <2>. PICK t \in Columns(TermKinds), k \in TermKinds : plan' = SetTerm(plan, t, k, "study_abroad")
    BY <1>1 DEF ChangeTerm, Edit
  <2>. QED
    BY TypedAssumption, SetTermIs, KeepsSame
<1>2. CASE AddAfter
  <2>. PICK t \in Columns(TermKinds) : plan' = AddTermAfter(plan, t)
    BY <1>2 DEF AddAfter, Edit
  <2>1. t \in Nat
    BY ColumnsAre
  <2>. QED
    BY <2>1, AddTermAfterIs, KeepsSame
<1>3. CASE AddAt
  <2>. PICK q \in OpenPositions(plan) : plan' = AddTermAt(plan, q)
    BY <1>3 DEF AddAt, Edit
  <2>1. q \in Nat
    BY OpeningsAre
  <2>. QED
    BY <2>1, AddTermAtIs, KeepsSame
<1>4. CASE RemoveColumn
  <2>. PICK t : plan' = RemoveTerm(plan, t)
    BY <1>4 DEF RemoveColumn, Edit
  <2>. QED
    BY RemoveTermIs, KeepsSame
<1>5. CASE ChangeYear
  <2>. PICK y : plan' = SetCatalogYear(plan, y)
    BY <1>5 DEF ChangeYear, Edit
  <2>. QED
    BY SetCatalogYearIs, KeepsSame
<1>6. CASE ChangePrograms
  <2>. PICK programs : plan' = SetPrograms(plan, programs, Majors, Programs)
    BY <1>6 DEF ChangePrograms, Edit
  <2>. QED
    BY SetProgramsIs, KeepsSame
<1>. QED
  BY <1>1, <1>2, <1>3, <1>4, <1>5, <1>6

-----------------------------------------------------------------------------
(* The programs chosen stay a list: only their menu touches it.             *)

Beside(q, p) == "programs" \in DOMAIN q /\ q.programs = p.programs

LEMMA HelpersBeside ==
  ASSUME NEW p, "programs" \in DOMAIN p
  PROVE  /\ \A e : Beside(WithoutEntry(p, e), p)
         /\ \A to, index, card : Beside(InsertCourse(p, to, index, card), p)
         /\ \A to, card : Beside(InsertManualCard(p, to, card), p)
<1>1. ASSUME NEW e PROVE Beside(WithoutEntry(p, e), p)
  BY DEF WithoutEntry, MapTerms, Beside
<1>2. ASSUME NEW to, NEW index, NEW card PROVE Beside(InsertCourse(p, to, index, card), p)
  BY DEF InsertCourse, MapTerms, Beside
<1>3. ASSUME NEW to, NEW card PROVE Beside(InsertManualCard(p, to, card), p)
  BY DEF InsertManualCard, MapTerms, Beside
<1>. QED
  BY <1>1, <1>2, <1>3

LEMMA MovesBeside ==
  ASSUME NEW p, "programs" \in DOMAIN p
  PROVE  /\ \A e, to, index : Beside(MoveCourse(p, e, to, index), p)
         /\ \A e, to : Beside(MoveManualCard(p, e, to), p)
         /\ \A e, to, index, origin : Beside(DropCard(p, e, to, index, origin), p)
         /\ \A facts, course, credits, observed, fills, to, index, origin :
               Beside(DropCourse(p, facts, course, credits, observed, fills, to, index, origin), p)
<1>1. ASSUME NEW e PROVE "programs" \in DOMAIN WithoutEntry(p, e) /\ WithoutEntry(p, e).programs = p.programs
  BY HelpersBeside DEF Beside
<1>2. ASSUME NEW e, NEW to, NEW index PROVE Beside(MoveCourse(p, e, to, index), p)
  <2>. PICK card : card = (CHOOSE l \in Located(p, e) : TRUE).card
    OBVIOUS
  <2>. PICK q : q = WithoutEntry(p, e)
    OBVIOUS
  <2>1. Beside(InsertCourse(q, to, index, card), q)
    BY <1>1, HelpersBeside
  <2>2. Beside(InsertCourse(q, to, index, card), p)
    BY <1>1, <2>1 DEF Beside
  <2>. QED
    BY <2>2 DEF MoveCourse, Beside
<1>3. ASSUME NEW e, NEW to, NEW card PROVE Beside(InsertManualCard(WithoutEntry(p, e), to, card), p)
  <2>. PICK q : q = WithoutEntry(p, e)
    OBVIOUS
  <2>1. Beside(InsertManualCard(q, to, card), q)
    BY <1>1, HelpersBeside
  <2>. QED
    BY <1>1, <2>1 DEF Beside
<1>4. ASSUME NEW e, NEW to PROVE Beside(MoveManualCard(p, e, to), p)
  BY <1>3 DEF MoveManualCard, Beside
<1>5. ASSUME NEW e, NEW to, NEW index, NEW origin PROVE Beside(DropCard(p, e, to, index, origin), p)
  BY <1>2, <1>3 DEF DropCard, Beside
<1>6. ASSUME NEW facts, NEW course, NEW credits, NEW observed, NEW fills, NEW to, NEW index, NEW origin
      PROVE  Beside(DropCourse(p, facts, course, credits, observed, fills, to, index, origin), p)
  <2>1. \A i, card : Beside(InsertCourse(p, to, i, card), p) /\ Beside(InsertManualCard(p, to, card), p)
    BY HelpersBeside
  <2>. QED
    BY <2>1 DEF DropCourse, Beside
<1>. QED
  BY <1>2, <1>4, <1>5, <1>6

LEMMA MarksBeside ==
  ASSUME NEW p, "programs" \in DOMAIN p
  PROVE  /\ \A e, program, rule : Beside(SetFills(p, e, program, rule), p)
         /\ \A e, program, rule : Beside(SetFillClaim(SetFills(p, e, program, rule), e, rule), p)
         /\ \A e, program : Beside(ClearFill(p, e, program), p)
         /\ \A e, credits : Beside(SetCredits(p, e, credits), p)
         /\ \A e, origin, course, source : Beside(EditManualCard(p, e, origin, course, source), p)
         /\ \A rule : Beside(ConfirmSelfCheck(p, rule), p) /\ Beside(ClearSelfCheck(p, rule), p)
<1>1. ASSUME NEW e, NEW program, NEW rule PROVE Beside(SetFills(p, e, program, rule), p)
  BY DEF SetFills, MapEntry, MapCards, MapTerms, Beside
<1>2. ASSUME NEW q, Beside(q, p), NEW e, NEW rule PROVE Beside(SetFillClaim(q, e, rule), p)
  BY <1>2 DEF SetFillClaim, MapEntry, MapCards, MapTerms, Beside
<1>3. ASSUME NEW e, NEW program PROVE Beside(ClearFill(p, e, program), p)
  BY DEF ClearFill, MapEntry, MapCards, MapTerms, Beside
<1>4. ASSUME NEW e, NEW credits PROVE Beside(SetCredits(p, e, credits), p)
  BY DEF SetCredits, MapEntry, MapCards, MapTerms, Beside
<1>5. ASSUME NEW e, NEW origin, NEW course, NEW source PROVE Beside(EditManualCard(p, e, origin, course, source), p)
  BY DEF EditManualCard, MapEntry, MapCards, MapTerms, Beside
<1>6. ASSUME NEW rule PROVE Beside(ConfirmSelfCheck(p, rule), p) /\ Beside(ClearSelfCheck(p, rule), p)
  BY DEF ConfirmSelfCheck, ClearSelfCheck, Beside
<1>. QED
  BY <1>1, <1>2, <1>3, <1>4, <1>5, <1>6

LEMMA ColumnsBeside ==
  ASSUME NEW p, "programs" \in DOMAIN p
  PROVE  /\ \A t, kind, origin : Beside(SetTerm(p, t, kind, origin), p)
         /\ \A t : Beside(AddTermAfter(p, t), p) /\ Beside(AddTermAt(p, t), p) /\ Beside(RemoveTerm(p, t), p)
         /\ \A year : Beside(SetCatalogYear(p, year), p)
<1>1. ASSUME NEW t, NEW kind, NEW origin PROVE Beside(SetTerm(p, t, kind, origin), p)
  BY DEF SetTerm, MapTerms, Beside
<1>2. ASSUME NEW t PROVE Beside(AddTermAt(p, t), p)
  BY DEF AddTermAt, Beside
<1>3. ASSUME NEW t PROVE Beside(AddTermAfter(p, t), p)
  BY <1>2 DEF AddTermAfter, Beside
<1>4. ASSUME NEW t PROVE Beside(RemoveTerm(p, t), p)
  BY DEF RemoveTerm, Beside
<1>5. ASSUME NEW year PROVE Beside(SetCatalogYear(p, year), p)
  BY DEF SetCatalogYear, Beside
<1>. QED
  BY <1>1, <1>2, <1>3, <1>4, <1>5

\* Choosing and leaving programs.
LEMMA ListHolds ==
  ASSUME NEW list, SidebarOK([programs |-> list])
  PROVE  /\ \A x : SidebarOK([programs |-> Append(list, x)])
         /\ \A P \in SUBSET DOMAIN list : SidebarOK([programs |-> Chosen(list, P)])
<1>. PICK S : S = ToSet(list)
  OBVIOUS
<1>1. list \in Seq(S)
  BY DEF SidebarOK
<1>. PICK n \in Nat : n = Len(list) /\ DOMAIN list = 1 .. n
  BY <1>1
<1>2. ASSUME NEW m \in Nat, NEW new, new = [k \in 1 .. m |-> new[k]] PROVE SidebarOK([programs |-> new])
  <2>1. \A k \in 1 .. m : new[k] \in ToSet(new)
    <3>1. DOMAIN new = 1 .. m
      BY <1>2
    <3>. QED
      BY <3>1 DEF ToSet
  <2>. PICK T : T = ToSet(new)
    OBVIOUS
  <2>2. new \in Seq(T)
    BY ONLY <1>2, <2>1, T = ToSet(new), m \in Nat, ListOf
  <2>. QED
    BY <2>2 DEF SidebarOK
<1>3. ASSUME NEW x PROVE SidebarOK([programs |-> Append(list, x)])
  <2>1. list = [k \in 1 .. n |-> list[k]]
    BY <1>1
  <2>. PICK T : T = S \cup {x}
    OBVIOUS
  <2>2. list \in Seq(T)
    <3>1. \A k \in 1 .. n : list[k] \in T
      BY <1>1
    <3>. QED
      BY ONLY <2>1, <3>1, n \in Nat, ListOf
  <2>. PICK new : new = Append(list, x)
    OBVIOUS
  <2>3. new \in Seq(T)
    BY <2>2
  <2>4. Len(new) \in Nat /\ new = [k \in 1 .. Len(new) |-> new[k]]
    BY ONLY <2>3
  <2>. QED
    BY <1>2, <2>4
<1>4. ASSUME NEW P \in SUBSET (1 .. n) PROVE SidebarOK([programs |-> Chosen(list, P)])
  <2>. PICK new : new = Chosen(list, P)
    OBVIOUS
  <2>1. Gathers(new, list, P)
    BY ChosenIs
  <2>2. \E m \in Nat : new = [k \in 1 .. m |-> new[k]]
    BY <2>1 DEF Gathers
  <2>. QED
    BY <1>2, <2>2
<1>. QED
  BY <1>3, <1>4

LEMMA StepListed ==
  ASSUME Ordered(plan), SidebarOK(plan), Next
  PROVE  SidebarOK(plan')
<1>1. "programs" \in DOMAIN plan
  BY DEF Ordered, PlanOK, Plan
<1>2. CASE Recompute
  BY <1>2 DEF Recompute
<1>3. CASE Beside(plan', plan)
  BY <1>3 DEF Beside, SidebarOK
<1>4. CASE Drop \/ DropFromTray \/ MoveManual \/ RemoveCard
  <2>1. Beside(plan', plan)
    BY <1>1, <1>4, MovesBeside, HelpersBeside DEF Drop, DropFromTray, MoveManual, RemoveCard, Edit
  <2>. QED
    BY <1>3, <2>1
<1>5. CASE DropOnRequirement \/ ChangeHours \/ EditManual \/ MatchAgain \/ Claim \/ Tick \/ Untick
  <2>1. Beside(plan', plan)
    BY <1>1, <1>5, MarksBeside DEF DropOnRequirement, ChangeHours, EditManual, MatchAgain, Claim, Tick, Untick, Edit
  <2>. QED
    BY <1>3, <2>1
<1>6. CASE ChangeTerm \/ AddAfter \/ AddAt \/ RemoveColumn \/ ChangeYear
  <2>1. Beside(plan', plan)
    BY <1>1, <1>6, ColumnsBeside DEF ChangeTerm, AddAfter, AddAt, RemoveColumn, ChangeYear, Edit
  <2>. QED
    BY <1>3, <2>1
<1>7. CASE ChangePrograms
  <2>. PICK list : list = plan.programs
    OBVIOUS
  <2>. PICK p, programs :
         /\ programs = IF p \in ToSet(list) THEN Chosen(list, {k \in DOMAIN list : list[k] # p}) ELSE Append(list, p)
         /\ plan' = SetPrograms(plan, programs, Majors, Programs)
    BY <1>7 DEF ChangePrograms, Edit
  <2>1. SidebarOK([programs |-> list])
    BY DEF SidebarOK
  <2>2. SidebarOK([programs |-> programs])
    <3>. PICK P \in SUBSET DOMAIN list : P = {k \in DOMAIN list : list[k] # p}
      OBVIOUS
    <3>. QED
      BY <2>1, ListHolds
  <2>3. plan'.programs \in {programs, plan.programs}
    BY <1>1 DEF SetPrograms, MapCards, MapTerms
  <2>. QED
    BY <2>2, <2>3 DEF SidebarOK
<1>. QED
  BY <1>2, <1>4, <1>5, <1>6, <1>7 DEF Next

\* Every step leaves the plan alone or keeps the board.
LEMMA StepKeeps ==
  ASSUME Ordered(plan), Next
  PROVE  UNCHANGED <<plan, edits>> \/ (Keeps(plan, plan') /\ edits < MaxEdits /\ edits' = edits + 1)
<1>. PICK N \in Nat : Boarded(plan, N)
  BY BoardedElim
<1>1. CASE Recompute
  BY <1>1 DEF Recompute
<1>2. CASE ~Recompute
  <2>1. edits < MaxEdits /\ edits' = edits + 1
    BY <1>2 DEF Next, Drop, DropFromTray, RemoveCard, DropOnRequirement, MoveManual, ChangeHours, EditManual,
                MatchAgain, Claim, Tick, Untick, ChangeTerm, AddAfter, AddAt, RemoveColumn, ChangeYear,
                ChangePrograms, Edit
  <2>2. Keeps(plan, plan')
    BY <1>2, DropKeeps, DropFromTrayKeeps, RemoveCardKeeps, MarksKeep, MoveManualKeeps, ColumnsKeep DEF Next
  <2>. QED
    BY <2>1, <2>2
<1>. QED
  BY <1>1, <1>2

\* The columns stay in board order, one per position, an Off column holds no
\* card, an away column only cards with an origin and a Rice column none of
\* them, and no card sits in two places, whatever the student does.
THEOREM BoardStaysOrdered == Spec => []BoardIsOrdered
<1>. DEFINE Inv == Ordered(plan) /\ SidebarOK(plan) /\ edits \in 0 .. MaxEdits
<1>1. Init => Inv
  BY BoardsAssumption, MaxEditsAssumption DEF Init
<1>2. Inv /\ [Next]_vars => Inv'
  <2>1. CASE UNCHANGED vars
    BY <2>1 DEF vars, Ordered, PlanOK, InBoardOrder, NoCardTwice, TermOK, CardsOK, CardOK, SidebarOK
  <2>2. ASSUME Inv, Next PROVE Inv'
    <3>1. UNCHANGED <<plan, edits>> \/ (Keeps(plan, plan') /\ edits < MaxEdits /\ edits' = edits + 1)
      BY <2>2, StepKeeps
    <3>2. SidebarOK(plan')
      BY <2>2, StepListed
    <3>3. CASE UNCHANGED <<plan, edits>>
      BY <2>2, <3>3
    <3>4. CASE Keeps(plan, plan') /\ edits < MaxEdits /\ edits' = edits + 1
      BY <2>2, <3>2, <3>4, MaxEditsAssumption DEF Keeps
    <3>. QED
      BY <3>1, <3>3, <3>4
  <2>. QED
    BY <2>1, <2>2
<1>3. Inv => BoardIsOrdered
  BY DEF Ordered, BoardIsOrdered, TypeOK
<1>. QED
  BY <1>1, <1>2, <1>3, PTL DEF Spec

\* No edit loses a card except taking that one card off: moving, converting a
\* column, changing programs or years all keep every card on the board.
THEOREM CardsDoNotVanish == Spec => NoCardVanishes
<1>1. BoardIsOrdered => Ordered(plan)
  BY DEF Ordered, BoardIsOrdered, TypeOK
<1>. DEFINE Kept == \/ Cardinality(EntriesOf(plan')) >= Cardinality(EntriesOf(plan))
                    \/ \E e \in EntriesOf(plan) : plan' = WithoutEntry(plan, e)
<1>2. BoardIsOrdered /\ [Next]_vars => [Kept]_vars
  <2>1. SUFFICES ASSUME BoardIsOrdered, Next PROVE Kept \/ UNCHANGED vars
    OBVIOUS
  <2>. PICK N \in Nat : Boarded(plan, N)
    BY <1>1, <2>1, BoardedElim
  <2>2. CASE Keeps(plan, plan')
    BY <2>2, KeepsIs
  <2>3. CASE plan' = plan
    <3>1. Cardinality(EntriesOf(plan)) \in Nat
      BY EntriesFinite, FS_CardinalityType
    <3>. PICK n \in Nat : n = Cardinality(EntriesOf(plan))
      BY <3>1
    <3>2. Cardinality(EntriesOf(plan')) = n
      BY <2>3
    <3>. QED
      BY <3>2
  <2>. QED
    BY <1>1, <2>1, <2>2, <2>3, StepKeeps
<1>. QED
  BY <1>2, BoardStaysOrdered, PTL DEF Spec, NoCardVanishes

-----------------------------------------------------------------------------
(* Exclusions.  A card that counts has a place, the earliest; of the rows   *)
(* that say the same pair the first is told.                                *)

\* Of some of the first numbers one is the least.
LEMMA LeastIs ==
  ASSUME NEW n \in Nat, NEW S \in SUBSET (1 .. n), S # {}
  PROVE  \E k \in S : \A j \in 1 .. (k - 1) : j \notin S
<1>. DEFINE T == {m \in 0 .. n : (\E j \in 1 .. m : j \in S) => \E k \in S : \A j \in 1 .. (k - 1) : j \notin S}
<1>1. 0 \in T
  OBVIOUS
<1>2. ASSUME NEW m \in 0 .. n, m < n, m \in T PROVE m + 1 \in T
  <2>1. CASE \E j \in 1 .. m : j \in S
    BY <1>2, <2>1
  <2>2. CASE m + 1 \in S /\ \A j \in 1 .. m : j \notin S
    <3>1. \A j \in 1 .. ((m + 1) - 1) : j \notin S
      BY <2>2
    <3>. QED
      BY <1>2, <2>2, <3>1
  <2>3. CASE \A j \in 1 .. (m + 1) : j \notin S
    BY <1>2, <2>3
  <2>. QED
    BY <2>1, <2>2, <2>3
<1>3. n \in T
  <2>. HIDE DEF T
  <2>. QED
    BY <1>1, <1>2, UpTo
<1>. QED
  BY <1>3

\* What is placed: a row with its position, of incoming credit or a column.
PlacedRow(r) == r.when \in Int /\ r.when >= Incoming /\ r.when = (IF r.term = None THEN Incoming ELSE r.term)
PlacedCards(cards, when, term, facts, skip) ==
    LET kept == Chosen(cards, {i \in DOMAIN cards : cards[i].course # None /\ cards[i].id # skip})
    IN  [i \in DOMAIN kept |-> [code |-> Canonical(facts, kept[i].course), when |-> when, term |-> term,
                                entry |-> kept[i].id]]
LEMMA PlacedCardsAre ==
  ASSUME NEW cards, CardsOK(cards), NEW facts, NEW skip, NEW when, NEW term,
         NEW rows, rows = PlacedCards(cards, when, term, facts, skip)
  PROVE  rows \in Seq(ToSet(rows)) /\ \A r \in ToSet(rows) : r.when = when /\ r.term = term
<1>. PICK places : places = {i \in DOMAIN cards : cards[i].course # None /\ cards[i].id # skip}
  OBVIOUS
<1>. PICK kept : kept = Chosen(cards, places)
  OBVIOUS
<1>1. CardsOK(kept)
  BY KeptIs
<1>. PICK k \in Nat : k = Len(kept) /\ DOMAIN kept = 1 .. k
  BY <1>1, CardsElim
<1>2. rows = [i \in 1 .. k |-> [code |-> Canonical(facts, kept[i].course), when |-> when, term |-> term,
                                entry |-> kept[i].id]]
  BY DEF PlacedCards
<1>3. rows = [i \in 1 .. k |-> rows[i]] /\ \A i \in 1 .. k : rows[i].when = when /\ rows[i].term = term
  BY ONLY <1>2
<1>4. \A i \in 1 .. k : rows[i] \in ToSet(rows)
  BY <1>3 DEF ToSet
<1>5. \A r \in ToSet(rows) : \E i \in 1 .. k : r = rows[i]
  BY <1>3 DEF ToSet
<1>6. rows \in Seq(ToSet(rows))
  BY ONLY <1>3, <1>4, ListOf, k \in Nat
<1>. QED
  BY ONLY <1>3, <1>5, <1>6

LEMMA PlacedAre ==
  ASSUME NEW p, Ordered(p), NEW facts, NEW skip
  PROVE  \E S : Placed(p, facts, skip) \in Seq(S) /\ \A r \in S : PlacedRow(r)
<1>. PICK N \in Nat : Boarded(p, N)
  BY BoardedElim
<1>. PICK first : first = PlacedCards(p.incoming, Incoming, None, facts, skip)
  OBVIOUS
<1>. PICK rest : rest = [k \in 1 .. N |-> PlacedCards(p.terms[k].cards, p.terms[k].id, p.terms[k].id, facts, skip)]
  OBVIOUS
<1>1. Placed(p, facts, skip) = first \o FlattenSeq(rest)
  <2>1. DOMAIN p.terms = 1 .. N
    BY DEF Boarded
  <2>. QED
    BY <2>1 DEF Placed, PlacedCards
<1>. PICK S : S = {r \in ToSet(first) \cup UNION {ToSet(rest[k]) : k \in 1 .. N} : PlacedRow(r)}
  OBVIOUS
<1>2. first \in Seq(S)
  <2>1. first \in Seq(ToSet(first)) /\ \A r \in ToSet(first) : r.when = Incoming /\ r.term = None
    <3>1. CardsOK(p.incoming)
      BY DEF Boarded
    <3>. QED
      BY <3>1, PlacedCardsAre
  <2>2. \A r \in ToSet(first) : PlacedRow(r)
    BY <2>1 DEF PlacedRow, Incoming
  <2>3. ToSet(first) \subseteq S
    BY <2>2
  <2>. QED
    BY <2>1, <2>3
<1>3. ASSUME NEW k \in 1 .. N PROVE rest[k] \in Seq(S)
  <2>1. CardsOK(p.terms[k].cards) /\ p.terms[k].id \in Nat
    BY DEF Boarded, TermOK
  <2>. PICK rows : rows = rest[k]
    OBVIOUS
  <2>2. rows = PlacedCards(p.terms[k].cards, p.terms[k].id, p.terms[k].id, facts, skip)
    OBVIOUS
  <2>3. rows \in Seq(ToSet(rows)) /\ \A r \in ToSet(rows) : r.when = p.terms[k].id /\ r.term = p.terms[k].id
    BY <2>1, <2>2, PlacedCardsAre
  <2>4. \A r \in ToSet(rows) : PlacedRow(r)
    BY ONLY <2>1, <2>3, CatalogAssumption DEF PlacedRow, Incoming
  <2>5. ToSet(rows) \subseteq S
    BY <2>4
  <2>. QED
    BY <2>3, <2>5
<1>4. FlattenSeq(rest) \in Seq(S)
  <2>1. rest \in [1 .. N -> Seq(S)]
    BY <1>3
  <2>. QED
    BY <2>1, Flattened
<1>5. first \o FlattenSeq(rest) \in Seq(S)
  BY ONLY <1>2, <1>4
<1>6. \A r \in S : PlacedRow(r)
  OBVIOUS
<1>. QED
  BY ONLY <1>1, <1>5, <1>6

\* Of some places in a list the one with the earliest position, the first of
\* those.
LEMMA EarliestIs ==
  ASSUME NEW n \in Nat, NEW I \in SUBSET (1 .. n), I # {}, NEW when \in [1 .. n -> Int]
  PROVE  \E i \in I : \A j \in I : when[i] < when[j] \/ (when[i] = when[j] /\ i <= j)
<1>. DEFINE ahead == [i \in I |-> {j \in I : when[j] < when[i] \/ (when[j] = when[i] /\ j < i)}]
<1>1. IsFiniteSet(I) /\ Cardinality(I) \in Nat \ {0}
  <2>1. IsFiniteSet(1 .. n)
    BY FS_Interval
  <2>2. IsFiniteSet(I)
    BY <2>1, FS_Subset
  <2>. QED
    BY <2>2, FS_EmptySet, FS_CardinalityType
<1>2. \A i \in I : when[i] \in Int /\ i \in Nat
  OBVIOUS
<1>3. /\ ahead \in [I -> SUBSET I] /\ \A c \in I : c \notin ahead[c]
      /\ \A c, d \in I : c # d => c \in ahead[d] \/ d \in ahead[c]
  BY <1>2
<1>4. ASSUME NEW c \in I, NEW d \in I, c \in ahead[d], NEW e \in ahead[c] PROVE e \in ahead[d]
  BY <1>2, <1>4
<1>5. \A m \in 1 .. Cardinality(I) : \E i \in I : Cardinality(ahead[i]) = m - 1
  <2>1. \A c, d \in I : c \in ahead[d] => ahead[c] \subseteq ahead[d]
    BY <1>4
  <2>. HIDE DEF ahead
  <2>. QED
    BY <1>1, <1>3, <2>1, RanksFill
<1>6. PICK i \in I : Cardinality(ahead[i]) = 0
  <2>. HIDE DEF ahead
  <2>1. 1 \in 1 .. Cardinality(I)
    BY <1>1
  <2>. QED
    BY <1>5, <2>1
<1>7. ahead[i] = {}
  <2>1. IsFiniteSet(ahead[i])
    BY <1>1, <1>3, FS_Subset
  <2>. QED
    BY <1>6, <2>1, FS_EmptySet
<1>8. ASSUME NEW j \in I PROVE when[i] < when[j] \/ (when[i] = when[j] /\ i <= j)
  <2>1. ~(when[j] < when[i] \/ (when[j] = when[i] /\ j < i))
    BY <1>7
  <2>2. when[i] \in Int /\ when[j] \in Int /\ i \in Nat /\ j \in Nat
    BY <1>2
  <2>. QED
    BY ONLY <2>1, <2>2
<1>. QED
  BY <1>8

Earliest(rows, c, i) ==
    /\ rows[i].code = c
    /\ \A j \in DOMAIN rows : rows[j].code = c =>
         rows[i].when < rows[j].when \/ (rows[i].when = rows[j].when /\ i <= j)
LEMMA TakenIs ==
  ASSUME NEW p, Ordered(p), NEW facts, NEW skip, NEW c \in DOMAIN Taken(p, facts, skip)
  PROVE  PlacedRow(Taken(p, facts, skip)[c])
<1>. PICK rows : rows = Placed(p, facts, skip)
  OBVIOUS
<1>1. PICK S : rows \in Seq(S) /\ \A r \in S : PlacedRow(r)
  BY PlacedAre
<1>. PICK n \in Nat : n = Len(rows) /\ DOMAIN rows = 1 .. n /\ \A i \in 1 .. n : rows[i] \in S
  BY <1>1
<1>2. \A i \in 1 .. n : PlacedRow(rows[i])
  BY <1>1
<1>3. DOMAIN Taken(p, facts, skip) = {rows[i].code : i \in 1 .. n}
  BY DEF Taken
<1>4. Taken(p, facts, skip)[c] = rows[CHOOSE i \in 1 .. n : Earliest(rows, c, i)]
  BY <1>3 DEF Taken, Earliest
<1>5. \E i \in 1 .. n : Earliest(rows, c, i)
  <2>. PICK when : when = [i \in 1 .. n |-> rows[i].when]
    OBVIOUS
  <2>. PICK I : I = {i \in 1 .. n : rows[i].code = c}
    OBVIOUS
  <2>1. I # {} /\ I \in SUBSET (1 .. n)
    BY <1>3
  <2>2. when \in [1 .. n -> Int]
    <3>1. \A i \in 1 .. n : rows[i].when \in Int
      BY <1>2 DEF PlacedRow
    <3>. QED
      BY ONLY <3>1, when = [i \in 1 .. n |-> rows[i].when]
  <2>3. PICK i \in I : \A j \in I : when[i] < when[j] \/ (when[i] = when[j] /\ i <= j)
    BY ONLY <2>1, <2>2, EarliestIs, n \in Nat
  <2>. QED
    BY <2>3 DEF Earliest
<1>. QED
  BY <1>2, <1>4, <1>5

\* The warning of a row names its two courses, the earlier as the blocker.
PairOf(row) == {Canonical(Facts, row.blocked), Canonical(Facts, row.blocker)}
Blocks(taken, row) ==
    LET a == taken[Canonical(Facts, row.blocked)]
        b == taken[Canonical(Facts, row.blocker)]
    IN  IF b.when <= a.when
        THEN [blocked |-> row.blocked, blockedTerm |-> a.term, blocker |-> row.blocker, blockerTerm |-> b.term]
        ELSE [blocked |-> row.blocker, blockedTerm |-> b.term, blocker |-> row.blocked, blockerTerm |-> a.term]
LEMMA BlocksIs ==
  ASSUME NEW taken, \A c \in DOMAIN taken : PlacedRow(taken[c]), NEW row, PairOf(row) \subseteq DOMAIN taken,
         NEW w, w = W("mutually_exclusive", Blocks(taken, row))
  PROVE  {Canonical(Facts, w.body.blocked), Canonical(Facts, w.body.blocker)} = PairOf(row) /\ FairOrder(w)
<1>. PICK a : a = taken[Canonical(Facts, row.blocked)]
  OBVIOUS
<1>. PICK b : b = taken[Canonical(Facts, row.blocker)]
  OBVIOUS
<1>1. PlacedRow(a) /\ PlacedRow(b)
  BY DEF PairOf
<1>2. w.body = Blocks(taken, row)
  BY DEF W
<1>3. CASE b.when <= a.when
  <2>1. /\ w.body.blocked = row.blocked /\ w.body.blockedTerm = a.term
        /\ w.body.blocker = row.blocker /\ w.body.blockerTerm = b.term
    BY <1>2, <1>3 DEF Blocks
  <2>2. FairOrder(w)
    BY ONLY <1>1, <1>3, <2>1 DEF FairOrder, PlacedRow
  <2>. QED
    BY <2>1, <2>2 DEF PairOf
<1>4. CASE ~(b.when <= a.when)
  <2>1. /\ w.body.blocked = row.blocker /\ w.body.blockedTerm = b.term
        /\ w.body.blocker = row.blocked /\ w.body.blockerTerm = a.term
    BY <1>2, <1>4 DEF Blocks
  <2>2. FairOrder(w)
    BY ONLY <1>1, <1>4, <2>1 DEF FairOrder, PlacedRow
  <2>. QED
    BY <2>1, <2>2 DEF PairOf
<1>. QED
  BY <1>3, <1>4

\* The pairs the rows say of courses on the board.
PairsHeld(rows, taken) == {PairOf(rows[k]) : k \in {j \in DOMAIN rows : PairOf(rows[j]) \subseteq DOMAIN taken}}
FirstHeld(rows, taken) == {j \in DOMAIN rows : /\ PairOf(rows[j]) \subseteq DOMAIN taken
                                               /\ \A i \in 1 .. (j - 1) : PairOf(rows[i]) # PairOf(rows[j])}
LEMMA ToldAre ==
  ASSUME NEW p, Ordered(p), NEW rows, NEW n \in Nat, DOMAIN rows = 1 .. n,
         NEW told, told = ExclusionProblems(p, rows, Facts)
  PROVE  /\ PairsTold(told) = PairsHeld(rows, Taken(p, Facts, None))
         /\ Cardinality(told) = Cardinality(PairsTold(told)) /\ \A w \in told : FairOrder(w)
<1>. PICK taken : taken = Taken(p, Facts, None)
  OBVIOUS
<1>. PICK F : F = FirstHeld(rows, taken)
  OBVIOUS
<1>. PICK warn : warn = [k \in F |-> W("mutually_exclusive", Blocks(taken, rows[k]))]
  OBVIOUS
<1>1. told = {warn[k] : k \in F}
  BY DEF ExclusionProblems, FirstHeld, PairOf, Blocks
<1>. PICK pair : pair = [w \in told |-> {Canonical(Facts, w.body.blocked), Canonical(Facts, w.body.blocker)}]
  OBVIOUS
<1>2. PairsTold(told) = {pair[w] : w \in told}
  BY DEF PairsTold
<1>3. \A c \in DOMAIN taken : PlacedRow(taken[c])
  BY TakenIs
<1>4. ASSUME NEW k \in F PROVE warn[k] \in told /\ pair[warn[k]] = PairOf(rows[k]) /\ FairOrder(warn[k])
  <2>1. warn[k] \in told /\ PairOf(rows[k]) \subseteq DOMAIN taken
    BY <1>1 DEF FirstHeld
  <2>. PICK w \in told : w = warn[k]
    BY <2>1
  <2>2. w = W("mutually_exclusive", Blocks(taken, rows[k]))
    OBVIOUS
  <2>3. {Canonical(Facts, w.body.blocked), Canonical(Facts, w.body.blocker)} = PairOf(rows[k]) /\ FairOrder(w)
    BY <1>3, <2>1, <2>2, BlocksIs
  <2>. QED
    BY <2>3
<1>5. \A k, m \in F : PairOf(rows[k]) = PairOf(rows[m]) => k = m
  <2>1. SUFFICES ASSUME NEW k \in F, NEW m \in F, PairOf(rows[k]) = PairOf(rows[m]), k # m PROVE FALSE
    OBVIOUS
  <2>2. k \in 1 .. n /\ m \in 1 .. n
    BY DEF FirstHeld
  <2>3. k \in 1 .. (m - 1) \/ m \in 1 .. (k - 1)
    BY <2>1, <2>2
  <2>. QED
    BY <2>1, <2>3 DEF FirstHeld
<1>6. PairsTold(told) = PairsHeld(rows, taken)
  <2>1. \A x : x \in PairsTold(told) <=> x \in {PairOf(rows[k]) : k \in F}
    <3>1. \A k \in F : pair[warn[k]] = PairOf(rows[k])
      BY <1>4
    <3>. QED
      BY ONLY <1>1, <1>2, <3>1
  <2>2. ASSUME NEW k \in 1 .. n, PairOf(rows[k]) \subseteq DOMAIN taken
        PROVE  \E m \in F : PairOf(rows[m]) = PairOf(rows[k])
    <3>. PICK S \in SUBSET (1 .. n) : S = {m \in 1 .. n : PairOf(rows[m]) = PairOf(rows[k])}
      OBVIOUS
    <3>1. PICK m \in S : \A j \in 1 .. (m - 1) : j \notin S
      <4>1. S # {}
        OBVIOUS
      <4>. QED
        BY <4>1, LeastIs
    <3>2. \A j \in 1 .. (m - 1) : j \in 1 .. n
      OBVIOUS
    <3>. QED
      BY <2>2, <3>1, <3>2 DEF FirstHeld
  <2>3. F \subseteq {j \in 1 .. n : PairOf(rows[j]) \subseteq DOMAIN taken}
    BY DEF FirstHeld
  <2>. QED
    BY <2>1, <2>2, <2>3 DEF PairsHeld
<1>7. Cardinality(told) = Cardinality(PairsTold(told))
  <2>1. IsFiniteSet(told)
    <3>1. IsFiniteSet(F)
      <4>1. IsFiniteSet(1 .. n)
        BY FS_Interval
      <4>2. F \subseteq 1 .. n
        BY DEF FirstHeld
      <4>. QED
        BY <4>1, <4>2, FS_Subset
    <3>2. warn \in Surjection(F, told)
      BY <1>1 DEF Surjection
    <3>. QED
      BY <3>1, <3>2, FS_Surjection
  <2>2. \A v, w \in told : pair[v] = pair[w] => v = w
    <3>1. \A k \in F : pair[warn[k]] = PairOf(rows[k])
      BY <1>4
    <3>. QED
      BY ONLY <1>1, <1>5, <3>1
  <2>3. pair \in Bijection(told, PairsTold(told))
    BY <1>2, <2>2 DEF Bijection, Injection, Surjection, IsInjective
  <2>. QED
    BY <2>1, <2>3, FS_Bijection DEF ExistsBijection
<1>8. \A w \in told : FairOrder(w)
  BY <1>1, <1>4
<1>. QED
  BY <1>6, <1>7, <1>8

\* Turned around, the rows say the same pairs.
LEMMA ReverseHolds ==
  ASSUME NEW S, NEW rows \in Seq(S), NEW taken
  PROVE  PairsHeld(Reverse(rows), taken) = PairsHeld(rows, taken) /\ DOMAIN Reverse(rows) = 1 .. Len(rows)
<1>. PICK n \in Nat : n = Len(rows) /\ DOMAIN rows = 1 .. n
  OBVIOUS
<1>1. Reverse(rows) = [i \in 1 .. n |-> rows[(n - i) + 1]]
  BY DEF Reverse
<1>2. ASSUME NEW x PROVE x \in PairsHeld(Reverse(rows), taken) <=> x \in PairsHeld(rows, taken)
  <2>1. ASSUME NEW k \in 1 .. n, x = PairOf(rows[k]), x \subseteq DOMAIN taken PROVE x \in PairsHeld(Reverse(rows), taken)
    <3>. PICK i \in 1 .. n : i = (n - k) + 1
      BY ONLY n \in Nat, k \in 1 .. n
    <3>1. (n - i) + 1 = k
      OBVIOUS
    <3>2. Reverse(rows)[i] = rows[k] /\ i \in DOMAIN Reverse(rows)
      BY <1>1, <3>1
    <3>. QED
      BY <2>1, <3>2 DEF PairsHeld
  <2>2. ASSUME NEW i \in 1 .. n, x = PairOf(Reverse(rows)[i]), x \subseteq DOMAIN taken PROVE x \in PairsHeld(rows, taken)
    <3>. PICK k \in 1 .. n : k = (n - i) + 1
      BY ONLY n \in Nat, i \in 1 .. n
    <3>1. Reverse(rows)[i] = rows[k]
      BY <1>1
    <3>. QED
      BY <2>2, <3>1 DEF PairsHeld
  <2>. QED
    BY <1>1, <2>1, <2>2 DEF PairsHeld
<1>. QED
  BY <1>1, <1>2

LEMMA ExclusionsAreListed == \E S : Exclusions \in Seq(S)
<1>. PICK S : S = {e \in Catalog.exclusions : /\ e.blocked \in AllCodes(Catalog)
        /\ \A f \in Catalog.exclusions : f.blocked = e.blocked /\ f.blocker = e.blocker => f.year <= e.year}
  OBVIOUS
<1>1. IsFiniteSet(S)
  <2>1. S \subseteq Catalog.exclusions
    OBVIOUS
  <2>. QED
    BY <2>1, CatalogAssumption, FS_Subset
<1>. PICK k \in Nat : k = Cardinality(S)
  BY <1>1, FS_CardinalityType
<1>2. Exclusions = (CHOOSE f \in [1 .. k -> S] : IsInjective(f))
  BY DEF Exclusions, ExclusionRows, SetToSeq
<1>3. \E f \in [1 .. k -> S] : IsInjective(f)
  <2>. PICK f \in Bijection(1 .. k, S) : TRUE
    BY <1>1, FS_CardinalityType DEF ExistsBijection
  <2>. QED
    BY DEF Bijection, Injection, IsInjective
<1>4. Exclusions \in [1 .. k -> S]
  BY <1>2, <1>3
<1>5. Exclusions \in Seq(S)
  BY ONLY <1>4, k \in Nat
<1>. QED
  BY <1>5

\* Which pairs of courses are reported as mutually exclusive does not depend on
\* the order of the rows, each pair is reported once, and the course named as
\* the blocker never comes later than the one it blocks.
THEOREM ExclusionsStayFair == Spec => []ExclusionsAreFair
<1>1. ASSUME Ordered(plan) PROVE ExclusionsAreFair
  <2>. PICK S : Exclusions \in Seq(S)
    BY ExclusionsAreListed
  <2>. PICK n \in Nat : n = Len(Exclusions) /\ DOMAIN Exclusions = 1 .. n
    OBVIOUS
  <2>. PICK rows \in Seq(S) : rows = Exclusions
    OBVIOUS
  <2>. PICK taken : taken = Taken(plan, Facts, None)
    OBVIOUS
  <2>. PICK told : told = ExclusionProblems(plan, rows, Facts)
    OBVIOUS
  <2>. PICK reversed : reversed = ExclusionProblems(plan, Reverse(rows), Facts)
    OBVIOUS
  <2>1. PairsHeld(Reverse(rows), taken) = PairsHeld(rows, taken) /\ DOMAIN Reverse(rows) = 1 .. n
    BY ReverseHolds
  <2>2. /\ PairsTold(told) = PairsHeld(rows, taken)
        /\ Cardinality(told) = Cardinality(PairsTold(told)) /\ \A w \in told : FairOrder(w)
    BY <1>1, ToldAre
  <2>3. PairsTold(reversed) = PairsHeld(Reverse(rows), taken)
    BY <1>1, <2>1, ToldAre
  <2>. QED
    BY <2>1, <2>2, <2>3 DEF ExclusionsAreFair, FairlyTold
<1>2. BoardIsOrdered => Ordered(plan)
  BY DEF Ordered, BoardIsOrdered, TypeOK
<1>. QED
  BY <1>1, <1>2, BoardStaysOrdered, PTL
=============================================================================
