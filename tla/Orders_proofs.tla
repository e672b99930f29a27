---------------------------- MODULE Orders_proofs ----------------------------
(***************************************************************************)
(* What is proved about lists: a set ordered by its keys, the members of a  *)
(* list that are kept, lists of lists one after the other, sums; and the    *)
(* two inductions over finite sets that need no theorem about operators.    *)
(***************************************************************************)
EXTENDS Orders, SequencesExt, FiniteSetTheorems, SequenceTheorems, TLAPS

\* In a finite set in which of any two one is ahead of the other, as many are
\* ahead of an element as there are places before it.
LEMMA RanksFill ==
  ASSUME NEW S, IsFiniteSet(S), NEW ahead \in [S -> SUBSET S],
         \A c \in S : c \notin ahead[c],
         \A c, d \in S : c # d => c \in ahead[d] \/ d \in ahead[c],
         \A c, d \in S : c \in ahead[d] => ahead[c] \subseteq ahead[d]
  PROVE  /\ \A n \in 1 .. Cardinality(S) : \E c \in S : Cardinality(ahead[c]) = n - 1
         /\ \A c \in S : Cardinality(ahead[c]) + 1 \in 1 .. Cardinality(S)
         /\ \A c, d \in S : c \in ahead[d] <=> Cardinality(ahead[c]) < Cardinality(ahead[d])
<1>1. \A c \in S : ahead[c] \in SUBSET S /\ IsFiniteSet(ahead[c]) /\ Cardinality(ahead[c]) \in Nat
  BY FS_Subset, FS_CardinalityType
<1>. PICK N \in Nat : N = Cardinality(S)
  BY FS_CardinalityType
<1>. DEFINE f == [c \in S |-> Cardinality(ahead[c])]
<1>2. \A c \in S : f[c] = Cardinality(ahead[c]) /\ f[c] \in Nat /\ f[c] < N
  <2>1. SUFFICES ASSUME NEW c \in S PROVE f[c] = Cardinality(ahead[c]) /\ f[c] \in Nat /\ f[c] < N
    OBVIOUS
  <2>2. Cardinality(ahead[c]) <= N /\ (N = Cardinality(ahead[c]) => S = ahead[c])
    BY <1>1, FS_Subset
  <2>3. Cardinality(ahead[c]) # N
    BY <2>2
  <2>. QED
    BY <1>1, <2>2, <2>3
<1>3. ASSUME NEW c \in S, NEW d \in S, c \in ahead[d] PROVE f[c] < f[d]
  <2>1. ahead[c] \in SUBSET ahead[d] /\ ahead[c] # ahead[d]
    BY <1>3
  <2>2. Cardinality(ahead[c]) <= Cardinality(ahead[d]) /\ Cardinality(ahead[c]) # Cardinality(ahead[d])
    BY <1>1, <2>1, FS_Subset
  <2>. QED
    BY <1>1, <2>2
<1>4. \A c, d \in S : f[c] = f[d] => c = d
  BY <1>2, <1>3
<1>5. \A c, d \in S : c \in ahead[d] <=> f[c] < f[d]
  <2>1. SUFFICES ASSUME NEW c \in S, NEW d \in S, f[c] < f[d] PROVE c \in ahead[d]
    BY <1>3
  <2>2. c # d
    BY <1>2, <2>1
  <2>3. d \notin ahead[c]
    BY <1>2, <1>3, <2>1
  <2>. QED
    BY <2>2, <2>3
<1>6. f \in Surjection(S, 0 .. (N - 1))
  <2>1. f \in [S -> 0 .. (N - 1)]
    BY <1>2
  <2>2. f \in Injection(S, 0 .. (N - 1))
    BY <1>4, <2>1 DEF Injection, IsInjective
  <2>3. IsFiniteSet(0 .. (N - 1)) /\ Cardinality(0 .. (N - 1)) = N
    <3>1. 0 \in Int /\ N - 1 \in Int /\ (IF 0 > N - 1 THEN 0 ELSE (N - 1) - 0 + 1) = N
      OBVIOUS
    <3>. QED
      BY <3>1, FS_Interval
  <2>. QED
    BY <2>2, <2>3, FS_Injection
<1>7. \A n \in 1 .. N : \E c \in S : f[c] = n - 1
  <2>1. \A r \in 0 .. (N - 1) : \E c \in S : f[c] = r
    BY <1>6 DEF Surjection
  <2>2. \A n \in 1 .. N : n - 1 \in 0 .. (N - 1)
    OBVIOUS
  <2>. HIDE DEF f
  <2>. QED
    BY <2>1, <2>2
<1>. QED
  BY <1>2, <1>5, <1>7

\* Induction over the first numbers, for a set.
LEMMA UpTo ==
  ASSUME NEW N \in Nat, NEW S, 0 \in S, \A n \in 0 .. N : n < N /\ n \in S => n + 1 \in S
  PROVE  \A n \in 0 .. N : n \in S
<1>. DEFINE T == {n \in 0 .. N : n \notin S}
            ahead == [n \in T |-> {m \in T : m < n}]
<1>1. SUFFICES ASSUME T # {} PROVE FALSE
  OBVIOUS
<1>2. IsFiniteSet(T) /\ Cardinality(T) \in Nat \ {0}
  <2>1. IsFiniteSet(0 .. N) /\ T \subseteq 0 .. N
    BY FS_Interval
  <2>. QED
    BY <1>1, <2>1, FS_Subset, FS_EmptySet, FS_CardinalityType
<1>3. \E n \in T : Cardinality(ahead[n]) = 0
  <2>1. /\ ahead \in [T -> SUBSET T] /\ \A c \in T : c \notin ahead[c]
        /\ \A c, d \in T : c # d => c \in ahead[d] \/ d \in ahead[c]
        /\ \A c, d \in T : c \in ahead[d] => ahead[c] \subseteq ahead[d]
    OBVIOUS
  <2>2. \A n \in 1 .. Cardinality(T) : \E c \in T : Cardinality(ahead[c]) = n - 1
    <3>. HIDE DEF T, ahead
    <3>. QED
      BY <1>2, <2>1, RanksFill
  <2>. QED
    BY <1>2, <2>2
<1>4. PICK n \in T : ahead[n] = {}
  <2>1. \A n \in T : IsFiniteSet(ahead[n])
    BY <1>2, FS_Subset
  <2>. QED
    BY <1>3, <2>1, FS_EmptySet
<1>5. n # 0 /\ n - 1 \in 0 .. N /\ n - 1 \notin T
  BY <1>4
<1>. QED
  BY <1>4, <1>5

Grows(key, g, k) ==
  \A i, j \in 1 .. k : (key[g[i]] < key[g[j]] <=> i < j) /\ (key[g[i]] <= key[g[j]] <=> i <= j)
\* Rows whose keys grow with their places come in that order.
LEMMA InOrderIs ==
  ASSUME NEW S, NEW k \in Nat, NEW g \in [1 .. k -> S], \A x \in S : \E i \in 1 .. k : x = g[i],
         NEW key, Grows(key, g, k)
  PROVE  InOrder(S, key) = g
<1>0. \A i, j \in 1 .. k : (key[g[i]] < key[g[j]] <=> i < j) /\ (key[g[i]] <= key[g[j]] <=> i <= j)
  BY DEF Grows
<1>1. \A i, j \in 1 .. k : g[i] = g[j] => i = j
  BY <1>0
<1>2. ASSUME NEW T \in SUBSET S, NEW m \in 0 .. k, T = {g[i] : i \in 1 .. m} PROVE Cardinality(T) = m
  <2>. DEFINE h == [i \in 1 .. m |-> g[i]]
  <2>1. h \in Bijection(1 .. m, T)
    BY <1>1, <1>2 DEF Bijection, Injection, Surjection, IsInjective
  <2>2. IsFiniteSet(1 .. m) /\ Cardinality(1 .. m) = m
    <3>1. 1 \in Int /\ m \in Int /\ (IF 1 > m THEN 0 ELSE m - 1 + 1) = m
      OBVIOUS
    <3>. QED
      BY <3>1, FS_Interval
  <2>3. ExistsBijection(1 .. m, T)
    <3>. HIDE DEF h
    <3>. QED
      BY <2>1 DEF ExistsBijection
  <2>. QED
    BY <2>2, <2>3, FS_Bijection
<1>3. Cardinality(S) = k
  <2>1. k \in 0 .. k /\ S = {g[i] : i \in 1 .. k}
    OBVIOUS
  <2>. QED
    BY <1>2, <2>1
<1>4. ASSUME NEW j \in 1 .. k
      PROVE  /\ Cardinality({y \in S : key[y] < key[g[j]]}) = j - 1
             /\ Cardinality({y \in S : key[y] <= key[g[j]]}) = j
  <2>1. j - 1 \in 0 .. k /\ {y \in S : key[y] < key[g[j]]} = {g[i] : i \in 1 .. (j - 1)}
    BY <1>0
  <2>2. j \in 0 .. k /\ {y \in S : key[y] <= key[g[j]]} = {g[i] : i \in 1 .. j}
    BY <1>0
  <2>3. {y \in S : key[y] < key[g[j]]} \in SUBSET S /\ {y \in S : key[y] <= key[g[j]]} \in SUBSET S
    OBVIOUS
  <2>. QED
    BY <1>2, <2>1, <2>2, <2>3
<1>. DEFINE Is(n, x) == n \in (Cardinality({y \in S : key[y] < key[x]}) + 1)
                                 .. Cardinality({y \in S : key[y] <= key[x]})
            at(n) == CHOOSE x \in S : Is(n, x)
<1>5. ASSUME NEW n \in 1 .. k PROVE at(n) = g[n]
  <2>1. \A j \in 1 .. k : n \in (Cardinality({y \in S : key[y] < key[g[j]]}) + 1)
                                  .. Cardinality({y \in S : key[y] <= key[g[j]]}) <=> n = j
    <3>1. \A j \in 1 .. k : n \in ((j - 1) + 1) .. j <=> n = j
      OBVIOUS
    <3>. QED
      BY <1>4, <3>1
  <2>2. g[n] \in S
    OBVIOUS
  <2>3. Is(n, g[n]) /\ \A x \in S : Is(n, x) => x = g[n]
    <3>1. \A j \in 1 .. k : Is(n, g[j]) <=> n = j
      BY <2>1
    <3>. HIDE DEF Is
    <3>. QED
      BY <3>1
  <2>. HIDE DEF Is
  <2>. QED
    BY <2>2, <2>3
<1>6. InOrder(S, key) = [n \in 1 .. k |-> g[n]]
  <2>1. InOrder(S, key) = [n \in 1 .. Cardinality(S) |-> at(n)]
    BY DEF InOrder
  <2>. HIDE DEF at
  <2>. QED
    BY <1>3, <1>5, <2>1
<1>. QED
  BY <1>6

\* A finite set as a list by keys that differ: every member once, by growing
\* keys, with as many members before it as have a smaller key.
Listed(S, key, g, k) ==
    /\ g \in [1 .. k -> S] /\ (\A x \in S : \E i \in 1 .. k : x = g[i]) /\ Grows(key, g, k)
    /\ \A i \in 1 .. k : Cardinality({y \in S : key[y] < key[g[i]]}) = i - 1
LEMMA SortedIs ==
  ASSUME NEW S, IsFiniteSet(S), NEW k \in Nat, k = Cardinality(S),
         NEW key \in [S -> Int], \A c, d \in S : key[c] = key[d] => c = d
  PROVE  Listed(S, key, InOrder(S, key), k)
<1>. DEFINE ahead == [c \in S |-> {y \in S : key[y] < key[c]}]
<1>1. /\ ahead \in [S -> SUBSET S] /\ \A c \in S : c \notin ahead[c]
      /\ \A c, d \in S : c # d => c \in ahead[d] \/ d \in ahead[c]
      /\ \A c, d \in S : c \in ahead[d] => ahead[c] \subseteq ahead[d]
  <2>1. \A c \in S : key[c] \in Int /\ ahead[c] = {y \in S : key[y] < key[c]}
    OBVIOUS
  <2>2. \A c, d \in S : (c \in ahead[d] <=> key[c] < key[d]) /\ (c # d => key[c] < key[d] \/ key[d] < key[c])
    BY <2>1
  <2>3. ahead \in [S -> SUBSET S] /\ \A c \in S : c \notin ahead[c]
    BY <2>1
  <2>4. ASSUME NEW c \in S, NEW d \in S, c \in ahead[d], NEW y \in ahead[c] PROVE y \in ahead[d]
    <3>1. /\ y \in S /\ key[y] \in Int /\ key[c] \in Int /\ key[d] \in Int
          /\ key[y] < key[c] /\ key[c] < key[d]
      BY <2>1, <2>4
    <3>2. key[y] < key[d]
      BY ONLY <3>1
    <3>. QED
      BY <2>1, <3>1, <3>2
  <2>. QED
    BY <2>2, <2>3, <2>4
<1>2. /\ \A n \in 1 .. k : \E c \in S : Cardinality(ahead[c]) = n - 1
      /\ \A c \in S : Cardinality(ahead[c]) + 1 \in 1 .. k
      /\ \A c, d \in S : c \in ahead[d] <=> Cardinality(ahead[c]) < Cardinality(ahead[d])
  <2>. HIDE DEF ahead
  <2>. QED
    BY <1>1, RanksFill
<1>3. \A c \in S : ahead[c] = {y \in S : key[y] < key[c]}
  OBVIOUS
<1>4. \A c \in S : Cardinality(ahead[c]) \in Nat
  <2>1. \A c \in S : ahead[c] \in SUBSET S
    BY <1>1
  <2>. HIDE DEF ahead
  <2>. QED
    BY <2>1, FS_Subset, FS_CardinalityType
<1>. DEFINE g == [n \in 1 .. k |-> CHOOSE c \in S : Cardinality(ahead[c]) = n - 1]
<1>5. \A n \in 1 .. k : g[n] \in S /\ Cardinality(ahead[g[n]]) = n - 1
  <2>. HIDE DEF ahead
  <2>. QED
    BY <1>2
<1>6. g \in [1 .. k -> S]
  BY <1>5
<1>. HIDE DEF g
<1>7. Grows(key, g, k)
  <2>1. ASSUME NEW i \in 1 .. k, NEW j \in 1 .. k PROVE key[g[i]] < key[g[j]] <=> i < j
    <3>. HIDE DEF ahead
    <3>1. /\ g[i] \in S /\ Cardinality(ahead[g[i]]) = i - 1
          /\ g[j] \in S /\ Cardinality(ahead[g[j]]) = j - 1
      BY <1>5
    <3>2. g[i] \in ahead[g[j]] <=> Cardinality(ahead[g[i]]) < Cardinality(ahead[g[j]])
      BY <1>2, <3>1
    <3>3. g[i] \in ahead[g[j]] <=> i < j
      BY ONLY <3>1, <3>2
    <3>4. ahead[g[j]] = {y \in S : key[y] < key[g[j]]}
      BY <1>3, <3>1
    <3>. QED
      BY ONLY <3>1, <3>3, <3>4
  <2>2. \A i \in 1 .. k : key[g[i]] \in Int
    BY <1>5
  <2>. QED
    BY <2>1, <2>2 DEF Grows
<1>8. ASSUME NEW x \in S PROVE \E i \in 1 .. k : x = g[i]
  <2>. HIDE DEF ahead
  <2>. PICK i \in 1 .. k : i = Cardinality(ahead[x]) + 1
    BY <1>2
  <2>1. Cardinality(ahead[x]) = Cardinality(ahead[g[i]]) /\ g[i] \in S
    BY <1>4, <1>5
  <2>2. x \notin ahead[g[i]] /\ g[i] \notin ahead[x]
    <3>. PICK m \in Nat : m = Cardinality(ahead[x])
      BY <1>4
    <3>1. (x \in ahead[g[i]] <=> m < m) /\ (g[i] \in ahead[x] <=> m < m)
      BY <1>2, <2>1
    <3>. QED
      BY ONLY <3>1, m \in Nat
  <2>3. x = g[i]
    BY ONLY <1>1, <2>1, <2>2, x \in S
  <2>. QED
    BY <2>3
<1>9. InOrder(S, key) = g
  <2>. HIDE DEF ahead
  <2>. QED
    BY <1>6, <1>7, <1>8, InOrderIs
<1>10. \A i \in 1 .. k : Cardinality({y \in S : key[y] < key[g[i]]}) = i - 1
  <2>. HIDE DEF ahead
  <2>1. ASSUME NEW i \in 1 .. k PROVE Cardinality({y \in S : key[y] < key[g[i]]}) = i - 1
    <3>1. g[i] \in S /\ Cardinality(ahead[g[i]]) = i - 1
      BY <1>5
    <3>2. ahead[g[i]] = {y \in S : key[y] < key[g[i]]}
      BY <1>3, <3>1
    <3>. QED
      BY ONLY <3>1, <3>2
  <2>. QED
    BY <2>1
<1>. QED
  BY ONLY <1>6, <1>7, <1>8, <1>9, <1>10 DEF Listed

\* A finite set of numbers as a list: each is as far in it as there are
\* numbers up to it.
PlaceOf(S, x) == Cardinality({y \in S : y <= x})
LEMMA AscendingIs ==
  ASSUME NEW S \in SUBSET Nat, IsFiniteSet(S), NEW k \in Nat, k = Cardinality(S)
  PROVE  \E g \in [1 .. k -> S] :
           /\ Ascending(S) = g /\ \A x \in S : \E i \in 1 .. k : x = g[i]
           /\ \A i \in 1 .. k : PlaceOf(S, g[i]) = i
<1>. PICK key : key = [x \in S |-> x]
  OBVIOUS
<1>. PICK g : g = Ascending(S)
  OBVIOUS
<1>1. Listed(S, key, g, k)
  <2>1. key \in [S -> Int] /\ \A c, d \in S : key[c] = key[d] => c = d
    OBVIOUS
  <2>2. g = InOrder(S, key)
    BY DEF Ascending
  <2>3. Listed(S, key, InOrder(S, key), k)
    BY <2>1, SortedIs
  <2>. QED
    BY ONLY <2>2, <2>3
<1>2. g \in [1 .. k -> S] /\ \A x \in S : \E i \in 1 .. k : x = g[i]
  BY <1>1 DEF Listed
<1>3. ASSUME NEW i \in 1 .. k PROVE PlaceOf(S, g[i]) = i
  <2>. PICK c \in S : c = g[i]
    BY <1>2
  <2>. PICK less : less = {y \in S : y < c}
    OBVIOUS
  <2>1. less = {y \in S : key[y] < key[c]}
    OBVIOUS
  <2>2. Cardinality(less) = i - 1
    BY <1>1, <2>1 DEF Listed
  <2>3. {y \in S : y <= c} = less \cup {c} /\ c \notin less
    <3>1. \A y \in S : (y <= c <=> y < c \/ y = c) /\ ~(c < c)
      OBVIOUS
    <3>. QED
      BY <3>1
  <2>4. IsFiniteSet(less)
    <3>1. less \subseteq S
      OBVIOUS
    <3>. QED
      BY <3>1, FS_Subset
  <2>5. Cardinality(less \cup {c}) = Cardinality(less) + 1
    BY <2>3, <2>4, FS_AddElement
  <2>. QED
    BY ONLY <2>2, <2>3, <2>5, c = g[i], i \in 1 .. k DEF PlaceOf
<1>. QED
  BY <1>2, <1>3

LEMMA AscendingType ==
  ASSUME NEW S \in SUBSET Nat, IsFiniteSet(S)
  PROVE  Ascending(S) \in Seq(S) /\ Len(Ascending(S)) = Cardinality(S)
<1>. PICK k \in Nat : k = Cardinality(S)
  BY FS_CardinalityType
<1>. PICK g \in [1 .. k -> S] : Ascending(S) = g
  BY AscendingIs
<1>. QED
  OBVIOUS

\* The members of a list at some of its places are as far in the new list as
\* there are such places up to theirs.
Gathers(new, list, places) ==
    /\ new \in Seq({list[n] : n \in places}) /\ Len(new) = Cardinality(places)
    /\ \A n \in places : PlaceOf(places, n) \in 1 .. Len(new) /\ new[PlaceOf(places, n)] = list[n]
    /\ \A j \in 1 .. Len(new) : \E n \in places : PlaceOf(places, n) = j /\ new[j] = list[n]
LEMMA ChosenIs ==
  ASSUME NEW list, NEW N \in Nat, NEW places \in SUBSET (1 .. N)
  PROVE  Gathers(Chosen(list, places), list, places)
<1>. PICK new : new = Chosen(list, places)
  OBVIOUS
<1>1. IsFiniteSet(places)
  <2>1. IsFiniteSet(1 .. N)
    BY FS_Interval
  <2>. QED
    BY <2>1, FS_Subset
<1>. PICK k \in Nat : k = Cardinality(places)
  BY <1>1, FS_CardinalityType
<1>2. PICK g \in [1 .. k -> places] :
        /\ Ascending(places) = g /\ \A x \in places : \E i \in 1 .. k : x = g[i]
        /\ \A i \in 1 .. k : PlaceOf(places, g[i]) = i
  <2>1. places \in SUBSET Nat
    OBVIOUS
  <2>. QED
    BY <1>1, <2>1, AscendingIs
<1>3. new = [n \in 1 .. k |-> list[g[n]]]
  BY <1>2 DEF Chosen
<1>4. new \in Seq({list[n] : n \in places}) /\ Len(new) = k
  BY <1>3
<1>5. \A i \in 1 .. k : new[i] = list[g[i]] /\ g[i] \in places
  BY <1>3
<1>6. ASSUME NEW n \in places PROVE PlaceOf(places, n) \in 1 .. k /\ new[PlaceOf(places, n)] = list[n]
  <2>. PICK i \in 1 .. k : n = g[i]
    BY <1>2
  <2>. QED
    BY <1>2, <1>5
<1>. QED
  BY <1>2, <1>4, <1>5, <1>6 DEF Gathers

LEMMA ListOf ==
  ASSUME NEW S, NEW n \in Nat, NEW f, f = [i \in 1 .. n |-> f[i]], \A i \in 1 .. n : f[i] \in S
  PROVE  f \in Seq(S) /\ Len(f) = n /\ DOMAIN f = 1 .. n
OBVIOUS

\* Lists of lists, one after the other.
IsFlat(f, lists, N) == f = [i \in 1 .. N |-> IF i = 1 THEN lists[i] ELSE f[i - 1] \o lists[i]]
LEMMA FlatExists ==
  ASSUME NEW lists, NEW N \in Nat
  PROVE  \E f : IsFlat(f, lists, N)
<1>. DEFINE S == {n \in 0 .. N : \E f : IsFlat(f, lists, n)}
<1>1. 0 \in S
  <2>1. IsFlat([i \in 1 .. 0 |-> <<>>], lists, 0)
    BY DEF IsFlat
  <2>. QED
    BY <2>1
<1>2. ASSUME NEW n \in 0 .. N, n < N, n \in S PROVE n + 1 \in S
  <2>. PICK f : IsFlat(f, lists, n)
    BY <1>2
  <2>. PICK m \in 1 .. N : m = n + 1
    BY <1>2
  <2>. PICK new : new = (IF m = 1 THEN lists[m] ELSE f[n] \o lists[m])
    OBVIOUS
  <2>. PICK g : g = [i \in 1 .. m |-> IF i = m THEN new ELSE f[i]]
    OBVIOUS
  <2>1. \A i \in 1 .. m : g[i] = IF i = m THEN new ELSE f[i]
    OBVIOUS
  <2>2. \A i \in 1 .. n : f[i] = IF i = 1 THEN lists[i] ELSE f[i - 1] \o lists[i]
    BY DEF IsFlat
  <2>3. ASSUME NEW i \in 1 .. m
        PROVE  g[i] = IF i = 1 THEN lists[i] ELSE g[i - 1] \o lists[i]
    <3>1. CASE i = m
      <4>1. i # 1 => i - 1 = n /\ n \in 1 .. m /\ n # m
        BY <3>1
      <4>2. i # 1 => g[i - 1] = f[n]
        BY ONLY <2>1, <4>1
      <4>3. g[i] = new
        BY <2>1, <3>1
      <4>. QED
        BY ONLY <3>1, <4>2, <4>3, new = (IF m = 1 THEN lists[m] ELSE f[n] \o lists[m])
    <3>2. CASE i # m
      <4>1. i \in 1 .. n /\ (i # 1 => i - 1 \in 1 .. m /\ i - 1 # m)
        BY <3>2
      <4>2. i # 1 => g[i - 1] = f[i - 1]
        BY ONLY <2>1, <4>1
      <4>3. g[i] = f[i]
        BY <2>1, <3>2
      <4>4. f[i] = IF i = 1 THEN lists[i] ELSE f[i - 1] \o lists[i]
        BY <2>2, <4>1
      <4>. QED
        BY ONLY <4>2, <4>3, <4>4
    <3>. QED
      BY <3>1, <3>2
  <2>4. g = [i \in 1 .. m |-> g[i]]
    OBVIOUS
  <2>5. IsFlat(g, lists, m)
    BY ONLY <2>3, <2>4 DEF IsFlat
  <2>. QED
    BY <2>5
<1>3. \A n \in 0 .. N : n \in S
  <2>. HIDE DEF S
  <2>. QED
    BY <1>1, <1>2, UpTo
<1>. QED
  BY <1>3

LEMMA Flattened ==
  ASSUME NEW S, NEW N \in Nat, NEW lists \in [1 .. N -> Seq(S)]
  PROVE  FlattenSeq(lists) \in Seq(S)
<1>1. Len(lists) = N
  OBVIOUS
<1>2. CASE N = 0
  <2>1. lists = <<>> /\ <<>> \in Seq(S)
    BY <1>2
  <2>. QED
    BY <1>1, <1>2, <2>1 DEF FlattenSeq
<1>3. CASE N # 0
  <2>. DEFINE flat == CHOOSE f : IsFlat(f, lists, N)
  <2>1. IsFlat(flat, lists, N)
    BY FlatExists
  <2>2. FlattenSeq(lists) = flat[N]
    BY <1>1, <1>3 DEF FlattenSeq, IsFlat
  <2>. HIDE DEF flat
  <2>. DEFINE T == {n \in 0 .. N : n # 0 => flat[n] \in Seq(S)}
  <2>3. 0 \in T
    OBVIOUS
  <2>4. ASSUME NEW n \in 0 .. N, n < N, n \in T PROVE n + 1 \in T
    <3>. PICK m \in 1 .. N : m = n + 1
      BY <2>4
    <3>1. flat[m] = IF m = 1 THEN lists[m] ELSE flat[m - 1] \o lists[m]
      BY <2>1 DEF IsFlat
    <3>2. lists[m] \in Seq(S) /\ (m # 1 => flat[m - 1] \in Seq(S))
      BY <2>4
    <3>3. flat[m] \in Seq(S)
      BY ONLY <3>1, <3>2
    <3>. QED
      BY <3>3
  <2>5. \A n \in 0 .. N : n \in T
    <3>. HIDE DEF T
    <3>. QED
      BY <2>3, <2>4, UpTo
  <2>. QED
    BY <1>3, <2>2, <2>5
<1>. QED
  BY <1>2, <1>3

-----------------------------------------------------------------------------
(* Sums.                                                                     *)

\* The sums of the first members of a list, and that there are some.
IsSum(t, a, N) == t = [k \in 0 .. N |-> IF k = 0 THEN 0 ELSE t[k - 1] + a[k]]
LEMMA SumExists ==
  ASSUME NEW a, NEW N \in Nat
  PROVE  \E t : IsSum(t, a, N)
<1>. DEFINE S == {n \in 0 .. N : \E t : IsSum(t, a, n)}
<1>1. 0 \in S
  <2>. PICK t : t = [k \in 0 .. 0 |-> 0]
    OBVIOUS
  <2>1. IsSum(t, a, 0)
    BY DEF IsSum
  <2>. QED
    BY <2>1
<1>2. ASSUME NEW n \in 0 .. N, n < N, n \in S PROVE n + 1 \in S
  <2>. PICK t : IsSum(t, a, n)
    BY <1>2
  <2>. PICK m \in 1 .. N : m = n + 1
    BY <1>2
  <2>. PICK new : new = t[n] + a[m]
    OBVIOUS
  <2>. PICK s : s = [k \in 0 .. m |-> IF k = m THEN new ELSE t[k]]
    OBVIOUS
  <2>1. \A k \in 0 .. m : s[k] = IF k = m THEN new ELSE t[k]
    OBVIOUS
  <2>2. \A k \in 0 .. n : t[k] = IF k = 0 THEN 0 ELSE t[k - 1] + a[k]
    BY DEF IsSum
  <2>3. ASSUME NEW k \in 0 .. m PROVE s[k] = IF k = 0 THEN 0 ELSE s[k - 1] + a[k]
    <3>1. CASE k = m
      <4>1. k # 0 /\ k - 1 = n /\ n \in 0 .. m /\ n # m
        BY <3>1
      <4>2. s[k - 1] = t[n] /\ s[k] = new
        BY ONLY <2>1, <3>1, <4>1, k \in 0 .. m
      <4>. QED
        BY ONLY <3>1, <4>1, <4>2, new = t[n] + a[m]
    <3>2. CASE k # m
      <4>1. k \in 0 .. n /\ (k # 0 => k - 1 \in 0 .. m /\ k - 1 # m)
        BY <3>2
      <4>2. s[k] = t[k] /\ (k # 0 => s[k - 1] = t[k - 1])
        BY ONLY <2>1, <3>2, <4>1, k \in 0 .. m
      <4>3. t[k] = IF k = 0 THEN 0 ELSE t[k - 1] + a[k]
        BY <2>2, <4>1
      <4>. QED
        BY ONLY <4>2, <4>3
    <3>. QED
      BY <3>1, <3>2
  <2>4. s = [k \in 0 .. m |-> s[k]]
    OBVIOUS
  <2>5. IsSum(s, a, m)
    BY ONLY <2>3, <2>4 DEF IsSum
  <2>. QED
    BY <2>5
<1>3. \A n \in 0 .. N : n \in S
  <2>. HIDE DEF S
  <2>. QED
    BY <1>1, <1>2, UpTo
<1>. QED
  BY <1>3

LEMMA TotalIs ==
  ASSUME NEW N \in Nat, NEW a \in [1 .. N -> Nat]
  PROVE  \E t \in [0 .. N -> Nat] : /\ t[0] = 0 /\ \A k \in 1 .. N : t[k] = t[k - 1] + a[k]
                                    /\ Total(a) = t[N]
<1>. DEFINE t == CHOOSE f : IsSum(f, a, N)
<1>1. IsSum(t, a, N)
  BY SumExists
<1>2. Len(a) = N
  OBVIOUS
<1>3. Total(a) = t[N]
  BY <1>2 DEF Total, IsSum
<1>. HIDE DEF t
<1>4. \A k \in 0 .. N : t[k] = IF k = 0 THEN 0 ELSE t[k - 1] + a[k]
  BY <1>1 DEF IsSum
<1>5. t = [k \in 0 .. N |-> t[k]]
  BY <1>1 DEF IsSum
<1>6. t[0] = 0 /\ \A k \in 1 .. N : t[k] = t[k - 1] + a[k]
  BY <1>4
<1>. DEFINE S == {n \in 0 .. N : t[n] \in Nat}
<1>7. 0 \in S /\ \A n \in 0 .. N : n < N /\ n \in S => n + 1 \in S
  <2>1. ASSUME NEW n \in 0 .. N, n < N, n \in S PROVE n + 1 \in S
    <3>1. n + 1 \in 1 .. N /\ (n + 1) - 1 = n
      BY <2>1
    <3>2. t[n + 1] = t[n] + a[n + 1] /\ a[n + 1] \in Nat /\ t[n] \in Nat
      BY <1>6, <2>1, <3>1
    <3>. QED
      BY <3>1, <3>2
  <2>. QED
    BY <1>6, <2>1
<1>8. \A n \in 0 .. N : n \in S
  <2>. HIDE DEF S
  <2>. QED
    BY <1>7, UpTo
<1>9. t \in [0 .. N -> Nat]
  BY <1>5, <1>8
<1>. QED
  BY <1>3, <1>6, <1>9

\* Of two lists, one never above the other, the sums are equal when the lists
\* are; and a sum is none when each number is.
LEMMA TotalsCompare ==
  ASSUME NEW N \in Nat, NEW a \in [1 .. N -> Nat], NEW b \in [1 .. N -> Nat], \A k \in 1 .. N : a[k] <= b[k]
  PROVE  /\ Total(a) \in Nat /\ Total(b) \in Nat /\ Total(a) <= Total(b)
         /\ Total(a) = Total(b) <=> \A k \in 1 .. N : a[k] = b[k]
         /\ Total(b) = 0 <=> \A k \in 1 .. N : b[k] = 0
<1>1. PICK s \in [0 .. N -> Nat] : s[0] = 0 /\ (\A k \in 1 .. N : s[k] = s[k - 1] + a[k]) /\ Total(a) = s[N]
  BY TotalIs
<1>2. PICK t \in [0 .. N -> Nat] : t[0] = 0 /\ (\A k \in 1 .. N : t[k] = t[k - 1] + b[k]) /\ Total(b) = t[N]
  BY TotalIs
<1>. DEFINE S == {n \in 0 .. N : /\ s[n] <= t[n] /\ (s[n] = t[n] <=> \A k \in 1 .. n : a[k] = b[k])
                                 /\ t[n] = 0 <=> \A k \in 1 .. n : b[k] = 0}
<1>3. 0 \in S
  BY <1>1, <1>2
<1>4. ASSUME NEW n \in 0 .. N, n < N, n \in S PROVE n + 1 \in S
  <2>. PICK m \in 1 .. N : m = n + 1
    BY <1>4
  <2>1. s[m] = s[n] + a[m] /\ t[m] = t[n] + b[m]
    <3>1. m - 1 = n
      OBVIOUS
    <3>. QED
      BY <1>1, <1>2, <3>1
  <2>2. s[n] \in Nat /\ t[n] \in Nat /\ a[m] \in Nat /\ b[m] \in Nat /\ a[m] <= b[m]
    OBVIOUS
  <2>3. 1 .. m = (1 .. n) \cup {m}
    BY ONLY n \in 0 .. N, N \in Nat, m = n + 1
  <2>4. s[n] <= t[n] /\ (s[n] = t[n] <=> \A k \in 1 .. n : a[k] = b[k]) /\ (t[n] = 0 <=> \A k \in 1 .. n : b[k] = 0)
    BY <1>4
  <2>5. s[m] <= t[m] /\ (s[m] = t[m] <=> s[n] = t[n] /\ a[m] = b[m]) /\ (t[m] = 0 <=> t[n] = 0 /\ b[m] = 0)
    BY ONLY <2>1, <2>2, <2>4
  <2>6. (s[m] = t[m] <=> \A k \in 1 .. m : a[k] = b[k]) /\ (t[m] = 0 <=> \A k \in 1 .. m : b[k] = 0)
    BY ONLY <2>3, <2>4, <2>5
  <2>. QED
    BY <2>5, <2>6
<1>5. \A n \in 0 .. N : n \in S
  <2>. HIDE DEF S
  <2>. QED
    BY <1>3, <1>4, UpTo
<1>6. N \in S
  <2>. HIDE DEF S
  <2>. QED
    BY <1>5
<1>. QED
  BY <1>1, <1>2, <1>6
=============================================================================
