--------------------------- MODULE Reports_proofs ---------------------------
(***************************************************************************)
(* Proofs about the report of a plan, for any plans, any catalog, any       *)
(* programs and any number of edits: at every rule it shows 100 percent     *)
(* exactly when the rule is met, a course rule is met by cards that earn it *)
(* and by no other's, what the student must check is counted and told, as   *)
(* many rules are met as could be, and a warning about a prerequisite ends  *)
(* when the student does what it says.                                      *)
(***************************************************************************)
EXTENDS Board_proofs

-----------------------------------------------------------------------------
(* Trees of rules and of reports.                                           *)

\* Of m out of c, the percentage is 100 when m is c.
LEMMA HundredIsAll ==
  ASSUME NEW m \in Nat, NEW c \in Nat, m <= c, c > 0
  PROVE  Percent(m, c) = 100 <=> m = c
<1>. PICK q : q = (m * 100) \div c
  OBVIOUS
<1>1. q \in Int /\ c * q <= m * 100 /\ m * 100 < c * q + c
  OBVIOUS
<1>2. CASE m = c
  <2>1. q = 100
    BY <1>1, <1>2
  <2>. QED
    BY <1>2, <2>1 DEF Percent
<1>3. CASE m < c
  <2>1. q < 100
    BY <1>1, <1>3
  <2>. QED
    BY <1>1, <1>3, <2>1 DEF Percent
<1>. QED
  BY <1>2, <1>3
\* Level by level: each level of nodes from the one above it, and what is
\* walked of a node from what is walked of its children.

Opened(S) == S \cup UNION {ToSet(Under(r)) : r \in S}
IsBelow(f, root, D) == f = [n \in 0 .. D |-> IF n = 0 THEN {root} ELSE Opened(f[n - 1])]
LEMMA BelowExists ==
  ASSUME NEW root, NEW D \in Nat
  PROVE  \E f : IsBelow(f, root, D)
<1>. DEFINE S == {n \in 0 .. D : \E f : IsBelow(f, root, n)}
<1>1. 0 \in S
  <2>. PICK f : f = [n \in 0 .. 0 |-> {root}]
    OBVIOUS
  <2>1. IsBelow(f, root, 0)
    BY DEF IsBelow
  <2>. QED
    BY <2>1
<1>2. ASSUME NEW n \in 0 .. D, n < D, n \in S PROVE n + 1 \in S
  <2>. PICK f : IsBelow(f, root, n)
    BY <1>2
  <2>. PICK m \in 1 .. D : m = n + 1
    BY <1>2
  <2>. PICK g : g = [k \in 0 .. m |-> IF k = m THEN Opened(f[n]) ELSE f[k]]
    OBVIOUS
  <2>1. \A k \in 0 .. m : g[k] = IF k = m THEN Opened(f[n]) ELSE f[k]
    OBVIOUS
  <2>2. \A k \in 0 .. n : f[k] = IF k = 0 THEN {root} ELSE Opened(f[k - 1])
    BY DEF IsBelow
  <2>3. ASSUME NEW k \in 0 .. m PROVE g[k] = IF k = 0 THEN {root} ELSE Opened(g[k - 1])
    <3>1. CASE k = m
      <4>1. k # 0 /\ k - 1 = n /\ n \in 0 .. m /\ n # m
        BY <3>1
      <4>. QED
        BY ONLY <2>1, <3>1, <4>1, k \in 0 .. m
    <3>2. CASE k # m
      <4>1. k \in 0 .. n /\ (k # 0 => k - 1 \in 0 .. m /\ k - 1 # m)
        BY <3>2
      <4>2. g[k] = f[k] /\ (k # 0 => g[k - 1] = f[k - 1])
        BY ONLY <2>1, <3>2, <4>1, k \in 0 .. m
      <4>. QED
        BY ONLY <2>2, <4>1, <4>2
    <3>. QED
      BY <3>1, <3>2
  <2>4. g = [k \in 0 .. m |-> g[k]]
    OBVIOUS
  <2>5. IsBelow(g, root, m)
    BY ONLY <2>3, <2>4 DEF IsBelow
  <2>. QED
    BY <2>5
<1>3. \A n \in 0 .. D : n \in S
  <2>. HIDE DEF S
  <2>. QED
    BY <1>1, <1>2, UpTo
<1>. QED
  BY <1>3

\* Down to one level more is with what is under each rule.
LEMMA BelowIs ==
  ASSUME NEW root, NEW d \in Nat
  PROVE  /\ Below(root, 0, Under) = {root}
         /\ Below(root, d + 1, Under) = Opened(Below(root, d, Under))
<1>. DEFINE at(D) == CHOOSE f : IsBelow(f, root, D)
<1>1. ASSUME NEW D \in Nat
      PROVE  /\ Below(root, D, Under) = at(D)[D]
             /\ \A n \in 0 .. D : at(D)[n] = IF n = 0 THEN {root} ELSE Opened(at(D)[n - 1])
  <2>1. IsBelow(at(D), root, D)
    BY BelowExists
  <2>2. Below(root, D, Under) = at(D)[D]
    BY DEF Below, IsBelow, Opened
  <2>. HIDE DEF at
  <2>. QED
    BY <2>1, <2>2 DEF IsBelow
<1>. HIDE DEF at
<1>2. Below(root, 0, Under) = {root}
  BY <1>1
<1>. PICK m \in Nat : m = d + 1
  OBVIOUS
<1>. DEFINE S == {n \in 0 .. d : at(d)[n] = at(m)[n]}
<1>3. 0 \in S
  BY <1>1
<1>4. ASSUME NEW n \in 0 .. d, n < d, n \in S PROVE n + 1 \in S
  <2>1. n + 1 \in 0 .. d /\ n + 1 \in 0 .. m /\ n + 1 # 0 /\ (n + 1) - 1 = n
    BY <1>4
  <2>2. at(d)[n + 1] = Opened(at(d)[n]) /\ at(m)[n + 1] = Opened(at(m)[n]) /\ at(d)[n] = at(m)[n]
    BY <1>1, <1>4, <2>1
  <2>. QED
    BY <2>1, <2>2
<1>5. \A n \in 0 .. d : n \in S
  <2>. HIDE DEF S
  <2>. QED
    BY <1>3, <1>4, UpTo
<1>6. at(d)[d] = at(m)[d]
  <2>1. d \in 0 .. d
    OBVIOUS
  <2>. QED
    BY <1>5, <2>1
<1>7. at(m)[m] = Opened(at(m)[d])
  <2>1. m \in 0 .. m /\ m # 0 /\ m - 1 = d
    OBVIOUS
  <2>. QED
    BY <1>1, <2>1
<1>. QED
  BY <1>1, <1>2, <1>6, <1>7

Unfolded(S) == S \cup UNION {ToSet(Children(r)) : r \in S}
IsWithin(f, root, D) == f = [n \in 0 .. D |-> IF n = 0 THEN {root} ELSE Unfolded(f[n - 1])]
LEMMA WithinExists ==
  ASSUME NEW root, NEW D \in Nat
  PROVE  \E f : IsWithin(f, root, D)
<1>. DEFINE S == {n \in 0 .. D : \E f : IsWithin(f, root, n)}
<1>1. 0 \in S
  <2>. PICK f : f = [n \in 0 .. 0 |-> {root}]
    OBVIOUS
  <2>1. IsWithin(f, root, 0)
    BY DEF IsWithin
  <2>. QED
    BY <2>1
<1>2. ASSUME NEW n \in 0 .. D, n < D, n \in S PROVE n + 1 \in S
  <2>. PICK f : IsWithin(f, root, n)
    BY <1>2
  <2>. PICK m \in 1 .. D : m = n + 1
    BY <1>2
  <2>. PICK g : g = [k \in 0 .. m |-> IF k = m THEN Unfolded(f[n]) ELSE f[k]]
    OBVIOUS
  <2>1. \A k \in 0 .. m : g[k] = IF k = m THEN Unfolded(f[n]) ELSE f[k]
    OBVIOUS
  <2>2. \A k \in 0 .. n : f[k] = IF k = 0 THEN {root} ELSE Unfolded(f[k - 1])
    BY DEF IsWithin
  <2>3. ASSUME NEW k \in 0 .. m PROVE g[k] = IF k = 0 THEN {root} ELSE Unfolded(g[k - 1])
    <3>1. CASE k = m
      <4>1. k # 0 /\ k - 1 = n /\ n \in 0 .. m /\ n # m
        BY <3>1
      <4>. QED
        BY ONLY <2>1, <3>1, <4>1, k \in 0 .. m
    <3>2. CASE k # m
      <4>1. k \in 0 .. n /\ (k # 0 => k - 1 \in 0 .. m /\ k - 1 # m)
        BY <3>2
      <4>2. g[k] = f[k] /\ (k # 0 => g[k - 1] = f[k - 1])
        BY ONLY <2>1, <3>2, <4>1, k \in 0 .. m
      <4>. QED
        BY ONLY <2>2, <4>1, <4>2
    <3>. QED
      BY <3>1, <3>2
  <2>4. g = [k \in 0 .. m |-> g[k]]
    OBVIOUS
  <2>5. IsWithin(g, root, m)
    BY ONLY <2>3, <2>4 DEF IsWithin
  <2>. QED
    BY <2>5
<1>3. \A n \in 0 .. D : n \in S
  <2>. HIDE DEF S
  <2>. QED
    BY <1>1, <1>2, UpTo
<1>. QED
  BY <1>3

\* The same of a report.
LEMMA WithinIs ==
  ASSUME NEW root, NEW d \in Nat
  PROVE  /\ Below(root, 0, Children) = {root}
         /\ Below(root, d + 1, Children) = Unfolded(Below(root, d, Children))
<1>. DEFINE at(D) == CHOOSE f : IsWithin(f, root, D)
<1>1. ASSUME NEW D \in Nat
      PROVE  /\ Below(root, D, Children) = at(D)[D]
             /\ \A n \in 0 .. D : at(D)[n] = IF n = 0 THEN {root} ELSE Unfolded(at(D)[n - 1])
  <2>1. IsWithin(at(D), root, D)
    BY WithinExists
  <2>2. Below(root, D, Children) = at(D)[D]
    BY DEF Below, IsWithin, Unfolded
  <2>. HIDE DEF at
  <2>. QED
    BY <2>1, <2>2 DEF IsWithin
<1>. HIDE DEF at
<1>2. Below(root, 0, Children) = {root}
  BY <1>1
<1>. PICK m \in Nat : m = d + 1
  OBVIOUS
<1>. DEFINE S == {n \in 0 .. d : at(d)[n] = at(m)[n]}
<1>3. 0 \in S
  BY <1>1
<1>4. ASSUME NEW n \in 0 .. d, n < d, n \in S PROVE n + 1 \in S
  <2>1. n + 1 \in 0 .. d /\ n + 1 \in 0 .. m /\ n + 1 # 0 /\ (n + 1) - 1 = n
    BY <1>4
  <2>2. at(d)[n + 1] = Unfolded(at(d)[n]) /\ at(m)[n + 1] = Unfolded(at(m)[n]) /\ at(d)[n] = at(m)[n]
    BY <1>1, <1>4, <2>1
  <2>. QED
    BY <2>1, <2>2
<1>5. \A n \in 0 .. d : n \in S
  <2>. HIDE DEF S
  <2>. QED
    BY <1>3, <1>4, UpTo
<1>6. at(d)[d] = at(m)[d]
  <2>1. d \in 0 .. d
    OBVIOUS
  <2>. QED
    BY <1>5, <2>1
<1>7. at(m)[m] = Unfolded(at(m)[d])
  <2>1. m \in 0 .. m /\ m # 0 /\ m - 1 = d
    OBVIOUS
  <2>. QED
    BY <1>1, <2>1
<1>. QED
  BY <1>1, <1>2, <1>6, <1>7

\* The nodes of a report in document order, level by level.
Walked(root, D, n, below) ==
    [r \in Below(root, D - n, Children) |->
        <<r>> \o IF n = 0 THEN <<>> ELSE FlattenSeq([i \in DOMAIN Children(r) |-> below[Children(r)[i]]])]
IsWalk(f, root, D, N) == f = [n \in 0 .. N |-> Walked(root, D, n, f[n - 1])]
LEMMA WalkExists ==
  ASSUME NEW root, NEW D, NEW N \in Nat, \A a, b : Walked(root, D, 0, a) = Walked(root, D, 0, b)
  PROVE  \E f : IsWalk(f, root, D, N)
<1>. DEFINE S == {n \in 0 .. N : \E f : IsWalk(f, root, D, n)}
<1>1. 0 \in S
  <2>. PICK f : f = [n \in 0 .. 0 |-> Walked(root, D, 0, 0)]
    OBVIOUS
  <2>1. f = [n \in 0 .. 0 |-> f[n]] /\ \A n \in 0 .. 0 : n = 0 /\ f[n] = Walked(root, D, 0, 0)
    OBVIOUS
  <2>2. \A n \in 0 .. 0 : f[n] = Walked(root, D, n, f[n - 1])
    BY <2>1
  <2>3. IsWalk(f, root, D, 0)
    BY <2>1, <2>2 DEF IsWalk
  <2>. QED
    BY <2>3
<1>2. ASSUME NEW n \in 0 .. N, n < N, n \in S PROVE n + 1 \in S
  <2>. PICK f : IsWalk(f, root, D, n)
    BY <1>2
  <2>. PICK m \in 1 .. N : m = n + 1
    BY <1>2
  <2>. PICK new : new = Walked(root, D, m, f[n])
    OBVIOUS
  <2>. PICK g : g = [k \in 0 .. m |-> IF k = m THEN new ELSE f[k]]
    OBVIOUS
  <2>1. \A k \in 0 .. m : g[k] = IF k = m THEN new ELSE f[k]
    OBVIOUS
  <2>2. \A k \in 0 .. n : f[k] = Walked(root, D, k, f[k - 1])
    BY DEF IsWalk
  <2>3. ASSUME NEW k \in 0 .. m PROVE g[k] = Walked(root, D, k, g[k - 1])
    <3>1. CASE k = m
      <4>1. k - 1 = n /\ n \in 0 .. m /\ n # m
        BY <3>1
      <4>2. g[k - 1] = f[n] /\ g[k] = new
        BY ONLY <2>1, <3>1, <4>1, k \in 0 .. m
      <4>. QED
        BY ONLY <3>1, <4>2, new = Walked(root, D, m, f[n])
    <3>2. CASE k # m /\ k # 0
      <4>1. k \in 0 .. n /\ k - 1 \in 0 .. m /\ k - 1 # m
        BY <3>2
      <4>2. g[k] = f[k] /\ g[k - 1] = f[k - 1]
        BY ONLY <2>1, <3>2, <4>1, k \in 0 .. m
      <4>3. f[k] = Walked(root, D, k, f[k - 1])
        BY <2>2, <4>1
      <4>. QED
        BY ONLY <4>2, <4>3
    <3>3. CASE k # m /\ k = 0
      <4>1. k \in 0 .. n
        BY <3>3
      <4>2. g[k] = f[k]
        BY ONLY <2>1, <3>3, k \in 0 .. m
      <4>3. f[k] = Walked(root, D, 0, f[k - 1])
        BY <2>2, <3>3, <4>1
      <4>4. Walked(root, D, 0, f[k - 1]) = Walked(root, D, 0, g[k - 1])
        OBVIOUS
      <4>. QED
        BY ONLY <3>3, <4>2, <4>3, <4>4
    <3>. QED
      BY <3>1, <3>2, <3>3
  <2>4. g = [k \in 0 .. m |-> g[k]]
    OBVIOUS
  <2>5. IsWalk(g, root, D, m)
    BY ONLY <2>3, <2>4 DEF IsWalk
  <2>. QED
    BY <2>5
<1>3. \A n \in 0 .. N : n \in S
  <2>. HIDE DEF S
  <2>. QED
    BY <1>1, <1>2, UpTo
<1>. QED
  BY <1>3

HasKids(y, C) == \E n \in Nat : y.children \in [1 .. n -> C]
\* What is walked of a report is in any set that holds it and, with each
\* report, its children.
LEMMA WalkStays ==
  ASSUME NEW C, NEW root \in C, \A y \in C : HasKids(y, C), MaxDepth \in Nat
  PROVE  Rules(root) \in Seq(C)
<1>. PICK D \in Nat : D = MaxDepth
  OBVIOUS
<1>1. \A a, b : Walked(root, D, 0, a) = Walked(root, D, 0, b)
  BY DEF Walked
<1>. DEFINE walk == CHOOSE f : IsWalk(f, root, D, D)
<1>2. IsWalk(walk, root, D, D)
  BY <1>1, WalkExists
<1>3. Rules(root) = walk[D][root]
  BY DEF Rules, WalkTo, IsWalk, Walked
<1>. HIDE DEF walk
<1>. PICK below : below = [d \in 0 .. D |-> Below(root, d, Children)]
  OBVIOUS
<1>4. \A d \in 0 .. D : below[d] = Below(root, d, Children)
  OBVIOUS
<1>5. below[0] = {root} /\ \A d \in 0 .. D : d < D => below[d + 1] = Unfolded(below[d])
  <2>1. ASSUME NEW d \in 0 .. D, d < D PROVE below[d + 1] = Unfolded(below[d])
    <3>1. d + 1 \in 0 .. D /\ d \in Nat
      BY <2>1
    <3>. QED
      BY <1>4, <3>1, WithinIs
  <2>2. below[0] = {root}
    BY <1>4, WithinIs
  <2>. QED
    BY <2>1, <2>2
<1>6. \A d \in 0 .. D : below[d] \subseteq C
  <2>. DEFINE S == {d \in 0 .. D : below[d] \subseteq C}
  <2>1. 0 \in S
    BY <1>5
  <2>2. ASSUME NEW d \in 0 .. D, d < D, d \in S PROVE d + 1 \in S
    <3>1. ASSUME NEW r \in below[d] PROVE ToSet(Children(r)) \subseteq C
      <4>. PICK k \in Nat : r.children \in [1 .. k -> C]
        BY <2>2 DEF HasKids
      <4>. QED
        BY DEF ToSet, Children
    <3>2. below[d + 1] = Unfolded(below[d]) /\ below[d] \subseteq C /\ d + 1 \in 0 .. D
      BY <1>5, <2>2
    <3>3. below[d + 1] \subseteq C
      BY ONLY <3>1, <3>2 DEF Unfolded
    <3>. QED
      BY <3>2, <3>3
  <2>3. \A d \in 0 .. D : d \in S
    <3>. HIDE DEF S
    <3>. QED
      BY <2>1, <2>2, UpTo
  <2>. QED
    BY <2>3
<1>7. ASSUME NEW n \in 0 .. D
      PROVE  walk[n] = [r \in below[D - n] |-> <<r>> \o IF n = 0 THEN <<>>
                          ELSE FlattenSeq([i \in DOMAIN Children(r) |-> walk[n - 1][Children(r)[i]]])]
  <2>1. D - n \in 0 .. D
    OBVIOUS
  <2>2. walk[n] = Walked(root, D, n, walk[n - 1])
    BY <1>2 DEF IsWalk
  <2>. QED
    BY <1>4, <2>1, <2>2 DEF Walked
<1>. DEFINE T == {n \in 0 .. D : \A r \in below[D - n] : walk[n][r] \in Seq(C)}
<1>8. 0 \in T
  <2>1. ASSUME NEW r \in below[D - 0] PROVE walk[0][r] \in Seq(C)
    <3>1. 0 \in 0 .. D
      OBVIOUS
    <3>2. walk[0] = [q \in below[D - 0] |-> <<q>> \o IF 0 = 0 THEN <<>>
                       ELSE FlattenSeq([i \in DOMAIN Children(q) |-> walk[0 - 1][Children(q)[i]]])]
      BY <1>7, <3>1
    <3>3. walk[0][r] = <<r>> \o <<>>
      BY ONLY <2>1, <3>2
    <3>4. below[D - 0] \subseteq C
      <4>1. D - 0 \in 0 .. D
        OBVIOUS
      <4>. QED
        BY <1>6, <4>1
    <3>5. r \in C
      BY <2>1, <3>4
    <3>. QED
      BY ONLY <3>3, <3>5
  <2>. QED
    BY <2>1
<1>9. ASSUME NEW n \in 0 .. D, n < D, n \in T PROVE n + 1 \in T
  <2>. PICK m \in 1 .. D : m = n + 1
    BY <1>9
  <2>. PICK d \in 0 .. D : d = D - m
    OBVIOUS
  <2>1. ASSUME NEW r \in below[d] PROVE walk[m][r] \in Seq(C)
    <3>. PICK kids : kids = Children(r)
      OBVIOUS
    <3>. PICK k \in Nat : kids \in [1 .. k -> C]
      BY <1>6 DEF HasKids, Children
    <3>1. d + 1 = D - n /\ d < D
      OBVIOUS
    <3>2. \A i \in 1 .. k : kids[i] \in below[D - n]
      <4>1. below[d + 1] = Unfolded(below[d])
        BY <1>5, <3>1
      <4>2. ToSet(Children(r)) \subseteq below[d + 1]
        BY <4>1 DEF Unfolded
      <4>3. \A i \in 1 .. k : kids[i] \in ToSet(Children(r))
        BY DEF ToSet
      <4>. QED
        BY <3>1, <4>2, <4>3
    <3>. PICK lists : lists = [i \in 1 .. k |-> walk[n][kids[i]]]
      OBVIOUS
    <3>3. lists \in [1 .. k -> Seq(C)]
      <4>1. \A i \in 1 .. k : walk[n][kids[i]] \in Seq(C)
        BY <1>9, <3>2
      <4>. QED
        BY <4>1
    <3>4. FlattenSeq(lists) \in Seq(C)
      BY <3>3, Flattened
    <3>5. walk[m][r] = <<r>> \o FlattenSeq(lists)
      <4>1. m \in 0 .. D /\ m # 0 /\ m - 1 = n /\ d = D - m /\ DOMAIN kids = 1 .. k
        OBVIOUS
      <4>2. walk[m] = [s \in below[D - m] |-> <<s>> \o IF m = 0 THEN <<>>
                          ELSE FlattenSeq([i \in DOMAIN Children(s) |-> walk[m - 1][Children(s)[i]]])]
        BY <1>7, <4>1
      <4>3. walk[m][r] = <<r>> \o FlattenSeq([i \in DOMAIN Children(r) |-> walk[m - 1][Children(r)[i]]])
        BY ONLY <4>1, <4>2, r \in below[d]
      <4>. QED
        BY ONLY <4>1, <4>3, kids = Children(r), lists = [i \in 1 .. k |-> walk[n][kids[i]]]
    <3>6. r \in C
      BY <1>6
    <3>. QED
      BY ONLY <3>4, <3>5, <3>6
  <2>. QED
    BY <2>1
<1>10. \A n \in 0 .. D : n \in T
  <2>. HIDE DEF T
  <2>. QED
    BY <1>8, <1>9, UpTo
<1>11. walk[D][root] \in Seq(C)
  <2>1. D \in 0 .. D /\ D - D = 0
    OBVIOUS
  <2>2. root \in below[D - D]
    BY <1>5, <2>1
  <2>. QED
    BY <1>10, <2>1, <2>2
<1>. QED
  BY <1>3, <1>11

-----------------------------------------------------------------------------
(* Reports of rules.  A count is good when it tells what the outcome tells; *)
(* a report is sound when its counts and those of all reports in it are.    *)

Good(y) == /\ y.progress.met \in Nat /\ y.progress.checkable \in Nat /\ y.progress.met <= y.progress.checkable
           /\ y.progress.checkable > 0 => (y.progress.met = y.progress.checkable <=> y.outcome = "met")
Closed(C) == \A y \in C : Good(y) /\ HasKids(y, C)
Fits(y, most) == y.progress.checkable <= most /\ \E C : y \in C /\ Closed(C)

LEMMA OneMore ==
  ASSUME NEW n \in Nat, NEW list, list = [k \in 1 .. n |-> list[k]], NEW e
  PROVE  /\ Append(list, e) = [k \in 1 .. (n + 1) |-> IF k = n + 1 THEN e ELSE list[k]]
         /\ \A k \in 1 .. n : Append(list, e)[k] = list[k]
         /\ Append(list, e)[n + 1] = e
<1>. PICK Held : Held = {list[k] : k \in 1 .. n} \cup {e}
  OBVIOUS
<1>1. list \in Seq(Held) /\ Len(list) = n
  <2>1. \A k \in 1 .. n : list[k] \in Held
    OBVIOUS
  <2>. QED
    BY <2>1, ListOf
<1>. QED
  BY <1>1

\* The reports of a group's children, one after the other.
OnRule(ctx, r, used, prev, k, before) ==
    IF k = 0 THEN [reports |-> <<>>, used |-> used]
    ELSE IF r.of[k].kind = "distinct"
         THEN [reports |-> Append(before.reports, DistinctReport(ctx, r.of[k], r.of)), used |-> before.used]
         ELSE [reports |-> Append(before.reports, prev[<<r.of[k], before.used>>].report),
               used |-> prev[<<r.of[k], before.used>>].used]
IsInside(f, ctx, r, used, prev, N) == f = [n \in 0 .. N |-> OnRule(ctx, r, used, prev, n, f[n - 1])]
LEMMA InsideExists ==
  ASSUME NEW ctx, NEW r, NEW used, NEW prev, NEW N \in Nat, \A a, b : OnRule(ctx, r, used, prev, 0, a) = OnRule(ctx, r, used, prev, 0, b)
  PROVE  \E f : IsInside(f, ctx, r, used, prev, N)
<1>. DEFINE S == {n \in 0 .. N : \E f : IsInside(f, ctx, r, used, prev, n)}
<1>1. 0 \in S
  <2>. PICK f : f = [n \in 0 .. 0 |-> OnRule(ctx, r, used, prev, 0, 0)]
    OBVIOUS
  <2>1. f = [n \in 0 .. 0 |-> f[n]] /\ \A n \in 0 .. 0 : n = 0 /\ f[n] = OnRule(ctx, r, used, prev, 0, 0)
    OBVIOUS
  <2>2. \A n \in 0 .. 0 : f[n] = OnRule(ctx, r, used, prev, n, f[n - 1])
    BY <2>1
  <2>3. IsInside(f, ctx, r, used, prev, 0)
    BY <2>1, <2>2 DEF IsInside
  <2>. QED
    BY <2>3
<1>2. ASSUME NEW n \in 0 .. N, n < N, n \in S PROVE n + 1 \in S
  <2>. PICK f : IsInside(f, ctx, r, used, prev, n)
    BY <1>2
  <2>. PICK m \in 1 .. N : m = n + 1
    BY <1>2
  <2>. PICK new : new = OnRule(ctx, r, used, prev, m, f[n])
    OBVIOUS
  <2>. PICK g : g = [k \in 0 .. m |-> IF k = m THEN new ELSE f[k]]
    OBVIOUS
  <2>1. \A k \in 0 .. m : g[k] = IF k = m THEN new ELSE f[k]
    OBVIOUS
  <2>2. \A k \in 0 .. n : f[k] = OnRule(ctx, r, used, prev, k, f[k - 1])
    BY DEF IsInside
  <2>3. ASSUME NEW k \in 0 .. m PROVE g[k] = OnRule(ctx, r, used, prev, k, g[k - 1])
    <3>1. CASE k = m
      <4>1. k - 1 = n /\ n \in 0 .. m /\ n # m
        BY <3>1
      <4>2. g[k - 1] = f[n] /\ g[k] = new
        BY ONLY <2>1, <3>1, <4>1, k \in 0 .. m
      <4>. QED
        BY ONLY <3>1, <4>2, new = OnRule(ctx, r, used, prev, m, f[n])
    <3>2. CASE k # m /\ k # 0
      <4>1. k \in 0 .. n /\ k - 1 \in 0 .. m /\ k - 1 # m
        BY <3>2
      <4>2. g[k] = f[k] /\ g[k - 1] = f[k - 1]
        BY ONLY <2>1, <3>2, <4>1, k \in 0 .. m
      <4>3. f[k] = OnRule(ctx, r, used, prev, k, f[k - 1])
        BY <2>2, <4>1
      <4>. QED
        BY ONLY <4>2, <4>3
    <3>3. CASE k # m /\ k = 0
      <4>1. k \in 0 .. n
        BY <3>3
      <4>2. g[k] = f[k]
        BY ONLY <2>1, <3>3, k \in 0 .. m
      <4>3. f[k] = OnRule(ctx, r, used, prev, 0, f[k - 1])
        BY <2>2, <3>3, <4>1
      <4>4. OnRule(ctx, r, used, prev, 0, f[k - 1]) = OnRule(ctx, r, used, prev, 0, g[k - 1])
        OBVIOUS
      <4>. QED
        BY ONLY <3>3, <4>2, <4>3, <4>4
    <3>. QED
      BY <3>1, <3>2, <3>3
  <2>4. g = [k \in 0 .. m |-> g[k]]
    OBVIOUS
  <2>5. IsInside(g, ctx, r, used, prev, m)
    BY ONLY <2>3, <2>4 DEF IsInside
  <2>. QED
    BY <2>5
<1>3. \A n \in 0 .. N : n \in S
  <2>. HIDE DEF S
  <2>. QED
    BY <1>1, <1>2, UpTo
<1>. QED
  BY <1>3

InsideOf(ctx, r, used, below) == Inside(ctx, r, used, LAMBDA y : below[y])

\* Each child's report fits, and only cards on the board are used up.
Reads(x, n, most, E) ==
    /\ x = [reports |-> x.reports, used |-> x.used] /\ x.used \in SUBSET E
    /\ x.reports = [k \in 1 .. n |-> x.reports[k]] /\ \A k \in 1 .. n : Fits(x.reports[k], most[k])
LEMMA InsideReads ==
  ASSUME NEW ctx, NEW r, NEW E, NEW used \in SUBSET E, NEW prev, NEW N \in Nat, Len(r.of) = N, NEW most,
         \A k \in 1 .. N : r.of[k].kind = "distinct" => Fits(DistinctReport(ctx, r.of[k], r.of), most[k]),
         \A k \in 1 .. N : \A u \in SUBSET E : r.of[k].kind # "distinct" =>
             prev[<<r.of[k], u>>].used \in SUBSET E /\ Fits(prev[<<r.of[k], u>>].report, most[k])
  PROVE  Reads(InsideOf(ctx, r, used, prev), N, most, E)
<1>1. \A a, b : OnRule(ctx, r, used, prev, 0, a) = OnRule(ctx, r, used, prev, 0, b)
  BY DEF OnRule
<1>. DEFINE inside == CHOOSE f : IsInside(f, ctx, r, used, prev, N)
<1>2. IsInside(inside, ctx, r, used, prev, N)
  BY <1>1, InsideExists
<1>3. InsideOf(ctx, r, used, prev) = inside[N]
  BY DEF InsideOf, Inside, IsInside, OnRule
<1>. HIDE DEF inside
<1>4. \A k \in 0 .. N : inside[k] = OnRule(ctx, r, used, prev, k, inside[k - 1])
  BY <1>2 DEF IsInside
<1>. DEFINE T == {n \in 0 .. N : Reads(inside[n], n, most, E)}
<1>5. 0 \in T
  <2>1. inside[0] = [reports |-> <<>>, used |-> used]
    <3>1. 0 \in 0 .. N
      OBVIOUS
    <3>2. inside[0] = OnRule(ctx, r, used, prev, 0, inside[0 - 1])
      BY <1>4, <3>1
    <3>. QED
      BY ONLY <3>2 DEF OnRule
  <2>2. Reads(inside[0], 0, most, E)
    BY <2>1 DEF Reads
  <2>. QED
    BY <2>2
<1>6. ASSUME NEW n \in 0 .. N, n < N, n \in T PROVE n + 1 \in T
  <2>. PICK m \in 1 .. N : m = n + 1
    BY <1>6
  <2>. PICK old : old = inside[n]
    OBVIOUS
  <2>. PICK list : list = old.reports
    OBVIOUS
  <2>1. /\ old = [reports |-> list, used |-> old.used] /\ old.used \in SUBSET E
        /\ list = [k \in 1 .. n |-> list[k]] /\ \A k \in 1 .. n : Fits(list[k], most[k])
    BY <1>6 DEF Reads
  <2>2. inside[m] = OnRule(ctx, r, used, prev, m, old)
    <3>1. m \in 0 .. N /\ m - 1 = n
      OBVIOUS
    <3>. QED
      BY <1>4, <3>1
  <2>3. \E e, u : u \in SUBSET E /\ inside[m] = [reports |-> Append(list, e), used |-> u] /\ Fits(e, most[m])
    <3>1. CASE r.of[m].kind = "distinct"
      <4>. PICK e : e = DistinctReport(ctx, r.of[m], r.of)
        OBVIOUS
      <4>. PICK u \in SUBSET E : u = old.used
        BY <2>1
      <4>1. inside[m] = [reports |-> Append(list, e), used |-> u]
        BY ONLY <2>2, <3>1, m \in 1 .. N, N \in Nat, e = DistinctReport(ctx, r.of[m], r.of), list = old.reports,
                u = old.used DEF OnRule
      <4>2. Fits(e, most[m])
        BY <3>1
      <4>. QED
        BY ONLY <4>1, <4>2, u \in SUBSET E
    <3>2. CASE r.of[m].kind # "distinct"
      <4>. PICK one : one = prev[<<r.of[m], old.used>>]
        OBVIOUS
      <4>1. one.used \in SUBSET E /\ Fits(one.report, most[m])
        BY <2>1, <3>2
      <4>. PICK e, u : e = one.report /\ u = one.used
        OBVIOUS
      <4>2. inside[m] = [reports |-> Append(list, e), used |-> u]
        BY ONLY <2>2, <3>2, m \in 1 .. N, N \in Nat, one = prev[<<r.of[m], old.used>>], list = old.reports,
                e = one.report, u = one.used DEF OnRule
      <4>3. u \in SUBSET E /\ Fits(e, most[m])
        BY ONLY <4>1, e = one.report, u = one.used
      <4>. QED
        BY ONLY <4>2, <4>3
    <3>. QED
      BY <3>1, <3>2
  <2>. PICK e, u : u \in SUBSET E /\ inside[m] = [reports |-> Append(list, e), used |-> u] /\ Fits(e, most[m])
    BY <2>3
  <2>. PICK new : new = Append(list, e)
    OBVIOUS
  <2>4. /\ new = [k \in 1 .. m |-> IF k = m THEN e ELSE list[k]]
        /\ \A k \in 1 .. n : new[k] = list[k]
        /\ new[m] = e
    BY <2>1, OneMore
  <2>5. new = [k \in 1 .. m |-> new[k]]
    BY <2>4
  <2>6. \A k \in 1 .. m : Fits(new[k], most[k])
    <3>1. \A k \in 1 .. m : k = m \/ k \in 1 .. n
      OBVIOUS
    <3>2. Fits(e, most[m])
      OBVIOUS
    <3>. QED
      BY ONLY <2>1, <2>4, <3>1, <3>2
  <2>7. inside[m] = [reports |-> new, used |-> u] /\ u \in SUBSET E
    OBVIOUS
  <2>8. Reads(inside[m], m, most, E)
    BY ONLY <2>5, <2>6, <2>7 DEF Reads
  <2>. QED
    BY <2>8
<1>7. \A n \in 0 .. N : n \in T
  <2>. HIDE DEF T
  <2>. QED
    BY <1>5, <1>6, UpTo
<1>8. Reads(inside[N], N, most, E)
  <2>1. N \in 0 .. N
    OBVIOUS
  <2>. QED
    BY <1>7, <2>1
<1>. QED
  BY <1>3, <1>8

LEMMA LeafFits ==
  ASSUME NEW y, y.children = <<>>, Good(y), NEW most, y.progress.checkable <= most
  PROVE  Fits(y, most)
<1>. PICK C : C = {y}
  OBVIOUS
<1>1. HasKids(y, C)
  <2>1. <<>> \in [1 .. 0 -> C]
    OBVIOUS
  <2>. QED
    BY <2>1 DEF HasKids
<1>. QED
  BY <1>1 DEF Fits, Closed

LEMMA SelfCheckFits ==
  ASSUME NEW ctx, NEW r, NEW most \in Nat
  PROVE  Fits(SelfCheck(ctx, r), most)
<1>. PICK y : y = SelfCheck(ctx, r)
  OBVIOUS
<1>1. y.children = <<>> /\ y.progress.met = 0 /\ y.progress.checkable = 0
  BY DEF SelfCheck, Report, Zero
<1>. QED
  BY <1>1, LeafFits DEF Good

\* A rule the engine decides counts as one.
LEMMA DecidedFits ==
  ASSUME NEW y, NEW met, y.children = <<>>, y.progress.checkable = 1, y.progress.met = Bit(met),
         NEW some, y.outcome = Graded(met, some), NEW most \in Nat, most >= 1
  PROVE  Fits(y, most)
<1>1. y.outcome = "met" <=> met
  BY DEF Graded
<1>2. Good(y)
  BY <1>1 DEF Good, Bit
<1>. QED
  BY <1>2, LeafFits

LEMMA CourseFits ==
  ASSUME NEW ctx, NEW r, NEW most \in Nat, most >= 1
  PROVE  Fits(CourseReport(ctx, r), most)
<1>. PICK y : y = CourseReport(ctx, r)
  OBVIOUS
<1>1. \E met, some : /\ y.children = <<>> /\ y.progress.checkable = 1 /\ y.progress.met = Bit(met)
                     /\ y.outcome = Graded(met, some)
  BY DEF CourseReport, Report, Zero
<1>. QED
  BY <1>1, DecidedFits

LEMMA CreditsFit ==
  ASSUME NEW ctx, NEW r, NEW used, NEW most \in Nat, most >= 1
  PROVE  Fits(CreditsReport(ctx, r, used), most)
<1>. PICK y : y = CreditsReport(ctx, r, used)
  OBVIOUS
<1>1. \E met, some : /\ y.children = <<>> /\ y.progress.checkable = 1 /\ y.progress.met = Bit(met)
                     /\ y.outcome = Graded(met, some)
  BY DEF CreditsReport, Report, Zero
<1>. QED
  BY <1>1, DecidedFits

LEMMA DistinctFits ==
  ASSUME NEW ctx, NEW r, NEW siblings, NEW most \in Nat, most >= 1
  PROVE  Fits(DistinctReport(ctx, r, siblings), most)
<1>. PICK y : y = DistinctReport(ctx, r, siblings)
  OBVIOUS
<1>1. \/ \E held : y = [SelfCheck(ctx, r) EXCEPT !.filledBy = held]
      \/ \E met, some : /\ y.children = <<>> /\ y.progress.checkable = 1 /\ y.progress.met = Bit(met)
                        /\ y.outcome = Graded(met, some)
  BY DEF DistinctReport, Report, Zero
<1>2. CASE \E held : y = [SelfCheck(ctx, r) EXCEPT !.filledBy = held]
  <2>1. y.children = <<>> /\ y.progress.met = 0 /\ y.progress.checkable = 0
    BY <1>2 DEF SelfCheck, Report, Zero
  <2>. QED
    BY <2>1, LeafFits DEF Good
<1>3. CASE \E met, some : /\ y.children = <<>> /\ y.progress.checkable = 1 /\ y.progress.met = Bit(met)
                          /\ y.outcome = Graded(met, some)
  BY <1>3, DecidedFits
<1>. QED
  BY <1>1, <1>2, <1>3

\* What a group's children count: as much is met as is counted when each that
\* counts is met, and nothing is counted when none counts.
Counts(children, N, met, checkable, M, C) ==
    /\ met \in Nat /\ checkable \in Nat /\ M \in Nat /\ C \in Nat /\ met <= checkable /\ M <= C
    /\ (met = checkable <=> M = C) /\ (checkable = 0 <=> C = 0)
LEMMA ChildrenCount ==
  ASSUME NEW N \in Nat, NEW children, \A k \in 1 .. N : Good(children[k]),
         NEW at, at = {k \in 1 .. N : children[k].progress.checkable > 0},
         NEW metAt, metAt = {k \in at : children[k].outcome = "met"}
  PROVE  Counts(children, N, Total([k \in 1 .. N |-> children[k].progress.met]),
                Total([k \in 1 .. N |-> children[k].progress.checkable]), Cardinality(metAt), Cardinality(at))
<1>. PICK a : a = [k \in 1 .. N |-> children[k].progress.met]
  OBVIOUS
<1>. PICK b : b = [k \in 1 .. N |-> children[k].progress.checkable]
  OBVIOUS
<1>1. /\ a \in [1 .. N -> Nat] /\ b \in [1 .. N -> Nat]
      /\ \A k \in 1 .. N : a[k] <= b[k] /\ (b[k] > 0 => (a[k] = b[k] <=> children[k].outcome = "met"))
      /\ \A k \in 1 .. N : b[k] = children[k].progress.checkable
  BY DEF Good
<1>2. /\ Total(a) \in Nat /\ Total(b) \in Nat /\ Total(a) <= Total(b)
      /\ Total(a) = Total(b) <=> \A k \in 1 .. N : a[k] = b[k]
      /\ Total(b) = 0 <=> \A k \in 1 .. N : b[k] = 0
  BY <1>1, TotalsCompare
<1>3. IsFiniteSet(at)
  <2>1. IsFiniteSet(1 .. N) /\ at \subseteq 1 .. N
    BY FS_Interval
  <2>. QED
    BY <2>1, FS_Subset
<1>. PICK C \in Nat : C = Cardinality(at)
  BY <1>3, FS_CardinalityType
<1>4. metAt \in SUBSET at
  OBVIOUS
<1>5. IsFiniteSet(metAt) /\ Cardinality(metAt) <= Cardinality(at) /\ (Cardinality(at) = Cardinality(metAt) => at = metAt)
  BY <1>3, <1>4, FS_Subset
<1>. PICK M \in Nat : M = Cardinality(metAt)
  BY <1>5, FS_CardinalityType
<1>6. M <= C /\ (M = C <=> metAt = at)
  BY <1>5
<1>7. C = 0 <=> at = {}
  BY <1>3, FS_EmptySet
<1>8. (\A k \in 1 .. N : a[k] = b[k]) <=> metAt = at
  <2>1. \A k \in 1 .. N : a[k] \in Nat /\ b[k] \in Nat
    BY <1>1
  <2>2. \A k \in 1 .. N : (k \in at <=> b[k] > 0) /\ (k \in metAt <=> k \in at /\ children[k].outcome = "met")
    BY <1>1
  <2>3. \A k \in 1 .. N : a[k] = b[k] <=> (k \in at => k \in metAt)
    BY ONLY <1>1, <2>1, <2>2
  <2>4. at \subseteq 1 .. N
    OBVIOUS
  <2>. QED
    BY ONLY <1>4, <2>3, <2>4
<1>9. (\A k \in 1 .. N : b[k] = 0) <=> at = {}
  <2>1. \A k \in 1 .. N : b[k] \in Nat /\ (k \in at <=> b[k] > 0)
    BY <1>1
  <2>. QED
    BY <2>1
<1>10. Counts(children, N, Total(a), Total(b), M, C)
  BY ONLY <1>2, <1>6, <1>7, <1>8, <1>9, M \in Nat, C \in Nat DEF Counts
<1>. QED
  BY <1>10

\* A report and the sets that close each of its children close it.
LEMMA Closing ==
  ASSUME NEW y, Good(y), NEW N \in Nat, y.children = [k \in 1 .. N |-> y.children[k]],
         NEW most, \A k \in 1 .. N : Fits(y.children[k], most[k]), NEW top, y.progress.checkable <= top
  PROVE  Fits(y, top)
<1>. DEFINE Of(k) == CHOOSE C : y.children[k] \in C /\ Closed(C)
<1>1. \A k \in 1 .. N : y.children[k] \in Of(k) /\ Closed(Of(k))
  BY DEF Fits
<1>. HIDE DEF Of
<1>. PICK C : C = {y} \cup UNION {Of(k) : k \in 1 .. N}
  OBVIOUS
<1>2. HasKids(y, C)
  <2>1. y.children \in [1 .. N -> C]
    BY <1>1
  <2>. QED
    BY <2>1 DEF HasKids
<1>3. ASSUME NEW k \in 1 .. N, NEW x \in Of(k) PROVE Good(x) /\ HasKids(x, C)
  <2>1. Good(x) /\ HasKids(x, Of(k))
    BY <1>1 DEF Closed
  <2>2. Of(k) \subseteq C
    OBVIOUS
  <2>3. PICK n \in Nat : x.children \in [1 .. n -> Of(k)]
    BY <2>1 DEF HasKids
  <2>4. x.children \in [1 .. n -> C]
    BY <2>2, <2>3
  <2>. QED
    BY <2>1, <2>4 DEF HasKids
<1>4. Closed(C)
  BY <1>2, <1>3 DEF Closed
<1>. QED
  BY <1>4 DEF Fits

LEMMA GroupFits ==
  ASSUME NEW ctx, NEW r, IsGroup(r), NEW N \in Nat, NEW children, children = [k \in 1 .. N |-> children[k]],
         NEW most \in [1 .. N -> Nat], \A k \in 1 .. N : Fits(children[k], most[k]),
         NEW top \in Nat, top <= MaxCents,
         r.kind = "select" => r.count \in Nat /\ r.count <= top, r.kind = "all" => Total(most) <= top
  PROVE  Fits(GroupReport(ctx, r, children), top)
<1>. PICK y : y = GroupReport(ctx, r, children)
  OBVIOUS
<1>. PICK at : at = {k \in 1 .. N : children[k].progress.checkable > 0}
  OBVIOUS
<1>. PICK metAt : metAt = {k \in at : children[k].outcome = "met"}
  OBVIOUS
<1>. PICK selfCheck : selfCheck = (\E c \in ToSet(children) : c.outcome \in {"check", "confirmed"})
  OBVIOUS
<1>. PICK some : some = (\E c \in ToSet(children) : c.outcome \in {"met", "partial", "confirmed"})
  OBVIOUS
<1>. PICK a : a = [k \in 1 .. N |-> children[k].progress.met]
  OBVIOUS
<1>. PICK b : b = [k \in 1 .. N |-> children[k].progress.checkable]
  OBVIOUS
<1>1. \A k \in 1 .. N : Good(children[k]) /\ children[k].progress.checkable <= most[k]
  BY DEF Fits, Closed
<1>. PICK M, C : M = Cardinality(metAt) /\ C = Cardinality(at)
  OBVIOUS
<1>2. Counts(children, N, Total(a), Total(b), M, C)
  BY <1>1, ChildrenCount
<1>. PICK met, checkable : met = Total(a) /\ checkable = Total(b)
  OBVIOUS
<1>3. /\ met \in Nat /\ checkable \in Nat /\ M \in Nat /\ C \in Nat /\ met <= checkable /\ M <= C
      /\ (met = checkable <=> M = C) /\ (checkable = 0 <=> C = 0)
  BY <1>2 DEF Counts
<1>4. DOMAIN children = 1 .. N
  OBVIOUS
<1>. PICK needed : needed = Needed(r, C, selfCheck)
  OBVIOUS
<1>. PICK sum : sum = Added([k \in DOMAIN children |-> children[k].progress])
  OBVIOUS
<1>5. sum.met = Capped(met) /\ sum.checkable = Capped(checkable) /\ sum = [f \in DOMAIN Zero |-> sum[f]]
  BY <1>4 DEF Added, Zero
<1>6. y = GroupOf(ctx, r, children, M, needed, selfCheck)
  BY <1>4 DEF GroupReport
<1>7. y.children = children
  BY ONLY <1>6 DEF GroupOf, Report
<1>8. y.progress = GroupProgress(r, sum, M, needed, children)
  BY ONLY <1>6, sum = Added([k \in DOMAIN children |-> children[k].progress]) DEF GroupOf, Report
<1>9. y.outcome = IF needed = 0 /\ selfCheck THEN "check" ELSE Graded(M >= needed, some)
  BY ONLY <1>6, some = (\E c \in ToSet(children) : c.outcome \in {"met", "partial", "confirmed"}) DEF GroupOf, Report
<1>10. needed \in Nat /\ needed > 0 => (y.outcome = "met" <=> M >= needed)
  <2>1. needed \in Nat /\ needed > 0 => y.outcome = Graded(M >= needed, some)
    BY ONLY <1>9
  <2>. QED
    BY ONLY <2>1 DEF Graded
<1>11. CASE r.kind = "all"
  <2>1. needed = C /\ y.progress = sum
    BY <1>8, <1>11 DEF Needed, GroupProgress
  <2>2. checkable <= top
    <3>1. \A k \in 1 .. N : b[k] <= most[k]
      BY <1>1
    <3>2. b \in [1 .. N -> Nat]
      BY <1>1 DEF Good
    <3>3. Total(b) <= Total(most) /\ Total(b) \in Nat /\ Total(most) \in Nat
      BY <3>1, <3>2, TotalsCompare
    <3>. QED
      BY <1>11, <3>3
  <2>3. Capped(met) = met /\ Capped(checkable) = checkable
    BY ONLY <1>3, <2>2, top \in Nat, top <= MaxCents, MaxCentsAssumption DEF Capped
  <2>4. y.progress.met = met /\ y.progress.checkable = checkable
    BY ONLY <1>5, <2>1, <2>3
  <2>5. checkable > 0 => (met = checkable <=> y.outcome = "met")
    BY ONLY <1>3, <1>10, <2>1
  <2>6. Good(y)
    BY ONLY <1>3, <2>4, <2>5 DEF Good
  <2>. QED
    BY <1>7, <2>2, <2>4, <2>6, Closing
<1>12. CASE r.kind = "select"
  <2>1. (needed = C /\ C < r.count) \/ needed = r.count
    BY ONLY <1>12, needed = Needed(r, C, selfCheck) DEF Needed
  <2>2. needed \in Nat /\ needed <= top
    BY ONLY <1>3, <1>12, <2>1, r.kind = "select" => r.count \in Nat /\ r.count <= top, top \in Nat
  <2>3. y.progress.met = (IF M < needed THEN M ELSE needed) /\ y.progress.checkable = needed
    BY ONLY <1>5, <1>8, <1>12 DEF GroupProgress, Zero
  <2>4. needed > 0 => (y.outcome = "met" <=> M >= needed)
    BY ONLY <1>10, <2>2
  <2>5. Good(y)
    BY ONLY <1>3, <2>2, <2>3, <2>4 DEF Good
  <2>. QED
    BY <1>7, <2>2, <2>3, <2>5, Closing
<1>. QED
  BY <1>11, <1>12 DEF IsGroup

\* A rule that is no group counts as one or, when it is not read, as none; it
\* uses up cards of the board only.
LEMMA RuleFits ==
  ASSUME NEW ctx, NEW M \in Nat, DOMAIN ctx.cards = 1 .. M, NEW used \in SUBSET EntriesIn(ctx),
         NEW r, NEW most \in Nat, r.kind \in {"course", "credits"} => most >= 1
  PROVE  /\ Fits(RuleReport(ctx, r, used).report, most)
         /\ RuleReport(ctx, r, used).used \in SUBSET EntriesIn(ctx)
<1>1. CASE r.kind = "course"
  <2>1. RuleReport(ctx, r, used) = [report |-> CourseReport(ctx, r), used |-> used]
    BY <1>1 DEF RuleReport
  <2>. QED
    BY <1>1, <2>1, CourseFits
<1>2. CASE r.kind = "credits"
  <2>. PICK credits : credits = CreditsReport(ctx, r, used)
    OBVIOUS
  <2>. PICK after : after = (IF r.scope = "additional" THEN used \cup ToSet(credits.filledBy) ELSE used)
    OBVIOUS
  <2>1. RuleReport(ctx, r, used) = [report |-> credits, used |-> after]
    BY <1>2 DEF RuleReport
  <2>2. Fits(credits, most)
    BY <1>2, CreditsFit
  <2>3. ToSet(credits.filledBy) \subseteq EntriesIn(ctx)
    <3>1. \E taken \in SUBSET (1 .. M) : credits.filledBy = EntriesAt(ctx, Ascending(taken))
      BY DEF CreditsReport, Report
    <3>. PICK taken \in SUBSET (1 .. M) : credits.filledBy = EntriesAt(ctx, Ascending(taken))
      BY <3>1
    <3>. PICK list : list = Ascending(taken)
      OBVIOUS
    <3>2. list \in Seq(taken)
      <4>1. IsFiniteSet(1 .. M)
        BY FS_Interval
      <4>2. IsFiniteSet(taken)
        BY <4>1, FS_Subset
      <4>3. taken \in SUBSET Nat
        OBVIOUS
      <4>. QED
        BY <4>2, <4>3, AscendingType
    <3>3. \A k \in DOMAIN list : list[k] \in 1 .. M
      <4>1. \A k \in DOMAIN list : list[k] \in taken
        BY <3>2
      <4>. QED
        BY ONLY <4>1, taken \in SUBSET (1 .. M)
    <3>. QED
      BY <3>3 DEF EntriesAt, EntriesIn, ToSet
  <2>. QED
    BY <2>1, <2>2, <2>3
<1>3. CASE r.kind \notin {"course", "credits"}
  <2>1. RuleReport(ctx, r, used) = [report |-> SelfCheck(ctx, r), used |-> used]
    BY <1>3 DEF RuleReport
  <2>. QED
    BY <2>1, SelfCheckFits
<1>. QED
  BY <1>1, <1>2, <1>3

\* What each rule can count, level by level.
Tallied(root, D, n, below) ==
    [r \in Below(root, D - n, Under) |->
        IF r.kind = "select" THEN r.count
        ELSE IF r.kind = "all" /\ n > 0 THEN Total([i \in DOMAIN r.of |-> below[r.of[i]]]) ELSE 1]
IsTallies(f, root, D, N) == f = [n \in 0 .. N |-> Tallied(root, D, n, f[n - 1])]
LEMMA TalliesExists ==
  ASSUME NEW root, NEW D, NEW N \in Nat, \A a, b : Tallied(root, D, 0, a) = Tallied(root, D, 0, b)
  PROVE  \E f : IsTallies(f, root, D, N)
<1>. DEFINE S == {n \in 0 .. N : \E f : IsTallies(f, root, D, n)}
<1>1. 0 \in S
  <2>. PICK f : f = [n \in 0 .. 0 |-> Tallied(root, D, 0, 0)]
    OBVIOUS
  <2>1. f = [n \in 0 .. 0 |-> f[n]] /\ \A n \in 0 .. 0 : n = 0 /\ f[n] = Tallied(root, D, 0, 0)
    OBVIOUS
  <2>2. \A n \in 0 .. 0 : f[n] = Tallied(root, D, n, f[n - 1])
    BY <2>1
  <2>3. IsTallies(f, root, D, 0)
    BY <2>1, <2>2 DEF IsTallies
  <2>. QED
    BY <2>3
<1>2. ASSUME NEW n \in 0 .. N, n < N, n \in S PROVE n + 1 \in S
  <2>. PICK f : IsTallies(f, root, D, n)
    BY <1>2
  <2>. PICK m \in 1 .. N : m = n + 1
    BY <1>2
  <2>. PICK new : new = Tallied(root, D, m, f[n])
    OBVIOUS
  <2>. PICK g : g = [k \in 0 .. m |-> IF k = m THEN new ELSE f[k]]
    OBVIOUS
  <2>1. \A k \in 0 .. m : g[k] = IF k = m THEN new ELSE f[k]
    OBVIOUS
  <2>2. \A k \in 0 .. n : f[k] = Tallied(root, D, k, f[k - 1])
    BY DEF IsTallies
  <2>3. ASSUME NEW k \in 0 .. m PROVE g[k] = Tallied(root, D, k, g[k - 1])
    <3>1. CASE k = m
      <4>1. k - 1 = n /\ n \in 0 .. m /\ n # m
        BY <3>1
      <4>2. g[k - 1] = f[n] /\ g[k] = new
        BY ONLY <2>1, <3>1, <4>1, k \in 0 .. m
      <4>. QED
        BY ONLY <3>1, <4>2, new = Tallied(root, D, m, f[n])
    <3>2. CASE k # m /\ k # 0
      <4>1. k \in 0 .. n /\ k - 1 \in 0 .. m /\ k - 1 # m
        BY <3>2
      <4>2. g[k] = f[k] /\ g[k - 1] = f[k - 1]
        BY ONLY <2>1, <3>2, <4>1, k \in 0 .. m
      <4>3. f[k] = Tallied(root, D, k, f[k - 1])
        BY <2>2, <4>1
      <4>. QED
        BY ONLY <4>2, <4>3
    <3>3. CASE k # m /\ k = 0
      <4>1. k \in 0 .. n
        BY <3>3
      <4>2. g[k] = f[k]
        BY ONLY <2>1, <3>3, k \in 0 .. m
      <4>3. f[k] = Tallied(root, D, 0, f[k - 1])
        BY <2>2, <3>3, <4>1
      <4>4. Tallied(root, D, 0, f[k - 1]) = Tallied(root, D, 0, g[k - 1])
        OBVIOUS
      <4>. QED
        BY ONLY <3>3, <4>2, <4>3, <4>4
    <3>. QED
      BY <3>1, <3>2, <3>3
  <2>4. g = [k \in 0 .. m |-> g[k]]
    OBVIOUS
  <2>5. IsTallies(g, root, D, m)
    BY ONLY <2>3, <2>4 DEF IsTallies
  <2>. QED
    BY <2>5
<1>3. \A n \in 0 .. N : n \in S
  <2>. HIDE DEF S
  <2>. QED
    BY <1>1, <1>2, UpTo
<1>. QED
  BY <1>3

LEMMA TalliesAre ==
  ASSUME NEW root, MaxDepth \in Nat
  PROVE  \E tally : /\ IsTallies(tally, root, MaxDepth, MaxDepth)
                    /\ \A n \in 0 .. MaxDepth : Tally(root, n) = tally[n]
<1>1. \A a, b : Tallied(root, MaxDepth, 0, a) = Tallied(root, MaxDepth, 0, b)
  BY DEF Tallied
<1>. DEFINE tally == CHOOSE f : IsTallies(f, root, MaxDepth, MaxDepth)
<1>2. IsTallies(tally, root, MaxDepth, MaxDepth)
  BY <1>1, TalliesExists
<1>3. ASSUME NEW n \in 0 .. MaxDepth PROVE Tally(root, n) = tally[n]
  BY ONLY DEF Tally, IsTallies, Tallied
<1>. QED
  BY <1>2, <1>3

\* What is reported of each rule and used up by it, level by level.
Evaluated(ctx, root, D, n, below) ==
    [x \in Below(root, D - n, Under) \X SUBSET EntriesIn(ctx) |->
        IF IsGroup(x[1]) /\ n > 0 THEN Group(ctx, x[1], InsideOf(ctx, x[1], x[2], below))
        ELSE RuleReport(ctx, x[1], x[2])]
IsEval(f, ctx, root, D, N) == f = [n \in 0 .. N |-> Evaluated(ctx, root, D, n, f[n - 1])]
LEMMA EvalExists ==
  ASSUME NEW ctx, NEW root, NEW D, NEW N \in Nat, \A a, b : Evaluated(ctx, root, D, 0, a) = Evaluated(ctx, root, D, 0, b)
  PROVE  \E f : IsEval(f, ctx, root, D, N)
<1>. DEFINE S == {n \in 0 .. N : \E f : IsEval(f, ctx, root, D, n)}
<1>1. 0 \in S
  <2>. PICK f : f = [n \in 0 .. 0 |-> Evaluated(ctx, root, D, 0, 0)]
    OBVIOUS
  <2>1. f = [n \in 0 .. 0 |-> f[n]] /\ \A n \in 0 .. 0 : n = 0 /\ f[n] = Evaluated(ctx, root, D, 0, 0)
    OBVIOUS
  <2>2. \A n \in 0 .. 0 : f[n] = Evaluated(ctx, root, D, n, f[n - 1])
    BY <2>1
  <2>3. IsEval(f, ctx, root, D, 0)
    BY <2>1, <2>2 DEF IsEval
  <2>. QED
    BY <2>3
<1>2. ASSUME NEW n \in 0 .. N, n < N, n \in S PROVE n + 1 \in S
  <2>. PICK f : IsEval(f, ctx, root, D, n)
    BY <1>2
  <2>. PICK m \in 1 .. N : m = n + 1
    BY <1>2
  <2>. PICK new : new = Evaluated(ctx, root, D, m, f[n])
    OBVIOUS
  <2>. PICK g : g = [k \in 0 .. m |-> IF k = m THEN new ELSE f[k]]
    OBVIOUS
  <2>1. \A k \in 0 .. m : g[k] = IF k = m THEN new ELSE f[k]
    OBVIOUS
  <2>2. \A k \in 0 .. n : f[k] = Evaluated(ctx, root, D, k, f[k - 1])
    BY DEF IsEval
  <2>3. ASSUME NEW k \in 0 .. m PROVE g[k] = Evaluated(ctx, root, D, k, g[k - 1])
    <3>1. CASE k = m
      <4>1. k - 1 = n /\ n \in 0 .. m /\ n # m
        BY <3>1
      <4>2. g[k - 1] = f[n] /\ g[k] = new
        BY ONLY <2>1, <3>1, <4>1, k \in 0 .. m
      <4>. QED
        BY ONLY <3>1, <4>2, new = Evaluated(ctx, root, D, m, f[n])
    <3>2. CASE k # m /\ k # 0
      <4>1. k \in 0 .. n /\ k - 1 \in 0 .. m /\ k - 1 # m
        BY <3>2
      <4>2. g[k] = f[k] /\ g[k - 1] = f[k - 1]
        BY ONLY <2>1, <3>2, <4>1, k \in 0 .. m
      <4>3. f[k] = Evaluated(ctx, root, D, k, f[k - 1])
        BY <2>2, <4>1
      <4>. QED
        BY ONLY <4>2, <4>3
    <3>3. CASE k # m /\ k = 0
      <4>1. k \in 0 .. n
        BY <3>3
      <4>2. g[k] = f[k]
        BY ONLY <2>1, <3>3, k \in 0 .. m
      <4>3. f[k] = Evaluated(ctx, root, D, 0, f[k - 1])
        BY <2>2, <3>3, <4>1
      <4>4. Evaluated(ctx, root, D, 0, f[k - 1]) = Evaluated(ctx, root, D, 0, g[k - 1])
        OBVIOUS
      <4>. QED
        BY ONLY <3>3, <4>2, <4>3, <4>4
    <3>. QED
      BY <3>1, <3>2, <3>3
  <2>4. g = [k \in 0 .. m |-> g[k]]
    OBVIOUS
  <2>5. IsEval(g, ctx, root, D, m)
    BY ONLY <2>3, <2>4 DEF IsEval
  <2>. QED
    BY <2>5
<1>3. \A n \in 0 .. N : n \in S
  <2>. HIDE DEF S
  <2>. QED
    BY <1>1, <1>2, UpTo
<1>. QED
  BY <1>3

RuleReads(ctx, x, most) == Fits(x.report, most) /\ x.used \in SUBSET EntriesIn(ctx)
LEMMA GroupReported ==
  ASSUME NEW ctx, NEW E, E = EntriesIn(ctx), NEW used \in SUBSET E, NEW r, IsGroup(r),
         NEW N \in Nat, r.of = [k \in 1 .. N |-> r.of[k]], NEW below,
         NEW most \in [1 .. N -> Nat], \A k \in 1 .. N : r.of[k].kind = "distinct" => most[k] >= 1,
         \A k \in 1 .. N : \A u \in SUBSET E : RuleReads(ctx, below[<<r.of[k], u>>], most[k]),
         NEW top \in Nat, top <= MaxCents,
         r.kind = "select" => r.count \in Nat /\ r.count <= top, r.kind = "all" => Total(most) <= top
  PROVE  RuleReads(ctx, Group(ctx, r, InsideOf(ctx, r, used, below)), top)
<1>. PICK x : x = InsideOf(ctx, r, used, below)
  OBVIOUS
<1>1. Reads(x, N, most, E)
  <2>1. Len(r.of) = N
    OBVIOUS
  <2>2. \A k \in 1 .. N : r.of[k].kind = "distinct" => Fits(DistinctReport(ctx, r.of[k], r.of), most[k])
    BY DistinctFits
  <2>3. \A k \in 1 .. N : \A u \in SUBSET E : r.of[k].kind # "distinct" =>
             below[<<r.of[k], u>>].used \in SUBSET E /\ Fits(below[<<r.of[k], u>>].report, most[k])
    BY DEF RuleReads
  <2>. QED
    BY <2>1, <2>2, <2>3, InsideReads
<1>2. /\ x.used \in SUBSET E /\ x.reports = [k \in 1 .. N |-> x.reports[k]]
      /\ \A k \in 1 .. N : Fits(x.reports[k], most[k])
  BY <1>1 DEF Reads
<1>3. Fits(GroupReport(ctx, r, x.reports), top)
  BY <1>2, GroupFits
<1>4. RuleReads(ctx, Group(ctx, r, x), top)
  BY <1>2, <1>3 DEF RuleReads, Group
<1>. QED
  BY <1>4

\* A program's report counts what it tells, and so does each report in it.
LEMMA TreeFits ==
  ASSUME NEW ctx, NEW M \in Nat, DOMAIN ctx.cards = 1 .. M, NEW root, MaxDepth \in Nat, RulesOK(root),
         NEW used \in SUBSET EntriesIn(ctx)
  PROVE  Fits(EvalAt(ctx, root)[<<root, used>>].report, MaxCents)
<1>. PICK D \in Nat : D = MaxDepth
  OBVIOUS
<1>. PICK E : E = EntriesIn(ctx)
  OBVIOUS
<1>. PICK below : below = [d \in 0 .. D |-> Below(root, d, Under)]
  OBVIOUS
<1>1. \A d \in 0 .. D : below[d] = Below(root, d, Under)
  OBVIOUS
<1>2. below[0] = {root} /\ \A d \in 0 .. D : d < D => below[d + 1] = Opened(below[d])
  <2>1. ASSUME NEW d \in 0 .. D, d < D PROVE below[d + 1] = Opened(below[d])
    <3>1. d + 1 \in 0 .. D /\ d \in Nat
      BY <2>1
    <3>. QED
      BY <1>1, <3>1, BelowIs
  <2>2. below[0] = {root}
    BY <1>1, BelowIs
  <2>. QED
    BY <2>1, <2>2
<1>3. PICK tally : /\ \A n \in 0 .. D : Tally(root, n) = tally[n]
                   /\ \A n \in 0 .. D : tally[n] = Tallied(root, D, n, tally[n - 1])
  <2>1. \E tally : IsTallies(tally, root, D, D) /\ \A n \in 0 .. D : Tally(root, n) = tally[n]
    BY TalliesAre
  <2>. QED
    BY <2>1 DEF IsTallies
<1>4. \A n \in 0 .. D : \A r \in below[D - n] : RuleOK(r) /\ tally[n][r] \in 0 .. MaxCents
  <2>1. \A n \in 0 .. D : D - n \in 0 .. D
    OBVIOUS
  <2>. QED
    BY <1>1, <1>3, <2>1 DEF RulesOK
<1>5. ASSUME NEW n \in 0 .. D, NEW r \in below[D - n]
      PROVE  tally[n][r] = IF r.kind = "select" THEN r.count
                           ELSE IF r.kind = "all" /\ n > 0
                           THEN Total([i \in DOMAIN r.of |-> tally[n - 1][r.of[i]]]) ELSE 1
  <2>1. D - n \in 0 .. D /\ tally[n] = Tallied(root, D, n, tally[n - 1])
    BY <1>3
  <2>. QED
    BY <1>1, <2>1 DEF Tallied
<1>6. \A a, b : Evaluated(ctx, root, D, 0, a) = Evaluated(ctx, root, D, 0, b)
  BY DEF Evaluated
<1>. DEFINE eval == CHOOSE f : IsEval(f, ctx, root, D, D)
<1>7. IsEval(eval, ctx, root, D, D)
  BY <1>6, EvalExists
<1>8. EvalAt(ctx, root) = eval[D]
  BY DEF EvalAt, IsEval, Evaluated, InsideOf
<1>. HIDE DEF eval
<1>9. ASSUME NEW n \in 0 .. D, NEW r \in below[D - n], NEW u \in SUBSET E
      PROVE  eval[n][<<r, u>>] = IF IsGroup(r) /\ n > 0 THEN Group(ctx, r, InsideOf(ctx, r, u, eval[n - 1]))
                                 ELSE RuleReport(ctx, r, u)
  <2>1. D - n \in 0 .. D /\ eval[n] = Evaluated(ctx, root, D, n, eval[n - 1])
    BY <1>7 DEF IsEval
  <2>2. <<r, u>> \in Below(root, D - n, Under) \X SUBSET EntriesIn(ctx)
    BY <1>1, <2>1
  <2>. QED
    BY <2>1, <2>2 DEF Evaluated
<1>10. ASSUME NEW n \in 0 .. D, NEW r \in below[D - n], ~(IsGroup(r) /\ n > 0), NEW u \in SUBSET E
       PROVE  RuleReads(ctx, eval[n][<<r, u>>], tally[n][r])
  <2>1. eval[n][<<r, u>>] = RuleReport(ctx, r, u)
    BY <1>9, <1>10
  <2>. PICK most : most = tally[n][r]
    OBVIOUS
  <2>2. most \in 0 .. MaxCents
    BY <1>4
  <2>3. most \in Nat
    BY ONLY <2>2, MaxCentsAssumption
  <2>4. r.kind \in {"course", "credits"} => most >= 1
    <3>1. most = IF r.kind = "select" THEN r.count ELSE IF r.kind = "all" /\ n > 0
                 THEN Total([i \in DOMAIN r.of |-> tally[n - 1][r.of[i]]]) ELSE 1
      BY <1>5
    <3>. QED
      BY ONLY <3>1
  <2>5. u \in SUBSET EntriesIn(ctx)
    OBVIOUS
  <2>6. /\ Fits(RuleReport(ctx, r, u).report, most)
        /\ RuleReport(ctx, r, u).used \in SUBSET EntriesIn(ctx)
    BY <2>3, <2>4, <2>5, RuleFits
  <2>. QED
    BY ONLY <2>1, <2>6, most = tally[n][r] DEF RuleReads
<1>. DEFINE T == {n \in 0 .. D : \A r \in below[D - n] : \A u \in SUBSET E :
                                    RuleReads(ctx, eval[n][<<r, u>>], tally[n][r])}
<1>11. 0 \in T
  <2>1. 0 \in 0 .. D /\ ~(0 > 0)
    OBVIOUS
  <2>. QED
    BY <1>10, <2>1
<1>12. ASSUME NEW n \in 0 .. D, n < D, n \in T PROVE n + 1 \in T
  <2>. PICK m \in 1 .. D : m = n + 1
    BY <1>12
  <2>1. ASSUME NEW r \in below[D - m], IsGroup(r), NEW u \in SUBSET E
        PROVE  RuleReads(ctx, eval[m][<<r, u>>], tally[m][r])
    <3>. PICK N \in Nat : Len(r.of) = N /\ DOMAIN r.of = 1 .. N /\ r.of = [k \in 1 .. N |-> r.of[k]]
      <4>1. RuleOK(r) /\ m \in 0 .. D
        BY <1>4
      <4>2. r.of \in Seq(ToSet(r.of))
        BY <2>1, <4>1 DEF RuleOK
      <4>3. Len(r.of) \in Nat /\ DOMAIN r.of = 1 .. Len(r.of) /\ r.of = [k \in 1 .. Len(r.of) |-> r.of[k]]
        BY ONLY <4>2
      <4>. QED
        BY <4>3
    <3>1. \A k \in 1 .. N : r.of[k] \in below[D - n]
      <4>. PICK d \in 0 .. D : d = D - m
        OBVIOUS
      <4>1. d < D /\ d + 1 = D - n
        OBVIOUS
      <4>2. ToSet(Under(r)) \subseteq below[d + 1]
        <5>1. below[d + 1] = Opened(below[d]) /\ r \in below[d]
          BY <1>2, <4>1
        <5>. QED
          BY ONLY <5>1 DEF Opened
      <4>3. \A k \in 1 .. N : r.of[k] \in ToSet(Under(r))
        BY <2>1 DEF Under, ToSet
      <4>. QED
        BY <4>1, <4>2, <4>3
    <3>. PICK most : most = [k \in 1 .. N |-> tally[n][r.of[k]]]
      OBVIOUS
    <3>2. \A k \in 1 .. N : most[k] = tally[n][r.of[k]] /\ most[k] \in Nat
      <4>1. \A k \in 1 .. N : tally[n][r.of[k]] \in 0 .. MaxCents
        BY <1>4, <3>1
      <4>2. \A k \in 1 .. N : tally[n][r.of[k]] \in Nat
        BY ONLY <4>1, MaxCentsAssumption
      <4>. QED
        BY ONLY <4>2, most = [k \in 1 .. N |-> tally[n][r.of[k]]]
    <3>3. most \in [1 .. N -> Nat]
      BY <3>2
    <3>4. \A k \in 1 .. N : r.of[k].kind = "distinct" => most[k] >= 1
      <4>1. \A k \in 1 .. N : r.of[k].kind = "distinct" => tally[n][r.of[k]] = 1
        BY <1>5, <3>1
      <4>. QED
        BY <3>2, <4>1
    <3>5. \A k \in 1 .. N : \A v \in SUBSET E : RuleReads(ctx, eval[n][<<r.of[k], v>>], most[k])
      BY <1>12, <3>1, <3>2
    <3>. PICK top : top = tally[m][r]
      OBVIOUS
    <3>6. top \in Nat /\ top <= MaxCents
      <4>1. m \in 0 .. D
        OBVIOUS
      <4>2. top \in 0 .. MaxCents
        BY <1>4, <4>1
      <4>. QED
        BY ONLY <4>2, MaxCentsAssumption
    <3>7. top = IF r.kind = "select" THEN r.count ELSE IF r.kind = "all" THEN Total(most) ELSE 1
      <4>1. m \in 0 .. D /\ m > 0 /\ m - 1 = n
        OBVIOUS
      <4>2. top = IF r.kind = "select" THEN r.count
                  ELSE IF r.kind = "all" /\ m > 0 THEN Total([i \in DOMAIN r.of |-> tally[m - 1][r.of[i]]]) ELSE 1
        BY <1>5, <4>1
      <4>. QED
        BY ONLY <4>1, <4>2, DOMAIN r.of = 1 .. N, most = [k \in 1 .. N |-> tally[n][r.of[k]]]
    <3>8. r.kind = "select" => r.count \in Nat /\ r.count <= top
      BY <3>6, <3>7
    <3>9. r.kind = "all" => Total(most) <= top
      BY <3>6, <3>7
    <3>10. RuleReads(ctx, Group(ctx, r, InsideOf(ctx, r, u, eval[n])), top)
      BY ONLY <2>1, <3>3, <3>4, <3>5, <3>6, <3>8, <3>9, GroupReported, E = EntriesIn(ctx), u \in SUBSET E,
              N \in Nat, r.of = [k \in 1 .. N |-> r.of[k]]
    <3>11. eval[m][<<r, u>>] = Group(ctx, r, InsideOf(ctx, r, u, eval[n]))
      <4>1. m \in 0 .. D /\ m > 0 /\ m - 1 = n
        OBVIOUS
      <4>2. eval[m][<<r, u>>] = IF IsGroup(r) /\ m > 0 THEN Group(ctx, r, InsideOf(ctx, r, u, eval[m - 1]))
                                ELSE RuleReport(ctx, r, u)
        BY <1>9, <4>1
      <4>. QED
        BY ONLY <2>1, <4>1, <4>2
    <3>. QED
      BY <3>10, <3>11
  <2>2. ASSUME NEW r \in below[D - m], ~IsGroup(r), NEW u \in SUBSET E
        PROVE  RuleReads(ctx, eval[m][<<r, u>>], tally[m][r])
    BY <1>10, <2>2
  <2>3. \A r \in below[D - m] : \A u \in SUBSET E : RuleReads(ctx, eval[m][<<r, u>>], tally[m][r])
    BY <2>1, <2>2
  <2>. QED
    BY ONLY <2>3, m \in 1 .. D, m = n + 1, D \in Nat
<1>13. \A n \in 0 .. D : n \in T
  <2>. HIDE DEF T
  <2>. QED
    BY <1>11, <1>12, UpTo
<1>14. RuleReads(ctx, eval[D][<<root, used>>], tally[D][root]) /\ tally[D][root] \in 0 .. MaxCents
  <2>1. D \in 0 .. D /\ D - D = 0
    OBVIOUS
  <2>2. root \in below[D - D]
    BY <1>2, <2>1
  <2>. QED
    BY <1>4, <1>13, <2>1, <2>2
<1>15. ASSUME NEW y, NEW most \in 0 .. MaxCents, Fits(y, most) PROVE Fits(y, MaxCents)
  <2>1. y.progress.checkable \in Nat
    BY <1>15 DEF Fits, Closed, Good
  <2>. QED
    BY <1>15, <2>1, MaxCentsAssumption DEF Fits
<1>. QED
  BY <1>8, <1>14, <1>15 DEF RuleReads

\* A card as it is collected.
CardView(facts, c, term) ==
    [entry |-> c.id, term |-> term, credits |-> c.credits, fills |-> c.fills, claims |-> c.claims,
     origin |-> c.origin, code |-> IF c.course = None THEN None ELSE Canonical(facts, c.course)]
\* The cards collected are a list.
LEMMA CollectedAre ==
  ASSUME NEW p, PlanOK(p), NEW facts
  PROVE  \E M \in Nat : DOMAIN CollectCards(p, facts) = 1 .. M
<1>. PICK S : S = {CardView(facts, c, None) : c \in ToSet(p.incoming)}
                    \cup UNION {{CardView(facts, c, t.id) : c \in ToSet(t.cards)} : t \in ToSet(p.terms)}
  OBVIOUS
<1>1. CollectCards(p, facts) = [i \in DOMAIN p.incoming |-> CardView(facts, p.incoming[i], None)]
        \o FlattenSeq([k \in DOMAIN p.terms |-> [i \in DOMAIN p.terms[k].cards |->
                          CardView(facts, p.terms[k].cards[i], p.terms[k].id)]])
  BY DEF CollectCards, CardView
<1>2. p.incoming \in Seq(ToSet(p.incoming)) /\ p.terms \in Seq(ToSet(p.terms))
      /\ \A t \in ToSet(p.terms) : t.cards \in Seq(ToSet(t.cards))
  BY DEF PlanOK, TermOK, CardsOK
<1>3. [i \in DOMAIN p.incoming |-> CardView(facts, p.incoming[i], None)] \in Seq(S)
  <2>. PICK m \in Nat : m = Len(p.incoming) /\ DOMAIN p.incoming = 1 .. m
    BY <1>2
  <2>. PICK f : f = [i \in 1 .. m |-> CardView(facts, p.incoming[i], None)]
    OBVIOUS
  <2>1. \A i \in 1 .. m : f[i] \in S
    BY DEF ToSet
  <2>2. f \in Seq(S)
    <3>1. f = [i \in 1 .. m |-> f[i]]
      OBVIOUS
    <3>. QED
      BY ONLY <2>1, <3>1, ListOf, m \in Nat
  <2>. QED
    BY ONLY <2>2, DOMAIN p.incoming = 1 .. m, f = [i \in 1 .. m |-> CardView(facts, p.incoming[i], None)]
<1>. PICK N \in Nat : DOMAIN p.terms = 1 .. N
  BY <1>2
<1>. PICK lists : lists = [k \in 1 .. N |-> [i \in DOMAIN p.terms[k].cards |->
                             CardView(facts, p.terms[k].cards[i], p.terms[k].id)]]
  OBVIOUS
<1>4. lists \in [1 .. N -> Seq(S)]
  <2>1. ASSUME NEW k \in 1 .. N PROVE lists[k] \in Seq(S)
    <3>. PICK t \in ToSet(p.terms) : t = p.terms[k]
      BY DEF ToSet
    <3>. PICK m \in Nat : m = Len(t.cards) /\ DOMAIN t.cards = 1 .. m
      <4>1. t.cards \in Seq(ToSet(t.cards))
        BY <1>2
      <4>2. Len(t.cards) \in Nat /\ DOMAIN t.cards = 1 .. Len(t.cards)
        BY ONLY <4>1
      <4>. QED
        BY <4>2
    <3>. PICK f : f = [i \in 1 .. m |-> CardView(facts, t.cards[i], t.id)]
      OBVIOUS
    <3>1. {CardView(facts, c, t.id) : c \in ToSet(t.cards)} \subseteq S
      <4>. PICK own : own = {CardView(facts, c, t.id) : c \in ToSet(t.cards)}
        OBVIOUS
      <4>. PICK all : all = {{CardView(facts, c, u.id) : c \in ToSet(u.cards)} : u \in ToSet(p.terms)}
        OBVIOUS
      <4>1. own \in all
        BY ONLY t \in ToSet(p.terms), own = {CardView(facts, c, t.id) : c \in ToSet(t.cards)},
                all = {{CardView(facts, c, u.id) : c \in ToSet(u.cards)} : u \in ToSet(p.terms)}
      <4>2. S = {CardView(facts, c, None) : c \in ToSet(p.incoming)} \cup UNION all
        OBVIOUS
      <4>. QED
        BY ONLY <4>1, <4>2, own = {CardView(facts, c, t.id) : c \in ToSet(t.cards)}
    <3>2. \A i \in 1 .. m : f[i] \in {CardView(facts, c, t.id) : c \in ToSet(t.cards)}
      <4>1. \A i \in 1 .. m : t.cards[i] \in ToSet(t.cards)
        BY DEF ToSet
      <4>. QED
        BY ONLY <4>1, f = [i \in 1 .. m |-> CardView(facts, t.cards[i], t.id)]
    <3>3. f \in Seq(S)
      <4>1. f = [i \in 1 .. m |-> f[i]] /\ \A i \in 1 .. m : f[i] \in S
        BY <3>1, <3>2
      <4>. QED
        BY ONLY <4>1, m \in Nat, ListOf
    <3>4. lists[k] = f
      OBVIOUS
    <3>. QED
      BY ONLY <3>3, <3>4
  <2>. QED
    BY <2>1
<1>5. FlattenSeq(lists) \in Seq(S)
  BY <1>4, Flattened
<1>6. CollectCards(p, facts) \in Seq(S)
  BY <1>1, <1>3, <1>5
<1>7. DOMAIN CollectCards(p, facts) = 1 .. Len(CollectCards(p, facts)) /\ Len(CollectCards(p, facts)) \in Nat
  BY ONLY <1>6
<1>. QED
  BY <1>7

\* What is used at the start are cards of the board.
LEMMA UsedAre ==
  ASSUME NEW p, NEW M \in Nat, DOMAIN p.cards = 1 .. M, NEW slotOf, NEW ctx,
         ctx.assigned = AssignedBy(p, slotOf), ctx.cards = p.cards
  PROVE  Used(ctx) \in SUBSET EntriesIn(ctx)
<1>1. ASSUME NEW S \in SUBSET (1 .. M) PROVE Ascending(S) \in Seq(1 .. M)
  <2>1. IsFiniteSet(1 .. M)
    BY FS_Interval
  <2>2. IsFiniteSet(S)
    BY <2>1, FS_Subset
  <2>3. S \in SUBSET Nat
    OBVIOUS
  <2>4. Ascending(S) \in Seq(S)
    BY <2>2, <2>3, AscendingType
  <2>. QED
    <3>. PICK list \in Seq(S) : list = Ascending(S)
      BY <2>4
    <3>1. list \in Seq(1 .. M)
      <4>1. Len(list) \in Nat /\ list = [k \in 1 .. Len(list) |-> list[k]] /\ \A k \in 1 .. Len(list) : list[k] \in S
        BY ONLY list \in Seq(S)
      <4>2. \A k \in 1 .. Len(list) : list[k] \in 1 .. M
        BY ONLY <4>1, S \in SUBSET (1 .. M)
      <4>. QED
        BY ONLY <4>1, <4>2, ListOf
    <3>. QED
      BY <3>1
<1>2. ASSUME NEW r \in DOMAIN ctx.assigned PROVE ToSet(EntriesAt(ctx, ctx.assigned[r])) \subseteq EntriesIn(ctx)
  <2>1. ctx.assigned[r] \in Seq(1 .. M)
    <3>. PICK a, b : /\ a = {i \in 1 .. M : i \in DOMAIN p.pins /\ p.choice[i] = r}
                     /\ b = {i \in 1 .. M : slotOf[i] # 0 /\ p.slots[slotOf[i]].id = r}
      OBVIOUS
    <3>1. ctx.assigned[r] = Ascending(a) \o Ascending(b)
      BY DEF AssignedBy
    <3>2. Ascending(a) \in Seq(1 .. M) /\ Ascending(b) \in Seq(1 .. M)
      BY <1>1
    <3>. QED
      BY <3>1, <3>2
  <2>. PICK list \in Seq(1 .. M) : list = ctx.assigned[r]
    BY <2>1
  <2>2. \A k \in DOMAIN list : list[k] \in 1 .. M
    OBVIOUS
  <2>. QED
    BY <2>2 DEF EntriesAt, EntriesIn, ToSet
<1>. QED
  BY <1>2 DEF Used

\* A program's report fits.
LEMMA ProgramFits ==
  ASSUME NEW p, NEW program, NEW cards, NEW facts, NEW M \in Nat, DOMAIN cards = 1 .. M,
         MaxDepth \in Nat, RulesOK(program.root)
  PROVE  Fits(ProgramReport(p, program, cards, facts).root, MaxCents)
<1>. PICK q : q = Placement(Slots(program), cards, facts)
  OBVIOUS
<1>. PICK slotOf : slotOf = MatchSlots(Candidates(q, FreeMatches(q, "yes")), q.cards)
  OBVIOUS
<1>. PICK ctx : ctx = Context(p, q, AssignedBy(q, slotOf))
  OBVIOUS
<1>1. q.cards = cards
  BY DEF Placement, WithPins
<1>2. ctx.cards = cards /\ ctx.assigned = AssignedBy(q, slotOf)
  BY <1>1 DEF Context
<1>3. ProgramReport(p, program, cards, facts).root = EvalAt(ctx, program.root)[<<program.root, Used(ctx)>>].report
  BY DEF ProgramReport, PlacedReport, Declared, Tree, MatchCards
<1>4. Used(ctx) \in SUBSET EntriesIn(ctx)
  BY <1>1, <1>2, UsedAre
<1>. QED
  BY <1>2, <1>3, <1>4, TreeFits

-----------------------------------------------------------------------------
(* Every report of a rule is sound.                                         *)

\* What is evaluated are published programs.
LEMMA ChosenAre ==
  ASSUME SidebarOK(plan)
  PROVE  \E n \in Nat : ChosenPrograms(Bundle(plan)) \in [1 .. n -> Programs]
<1>. PICK b : b = Bundle(plan)
  OBVIOUS
<1>1. b.programs = Programs /\ b.plan = plan
  BY DEF Bundle
<1>. DEFINE Pick(id) == PickVersion({p \in b.programs : p.id = id}, b.plan.catalogYear)
<1>. PICK ids : ids = plan.programs
  OBVIOUS
<1>. PICK N \in Nat : DOMAIN ids = 1 .. N
  <2>1. ids \in Seq(ToSet(ids))
    BY DEF SidebarOK
  <2>. QED
    BY <2>1
<1>. PICK P \in SUBSET (1 .. N) : P = {k \in DOMAIN ids : Pick(ids[k]) # {}}
  OBVIOUS
<1>. PICK held : held = Chosen(ids, P)
  OBVIOUS
<1>2. ChosenPrograms(b) = [k \in DOMAIN held |-> CHOOSE p \in Pick(held[k]) : TRUE]
  <2>1. ChosenPrograms(b) = LET h == Chosen(b.plan.programs, {k \in DOMAIN b.plan.programs : Pick(b.plan.programs[k]) # {}})
                            IN  [k \in DOMAIN h |-> CHOOSE p \in Pick(h[k]) : TRUE]
    BY ONLY DEF ChosenPrograms
  <2>. HIDE DEF Pick
  <2>2. b.plan.programs = ids
    BY <1>1
  <2>. QED
    BY ONLY <2>1, <2>2, held = Chosen(ids, P), P = {k \in DOMAIN ids : Pick(ids[k]) # {}}
<1>3. Gathers(held, ids, P)
  BY ONLY ChosenIs, held = Chosen(ids, P), P \in SUBSET (1 .. N), N \in Nat
<1>. PICK n \in Nat : n = Len(held) /\ DOMAIN held = 1 .. n
  <2>1. held \in Seq({ids[k] : k \in P})
    BY ONLY <1>3 DEF Gathers
  <2>. QED
    BY ONLY <2>1
<1>4. ASSUME NEW k \in 1 .. n PROVE (CHOOSE p \in Pick(held[k]) : TRUE) \in Programs
  <2>. PICK i \in P : held[k] = ids[i]
    BY <1>3 DEF Gathers
  <2>1. Pick(held[k]) # {}
    OBVIOUS
  <2>2. Pick(held[k]) \subseteq Programs
    BY <1>1 DEF PickVersion
  <2>. QED
    BY <2>1, <2>2
<1>. QED
  <2>. HIDE DEF Pick
  <2>1. ChosenPrograms(b) = [k \in 1 .. n |-> CHOOSE p \in Pick(held[k]) : TRUE]
    BY ONLY <1>2, DOMAIN held = 1 .. n
  <2>2. ChosenPrograms(b) \in [1 .. n -> Programs]
    BY ONLY <2>1, <1>4
  <2>. QED
    BY <2>2

\* The report the engine makes of a plan has one sound report per program.
LEMMA EvaluatedFit ==
  ASSUME PlanOK(plan), SidebarOK(plan)
  PROVE  \E n \in Nat : /\ DOMAIN Evaluate(Bundle(plan)).programs = 1 .. n
                        /\ \A k \in 1 .. n : Fits(Evaluate(Bundle(plan)).programs[k].root, MaxCents)
<1>. PICK b : b = Bundle(plan)
  OBVIOUS
<1>1. b.plan = plan
  BY DEF Bundle
<1>. PICK cards : cards = CollectCards(plan, b.facts)
  OBVIOUS
<1>. PICK M \in Nat : DOMAIN cards = 1 .. M
  BY CollectedAre
<1>. PICK chosen : chosen = ChosenPrograms(b)
  OBVIOUS
<1>. PICK n \in Nat : chosen \in [1 .. n -> Programs]
  BY ChosenAre
<1>. PICK reports : reports = [k \in 1 .. n |-> ProgramReport(plan, chosen[k], cards, b.facts)]
  OBVIOUS
<1>2. Evaluate(b).programs = reports
  BY <1>1 DEF Evaluate, Reports, Summary
<1>3. ASSUME NEW k \in 1 .. n PROVE Fits(reports[k].root, MaxCents)
  <2>1. RulesOK(chosen[k].root) /\ MaxDepth \in Nat
    BY RulesAssumption DEF ProgramOK
  <2>. QED
    BY <2>1, ProgramFits
<1>. QED
  BY <1>2, <1>3

\* At every rule of such reports the ring and the word agree.
LEMMA RingsAgree ==
  ASSUME NEW n \in Nat, NEW reports, DOMAIN reports = 1 .. n,
         \A k \in 1 .. n : Fits(reports[k].root, MaxCents)
  PROVE  \A r \in ToSet(AllRules(reports)) :
            /\ r.progress.met <= r.progress.checkable
            /\ r.progress.checkable > 0 => (RequirementsPercent(r.progress) = 100 <=> r.outcome = "met")
<1>. DEFINE S == {y \in UNION {ToSet(Rules(reports[k].root)) : k \in 1 .. n} : Good(y)}
<1>1. ASSUME NEW k \in 1 .. n PROVE Rules(reports[k].root) \in Seq(S)
  <2>. PICK root : root = reports[k].root
    OBVIOUS
  <2>. PICK C : root \in C /\ Closed(C)
    BY DEF Fits
  <2>1. \A y \in C : Good(y) /\ HasKids(y, C)
    BY DEF Closed
  <2>. PICK list : list = Rules(root)
    OBVIOUS
  <2>2. list \in Seq(C)
    BY <2>1, RulesAssumption, WalkStays
  <2>3. Len(list) \in Nat /\ DOMAIN list = 1 .. Len(list) /\ list = [i \in 1 .. Len(list) |-> list[i]]
        /\ \A i \in 1 .. Len(list) : list[i] \in C
    BY ONLY <2>2
  <2>4. \A i \in 1 .. Len(list) : Good(list[i]) /\ list[i] \in ToSet(list)
    BY <2>1, <2>3 DEF ToSet
  <2>5. \A i \in 1 .. Len(list) : list[i] \in S
    BY <2>4
  <2>. HIDE DEF S
  <2>6. list \in Seq(S)
    BY ONLY <2>3, <2>5, ListOf
  <2>. QED
    BY <2>6
<1>. PICK lists : lists = [k \in 1 .. n |-> Rules(reports[k].root)]
  OBVIOUS
<1>. HIDE DEF S
<1>2. lists \in [1 .. n -> Seq(S)]
  BY <1>1
<1>3. FlattenSeq(lists) \in Seq(S)
  BY <1>2, Flattened
<1>4. AllRules(reports) = FlattenSeq(lists)
  BY DEF AllRules
<1>5. \A r \in ToSet(AllRules(reports)) : Good(r)
  <2>. PICK all : all = AllRules(reports)
    OBVIOUS
  <2>1. all \in Seq(S)
    BY <1>3, <1>4
  <2>2. \A i \in DOMAIN all : all[i] \in S
    BY ONLY <2>1
  <2>. QED
    BY <2>2 DEF S, ToSet
<1>6. ASSUME NEW r, Good(r)
      PROVE  /\ r.progress.met <= r.progress.checkable
             /\ r.progress.checkable > 0 => (RequirementsPercent(r.progress) = 100 <=> r.outcome = "met")
  <2>. PICK m \in Nat, c \in Nat : m = r.progress.met /\ c = r.progress.checkable
    BY <1>6 DEF Good
  <2>1. m <= c /\ (c > 0 => (m = c <=> r.outcome = "met"))
    BY <1>6 DEF Good
  <2>2. c > 0 => (Percent(m, c) = 100 <=> m = c)
    BY <2>1, HundredIsAll
  <2>. QED
    BY <2>1, <2>2 DEF RequirementsPercent
<1>. QED
  BY <1>5, <1>6

\* What the page shows is nothing, or the evaluation of the plan it shows.
Current == report = None \/ report = Evaluate(Bundle(plan))
LEMMA StepCurrent ==
  ASSUME Current, [Next]_vars
  PROVE  Current'
<1>1. CASE Recompute
  <2>1. report' = Evaluate(Bundle(plan)) /\ plan' = plan
    BY <1>1 DEF Recompute
  <2>. QED
    BY <2>1 DEF Current, Bundle, Programs, Facts, Rows, Exclusions
<1>2. CASE Next /\ ~Recompute
  <2>1. report' = None
    BY <1>2 DEF Next, Drop, DropFromTray, RemoveCard, DropOnRequirement, MoveManual, ChangeHours, EditManual,
                MatchAgain, Claim, Tick, Untick, ChangeTerm, AddAfter, AddAt, RemoveColumn, ChangeYear,
                ChangePrograms, Edit
  <2>. QED
    BY <2>1 DEF Current
<1>3. CASE UNCHANGED vars
  BY <1>3 DEF vars, Current, Bundle, Programs, Facts, Rows, Exclusions
<1>. QED
  BY <1>1, <1>2, <1>3

\* The ring and the word agree: at every rule the engine can decide, the
\* percentage is 100 exactly when the outcome is `met'.
THEOREM HundredsAreMet == Spec => []HundredMeansMet
<1>1. Init => Current
  BY DEF Init, Current
<1>2. Current /\ [Next]_vars => Current'
  BY StepCurrent
<1>3. Current /\ BoardIsOrdered => HundredMeansMet
  <2>1. SUFFICES ASSUME Current, BoardIsOrdered, report # None PROVE HundredMeansMet
    BY DEF HundredMeansMet
  <2>2. report = Evaluate(Bundle(plan)) /\ PlanOK(plan) /\ SidebarOK(plan)
    BY <2>1 DEF Current, BoardIsOrdered, TypeOK
  <2>3. \E n \in Nat : DOMAIN report.programs = 1 .. n /\ \A k \in 1 .. n : Fits(report.programs[k].root, MaxCents)
    BY <2>2, EvaluatedFit
  <2>. QED
    BY <2>3, RingsAgree DEF HundredMeansMet
<1>. QED
  BY <1>1, <1>2, <1>3, BoardStaysOrdered, PTL DEF Spec

\* Lists of lists, one list after the other.
LEMMA FlatIs ==
  ASSUME NEW S, NEW N \in Nat, NEW lists \in [1 .. N -> Seq(S)]
  PROVE  \E flat \in [0 .. N -> Seq(S)] :
            /\ flat[0] = <<>> /\ \A k \in 1 .. N : flat[k] = flat[k - 1] \o lists[k]
            /\ FlattenSeq(lists) = flat[N]
<1>1. Len(lists) = N
  OBVIOUS
<1>. DEFINE f == CHOOSE g : IsFlat(g, lists, N)
<1>2. IsFlat(f, lists, N)
  BY FlatExists
<1>3. FlattenSeq(lists) = IF N = 0 THEN <<>> ELSE f[N]
  <2>1. CASE N = 0
    <3>1. lists = <<>>
      BY <2>1
    <3>. QED
      BY <1>1, <2>1, <3>1 DEF FlattenSeq
  <2>2. CASE N # 0
    BY <1>1, <2>2 DEF FlattenSeq, IsFlat
  <2>. QED
    BY <2>1, <2>2
<1>. HIDE DEF f
<1>4. \A k \in 1 .. N : f[k] = IF k = 1 THEN lists[k] ELSE f[k - 1] \o lists[k]
  BY <1>2 DEF IsFlat
<1>. PICK flat : flat = [k \in 0 .. N |-> IF k = 0 THEN <<>> ELSE f[k]]
  OBVIOUS
<1>5. flat[0] = <<>> /\ \A k \in 1 .. N : flat[k] = f[k]
  OBVIOUS
<1>6. ASSUME NEW k \in 1 .. N PROVE flat[k] = flat[k - 1] \o lists[k]
  <2>1. CASE k = 1
    <3>1. flat[k - 1] = <<>> /\ flat[k] = lists[k] /\ lists[k] \in Seq(S)
      BY <1>4, <1>5, <2>1
    <3>. QED
      BY ONLY <3>1
  <2>2. CASE k # 1
    <3>1. k - 1 \in 1 .. N
      BY <2>2
    <3>. QED
      BY <1>4, <1>5, <2>2, <3>1
  <2>. QED
    BY <2>1, <2>2
<1>. DEFINE T == {k \in 0 .. N : flat[k] \in Seq(S)}
<1>7. 0 \in T
  BY <1>5
<1>8. ASSUME NEW k \in 0 .. N, k < N, k \in T PROVE k + 1 \in T
  <2>. PICK m \in 1 .. N : m = k + 1
    BY <1>8
  <2>1. flat[m] = flat[k] \o lists[m] /\ lists[m] \in Seq(S) /\ flat[k] \in Seq(S)
    <3>1. m - 1 = k /\ flat[k] \in Seq(S)
      BY <1>8
    <3>. QED
      BY <1>6, <3>1
  <2>2. flat[m] \in Seq(S)
    BY ONLY <2>1
  <2>. QED
    BY <2>2
<1>9. \A k \in 0 .. N : k \in T
  <2>. HIDE DEF T
  <2>. QED
    BY <1>7, <1>8, UpTo
<1>10. flat \in [0 .. N -> Seq(S)]
  <2>1. flat = [k \in 0 .. N |-> flat[k]]
    OBVIOUS
  <2>. QED
    BY <1>9, <2>1
<1>11. FlattenSeq(lists) = flat[N]
  BY <1>3, <1>5
<1>. QED
  BY <1>5, <1>6, <1>10, <1>11

LEMMA BothHold ==
  ASSUME NEW S, NEW a \in Seq(S), NEW b \in Seq(S)
  PROVE  ToSet(a \o b) = ToSet(a) \cup ToSet(b)
<1>1. /\ DOMAIN (a \o b) = 1 .. (Len(a) + Len(b)) /\ Len(a) \in Nat /\ Len(b) \in Nat
      /\ DOMAIN a = 1 .. Len(a) /\ DOMAIN b = 1 .. Len(b)
      /\ \A i \in 1 .. Len(a) : (a \o b)[i] = a[i]
      /\ \A i \in 1 .. Len(b) : (a \o b)[Len(a) + i] = b[i]
  OBVIOUS
<1>. PICK m \in Nat, n \in Nat : m = Len(a) /\ n = Len(b)
  BY <1>1
<1>. PICK c : c = a \o b
  OBVIOUS
<1>2. \A i \in 1 .. (m + n) : i \in 1 .. m \/ \E j \in 1 .. n : i = m + j
  <2>1. ASSUME NEW i \in 1 .. (m + n), i \notin 1 .. m PROVE \E j \in 1 .. n : i = m + j
    <3>1. i - m \in 1 .. n /\ i = m + (i - m)
      BY <2>1
    <3>. QED
      BY <3>1
  <2>. QED
    BY <2>1
<1>3. \A i \in 1 .. n : m + i \in 1 .. (m + n)
  OBVIOUS
<1>4. \A i \in 1 .. m : i \in 1 .. (m + n)
  OBVIOUS
<1>5. /\ DOMAIN c = 1 .. (m + n) /\ DOMAIN a = 1 .. m /\ DOMAIN b = 1 .. n
      /\ \A i \in 1 .. m : c[i] = a[i]
      /\ \A i \in 1 .. n : c[m + i] = b[i]
  BY <1>1
<1>6. ToSet(c) = {c[i] : i \in 1 .. (m + n)} /\ ToSet(a) = {a[i] : i \in 1 .. m} /\ ToSet(b) = {b[i] : i \in 1 .. n}
  BY ONLY <1>5 DEF ToSet
<1>7. ASSUME NEW x \in ToSet(c) PROVE x \in ToSet(a) \/ x \in ToSet(b)
  <2>. PICK i \in 1 .. (m + n) : x = c[i]
    BY <1>6
  <2>1. CASE i \in 1 .. m
    BY ONLY <2>1, <1>5, <1>6, x = c[i]
  <2>2. CASE \E j \in 1 .. n : i = m + j
    BY ONLY <2>2, <1>5, <1>6, x = c[i]
  <2>. QED
    BY <1>2, <2>1, <2>2
<1>8. ASSUME NEW x, x \in ToSet(a) \/ x \in ToSet(b) PROVE x \in ToSet(c)
  BY ONLY <1>3, <1>4, <1>5, <1>6, x \in ToSet(a) \/ x \in ToSet(b)
<1>. QED
  BY <1>7, <1>8

\* What they hold is what each of them holds.
LEMMA FlatHolds ==
  ASSUME NEW S, NEW N \in Nat, NEW lists \in [1 .. N -> Seq(S)]
  PROVE  \A x : x \in ToSet(FlattenSeq(lists)) <=> \E k \in 1 .. N : x \in ToSet(lists[k])
<1>. PICK flat \in [0 .. N -> Seq(S)] :
            /\ flat[0] = <<>> /\ \A k \in 1 .. N : flat[k] = flat[k - 1] \o lists[k]
            /\ FlattenSeq(lists) = flat[N]
  BY FlatIs
<1>. DEFINE T == {n \in 0 .. N : \A x : x \in ToSet(flat[n]) <=> \E k \in 1 .. n : x \in ToSet(lists[k])}
<1>1. 0 \in T
  <2>1. ToSet(flat[0]) = {}
    BY DEF ToSet
  <2>. QED
    BY <2>1
<1>2. ASSUME NEW n \in 0 .. N, n < N, n \in T PROVE n + 1 \in T
  <2>. PICK m \in 1 .. N : m = n + 1
    BY <1>2
  <2>1. flat[m] = flat[n] \o lists[m] /\ lists[m] \in Seq(S) /\ flat[n] \in Seq(S)
    <3>1. m - 1 = n
      OBVIOUS
    <3>. QED
      BY <3>1
  <2>2. ToSet(flat[m]) = ToSet(flat[n]) \cup ToSet(lists[m])
    BY <2>1, BothHold
  <2>3. 1 .. m = (1 .. n) \cup {m}
    BY ONLY m = n + 1, n \in 0 .. N, N \in Nat
  <2>4. \A x : x \in ToSet(flat[n]) <=> \E k \in 1 .. n : x \in ToSet(lists[k])
    BY <1>2
  <2>5. \A x : x \in ToSet(flat[m]) <=> \E k \in 1 .. m : x \in ToSet(lists[k])
    BY ONLY <2>2, <2>3, <2>4
  <2>. QED
    BY <2>5
<1>3. \A n \in 0 .. N : n \in T
  <2>. HIDE DEF T
  <2>. QED
    BY <1>1, <1>2, UpTo
<1>4. N \in T
  <2>. HIDE DEF T
  <2>. QED
    BY <1>3
<1>. QED
  BY <1>4

\* No entry twice.
Apart(list) == \A i, j \in DOMAIN list : list[i].entry = list[j].entry => i = j
Strangers(A, B) == \A x \in A : \A y \in B : x.entry # y.entry
LEMMA BothApart ==
  ASSUME NEW S, NEW a \in Seq(S), NEW b \in Seq(S), Apart(a), Apart(b), Strangers(ToSet(a), ToSet(b))
  PROVE  Apart(a \o b)
<1>1. /\ DOMAIN (a \o b) = 1 .. (Len(a) + Len(b)) /\ Len(a) \in Nat /\ Len(b) \in Nat
      /\ DOMAIN a = 1 .. Len(a) /\ DOMAIN b = 1 .. Len(b)
      /\ \A i \in 1 .. Len(a) : (a \o b)[i] = a[i]
      /\ \A i \in 1 .. Len(b) : (a \o b)[Len(a) + i] = b[i]
  OBVIOUS
<1>. PICK m \in Nat, n \in Nat : m = Len(a) /\ n = Len(b)
  BY <1>1
<1>. PICK c : c = a \o b
  OBVIOUS
<1>2. \A i \in 1 .. (m + n) : i \in 1 .. m \/ \E j \in 1 .. n : i = m + j
  <2>1. ASSUME NEW i \in 1 .. (m + n), i \notin 1 .. m PROVE \E j \in 1 .. n : i = m + j
    <3>1. i - m \in 1 .. n /\ i = m + (i - m)
      BY <2>1
    <3>. QED
      BY <3>1
  <2>. QED
    BY <2>1
<1>3. \A i \in 1 .. m : \A j \in 1 .. n : a[i].entry # b[j].entry
  BY <1>1 DEF Strangers, ToSet
<1>4. ASSUME NEW i \in 1 .. (m + n), NEW j \in 1 .. (m + n), c[i].entry = c[j].entry PROVE i = j
  <2>1. CASE i \in 1 .. m /\ j \in 1 .. m
    BY <1>1, <1>4, <2>1 DEF Apart
  <2>2. CASE i \in 1 .. m /\ j \notin 1 .. m
    <3>. PICK q \in 1 .. n : j = m + q
      BY <1>2, <2>2
    <3>. QED
      BY <1>1, <1>3, <1>4, <2>2
  <2>3. CASE i \notin 1 .. m /\ j \in 1 .. m
    <3>. PICK q \in 1 .. n : i = m + q
      BY <1>2, <2>3
    <3>. QED
      BY <1>1, <1>3, <1>4, <2>3
  <2>4. CASE i \notin 1 .. m /\ j \notin 1 .. m
    <3>. PICK q \in 1 .. n, s \in 1 .. n : i = m + q /\ j = m + s
      BY <1>2, <2>4
    <3>1. b[q].entry = b[s].entry
      BY <1>1, <1>4
    <3>. QED
      BY <1>1, <3>1 DEF Apart
  <2>. QED
    BY <2>1, <2>2, <2>3, <2>4
<1>. QED
  BY <1>1, <1>4 DEF Apart

LEMMA FlatApart ==
  ASSUME NEW S, NEW N \in Nat, NEW lists \in [1 .. N -> Seq(S)], \A k \in 1 .. N : Apart(lists[k]),
         \A j, k \in 1 .. N : j # k => Strangers(ToSet(lists[j]), ToSet(lists[k]))
  PROVE  Apart(FlattenSeq(lists))
<1>. PICK flat \in [0 .. N -> Seq(S)] :
            /\ flat[0] = <<>> /\ \A k \in 1 .. N : flat[k] = flat[k - 1] \o lists[k]
            /\ FlattenSeq(lists) = flat[N]
  BY FlatIs
<1>. DEFINE T == {n \in 0 .. N : /\ Apart(flat[n])
                                 /\ \A x \in ToSet(flat[n]) : \E k \in 1 .. n : x \in ToSet(lists[k])}
<1>1. 0 \in T
  <2>1. ToSet(flat[0]) = {} /\ DOMAIN flat[0] = {}
    BY DEF ToSet
  <2>. QED
    BY <2>1 DEF Apart
<1>2. ASSUME NEW n \in 0 .. N, n < N, n \in T PROVE n + 1 \in T
  <2>. PICK m \in 1 .. N : m = n + 1
    BY <1>2
  <2>1. flat[m] = flat[n] \o lists[m] /\ lists[m] \in Seq(S) /\ flat[n] \in Seq(S)
    <3>1. m - 1 = n
      OBVIOUS
    <3>. QED
      BY <3>1
  <2>2. ToSet(flat[m]) = ToSet(flat[n]) \cup ToSet(lists[m])
    BY <2>1, BothHold
  <2>3. 1 .. m = (1 .. n) \cup {m}
    BY ONLY m = n + 1, n \in 0 .. N, N \in Nat
  <2>4. \A x \in ToSet(flat[n]) : \E k \in 1 .. n : x \in ToSet(lists[k])
    BY <1>2
  <2>5. \A x \in ToSet(flat[m]) : \E k \in 1 .. m : x \in ToSet(lists[k])
    BY ONLY <2>2, <2>3, <2>4
  <2>6. Strangers(ToSet(flat[n]), ToSet(lists[m]))
    <3>1. ASSUME NEW k \in 1 .. n PROVE Strangers(ToSet(lists[k]), ToSet(lists[m]))
      <4>1. k \in 1 .. N /\ k # m
        OBVIOUS
      <4>. QED
        BY <4>1
    <3>. QED
      BY ONLY <2>4, <3>1 DEF Strangers
  <2>7. Apart(flat[m])
    BY <1>2, <2>1, <2>6, BothApart
  <2>. QED
    BY <2>5, <2>7
<1>3. \A n \in 0 .. N : n \in T
  <2>. HIDE DEF T
  <2>. QED
    BY <1>1, <1>2, UpTo
<1>4. N \in T
  <2>. HIDE DEF T
  <2>. QED
    BY <1>3
<1>. QED
  BY <1>4

\* The cards collected are a list with no entry twice.
Views(facts, cards, t) == [i \in DOMAIN cards |-> CardView(facts, cards[i], t)]
LEMMA ViewsAre ==
  ASSUME NEW facts, NEW cards, CardsOK(cards), NEW t
  PROVE  /\ Views(facts, cards, t) \in Seq(ToSet(Views(facts, cards, t))) /\ Apart(Views(facts, cards, t))
         /\ \A x \in ToSet(Views(facts, cards, t)) : x.entry \in Holds(cards)
<1>. PICK n \in Nat : n = Len(cards) /\ DOMAIN cards = 1 .. n
  BY CardsElim
<1>1. /\ \A i \in 1 .. n : cards[i] \in ToSet(cards)
      /\ \A i, j \in 1 .. n : cards[i].id = cards[j].id => i = j
  BY CardsElim
<1>. PICK v : v = Views(facts, cards, t)
  OBVIOUS
<1>2. v = [i \in 1 .. n |-> CardView(facts, cards[i], t)]
  BY DEF Views
<1>3. v = [i \in 1 .. n |-> v[i]] /\ \A i \in 1 .. n : v[i].entry = cards[i].id
  BY <1>2 DEF CardView
<1>4. \A i \in 1 .. n : v[i] \in ToSet(v)
  BY <1>3 DEF ToSet
<1>5. v \in Seq(ToSet(v)) /\ DOMAIN v = 1 .. n
  BY <1>3, <1>4, ListOf
<1>6. Apart(v)
  BY ONLY <1>1, <1>3, <1>5 DEF Apart
<1>7. ASSUME NEW x \in ToSet(v) PROVE x.entry \in Holds(cards)
  <2>. PICK i \in 1 .. n : x = v[i]
    BY ONLY <1>5, x \in ToSet(v) DEF ToSet
  <2>. QED
    BY ONLY <1>1, <1>3, x = v[i], i \in 1 .. n DEF Holds
<1>. QED
  BY <1>5, <1>6, <1>7

LEMMA CardsApart ==
  ASSUME NEW p, Ordered(p), NEW facts
  PROVE  \E M \in Nat : /\ DOMAIN CollectCards(p, facts) = 1 .. M /\ Len(CollectCards(p, facts)) = M
                        /\ Apart(CollectCards(p, facts))
<1>. PICK N \in Nat : Boarded(p, N)
  BY BoardedElim
<1>. PICK terms : terms = p.terms
  OBVIOUS
<1>1. /\ DOMAIN terms = 1 .. N /\ CardsOK(p.incoming)
      /\ \A k \in 1 .. N : CardsOK(terms[k].cards) /\ Holds(terms[k].cards) \cap Holds(p.incoming) = {}
      /\ \A j, k \in 1 .. N : j # k => Holds(terms[j].cards) \cap Holds(terms[k].cards) = {}
  BY TermsAre DEF Boarded, TermOK
<1>. PICK first : first = Views(facts, p.incoming, None)
  OBVIOUS
<1>. PICK lists : lists = [k \in 1 .. N |-> Views(facts, terms[k].cards, terms[k].id)]
  OBVIOUS
<1>2. CollectCards(p, facts) = first \o FlattenSeq(lists)
  BY <1>1 DEF CollectCards, Views, CardView
<1>3. /\ first \in Seq(ToSet(first)) /\ Apart(first)
      /\ \A x \in ToSet(first) : x.entry \in Holds(p.incoming)
  BY <1>1, ViewsAre
<1>4. \A k \in 1 .. N : /\ lists[k] \in Seq(ToSet(lists[k])) /\ Apart(lists[k])
                        /\ \A x \in ToSet(lists[k]) : x.entry \in Holds(terms[k].cards)
  BY <1>1, ViewsAre
<1>. PICK S : S = ToSet(first) \cup UNION {ToSet(lists[k]) : k \in 1 .. N}
  OBVIOUS
<1>5. ASSUME NEW list, ToSet(list) \subseteq S, list \in Seq(ToSet(list)) PROVE list \in Seq(S)
  <2>1. Len(list) \in Nat /\ list = [i \in 1 .. Len(list) |-> list[i]] /\ \A i \in 1 .. Len(list) : list[i] \in ToSet(list)
    BY ONLY <1>5
  <2>2. \A i \in 1 .. Len(list) : list[i] \in S
    BY <1>5, <2>1
  <2>. QED
    BY ONLY <2>1, <2>2, ListOf
<1>6. first \in Seq(S)
  BY <1>3, <1>5
<1>7. lists \in [1 .. N -> Seq(S)]
  <2>1. \A k \in 1 .. N : lists[k] \in Seq(S)
    BY <1>4, <1>5
  <2>2. lists = [k \in 1 .. N |-> lists[k]]
    OBVIOUS
  <2>. QED
    BY ONLY <2>1, <2>2
<1>8. ASSUME NEW j \in 1 .. N, NEW k \in 1 .. N, j # k PROVE Strangers(ToSet(lists[j]), ToSet(lists[k]))
  <2>1. Holds(terms[j].cards) \cap Holds(terms[k].cards) = {}
    BY <1>1, <1>8
  <2>2. ASSUME NEW x \in ToSet(lists[j]), NEW y \in ToSet(lists[k]) PROVE x.entry # y.entry
    <3>1. x.entry \in Holds(terms[j].cards) /\ y.entry \in Holds(terms[k].cards)
      BY <1>4
    <3>. QED
      BY ONLY <2>1, <3>1
  <2>. QED
    BY ONLY <2>2 DEF Strangers
<1>. PICK rest : rest = FlattenSeq(lists)
  OBVIOUS
<1>9. rest \in Seq(S) /\ Apart(rest) /\ \A x \in ToSet(rest) : \E k \in 1 .. N : x \in ToSet(lists[k])
  <2>1. rest \in Seq(S)
    BY <1>7, Flattened
  <2>2. Apart(rest)
    <3>1. \A k \in 1 .. N : Apart(lists[k])
      BY <1>4
    <3>. QED
      BY ONLY <1>7, <1>8, <3>1, FlatApart, N \in Nat, rest = FlattenSeq(lists)
  <2>3. \A x : x \in ToSet(rest) <=> \E k \in 1 .. N : x \in ToSet(lists[k])
    BY <1>7, FlatHolds
  <2>. QED
    BY <2>1, <2>2, <2>3
<1>10. Strangers(ToSet(first), ToSet(rest))
  <2>1. ASSUME NEW x \in ToSet(first), NEW y \in ToSet(rest) PROVE x.entry # y.entry
    <3>. PICK k \in 1 .. N : y \in ToSet(lists[k])
      BY <1>9
    <3>1. x.entry \in Holds(p.incoming) /\ y.entry \in Holds(terms[k].cards)
      BY <1>3, <1>4
    <3>. QED
      BY <1>1, <3>1
  <2>. QED
    BY <2>1 DEF Strangers
<1>. PICK all : all = first \o rest
  OBVIOUS
<1>11. Apart(all)
  BY <1>3, <1>6, <1>9, <1>10, BothApart
<1>12. all \in Seq(S)
  BY ONLY <1>6, <1>9, all = first \o rest
<1>13. Len(all) \in Nat /\ DOMAIN all = 1 .. Len(all)
  BY ONLY <1>12
<1>. QED
  BY <1>2, <1>11, <1>13

\* The rules of a program in document order, level by level.
Strolled(root, D, n, below) ==
    [r \in Below(root, D - n, Under) |->
        <<r>> \o IF n = 0 THEN <<>> ELSE FlattenSeq([i \in DOMAIN Under(r) |-> below[Under(r)[i]]])]
IsStroll(f, root, D, N) == f = [n \in 0 .. N |-> Strolled(root, D, n, f[n - 1])]
LEMMA StrollExists ==
  ASSUME NEW root, NEW D, NEW N \in Nat, \A a, b : Strolled(root, D, 0, a) = Strolled(root, D, 0, b)
  PROVE  \E f : IsStroll(f, root, D, N)
<1>. DEFINE S == {n \in 0 .. N : \E f : IsStroll(f, root, D, n)}
<1>1. 0 \in S
  <2>. PICK f : f = [n \in 0 .. 0 |-> Strolled(root, D, 0, 0)]
    OBVIOUS
  <2>1. f = [n \in 0 .. 0 |-> f[n]] /\ \A n \in 0 .. 0 : n = 0 /\ f[n] = Strolled(root, D, 0, 0)
    OBVIOUS
  <2>2. \A n \in 0 .. 0 : f[n] = Strolled(root, D, n, f[n - 1])
    BY <2>1
  <2>3. IsStroll(f, root, D, 0)
    BY <2>1, <2>2 DEF IsStroll
  <2>. QED
    BY <2>3
<1>2. ASSUME NEW n \in 0 .. N, n < N, n \in S PROVE n + 1 \in S
  <2>. PICK f : IsStroll(f, root, D, n)
    BY <1>2
  <2>. PICK m \in 1 .. N : m = n + 1
    BY <1>2
  <2>. PICK new : new = Strolled(root, D, m, f[n])
    OBVIOUS
  <2>. PICK g : g = [k \in 0 .. m |-> IF k = m THEN new ELSE f[k]]
    OBVIOUS
  <2>1. \A k \in 0 .. m : g[k] = IF k = m THEN new ELSE f[k]
    OBVIOUS
  <2>2. \A k \in 0 .. n : f[k] = Strolled(root, D, k, f[k - 1])
    BY DEF IsStroll
  <2>3. ASSUME NEW k \in 0 .. m PROVE g[k] = Strolled(root, D, k, g[k - 1])
    <3>1. CASE k = m
      <4>1. k - 1 = n /\ n \in 0 .. m /\ n # m
        BY <3>1
      <4>2. g[k - 1] = f[n] /\ g[k] = new
        BY ONLY <2>1, <3>1, <4>1, k \in 0 .. m
      <4>. QED
        BY ONLY <3>1, <4>2, new = Strolled(root, D, m, f[n])
    <3>2. CASE k # m /\ k # 0
      <4>1. k \in 0 .. n /\ k - 1 \in 0 .. m /\ k - 1 # m
        BY <3>2
      <4>2. g[k] = f[k] /\ g[k - 1] = f[k - 1]
        BY ONLY <2>1, <3>2, <4>1, k \in 0 .. m
      <4>3. f[k] = Strolled(root, D, k, f[k - 1])
        BY <2>2, <4>1
      <4>. QED
        BY ONLY <4>2, <4>3
    <3>3. CASE k # m /\ k = 0
      <4>1. k \in 0 .. n
        BY <3>3
      <4>2. g[k] = f[k]
        BY ONLY <2>1, <3>3, k \in 0 .. m
      <4>3. f[k] = Strolled(root, D, 0, f[k - 1])
        BY <2>2, <3>3, <4>1
      <4>4. Strolled(root, D, 0, f[k - 1]) = Strolled(root, D, 0, g[k - 1])
        OBVIOUS
      <4>. QED
        BY ONLY <3>3, <4>2, <4>3, <4>4
    <3>. QED
      BY <3>1, <3>2, <3>3
  <2>4. g = [k \in 0 .. m |-> g[k]]
    OBVIOUS
  <2>5. IsStroll(g, root, D, m)
    BY ONLY <2>3, <2>4 DEF IsStroll
  <2>. QED
    BY <2>5
<1>3. \A n \in 0 .. N : n \in S
  <2>. HIDE DEF S
  <2>. QED
    BY <1>1, <1>2, UpTo
<1>. QED
  BY <1>3

\* The rules a program's nodes are read from, level by level.
Levels(root, D, below) ==
    /\ below[0] = {root} /\ (\A d \in 0 .. D : below[d] = Below(root, d, Under))
    /\ \A d \in 0 .. D : d < D => below[d + 1] = Opened(below[d])
LEMMA LevelsAre ==
  ASSUME NEW root, NEW D \in Nat, NEW below, below = [d \in 0 .. D |-> Below(root, d, Under)]
  PROVE  Levels(root, D, below) /\ \A d \in 0 .. D : below[d] \subseteq below[D]
<1>1. \A d \in 0 .. D : below[d] = Below(root, d, Under)
  OBVIOUS
<1>2. below[0] = {root} /\ \A d \in 0 .. D : d < D => below[d + 1] = Opened(below[d])
  <2>1. ASSUME NEW d \in 0 .. D, d < D PROVE below[d + 1] = Opened(below[d])
    <3>1. d + 1 \in 0 .. D /\ d \in Nat
      BY <2>1
    <3>. QED
      BY <1>1, <3>1, BelowIs
  <2>2. below[0] = {root}
    BY <1>1, BelowIs
  <2>. QED
    BY <2>1, <2>2
<1>3. ASSUME NEW d \in 0 .. D PROVE below[d] \subseteq below[D]
  <2>. DEFINE T == {n \in 0 .. D : n >= d => below[d] \subseteq below[n]}
  <2>1. 0 \in T
    <3>1. 0 >= d => d = 0
      OBVIOUS
    <3>. QED
      BY <3>1
  <2>2. ASSUME NEW n \in 0 .. D, n < D, n \in T PROVE n + 1 \in T
    <3>1. n + 1 \in 0 .. D /\ below[n] \subseteq below[n + 1]
      <4>1. below[n + 1] = Opened(below[n])
        BY <1>2, <2>2
      <4>2. below[n] \subseteq below[n + 1]
        BY ONLY <4>1 DEF Opened
      <4>. QED
        BY <2>2, <4>2
    <3>2. n + 1 >= d => n >= d \/ n + 1 = d
      OBVIOUS
    <3>3. n >= d => below[d] \subseteq below[n]
      BY <2>2
    <3>4. n + 1 >= d => below[d] \subseteq below[n + 1]
      BY ONLY <3>1, <3>2, <3>3
    <3>. QED
      BY ONLY <3>1, <3>4
  <2>3. \A n \in 0 .. D : n \in T
    <3>. HIDE DEF T
    <3>. QED
      BY <2>1, <2>2, UpTo
  <2>4. D \in T /\ D >= d
    <3>1. D \in 0 .. D /\ D >= d
      OBVIOUS
    <3>. HIDE DEF T
    <3>. QED
      BY <2>3, <3>1
  <2>. QED
    BY <2>4
<1>. QED
  BY <1>1, <1>2, <1>3 DEF Levels

\* What stands at a place of the walk: the rule, and below a group what is
\* walked of its children.
Steps(walk, below, D, n, r) ==
    /\ walk[n][r] \in Seq(below[D])
    /\ IF IsGroup(r) /\ n > 0
       THEN \E N \in Nat : /\ Len(r.of) = N /\ r.of \in [1 .. N -> below[D - (n - 1)]]
                           /\ walk[n][r] = <<r>> \o FlattenSeq([i \in 1 .. N |-> walk[n - 1][r.of[i]]])
       ELSE walk[n][r] = <<r>>
Strolls(walk, below, root, D) ==
    /\ Levels(root, D, below) /\ (\A d \in 0 .. D : below[d] \subseteq below[D])
    /\ Walk(root) = walk[D][root]
    /\ \A n \in 0 .. D : \A r \in below[D - n] : Steps(walk, below, D, n, r)
LEMMA NodesAre ==
  ASSUME NEW root, RulesOK(root), NEW D \in Nat, D = MaxDepth
  PROVE  \E walk, below : Strolls(walk, below, root, D)
<1>1. \A a, b : Strolled(root, D, 0, a) = Strolled(root, D, 0, b)
  BY DEF Strolled
<1>. DEFINE walk == CHOOSE f : IsStroll(f, root, D, D)
<1>2. IsStroll(walk, root, D, D)
  BY <1>1, StrollExists
<1>3. Walk(root) = walk[D][root]
  BY DEF Walk, WalkTo, IsStroll, Strolled
<1>. HIDE DEF walk
<1>. PICK below : below = [d \in 0 .. D |-> Below(root, d, Under)]
  OBVIOUS
<1>4. Levels(root, D, below) /\ \A d \in 0 .. D : below[d] \subseteq below[D]
  BY LevelsAre
<1>5. \A d \in 0 .. D : below[d] = Below(root, d, Under)
  OBVIOUS
<1>6. \A n \in 0 .. D : \A r \in below[D - n] : RuleOK(r)
  <2>1. \A n \in 0 .. D : D - n \in 0 .. D
    OBVIOUS
  <2>. QED
    BY <1>5, <2>1 DEF RulesOK
<1>7. ASSUME NEW n \in 0 .. D
      PROVE  walk[n] = [r \in below[D - n] |-> <<r>> \o IF n = 0 THEN <<>>
                          ELSE FlattenSeq([i \in DOMAIN Under(r) |-> walk[n - 1][Under(r)[i]]])]
  <2>1. D - n \in 0 .. D
    OBVIOUS
  <2>2. walk[n] = Strolled(root, D, n, walk[n - 1])
    BY <1>2 DEF IsStroll
  <2>. QED
    BY <1>5, <2>1, <2>2 DEF Strolled
<1>8. ASSUME NEW n \in 0 .. D, NEW r \in below[D - n]
      PROVE  /\ n = 0 => walk[n][r] = <<r>>
             /\ n # 0 => walk[n][r] = <<r>> \o FlattenSeq([i \in DOMAIN Under(r) |-> walk[n - 1][Under(r)[i]]])
  <2>1. walk[n][r] = <<r>> \o IF n = 0 THEN <<>>
                          ELSE FlattenSeq([i \in DOMAIN Under(r) |-> walk[n - 1][Under(r)[i]]])
    BY <1>7
  <2>2. <<r>> \o <<>> = <<r>>
    OBVIOUS
  <2>. QED
    BY ONLY <2>1, <2>2
<1>9. ASSUME NEW n \in 0 .. D, NEW r \in below[D - n], ~(IsGroup(r) /\ n > 0) PROVE walk[n][r] = <<r>>
  <2>1. CASE n # 0
    <3>. PICK none : none = [i \in 1 .. 0 |-> walk[n - 1][Under(r)[i]]]
      OBVIOUS
    <3>1. DOMAIN Under(r) = 1 .. 0
      <4>1. n > 0
        BY <2>1
      <4>2. Under(r) = <<>>
        BY <1>9, <4>1 DEF Under
      <4>. QED
        BY <4>2
    <3>2. FlattenSeq(none) = <<>>
      <4>1. none = <<>>
        OBVIOUS
      <4>. QED
        BY <4>1 DEF FlattenSeq
    <3>3. walk[n][r] = <<r>> \o <<>>
      BY <1>8, <2>1, <3>1, <3>2
    <3>. QED
      BY ONLY <3>3
  <2>. QED
    BY <1>8, <2>1
<1>10. ASSUME NEW n \in 0 .. D, NEW r \in below[D - n], IsGroup(r), n > 0
       PROVE  \E N \in Nat : /\ Len(r.of) = N /\ r.of \in [1 .. N -> below[D - (n - 1)]]
                             /\ walk[n][r] = <<r>> \o FlattenSeq([i \in 1 .. N |-> walk[n - 1][r.of[i]]])
  <2>1. r.of \in Seq(ToSet(r.of))
    BY <1>6, <1>10 DEF RuleOK
  <2>. PICK N \in Nat : N = Len(r.of) /\ DOMAIN r.of = 1 .. N /\ r.of \in [1 .. N -> ToSet(r.of)]
    BY ONLY <2>1
  <2>2. Under(r) = r.of
    BY <1>10 DEF Under
  <2>. PICK d \in 0 .. D : d = D - n
    OBVIOUS
  <2>3. below[d + 1] = Opened(below[d]) /\ d + 1 = D - (n - 1)
    <3>1. d < D /\ d + 1 = D - (n - 1)
      BY <1>10
    <3>. QED
      BY <1>4, <3>1 DEF Levels
  <2>4. ToSet(r.of) \subseteq below[d + 1]
    BY <2>2, <2>3 DEF Opened
  <2>5. r.of \in [1 .. N -> below[D - (n - 1)]]
    BY <2>3, <2>4
  <2>6. walk[n][r] = <<r>> \o FlattenSeq([i \in 1 .. N |-> walk[n - 1][r.of[i]]])
    <3>1. walk[n][r] = <<r>> \o FlattenSeq([i \in DOMAIN Under(r) |-> walk[n - 1][Under(r)[i]]])
      <4>1. n # 0
        BY <1>10
      <4>. QED
        BY <1>8, <4>1
    <3>. QED
      BY ONLY <2>2, <3>1, DOMAIN r.of = 1 .. N
  <2>. QED
    BY <2>5, <2>6
<1>. DEFINE T == {n \in 0 .. D : \A r \in below[D - n] : walk[n][r] \in Seq(below[D])}
<1>11. ASSUME NEW n \in 0 .. D, NEW r \in below[D - n] PROVE <<r>> \in Seq(below[D])
  <2>1. D - n \in 0 .. D
    OBVIOUS
  <2>2. r \in below[D]
    BY <1>4, <2>1
  <2>. QED
    BY <2>2
<1>12. 0 \in T
  <2>1. 0 \in 0 .. D /\ ~(0 > 0)
    OBVIOUS
  <2>2. ASSUME NEW r \in below[D - 0] PROVE walk[0][r] \in Seq(below[D])
    BY <1>9, <1>11, <2>1
  <2>. QED
    BY <2>1, <2>2
<1>13. ASSUME NEW n \in 0 .. D, n < D, n \in T PROVE n + 1 \in T
  <2>. PICK m \in 1 .. D : m = n + 1
    BY <1>13
  <2>0. m \in 0 .. D /\ m > 0 /\ m - 1 = n
    OBVIOUS
  <2>1. ASSUME NEW r \in below[D - m] PROVE walk[m][r] \in Seq(below[D])
    <3>1. CASE IsGroup(r)
      <4>. PICK N \in Nat : /\ r.of \in [1 .. N -> below[D - (m - 1)]]
                            /\ walk[m][r] = <<r>> \o FlattenSeq([i \in 1 .. N |-> walk[m - 1][r.of[i]]])
        BY <1>10, <2>0, <3>1
      <4>. PICK lists : lists = [i \in 1 .. N |-> walk[n][r.of[i]]]
        OBVIOUS
      <4>1. lists \in [1 .. N -> Seq(below[D])]
        <5>1. \A i \in 1 .. N : r.of[i] \in below[D - n]
          BY <2>0
        <5>2. \A i \in 1 .. N : walk[n][r.of[i]] \in Seq(below[D])
          BY <1>13, <5>1
        <5>. QED
          BY ONLY <5>2, lists = [i \in 1 .. N |-> walk[n][r.of[i]]]
      <4>2. FlattenSeq(lists) \in Seq(below[D])
        BY <4>1, Flattened
      <4>3. walk[m][r] = <<r>> \o FlattenSeq(lists)
        BY <2>0
      <4>4. <<r>> \in Seq(below[D])
        BY <1>11, <2>0
      <4>. QED
        BY ONLY <4>2, <4>3, <4>4
    <3>2. CASE ~IsGroup(r)
      <4>1. walk[m][r] = <<r>>
        BY <1>9, <2>0, <3>2
      <4>2. <<r>> \in Seq(below[D])
        BY <1>11, <2>0
      <4>. QED
        BY <4>1, <4>2
    <3>. QED
      BY <3>1, <3>2
  <2>. QED
    BY <2>0, <2>1
<1>14. \A n \in 0 .. D : n \in T
  <2>. HIDE DEF T
  <2>. QED
    BY <1>12, <1>13, UpTo
<1>15. ASSUME NEW n \in 0 .. D, NEW r \in below[D - n] PROVE Steps(walk, below, D, n, r)
  <2>1. walk[n][r] \in Seq(below[D])
    BY <1>14
  <2>. QED
    BY ONLY <1>9, <1>10, <2>1, n \in 0 .. D, r \in below[D - n] DEF Steps
<1>16. Strolls(walk, below, root, D)
  BY ONLY <1>3, <1>4, <1>15 DEF Strolls
<1>. QED
  BY <1>16

\* The nodes of a program are rules of its tree, and the slots one place for
\* each semester of its course rules.
LEMMA SlotsAre ==
  ASSUME NEW program, ProgramOK(program), MaxDepth \in Nat, NEW slots, slots = Slots(program)
  PROVE  /\ Nodes(program) \in Seq(Below(program.root, MaxDepth, Under))
         /\ \E m \in Nat : /\ DOMAIN slots = 1 .. m /\ Len(slots) = m
                           /\ \A s \in 1 .. m : slots[s] \in ToSet(Nodes(program)) /\ slots[s].kind = "course"
<1>. PICK D \in Nat : D = MaxDepth
  OBVIOUS
<1>. PICK root : root = program.root
  OBVIOUS
<1>. PICK nodes : nodes = Nodes(program)
  OBVIOUS
<1>1. nodes \in Seq(Below(root, D, Under))
  <2>1. RulesOK(root) /\ nodes = Walk(root)
    BY DEF ProgramOK, Nodes
  <2>. PICK walk, below : Strolls(walk, below, root, D)
    BY <2>1, NodesAre
  <2>2. Walk(root) = walk[D][root] /\ Steps(walk, below, D, D, root) /\ below[D] = Below(root, D, Under)
    <3>1. D \in 0 .. D /\ D - D = 0
      OBVIOUS
    <3>2. root \in below[D - D]
      BY <3>1 DEF Strolls, Levels
    <3>. QED
      BY <3>1, <3>2 DEF Strolls, Levels
  <2>. QED
    BY <2>1, <2>2 DEF Steps
<1>. PICK n \in Nat : n = Len(nodes) /\ DOMAIN nodes = 1 .. n
  BY ONLY <1>1
<1>2. \A i \in 1 .. n : nodes[i] \in Below(root, D, Under) /\ nodes[i] \in ToSet(nodes)
  BY <1>1 DEF ToSet
<1>. PICK S : S = {r \in ToSet(nodes) : r.kind = "course"}
  OBVIOUS
<1>. PICK lists : lists = [i \in 1 .. n |-> IF nodes[i].kind = "course" THEN [k \in 1 .. nodes[i].semesters |-> nodes[i]]
                                            ELSE <<>>]
  OBVIOUS
<1>3. ASSUME NEW i \in 1 .. n PROVE lists[i] \in Seq(S)
  <2>1. CASE nodes[i].kind = "course"
    <3>1. RuleOK(nodes[i])
      <4>1. D - 0 = D /\ 0 \in 0 .. D
        OBVIOUS
      <4>2. RulesOK(root)
        BY DEF ProgramOK
      <4>. QED
        BY <1>2, <4>1, <4>2 DEF RulesOK
    <3>. PICK h \in Nat : h = nodes[i].semesters
      BY <2>1, <3>1 DEF RuleOK
    <3>. PICK list : list = [k \in 1 .. h |-> nodes[i]]
      OBVIOUS
    <3>2. list = [k \in 1 .. h |-> list[k]] /\ \A k \in 1 .. h : list[k] \in S
      BY <1>2, <2>1
    <3>3. list \in Seq(S)
      BY ONLY <3>2, ListOf, h \in Nat
    <3>. QED
      BY <2>1, <3>3
  <2>2. CASE nodes[i].kind # "course"
    BY <2>2
  <2>. QED
    BY <2>1, <2>2
<1>4. lists \in [1 .. n -> Seq(S)]
  <2>1. lists = [i \in 1 .. n |-> lists[i]]
    OBVIOUS
  <2>. QED
    BY ONLY <1>3, <2>1
<1>5. slots = FlattenSeq(lists)
  BY DEF Slots
<1>6. slots \in Seq(S)
  BY ONLY <1>4, <1>5, Flattened, n \in Nat
<1>. PICK m \in Nat : m = Len(slots) /\ DOMAIN slots = 1 .. m
  BY ONLY <1>6
<1>7. \A s \in 1 .. m : slots[s] \in S
  BY ONLY <1>6, m = Len(slots), DOMAIN slots = 1 .. m
<1>8. \A s \in 1 .. m : slots[s] \in ToSet(nodes) /\ slots[s].kind = "course"
  BY <1>7
<1>. QED
  BY <1>1, <1>8

\* One slot asks its cards, one after the other.
TryBelow(slot, card, st, prev) == Try(slot, card, st, LAMBDA y : prev[y])
OnTry(slot, mine, st, level, prev, k, before) ==
    IF k = 0 \/ level = 0 THEN [st EXCEPT !.ok = FALSE] ELSE TryBelow(slot, mine[k], before, prev)
IsTried(f, slot, mine, st, level, prev, N) == f = [n \in 0 .. N |-> OnTry(slot, mine, st, level, prev, n, f[n - 1])]
LEMMA TriedExists ==
  ASSUME NEW slot, NEW mine, NEW st, NEW level, NEW prev, NEW N \in Nat, \A a, b : OnTry(slot, mine, st, level, prev, 0, a) = OnTry(slot, mine, st, level, prev, 0, b)
  PROVE  \E f : IsTried(f, slot, mine, st, level, prev, N)
<1>. DEFINE S == {n \in 0 .. N : \E f : IsTried(f, slot, mine, st, level, prev, n)}
<1>1. 0 \in S
  <2>. PICK f : f = [n \in 0 .. 0 |-> OnTry(slot, mine, st, level, prev, 0, 0)]
    OBVIOUS
  <2>1. f = [n \in 0 .. 0 |-> f[n]] /\ \A n \in 0 .. 0 : n = 0 /\ f[n] = OnTry(slot, mine, st, level, prev, 0, 0)
    OBVIOUS
  <2>2. \A n \in 0 .. 0 : f[n] = OnTry(slot, mine, st, level, prev, n, f[n - 1])
    BY <2>1
  <2>3. IsTried(f, slot, mine, st, level, prev, 0)
    BY <2>1, <2>2 DEF IsTried
  <2>. QED
    BY <2>3
<1>2. ASSUME NEW n \in 0 .. N, n < N, n \in S PROVE n + 1 \in S
  <2>. PICK f : IsTried(f, slot, mine, st, level, prev, n)
    BY <1>2
  <2>. PICK m \in 1 .. N : m = n + 1
    BY <1>2
  <2>. PICK new : new = OnTry(slot, mine, st, level, prev, m, f[n])
    OBVIOUS
  <2>. PICK g : g = [k \in 0 .. m |-> IF k = m THEN new ELSE f[k]]
    OBVIOUS
  <2>1. \A k \in 0 .. m : g[k] = IF k = m THEN new ELSE f[k]
    OBVIOUS
  <2>2. \A k \in 0 .. n : f[k] = OnTry(slot, mine, st, level, prev, k, f[k - 1])
    BY DEF IsTried
  <2>3. ASSUME NEW k \in 0 .. m PROVE g[k] = OnTry(slot, mine, st, level, prev, k, g[k - 1])
    <3>1. CASE k = m
      <4>1. k - 1 = n /\ n \in 0 .. m /\ n # m
        BY <3>1
      <4>2. g[k - 1] = f[n] /\ g[k] = new
        BY ONLY <2>1, <3>1, <4>1, k \in 0 .. m
      <4>. QED
        BY ONLY <3>1, <4>2, new = OnTry(slot, mine, st, level, prev, m, f[n])
    <3>2. CASE k # m /\ k # 0
      <4>1. k \in 0 .. n /\ k - 1 \in 0 .. m /\ k - 1 # m
        BY <3>2
      <4>2. g[k] = f[k] /\ g[k - 1] = f[k - 1]
        BY ONLY <2>1, <3>2, <4>1, k \in 0 .. m
      <4>3. f[k] = OnTry(slot, mine, st, level, prev, k, f[k - 1])
        BY <2>2, <4>1
      <4>. QED
        BY ONLY <4>2, <4>3
    <3>3. CASE k # m /\ k = 0
      <4>1. k \in 0 .. n
        BY <3>3
      <4>2. g[k] = f[k]
        BY ONLY <2>1, <3>3, k \in 0 .. m
      <4>3. f[k] = OnTry(slot, mine, st, level, prev, 0, f[k - 1])
        BY <2>2, <3>3, <4>1
      <4>4. OnTry(slot, mine, st, level, prev, 0, f[k - 1]) = OnTry(slot, mine, st, level, prev, 0, g[k - 1])
        OBVIOUS
      <4>. QED
        BY ONLY <3>3, <4>2, <4>3, <4>4
    <3>. QED
      BY <3>1, <3>2, <3>3
  <2>4. g = [k \in 0 .. m |-> g[k]]
    OBVIOUS
  <2>5. IsTried(g, slot, mine, st, level, prev, m)
    BY ONLY <2>3, <2>4 DEF IsTried
  <2>. QED
    BY <2>5
<1>3. \A n \in 0 .. N : n \in S
  <2>. HIDE DEF S
  <2>. QED
    BY <1>1, <1>2, UpTo
<1>. QED
  BY <1>3

\* Slots ask slots, level by level.
StatesOf(candidates, cards) ==
    [ok : BOOLEAN, seen : SUBSET DOMAIN cards, slotOf : [DOMAIN cards -> 0 .. Len(candidates)]]
TriedBy(slot, mine, st, level, prev) == CHOOSE f : IsTried(f, slot, mine, st, level, prev, Len(mine))
Augmented(candidates, cards, n, prev) ==
    [x \in (DOMAIN candidates) \X StatesOf(candidates, cards) |->
        TriedBy(x[1], candidates[x[1]], x[2], n, prev)[Len(candidates[x[1]])]]
IsAugment(f, candidates, cards, N) == f = [n \in 0 .. N |-> Augmented(candidates, cards, n, f[n - 1])]
LEMMA AugmentExists ==
  ASSUME NEW candidates, NEW cards, NEW N \in Nat, \A a, b : Augmented(candidates, cards, 0, a) = Augmented(candidates, cards, 0, b)
  PROVE  \E f : IsAugment(f, candidates, cards, N)
<1>. DEFINE S == {n \in 0 .. N : \E f : IsAugment(f, candidates, cards, n)}
<1>1. 0 \in S
  <2>. PICK f : f = [n \in 0 .. 0 |-> Augmented(candidates, cards, 0, 0)]
    OBVIOUS
  <2>1. f = [n \in 0 .. 0 |-> f[n]] /\ \A n \in 0 .. 0 : n = 0 /\ f[n] = Augmented(candidates, cards, 0, 0)
    OBVIOUS
  <2>2. \A n \in 0 .. 0 : f[n] = Augmented(candidates, cards, n, f[n - 1])
    BY <2>1
  <2>3. IsAugment(f, candidates, cards, 0)
    BY <2>1, <2>2 DEF IsAugment
  <2>. QED
    BY <2>3
<1>2. ASSUME NEW n \in 0 .. N, n < N, n \in S PROVE n + 1 \in S
  <2>. PICK f : IsAugment(f, candidates, cards, n)
    BY <1>2
  <2>. PICK m \in 1 .. N : m = n + 1
    BY <1>2
  <2>. PICK new : new = Augmented(candidates, cards, m, f[n])
    OBVIOUS
  <2>. PICK g : g = [k \in 0 .. m |-> IF k = m THEN new ELSE f[k]]
    OBVIOUS
  <2>1. \A k \in 0 .. m : g[k] = IF k = m THEN new ELSE f[k]
    OBVIOUS
  <2>2. \A k \in 0 .. n : f[k] = Augmented(candidates, cards, k, f[k - 1])
    BY DEF IsAugment
  <2>3. ASSUME NEW k \in 0 .. m PROVE g[k] = Augmented(candidates, cards, k, g[k - 1])
    <3>1. CASE k = m
      <4>1. k - 1 = n /\ n \in 0 .. m /\ n # m
        BY <3>1
      <4>2. g[k - 1] = f[n] /\ g[k] = new
        BY ONLY <2>1, <3>1, <4>1, k \in 0 .. m
      <4>. QED
        BY ONLY <3>1, <4>2, new = Augmented(candidates, cards, m, f[n])
    <3>2. CASE k # m /\ k # 0
      <4>1. k \in 0 .. n /\ k - 1 \in 0 .. m /\ k - 1 # m
        BY <3>2
      <4>2. g[k] = f[k] /\ g[k - 1] = f[k - 1]
        BY ONLY <2>1, <3>2, <4>1, k \in 0 .. m
      <4>3. f[k] = Augmented(candidates, cards, k, f[k - 1])
        BY <2>2, <4>1
      <4>. QED
        BY ONLY <4>2, <4>3
    <3>3. CASE k # m /\ k = 0
      <4>1. k \in 0 .. n
        BY <3>3
      <4>2. g[k] = f[k]
        BY ONLY <2>1, <3>3, k \in 0 .. m
      <4>3. f[k] = Augmented(candidates, cards, 0, f[k - 1])
        BY <2>2, <3>3, <4>1
      <4>4. Augmented(candidates, cards, 0, f[k - 1]) = Augmented(candidates, cards, 0, g[k - 1])
        OBVIOUS
      <4>. QED
        BY ONLY <3>3, <4>2, <4>3, <4>4
    <3>. QED
      BY <3>1, <3>2, <3>3
  <2>4. g = [k \in 0 .. m |-> g[k]]
    OBVIOUS
  <2>5. IsAugment(g, candidates, cards, m)
    BY ONLY <2>3, <2>4 DEF IsAugment
  <2>. QED
    BY <2>5
<1>3. \A n \in 0 .. N : n \in S
  <2>. HIDE DEF S
  <2>. QED
    BY <1>1, <1>2, UpTo
<1>. QED
  BY <1>3

\* Slot after slot is matched.
OnMatch(candidates, cards, s, before) ==
    IF s = 0 THEN [i \in DOMAIN cards |-> 0]
    ELSE Augment(candidates, cards)[<<s, [ok |-> FALSE, seen |-> {}, slotOf |-> before]>>].slotOf
IsMatch(f, candidates, cards, N) == f = [n \in 0 .. N |-> OnMatch(candidates, cards, n, f[n - 1])]
LEMMA MatchExists ==
  ASSUME NEW candidates, NEW cards, NEW N \in Nat, \A a, b : OnMatch(candidates, cards, 0, a) = OnMatch(candidates, cards, 0, b)
  PROVE  \E f : IsMatch(f, candidates, cards, N)
<1>. DEFINE S == {n \in 0 .. N : \E f : IsMatch(f, candidates, cards, n)}
<1>1. 0 \in S
  <2>. PICK f : f = [n \in 0 .. 0 |-> OnMatch(candidates, cards, 0, 0)]
    OBVIOUS
  <2>1. f = [n \in 0 .. 0 |-> f[n]] /\ \A n \in 0 .. 0 : n = 0 /\ f[n] = OnMatch(candidates, cards, 0, 0)
    OBVIOUS
  <2>2. \A n \in 0 .. 0 : f[n] = OnMatch(candidates, cards, n, f[n - 1])
    BY <2>1
  <2>3. IsMatch(f, candidates, cards, 0)
    BY <2>1, <2>2 DEF IsMatch
  <2>. QED
    BY <2>3
<1>2. ASSUME NEW n \in 0 .. N, n < N, n \in S PROVE n + 1 \in S
  <2>. PICK f : IsMatch(f, candidates, cards, n)
    BY <1>2
  <2>. PICK m \in 1 .. N : m = n + 1
    BY <1>2
  <2>. PICK new : new = OnMatch(candidates, cards, m, f[n])
    OBVIOUS
  <2>. PICK g : g = [k \in 0 .. m |-> IF k = m THEN new ELSE f[k]]
    OBVIOUS
  <2>1. \A k \in 0 .. m : g[k] = IF k = m THEN new ELSE f[k]
    OBVIOUS
  <2>2. \A k \in 0 .. n : f[k] = OnMatch(candidates, cards, k, f[k - 1])
    BY DEF IsMatch
  <2>3. ASSUME NEW k \in 0 .. m PROVE g[k] = OnMatch(candidates, cards, k, g[k - 1])
    <3>1. CASE k = m
      <4>1. k - 1 = n /\ n \in 0 .. m /\ n # m
        BY <3>1
      <4>2. g[k - 1] = f[n] /\ g[k] = new
        BY ONLY <2>1, <3>1, <4>1, k \in 0 .. m
      <4>. QED
        BY ONLY <3>1, <4>2, new = OnMatch(candidates, cards, m, f[n])
    <3>2. CASE k # m /\ k # 0
      <4>1. k \in 0 .. n /\ k - 1 \in 0 .. m /\ k - 1 # m
        BY <3>2
      <4>2. g[k] = f[k] /\ g[k - 1] = f[k - 1]
        BY ONLY <2>1, <3>2, <4>1, k \in 0 .. m
      <4>3. f[k] = OnMatch(candidates, cards, k, f[k - 1])
        BY <2>2, <4>1
      <4>. QED
        BY ONLY <4>2, <4>3
    <3>3. CASE k # m /\ k = 0
      <4>1. k \in 0 .. n
        BY <3>3
      <4>2. g[k] = f[k]
        BY ONLY <2>1, <3>3, k \in 0 .. m
      <4>3. f[k] = OnMatch(candidates, cards, 0, f[k - 1])
        BY <2>2, <3>3, <4>1
      <4>4. OnMatch(candidates, cards, 0, f[k - 1]) = OnMatch(candidates, cards, 0, g[k - 1])
        OBVIOUS
      <4>. QED
        BY ONLY <3>3, <4>2, <4>3, <4>4
    <3>. QED
      BY <3>1, <3>2, <3>3
  <2>4. g = [k \in 0 .. m |-> g[k]]
    OBVIOUS
  <2>5. IsMatch(g, candidates, cards, m)
    BY ONLY <2>3, <2>4 DEF IsMatch
  <2>. QED
    BY <2>5
<1>3. \A n \in 0 .. N : n \in S
  <2>. HIDE DEF S
  <2>. QED
    BY <1>1, <1>2, UpTo
<1>. QED
  BY <1>3

\* A card is held only by a slot that takes it.
Fine(st, m, M, R) ==
    /\ st \in [ok : BOOLEAN, seen : SUBSET (1 .. M), slotOf : [1 .. M -> 0 .. m]]
    /\ \A i \in 1 .. M : st.slotOf[i] # 0 => <<st.slotOf[i], i>> \in R
Keeping(prev, m, M, R) == \A s \in 1 .. m : \A st : Fine(st, m, M, R) => Fine(prev[<<s, st>>], m, M, R)
LEMMA TryFine ==
  ASSUME NEW m \in Nat, NEW M \in Nat, NEW R, NEW slot \in 1 .. m, NEW card \in 1 .. M, <<slot, card>> \in R,
         NEW st, Fine(st, m, M, R), NEW prev, Keeping(prev, m, M, R)
  PROVE  Fine(TryBelow(slot, card, st, prev), m, M, R)
<1>. DEFINE S == [ok : BOOLEAN, seen : SUBSET (1 .. M), slotOf : [1 .. M -> 0 .. m]]
<1>0. st \in S /\ \A i \in 1 .. M : st.slotOf[i] # 0 => <<st.slotOf[i], i>> \in R
  BY DEF Fine
<1>. PICK marked : marked = [st EXCEPT !.seen = @ \cup {card}]
  OBVIOUS
<1>. PICK done : done = [marked EXCEPT !.ok = TRUE]
  OBVIOUS
<1>. PICK freed : freed = IF st.slotOf[card] = 0 THEN done ELSE prev[<<st.slotOf[card], marked>>]
  OBVIOUS
<1>1. TryBelow(slot, card, st, prev) = IF st.ok \/ card \in st.seen THEN st
                                       ELSE IF freed.ok THEN [freed EXCEPT !.slotOf[card] = slot] ELSE freed
  BY DEF TryBelow, Try
<1>2. marked \in S /\ marked.slotOf = st.slotOf
  BY <1>0
<1>3. Fine(marked, m, M, R)
  BY <1>0, <1>2 DEF Fine
<1>4. Fine(done, m, M, R)
  <2>1. done \in S /\ done.slotOf = st.slotOf
    BY <1>2
  <2>. QED
    BY <1>0, <2>1 DEF Fine
<1>5. Fine(freed, m, M, R)
  <2>1. CASE st.slotOf[card] = 0
    BY <1>4, <2>1
  <2>2. CASE st.slotOf[card] # 0
    <3>1. st.slotOf[card] \in 1 .. m
      BY <1>0, <2>2
    <3>2. Fine(prev[<<st.slotOf[card], marked>>], m, M, R)
      BY <1>3, <3>1 DEF Keeping
    <3>. QED
      BY <2>2, <3>2
  <2>. QED
    BY <2>1, <2>2
<1>6. ASSUME NEW new, new = [freed EXCEPT !.slotOf[card] = slot] PROVE Fine(new, m, M, R)
  <2>1. freed \in S /\ \A i \in 1 .. M : freed.slotOf[i] # 0 => <<freed.slotOf[i], i>> \in R
    BY <1>5 DEF Fine
  <2>2. new \in S
    <3>. PICK held : held = [freed.slotOf EXCEPT ![card] = slot]
      OBVIOUS
    <3>1. held \in [1 .. M -> 0 .. m]
      <4>1. freed.slotOf \in [1 .. M -> 0 .. m]
        BY ONLY <2>1
      <4>2. slot \in 0 .. m
        BY ONLY slot \in 1 .. m, m \in Nat
      <4>. QED
        BY ONLY <4>1, <4>2, held = [freed.slotOf EXCEPT ![card] = slot]
    <3>2. new = [freed EXCEPT !.slotOf = held]
      BY ONLY <1>6, held = [freed.slotOf EXCEPT ![card] = slot]
    <3>. QED
      BY ONLY <2>1, <3>1, <3>2
  <2>3. \A i \in 1 .. M : new.slotOf[i] = IF i = card THEN slot ELSE freed.slotOf[i]
    BY <1>6, <2>1
  <2>4. \A i \in 1 .. M : new.slotOf[i] # 0 => <<new.slotOf[i], i>> \in R
    BY <2>1, <2>3
  <2>. QED
    BY <2>2, <2>4 DEF Fine
<1>. HIDE DEF S
<1>7. \/ TryBelow(slot, card, st, prev) = st
      \/ TryBelow(slot, card, st, prev) = [freed EXCEPT !.slotOf[card] = slot]
      \/ TryBelow(slot, card, st, prev) = freed
  BY <1>1
<1>. QED
  BY <1>5, <1>6, <1>7

LEMMA TriedIs ==
  ASSUME NEW slot, NEW N \in Nat, NEW mine, Len(mine) = N, NEW st, NEW level, NEW prev,
         NEW tried, tried = TriedBy(slot, mine, st, level, prev)
  PROVE  IsTried(tried, slot, mine, st, level, prev, N)
<1>1. \A a, b : OnTry(slot, mine, st, level, prev, 0, a) = OnTry(slot, mine, st, level, prev, 0, b)
  BY DEF OnTry
<1>2. \E f : IsTried(f, slot, mine, st, level, prev, N)
  BY <1>1, TriedExists
<1>3. tried = CHOOSE f : IsTried(f, slot, mine, st, level, prev, N)
  BY DEF TriedBy
<1>. QED
  BY ONLY <1>2, <1>3

LEMMA TriedFine ==
  ASSUME NEW m \in Nat, NEW M \in Nat, NEW R, NEW slot \in 1 .. m, NEW N \in Nat, NEW mine, Len(mine) = N,
         \A k \in 1 .. N : mine[k] \in 1 .. M /\ <<slot, mine[k]>> \in R,
         NEW st, Fine(st, m, M, R), NEW level, NEW prev, level # 0 => Keeping(prev, m, M, R)
  PROVE  Fine(TriedBy(slot, mine, st, level, prev)[N], m, M, R)
<1>. PICK tried : tried = TriedBy(slot, mine, st, level, prev)
  OBVIOUS
<1>1. IsTried(tried, slot, mine, st, level, prev, N)
  BY TriedIs
<1>2. \A k \in 0 .. N : tried[k] = OnTry(slot, mine, st, level, prev, k, tried[k - 1])
  BY ONLY <1>1 DEF IsTried
<1>. PICK off : off = [st EXCEPT !.ok = FALSE]
  OBVIOUS
<1>3. Fine(off, m, M, R)
  <2>1. off \in [ok : BOOLEAN, seen : SUBSET (1 .. M), slotOf : [1 .. M -> 0 .. m]] /\ off.slotOf = st.slotOf
    BY DEF Fine
  <2>. QED
    BY <2>1 DEF Fine
<1>. DEFINE T == {n \in 0 .. N : Fine(tried[n], m, M, R)}
<1>4. 0 \in T
  <2>1. 0 \in 0 .. N
    OBVIOUS
  <2>2. tried[0] = off
    BY <1>2, <2>1 DEF OnTry
  <2>. QED
    BY <1>3, <2>1, <2>2
<1>5. ASSUME NEW n \in 0 .. N, n < N, n \in T PROVE n + 1 \in T
  <2>. PICK k \in 1 .. N : k = n + 1
    BY <1>5
  <2>0. k \in 0 .. N /\ k - 1 = n /\ k # 0
    OBVIOUS
  <2>1. tried[k] = OnTry(slot, mine, st, level, prev, k, tried[n])
    BY <1>2, <2>0
  <2>2. CASE level = 0
    <3>1. tried[k] = off
      BY <2>1, <2>2 DEF OnTry
    <3>. QED
      BY <1>3, <2>0, <3>1
  <2>3. CASE level # 0
    <3>1. tried[k] = TryBelow(slot, mine[k], tried[n], prev)
      BY <2>0, <2>1, <2>3 DEF OnTry
    <3>2. Fine(tried[n], m, M, R) /\ mine[k] \in 1 .. M /\ <<slot, mine[k]>> \in R /\ Keeping(prev, m, M, R)
      BY <1>5, <2>3
    <3>3. Fine(TryBelow(slot, mine[k], tried[n], prev), m, M, R)
      BY ONLY <3>2, TryFine, m \in Nat, M \in Nat, slot \in 1 .. m
    <3>. QED
      BY <2>0, <3>1, <3>3
  <2>. QED
    BY <2>2, <2>3
<1>6. \A n \in 0 .. N : n \in T
  <2>. HIDE DEF T
  <2>. QED
    BY <1>4, <1>5, UpTo
<1>7. N \in T
  <2>1. N \in 0 .. N
    OBVIOUS
  <2>. HIDE DEF T
  <2>. QED
    BY <1>6, <2>1
<1>. QED
  BY <1>7

\* The candidates of a slot are cards it takes.
Taking(candidates, m, M, R) ==
    /\ DOMAIN candidates = 1 .. m /\ Len(candidates) = m
    /\ \A s \in 1 .. m : Len(candidates[s]) \in Nat /\ \A k \in 1 .. Len(candidates[s]) :
          candidates[s][k] \in 1 .. M /\ <<s, candidates[s][k]>> \in R
Levelled(augment, candidates, m, M, R) ==
    \A n \in 0 .. M : \A s \in 1 .. m : \A st : Fine(st, m, M, R) =>
        augment[n][<<s, st>>] = TriedBy(s, candidates[s], st, n, augment[n - 1])[Len(candidates[s])]
LEMMA AugmentIs ==
  ASSUME NEW m \in Nat, NEW M \in Nat, NEW R, NEW candidates, Taking(candidates, m, M, R),
         NEW cards, DOMAIN cards = 1 .. M, Len(cards) = M
  PROVE  \E augment : Augment(candidates, cards) = augment[M] /\ Levelled(augment, candidates, m, M, R)
<1>1. \A a, b : Augmented(candidates, cards, 0, a) = Augmented(candidates, cards, 0, b)
  <2>1. ASSUME NEW slot, NEW mine, NEW st, NEW a, NEW b, Len(mine) \in Nat
        PROVE  TriedBy(slot, mine, st, 0, a) = TriedBy(slot, mine, st, 0, b)
    <3>. PICK N \in Nat : N = Len(mine)
      BY <2>1
    <3>1. ASSUME NEW c PROVE TriedBy(slot, mine, st, 0, c) = [k \in 0 .. N |-> [st EXCEPT !.ok = FALSE]]
      <4>. PICK tried : tried = TriedBy(slot, mine, st, 0, c)
        OBVIOUS
      <4>1. \A x, y : OnTry(slot, mine, st, 0, c, 0, x) = OnTry(slot, mine, st, 0, c, 0, y)
        BY DEF OnTry
      <4>2. \E f : IsTried(f, slot, mine, st, 0, c, N)
        BY <4>1, TriedExists
      <4>3. tried = CHOOSE f : IsTried(f, slot, mine, st, 0, c, N)
        BY DEF TriedBy
      <4>4. IsTried(tried, slot, mine, st, 0, c, N)
        BY ONLY <4>2, <4>3
      <4>5. tried = [k \in 0 .. N |-> [st EXCEPT !.ok = FALSE]]
        BY ONLY <4>4 DEF IsTried, OnTry
      <4>. QED
        BY <4>5
    <3>. QED
      BY <3>1
  <2>2. \A s \in 1 .. m : Len(candidates[s]) \in Nat
    BY DEF Taking
  <2>3. DOMAIN candidates = 1 .. m
    BY DEF Taking
  <2>. QED
    BY ONLY <2>1, <2>2, <2>3 DEF Augmented
<1>. DEFINE augment == CHOOSE f : IsAugment(f, candidates, cards, M)
<1>2. IsAugment(augment, candidates, cards, M)
  BY <1>1, AugmentExists
<1>3. Augment(candidates, cards) = augment[M]
  BY DEF Augment, IsAugment, Augmented, TriedBy, IsTried, OnTry, TryBelow, StatesOf
<1>. HIDE DEF augment
<1>4. \A n \in 0 .. M : augment[n] = Augmented(candidates, cards, n, augment[n - 1])
  BY ONLY <1>2 DEF IsAugment
<1>5. ASSUME NEW n \in 0 .. M, NEW s \in 1 .. m, NEW st, Fine(st, m, M, R)
      PROVE  augment[n][<<s, st>>] = TriedBy(s, candidates[s], st, n, augment[n - 1])[Len(candidates[s])]
  <2>. PICK mine, N : mine = candidates[s] /\ N = Len(mine)
    OBVIOUS
  <2>1. st \in StatesOf(candidates, cards)
    BY <1>5 DEF Fine, StatesOf, Taking
  <2>2. <<s, st>> \in (DOMAIN candidates) \X StatesOf(candidates, cards)
    BY <2>1 DEF Taking
  <2>3. augment[n] = Augmented(candidates, cards, n, augment[n - 1])
    BY <1>4
  <2>4. augment[n][<<s, st>>] = TriedBy(s, mine, st, n, augment[n - 1])[N]
    BY ONLY <2>2, <2>3, mine = candidates[s], N = Len(mine) DEF Augmented
  <2>. QED
    BY <2>4
<1>6. Levelled(augment, candidates, m, M, R)
  BY ONLY <1>5 DEF Levelled
<1>. QED
  BY <1>3, <1>6

LEMMA AugmentFine ==
  ASSUME NEW m \in Nat, NEW M \in Nat, NEW R, NEW candidates, Taking(candidates, m, M, R),
         NEW cards, DOMAIN cards = 1 .. M, Len(cards) = M
  PROVE  Keeping(Augment(candidates, cards), m, M, R)
<1>. PICK augment : Augment(candidates, cards) = augment[M] /\ Levelled(augment, candidates, m, M, R)
  BY AugmentIs
<1>5. ASSUME NEW n \in 0 .. M, n # 0 => Keeping(augment[n - 1], m, M, R) PROVE Keeping(augment[n], m, M, R)
  <2>1. ASSUME NEW s \in 1 .. m, NEW st, Fine(st, m, M, R) PROVE Fine(augment[n][<<s, st>>], m, M, R)
    <3>. PICK mine, N : mine = candidates[s] /\ N = Len(mine)
      OBVIOUS
    <3>1. N \in Nat /\ \A k \in 1 .. N : mine[k] \in 1 .. M /\ <<s, mine[k]>> \in R
      BY DEF Taking
    <3>2. augment[n][<<s, st>>] = TriedBy(s, mine, st, n, augment[n - 1])[N]
      BY <2>1 DEF Levelled
    <3>3. Fine(TriedBy(s, mine, st, n, augment[n - 1])[N], m, M, R)
      BY ONLY <1>5, <2>1, <3>1, TriedFine, m \in Nat, M \in Nat, N = Len(mine)
    <3>. QED
      BY <3>2, <3>3
  <2>. QED
    BY <2>1 DEF Keeping
<1>. DEFINE T == {n \in 0 .. M : Keeping(augment[n], m, M, R)}
<1>6. 0 \in T
  BY <1>5
<1>7. ASSUME NEW n \in 0 .. M, n < M, n \in T PROVE n + 1 \in T
  <2>. PICK k \in 1 .. M : k = n + 1
    BY <1>7
  <2>1. k \in 0 .. M /\ k - 1 = n /\ Keeping(augment[n], m, M, R)
    BY <1>7
  <2>2. Keeping(augment[k], m, M, R)
    BY <1>5, <2>1
  <2>. QED
    BY <2>1, <2>2
<1>8. \A n \in 0 .. M : n \in T
  <2>. HIDE DEF T
  <2>. QED
    BY <1>6, <1>7, UpTo
<1>9. M \in T
  <2>1. M \in 0 .. M
    OBVIOUS
  <2>. HIDE DEF T
  <2>. QED
    BY <1>8, <2>1
<1>. QED
  BY <1>9

LEMMA MatchIs ==
  ASSUME NEW m \in Nat, NEW candidates, Len(candidates) = m, NEW cards
  PROVE  \E matched : /\ MatchSlots(candidates, cards) = matched[m]
                      /\ \A s \in 0 .. m : matched[s] = OnMatch(candidates, cards, s, matched[s - 1])
<1>1. \A a, b : OnMatch(candidates, cards, 0, a) = OnMatch(candidates, cards, 0, b)
  BY DEF OnMatch
<1>. DEFINE matched == CHOOSE f : IsMatch(f, candidates, cards, m)
<1>2. IsMatch(matched, candidates, cards, m)
  BY <1>1, MatchExists
<1>3. MatchSlots(candidates, cards) = matched[m]
  BY DEF MatchSlots, IsMatch, OnMatch
<1>. HIDE DEF matched
<1>4. \A s \in 0 .. m : matched[s] = OnMatch(candidates, cards, s, matched[s - 1])
  BY ONLY <1>2 DEF IsMatch
<1>. QED
  BY <1>3, <1>4

\* So every slot that holds a card takes it.
LEMMA MatchesAre ==
  ASSUME NEW m \in Nat, NEW M \in Nat, NEW R, NEW candidates, Taking(candidates, m, M, R),
         NEW cards, DOMAIN cards = 1 .. M, Len(cards) = M, NEW slotOf, slotOf = MatchSlots(candidates, cards)
  PROVE  slotOf \in [1 .. M -> 0 .. m] /\ \A i \in 1 .. M : slotOf[i] # 0 => <<slotOf[i], i>> \in R
<1>. PICK matched : /\ slotOf = matched[m]
                    /\ \A s \in 0 .. m : matched[s] = OnMatch(candidates, cards, s, matched[s - 1])
  <2>1. Len(candidates) = m
    BY DEF Taking
  <2>. QED
    BY <2>1, MatchIs
<1>. DEFINE Holding(f) == f \in [1 .. M -> 0 .. m] /\ \A i \in 1 .. M : f[i] # 0 => <<f[i], i>> \in R
<1>. DEFINE T == {s \in 0 .. m : Holding(matched[s])}
<1>5. 0 \in T
  <2>1. 0 \in 0 .. m
    OBVIOUS
  <2>2. matched[0] = [i \in 1 .. M |-> 0]
    BY <2>1 DEF OnMatch
  <2>3. Holding(matched[0])
    BY <2>2
  <2>. QED
    BY <2>1, <2>3
<1>6. ASSUME NEW n \in 0 .. m, n < m, n \in T PROVE n + 1 \in T
  <2>. PICK s \in 1 .. m : s = n + 1
    BY <1>6
  <2>0. s \in 0 .. m /\ s # 0 /\ s - 1 = n
    OBVIOUS
  <2>. PICK st : st = [ok |-> FALSE, seen |-> {}, slotOf |-> matched[n]]
    OBVIOUS
  <2>1. matched[s] = Augment(candidates, cards)[<<s, st>>].slotOf
    BY <2>0 DEF OnMatch
  <2>2. Fine(st, m, M, R)
    BY <1>6 DEF Fine
  <2>3. Fine(Augment(candidates, cards)[<<s, st>>], m, M, R)
    BY <2>2, AugmentFine DEF Keeping
  <2>4. Holding(matched[s])
    BY ONLY <2>1, <2>3 DEF Fine
  <2>. QED
    BY <2>0, <2>4
<1>7. \A s \in 0 .. m : s \in T
  <2>. HIDE DEF T
  <2>. QED
    BY <1>5, <1>6, UpTo
<1>8. m \in T
  <2>1. m \in 0 .. m
    OBVIOUS
  <2>. HIDE DEF T
  <2>. QED
    BY <1>7, <2>1
<1>. QED
  BY <1>8

\* A list of cards' indices with none twice.
Once(list, M) == \E n \in Nat : /\ list \in [1 .. n -> 1 .. M] /\ Len(list) = n
                                /\ \A i, j \in 1 .. n : list[i] = list[j] => i = j
LEMMA AscendingOnce ==
  ASSUME NEW M \in Nat, NEW S \in SUBSET (1 .. M)
  PROVE  /\ Ascending(S) \in Seq(1 .. M) /\ Once(Ascending(S), M) /\ ToSet(Ascending(S)) = S
<1>1. IsFiniteSet(S)
  <2>1. IsFiniteSet(1 .. M)
    BY FS_Interval
  <2>. QED
    BY <2>1, FS_Subset
<1>. PICK k \in Nat : k = Cardinality(S)
  BY <1>1, FS_CardinalityType
<1>. PICK g \in [1 .. k -> S] : /\ Ascending(S) = g /\ \A x \in S : \E i \in 1 .. k : x = g[i]
                                /\ \A i \in 1 .. k : PlaceOf(S, g[i]) = i
  <2>1. S \in SUBSET Nat
    OBVIOUS
  <2>. QED
    BY <1>1, <2>1, AscendingIs
<1>2. g = [i \in 1 .. k |-> g[i]] /\ \A i \in 1 .. k : g[i] \in 1 .. M
  OBVIOUS
<1>3. g \in Seq(1 .. M) /\ Len(g) = k /\ DOMAIN g = 1 .. k
  BY ONLY <1>2, ListOf, k \in Nat
<1>4. \A i, j \in 1 .. k : g[i] = g[j] => i = j
  <2>1. ASSUME NEW i \in 1 .. k, NEW j \in 1 .. k, g[i] = g[j] PROVE i = j
    <3>1. PlaceOf(S, g[i]) = i /\ PlaceOf(S, g[j]) = j
      OBVIOUS
    <3>. QED
      BY ONLY <2>1, <3>1
  <2>. QED
    BY <2>1
<1>5. g \in [1 .. k -> 1 .. M]
  BY ONLY <1>2
<1>6. ToSet(g) = S
  <2>1. ToSet(g) = {g[i] : i \in 1 .. k}
    BY <1>3 DEF ToSet
  <2>2. (\A i \in 1 .. k : g[i] \in S) /\ \A x \in S : \E i \in 1 .. k : x = g[i]
    OBVIOUS
  <2>. QED
    BY ONLY <2>1, <2>2
<1>. QED
  BY <1>3, <1>4, <1>5, <1>6 DEF Once

LEMMA BothOnce ==
  ASSUME NEW M \in Nat, NEW a \in Seq(1 .. M), NEW b \in Seq(1 .. M), Once(a, M), Once(b, M),
         ToSet(a) \cap ToSet(b) = {}
  PROVE  Once(a \o b, M)
<1>. PICK m \in Nat : Len(a) = m /\ a \in [1 .. m -> 1 .. M] /\ \A i, j \in 1 .. m : a[i] = a[j] => i = j
  BY DEF Once
<1>. PICK n \in Nat : Len(b) = n /\ b \in [1 .. n -> 1 .. M] /\ \A i, j \in 1 .. n : b[i] = b[j] => i = j
  BY DEF Once
<1>. PICK c : c = a \o b
  OBVIOUS
<1>1. ASSUME NEW S, NEW x \in Seq(S), NEW y \in Seq(S)
      PROVE  /\ x \o y \in Seq(S) /\ Len(x \o y) = Len(x) + Len(y)
             /\ \A i \in 1 .. Len(x) : (x \o y)[i] = x[i]
             /\ \A i \in 1 .. Len(y) : (x \o y)[Len(x) + i] = y[i]
  BY ONLY x \in Seq(S), y \in Seq(S)
<1>2. /\ c \in Seq(1 .. M) /\ Len(c) = m + n
      /\ (\A i \in 1 .. m : c[i] = a[i]) /\ (\A i \in 1 .. n : c[m + i] = b[i])
  <2>. PICK S : S = 1 .. M
    OBVIOUS
  <2>1. a \in Seq(S) /\ b \in Seq(S)
    OBVIOUS
  <2>2. /\ a \o b \in Seq(S) /\ Len(a \o b) = Len(a) + Len(b)
        /\ \A i \in 1 .. Len(a) : (a \o b)[i] = a[i]
        /\ \A i \in 1 .. Len(b) : (a \o b)[Len(a) + i] = b[i]
    BY ONLY <1>1, <2>1
  <2>. QED
    BY ONLY <2>2, Len(a) = m, Len(b) = n, c = a \o b, S = 1 .. M
<1>3. \A i \in 1 .. (m + n) : i \in 1 .. m \/ \E j \in 1 .. n : i = m + j
  <2>1. ASSUME NEW i \in 1 .. (m + n), i \notin 1 .. m PROVE \E j \in 1 .. n : i = m + j
    <3>1. i - m \in 1 .. n /\ i = m + (i - m)
      BY ONLY <2>1, m \in Nat, n \in Nat
    <3>. QED
      BY <3>1
  <2>. QED
    BY <2>1
<1>4. \A i \in 1 .. m : \A j \in 1 .. n : a[i] # b[j]
  <2>1. DOMAIN a = 1 .. m /\ DOMAIN b = 1 .. n
    OBVIOUS
  <2>2. (\A i \in 1 .. m : a[i] \in ToSet(a)) /\ (\A j \in 1 .. n : b[j] \in ToSet(b))
    BY ONLY <2>1 DEF ToSet
  <2>. QED
    BY ONLY <2>2, ToSet(a) \cap ToSet(b) = {}
<1>5. ASSUME NEW i \in 1 .. (m + n), NEW j \in 1 .. (m + n), c[i] = c[j] PROVE i = j
  <2>1. CASE i \in 1 .. m /\ j \in 1 .. m
    BY <1>2, <1>5, <2>1
  <2>2. CASE i \in 1 .. m /\ j \notin 1 .. m
    <3>. PICK q \in 1 .. n : j = m + q
      BY <1>3, <2>2
    <3>. QED
      BY <1>2, <1>4, <1>5, <2>2
  <2>3. CASE i \notin 1 .. m /\ j \in 1 .. m
    <3>. PICK q \in 1 .. n : i = m + q
      BY <1>3, <2>3
    <3>. QED
      BY <1>2, <1>4, <1>5, <2>3
  <2>4. CASE i \notin 1 .. m /\ j \notin 1 .. m
    <3>. PICK q \in 1 .. n : i = m + q
      BY <1>3, <2>4
    <3>. PICK s \in 1 .. n : j = m + s
      BY <1>3, <2>4
    <3>1. b[q] = b[s]
      BY <1>2, <1>5
    <3>. QED
      BY <3>1
  <2>. QED
    BY <2>1, <2>2, <2>3, <2>4
<1>6. m + n \in Nat /\ c \in [1 .. (m + n) -> 1 .. M]
  BY ONLY <1>2, m \in Nat, n \in Nat
<1>7. Once(c, M)
  BY ONLY <1>2, <1>5, <1>6 DEF Once
<1>. QED
  BY <1>7

\* A pin is a slot of the rule its card chose.
LEMMA PinsAre ==
  ASSUME NEW m \in Nat, NEW M \in Nat, NEW slots, DOMAIN slots = 1 .. m, NEW cards, DOMAIN cards = 1 .. M,
         NEW facts, NEW q, q = Placement(slots, cards, facts)
  PROVE  /\ q.slots = slots /\ q.cards = cards /\ q.facts = facts
         /\ \A i \in DOMAIN q.pins : i \in 1 .. M /\ q.pins[i] \in 1 .. m /\ slots[q.pins[i]].id = q.choice[i]
<1>. PICK choice : choice = [i \in 1 .. M |-> Choice(slots, cards[i])]
  OBVIOUS
<1>1. q = [slots |-> slots, cards |-> cards, facts |-> facts, choice |-> choice, pins |-> Pinned(slots, choice)]
  BY DEF Placement, WithPins
<1>. DEFINE Spots(i) == {s \in DOMAIN slots : slots[s].id = choice[i]}
<1>. DEFINE Nth(i) == Cardinality({j \in 1 .. i : choice[j] = choice[i]})
<1>. PICK pins : pins = Pinned(slots, choice)
  OBVIOUS
<1>2. pins = [i \in {j \in DOMAIN choice : choice[j] # None /\ Nth(j) <= Len(Ascending(Spots(j)))} |->
                 Ascending(Spots(i))[Nth(i)]]
  BY DEF Pinned
<1>3. ASSUME NEW i \in DOMAIN pins PROVE i \in 1 .. M /\ pins[i] \in 1 .. m /\ slots[pins[i]].id = choice[i]
  <2>1. i \in 1 .. M /\ Nth(i) <= Len(Ascending(Spots(i))) /\ pins[i] = Ascending(Spots(i))[Nth(i)]
    <3>1. DOMAIN choice = 1 .. M
      OBVIOUS
    <3>. HIDE DEF Spots, Nth
    <3>. QED
      BY ONLY <1>2, <1>3, <3>1
  <2>. PICK S \in SUBSET (1 .. m) : S = Spots(i)
    OBVIOUS
  <2>. PICK k \in Nat : k = Nth(i) /\ k >= 1
    <3>. PICK A : A = {j \in 1 .. i : choice[j] = choice[i]}
      OBVIOUS
    <3>1. IsFiniteSet(1 .. i)
      BY <2>1, FS_Interval
    <3>2. A \in SUBSET (1 .. i)
      OBVIOUS
    <3>3. IsFiniteSet(A)
      BY ONLY <3>1, <3>2, FS_Subset
    <3>4. i \in A
      BY <2>1
    <3>5. Cardinality(A) \in Nat /\ Cardinality(A) # 0
      BY ONLY <3>3, <3>4, FS_CardinalityType, FS_EmptySet
    <3>6. Nth(i) = Cardinality(A)
      OBVIOUS
    <3>. HIDE DEF Nth
    <3>. QED
      BY ONLY <3>5, <3>6
  <2>2. IsFiniteSet(S)
    <3>1. IsFiniteSet(1 .. m)
      BY FS_Interval
    <3>. QED
      BY ONLY <3>1, FS_Subset, S \in SUBSET (1 .. m)
  <2>. PICK list : list = Ascending(S)
    OBVIOUS
  <2>3. list \in Seq(S)
    <3>1. S \in SUBSET Nat
      BY ONLY S \in SUBSET (1 .. m)
    <3>. QED
      BY ONLY <2>2, <3>1, AscendingType, list = Ascending(S)
  <2>. HIDE DEF Spots, Nth
  <2>4. pins[i] = list[k] /\ k <= Len(list)
    BY ONLY <2>1, S = Spots(i), k = Nth(i), list = Ascending(S)
  <2>5. pins[i] \in S
    BY ONLY <2>3, <2>4, k \in Nat, k >= 1
  <2>. QED
    BY <2>1, <2>5 DEF Spots
<1>. QED
  BY <1>1, <1>3

LEMMA CandidatesAre ==
  ASSUME NEW m \in Nat, NEW M \in Nat, NEW q, DOMAIN q.slots = 1 .. m, DOMAIN q.cards = 1 .. M, NEW R
  PROVE  Taking(Candidates(q, R), m, M, R)
<1>. PICK candidates : candidates = Candidates(q, R)
  OBVIOUS
<1>1. candidates = [s \in 1 .. m |-> Ascending({i \in 1 .. M : <<s, i>> \in R})]
  BY DEF Candidates
<1>2. candidates = [s \in 1 .. m |-> candidates[s]]
  BY ONLY <1>1
<1>. PICK V : V = {candidates[s] : s \in 1 .. m}
  OBVIOUS
<1>3. \A s \in 1 .. m : candidates[s] \in V
  OBVIOUS
<1>4. Len(candidates) = m /\ DOMAIN candidates = 1 .. m
  BY ONLY <1>2, <1>3, ListOf, m \in Nat
<1>5. ASSUME NEW s \in 1 .. m
      PROVE  Len(candidates[s]) \in Nat /\ \A k \in 1 .. Len(candidates[s]) :
                candidates[s][k] \in 1 .. M /\ <<s, candidates[s][k]>> \in R
  <2>. PICK S \in SUBSET (1 .. M) : S = {i \in 1 .. M : <<s, i>> \in R}
    OBVIOUS
  <2>. PICK list : list = candidates[s]
    OBVIOUS
  <2>1. list = Ascending(S)
    BY <1>1
  <2>2. list \in Seq(1 .. M) /\ ToSet(list) = S
    BY <2>1, AscendingOnce
  <2>3. Len(list) \in Nat /\ \A k \in 1 .. Len(list) : list[k] \in ToSet(list)
    BY ONLY <2>2 DEF ToSet
  <2>. QED
    BY <2>2, <2>3
<1>. QED
  BY <1>4, <1>5 DEF Taking

-----------------------------------------------------------------------------
(* What each course rule received.                                          *)

\* A card given to a rule is there by claim, or the rule accepts it.
Earns(q, r, i) == /\ q.cards[i].code # None
                  /\ FilterMatch(r.filter, q.cards[i].code, q.facts) # "no"
                  /\ ~Barred(q.cards[i], r)
Gives(q, ctx, rules, M) ==
    /\ \A r \in rules : /\ Once(Assigned(ctx, r), M)
                        /\ \A i \in ToSet(Assigned(ctx, r)) : i \in ctx.claimed \/ Earns(q, r, i)
    /\ \A r, s \in rules : r.id # s.id => ToSet(Assigned(ctx, r)) \cap ToSet(Assigned(ctx, s)) = {}
LEMMA AssignedAre ==
  ASSUME NEW m \in Nat, NEW M \in Nat, NEW slots, DOMAIN slots = 1 .. m, NEW cards, DOMAIN cards = 1 .. M, Len(cards) = M,
         NEW facts, NEW q, q = Placement(slots, cards, facts),
         NEW rules, \A s \in 1 .. m : slots[s] \in rules, \A r, s \in rules : r.id = s.id => r = s,
         NEW ctx, ctx.assigned = MatchCards(q), ctx.claimed = Claimed(q)
  PROVE  Gives(q, ctx, rules, M)
<1>1. /\ q.slots = slots /\ q.cards = cards /\ q.facts = facts
      /\ \A i \in DOMAIN q.pins : i \in 1 .. M /\ q.pins[i] \in 1 .. m /\ slots[q.pins[i]].id = q.choice[i]
  BY PinsAre
<1>. PICK R : R = FreeMatches(q, "yes")
  OBVIOUS
<1>. PICK slotOf : slotOf = MatchSlots(Candidates(q, R), cards)
  OBVIOUS
<1>2. slotOf \in [1 .. M -> 0 .. m] /\ \A i \in 1 .. M : slotOf[i] # 0 => <<slotOf[i], i>> \in R
  <2>1. Taking(Candidates(q, R), m, M, R)
    BY <1>1, CandidatesAre
  <2>. QED
    BY <2>1, MatchesAre
<1>3. ASSUME NEW i \in 1 .. M, slotOf[i] # 0
      PROVE  i \notin DOMAIN q.pins /\ slotOf[i] \in 1 .. m /\ Earns(q, slots[slotOf[i]], i)
  <2>. PICK s : s = slotOf[i]
    OBVIOUS
  <2>1. <<s, i>> \in R
    BY <1>2, <1>3
  <2>. PICK sc : sc = <<s, i>>
    OBVIOUS
  <2>2. sc \in R /\ sc[1] = s /\ sc[2] = i
    BY <2>1
  <2>3. /\ sc \in {t \in DOMAIN slots : \A j \in DOMAIN q.pins : q.pins[j] # t}
                  \X {j \in DOMAIN cards \ DOMAIN q.pins : cards[j].code # None}
        /\ ~Barred(cards[sc[2]], slots[sc[1]])
        /\ FilterMatch(slots[sc[1]].filter, cards[sc[2]].code, facts) = "yes"
    BY ONLY <1>1, <2>2, R = FreeMatches(q, "yes") DEF FreeMatches
  <2>4. /\ i \in DOMAIN cards \ DOMAIN q.pins /\ cards[i].code # None /\ s \in DOMAIN slots
        /\ ~Barred(cards[i], slots[s]) /\ FilterMatch(slots[s].filter, cards[i].code, facts) = "yes"
    BY ONLY <2>2, <2>3
  <2>5. FilterMatch(slots[s].filter, cards[i].code, facts) # "no"
    BY ONLY <2>4
  <2>. QED
    BY <1>1, <2>4, <2>5 DEF Earns
<1>. DEFINE Pins(id) == {i \in 1 .. M : i \in DOMAIN q.pins /\ q.choice[i] = id}
<1>. DEFINE Free(id) == {i \in 1 .. M : slotOf[i] # 0 /\ slots[slotOf[i]].id = id}
<1>. DEFINE Lot(id) == Ascending(Pins(id)) \o Ascending(Free(id))
<1>4. ctx.assigned = [id \in {slots[s].id : s \in 1 .. m} |-> Ascending(Pins(id)) \o Ascending(Free(id))]
  BY <1>1 DEF MatchCards, AssignedBy
<1>5. ASSUME NEW id
      PROVE  Once(Lot(id), M) /\ ToSet(Lot(id)) = Pins(id) \cup Free(id)
  <2>. PICK a, b : a = Ascending(Pins(id)) /\ b = Ascending(Free(id))
    OBVIOUS
  <2>1. Pins(id) \in SUBSET (1 .. M) /\ Free(id) \in SUBSET (1 .. M)
    OBVIOUS
  <2>2. Pins(id) \cap Free(id) = {}
    BY <1>3
  <2>. HIDE DEF Pins, Free
  <2>3. /\ a \in Seq(1 .. M) /\ Once(a, M) /\ ToSet(a) = Pins(id)
        /\ b \in Seq(1 .. M) /\ Once(b, M) /\ ToSet(b) = Free(id)
    BY <2>1, AscendingOnce
  <2>4. Once(a \o b, M)
    BY ONLY <2>2, <2>3, BothOnce, M \in Nat
  <2>5. ToSet(a \o b) = ToSet(a) \cup ToSet(b)
    BY ONLY <2>3, BothHold
  <2>. QED
    BY <2>3, <2>4, <2>5
<1>6. ASSUME NEW r PROVE Assigned(ctx, r) = <<>> \/ Assigned(ctx, r) = Lot(r.id)
  <2>1. CASE r.id \in DOMAIN ctx.assigned
    <3>1. ctx.assigned[r.id] = Lot(r.id)
      <4>. HIDE DEF Pins, Free
      <4>. QED
        BY <1>4, <2>1
    <3>. QED
      BY <2>1, <3>1 DEF Assigned
  <2>2. CASE r.id \notin DOMAIN ctx.assigned
    BY <2>2 DEF Assigned
  <2>. QED
    BY <2>1, <2>2
<1>7. Once(<<>>, M) /\ ToSet(<<>>) = {}
  <2>1. <<>> \in [1 .. 0 -> 1 .. M] /\ Len(<<>>) = 0 /\ 0 \in Nat
    OBVIOUS
  <2>. QED
    BY <2>1 DEF Once, ToSet
<1>8. ASSUME NEW r \in rules, NEW i \in Pins(r.id) \cup Free(r.id) PROVE i \in ctx.claimed \/ Earns(q, r, i)
  <2>1. CASE i \in Free(r.id)
    <3>1. i \in 1 .. M /\ slotOf[i] # 0 /\ slots[slotOf[i]].id = r.id
      BY <2>1
    <3>2. Earns(q, slots[slotOf[i]], i) /\ slots[slotOf[i]] \in rules
      BY <1>3, <3>1
    <3>3. slots[slotOf[i]] = r
      BY <3>1, <3>2
    <3>. QED
      BY <3>2, <3>3
  <2>2. CASE i \in Pins(r.id)
    <3>1. i \in DOMAIN q.pins /\ q.choice[i] = r.id
      BY <2>2
    <3>2. q.pins[i] \in 1 .. m /\ slots[q.pins[i]].id = r.id
      BY <1>1, <3>1
    <3>3. slots[q.pins[i]] = r
      BY <3>2
    <3>4. i \notin Claimed(q) => ~Barred(cards[i], r) /\ ~Rejected(cards[i], r, facts)
      BY ONLY <1>1, <3>1, <3>3 DEF Claimed, BarredPins, RejectedPins
    <3>. QED
      BY <1>1, <3>4 DEF Earns, Rejected
  <2>. QED
    BY <2>1, <2>2
<1>9. ASSUME NEW r \in rules
      PROVE  Once(Assigned(ctx, r), M) /\ \A i \in ToSet(Assigned(ctx, r)) : i \in ctx.claimed \/ Earns(q, r, i)
  <2>1. ToSet(Assigned(ctx, r)) \subseteq Pins(r.id) \cup Free(r.id) /\ Once(Assigned(ctx, r), M)
    <3>. HIDE DEF Pins, Free, Lot
    <3>. QED
      BY ONLY <1>5, <1>6, <1>7
  <2>. HIDE DEF Pins, Free
  <2>. QED
    BY <1>8, <2>1
<1>10. ASSUME NEW r \in rules, NEW s \in rules, r.id # s.id
       PROVE  ToSet(Assigned(ctx, r)) \cap ToSet(Assigned(ctx, s)) = {}
  <2>1. (Pins(r.id) \cup Free(r.id)) \cap (Pins(s.id) \cup Free(s.id)) = {}
    <3>1. ASSUME NEW i \in 1 .. M, i \in Pins(r.id) \cup Free(r.id), i \in Pins(s.id) \cup Free(s.id) PROVE FALSE
      <4>1. i \in DOMAIN q.pins => slotOf[i] = 0
        BY <1>3
      <4>. QED
        BY <1>10, <3>1, <4>1
    <3>. QED
      BY <3>1
  <2>2. /\ ToSet(Assigned(ctx, r)) \subseteq Pins(r.id) \cup Free(r.id)
        /\ ToSet(Assigned(ctx, s)) \subseteq Pins(s.id) \cup Free(s.id)
    <3>. HIDE DEF Pins, Free, Lot
    <3>. QED
      BY ONLY <1>5, <1>6, <1>7
  <2>. QED
    BY ONLY <2>1, <2>2
<1>. QED
  BY ONLY <1>9, <1>10 DEF Gives

-----------------------------------------------------------------------------
(* The reports of a tree beside its rules: `told' holds, for each report    *)
(* made, how many levels were left, its rule and itself.                    *)

\* A report that asks the student counts itself, one with children what they
\* count.
Asks(y) == y.children = <<>> /\ y.outcome \in {"check", "confirmed"}
Honest(y) == y.progress.selfChecks =
    IF y.children = <<>> THEN Bit(Asks(y))
    ELSE Capped(Total([k \in DOMAIN y.children |-> y.children[k].progress.selfChecks]))
LEMMA NoneHonest ==
  ASSUME NEW y, y.children = <<>>, y.progress.selfChecks = 0, y.outcome \notin {"check", "confirmed"}
  PROVE  Honest(y)
BY DEF Honest, Asks, Bit

LEMMA LeafHonest ==
  ASSUME NEW ctx, NEW r
  PROVE  /\ Honest(CourseReport(ctx, r)) /\ Honest(SelfCheck(ctx, r))
         /\ \A used : Honest(CreditsReport(ctx, r, used))
         /\ \A siblings : Honest(DistinctReport(ctx, r, siblings))
<1>1. \A met, some : Graded(met, some) \notin {"check", "confirmed"}
  BY DEF Graded
<1>2. Honest(CourseReport(ctx, r))
  <2>. PICK y : y = CourseReport(ctx, r)
    OBVIOUS
  <2>1. y.children = <<>> /\ y.progress.selfChecks = 0 /\ \E met, some : y.outcome = Graded(met, some)
    BY DEF CourseReport, Report, Zero
  <2>. QED
    BY <1>1, <2>1, NoneHonest
<1>3. ASSUME NEW used PROVE Honest(CreditsReport(ctx, r, used))
  <2>. PICK y : y = CreditsReport(ctx, r, used)
    OBVIOUS
  <2>1. y.children = <<>> /\ y.progress.selfChecks = 0 /\ \E met, some : y.outcome = Graded(met, some)
    BY DEF CreditsReport, Report, Zero
  <2>. QED
    BY <1>1, <2>1, NoneHonest
<1>4. ASSUME NEW y, NEW held, y = SelfCheck(ctx, r) \/ y = [SelfCheck(ctx, r) EXCEPT !.filledBy = held] PROVE Honest(y)
  <2>. PICK z : z = SelfCheck(ctx, r)
    OBVIOUS
  <2>1. /\ z.children = <<>> /\ z.progress.selfChecks = 1 /\ z.outcome \in {"check", "confirmed"}
        /\ \E a, b, c, d, e, f, g, h : z = [rule |-> a, outcome |-> b, progress |-> c, filledBy |-> d,
                                          claimedBy |-> e, claimedIn |-> f, children |-> g]
    BY DEF SelfCheck, Report, Zero
  <2>2. y.children = z.children /\ y.progress = z.progress /\ y.outcome = z.outcome
    BY ONLY <1>4, <2>1, z = SelfCheck(ctx, r)
  <2>. QED
    BY ONLY <2>1, <2>2 DEF Honest, Asks, Bit
<1>5. ASSUME NEW siblings PROVE Honest(DistinctReport(ctx, r, siblings))
  <2>. PICK y : y = DistinctReport(ctx, r, siblings)
    OBVIOUS
  <2>1. \/ \E held : y = [SelfCheck(ctx, r) EXCEPT !.filledBy = held]
        \/ y.children = <<>> /\ y.progress.selfChecks = 0 /\ \E met, some : y.outcome = Graded(met, some)
    BY DEF DistinctReport, Report, Zero
  <2>. QED
    BY <1>1, <1>4, <2>1, NoneHonest
<1>. QED
  BY <1>2, <1>3, <1>4, <1>5

LEMMA GroupHonest ==
  ASSUME NEW ctx, NEW r, IsGroup(r), NEW N \in Nat, NEW children, children = [k \in 1 .. N |-> children[k]]
  PROVE  Honest(GroupReport(ctx, r, children))
<1>. PICK y : y = GroupReport(ctx, r, children)
  OBVIOUS
<1>. PICK sum : sum = Added([k \in DOMAIN children |-> children[k].progress])
  OBVIOUS
<1>. PICK selfCheck : selfCheck = (\E c \in ToSet(children) : c.outcome \in {"check", "confirmed"})
  OBVIOUS
<1>1. \E met, needed : y = GroupOf(ctx, r, children, met, needed, selfCheck)
  BY DEF GroupReport
<1>. PICK met, needed : y = GroupOf(ctx, r, children, met, needed, selfCheck)
  BY <1>1
<1>2. y.children = children /\ y.progress = GroupProgress(r, sum, met, needed, children)
  BY ONLY y = GroupOf(ctx, r, children, met, needed, selfCheck),
          sum = Added([k \in DOMAIN children |-> children[k].progress]) DEF GroupOf, Report
<1>3. sum.selfChecks = Capped(Total([k \in DOMAIN children |-> children[k].progress.selfChecks]))
      /\ sum = [f \in DOMAIN Zero |-> sum[f]]
  BY DEF Added, Zero
<1>4. y.progress.selfChecks = sum.selfChecks
  BY ONLY <1>2, <1>3 DEF GroupProgress, Zero
<1>5. CASE children = <<>>
  <2>1. ~selfCheck
    <3>1. ToSet(children) = {}
      BY ONLY <1>5 DEF ToSet
    <3>2. selfCheck = (\E c \in ToSet(children) : c.outcome \in {"check", "confirmed"})
      OBVIOUS
    <3>. QED
      BY ONLY <3>1, <3>2
  <2>2. \E some : y.outcome = Graded(met >= needed, some)
    BY ONLY <2>1, y = GroupOf(ctx, r, children, met, needed, selfCheck) DEF GroupOf, Report
  <2>3. y.outcome \notin {"check", "confirmed"}
    BY ONLY <2>2 DEF Graded
  <2>4. Total([k \in DOMAIN children |-> children[k].progress.selfChecks]) = 0
    <3>. PICK a : a = [k \in DOMAIN children |-> children[k].progress.selfChecks]
      OBVIOUS
    <3>1. a \in [1 .. 0 -> Nat]
      <4>1. DOMAIN children = 1 .. 0 /\ \A k \in 1 .. 0 : FALSE
        BY <1>5
      <4>. QED
        BY ONLY <4>1, a = [k \in DOMAIN children |-> children[k].progress.selfChecks]
    <3>. QED
      BY ONLY <3>1, TotalIs, a = [k \in DOMAIN children |-> children[k].progress.selfChecks]
  <2>5. y.progress.selfChecks = 0
    BY ONLY <1>3, <1>4, <2>4, MaxCentsAssumption DEF Capped
  <2>. QED
    BY <1>2, <1>5, <2>3, <2>5, NoneHonest
<1>6. CASE children # <<>>
  BY ONLY <1>2, <1>3, <1>4, <1>6, y = GroupReport(ctx, r, children) DEF Honest
<1>. QED
  BY <1>5, <1>6

ReportAt(n, r, y) == [level |-> n, rule |-> r, report |-> y]
Additional(r) == r.kind = "credits" /\ r.scope = "additional"
ToldOne(t, ctx, rules, told) ==
    /\ t.level \in Nat /\ t.rule \in rules /\ t.report.rule = t.rule.id
    /\ Honest(t.report) /\ (t.rule.kind = "course" => t.report = CourseReport(ctx, t.rule))
    /\ IF IsGroup(t.rule) /\ t.level > 0
       THEN \E N \in Nat : /\ Len(t.rule.of) = N /\ t.report.children = [k \in 1 .. N |-> t.report.children[k]]
                           /\ \A k \in 1 .. N : ReportAt(t.level - 1, t.rule.of[k], t.report.children[k]) \in told
       ELSE t.report.children = <<>>
ToldAll(told, ctx, rules) == \A t \in told : ToldOne(t, ctx, rules, told)
\* What the rules for additional hours took is all from one lot, each its own.
Spends(told, lot) ==
    /\ \A t \in told : Additional(t.rule) => ToSet(t.report.filledBy) \subseteq lot
    /\ \A s, t \in told : Additional(s.rule) /\ Additional(t.rule) /\ s.rule.id # t.rule.id
          => ToSet(s.report.filledBy) \cap ToSet(t.report.filledBy) = {}
Tells(x, told, ctx, rules, used) ==
    /\ used \subseteq x.used /\ x.used \subseteq EntriesIn(ctx)
    /\ ToldAll(told, ctx, rules) /\ Spends(told, x.used \ used)
ToldOf(x, ctx, rules, n, r, used) == \E told : ReportAt(n, r, x.report) \in told /\ Tells(x, told, ctx, rules, used)

LEMMA OneTold ==
  ASSUME NEW ctx, NEW rules, NEW n \in Nat, NEW r \in rules, ~(IsGroup(r) /\ n > 0),
         NEW y, y.rule = r.id, y.children = <<>>, Honest(y), r.kind = "course" => y = CourseReport(ctx, r),
         NEW lot, Additional(r) => ToSet(y.filledBy) \subseteq lot
  PROVE  ToldAll({ReportAt(n, r, y)}, ctx, rules) /\ Spends({ReportAt(n, r, y)}, lot)
<1>. PICK t : t = ReportAt(n, r, y)
  OBVIOUS
<1>1. t.level = n /\ t.rule = r /\ t.report = y
  BY DEF ReportAt
<1>2. ToldOne(t, ctx, rules, {t})
  BY <1>1 DEF ToldOne
<1>. QED
  BY <1>1, <1>2 DEF ToldAll, Spends

\* Two sets of reports, the second made after the first.
LEMMA BothTold ==
  ASSUME NEW ctx, NEW rules, NEW a, NEW b, ToldAll(a, ctx, rules), ToldAll(b, ctx, rules),
         NEW u, NEW v, NEW w, u \subseteq v, v \subseteq w, Spends(a, v \ u), Spends(b, w \ v)
  PROVE  ToldAll(a \cup b, ctx, rules) /\ Spends(a \cup b, w \ u)
<1>. PICK both : both = a \cup b
  OBVIOUS
<1>1. ASSUME NEW t, NEW part, part \subseteq both, ToldOne(t, ctx, rules, part) PROVE ToldOne(t, ctx, rules, both)
  <2>1. CASE IsGroup(t.rule) /\ t.level > 0
    <3>. PICK N \in Nat : /\ Len(t.rule.of) = N /\ t.report.children = [k \in 1 .. N |-> t.report.children[k]]
                          /\ \A k \in 1 .. N : ReportAt(t.level - 1, t.rule.of[k], t.report.children[k]) \in part
      BY <1>1, <2>1 DEF ToldOne
    <3>1. \A k \in 1 .. N : ReportAt(t.level - 1, t.rule.of[k], t.report.children[k]) \in both
      BY <1>1
    <3>. QED
      BY <1>1, <2>1, <3>1 DEF ToldOne
  <2>2. CASE ~(IsGroup(t.rule) /\ t.level > 0)
    BY <1>1, <2>2 DEF ToldOne
  <2>. QED
    BY <2>1, <2>2
<1>2. ToldAll(both, ctx, rules)
  BY <1>1 DEF ToldAll
<1>3. ASSUME NEW t \in both, Additional(t.rule) PROVE ToSet(t.report.filledBy) \subseteq w \ u
  BY <1>3 DEF Spends
<1>4. ASSUME NEW s \in both, NEW t \in both, Additional(s.rule), Additional(t.rule), s.rule.id # t.rule.id
      PROVE  ToSet(s.report.filledBy) \cap ToSet(t.report.filledBy) = {}
  <2>1. CASE s \in a /\ t \in a
    BY <1>4, <2>1 DEF Spends
  <2>2. CASE s \in b /\ t \in b
    BY <1>4, <2>2 DEF Spends
  <2>3. CASE s \in a /\ t \in b
    <3>1. ToSet(s.report.filledBy) \subseteq v \ u /\ ToSet(t.report.filledBy) \subseteq w \ v
      BY <1>4, <2>3 DEF Spends
    <3>. QED
      BY ONLY <3>1
  <2>4. CASE s \in b /\ t \in a
    <3>1. ToSet(t.report.filledBy) \subseteq v \ u /\ ToSet(s.report.filledBy) \subseteq w \ v
      BY <1>4, <2>4 DEF Spends
    <3>. QED
      BY ONLY <3>1
  <2>. QED
    BY <2>1, <2>2, <2>3, <2>4
<1>5. Spends(both, w \ u)
  BY <1>3, <1>4 DEF Spends
<1>. QED
  BY <1>2, <1>5

\* What a rule for hours takes is not used yet.
LEMMA CreditsTake ==
  ASSUME NEW ctx, NEW M \in Nat, DOMAIN ctx.cards = 1 .. M, NEW r, NEW used,
         NEW y, y = CreditsReport(ctx, r, used)
  PROVE  /\ y.rule = r.id /\ y.children = <<>> /\ ToSet(y.filledBy) \subseteq EntriesIn(ctx)
         /\ r.scope = "additional" => ToSet(y.filledBy) \cap used = {}
<1>. DEFINE eligible == {i \in DOMAIN ctx.cards :
            /\ IF ctx.cards[i].code = None THEN r.from.include = {}
               ELSE FilterMatch(r.from, ctx.cards[i].code, ctx.facts) = "yes"
            /\ r.scope = "any" \/ ctx.cards[i].entry \notin used}
<1>. DEFINE some == {i \in eligible : CreditsOf(ctx, Ascending({j \in eligible : j < i})) < r.minimum}
<1>. PICK taken : taken = Ascending(some)
  OBVIOUS
<1>1. y.rule = r.id /\ y.children = <<>> /\ y.filledBy = EntriesAt(ctx, taken)
  BY DEF CreditsReport, Report
<1>2. some \in SUBSET (1 .. M) /\ \A i \in some : r.scope = "any" \/ ctx.cards[i].entry \notin used
  BY Zenon
<1>. HIDE DEF some
<1>3. taken \in Seq(1 .. M) /\ ToSet(taken) = some
  BY <1>2, AscendingOnce
<1>4. ASSUME NEW e \in ToSet(y.filledBy) PROVE \E i \in some : e = ctx.cards[i].entry
  <2>. PICK k \in DOMAIN taken : e = ctx.cards[taken[k]].entry
    BY ONLY <1>1, e \in ToSet(y.filledBy) DEF EntriesAt, ToSet
  <2>1. taken[k] \in some
    BY ONLY <1>3, k \in DOMAIN taken DEF ToSet
  <2>. QED
    BY <2>1
<1>5. ASSUME NEW e \in ToSet(y.filledBy) PROVE e \in EntriesIn(ctx) /\ (r.scope = "additional" => e \notin used)
  <2>. PICK i \in some : e = ctx.cards[i].entry
    BY <1>4
  <2>. QED
    BY <1>2 DEF EntriesIn
<1>. QED
  BY <1>1, <1>5

LEMMA LeafTold ==
  ASSUME NEW ctx, NEW M \in Nat, DOMAIN ctx.cards = 1 .. M, NEW rules, NEW n \in Nat, NEW r \in rules,
         ~(IsGroup(r) /\ n > 0), NEW used \in SUBSET EntriesIn(ctx)
  PROVE  ToldOf(RuleReport(ctx, r, used), ctx, rules, n, r, used)
<1>. PICK x : x = RuleReport(ctx, r, used)
  OBVIOUS
<1>. PICK y, u : y = x.report /\ u = x.used
  OBVIOUS
<1>1. SUFFICES ASSUME TRUE
               PROVE /\ y.rule = r.id /\ y.children = <<>> /\ Honest(y)
                     /\ r.kind = "course" => y = CourseReport(ctx, r)
                     /\ used \subseteq u /\ u \subseteq EntriesIn(ctx)
                     /\ Additional(r) => ToSet(y.filledBy) \subseteq u \ used
  <2>1. ToldAll({ReportAt(n, r, y)}, ctx, rules) /\ Spends({ReportAt(n, r, y)}, u \ used)
    BY <1>1, OneTold
  <2>2. Tells(x, {ReportAt(n, r, y)}, ctx, rules, used)
    BY <1>1, <2>1 DEF Tells
  <2>. QED
    BY <2>2 DEF ToldOf
<1>2. CASE r.kind = "course"
  <2>1. y = CourseReport(ctx, r) /\ u = used
    BY <1>2 DEF RuleReport
  <2>0. Honest(y)
    BY <2>1, LeafHonest
  <2>2. y.rule = r.id /\ y.children = <<>> /\ Honest(y)
    BY <2>0, <2>1 DEF CourseReport, Report
  <2>. QED
    BY <1>2, <2>1, <2>2 DEF Additional
<1>3. CASE r.kind = "credits"
  <2>1. y = CreditsReport(ctx, r, used) /\ u = (IF r.scope = "additional" THEN used \cup ToSet(y.filledBy) ELSE used)
    BY <1>3 DEF RuleReport
  <2>2. /\ y.rule = r.id /\ y.children = <<>> /\ ToSet(y.filledBy) \subseteq EntriesIn(ctx) /\ Honest(y)
        /\ r.scope = "additional" => ToSet(y.filledBy) \cap used = {}
    <3>1. Honest(y)
      BY ONLY <2>1, LeafHonest
    <3>2. y = CreditsReport(ctx, r, used)
      BY ONLY <2>1
    <3>3. /\ y.rule = r.id /\ y.children = <<>> /\ ToSet(y.filledBy) \subseteq EntriesIn(ctx)
          /\ r.scope = "additional" => ToSet(y.filledBy) \cap used = {}
      BY ONLY <3>2, M \in Nat, DOMAIN ctx.cards = 1 .. M, CreditsTake
    <3>. QED
      BY ONLY <3>1, <3>3
  <2>. QED
    BY <1>3, <2>1, <2>2 DEF Additional
<1>4. CASE r.kind \notin {"course", "credits"}
  <2>1. y = SelfCheck(ctx, r) /\ u = used
    BY <1>4 DEF RuleReport
  <2>0. Honest(y)
    BY <2>1, LeafHonest
  <2>2. y.rule = r.id /\ y.children = <<>> /\ Honest(y)
    BY <2>0, <2>1 DEF SelfCheck, Report
  <2>. QED
    BY <1>4, <2>1, <2>2 DEF Additional
<1>. QED
  BY <1>2, <1>3, <1>4

\* The children of a group, one after the other.
ToldInside(x, n, ctx, rules, r, N, used) ==
    \E told : /\ x = [reports |-> x.reports, used |-> x.used]
              /\ x.reports = [k \in 1 .. N |-> x.reports[k]]
              /\ \A k \in 1 .. N : ReportAt(n, r.of[k], x.reports[k]) \in told
              /\ Tells(x, told, ctx, rules, used)
LEMMA InsideTold ==
  ASSUME NEW ctx, NEW rules, NEW n \in Nat, NEW r, NEW used \in SUBSET EntriesIn(ctx), NEW prev, NEW N \in Nat,
         Len(r.of) = N, \A k \in 1 .. N : r.of[k] \in rules,
         \A k \in 1 .. N : \A u \in SUBSET EntriesIn(ctx) :
             ToldOf(prev[<<r.of[k], u>>], ctx, rules, n, r.of[k], u)
  PROVE  ToldInside(InsideOf(ctx, r, used, prev), n, ctx, rules, r, N, used)
<1>1. \A a, b : OnRule(ctx, r, used, prev, 0, a) = OnRule(ctx, r, used, prev, 0, b)
  BY DEF OnRule
<1>. DEFINE inside == CHOOSE f : IsInside(f, ctx, r, used, prev, N)
<1>2. IsInside(inside, ctx, r, used, prev, N)
  BY <1>1, InsideExists
<1>3. InsideOf(ctx, r, used, prev) = inside[N]
  BY DEF InsideOf, Inside, IsInside, OnRule
<1>. HIDE DEF inside
<1>4. \A k \in 0 .. N : inside[k] = OnRule(ctx, r, used, prev, k, inside[k - 1])
  BY <1>2 DEF IsInside
<1>. DEFINE T == {k \in 0 .. N : ToldInside(inside[k], n, ctx, rules, r, k, used)}
<1>5. 0 \in T
  <2>1. inside[0] = [reports |-> <<>>, used |-> used]
    <3>1. 0 \in 0 .. N
      OBVIOUS
    <3>2. inside[0] = OnRule(ctx, r, used, prev, 0, inside[0 - 1])
      BY <1>4, <3>1
    <3>. QED
      BY ONLY <3>2 DEF OnRule
  <2>. PICK x : x = inside[0]
    OBVIOUS
  <2>2. Tells(x, {}, ctx, rules, used)
    BY <2>1 DEF Tells, ToldAll, Spends
  <2>3. ToldInside(x, n, ctx, rules, r, 0, used)
    BY <2>1, <2>2 DEF ToldInside
  <2>. QED
    BY <2>3
<1>6. ASSUME NEW j \in 0 .. N, j < N, j \in T PROVE j + 1 \in T
  <2>. PICK m \in 1 .. N : m = j + 1
    BY <1>6
  <2>. PICK old : old = inside[j]
    OBVIOUS
  <2>. PICK list : list = old.reports
    OBVIOUS
  <2>. PICK c : c = r.of[m]
    OBVIOUS
  <2>1. PICK told : /\ list = [k \in 1 .. j |-> list[k]] /\ \A k \in 1 .. j : ReportAt(n, r.of[k], list[k]) \in told
                    /\ Tells(old, told, ctx, rules, used)
    BY <1>6 DEF ToldInside
  <2>2. /\ used \subseteq old.used /\ old.used \subseteq EntriesIn(ctx)
        /\ ToldAll(told, ctx, rules) /\ Spends(told, old.used \ used)
    BY ONLY <2>1 DEF Tells
  <2>3. inside[m] = OnRule(ctx, r, used, prev, m, old)
    <3>1. m \in 0 .. N /\ m - 1 = j
      OBVIOUS
    <3>. QED
      BY <1>4, <3>1
  <2>4. \E e, u, new : /\ inside[m] = [reports |-> Append(list, e), used |-> u] /\ ReportAt(n, c, e) \in new
                       /\ old.used \subseteq u /\ u \subseteq EntriesIn(ctx)
                       /\ ToldAll(new, ctx, rules) /\ Spends(new, u \ old.used)
    <3>1. CASE c.kind = "distinct"
      <4>. PICK e : e = DistinctReport(ctx, c, r.of)
        OBVIOUS
      <4>1. inside[m] = [reports |-> Append(list, e), used |-> old.used]
        BY ONLY <2>3, <3>1, m \in 1 .. N, N \in Nat, e = DistinctReport(ctx, c, r.of), list = old.reports,
                c = r.of[m] DEF OnRule
      <4>0. Honest(e)
        BY LeafHonest
      <4>2. e.rule = c.id /\ e.children = <<>> /\ Honest(e)
        BY <4>0 DEF DistinctReport, SelfCheck, Report
      <4>3. c.kind # "course" /\ ~Additional(c) /\ ~(IsGroup(c) /\ n > 0) /\ c \in rules
        BY <3>1 DEF Additional, IsGroup
      <4>4. ToldAll({ReportAt(n, c, e)}, ctx, rules) /\ Spends({ReportAt(n, c, e)}, old.used \ old.used)
        BY ONLY <4>2, <4>3, OneTold, n \in Nat
      <4>5. ReportAt(n, c, e) \in {ReportAt(n, c, e)}
        OBVIOUS
      <4>. QED
        BY ONLY <2>2, <4>1, <4>4, <4>5
    <3>2. CASE c.kind # "distinct"
      <4>. PICK one : one = prev[<<c, old.used>>]
        OBVIOUS
      <4>1. ToldOf(one, ctx, rules, n, c, old.used)
        BY <2>2
      <4>2. PICK new : ReportAt(n, c, one.report) \in new /\ Tells(one, new, ctx, rules, old.used)
        BY <4>1 DEF ToldOf
      <4>3. inside[m] = [reports |-> Append(list, one.report), used |-> one.used]
        BY ONLY <2>3, <3>2, m \in 1 .. N, N \in Nat, one = prev[<<c, old.used>>], list = old.reports,
                c = r.of[m] DEF OnRule
      <4>. QED
        BY ONLY <4>2, <4>3 DEF Tells
    <3>. QED
      BY <3>1, <3>2
  <2>5. PICK e, u, new : /\ inside[m] = [reports |-> Append(list, e), used |-> u] /\ ReportAt(n, c, e) \in new
                         /\ old.used \subseteq u /\ u \subseteq EntriesIn(ctx)
                         /\ ToldAll(new, ctx, rules) /\ Spends(new, u \ old.used)
    BY <2>4
  <2>. PICK longer : longer = Append(list, e)
    OBVIOUS
  <2>6. /\ longer = [k \in 1 .. m |-> IF k = m THEN e ELSE list[k]]
        /\ \A k \in 1 .. j : longer[k] = list[k]
        /\ longer[m] = e
    BY <2>1, OneMore
  <2>. PICK all : all = told \cup new
    OBVIOUS
  <2>7. ToldAll(all, ctx, rules) /\ Spends(all, u \ used)
    BY ONLY <2>2, <2>5, BothTold, all = told \cup new
  <2>8. \A k \in 1 .. m : ReportAt(n, r.of[k], longer[k]) \in all
    <3>1. \A k \in 1 .. m : k = m \/ k \in 1 .. j
      OBVIOUS
    <3>. QED
      BY ONLY <2>1, <2>5, <2>6, <3>1, all = told \cup new, c = r.of[m]
  <2>9. longer = [k \in 1 .. m |-> longer[k]]
    BY <2>6
  <2>. PICK x : x = inside[m]
    OBVIOUS
  <2>10. x = [reports |-> longer, used |-> u]
    BY ONLY <2>5, x = inside[m], longer = Append(list, e)
  <2>11. Tells(x, all, ctx, rules, used)
    BY ONLY <2>2, <2>5, <2>7, <2>10 DEF Tells
  <2>12. ToldInside(x, n, ctx, rules, r, m, used)
    BY ONLY <2>8, <2>9, <2>10, <2>11 DEF ToldInside
  <2>. QED
    BY <2>12
<1>7. \A k \in 0 .. N : k \in T
  <2>. HIDE DEF T
  <2>. QED
    BY <1>5, <1>6, UpTo
<1>8. ToldInside(inside[N], n, ctx, rules, r, N, used)
  <2>1. N \in 0 .. N
    OBVIOUS
  <2>. QED
    BY <1>7, <2>1
<1>. QED
  BY <1>3, <1>8

\* A group, and with it its children.
LEMMA GroupTold ==
  ASSUME NEW ctx, NEW rules, NEW n \in Nat, NEW r \in rules, IsGroup(r), NEW N \in Nat, Len(r.of) = N,
         NEW used, NEW x, ToldInside(x, n, ctx, rules, r, N, used), NEW m \in Nat, m = n + 1
  PROVE  ToldOf(Group(ctx, r, x), ctx, rules, m, r, used)
<1>. PICK y : y = GroupReport(ctx, r, x.reports)
  OBVIOUS
<1>1. y.rule = r.id /\ y.children = x.reports
  BY DEF GroupReport, GroupOf, Report
<1>2. Group(ctx, r, x) = [report |-> y, used |-> x.used]
  BY DEF Group
<1>3. PICK told : /\ x.reports = [k \in 1 .. N |-> x.reports[k]]
                  /\ \A k \in 1 .. N : ReportAt(n, r.of[k], x.reports[k]) \in told
                  /\ Tells(x, told, ctx, rules, used)
  BY DEF ToldInside
<1>. PICK t : t = ReportAt(m, r, y)
  OBVIOUS
<1>4. t.level = m /\ t.rule = r /\ t.report = y
  BY DEF ReportAt
<1>. PICK all : all = told \cup {t}
  OBVIOUS
<1>5. r.kind # "course" /\ ~Additional(r)
  BY DEF IsGroup, Additional
<1>6. m - 1 = n /\ m > 0
  OBVIOUS
<1>7. ToldOne(t, ctx, rules, all)
  <2>0. Honest(y)
    BY <1>3, GroupHonest
  <2>1. \A k \in 1 .. N : ReportAt(t.level - 1, t.rule.of[k], t.report.children[k]) \in all
    BY ONLY <1>1, <1>3, <1>4, <1>6, all = told \cup {t}
  <2>2. t.report.children = [k \in 1 .. N |-> t.report.children[k]] /\ Len(t.rule.of) = N
    BY <1>1, <1>3, <1>4
  <2>. QED
    BY <1>1, <1>4, <1>5, <1>6, <2>0, <2>1, <2>2 DEF ToldOne
<1>8. ASSUME NEW s \in told PROVE ToldOne(s, ctx, rules, all)
  <2>1. ToldOne(s, ctx, rules, told)
    BY <1>3 DEF Tells, ToldAll
  <2>2. CASE IsGroup(s.rule) /\ s.level > 0
    <3>. PICK K \in Nat : /\ Len(s.rule.of) = K /\ s.report.children = [k \in 1 .. K |-> s.report.children[k]]
                          /\ \A k \in 1 .. K : ReportAt(s.level - 1, s.rule.of[k], s.report.children[k]) \in told
      BY ONLY <2>1, <2>2 DEF ToldOne
    <3>1. \A k \in 1 .. K : ReportAt(s.level - 1, s.rule.of[k], s.report.children[k]) \in all
      OBVIOUS
    <3>. QED
      BY ONLY <2>1, <2>2, <3>1, K \in Nat, Len(s.rule.of) = K,
              s.report.children = [k \in 1 .. K |-> s.report.children[k]] DEF ToldOne
  <2>3. CASE ~(IsGroup(s.rule) /\ s.level > 0)
    BY ONLY <2>1, <2>3 DEF ToldOne
  <2>. QED
    BY <2>2, <2>3
<1>9. ToldAll(all, ctx, rules)
  BY ONLY <1>7, <1>8, all = told \cup {t} DEF ToldAll
<1>10. Spends(all, x.used \ used)
  BY ONLY <1>3, <1>4, <1>5, all = told \cup {t} DEF Tells, Spends
<1>11. Tells(Group(ctx, r, x), all, ctx, rules, used)
  BY ONLY <1>2, <1>3, <1>9, <1>10 DEF Tells
<1>12. ReportAt(m, r, Group(ctx, r, x).report) \in all
  BY <1>2
<1>. QED
  BY ONLY <1>11, <1>12 DEF ToldOf

\* The whole tree.
LEMMA TreeTold ==
  ASSUME NEW ctx, NEW M \in Nat, DOMAIN ctx.cards = 1 .. M, NEW root, NEW D \in Nat, D = MaxDepth, RulesOK(root),
         NEW used \in SUBSET EntriesIn(ctx)
  PROVE  ToldOf(EvalAt(ctx, root)[<<root, used>>], ctx, Below(root, D, Under), D, root, used)
<1>. PICK E : E = EntriesIn(ctx)
  OBVIOUS
<1>. PICK walk, below : Strolls(walk, below, root, D)
  BY NodesAre
<1>. PICK rules : rules = Below(root, D, Under)
  OBVIOUS
<1>1. /\ below[0] = {root} /\ (\A d \in 0 .. D : below[d] = Below(root, d, Under))
      /\ (\A d \in 0 .. D : below[d] \subseteq below[D])
      /\ \A n \in 0 .. D : \A r \in below[D - n] : Steps(walk, below, D, n, r)
  BY DEF Strolls, Levels
<1>2. \A n \in 0 .. D : below[D - n] \subseteq rules
  <2>1. \A n \in 0 .. D : D - n \in 0 .. D
    OBVIOUS
  <2>2. D \in 0 .. D
    OBVIOUS
  <2>. QED
    BY <1>1, <2>1, <2>2
<1>6. \A a, b : Evaluated(ctx, root, D, 0, a) = Evaluated(ctx, root, D, 0, b)
  BY DEF Evaluated
<1>. DEFINE eval == CHOOSE f : IsEval(f, ctx, root, D, D)
<1>7. IsEval(eval, ctx, root, D, D)
  BY <1>6, EvalExists
<1>8. EvalAt(ctx, root) = eval[D]
  BY DEF EvalAt, IsEval, Evaluated, InsideOf
<1>. HIDE DEF eval
<1>9. ASSUME NEW n \in 0 .. D, NEW r \in below[D - n], NEW u \in SUBSET E
      PROVE  eval[n][<<r, u>>] = IF IsGroup(r) /\ n > 0 THEN Group(ctx, r, InsideOf(ctx, r, u, eval[n - 1]))
                                 ELSE RuleReport(ctx, r, u)
  <2>1. D - n \in 0 .. D /\ eval[n] = Evaluated(ctx, root, D, n, eval[n - 1])
    BY <1>7 DEF IsEval
  <2>2. <<r, u>> \in Below(root, D - n, Under) \X SUBSET EntriesIn(ctx)
    BY <1>1, <2>1
  <2>. QED
    BY <2>1, <2>2 DEF Evaluated
<1>10. ASSUME NEW n \in 0 .. D, NEW r \in below[D - n], ~(IsGroup(r) /\ n > 0), NEW u \in SUBSET E
       PROVE  ToldOf(eval[n][<<r, u>>], ctx, rules, n, r, u)
  <2>1. eval[n][<<r, u>>] = RuleReport(ctx, r, u)
    BY <1>9, <1>10
  <2>2. r \in rules
    BY <1>2
  <2>3. u \in SUBSET EntriesIn(ctx)
    OBVIOUS
  <2>4. ToldOf(RuleReport(ctx, r, u), ctx, rules, n, r, u)
    BY <1>10, <2>2, <2>3, LeafTold
  <2>. QED
    BY <2>1, <2>4
<1>. DEFINE T == {n \in 0 .. D : \A r \in below[D - n] : \A u \in SUBSET E :
                                    ToldOf(eval[n][<<r, u>>], ctx, rules, n, r, u)}
<1>11. 0 \in T
  <2>1. 0 \in 0 .. D /\ ~(0 > 0)
    OBVIOUS
  <2>. QED
    BY <1>10, <2>1
<1>12. ASSUME NEW n \in 0 .. D, n < D, n \in T PROVE n + 1 \in T
  <2>. PICK m \in 1 .. D : m = n + 1
    BY <1>12
  <2>0. m \in 0 .. D /\ m > 0 /\ m - 1 = n /\ m \in Nat /\ n \in Nat
    OBVIOUS
  <2>1. ASSUME NEW r \in below[D - m], IsGroup(r), NEW u \in SUBSET E
        PROVE  ToldOf(eval[m][<<r, u>>], ctx, rules, m, r, u)
    <3>. PICK N \in Nat : Len(r.of) = N /\ r.of \in [1 .. N -> below[D - (m - 1)]]
      <4>1. Steps(walk, below, D, m, r)
        BY <1>1, <2>0
      <4>. QED
        BY ONLY <2>0, <2>1, <4>1 DEF Steps
    <3>1. \A k \in 1 .. N : r.of[k] \in below[D - n]
      BY <2>0
    <3>2. \A k \in 1 .. N : r.of[k] \in rules
      BY <1>2, <3>1
    <3>3. \A k \in 1 .. N : \A v \in SUBSET EntriesIn(ctx) : ToldOf(eval[n][<<r.of[k], v>>], ctx, rules, n, r.of[k], v)
      BY <1>12, <3>1
    <3>4. ToldInside(InsideOf(ctx, r, u, eval[n]), n, ctx, rules, r, N, u)
      BY ONLY <2>0, <3>2, <3>3, InsideTold, E = EntriesIn(ctx), u \in SUBSET E, N \in Nat, Len(r.of) = N
    <3>5. r \in rules
      BY <1>2, <2>0
    <3>6. ToldOf(Group(ctx, r, InsideOf(ctx, r, u, eval[n])), ctx, rules, m, r, u)
      BY ONLY <2>0, <2>1, <3>4, <3>5, GroupTold, N \in Nat, Len(r.of) = N, m = n + 1
    <3>7. eval[m][<<r, u>>] = Group(ctx, r, InsideOf(ctx, r, u, eval[n]))
      <4>1. eval[m][<<r, u>>] = IF IsGroup(r) /\ m > 0 THEN Group(ctx, r, InsideOf(ctx, r, u, eval[m - 1]))
                                ELSE RuleReport(ctx, r, u)
        BY <1>9, <2>0
      <4>. QED
        BY ONLY <2>0, <2>1, <4>1
    <3>. QED
      BY <3>6, <3>7
  <2>2. ASSUME NEW r \in below[D - m], ~IsGroup(r), NEW u \in SUBSET E
        PROVE  ToldOf(eval[m][<<r, u>>], ctx, rules, m, r, u)
    BY <1>10, <2>0, <2>2
  <2>3. \A r \in below[D - m] : \A u \in SUBSET E : ToldOf(eval[m][<<r, u>>], ctx, rules, m, r, u)
    BY <2>1, <2>2
  <2>. QED
    BY ONLY <2>0, <2>3, m = n + 1
<1>13. \A n \in 0 .. D : n \in T
  <2>. HIDE DEF T
  <2>. QED
    BY <1>11, <1>12, UpTo
<1>14. ToldOf(eval[D][<<root, used>>], ctx, rules, D, root, used)
  <2>1. D \in 0 .. D /\ D - D = 0
    OBVIOUS
  <2>2. root \in below[D - D]
    BY <1>1, <2>1
  <2>. QED
    BY <1>13, <2>1, <2>2
<1>. QED
  BY <1>8, <1>14

\* Reports beside the rules they are of, and how many of them ask.
Mirror(s, t) == Len(s) = Len(t) /\ \A i \in 1 .. Len(s) : s[i].rule = t[i].id
Asking(s) == {i \in DOMAIN s : Asks(s[i])}
Ticks(s) == Cardinality(Asking(s))
LEMMA OneTicks ==
  ASSUME NEW z
  PROVE  Ticks(<<z>>) = Bit(Asks(z))
<1>1. DOMAIN <<z>> = {1} /\ <<z>>[1] = z
  OBVIOUS
<1>2. CASE Asks(z)
  <2>1. Asking(<<z>>) = {1}
    BY <1>1, <1>2 DEF Asking
  <2>. QED
    BY <1>2, <2>1, FS_Singleton DEF Ticks, Bit
<1>3. CASE ~Asks(z)
  <2>1. Asking(<<z>>) = {}
    BY <1>1, <1>3 DEF Asking
  <2>. QED
    BY <1>3, <2>1, FS_EmptySet DEF Ticks, Bit
<1>. QED
  BY <1>2, <1>3

LEMMA TicksCount ==
  ASSUME NEW S, NEW a \in Seq(S)
  PROVE  /\ Asking(a) \subseteq 1 .. Len(a) /\ IsFiniteSet(Asking(a)) /\ Ticks(a) \in Nat /\ Ticks(a) <= Len(a)
<1>. PICK m \in Nat : m = Len(a) /\ DOMAIN a = 1 .. m
  OBVIOUS
<1>1. Asking(a) \subseteq 1 .. m
  BY DEF Asking
<1>2. IsFiniteSet(1 .. m) /\ Cardinality(1 .. m) = m
  <2>1. 1 \in Int /\ m \in Int /\ (1 > m => m = 0) /\ m - 1 + 1 = m
    OBVIOUS
  <2>. QED
    BY ONLY <2>1, FS_Interval
<1>. QED
  BY <1>1, <1>2, FS_Subset, FS_CardinalityType DEF Ticks

LEMMA BothTick ==
  ASSUME NEW S, NEW a \in Seq(S), NEW b \in Seq(S)
  PROVE  Ticks(a \o b) = Ticks(a) + Ticks(b)
<1>. PICK m \in Nat, n \in Nat : m = Len(a) /\ n = Len(b)
  OBVIOUS
<1>. PICK c : c = a \o b
  OBVIOUS
<1>1. /\ DOMAIN c = 1 .. (m + n) /\ DOMAIN a = 1 .. m /\ DOMAIN b = 1 .. n
      /\ (\A i \in 1 .. m : c[i] = a[i]) /\ \A i \in 1 .. n : c[m + i] = b[i]
  OBVIOUS
<1>. PICK A, B : A = Asking(a) /\ B = Asking(b)
  OBVIOUS
<1>2. /\ A \subseteq 1 .. m /\ B \subseteq 1 .. n /\ IsFiniteSet(A) /\ IsFiniteSet(B)
      /\ Cardinality(A) \in Nat /\ Cardinality(B) \in Nat
  BY TicksCount, FS_CardinalityType
<1>. PICK H : H = {m + i : i \in B}
  OBVIOUS
<1>3. IsFiniteSet(H) /\ Cardinality(H) = Cardinality(B)
  <2>. PICK f : f = [i \in B |-> m + i]
    OBVIOUS
  <2>1. \A i, j \in B : m + i = m + j => i = j
    BY <1>2
  <2>2. f \in Bijection(B, H)
    BY <2>1 DEF Bijection, Injection, Surjection, IsInjective
  <2>. QED
    BY <1>2, <2>2, FS_Bijection DEF ExistsBijection
<1>4. A \cap H = {}
  BY <1>2
<1>5. \A i \in 1 .. (m + n) : i \in 1 .. m \/ \E j \in 1 .. n : i = m + j
  <2>1. ASSUME NEW i \in 1 .. (m + n), i \notin 1 .. m PROVE \E j \in 1 .. n : i = m + j
    <3>1. i - m \in 1 .. n /\ i = m + (i - m)
      BY <2>1
    <3>. QED
      BY <3>1
  <2>. QED
    BY <2>1
<1>6. (\A i \in 1 .. m : i \in 1 .. (m + n)) /\ \A j \in 1 .. n : m + j \in 1 .. (m + n)
  OBVIOUS
<1>7. /\ A = {i \in 1 .. m : Asks(a[i])} /\ B = {i \in 1 .. n : Asks(b[i])}
      /\ Asking(c) = {i \in 1 .. (m + n) : Asks(c[i])}
  BY <1>1 DEF Asking
<1>8. Asking(c) = A \cup H
  <2>1. ASSUME NEW i \in Asking(c) PROVE i \in A \cup H
    <3>1. i \in 1 .. (m + n) /\ Asks(c[i])
      BY <1>7
    <3>2. CASE i \in 1 .. m
      BY <1>1, <1>7, <3>1, <3>2
    <3>3. CASE \E j \in 1 .. n : i = m + j
      BY <1>1, <1>7, <3>1, <3>3
    <3>. QED
      BY <1>5, <3>1, <3>2, <3>3
  <2>2. ASSUME NEW i \in A PROVE i \in Asking(c)
    BY <1>1, <1>6, <1>7
  <2>3. ASSUME NEW i \in H PROVE i \in Asking(c)
    BY <1>1, <1>6, <1>7
  <2>. QED
    BY <2>1, <2>2, <2>3
<1>9. Cardinality(Asking(c)) = Cardinality(A) + Cardinality(B)
  <2>1. Cardinality(A \cap H) = 0
    BY <1>4, FS_EmptySet
  <2>2. Cardinality(A \cup H) = Cardinality(A) + Cardinality(H) - Cardinality(A \cap H)
    BY <1>2, <1>3, FS_Union
  <2>. QED
    BY ONLY <1>2, <1>3, <1>8, <2>1, <2>2
<1>. QED
  BY <1>9 DEF Ticks

LEMMA FlatTicks ==
  ASSUME NEW S, NEW N \in Nat, NEW lists \in [1 .. N -> Seq(S)],
         NEW counts \in [1 .. N -> Nat], \A k \in 1 .. N : counts[k] = Ticks(lists[k])
  PROVE  Ticks(FlattenSeq(lists)) = Total(counts)
<1>. PICK flat \in [0 .. N -> Seq(S)] :
            /\ flat[0] = <<>> /\ \A k \in 1 .. N : flat[k] = flat[k - 1] \o lists[k]
            /\ FlattenSeq(lists) = flat[N]
  BY FlatIs
<1>. PICK t \in [0 .. N -> Nat] : /\ t[0] = 0 /\ \A k \in 1 .. N : t[k] = t[k - 1] + counts[k]
                                  /\ Total(counts) = t[N]
  BY TotalIs
<1>. DEFINE T == {n \in 0 .. N : Ticks(flat[n]) = t[n]}
<1>2. 0 \in T
  <2>1. Asking(flat[0]) = {}
    BY DEF Asking
  <2>2. Ticks(flat[0]) = 0
    BY ONLY <2>1, FS_EmptySet DEF Ticks
  <2>. QED
    BY <2>2
<1>3. ASSUME NEW n \in 0 .. N, n < N, n \in T PROVE n + 1 \in T
  <2>. PICK m \in 1 .. N : m = n + 1
    BY <1>3
  <2>1. flat[m] = flat[n] \o lists[m] /\ lists[m] \in Seq(S) /\ flat[n] \in Seq(S) /\ t[m] = t[n] + counts[m]
    <3>1. m - 1 = n
      OBVIOUS
    <3>. QED
      BY <3>1
  <2>2. Ticks(flat[m]) = Ticks(flat[n]) + Ticks(lists[m])
    BY ONLY <2>1, BothTick
  <2>3. Ticks(flat[n]) = t[n] /\ counts[m] = Ticks(lists[m])
    BY <1>3
  <2>4. Ticks(flat[m]) = t[m]
    BY ONLY <2>1, <2>2, <2>3
  <2>. QED
    BY ONLY <2>4, m \in 1 .. N, m = n + 1
<1>4. \A n \in 0 .. N : n \in T
  <2>. HIDE DEF T
  <2>. QED
    BY <1>2, <1>3, UpTo
<1>5. N \in T
  <2>. HIDE DEF T
  <2>. QED
    BY <1>4
<1>. QED
  BY <1>5

\* One list after the other mirrors if each does.
LEMMA BothMirror ==
  ASSUME NEW S, NEW U, NEW a \in Seq(S), NEW b \in Seq(S), NEW c \in Seq(U), NEW d \in Seq(U),
         Mirror(a, c), Mirror(b, d)
  PROVE  Mirror(a \o b, c \o d)
<1>. PICK m \in Nat, n \in Nat : m = Len(a) /\ n = Len(b)
  OBVIOUS
<1>1. /\ m = Len(c) /\ n = Len(d)
      /\ (\A i \in 1 .. m : a[i].rule = c[i].id) /\ \A i \in 1 .. n : b[i].rule = d[i].id
  BY DEF Mirror
<1>. PICK x, y : x = a \o b /\ y = c \o d
  OBVIOUS
<1>2. Len(x) = m + n /\ (\A i \in 1 .. m : x[i] = a[i]) /\ \A i \in 1 .. n : x[m + i] = b[i]
  OBVIOUS
<1>3. Len(y) = m + n /\ (\A i \in 1 .. m : y[i] = c[i]) /\ \A i \in 1 .. n : y[m + i] = d[i]
  BY <1>1
<1>4. \A i \in 1 .. (m + n) : i \in 1 .. m \/ \E j \in 1 .. n : i = m + j
  <2>1. ASSUME NEW i \in 1 .. (m + n), i \notin 1 .. m PROVE \E j \in 1 .. n : i = m + j
    <3>1. i - m \in 1 .. n /\ i = m + (i - m)
      BY <2>1
    <3>. QED
      BY <3>1
  <2>. QED
    BY <2>1
<1>5. ASSUME NEW i \in 1 .. (m + n) PROVE x[i].rule = y[i].id
  <2>1. CASE i \in 1 .. m
    BY ONLY <1>1, <1>2, <1>3, <2>1
  <2>2. CASE \E j \in 1 .. n : i = m + j
    BY ONLY <1>1, <1>2, <1>3, <2>2
  <2>. QED
    BY <1>4, <2>1, <2>2
<1>. QED
  BY <1>2, <1>3, <1>5 DEF Mirror

LEMMA FlatMirror ==
  ASSUME NEW S, NEW U, NEW N \in Nat, NEW lists \in [1 .. N -> Seq(S)], NEW ours \in [1 .. N -> Seq(U)],
         \A k \in 1 .. N : Mirror(lists[k], ours[k])
  PROVE  Mirror(FlattenSeq(lists), FlattenSeq(ours))
<1>. PICK f \in [0 .. N -> Seq(S)] : /\ f[0] = <<>> /\ \A k \in 1 .. N : f[k] = f[k - 1] \o lists[k]
                                     /\ FlattenSeq(lists) = f[N]
  BY FlatIs
<1>. PICK g \in [0 .. N -> Seq(U)] : /\ g[0] = <<>> /\ \A k \in 1 .. N : g[k] = g[k - 1] \o ours[k]
                                     /\ FlattenSeq(ours) = g[N]
  BY FlatIs
<1>. DEFINE T == {n \in 0 .. N : Mirror(f[n], g[n])}
<1>1. 0 \in T
  BY DEF Mirror
<1>2. ASSUME NEW n \in 0 .. N, n < N, n \in T PROVE n + 1 \in T
  <2>. PICK m \in 1 .. N : m = n + 1
    BY <1>2
  <2>1. /\ f[m] = f[n] \o lists[m] /\ lists[m] \in Seq(S) /\ f[n] \in Seq(S)
        /\ g[m] = g[n] \o ours[m] /\ ours[m] \in Seq(U) /\ g[n] \in Seq(U)
    <3>1. m - 1 = n
      OBVIOUS
    <3>. QED
      BY <3>1
  <2>2. Mirror(f[n], g[n]) /\ Mirror(lists[m], ours[m])
    BY <1>2
  <2>3. Mirror(f[m], g[m])
    BY ONLY <2>1, <2>2, BothMirror
  <2>. QED
    BY ONLY <2>3, m \in 1 .. N, m = n + 1
<1>3. \A n \in 0 .. N : n \in T
  <2>. HIDE DEF T
  <2>. QED
    BY <1>1, <1>2, UpTo
<1>4. N \in T
  <2>. HIDE DEF T
  <2>. QED
    BY <1>3
<1>. QED
  BY <1>4

\* Counts that agree up to the counter's width have sums that do.
CountOf(c, t) == c = t \/ c = Capped(t)
LEMMA CappedTotal ==
  ASSUME NEW N \in Nat, NEW a \in [1 .. N -> Nat], NEW b \in [1 .. N -> Nat], \A k \in 1 .. N : CountOf(a[k], b[k])
  PROVE  Capped(Total(a)) = Capped(Total(b))
<1>. PICK s \in [0 .. N -> Nat] : s[0] = 0 /\ (\A k \in 1 .. N : s[k] = s[k - 1] + a[k]) /\ Total(a) = s[N]
  BY TotalIs
<1>. PICK t \in [0 .. N -> Nat] : t[0] = 0 /\ (\A k \in 1 .. N : t[k] = t[k - 1] + b[k]) /\ Total(b) = t[N]
  BY TotalIs
<1>. DEFINE T == {n \in 0 .. N : s[n] = t[n] \/ (s[n] >= MaxCents /\ t[n] >= MaxCents)}
<1>1. 0 \in T
  OBVIOUS
<1>2. ASSUME NEW n \in 0 .. N, n < N, n \in T PROVE n + 1 \in T
  <2>. PICK m \in 1 .. N : m = n + 1
    BY <1>2
  <2>1. s[m] = s[n] + a[m] /\ t[m] = t[n] + b[m]
    <3>1. m - 1 = n
      OBVIOUS
    <3>. QED
      BY <3>1
  <2>2. s[n] \in Nat /\ t[n] \in Nat /\ a[m] \in Nat /\ b[m] \in Nat /\ MaxCents \in Nat
    BY MaxCentsAssumption
  <2>3. a[m] = b[m] \/ (a[m] = MaxCents /\ b[m] > MaxCents)
    <3>1. CountOf(a[m], b[m])
      OBVIOUS
    <3>. QED
      BY ONLY <3>1 DEF CountOf, Capped
  <2>4. s[n] = t[n] \/ (s[n] >= MaxCents /\ t[n] >= MaxCents)
    BY <1>2
  <2>5. s[m] = t[m] \/ (s[m] >= MaxCents /\ t[m] >= MaxCents)
    BY ONLY <2>1, <2>2, <2>3, <2>4
  <2>. QED
    BY ONLY <2>5, m \in 1 .. N, m = n + 1
<1>3. \A n \in 0 .. N : n \in T
  <2>. HIDE DEF T
  <2>. QED
    BY <1>1, <1>2, UpTo
<1>4. N \in T
  <2>. HIDE DEF T
  <2>. QED
    BY <1>3
<1>5. s[N] \in Nat /\ t[N] \in Nat /\ MaxCents \in Nat
  BY MaxCentsAssumption
<1>6. s[N] = t[N] \/ (s[N] >= MaxCents /\ t[N] >= MaxCents)
  BY <1>4
<1>7. Capped(s[N]) = Capped(t[N])
  BY ONLY <1>5, <1>6 DEF Capped
<1>. QED
  BY <1>7

\* What is walked of a report is in the order of its rules, and the report
\* counts those of them that ask.
Matched(s, t, z) == Mirror(s, t) /\ CountOf(z.progress.selfChecks, Ticks(s))
LEMMA OneMatched ==
  ASSUME NEW z, NEW r, z.children = <<>>, Honest(z), z.rule = r.id
  PROVE  Matched(<<z>>, <<r>>, z)
<1>1. Mirror(<<z>>, <<r>>)
  <2>1. Len(<<z>>) = 1 /\ Len(<<r>>) = 1 /\ <<z>>[1] = z /\ <<r>>[1] = r
    OBVIOUS
  <2>. QED
    BY <2>1 DEF Mirror
<1>2. z.progress.selfChecks = Bit(Asks(z))
  BY DEF Honest
<1>. QED
  BY <1>1, <1>2, OneTicks DEF Matched, CountOf

LEMMA GroupMatched ==
  ASSUME NEW S, NEW U, NEW z \in S, NEW r \in U, Honest(z), z.rule = r.id,
         NEW N \in Nat, NEW kids \in [1 .. N -> S], z.children = kids,
         NEW lists \in [1 .. N -> Seq(S)], NEW ours \in [1 .. N -> Seq(U)],
         \A k \in 1 .. N : Matched(lists[k], ours[k], kids[k])
  PROVE  Matched(<<z>> \o FlattenSeq(lists), <<r>> \o FlattenSeq(ours), z)
<1>. PICK a, b : a = FlattenSeq(lists) /\ b = FlattenSeq(ours)
  OBVIOUS
<1>1. a \in Seq(S) /\ b \in Seq(U)
  BY Flattened
<1>. PICK one, our : one = <<z>> /\ our = <<r>>
  OBVIOUS
<1>2. one \in Seq(S) /\ our \in Seq(U)
  OBVIOUS
<1>3. Mirror(one, our)
  <2>1. Len(one) = 1 /\ Len(our) = 1 /\ one[1] = z /\ our[1] = r
    OBVIOUS
  <2>. QED
    BY <2>1 DEF Mirror
<1>4. Mirror(a, b)
  <2>1. \A k \in 1 .. N : Mirror(lists[k], ours[k])
    BY DEF Matched
  <2>. QED
    BY <2>1, FlatMirror
<1>5. Mirror(one \o a, our \o b)
  BY ONLY <1>1, <1>2, <1>3, <1>4, BothMirror
<1>6. Ticks(one \o a) = Ticks(one) + Ticks(a) /\ Ticks(a) \in Nat
  BY ONLY <1>1, <1>2, BothTick, TicksCount
<1>. PICK counts : counts = [k \in 1 .. N |-> Ticks(lists[k])]
  OBVIOUS
<1>7. counts \in [1 .. N -> Nat] /\ Ticks(a) = Total(counts)
  <2>1. \A k \in 1 .. N : Ticks(lists[k]) \in Nat
    BY TicksCount
  <2>2. counts \in [1 .. N -> Nat] /\ \A k \in 1 .. N : counts[k] = Ticks(lists[k])
    BY ONLY <2>1, counts = [k \in 1 .. N |-> Ticks(lists[k])]
  <2>. QED
    BY ONLY <2>2, FlatTicks, a = FlattenSeq(lists), N \in Nat, lists \in [1 .. N -> Seq(S)]
<1>8. Ticks(one) = Bit(Asks(z))
  BY OneTicks
<1>9. CountOf(z.progress.selfChecks, Ticks(one) + Ticks(a))
  <2>1. CASE kids = <<>>
    <3>1. N = 0
      <4>1. DOMAIN kids = 1 .. N
        OBVIOUS
      <4>2. DOMAIN kids = 1 .. 0
        BY ONLY <2>1
      <4>3. N # 0 => 1 \in 1 .. N /\ 1 \notin 1 .. 0
        OBVIOUS
      <4>. QED
        BY ONLY <4>1, <4>2, <4>3
    <3>2. a = <<>>
      <4>1. lists = <<>>
        BY <3>1
      <4>. QED
        BY <4>1 DEF FlattenSeq
    <3>3. Ticks(a) = 0
      <4>1. Asking(a) = {}
        BY <3>2 DEF Asking
      <4>. QED
        BY <4>1, FS_EmptySet DEF Ticks
    <3>4. z.progress.selfChecks = Bit(Asks(z)) /\ Bit(Asks(z)) \in Nat
      BY <2>1 DEF Honest, Bit
    <3>. QED
      BY ONLY <1>8, <3>3, <3>4 DEF CountOf
  <2>2. CASE kids # <<>>
    <3>. PICK sums : sums = [k \in 1 .. N |-> kids[k].progress.selfChecks]
      OBVIOUS
    <3>1. z.progress.selfChecks = Capped(Total(sums))
      <4>1. DOMAIN kids = 1 .. N
        OBVIOUS
      <4>. QED
        BY ONLY <2>2, <4>1, Honest(z), z.children = kids, sums = [k \in 1 .. N |-> kids[k].progress.selfChecks] DEF Honest
    <3>2. Ticks(one) = 0
      BY <1>8, <2>2 DEF Asks, Bit
    <3>3. \A k \in 1 .. N : CountOf(sums[k], counts[k])
      BY DEF Matched
    <3>4. sums \in [1 .. N -> Nat]
      <4>1. \A k \in 1 .. N : counts[k] \in Nat /\ sums[k] = kids[k].progress.selfChecks
        BY <1>7
      <4>2. \A k \in 1 .. N : sums[k] \in Nat
        BY ONLY <3>3, <4>1, MaxCentsAssumption DEF CountOf, Capped
      <4>. QED
        BY ONLY <4>2, sums = [k \in 1 .. N |-> kids[k].progress.selfChecks], <4>1
    <3>5. Capped(Total(sums)) = Capped(Total(counts))
      BY ONLY <1>7, <3>3, <3>4, CappedTotal, N \in Nat
    <3>. QED
      BY ONLY <1>6, <1>7, <3>1, <3>2, <3>5 DEF CountOf
  <2>. QED
    BY <2>1, <2>2
<1>. QED
  BY ONLY <1>5, <1>6, <1>9, one = <<z>>, our = <<r>>, a = FlattenSeq(lists), b = FlattenSeq(ours) DEF Matched

\* Every rule of the tree has a report in it.
LEMMA ReportsFound ==
  ASSUME NEW ctx, NEW root, NEW D \in Nat, D = MaxDepth, RulesOK(root),
         NEW told, ToldAll(told, ctx, Below(root, D, Under)), NEW y, ReportAt(D, root, y) \in told
  PROVE  /\ \A z \in ToSet(Rules(y)) : \E t \in told : z = t.report
         /\ \A r \in ToSet(Walk(root)) : \E z \in ToSet(Rules(y)) : z.rule = r.id
         /\ Matched(Rules(y), Walk(root), y) /\ \E S : Rules(y) \in Seq(S)
<1>. PICK C : C = {t.report : t \in told}
  OBVIOUS
<1>. PICK walk, below : Strolls(walk, below, root, D)
  BY NodesAre
<1>1. /\ below[0] = {root} /\ Walk(root) = walk[D][root]
      /\ \A n \in 0 .. D : \A r \in below[D - n] : Steps(walk, below, D, n, r)
  BY DEF Strolls, Levels
<1>2. ASSUME NEW n \in 0 .. D, NEW r, NEW z, ReportAt(n, r, z) \in told
      PROVE  /\ z \in C /\ z.rule = r.id /\ Honest(z)
             /\ IF IsGroup(r) /\ n > 0
                THEN \E N \in Nat : /\ Len(r.of) = N /\ z.children \in [1 .. N -> C]
                                    /\ \A k \in 1 .. N : ReportAt(n - 1, r.of[k], z.children[k]) \in told
                ELSE z.children = <<>>
  <2>. PICK t : t = ReportAt(n, r, z)
    OBVIOUS
  <2>1. t.level = n /\ t.rule = r /\ t.report = z /\ t \in told
    BY <1>2 DEF ReportAt
  <2>2. ToldOne(t, ctx, Below(root, D, Under), told)
    BY <2>1 DEF ToldAll
  <2>3. z \in C
    BY <2>1
  <2>4. CASE IsGroup(r) /\ n > 0
    <3>. PICK N \in Nat : /\ Len(r.of) = N /\ z.children = [k \in 1 .. N |-> z.children[k]]
                          /\ \A k \in 1 .. N : ReportAt(n - 1, r.of[k], z.children[k]) \in told
      BY ONLY <2>1, <2>2, <2>4 DEF ToldOne
    <3>1. \A k \in 1 .. N : z.children[k] \in C
      <4>1. ASSUME NEW q, NEW x, ReportAt(n - 1, q, x) \in told PROVE x \in C
        <5>1. ReportAt(n - 1, q, x).report = x
          BY DEF ReportAt
        <5>. QED
          BY ONLY <4>1, <5>1, C = {s.report : s \in told}
      <4>. QED
        BY <4>1
    <3>2. z.children \in [1 .. N -> C]
      BY ONLY <3>1, z.children = [k \in 1 .. N |-> z.children[k]]
    <3>3. z.rule = r.id /\ Honest(z)
      BY ONLY <2>1, <2>2 DEF ToldOne
    <3>. QED
      BY <2>3, <2>4, <3>2, <3>3
  <2>5. CASE ~(IsGroup(r) /\ n > 0)
    <3>1. z.children = <<>> /\ z.rule = r.id /\ Honest(z)
      BY ONLY <2>1, <2>2, <2>5 DEF ToldOne
    <3>. QED
      BY <2>3, <2>5, <3>1
  <2>. QED
    BY <2>4, <2>5
<1>3. \A a, b : Walked(y, D, 0, a) = Walked(y, D, 0, b)
  BY DEF Walked
<1>. DEFINE list == CHOOSE f : IsWalk(f, y, D, D)
<1>4. IsWalk(list, y, D, D)
  BY <1>3, WalkExists
<1>5. Rules(y) = list[D][y]
  BY DEF Rules, WalkTo, IsWalk, Walked
<1>. HIDE DEF list
<1>. PICK within : within = [d \in 0 .. D |-> Below(y, d, Children)]
  OBVIOUS
<1>6. \A d \in 0 .. D : within[d] = Below(y, d, Children)
  OBVIOUS
<1>7. within[0] = {y} /\ \A d \in 0 .. D : d < D => within[d + 1] = Unfolded(within[d])
  <2>1. ASSUME NEW d \in 0 .. D, d < D PROVE within[d + 1] = Unfolded(within[d])
    <3>1. d + 1 \in 0 .. D /\ d \in Nat
      BY <2>1
    <3>. QED
      BY <1>6, <3>1, WithinIs
  <2>2. within[0] = {y}
    BY <1>6, WithinIs
  <2>. QED
    BY <2>1, <2>2
<1>8. ASSUME NEW n \in 0 .. D, NEW z \in within[D - n]
      PROVE  /\ n = 0 => list[n][z] = <<z>>
             /\ n # 0 => list[n][z] = <<z>> \o FlattenSeq([i \in DOMAIN Children(z) |-> list[n - 1][Children(z)[i]]])
  <2>1. D - n \in 0 .. D
    OBVIOUS
  <2>2. list[n] = Walked(y, D, n, list[n - 1])
    BY <1>4 DEF IsWalk
  <2>3. list[n][z] = <<z>> \o IF n = 0 THEN <<>>
                          ELSE FlattenSeq([i \in DOMAIN Children(z) |-> list[n - 1][Children(z)[i]]])
    BY <1>6, <2>1, <2>2 DEF Walked
  <2>4. <<z>> \o <<>> = <<z>>
    OBVIOUS
  <2>. QED
    BY ONLY <2>3, <2>4
<1>. DEFINE Found(n, r, z) == /\ list[n][z] \in Seq(C)
                              /\ \A q \in ToSet(walk[n][r]) : \E w \in ToSet(list[n][z]) : w.rule = q.id
                              /\ Matched(list[n][z], walk[n][r], z)
<1>9. ASSUME NEW n \in 0 .. D, NEW r \in below[D - n], NEW z \in within[D - n], ReportAt(n, r, z) \in told,
             ~(IsGroup(r) /\ n > 0)
      PROVE  Found(n, r, z)
  <2>1. walk[n][r] = <<r>>
    <3>1. Steps(walk, below, D, n, r)
      BY <1>1
    <3>. QED
      BY ONLY <1>9, <3>1 DEF Steps
  <2>2. z \in C /\ z.rule = r.id /\ z.children = <<>> /\ Honest(z)
    BY <1>2, <1>9
  <2>3. list[n][z] = <<z>>
    <3>1. CASE n # 0
      <4>. PICK none : none = [i \in 1 .. 0 |-> list[n - 1][Children(z)[i]]]
        OBVIOUS
      <4>1. DOMAIN Children(z) = 1 .. 0
        BY <2>2 DEF Children
      <4>2. FlattenSeq(none) = <<>>
        <5>1. none = <<>>
          OBVIOUS
        <5>. QED
          BY <5>1 DEF FlattenSeq
      <4>3. list[n][z] = <<z>> \o FlattenSeq([i \in DOMAIN Children(z) |-> list[n - 1][Children(z)[i]]])
        BY <1>8, <3>1
      <4>4. list[n][z] = <<z>> \o <<>>
        BY ONLY <4>1, <4>2, <4>3, none = [i \in 1 .. 0 |-> list[n - 1][Children(z)[i]]]
      <4>. QED
        BY ONLY <4>4
    <3>. QED
      BY <1>8, <3>1
  <2>4. ToSet(<<r>>) = {r}
    BY ONLY DEF ToSet
  <2>5. ToSet(<<z>>) = {z}
    BY ONLY DEF ToSet
  <2>6. <<z>> \in Seq(C)
    BY <2>2
  <2>7. Matched(<<z>>, <<r>>, z)
    BY ONLY <2>2, OneMatched
  <2>. QED
    BY <2>1, <2>2, <2>3, <2>4, <2>5, <2>6, <2>7
<1>. DEFINE T == {n \in 0 .. D : \A r \in below[D - n] : \A z \in within[D - n] :
                                    ReportAt(n, r, z) \in told => Found(n, r, z)}
<1>10. 0 \in T
  <2>1. 0 \in 0 .. D /\ ~(0 > 0)
    OBVIOUS
  <2>. HIDE DEF Found
  <2>. QED
    BY <1>9, <2>1
<1>11. ASSUME NEW n \in 0 .. D, n < D, n \in T PROVE n + 1 \in T
  <2>. PICK m \in 1 .. D : m = n + 1
    BY <1>11
  <2>0. m \in 0 .. D /\ m > 0 /\ m # 0 /\ m - 1 = n
    OBVIOUS
  <2>1. ASSUME NEW r \in below[D - m], NEW z \in within[D - m], ReportAt(m, r, z) \in told, IsGroup(r)
        PROVE  Found(m, r, z)
    <3>. PICK N \in Nat : /\ Len(r.of) = N /\ r.of \in [1 .. N -> below[D - (m - 1)]]
                          /\ walk[m][r] = <<r>> \o FlattenSeq([i \in 1 .. N |-> walk[m - 1][r.of[i]]])
                          /\ walk[m][r] \in Seq(below[D])
      <4>1. Steps(walk, below, D, m, r)
        BY <1>1, <2>0
      <4>. QED
        BY ONLY <2>0, <2>1, <4>1 DEF Steps
    <3>0. z \in C /\ z.rule = r.id /\ Honest(z)
      BY <1>2, <2>0, <2>1
    <3>. PICK kids : kids = z.children
      OBVIOUS
    <3>1. kids \in [1 .. N -> C] /\ \A k \in 1 .. N : ReportAt(n, r.of[k], kids[k]) \in told
      BY <1>2, <2>0, <2>1
    <3>2. \A k \in 1 .. N : r.of[k] \in below[D - n]
      BY <2>0
    <3>3. \A k \in 1 .. N : kids[k] \in within[D - n]
      <4>. PICK d \in 0 .. D : d = D - m
        OBVIOUS
      <4>0. d + 1 = D - n /\ d < D
        OBVIOUS
      <4>1. within[d + 1] = Unfolded(within[d]) /\ z \in within[d]
        BY <1>7, <4>0
      <4>2. ToSet(Children(z)) \subseteq within[d + 1]
        BY ONLY <4>1 DEF Unfolded
      <4>3. \A k \in 1 .. N : kids[k] \in ToSet(Children(z))
        BY <3>1 DEF ToSet, Children
      <4>. QED
        BY <4>0, <4>2, <4>3
    <3>4. \A k \in 1 .. N : Found(n, r.of[k], kids[k])
      <4>. HIDE DEF Found
      <4>. QED
        BY <1>11, <3>1, <3>2, <3>3
    <3>. PICK ours : ours = [k \in 1 .. N |-> walk[n][r.of[k]]]
      OBVIOUS
    <3>. PICK lists : lists = [k \in 1 .. N |-> list[n][kids[k]]]
      OBVIOUS
    <3>5. ours \in [1 .. N -> Seq(below[D])]
      <4>1. \A k \in 1 .. N : walk[n][r.of[k]] \in Seq(below[D])
        <5>1. \A k \in 1 .. N : Steps(walk, below, D, n, r.of[k])
          BY <1>1, <3>2
        <5>. QED
          BY ONLY <5>1 DEF Steps
      <4>. QED
        BY ONLY <4>1, ours = [k \in 1 .. N |-> walk[n][r.of[k]]]
    <3>6. lists \in [1 .. N -> Seq(C)]
      <4>1. \A k \in 1 .. N : list[n][kids[k]] \in Seq(C)
        BY <3>4
      <4>. QED
        BY ONLY <4>1, lists = [k \in 1 .. N |-> list[n][kids[k]]]
    <3>. PICK a, b : a = FlattenSeq(ours) /\ b = FlattenSeq(lists)
      OBVIOUS
    <3>7. a \in Seq(below[D]) /\ \A x : x \in ToSet(a) <=> \E k \in 1 .. N : x \in ToSet(ours[k])
      BY <3>5, Flattened, FlatHolds
    <3>8. b \in Seq(C) /\ \A x : x \in ToSet(b) <=> \E k \in 1 .. N : x \in ToSet(lists[k])
      BY <3>6, Flattened, FlatHolds
    <3>9. walk[m][r] = <<r>> \o a
      BY ONLY <2>0, walk[m][r] = <<r>> \o FlattenSeq([i \in 1 .. N |-> walk[m - 1][r.of[i]]]),
              ours = [k \in 1 .. N |-> walk[n][r.of[k]]], a = FlattenSeq(ours)
    <3>10. list[m][z] = <<z>> \o b
      <4>1. list[m][z] = <<z>> \o FlattenSeq([i \in DOMAIN Children(z) |-> list[m - 1][Children(z)[i]]])
        BY <1>8, <2>0
      <4>2. Children(z) = kids /\ DOMAIN kids = 1 .. N
        BY <3>1 DEF Children
      <4>. QED
        BY ONLY <2>0, <4>1, <4>2, lists = [k \in 1 .. N |-> list[n][kids[k]]], b = FlattenSeq(lists)
    <3>11. ToSet(walk[m][r]) = {r} \cup ToSet(a)
      <4>1. ToSet(<<r>>) = {r}
        BY DEF ToSet
      <4>. PICK S : S = below[D] \cup {r}
        OBVIOUS
      <4>2. <<r>> \in Seq(S)
        OBVIOUS
      <4>3. a \in Seq(S)
        <5>1. Len(a) \in Nat /\ a = [k \in 1 .. Len(a) |-> a[k]] /\ \A k \in 1 .. Len(a) : a[k] \in below[D]
          BY ONLY <3>7
        <5>2. \A k \in 1 .. Len(a) : a[k] \in S
          BY ONLY <5>1, S = below[D] \cup {r}
        <5>. QED
          BY ONLY <5>1, <5>2, ListOf
      <4>. PICK one : one = <<r>>
        OBVIOUS
      <4>4. one \in Seq(S) /\ ToSet(one) = {r} /\ walk[m][r] = one \o a
        BY ONLY <3>9, <4>1, <4>2, one = <<r>>
      <4>5. ToSet(one \o a) = ToSet(one) \cup ToSet(a)
        BY ONLY <4>3, <4>4, BothHold
      <4>. QED
        BY ONLY <4>4, <4>5
    <3>12. ToSet(list[m][z]) = {z} \cup ToSet(b) /\ list[m][z] \in Seq(C)
      <4>1. ToSet(<<z>>) = {z}
        BY DEF ToSet
      <4>2. <<z>> \in Seq(C)
        BY <3>0
      <4>. PICK one : one = <<z>>
        OBVIOUS
      <4>3. one \in Seq(C) /\ ToSet(one) = {z} /\ list[m][z] = one \o b
        BY ONLY <3>10, <4>1, <4>2, one = <<z>>
      <4>4. ToSet(one \o b) = ToSet(one) \cup ToSet(b)
        BY ONLY <3>8, <4>3, BothHold
      <4>5. one \o b \in Seq(C)
        BY ONLY <3>8, <4>3
      <4>. QED
        BY ONLY <4>3, <4>4, <4>5
    <3>13. ASSUME NEW q \in ToSet(walk[m][r]) PROVE \E w \in ToSet(list[m][z]) : w.rule = q.id
      <4>1. CASE q = r
        BY <3>0, <3>12, <4>1
      <4>2. CASE q \in ToSet(a)
        <5>. PICK k \in 1 .. N : q \in ToSet(ours[k])
          BY <3>7, <4>2
        <5>1. q \in ToSet(walk[n][r.of[k]])
          OBVIOUS
        <5>. PICK w \in ToSet(list[n][kids[k]]) : w.rule = q.id
          BY <3>4, <5>1
        <5>2. w \in ToSet(lists[k])
          OBVIOUS
        <5>3. w \in ToSet(b)
          BY <3>8, <5>2
        <5>. QED
          BY <3>12, <5>3
      <4>. QED
        BY <3>11, <4>1, <4>2
    <3>14. Matched(list[m][z], walk[m][r], z)
      <4>1. \A k \in 1 .. N : Matched(lists[k], ours[k], kids[k])
        BY <3>4
      <4>2. r \in below[D]
        BY <1>1, <2>0 DEF Strolls
      <4>3. Matched(<<z>> \o b, <<r>> \o a, z)
        BY ONLY <3>0, <3>1, <3>5, <3>6, <4>1, <4>2, GroupMatched, kids = z.children, N \in Nat,
                a = FlattenSeq(ours), b = FlattenSeq(lists)
      <4>. QED
        BY ONLY <3>9, <3>10, <4>3
    <3>. QED
      BY <3>12, <3>13, <3>14
  <2>2. ASSUME NEW r \in below[D - m], NEW z \in within[D - m], ReportAt(m, r, z) \in told PROVE Found(m, r, z)
    <3>. HIDE DEF Found
    <3>. QED
      BY <1>9, <2>0, <2>1, <2>2
  <2>. HIDE DEF Found
  <2>. QED
    BY ONLY <2>0, <2>2, m = n + 1
<1>12. \A n \in 0 .. D : n \in T
  <2>. HIDE DEF T
  <2>. QED
    BY <1>10, <1>11, UpTo
<1>13. Found(D, root, y)
  <2>1. D \in 0 .. D /\ D - D = 0
    OBVIOUS
  <2>2. root \in below[D - D] /\ y \in within[D - D]
    BY <1>1, <1>7, <2>1
  <2>. HIDE DEF Found
  <2>. QED
    BY <1>12, <2>1, <2>2
<1>14. \A w \in ToSet(Rules(y)) : w \in C
  <2>. PICK rs : rs = Rules(y)
    OBVIOUS
  <2>1. rs \in Seq(C)
    BY <1>5, <1>13
  <2>2. \A k \in DOMAIN rs : rs[k] \in C
    BY ONLY <2>1
  <2>. QED
    BY <2>2 DEF ToSet
<1>15. \A r \in ToSet(Walk(root)) : \E z \in ToSet(Rules(y)) : z.rule = r.id
  BY <1>1, <1>5, <1>13
<1>16. Matched(Rules(y), Walk(root), y) /\ Rules(y) \in Seq(C)
  BY <1>1, <1>5, <1>13
<1>. QED
  BY <1>14, <1>15, <1>16

-----------------------------------------------------------------------------
(* A course rule is met by cards that earn it.                              *)

CardOf(cards, e) == CHOOSE c \in ToSet(cards) : c.entry = e
EarnedBy(q, r, one) == {e \in ToSet(one.filledBy) \ ToSet(one.claimedBy) :
                          /\ CardOf(q.cards, e).code # None
                          /\ FilterMatch(r.filter, CardOf(q.cards, e).code, q.facts) # "no"
                          /\ ~Barred(CardOf(q.cards, e), r)}
LEMMA CardIs ==
  ASSUME NEW cards, Apart(cards), NEW i \in DOMAIN cards
  PROVE  CardOf(cards, cards[i].entry) = cards[i]
<1>. PICK c : c = CardOf(cards, cards[i].entry)
  OBVIOUS
<1>1. cards[i] \in ToSet(cards)
  BY DEF ToSet
<1>2. c \in ToSet(cards) /\ c.entry = cards[i].entry
  BY <1>1 DEF CardOf
<1>. PICK j \in DOMAIN cards : c = cards[j]
  BY <1>2 DEF ToSet
<1>3. j = i
  BY <1>2 DEF Apart
<1>. QED
  BY <1>3

\* The free of the n cards a rule was given are the ones not there by claim.
Fills(ctx, r, M, one, n, free) ==
    /\ Assigned(ctx, r) \in [1 .. n -> 1 .. M]
    /\ \A i, j \in 1 .. n : Assigned(ctx, r)[i] = Assigned(ctx, r)[j] => i = j
    /\ \A k \in 1 .. n : k \in free <=> Assigned(ctx, r)[k] \notin ctx.claimed
    /\ ToSet(one.filledBy) = {ctx.cards[Assigned(ctx, r)[k]].entry : k \in 1 .. n}
    /\ ToSet(one.claimedBy) = {ctx.cards[Assigned(ctx, r)[k]].entry : k \in (1 .. n) \ free}
    /\ one.outcome = "met" <=> Cardinality(free) >= r.semesters
LEMMA FilledBy ==
  ASSUME NEW ctx, NEW r, NEW M \in Nat, Once(Assigned(ctx, r), M), NEW one, one = CourseReport(ctx, r)
  PROVE  \E n \in Nat : \E free \in SUBSET (1 .. n) : Fills(ctx, r, M, one, n, free)
<1>. PICK filled : filled = Assigned(ctx, r)
  OBVIOUS
<1>. PICK n \in Nat : /\ filled \in [1 .. n -> 1 .. M] /\ Len(filled) = n
                      /\ \A i, j \in 1 .. n : filled[i] = filled[j] => i = j
  BY DEF Once
<1>. PICK claimed \in SUBSET (1 .. n) : claimed = {k \in DOMAIN filled : filled[k] \in ctx.claimed}
  OBVIOUS
<1>. PICK free \in SUBSET (1 .. n) : free = DOMAIN filled \ claimed
  OBVIOUS
<1>. PICK matched, there : matched = Chosen(filled, free) /\ there = Chosen(filled, claimed)
  OBVIOUS
<1>1. /\ one.filledBy = EntriesAt(ctx, filled) /\ one.claimedBy = EntriesAt(ctx, there)
      /\ one.outcome = Graded(Len(matched) >= r.semesters, filled # <<>>)
  BY DEF CourseReport, Report
<1>2. Gathers(matched, filled, free) /\ Gathers(there, filled, claimed)
  BY ChosenIs
<1>3. Len(matched) = Cardinality(free)
  BY <1>2 DEF Gathers
<1>4. one.outcome = "met" <=> Cardinality(free) >= r.semesters
  BY <1>1, <1>3 DEF Graded
<1>5. ToSet(one.filledBy) = {ctx.cards[filled[k]].entry : k \in 1 .. n}
  <2>1. DOMAIN filled = 1 .. n
    OBVIOUS
  <2>. QED
    BY ONLY <1>1, <2>1 DEF EntriesAt, ToSet
<1>6. ToSet(there) = {filled[k] : k \in claimed} /\ DOMAIN there = 1 .. Len(there)
  <2>1. there \in Seq({filled[k] : k \in claimed})
    BY ONLY <1>2 DEF Gathers
  <2>2. DOMAIN there = 1 .. Len(there)
    BY ONLY <2>1
  <2>3. /\ \A k \in claimed : PlaceOf(claimed, k) \in 1 .. Len(there) /\ there[PlaceOf(claimed, k)] = filled[k]
        /\ \A j \in 1 .. Len(there) : \E k \in claimed : there[j] = filled[k]
    BY ONLY <1>2 DEF Gathers
  <2>4. ToSet(there) = {there[j] : j \in 1 .. Len(there)}
    BY ONLY <2>2 DEF ToSet
  <2>5. ToSet(there) = {filled[k] : k \in claimed}
    BY ONLY <2>3, <2>4
  <2>. QED
    BY <2>2, <2>5
<1>7. ToSet(one.claimedBy) = {ctx.cards[filled[k]].entry : k \in claimed}
  <2>1. ToSet(one.claimedBy) = {ctx.cards[there[j]].entry : j \in DOMAIN there}
    BY ONLY <1>1 DEF EntriesAt, ToSet
  <2>2. ToSet(there) = {there[j] : j \in DOMAIN there}
    BY ONLY DEF ToSet
  <2>. PICK S : S = ToSet(there)
    OBVIOUS
  <2>3. ToSet(one.claimedBy) = {ctx.cards[i].entry : i \in S}
    BY ONLY <2>1, <2>2, S = ToSet(there)
  <2>4. S = {filled[k] : k \in claimed}
    BY <1>6
  <2>. QED
    BY ONLY <2>3, <2>4
<1>8. claimed = (1 .. n) \ free
  OBVIOUS
<1>9. \A k \in 1 .. n : k \in free <=> filled[k] \notin ctx.claimed
  OBVIOUS
<1>10. filled \in [1 .. n -> 1 .. M] /\ \A i, j \in 1 .. n : filled[i] = filled[j] => i = j
  OBVIOUS
<1>11. Fills(ctx, r, M, one, n, free)
  BY ONLY <1>4, <1>5, <1>7, <1>8, <1>9, <1>10, filled = Assigned(ctx, r) DEF Fills
<1>. QED
  BY <1>11

LEMMA CourseEarned ==
  ASSUME NEW ctx, NEW q, NEW M \in Nat, q.cards = ctx.cards, DOMAIN ctx.cards = 1 .. M, Apart(ctx.cards),
         NEW r, Once(Assigned(ctx, r), M), \A i \in ToSet(Assigned(ctx, r)) : i \in ctx.claimed \/ Earns(q, r, i),
         NEW one, one = CourseReport(ctx, r)
  PROVE  one.outcome = "met" <=> Cardinality(EarnedBy(q, r, one)) >= r.semesters
<1>. PICK filled, cards : filled = Assigned(ctx, r) /\ cards = ctx.cards
  OBVIOUS
<1>0. PICK n \in Nat : \E free \in SUBSET (1 .. n) : Fills(ctx, r, M, one, n, free)
  BY FilledBy
<1>. PICK free \in SUBSET (1 .. n) : Fills(ctx, r, M, one, n, free)
  BY <1>0
<1>1. /\ filled \in [1 .. n -> 1 .. M] /\ \A i, j \in 1 .. n : filled[i] = filled[j] => i = j
      /\ \A k \in 1 .. n : k \in free <=> filled[k] \notin ctx.claimed
      /\ ToSet(one.filledBy) = {cards[filled[k]].entry : k \in 1 .. n}
      /\ ToSet(one.claimedBy) = {cards[filled[k]].entry : k \in (1 .. n) \ free}
      /\ one.outcome = "met" <=> Cardinality(free) >= r.semesters
  BY DEF Fills
<1>. PICK entry : entry = [k \in 1 .. n |-> cards[filled[k]].entry]
  OBVIOUS
<1>2. \A k \in 1 .. n : entry[k] = cards[filled[k]].entry /\ filled[k] \in 1 .. M
  BY <1>1
<1>3. \A j, k \in 1 .. n : entry[j] = entry[k] => j = k
  <2>1. ASSUME NEW j \in 1 .. n, NEW k \in 1 .. n, entry[j] = entry[k] PROVE j = k
    <3>1. filled[j] \in DOMAIN cards /\ filled[k] \in DOMAIN cards /\ cards[filled[j]].entry = cards[filled[k]].entry
      BY <1>2, <2>1
    <3>2. filled[j] = filled[k]
      BY <3>1 DEF Apart
    <3>. QED
      BY <1>1, <3>2
  <2>. QED
    BY <2>1
<1>4. ToSet(one.filledBy) \ ToSet(one.claimedBy) = {entry[k] : k \in free}
  <2>1. ToSet(one.filledBy) = {entry[k] : k \in 1 .. n} /\ ToSet(one.claimedBy) = {entry[k] : k \in (1 .. n) \ free}
    BY <1>1, <1>2
  <2>2. free \subseteq 1 .. n
    OBVIOUS
  <2>. QED
    BY ONLY <1>3, <2>1, <2>2
<1>5. ASSUME NEW k \in free
      PROVE  /\ CardOf(cards, entry[k]).code # None
             /\ FilterMatch(r.filter, CardOf(cards, entry[k]).code, q.facts) # "no"
             /\ ~Barred(CardOf(cards, entry[k]), r)
  <2>. PICK i \in DOMAIN cards : i = filled[k]
    BY <1>2
  <2>1. CardOf(cards, entry[k]) = cards[i]
    BY <1>2, CardIs
  <2>2. i \in ToSet(filled) /\ i \notin ctx.claimed
    BY <1>1 DEF ToSet
  <2>3. Earns(q, r, i)
    BY <2>2
  <2>. QED
    BY <2>1, <2>3 DEF Earns
<1>6. EarnedBy(q, r, one) = {entry[k] : k \in free}
  BY ONLY <1>4, <1>5, cards = ctx.cards, q.cards = ctx.cards DEF EarnedBy
<1>7. Cardinality({entry[k] : k \in free}) = Cardinality(free)
  <2>1. IsFiniteSet(free)
    <3>1. IsFiniteSet(1 .. n)
      BY FS_Interval
    <3>. QED
      BY <3>1, FS_Subset
  <2>. PICK f : f = [k \in free |-> entry[k]]
    OBVIOUS
  <2>. PICK T : T = {entry[k] : k \in free}
    OBVIOUS
  <2>3. f \in [free -> T] /\ \A k \in free : f[k] = entry[k]
    OBVIOUS
  <2>4. \A j, k \in free : f[j] = f[k] => j = k
    BY <1>3, <2>3
  <2>5. \A y \in T : \E k \in free : f[k] = y
    BY <2>3
  <2>6. f \in Bijection(free, T)
    BY ONLY <2>3, <2>4, <2>5 DEF Bijection, Injection, Surjection, IsInjective
  <2>2. f \in Bijection(free, {entry[k] : k \in free})
    BY <2>6
  <2>. QED
    BY <2>1, <2>2, FS_Bijection DEF ExistsBijection
<1>. QED
  BY <1>1, <1>6, <1>7

\* The rules whose cards count once, and what a program's report says of them.
Exclusive(program) == {n \in ToSet(Nodes(program)) : n.kind = "course" \/ Additional(n)}
EarnedIn(q, program, rep) ==
    /\ \A r, s \in Exclusive(program) : r.id # s.id =>
          ToSet(ReportOf(rep.root, r.id).filledBy) \cap ToSet(ReportOf(rep.root, s.id).filledBy) = {}
    /\ \A r \in CourseRules(program) : ReportOf(rep.root, r.id).outcome = "met" <=>
          Cardinality(EarnedBy(q, r, ReportOf(rep.root, r.id))) >= r.semesters
LEMMA ProgramEarned ==
  ASSUME NEW p, NEW program, ProgramOK(program), MaxDepth \in Nat,
         NEW cards, NEW M \in Nat, DOMAIN cards = 1 .. M, Len(cards) = M, Apart(cards), NEW facts
  PROVE  EarnedIn(Placement(Slots(program), cards, facts), program, ProgramReport(p, program, cards, facts))
<1>. PICK D \in Nat : D = MaxDepth
  OBVIOUS
<1>. PICK slots : slots = Slots(program)
  OBVIOUS
<1>. PICK q : q = Placement(slots, cards, facts)
  OBVIOUS
<1>. PICK ctx : ctx = Context(p, q, MatchCards(q))
  OBVIOUS
<1>. PICK root : root = program.root
  OBVIOUS
<1>. PICK rules : rules = Below(root, D, Under)
  OBVIOUS
<1>. PICK used : used = Used(ctx)
  OBVIOUS
<1>. PICK x : x = EvalAt(ctx, root)[<<root, used>>]
  OBVIOUS
<1>. PICK rep : rep = ProgramReport(p, program, cards, facts)
  OBVIOUS
<1>. PICK m \in Nat : /\ DOMAIN slots = 1 .. m
                      /\ \A s \in 1 .. m : slots[s] \in ToSet(Nodes(program)) /\ slots[s].kind = "course"
  BY SlotsAre
<1>1. /\ RulesOK(root) /\ Nodes(program) = Walk(root)
      /\ \A r, s \in rules : r.id = s.id => r = s
  BY DEF ProgramOK, Nodes
<1>2. \A r \in ToSet(Nodes(program)) : r \in rules
  <2>. PICK nodes : nodes = Nodes(program)
    OBVIOUS
  <2>1. nodes \in Seq(rules)
    BY SlotsAre
  <2>2. \A k \in DOMAIN nodes : nodes[k] \in rules
    BY ONLY <2>1
  <2>. QED
    BY <2>2 DEF ToSet
<1>3. q.slots = slots /\ q.cards = cards /\ q.facts = facts
  BY PinsAre
<1>4. ctx.cards = cards /\ ctx.assigned = MatchCards(q) /\ ctx.claimed = Claimed(q)
  BY <1>3 DEF Context
<1>5. rep.root = x.report
  BY DEF ProgramReport, PlacedReport, Declared, Tree
<1>6. used \in SUBSET EntriesIn(ctx)
  <2>1. ctx.assigned = AssignedBy(q, MatchSlots(Candidates(q, FreeMatches(q, "yes")), q.cards)) /\ ctx.cards = q.cards
    BY <1>3, <1>4 DEF MatchCards
  <2>2. DOMAIN q.cards = 1 .. M
    BY <1>3
  <2>. QED
    BY ONLY <2>1, <2>2, UsedAre, used = Used(ctx), M \in Nat
<1>7. Gives(q, ctx, rules, M)
  BY <1>1, <1>2, <1>4, AssignedAre
<1>8. PICK told : ReportAt(D, root, x.report) \in told /\ Tells(x, told, ctx, rules, used)
  <2>1. ToldOf(x, ctx, rules, D, root, used)
    BY <1>1, <1>4, <1>6, TreeTold
  <2>. QED
    BY ONLY <2>1 DEF ToldOf
<1>9. ToldAll(told, ctx, rules) /\ Spends(told, x.used \ used)
  BY ONLY <1>8 DEF Tells
<1>10. /\ \A z \in ToSet(Rules(rep.root)) : \E t \in told : z = t.report
       /\ \A r \in ToSet(Nodes(program)) : \E z \in ToSet(Rules(rep.root)) : z.rule = r.id
  BY <1>1, <1>5, <1>8, <1>9, ReportsFound
<1>11. ASSUME NEW r \in ToSet(Nodes(program))
       PROVE  \E t \in told : t.rule = r /\ t.report = ReportOf(rep.root, r.id)
  <2>. PICK z : z = ReportOf(rep.root, r.id)
    OBVIOUS
  <2>1. z \in ToSet(Rules(rep.root)) /\ z.rule = r.id
    BY <1>10 DEF ReportOf
  <2>. PICK t \in told : z = t.report
    BY <1>10, <2>1
  <2>2. ToldOne(t, ctx, rules, told)
    BY <1>9 DEF ToldAll
  <2>3. t.rule \in rules /\ t.report.rule = t.rule.id
    BY ONLY <2>2 DEF ToldOne
  <2>4. t.rule = r
    BY <1>1, <1>2, <2>1, <2>3
  <2>. QED
    BY <2>4
<1>12. ASSUME NEW r \in ToSet(Nodes(program)), r.kind = "course"
       PROVE  ReportOf(rep.root, r.id) = CourseReport(ctx, r)
  <2>. PICK t \in told : t.rule = r /\ t.report = ReportOf(rep.root, r.id)
    BY <1>11
  <2>1. ToldOne(t, ctx, rules, told)
    BY <1>9 DEF ToldAll
  <2>. QED
    BY <1>12, <2>1 DEF ToldOne
<1>13. ASSUME NEW r \in CourseRules(program)
       PROVE  ReportOf(rep.root, r.id).outcome = "met" <=>
                 Cardinality(EarnedBy(q, r, ReportOf(rep.root, r.id))) >= r.semesters
  <2>1. r \in ToSet(Nodes(program)) /\ r.kind = "course"
    BY DEF CourseRules
  <2>. PICK one : one = ReportOf(rep.root, r.id)
    OBVIOUS
  <2>2. one = CourseReport(ctx, r)
    BY <1>12, <2>1
  <2>3. Once(Assigned(ctx, r), M) /\ \A i \in ToSet(Assigned(ctx, r)) : i \in ctx.claimed \/ Earns(q, r, i)
    BY <1>2, <1>7, <2>1 DEF Gives
  <2>4. q.cards = ctx.cards /\ DOMAIN ctx.cards = 1 .. M /\ Apart(ctx.cards)
    BY <1>3, <1>4
  <2>5. one.outcome = "met" <=> Cardinality(EarnedBy(q, r, one)) >= r.semesters
    BY ONLY <2>2, <2>3, <2>4, CourseEarned, M \in Nat
  <2>. QED
    BY <2>5
<1>. DEFINE EntriesFor(r) == {cards[i].entry : i \in ToSet(Assigned(ctx, r))}
<1>14. ASSUME NEW r \in ToSet(Nodes(program)), r.kind = "course"
       PROVE  /\ ToSet(ReportOf(rep.root, r.id).filledBy) = EntriesFor(r) /\ EntriesFor(r) \subseteq used
              /\ ToSet(Assigned(ctx, r)) \subseteq 1 .. M
  <2>. PICK filled : filled = Assigned(ctx, r)
    OBVIOUS
  <2>1. ReportOf(rep.root, r.id).filledBy = EntriesAt(ctx, filled)
    <3>. PICK one : one = CourseReport(ctx, r)
      OBVIOUS
    <3>1. one.filledBy = EntriesAt(ctx, filled)
      BY ONLY one = CourseReport(ctx, r), filled = Assigned(ctx, r) DEF CourseReport, Report
    <3>2. ReportOf(rep.root, r.id) = one
      BY <1>12, <1>14
    <3>. QED
      BY <3>1, <3>2
  <2>2. ToSet(EntriesAt(ctx, filled)) = EntriesFor(r)
    BY <1>4 DEF EntriesAt, ToSet
  <2>3. EntriesFor(r) \subseteq used
    <3>1. CASE r.id \in DOMAIN ctx.assigned
      <4>1. filled = ctx.assigned[r.id]
        BY <3>1 DEF Assigned
      <4>2. ToSet(EntriesAt(ctx, filled)) \subseteq used
        BY <3>1, <4>1 DEF Used
      <4>. QED
        BY <2>2, <4>2
    <3>2. CASE r.id \notin DOMAIN ctx.assigned
      <4>1. filled = <<>>
        BY <3>2 DEF Assigned
      <4>2. ToSet(filled) = {}
        BY <4>1 DEF ToSet
      <4>. QED
        BY <4>2
    <3>. QED
      BY <3>1, <3>2
  <2>4. ToSet(filled) \subseteq 1 .. M
    <3>1. Once(filled, M)
      BY <1>2, <1>7 DEF Gives
    <3>. QED
      BY ONLY <3>1 DEF Once, ToSet
  <2>. QED
    BY <2>1, <2>2, <2>3, <2>4
<1>15. ASSUME NEW r \in ToSet(Nodes(program)), Additional(r)
       PROVE  ToSet(ReportOf(rep.root, r.id).filledBy) \subseteq x.used \ used
  <2>. PICK t \in told : t.rule = r /\ t.report = ReportOf(rep.root, r.id)
    BY <1>11
  <2>. QED
    BY <1>9, <1>15 DEF Spends
<1>16. ASSUME NEW r \in Exclusive(program), NEW s \in Exclusive(program), r.id # s.id
       PROVE  ToSet(ReportOf(rep.root, r.id).filledBy) \cap ToSet(ReportOf(rep.root, s.id).filledBy) = {}
  <2>. PICK a, b : a = ToSet(ReportOf(rep.root, r.id).filledBy) /\ b = ToSet(ReportOf(rep.root, s.id).filledBy)
    OBVIOUS
  <2>0. r \in ToSet(Nodes(program)) /\ s \in ToSet(Nodes(program))
        /\ (r.kind = "course" \/ Additional(r)) /\ (s.kind = "course" \/ Additional(s))
    BY DEF Exclusive
  <2>1. CASE r.kind = "course" /\ s.kind = "course"
    <3>1. ToSet(Assigned(ctx, r)) \cap ToSet(Assigned(ctx, s)) = {}
      BY <1>2, <1>7, <1>16, <2>0 DEF Gives
    <3>2. /\ a = EntriesFor(r) /\ b = EntriesFor(s)
          /\ ToSet(Assigned(ctx, r)) \subseteq 1 .. M /\ ToSet(Assigned(ctx, s)) \subseteq 1 .. M
      <4>. HIDE DEF EntriesFor
      <4>. QED
        BY <1>14, <2>0, <2>1
    <3>3. \A i, j \in 1 .. M : cards[i].entry = cards[j].entry => i = j
      BY DEF Apart
    <3>4. a \cap b = {}
      BY ONLY <3>1, <3>2, <3>3
    <3>. QED
      BY <3>4
  <2>2. CASE r.kind = "course" /\ s.kind # "course"
    <3>1. a \subseteq used /\ b \subseteq x.used \ used
      <4>. HIDE DEF EntriesFor
      <4>. QED
        BY <1>14, <1>15, <2>0, <2>2
    <3>2. a \cap b = {}
      BY ONLY <3>1
    <3>. QED
      BY <3>2
  <2>3. CASE r.kind # "course" /\ s.kind = "course"
    <3>1. b \subseteq used /\ a \subseteq x.used \ used
      <4>. HIDE DEF EntriesFor
      <4>. QED
        BY <1>14, <1>15, <2>0, <2>3
    <3>2. a \cap b = {}
      BY ONLY <3>1
    <3>. QED
      BY <3>2
  <2>4. CASE r.kind # "course" /\ s.kind # "course"
    <3>. PICK t \in told : t.rule = r /\ t.report = ReportOf(rep.root, r.id)
      BY <1>11, <2>0
    <3>. PICK u \in told : u.rule = s /\ u.report = ReportOf(rep.root, s.id)
      BY <1>11, <2>0
    <3>. QED
      BY <1>9, <1>16, <2>0, <2>4 DEF Spends
  <2>. QED
    BY <2>1, <2>2, <2>3, <2>4
<1>17. EarnedIn(q, program, rep)
  BY ONLY <1>13, <1>16 DEF EarnedIn
<1>. QED
  BY <1>17

\* Within one program a card fills at most one course slot or additional-hours
\* rule, and a course rule is met only by enough cards that it accepts and that
\* are not there by claim.
THEOREM MetIsAlwaysEarned == Spec => []MetIsEarned
<1>1. Init => Current
  BY DEF Init, Current
<1>2. Current /\ [Next]_vars => Current'
  BY StepCurrent
<1>3. Current /\ BoardIsOrdered => MetIsEarned
  <2>1. SUFFICES ASSUME Current, BoardIsOrdered, report # None PROVE MetIsEarned
    BY DEF MetIsEarned, Reported
  <2>2. report = Evaluate(Bundle(plan)) /\ Ordered(plan) /\ SidebarOK(plan)
    BY <2>1 DEF Current, BoardIsOrdered, TypeOK, Ordered
  <2>. PICK b : b = Bundle(plan)
    OBVIOUS
  <2>3. b.plan = plan /\ b.facts = Facts
    BY DEF Bundle
  <2>. PICK chosen : chosen = ChosenPrograms(b)
    OBVIOUS
  <2>. PICK n \in Nat : chosen \in [1 .. n -> Programs]
    BY <2>2, ChosenAre
  <2>4. report.programs = [k \in 1 .. n |-> ProgramReport(plan, chosen[k], Cards, Facts)]
    BY <2>2, <2>3 DEF Evaluate, Reports, Summary, Cards
  <2>5. PICK M \in Nat : DOMAIN Cards = 1 .. M /\ Len(Cards) = M /\ Apart(Cards)
    BY <2>2, CardsApart DEF Cards
  <2>6. ASSUME NEW k \in 1 .. n
        PROVE  EarnedIn(Placement(Slots(chosen[k]), Cards, Facts), chosen[k], report.programs[k])
    <3>1. ProgramOK(chosen[k]) /\ MaxDepth \in Nat
      BY RulesAssumption
    <3>2. report.programs[k] = ProgramReport(plan, chosen[k], Cards, Facts)
      BY <2>4
    <3>. QED
      BY ONLY <2>5, <3>1, <3>2, ProgramEarned, M \in Nat
  <2>7. ASSUME NEW program, NEW rep, EarnedIn(Placement(Slots(program), Cards, Facts), program, rep)
        PROVE  LET rules == {r \in ToSet(Nodes(program)) :
                                \/ r.kind = "course"
                                \/ r.kind = "credits" /\ r.scope = "additional"}
                   Held(r) == ReportOf(rep.root, r.id).filledBy
                   Card(e) == CHOOSE c \in ToSet(Cards) : c.entry = e
               IN  /\ \A r, s \in rules : r.id # s.id => ToSet(Held(r)) \cap ToSet(Held(s)) = {}
                   /\ \A r \in CourseRules(program) :
                        LET one == ReportOf(rep.root, r.id)
                            earned == {e \in ToSet(Held(r)) \ ToSet(one.claimedBy) :
                                         /\ Card(e).code # None
                                         /\ FilterMatch(r.filter, Card(e).code, Facts) # "no"
                                         /\ ~Barred(Card(e), r)}
                        IN  one.outcome = "met" <=> Cardinality(earned) >= r.semesters
    <3>. PICK q : q = Placement(Slots(program), Cards, Facts)
      OBVIOUS
    <3>1. q.cards = Cards /\ q.facts = Facts
      BY DEF Placement, WithPins
    <3>2. EarnedIn(q, program, rep)
      BY <2>7
    <3>. QED
      BY ONLY <3>1, <3>2 DEF EarnedIn, EarnedBy, CardOf, Exclusive, Additional
  <2>8. DOMAIN report.programs = 1 .. n
    BY <2>4
  <2>. QED
    BY ONLY <2>6, <2>7, <2>8, b = Bundle(plan), chosen = ChosenPrograms(b) DEF MetIsEarned, Reported
<1>. QED
  BY <1>1, <1>2, <1>3, BoardStaysOrdered, PTL DEF Spec

-----------------------------------------------------------------------------
(* What the student must check is told.                                     *)

\* In a list with no rule twice, to count places is to count reports.
LEMMA AskedOnce ==
  ASSUME NEW S, NEW s \in Seq(S), \A i, j \in 1 .. Len(s) : s[i].rule = s[j].rule => i = j
  PROVE  Ticks(s) = Cardinality({y \in ToSet(s) : Asks(y)})
<1>. PICK n \in Nat : n = Len(s) /\ DOMAIN s = 1 .. n
  OBVIOUS
<1>. PICK A, B : A = Asking(s) /\ B = {y \in ToSet(s) : Asks(y)}
  OBVIOUS
<1>1. A = {i \in 1 .. n : Asks(s[i])} /\ IsFiniteSet(A)
  BY TicksCount DEF Asking
<1>2. ToSet(s) = {s[i] : i \in 1 .. n}
  BY DEF ToSet
<1>. PICK f : f = [i \in A |-> s[i]]
  OBVIOUS
<1>3. \A i \in A : f[i] = s[i] /\ s[i] \in B
  BY <1>1, <1>2
<1>4. \A y \in B : \E i \in A : f[i] = y
  BY <1>1, <1>2
<1>5. \A i, j \in A : f[i] = f[j] => i = j
  BY <1>1
<1>6. f \in Bijection(A, B)
  BY <1>3, <1>4, <1>5 DEF Bijection, Injection, Surjection, IsInjective
<1>. QED
  BY <1>1, <1>6, FS_Bijection DEF ExistsBijection, Ticks

\* The reports of one program are its rules, and its count is of those that ask.
Counted(program, rep) ==
    /\ (\E S : Rules(rep.root) \in Seq(S)) /\ \E S : Nodes(program) \in Seq(S)
    /\ Mirror(Rules(rep.root), Nodes(program))
    /\ rep.progress.selfChecks = Cardinality({y \in ToSet(Rules(rep.root)) : Asks(y)})
LEMMA ProgramCounted ==
  ASSUME NEW p, NEW program, ProgramOK(program), MaxDepth \in Nat,
         NEW cards, NEW M \in Nat, DOMAIN cards = 1 .. M, NEW facts
  PROVE  Counted(program, ProgramReport(p, program, cards, facts))
<1>. PICK D \in Nat : D = MaxDepth
  OBVIOUS
<1>. PICK q : q = Placement(Slots(program), cards, facts)
  OBVIOUS
<1>. PICK ctx : ctx = Context(p, q, MatchCards(q))
  OBVIOUS
<1>. PICK root : root = program.root
  OBVIOUS
<1>. PICK rules : rules = Below(root, D, Under)
  OBVIOUS
<1>. PICK used : used = Used(ctx)
  OBVIOUS
<1>. PICK x : x = EvalAt(ctx, root)[<<root, used>>]
  OBVIOUS
<1>. PICK rep : rep = ProgramReport(p, program, cards, facts)
  OBVIOUS
<1>1. RulesOK(root) /\ Nodes(program) = Walk(root)
  BY DEF ProgramOK, Nodes
<1>2. q.cards = cards
  BY DEF Placement, WithPins
<1>3. ctx.cards = cards /\ ctx.assigned = MatchCards(q)
  BY <1>2 DEF Context
<1>4. used \in SUBSET EntriesIn(ctx)
  <2>1. ctx.assigned = AssignedBy(q, MatchSlots(Candidates(q, FreeMatches(q, "yes")), q.cards)) /\ ctx.cards = q.cards
    BY <1>2, <1>3 DEF MatchCards
  <2>2. DOMAIN q.cards = 1 .. M
    BY <1>2
  <2>. QED
    BY ONLY <2>1, <2>2, UsedAre, used = Used(ctx), M \in Nat
<1>5. PICK told : ReportAt(D, root, x.report) \in told /\ Tells(x, told, ctx, rules, used)
  <2>1. ToldOf(x, ctx, rules, D, root, used)
    BY <1>1, <1>3, <1>4, TreeTold
  <2>. QED
    BY ONLY <2>1 DEF ToldOf
<1>6. ToldAll(told, ctx, rules)
  BY ONLY <1>5 DEF Tells
<1>. PICK list, nodes : list = Rules(x.report) /\ nodes = Nodes(program)
  OBVIOUS
<1>7. /\ \A z \in ToSet(list) : \E t \in told : z = t.report
      /\ Matched(list, nodes, x.report) /\ \E S : list \in Seq(S)
  <2>1. /\ \A z \in ToSet(Rules(x.report)) : \E t \in told : z = t.report
        /\ Matched(Rules(x.report), Walk(root), x.report) /\ \E S : Rules(x.report) \in Seq(S)
    BY <1>1, <1>5, <1>6, ReportsFound
  <2>. QED
    BY ONLY <1>1, <2>1, list = Rules(x.report), nodes = Nodes(program)
<1>8. rep.root = x.report /\ rep.progress.selfChecks = x.report.progress.selfChecks
  <2>. PICK tree : tree = Tree(program, ctx)
    OBVIOUS
  <2>1. tree = x.report
    BY DEF Tree
  <2>2. rep = Declared(p, program, tree)
    BY DEF ProgramReport, PlacedReport
  <2>3. rep.root = tree /\ rep.progress.selfChecks = tree.progress.selfChecks
    BY ONLY <2>2 DEF Declared
  <2>. QED
    BY ONLY <2>1, <2>3
<1>9. nodes \in Seq(rules) /\ Len(nodes) <= MaxCents /\ \A i, j \in DOMAIN nodes : nodes[i].id = nodes[j].id => i = j
  BY SlotsAre DEF ProgramOK, Nodes
<1>10. PICK S : list \in Seq(S)
  BY <1>7
<1>11. Mirror(list, nodes) /\ CountOf(x.report.progress.selfChecks, Ticks(list))
  BY <1>7 DEF Matched
<1>12. Ticks(list) \in Nat /\ Ticks(list) <= MaxCents
  <2>1. Ticks(list) \in Nat /\ Ticks(list) <= Len(list) /\ Len(list) \in Nat
    BY <1>10, TicksCount
  <2>2. Len(list) = Len(nodes)
    BY <1>11 DEF Mirror
  <2>. QED
    BY <1>9, <2>1, <2>2, MaxCentsAssumption
<1>13. x.report.progress.selfChecks = Ticks(list)
  BY ONLY <1>11, <1>12, MaxCentsAssumption DEF CountOf, Capped
<1>14. \A i, j \in 1 .. Len(list) : list[i].rule = list[j].rule => i = j
  <2>1. Len(list) = Len(nodes) /\ \A i \in 1 .. Len(list) : list[i].rule = nodes[i].id
    BY <1>11 DEF Mirror
  <2>2. DOMAIN nodes = 1 .. Len(nodes)
    BY <1>9
  <2>. QED
    BY ONLY <1>9, <2>1, <2>2
<1>15. Ticks(list) = Cardinality({y \in ToSet(list) : Asks(y)})
  BY <1>10, <1>14, AskedOnce
<1>16. Rules(rep.root) = list
  BY <1>8
<1>17. Counted(program, rep)
  BY ONLY <1>8, <1>9, <1>10, <1>11, <1>13, <1>15, <1>16, nodes = Nodes(program) DEF Counted
<1>. QED
  BY <1>17

\* What the student must check is told, once: the reports of a program are its
\* rules in their order, the count shown is of the rules that ask and of no
\* others, and each that is not ticked has a warning of its own.
THEOREM SelfChecksAlwaysTold == Spec => []SelfChecksAreTold
<1>1. Init => Current
  BY DEF Init, Current
<1>2. Current /\ [Next]_vars => Current'
  BY StepCurrent
<1>3. Current /\ BoardIsOrdered => SelfChecksAreTold
  <2>1. SUFFICES ASSUME Current, BoardIsOrdered, report # None PROVE SelfChecksAreTold
    BY DEF SelfChecksAreTold, Reported
  <2>2. report = Evaluate(Bundle(plan)) /\ PlanOK(plan) /\ SidebarOK(plan)
    BY <2>1 DEF Current, BoardIsOrdered, TypeOK
  <2>. PICK b : b = Bundle(plan)
    OBVIOUS
  <2>3. b.plan = plan /\ b.facts = Facts
    BY DEF Bundle
  <2>. PICK chosen : chosen = ChosenPrograms(b)
    OBVIOUS
  <2>. PICK n \in Nat : chosen \in [1 .. n -> Programs]
    BY <2>2, ChosenAre
  <2>4. report.programs = [k \in 1 .. n |-> ProgramReport(plan, chosen[k], Cards, Facts)]
    BY <2>2, <2>3 DEF Evaluate, Reports, Summary, Cards
  <2>5. PICK M \in Nat : DOMAIN Cards = 1 .. M
    BY <2>2, CollectedAre DEF Cards
  <2>6. ASSUME NEW k \in 1 .. n PROVE Counted(chosen[k], report.programs[k])
    <3>1. ProgramOK(chosen[k]) /\ MaxDepth \in Nat
      BY RulesAssumption
    <3>2. report.programs[k] = ProgramReport(plan, chosen[k], Cards, Facts)
      BY <2>4
    <3>. QED
      BY ONLY <2>5, <3>1, <3>2, ProgramCounted, M \in Nat
  <2>7. ASSUME NEW k \in DOMAIN report.programs, NEW r \in ToSet(Rules(report.programs[k].root)),
               r.children = <<>>, r.outcome = "check"
        PROVE  \E w \in report.warnings : w.kind = "self_check" /\ w.body.rule = r.rule
    <3>1. \E cards, rules : report.warnings = PlanWarnings(b, cards, chosen, report.programs, rules)
      BY <2>2 DEF Evaluate, Reports, Summary
    <3>2. SelfChecks(report.programs) \subseteq report.warnings
      BY ONLY <3>1 DEF PlanWarnings
    <3>. PICK w : w = W("self_check", [program |-> report.programs[k].program, rule |-> r.rule])
      OBVIOUS
    <3>3. w \in SelfChecks(report.programs)
      BY <2>7 DEF SelfChecks
    <3>4. w.kind = "self_check" /\ w.body.rule = r.rule
      BY DEF W
    <3>. QED
      BY <3>2, <3>3, <3>4
  <2>8. ASSUME NEW program, NEW rep, Counted(program, rep)
        PROVE  /\ [k \in DOMAIN Rules(rep.root) |-> Rules(rep.root)[k].rule] =
                     [k \in DOMAIN Nodes(program) |-> Nodes(program)[k].id]
               /\ rep.progress.selfChecks =
                     Cardinality({r \in ToSet(Rules(rep.root)) : r.children = <<>> /\ r.outcome \in {"check", "confirmed"}})
    <3>. PICK list, nodes : list = Rules(rep.root) /\ nodes = Nodes(program)
      OBVIOUS
    <3>1. Len(list) = Len(nodes) /\ \A i \in 1 .. Len(list) : list[i].rule = nodes[i].id
      BY <2>8 DEF Counted, Mirror
    <3>2. DOMAIN list = 1 .. Len(list) /\ DOMAIN nodes = 1 .. Len(nodes)
      BY <2>8 DEF Counted
    <3>3. [k \in DOMAIN list |-> list[k].rule] = [k \in DOMAIN nodes |-> nodes[k].id]
      BY ONLY <3>1, <3>2
    <3>4. rep.progress.selfChecks = Cardinality({r \in ToSet(list) : r.children = <<>> /\ r.outcome \in {"check", "confirmed"}})
      BY ONLY <2>8, list = Rules(rep.root) DEF Counted, Asks
    <3>. QED
      BY <3>3, <3>4
  <2>9. DOMAIN report.programs = 1 .. n
    BY <2>4
  <2>. QED
    BY ONLY <2>6, <2>7, <2>8, <2>9, b = Bundle(plan), chosen = ChosenPrograms(b) DEF SelfChecksAreTold, Reported
<1>. QED
  BY <1>1, <1>2, <1>3, BoardStaysOrdered, PTL DEF Spec

-----------------------------------------------------------------------------
(* The matching is maximum.                                                 *)

\* What a slot that asked for a card may have changed: when none moved over,
\* nothing, and each card it asked about is held by a slot whose cards were
\* all asked about; when one did, this slot holds one card more and every
\* other as many as before.
Holders(f, t, M) == {c \in 1 .. M : f[c] = t}
Near(R, s, M) == {i \in 1 .. M : <<s, i>> \in R}
Changed(slot, f, g, m, M) ==
    \A t \in 1 .. m : Cardinality(Holders(g, t, M)) = Cardinality(Holders(f, t, M)) + Bit(t = slot)
Moved(slot, st, r, m, M, R) ==
    /\ st.seen \subseteq r.seen
    /\ ~r.ok => /\ r.slotOf = st.slotOf
                /\ \A c \in r.seen \ st.seen : st.slotOf[c] # 0 /\ Near(R, st.slotOf[c], M) \subseteq r.seen
    /\ r.ok => /\ \A c \in st.seen : r.slotOf[c] = st.slotOf[c]
               /\ Changed(slot, st.slotOf, r.slotOf, m, M)
Moving(prev, n, m, M, R) ==
    \A s \in 1 .. m : \A st : Fine(st, m, M, R) /\ Cardinality(st.seen) + n >= M =>
        /\ Moved(s, st, prev[<<s, st>>], m, M, R)
        /\ ~prev[<<s, st>>].ok => Near(R, s, M) \subseteq prev[<<s, st>>].seen

LEMMA HoldersCount ==
  ASSUME NEW M \in Nat
  PROVE  /\ IsFiniteSet(1 .. M)
         /\ \A A \in SUBSET (1 .. M) : IsFiniteSet(A) /\ Cardinality(A) \in Nat
         /\ \A f, t : Holders(f, t, M) \in SUBSET (1 .. M) /\ Cardinality(Holders(f, t, M)) \in Nat
<1>1. IsFiniteSet(1 .. M)
  BY FS_Interval
<1>2. \A A \in SUBSET (1 .. M) : IsFiniteSet(A) /\ Cardinality(A) \in Nat
  BY <1>1, FS_Subset, FS_CardinalityType
<1>3. \A f, t : Holders(f, t, M) \in SUBSET (1 .. M)
  BY DEF Holders
<1>. QED
  BY <1>1, <1>2, <1>3

\* A card that goes from one slot to another.
Goes(f, g, c, s, m, M) == /\ f \in [1 .. M -> 0 .. m] /\ c \in 1 .. M /\ s \in 1 .. m
                          /\ g = [f EXCEPT ![c] = s]
LEMMA OneGoes ==
  ASSUME NEW m \in Nat, NEW M \in Nat, NEW f, NEW g, NEW c, NEW s, Goes(f, g, c, s, m, M), NEW t \in 1 .. m
  PROVE  Cardinality(Holders(g, t, M)) = Cardinality(Holders(f, t, M)) + Bit(t = s) - Bit(t = f[c])
<1>. PICK A \in SUBSET (1 .. M) : A = Holders(f, t, M)
  BY DEF Holders
<1>. PICK B \in SUBSET (1 .. M) : B = Holders(g, t, M)
  BY DEF Holders
<1>1. c \in 1 .. M /\ \A i \in 1 .. M : g[i] = IF i = c THEN s ELSE f[i]
  BY DEF Goes
<1>2. IsFiniteSet(A) /\ IsFiniteSet(B)
  <2>1. IsFiniteSet(1 .. M)
    BY FS_Interval
  <2>. QED
    BY <2>1, FS_Subset
<1>3. Cardinality(A) \in Nat
  BY <1>2, FS_CardinalityType
<1>4. (c \in A <=> t = f[c]) /\ (c \in B <=> t = s)
  BY <1>1 DEF Holders
<1>5. \A i \in 1 .. M : i # c => (i \in A <=> i \in B)
  BY <1>1 DEF Holders
<1>6. CASE t = s /\ t = f[c]
  <2>1. A = B
    BY <1>4, <1>5, <1>6
  <2>. QED
    BY <1>3, <1>6, <2>1 DEF Bit
<1>7. CASE t = s /\ t # f[c]
  <2>1. B = A \cup {c} /\ c \notin A
    BY <1>4, <1>5, <1>7
  <2>2. Cardinality(B) = Cardinality(A) + 1
    BY <1>2, <2>1, FS_AddElement
  <2>. QED
    BY <1>3, <1>7, <2>2 DEF Bit
<1>8. CASE t # s /\ t = f[c]
  <2>1. B = A \ {c} /\ c \in A
    BY <1>4, <1>5, <1>8
  <2>2. Cardinality(B) = Cardinality(A) - 1
    BY <1>2, <2>1, FS_RemoveElement
  <2>. QED
    BY <1>3, <1>8, <2>2 DEF Bit
<1>9. CASE t # s /\ t # f[c]
  <2>0. \A i \in 1 .. M : i \in A <=> i \in B
    BY <1>4, <1>5, <1>9
  <2>1. A = B
    BY ONLY <2>0, A \in SUBSET (1 .. M), B \in SUBSET (1 .. M)
  <2>. QED
    BY <1>3, <1>9, <2>1 DEF Bit
<1>. QED
  BY <1>6, <1>7, <1>8, <1>9

Trying(slot, st, n, prev, m, M, R) ==
    /\ slot \in 1 .. m /\ Fine(st, m, M, R) /\ n \in Nat /\ Cardinality(st.seen) + n >= M
    /\ n # 0 => Keeping(prev, m, M, R) /\ Moving(prev, n - 1, m, M, R)
LEMMA TryMoves ==
  ASSUME NEW m \in Nat, NEW M \in Nat, NEW R, NEW slot, NEW st, NEW n, NEW prev, Trying(slot, st, n, prev, m, M, R),
         n # 0, NEW card \in 1 .. M, <<slot, card>> \in R, NEW b, Fine(b, m, M, R), Moved(slot, st, b, m, M, R),
         NEW r, r = TryBelow(slot, card, b, prev)
  PROVE  Moved(slot, st, r, m, M, R) /\ b.seen \subseteq r.seen /\ (~r.ok => ~b.ok /\ card \in r.seen)
<1>. DEFINE S == [ok : BOOLEAN, seen : SUBSET (1 .. M), slotOf : [1 .. M -> 0 .. m]]
<1>. /\ slot \in 1 .. m /\ Fine(st, m, M, R) /\ n \in Nat /\ Cardinality(st.seen) + n >= M
     /\ Keeping(prev, m, M, R) /\ Moving(prev, n - 1, m, M, R)
  BY DEF Trying
<1>0. st \in S /\ b \in S
  BY DEF Fine
<1>. PICK marked : marked = [b EXCEPT !.seen = @ \cup {card}]
  OBVIOUS
<1>. PICK done : done = [marked EXCEPT !.ok = TRUE]
  OBVIOUS
<1>. PICK freed : freed = IF b.slotOf[card] = 0 THEN done ELSE prev[<<b.slotOf[card], marked>>]
  OBVIOUS
<1>1. r = IF b.ok \/ card \in b.seen THEN b
          ELSE IF freed.ok THEN [freed EXCEPT !.slotOf[card] = slot] ELSE freed
  BY DEF TryBelow, Try
<1>2. /\ marked \in S /\ marked.slotOf = b.slotOf /\ marked.ok = b.ok /\ marked.seen = b.seen \cup {card}
      /\ done \in S /\ done.slotOf = b.slotOf /\ done.ok /\ done.seen = b.seen \cup {card}
  BY <1>0
<1>3. CASE b.ok \/ card \in b.seen
  <2>1. r = b
    BY <1>1, <1>3
  <2>. QED
    BY <1>3, <2>1
<1>4. CASE ~b.ok /\ card \notin b.seen
  <2>. PICK f : f = st.slotOf
    OBVIOUS
  <2>1. /\ b.slotOf = f /\ st.seen \subseteq b.seen
        /\ \A c \in b.seen \ st.seen : f[c] # 0 /\ Near(R, f[c], M) \subseteq b.seen
    BY <1>4 DEF Moved
  <2>2. f \in [1 .. M -> 0 .. m] /\ card \notin st.seen
    BY <1>0, <1>4, <2>1
  <2>3. r = IF freed.ok THEN [freed EXCEPT !.slotOf[card] = slot] ELSE freed
    BY <1>1, <1>4
  <2>4. CASE f[card] = 0
    <3>1. freed = done
      BY <2>1, <2>4
    <3>2. r.ok /\ r.seen = b.seen \cup {card} /\ r.slotOf = [f EXCEPT ![card] = slot]
      <4>1. r = [done EXCEPT !.slotOf[card] = slot]
        BY <1>2, <2>3, <3>1
      <4>2. done \in S /\ done.slotOf = f /\ done.ok /\ done.seen = b.seen \cup {card}
        BY <1>2, <2>1
      <4>. QED
        BY ONLY <4>1, <4>2
    <3>3. \A c \in st.seen : r.slotOf[c] = f[c]
      BY <1>0, <2>2, <3>2
    <3>4. Changed(slot, f, r.slotOf, m, M)
      <4>1. ASSUME NEW t \in 1 .. m
            PROVE  Cardinality(Holders(r.slotOf, t, M)) = Cardinality(Holders(f, t, M)) + Bit(t = slot)
        <5>. PICK h : h = r.slotOf
          OBVIOUS
        <5>0. Goes(f, h, card, slot, m, M)
          BY <2>2, <3>2 DEF Goes
        <5>1. Cardinality(Holders(r.slotOf, t, M)) = Cardinality(Holders(f, t, M)) + Bit(t = slot) - Bit(t = f[card])
          BY ONLY <5>0, OneGoes, h = r.slotOf, m \in Nat, M \in Nat, t \in 1 .. m
        <5>2. Bit(t = f[card]) = 0 /\ Bit(t = slot) \in {0, 1}
          BY <2>4 DEF Bit
        <5>3. Cardinality(Holders(f, t, M)) \in Nat
          BY HoldersCount
        <5>. QED
          BY <5>1, <5>2, <5>3
      <4>. QED
        BY <4>1 DEF Changed
    <3>5. Moved(slot, st, r, m, M, R)
      BY <2>1, <3>2, <3>3, <3>4, f = st.slotOf DEF Moved
    <3>. QED
      BY <3>2, <3>5
  <2>5. CASE f[card] # 0
    <3>. PICK s \in 1 .. m : s = f[card]
      BY <2>2, <2>5
    <3>1. freed = prev[<<s, marked>>]
      BY <2>1, <2>5
    <3>2. Fine(marked, m, M, R)
      BY <1>2 DEF Fine
    <3>3. Cardinality(marked.seen) + (n - 1) >= M
      <4>1. IsFiniteSet(b.seen)
        <5>1. b.seen \in SUBSET (1 .. M)
          BY <1>0
        <5>. QED
          BY <5>1, HoldersCount
      <4>2. Cardinality(marked.seen) = Cardinality(b.seen) + 1
        BY <1>2, <1>4, <4>1, FS_AddElement
      <4>3. Cardinality(st.seen) <= Cardinality(b.seen) /\ Cardinality(st.seen) \in Nat /\ Cardinality(b.seen) \in Nat
        BY <2>1, <4>1, FS_Subset, FS_CardinalityType
      <4>. QED
        BY <4>2, <4>3
    <3>4. /\ Moved(s, marked, freed, m, M, R)
          /\ ~freed.ok => Near(R, s, M) \subseteq freed.seen
      BY <3>1, <3>2, <3>3 DEF Moving
    <3>5. Fine(freed, m, M, R)
      BY <3>1, <3>2 DEF Keeping
    <3>6. freed \in S
      BY <3>5 DEF Fine
    <3>7. b.seen \subseteq freed.seen /\ card \in freed.seen
      BY <1>2, <3>4 DEF Moved
    <3>8. CASE ~freed.ok
      <4>1. r = freed
        BY <2>3, <3>8
      <4>2. freed.slotOf = f /\ \A c \in freed.seen \ marked.seen : f[c] # 0 /\ Near(R, f[c], M) \subseteq freed.seen
        BY <1>2, <2>1, <3>4, <3>8 DEF Moved
      <4>3. ASSUME NEW c \in freed.seen \ st.seen PROVE f[c] # 0 /\ Near(R, f[c], M) \subseteq freed.seen
        <5>1. CASE c \in b.seen
          BY <2>1, <3>7, <5>1
        <5>2. CASE c = card
          BY <2>5, <3>4, <3>8, <5>2
        <5>3. CASE c \notin marked.seen
          BY <4>2, <5>3
        <5>. QED
          BY <1>2, <5>1, <5>2, <5>3
      <4>4. Moved(slot, st, r, m, M, R)
        BY <2>1, <3>7, <3>8, <4>1, <4>2, <4>3 DEF Moved
      <4>. QED
        BY <1>4, <3>7, <4>1, <4>4
    <3>9. CASE freed.ok
      <4>. PICK g : g = freed.slotOf
        OBVIOUS
      <4>1. r = [freed EXCEPT !.slotOf[card] = slot]
        BY <2>3, <3>9
      <4>2. g \in [1 .. M -> 0 .. m]
        BY <3>6
      <4>3. r.ok /\ r.seen = freed.seen /\ r.slotOf = [g EXCEPT ![card] = slot]
        BY <3>6, <3>9, <4>1
      <4>4. (\A c \in marked.seen : g[c] = f[c]) /\ Changed(s, f, g, m, M)
        <5>1. marked.slotOf = f
          BY <1>2, <2>1
        <5>2. (\A c \in marked.seen : freed.slotOf[c] = marked.slotOf[c]) /\ Changed(s, marked.slotOf, freed.slotOf, m, M)
          BY ONLY <3>4, <3>9 DEF Moved
        <5>. QED
          BY ONLY <5>1, <5>2, g = freed.slotOf
      <4>5. \A c \in st.seen : r.slotOf[c] = f[c]
        <5>1. ASSUME NEW c \in st.seen PROVE r.slotOf[c] = f[c]
          <6>1. c \in 1 .. M /\ c # card /\ c \in marked.seen
            BY <1>0, <1>2, <2>1, <2>2
          <6>. QED
            BY <4>2, <4>3, <4>4, <6>1
        <5>. QED
          BY <5>1
      <4>6. Changed(slot, f, r.slotOf, m, M)
        <5>1. ASSUME NEW t \in 1 .. m
              PROVE  Cardinality(Holders(r.slotOf, t, M)) = Cardinality(Holders(f, t, M)) + Bit(t = slot)
          <6>. PICK h : h = r.slotOf
            OBVIOUS
          <6>0. Goes(g, h, card, slot, m, M)
            BY <4>2, <4>3 DEF Goes
          <6>1. Cardinality(Holders(r.slotOf, t, M)) = Cardinality(Holders(g, t, M)) + Bit(t = slot) - Bit(t = g[card])
            BY ONLY <6>0, OneGoes, h = r.slotOf, m \in Nat, M \in Nat, t \in 1 .. m
          <6>2. g[card] = s
            BY <1>2, <4>4
          <6>3. Cardinality(Holders(g, t, M)) = Cardinality(Holders(f, t, M)) + Bit(t = s)
            BY <4>4 DEF Changed
          <6>4. Bit(t = s) \in {0, 1} /\ Bit(t = slot) \in {0, 1}
            BY DEF Bit
          <6>5. Cardinality(Holders(f, t, M)) \in Nat
            BY HoldersCount
          <6>. QED
            BY ONLY <6>1, <6>2, <6>3, <6>4, <6>5
        <5>. QED
          BY <5>1 DEF Changed
      <4>7. Moved(slot, st, r, m, M, R)
        BY <2>1, <3>7, <4>3, <4>5, <4>6, f = st.slotOf DEF Moved
      <4>. QED
        BY <3>7, <4>3, <4>7
    <3>. QED
      BY <3>8, <3>9
  <2>. QED
    BY <2>4, <2>5
<1>. QED
  BY <1>3, <1>4

LEMMA TriedMoves ==
  ASSUME NEW m \in Nat, NEW M \in Nat, NEW R, NEW slot, NEW st, NEW n, NEW prev, Trying(slot, st, n, prev, m, M, R),
         NEW N \in Nat, NEW mine, Len(mine) = N, \A k \in 1 .. N : mine[k] \in 1 .. M /\ <<slot, mine[k]>> \in R,
         \A i \in Near(R, slot, M) : \E k \in 1 .. N : mine[k] = i,
         NEW r, r = TriedBy(slot, mine, st, n, prev)[N]
  PROVE  Moved(slot, st, r, m, M, R) /\ (~r.ok => Near(R, slot, M) \subseteq r.seen)
<1>. /\ slot \in 1 .. m /\ Fine(st, m, M, R) /\ n \in Nat /\ Cardinality(st.seen) + n >= M
     /\ n # 0 => Keeping(prev, m, M, R) /\ Moving(prev, n - 1, m, M, R)
  BY DEF Trying
<1>. PICK tried : tried = TriedBy(slot, mine, st, n, prev)
  OBVIOUS
<1>0. IsTried(tried, slot, mine, st, n, prev, N)
  BY TriedIs
<1>1. \A k \in 0 .. N : tried[k] = OnTry(slot, mine, st, n, prev, k, tried[k - 1])
  BY ONLY <1>0 DEF IsTried
<1>. PICK off : off = [st EXCEPT !.ok = FALSE]
  OBVIOUS
<1>2. Fine(off, m, M, R) /\ ~off.ok /\ off.seen = st.seen /\ off.slotOf = st.slotOf
  <2>1. off \in [ok : BOOLEAN, seen : SUBSET (1 .. M), slotOf : [1 .. M -> 0 .. m]] /\ off.slotOf = st.slotOf
        /\ ~off.ok /\ off.seen = st.seen
    BY DEF Fine
  <2>. QED
    BY <2>1 DEF Fine
<1>3. Moved(slot, st, off, m, M, R)
  BY <1>2 DEF Moved
<1>4. n = 0 => st.seen = 1 .. M
  <2>1. st.seen \in SUBSET (1 .. M)
    BY DEF Fine
  <2>2. IsFiniteSet(1 .. M) /\ Cardinality(1 .. M) = M
    BY ONLY FS_Interval, M \in Nat
  <2>3. Cardinality(st.seen) <= M /\ Cardinality(st.seen) \in Nat
    BY <2>1, <2>2, FS_Subset, HoldersCount
  <2>4. n = 0 => Cardinality(1 .. M) = Cardinality(st.seen)
    BY <2>2, <2>3
  <2>. QED
    BY ONLY <2>1, <2>2, <2>4, FS_Subset
<1>. DEFINE Asked(j) == /\ Fine(tried[j], m, M, R) /\ Moved(slot, st, tried[j], m, M, R)
                        /\ ~tried[j].ok => \A k \in 1 .. j : mine[k] \in tried[j].seen
<1>. DEFINE T == {j \in 0 .. N : Asked(j)}
<1>5. 0 \in T
  <2>1. 0 \in 0 .. N
    OBVIOUS
  <2>2. tried[0] = off
    BY <1>1, <2>1 DEF OnTry
  <2>. QED
    BY <1>2, <1>3, <2>1, <2>2
<1>6. ASSUME NEW j \in 0 .. N, j < N, j \in T PROVE j + 1 \in T
  <2>. PICK k \in 1 .. N : k = j + 1
    BY <1>6
  <2>0. k \in 0 .. N /\ k - 1 = j /\ k # 0
    OBVIOUS
  <2>1. tried[k] = OnTry(slot, mine, st, n, prev, k, tried[j])
    BY <1>1, <2>0
  <2>2. mine[k] \in 1 .. M /\ <<slot, mine[k]>> \in R
    OBVIOUS
  <2>3. CASE n = 0
    <3>1. tried[k] = off
      BY <2>1, <2>3 DEF OnTry
    <3>2. \A i \in 1 .. k : mine[i] \in off.seen
      <4>1. off.seen = 1 .. M
        BY <1>2, <1>4, <2>3
      <4>2. \A i \in 1 .. k : i \in 1 .. N
        OBVIOUS
      <4>. QED
        BY ONLY <4>1, <4>2, \A i \in 1 .. N : mine[i] \in 1 .. M /\ <<slot, mine[i]>> \in R
    <3>3. Asked(k)
      BY ONLY <1>2, <1>3, <3>1, <3>2
    <3>. QED
      BY <2>0, <3>3
  <2>4. CASE n # 0
    <3>. PICK b : b = tried[j]
      OBVIOUS
    <3>. PICK new : new = tried[k]
      OBVIOUS
    <3>1. new = TryBelow(slot, mine[k], b, prev)
      BY <2>0, <2>1, <2>4 DEF OnTry
    <3>2. Fine(b, m, M, R) /\ Moved(slot, st, b, m, M, R) /\ (~b.ok => \A i \in 1 .. j : mine[i] \in b.seen)
      BY <1>6
    <3>3. Keeping(prev, m, M, R) /\ Moving(prev, n - 1, m, M, R)
      BY <2>4
    <3>4. Fine(new, m, M, R)
      BY ONLY <2>2, <3>1, <3>2, <3>3, TryFine, m \in Nat, M \in Nat, slot \in 1 .. m
    <3>5. Moved(slot, st, new, m, M, R) /\ b.seen \subseteq new.seen /\ (~new.ok => ~b.ok /\ mine[k] \in new.seen)
      BY ONLY <2>2, <2>4, <3>1, <3>2, TryMoves, m \in Nat, M \in Nat, Trying(slot, st, n, prev, m, M, R)
    <3>6. \A i \in 1 .. k : i \in 1 .. j \/ i = k
      BY <2>0
    <3>7. ~new.ok => \A i \in 1 .. k : mine[i] \in new.seen
      BY ONLY <3>2, <3>5, <3>6
    <3>8. Asked(k)
      BY ONLY <3>4, <3>5, <3>7, new = tried[k]
    <3>. QED
      BY <2>0, <3>8
  <2>. QED
    BY <2>3, <2>4
<1>7. \A j \in 0 .. N : j \in T
  <2>. HIDE DEF T
  <2>. QED
    BY <1>5, <1>6, UpTo
<1>8. Asked(N)
  <2>1. N \in 0 .. N
    OBVIOUS
  <2>2. N \in T
    <3>. HIDE DEF T
    <3>. QED
      BY <1>7, <2>1
  <2>. QED
    BY <2>2
<1>9. Moved(slot, st, r, m, M, R) /\ (~r.ok => \A k \in 1 .. N : mine[k] \in r.seen)
  BY <1>8
<1>10. ~r.ok => Near(R, slot, M) \subseteq r.seen
  BY <1>9
<1>. QED
  BY <1>9, <1>10

\* Every card a slot takes is among its candidates.
Offering(candidates, m, M, R) ==
    \A s \in 1 .. m : \A i \in Near(R, s, M) : \E k \in 1 .. Len(candidates[s]) : candidates[s][k] = i
LEMMA AugmentMoves ==
  ASSUME NEW m \in Nat, NEW M \in Nat, NEW R, NEW candidates, Taking(candidates, m, M, R), Offering(candidates, m, M, R),
         NEW cards, DOMAIN cards = 1 .. M, Len(cards) = M
  PROVE  Moving(Augment(candidates, cards), M, m, M, R)
<1>. PICK augment : Augment(candidates, cards) = augment[M] /\ Levelled(augment, candidates, m, M, R)
  BY AugmentIs
<1>. DEFINE Both(n) == Keeping(augment[n], m, M, R) /\ Moving(augment[n], n, m, M, R)
<1>1. ASSUME NEW n \in 0 .. M, n # 0 => Both(n - 1) PROVE Both(n)
  <2>1. ASSUME NEW s \in 1 .. m, NEW st, Fine(st, m, M, R)
        PROVE  /\ Fine(augment[n][<<s, st>>], m, M, R)
               /\ Cardinality(st.seen) + n >= M =>
                    /\ Moved(s, st, augment[n][<<s, st>>], m, M, R)
                    /\ ~augment[n][<<s, st>>].ok => Near(R, s, M) \subseteq augment[n][<<s, st>>].seen
    <3>. PICK mine, N, r : mine = candidates[s] /\ N = Len(mine) /\ r = augment[n][<<s, st>>]
      OBVIOUS
    <3>1. N \in Nat /\ \A k \in 1 .. N : mine[k] \in 1 .. M /\ <<s, mine[k]>> \in R
      BY DEF Taking
    <3>2. \A i \in Near(R, s, M) : \E k \in 1 .. N : mine[k] = i
      BY DEF Offering
    <3>3. r = TriedBy(s, mine, st, n, augment[n - 1])[N]
      BY <2>1 DEF Levelled
    <3>4. n # 0 => Keeping(augment[n - 1], m, M, R) /\ Moving(augment[n - 1], n - 1, m, M, R)
      BY <1>1
    <3>5. Fine(r, m, M, R)
      BY ONLY <2>1, <3>1, <3>3, <3>4, TriedFine, m \in Nat, M \in Nat, N = Len(mine)
    <3>6. n \in Nat
      OBVIOUS
    <3>. PICK prev : prev = augment[n - 1]
      OBVIOUS
    <3>7. ASSUME Cardinality(st.seen) + n >= M
          PROVE  Moved(s, st, r, m, M, R) /\ (~r.ok => Near(R, s, M) \subseteq r.seen)
      <4>1. Trying(s, st, n, prev, m, M, R)
        BY ONLY <2>1, <3>4, <3>6, <3>7, s \in 1 .. m, prev = augment[n - 1] DEF Trying
      <4>2. r = TriedBy(s, mine, st, n, prev)[N]
        BY <3>3
      <4>. QED
        BY ONLY <3>1, <3>2, <4>1, <4>2, TriedMoves, m \in Nat, M \in Nat, N = Len(mine)
    <3>. QED
      BY <3>5, <3>7
  <2>. QED
    BY <2>1 DEF Keeping, Moving
<1>. DEFINE T == {n \in 0 .. M : Both(n)}
<1>2. 0 \in T
  <2>. HIDE DEF Both
  <2>. QED
    BY <1>1
<1>3. ASSUME NEW n \in 0 .. M, n < M, n \in T PROVE n + 1 \in T
  <2>. PICK k \in 1 .. M : k = n + 1
    BY <1>3
  <2>. HIDE DEF Both
  <2>1. k \in 0 .. M /\ k - 1 = n /\ Both(n)
    BY <1>3
  <2>2. Both(k)
    BY <1>1, <2>1
  <2>. QED
    BY <2>1, <2>2
<1>4. \A n \in 0 .. M : n \in T
  <2>. HIDE DEF T
  <2>. QED
    BY <1>2, <1>3, UpTo
<1>5. M \in T
  <2>1. M \in 0 .. M
    OBVIOUS
  <2>. HIDE DEF T
  <2>. QED
    BY <1>4, <2>1
<1>. QED
  BY <1>5

\* A slot is stuck when all cards it could come by are held by slots that
\* could come by no others; the matching grows by the slot, or it is stuck.
Stuck(f, s, M, R) == \E seen \in SUBSET (1 .. M) :
    Near(R, s, M) \subseteq seen /\ \A c \in seen : f[c] # 0 /\ Near(R, f[c], M) \subseteq seen
Enlarged(f, g, s, m, M, R) == Changed(s, f, g, m, M) \/ (g = f /\ Stuck(f, s, M, R))
Accepted(f, m, M, R) == f \in [1 .. M -> 0 .. m] /\ \A i \in 1 .. M : f[i] # 0 => <<f[i], i>> \in R
LEMMA MatchGrows ==
  ASSUME NEW m \in Nat, NEW M \in Nat, NEW R, NEW candidates, Taking(candidates, m, M, R), Offering(candidates, m, M, R),
         NEW cards, DOMAIN cards = 1 .. M, Len(cards) = M, NEW s \in 1 .. m, NEW f, Accepted(f, m, M, R),
         NEW g, g = OnMatch(candidates, cards, s, f)
  PROVE  Accepted(g, m, M, R) /\ Enlarged(f, g, s, m, M, R)
<1>. PICK st : st = [ok |-> FALSE, seen |-> {}, slotOf |-> f]
  OBVIOUS
<1>. PICK r : r = Augment(candidates, cards)[<<s, st>>]
  OBVIOUS
<1>1. g = r.slotOf
  BY DEF OnMatch
<1>2. Fine(st, m, M, R) /\ st.seen = {} /\ st.slotOf = f
  BY DEF Fine, Accepted
<1>3. Fine(r, m, M, R)
  BY <1>2, AugmentFine DEF Keeping
<1>4. Accepted(g, m, M, R) /\ r.seen \in SUBSET (1 .. M)
  BY ONLY <1>1, <1>3 DEF Fine, Accepted
<1>5. Cardinality(st.seen) + M >= M
  <2>1. Cardinality(st.seen) = 0
    BY <1>2, FS_EmptySet
  <2>. QED
    BY ONLY <2>1, M \in Nat
<1>6. Moving(Augment(candidates, cards), M, m, M, R)
  BY AugmentMoves
<1>7. Moved(s, st, r, m, M, R) /\ (~r.ok => Near(R, s, M) \subseteq r.seen)
  BY <1>2, <1>5, <1>6 DEF Moving
<1>8. CASE r.ok
  BY <1>1, <1>2, <1>4, <1>7, <1>8 DEF Moved, Enlarged
<1>9. CASE ~r.ok
  <2>1. g = f /\ \A c \in r.seen : f[c] # 0 /\ Near(R, f[c], M) \subseteq r.seen
    BY <1>1, <1>2, <1>7, <1>9 DEF Moved
  <2>2. Stuck(f, s, M, R)
    BY <1>4, <1>7, <1>9, <2>1 DEF Stuck
  <2>. QED
    BY <1>4, <2>1, <2>2 DEF Enlarged
<1>. QED
  BY <1>8, <1>9

-----------------------------------------------------------------------------
(* Hall's formula.                                                          *)

NearAll(R, S, M) == {i \in 1 .. M : \E t \in S : <<t, i>> \in R}
Full(f, m, M) == {t \in 1 .. m : \E i \in 1 .. M : f[i] = t}
Room(S, s, R, M) == s - Cardinality(S) + Cardinality(NearAll(R, S, M))
LEMMA Sizes ==
  ASSUME NEW m \in Nat, NEW M \in Nat, NEW R, NEW f, NEW S \in SUBSET (1 .. m)
  PROVE  /\ IsFiniteSet(S) /\ Cardinality(S) \in Nat /\ Cardinality(S) <= m
         /\ IsFiniteSet(NearAll(R, S, M)) /\ Cardinality(NearAll(R, S, M)) \in Nat
         /\ Full(f, m, M) \in SUBSET (1 .. m) /\ IsFiniteSet(Full(f, m, M)) /\ Cardinality(Full(f, m, M)) \in Nat
<1>1. IsFiniteSet(1 .. m) /\ Cardinality(1 .. m) = m
  BY ONLY FS_Interval, m \in Nat
<1>2. \A A \in SUBSET (1 .. m) : IsFiniteSet(A) /\ Cardinality(A) \in Nat /\ Cardinality(A) <= m
  BY ONLY <1>1, FS_Subset, FS_CardinalityType
<1>3. NearAll(R, S, M) \in SUBSET (1 .. M) /\ Full(f, m, M) \in SUBSET (1 .. m)
  BY DEF NearAll, Full
<1>. QED
  BY <1>2, <1>3, HoldersCount

\* No matching fills more slots than any set of slots leaves room for.
LEMMA RoomBounds ==
  ASSUME NEW m \in Nat, NEW M \in Nat, NEW R, NEW f, Accepted(f, m, M, R), NEW s \in 0 .. m,
         Full(f, m, M) \subseteq 1 .. s, NEW S \in SUBSET (1 .. s)
  PROVE  Cardinality(Full(f, m, M)) <= Room(S, s, R, M)
<1>. PICK F : F = Full(f, m, M)
  OBVIOUS
<1>. PICK N : N = NearAll(R, S, M)
  OBVIOUS
<1>1. s \in Nat /\ 1 .. s \subseteq 1 .. m
  OBVIOUS
<1>2. IsFiniteSet(S) /\ Cardinality(S) \in Nat /\ IsFiniteSet(N) /\ Cardinality(N) \in Nat
      /\ IsFiniteSet(F) /\ Cardinality(F) \in Nat
  BY <1>1, Sizes
<1>3. Cardinality(F \cap S) <= Cardinality(N)
  <2>. PICK h : h = [t \in F \cap S |-> CHOOSE i \in 1 .. M : f[i] = t]
    OBVIOUS
  <2>1. \A t \in F \cap S : h[t] \in 1 .. M /\ f[h[t]] = t
    BY DEF Full
  <2>2. \A t \in F \cap S : h[t] \in N
    <3>1. ASSUME NEW t \in F \cap S PROVE h[t] \in N
      <4>1. t # 0
        BY <1>1 DEF Full
      <4>2. <<t, h[t]>> \in R
        BY <2>1, <4>1 DEF Accepted
      <4>3. t \in S /\ h[t] \in 1 .. M
        BY <2>1
      <4>4. h[t] \in NearAll(R, S, M)
        BY ONLY <4>2, <4>3 DEF NearAll
      <4>. QED
        BY <4>4
    <3>. QED
      BY <3>1
  <2>3. h \in [F \cap S -> N]
    BY <2>2
  <2>4. h \in Injection(F \cap S, N)
    BY ONLY <2>1, <2>3 DEF Injection, IsInjective
  <2>. QED
    BY ONLY <1>2, <2>4, FS_Injection
<1>4. Cardinality(F) = Cardinality(F \cap S) + Cardinality(F \ S)
  <2>1. Cardinality(F \ S) = Cardinality(F) - Cardinality(F \cap S)
    BY <1>2, FS_Difference
  <2>2. Cardinality(F \cap S) \in Nat
    BY <1>2, FS_Intersection, FS_CardinalityType
  <2>. QED
    BY <1>2, <2>1, <2>2
<1>5. Cardinality(F \ S) <= s - Cardinality(S)
  <2>1. IsFiniteSet(1 .. s) /\ Cardinality(1 .. s) = s
    BY ONLY FS_Interval, <1>1
  <2>2. IsFiniteSet((1 .. s) \ S) /\ Cardinality((1 .. s) \ S) = s - Cardinality((1 .. s) \cap S)
    BY ONLY <2>1, FS_Difference
  <2>3. (1 .. s) \cap S = S /\ F \ S \in SUBSET ((1 .. s) \ S)
    OBVIOUS
  <2>4. Cardinality(F \ S) <= Cardinality((1 .. s) \ S)
    BY ONLY <2>2, <2>3, FS_Subset
  <2>. QED
    BY ONLY <2>2, <2>3, <2>4
<1>6. Cardinality(F \cap S) \in Nat /\ Cardinality(F \ S) \in Nat
  BY <1>2, FS_Intersection, FS_Difference, FS_CardinalityType
<1>. QED
  BY ONLY <1>1, <1>2, <1>3, <1>4, <1>5, <1>6, F = Full(f, m, M), N = NearAll(R, S, M) DEF Room

\* Some set of slots leaves room for no more than the matching fills.
Best(f, s, m, M, R) ==
    /\ Accepted(f, m, M, R) /\ Full(f, m, M) \subseteq 1 .. s
    /\ \A i, j \in 1 .. M : f[i] # 0 /\ f[i] = f[j] => i = j
    /\ \E S \in SUBSET (1 .. s) : Room(S, s, R, M) = Cardinality(Full(f, m, M))
LEMMA StuckBest ==
  ASSUME NEW m \in Nat, NEW M \in Nat, NEW R, NEW f, NEW s \in 1 .. m, Best(f, s - 1, m, M, R), Stuck(f, s, M, R)
  PROVE  Best(f, s, m, M, R)
<1>. PICK F : F = Full(f, m, M)
  OBVIOUS
<1>. PICK n \in 0 .. m : n = s - 1
  OBVIOUS
<1>1. s \in Nat /\ n \in Nat /\ s = n + 1 /\ 1 .. n \subseteq 1 .. m /\ 1 .. n \subseteq 1 .. s /\ s \notin 1 .. n
  OBVIOUS
<1>2. Accepted(f, m, M, R) /\ F \subseteq 1 .. n /\ \A i, j \in 1 .. M : f[i] # 0 /\ f[i] = f[j] => i = j
  BY DEF Best
<1>. PICK S \in SUBSET (1 .. n) : Room(S, n, R, M) = Cardinality(F)
  BY DEF Best
<1>. PICK seen \in SUBSET (1 .. M) :
        Near(R, s, M) \subseteq seen /\ \A c \in seen : f[c] # 0 /\ Near(R, f[c], M) \subseteq seen
  BY DEF Stuck
<1>. PICK T \in SUBSET (1 .. n) : T = {f[c] : c \in seen}
  <2>1. ASSUME NEW c \in seen PROVE f[c] \in 1 .. n
    <3>1. f[c] \in 1 .. m
      BY <1>2 DEF Accepted
    <3>2. f[c] \in F
      BY <3>1 DEF Full
    <3>. QED
      BY <1>2, <3>2
  <2>. QED
    BY <2>1
<1>. PICK N : N = NearAll(R, S, M)
  OBVIOUS
<1>. PICK V \in SUBSET (1 .. s) : V = (S \cup T) \cup {s}
  <2>1. S \subseteq 1 .. s /\ T \subseteq 1 .. s /\ s \in 1 .. s
    BY <1>1
  <2>. QED
    BY <2>1
<1>3. /\ IsFiniteSet(S) /\ Cardinality(S) \in Nat /\ IsFiniteSet(N) /\ Cardinality(N) \in Nat
      /\ IsFiniteSet(T) /\ Cardinality(T) \in Nat
      /\ Cardinality(F) \in Nat /\ IsFiniteSet(seen) /\ Cardinality(seen) \in Nat
  BY <1>1, Sizes, HoldersCount
<1>4. Cardinality(T) = Cardinality(seen) /\ Cardinality(S \cap T) <= Cardinality(N \cap seen)
  <2>. PICK h : h = [c \in seen |-> f[c]]
    OBVIOUS
  <2>1. h \in [seen -> T] /\ \A c \in seen : h[c] = f[c]
    OBVIOUS
  <2>2. \A c, d \in seen : h[c] = h[d] => c = d
    BY <1>2, <2>1
  <2>3. \A t \in T : \E c \in seen : h[c] = t
    BY <2>1
  <2>4. h \in Bijection(seen, T)
    BY ONLY <2>1, <2>2, <2>3 DEF Bijection, Injection, Surjection, IsInjective
  <2>5. Cardinality(T) = Cardinality(seen)
    BY <1>3, <2>4, FS_Bijection DEF ExistsBijection
  <2>. PICK A : A = S \cap T
    OBVIOUS
  <2>. PICK B : B = N \cap seen
    OBVIOUS
  <2>. PICK k : k = [t \in A |-> CHOOSE c \in seen : f[c] = t]
    OBVIOUS
  <2>6. \A t \in A : k[t] \in seen /\ f[k[t]] = t
    <3>1. \A t \in A : \E c \in seen : f[c] = t
      OBVIOUS
    <3>. QED
      BY <3>1
  <2>7. ASSUME NEW t \in A PROVE k[t] \in N
    <3>1. k[t] \in 1 .. M /\ f[k[t]] = t /\ t # 0 /\ t \in S
      BY <2>6
    <3>2. <<t, k[t]>> \in R
      BY <1>2, <3>1 DEF Accepted
    <3>3. k[t] \in NearAll(R, S, M)
      BY ONLY <3>1, <3>2 DEF NearAll
    <3>. QED
      BY <3>3
  <2>8. k \in [A -> B]
    BY <2>6, <2>7
  <2>9. k \in Injection(A, B)
    BY ONLY <2>6, <2>8 DEF Injection, IsInjective
  <2>10. IsFiniteSet(B)
    BY <1>3, FS_Intersection
  <2>11. Cardinality(A) <= Cardinality(B)
    BY ONLY <2>9, <2>10, FS_Injection
  <2>. QED
    BY <2>5, <2>11
<1>5. Cardinality(V) = Cardinality(S) + Cardinality(T) - Cardinality(S \cap T) + 1
  <2>1. IsFiniteSet(S \cup T) /\ Cardinality(S \cup T) = Cardinality(S) + Cardinality(T) - Cardinality(S \cap T)
    BY <1>3, FS_Union
  <2>2. s \notin S \cup T
    BY <1>1
  <2>. PICK Q : Q = S \cup T
    OBVIOUS
  <2>3. Cardinality(Q \cup {s}) = Cardinality(Q) + 1
    BY ONLY <2>1, <2>2, FS_AddElement, Q = S \cup T
  <2>. QED
    BY ONLY <2>1, <2>3, Q = S \cup T, V = (S \cup T) \cup {s}
<1>6. Cardinality(NearAll(R, V, M)) <= Cardinality(N) + Cardinality(seen) - Cardinality(N \cap seen)
  <2>1. NearAll(R, V, M) \subseteq N \cup seen
    <3>1. ASSUME NEW i \in NearAll(R, V, M) PROVE i \in N \cup seen
      <4>. PICK t \in V : <<t, i>> \in R
        BY DEF NearAll
      <4>0. i \in 1 .. M
        BY DEF NearAll
      <4>1. CASE t \in S
        BY <4>0, <4>1 DEF NearAll
      <4>2. CASE t \in T
        BY <4>0, <4>2 DEF Near
      <4>3. CASE t = s
        BY <4>0, <4>3 DEF Near
      <4>. QED
        BY <4>1, <4>2, <4>3
    <3>. QED
      BY <3>1
  <2>2. IsFiniteSet(N \cup seen) /\ Cardinality(N \cup seen) = Cardinality(N) + Cardinality(seen) - Cardinality(N \cap seen)
    BY <1>3, FS_Union
  <2>. QED
    BY <2>1, <2>2, FS_Subset
<1>7. Room(V, s, R, M) <= Cardinality(F)
  <2>1. Cardinality(F) = n - Cardinality(S) + Cardinality(N)
    BY DEF Room
  <2>2. Cardinality(NearAll(R, V, M)) \in Nat /\ Cardinality(V) \in Nat
    BY Sizes
  <2>3. Cardinality(S \cap T) \in Nat /\ Cardinality(N \cap seen) \in Nat
    BY <1>3, FS_Intersection, FS_CardinalityType
  <2>4. Room(V, s, R, M) = s - Cardinality(V) + Cardinality(NearAll(R, V, M))
    BY DEF Room
  <2>. QED
    BY ONLY <1>1, <1>3, <1>4, <1>5, <1>6, <2>1, <2>2, <2>3, <2>4
<1>8. F \subseteq 1 .. s
  BY <1>1, <1>2
<1>9. Cardinality(F) <= Room(V, s, R, M)
  BY <1>2, <1>8, RoomBounds
<1>10. Room(V, s, R, M) = Cardinality(F)
  <2>1. Cardinality(NearAll(R, V, M)) \in Nat /\ Cardinality(V) \in Nat
    BY Sizes
  <2>2. Room(V, s, R, M) \in Int
    BY <1>1, <2>1 DEF Room
  <2>. QED
    BY ONLY <1>3, <1>7, <1>9, <2>2
<1>. QED
  BY ONLY <1>2, <1>8, <1>10, F = Full(f, m, M), V \in SUBSET (1 .. s) DEF Best

LEMMA HoldersFew ==
  ASSUME NEW m \in Nat, NEW M \in Nat, NEW R, NEW f, Accepted(f, m, M, R)
  PROVE  /\ (\A i, j \in 1 .. M : f[i] # 0 /\ f[i] = f[j] => i = j)
               <=> \A t \in 1 .. m : Cardinality(Holders(f, t, M)) <= 1
         /\ \A t \in 1 .. m : t \in Full(f, m, M) <=> Cardinality(Holders(f, t, M)) # 0
<1>1. \A i \in 1 .. M : f[i] # 0 => f[i] \in 1 .. m
  BY DEF Accepted
<1>2. ASSUME NEW t \in 1 .. m
      PROVE  /\ t \in Full(f, m, M) <=> Cardinality(Holders(f, t, M)) # 0
             /\ Cardinality(Holders(f, t, M)) <= 1 <=> \A i, j \in Holders(f, t, M) : i = j
  <2>. PICK A : A = Holders(f, t, M)
    OBVIOUS
  <2>1. IsFiniteSet(A) /\ Cardinality(A) \in Nat
    BY HoldersCount
  <2>2. Cardinality(A) = 0 <=> A = {}
    BY ONLY <2>1, FS_EmptySet
  <2>3. t \in Full(f, m, M) <=> A # {}
    BY DEF Full, Holders
  <2>4. ASSUME NEW i \in A, NEW j \in A, i # j PROVE Cardinality(A) > 1
    <3>. PICK B : B = A \ {i}
      OBVIOUS
    <3>1. IsFiniteSet(B) /\ Cardinality(B) = Cardinality(A) - 1
      BY <2>1, FS_RemoveElement
    <3>2. B # {}
      BY <2>4
    <3>3. Cardinality(B) \in Nat /\ Cardinality(B) # 0
      BY ONLY <3>1, <3>2, FS_EmptySet, FS_CardinalityType
    <3>. QED
      BY ONLY <2>1, <3>1, <3>3
  <2>5. ASSUME \A i, j \in A : i = j PROVE Cardinality(A) <= 1
    <3>1. CASE A = {}
      BY <2>2, <3>1
    <3>2. CASE A # {}
      <4>. PICK i \in A : TRUE
        BY <3>2
      <4>1. A = {i}
        BY <2>5
      <4>2. Cardinality({i}) = 1
        BY FS_Singleton
      <4>. QED
        BY <4>1, <4>2
    <3>. QED
      BY <3>1, <3>2
  <2>6. Cardinality(A) <= 1 <=> \A i, j \in A : i = j
    BY ONLY <2>1, <2>4, <2>5
  <2>. QED
    BY <2>1, <2>2, <2>3, <2>6
<1>3. ASSUME \A t \in 1 .. m : Cardinality(Holders(f, t, M)) <= 1, NEW i \in 1 .. M, NEW j \in 1 .. M, f[i] # 0, f[i] = f[j]
      PROVE  i = j
  <2>. PICK t \in 1 .. m : t = f[i]
    BY <1>1, <1>3
  <2>1. i \in Holders(f, t, M) /\ j \in Holders(f, t, M)
    BY <1>3 DEF Holders
  <2>. QED
    BY <1>2, <1>3, <2>1
<1>4. ASSUME \A i, j \in 1 .. M : f[i] # 0 /\ f[i] = f[j] => i = j, NEW t \in 1 .. m
      PROVE  Cardinality(Holders(f, t, M)) <= 1
  <2>1. \A i, j \in Holders(f, t, M) : i = j
    BY <1>4 DEF Holders
  <2>. QED
    BY <1>2, <2>1
<1>. QED
  BY <1>2, <1>3, <1>4

LEMMA GrowthBest ==
  ASSUME NEW m \in Nat, NEW M \in Nat, NEW R, NEW f, NEW g, NEW s \in 1 .. m, Best(f, s - 1, m, M, R),
         Accepted(g, m, M, R), Changed(s, f, g, m, M)
  PROVE  /\ Best(g, s, m, M, R) /\ s \in Full(g, m, M)
         /\ Cardinality(Full(g, m, M)) = Cardinality(Full(f, m, M)) + 1
<1>. PICK F : F = Full(f, m, M)
  OBVIOUS
<1>. PICK G : G = Full(g, m, M)
  OBVIOUS
<1>. PICK n \in 0 .. m : n = s - 1
  OBVIOUS
<1>1. s \in Nat /\ n \in Nat /\ s = n + 1 /\ 1 .. n \subseteq 1 .. m /\ 1 .. n \subseteq 1 .. s /\ s \notin 1 .. n
      /\ s \in 1 .. s
  OBVIOUS
<1>2. Accepted(f, m, M, R) /\ F \subseteq 1 .. n /\ \A i, j \in 1 .. M : f[i] # 0 /\ f[i] = f[j] => i = j
  BY DEF Best
<1>. PICK S \in SUBSET (1 .. n) : Room(S, n, R, M) = Cardinality(F)
  BY DEF Best
<1>. DEFINE C(h, t) == Cardinality(Holders(h, t, M))
<1>3. \A t \in 1 .. m : C(f, t) \in Nat /\ C(g, t) \in Nat /\ C(g, t) = IF t = s THEN C(f, t) + 1 ELSE C(f, t)
  <2>1. \A t \in 1 .. m : C(f, t) \in Nat /\ C(g, t) \in Nat
    BY HoldersCount
  <2>2. \A t \in 1 .. m : C(g, t) = C(f, t) + Bit(t = s)
    BY DEF Changed
  <2>. HIDE DEF C
  <2>. QED
    BY <2>1, <2>2 DEF Bit
<1>4. \A t \in 1 .. m : (t \in F <=> C(f, t) # 0) /\ (t \in G <=> C(g, t) # 0)
  BY <1>2, HoldersFew
<1>5. \A t \in 1 .. m : C(f, t) <= 1
  BY <1>2, HoldersFew
<1>6. F \in SUBSET (1 .. m) /\ G \in SUBSET (1 .. m)
  BY DEF Full
<1>7. s \notin F /\ C(f, s) = 0
  <2>1. s \notin F
    BY <1>1, <1>2
  <2>. HIDE DEF C
  <2>. QED
    BY <1>4, <2>1
<1>8. G = F \cup {s}
  <2>. HIDE DEF C
  <2>1. \A t \in 1 .. m : t \in G <=> t \in F \/ t = s
    BY <1>3, <1>4
  <2>. QED
    BY <1>6, <2>1
<1>9. \A i, j \in 1 .. M : g[i] # 0 /\ g[i] = g[j] => i = j
  <2>1. \A t \in 1 .. m : C(g, t) <= 1
    <3>. HIDE DEF C
    <3>. QED
      BY <1>3, <1>5, <1>7
  <2>. QED
    BY <2>1, HoldersFew
<1>10. IsFiniteSet(F) /\ Cardinality(F) \in Nat
  BY <1>6, Sizes
<1>11. Cardinality(G) = Cardinality(F) + 1
  BY ONLY <1>7, <1>8, <1>10, FS_AddElement
<1>12. G \subseteq 1 .. s
  BY <1>1, <1>2, <1>8
<1>13. S \in SUBSET (1 .. s) /\ Room(S, s, R, M) = Cardinality(G)
  <2>1. S \in SUBSET (1 .. s) /\ S \in SUBSET (1 .. m)
    BY <1>1
  <2>2. Cardinality(S) \in Nat /\ Cardinality(NearAll(R, S, M)) \in Nat
    BY <2>1, Sizes
  <2>3. Cardinality(F) = n - Cardinality(S) + Cardinality(NearAll(R, S, M))
    BY DEF Room
  <2>4. Room(S, s, R, M) = s - Cardinality(S) + Cardinality(NearAll(R, S, M))
    BY DEF Room
  <2>5. Room(S, s, R, M) = Cardinality(F) + 1
    BY ONLY <1>1, <1>10, <2>2, <2>3, <2>4
  <2>. QED
    BY <1>11, <2>1, <2>5
<1>14. Best(g, s, m, M, R)
  BY ONLY <1>9, <1>12, <1>13, Accepted(g, m, M, R), G = Full(g, m, M) DEF Best
<1>. QED
  BY <1>8, <1>11, <1>14

\* So Hall's formula counts what the matching fills.
LEMMA RankIs ==
  ASSUME NEW m \in Nat, NEW M \in Nat, NEW R \in SUBSET ((1 .. m) \X (1 .. M)), NEW s \in 0 .. m,
         NEW f, Best(f, s, m, M, R), NEW Q, Q = {sc \in R : sc[1] <= s}
  PROVE  Rank(1 .. s, Q) = Cardinality(Full(f, m, M))
<1>. PICK k : k = Cardinality(Full(f, m, M))
  OBVIOUS
<1>. DEFINE Reached(S) == {sc[2] : sc \in {x \in Q : x[1] \in S}}
<1>. DEFINE Size(S) == Cardinality(1 .. s) - Cardinality(S) + Cardinality(Reached(S))
<1>1. s \in Nat /\ 1 .. s \subseteq 1 .. m
  OBVIOUS
<1>2. Cardinality(1 .. s) = s
  BY ONLY FS_Interval, <1>1
<1>3. ASSUME NEW S \in SUBSET (1 .. s) PROVE Size(S) = Room(S, s, R, M)
  <2>1. Reached(S) = NearAll(R, S, M)
    <3>1. ASSUME NEW i \in Reached(S) PROVE i \in NearAll(R, S, M)
      <4>. PICK sc \in Q : sc[1] \in S /\ i = sc[2]
        OBVIOUS
      <4>1. sc \in R /\ sc = <<sc[1], sc[2]>> /\ sc[2] \in 1 .. M
        OBVIOUS
      <4>. QED
        BY <4>1 DEF NearAll
    <3>2. ASSUME NEW i \in NearAll(R, S, M) PROVE i \in Reached(S)
      <4>. PICK t \in S : <<t, i>> \in R
        BY DEF NearAll
      <4>. PICK sc : sc = <<t, i>>
        OBVIOUS
      <4>1. sc \in Q /\ sc[1] \in S /\ i = sc[2]
        BY <1>1
      <4>. QED
        BY <4>1
    <3>. HIDE DEF Reached
    <3>. QED
      BY <3>1, <3>2
  <2>. QED
    BY <1>2, <2>1 DEF Room
<1>4. k \in 0 .. s /\ (\E S \in SUBSET (1 .. s) : Size(S) = k) /\ \A S \in SUBSET (1 .. s) : k <= Size(S)
  <2>1. \E S \in SUBSET (1 .. s) : Room(S, s, R, M) = k
    BY DEF Best
  <2>2. \A S \in SUBSET (1 .. s) : k <= Room(S, s, R, M)
    BY RoomBounds DEF Best
  <2>3. k \in 0 .. s
    <3>1. Full(f, m, M) \in SUBSET (1 .. s)
      BY DEF Best
    <3>2. IsFiniteSet(1 .. s)
      BY ONLY FS_Interval, <1>1
    <3>3. k <= s /\ k \in Nat
      BY ONLY <1>2, <3>1, <3>2, FS_Subset, FS_CardinalityType, k = Cardinality(Full(f, m, M))
    <3>. QED
      BY ONLY <1>1, <3>3
  <2>. HIDE DEF Size
  <2>. QED
    BY <1>3, <2>1, <2>2, <2>3
<1>5. Rank(1 .. s, Q) = CHOOSE n \in 0 .. s : (\E S \in SUBSET (1 .. s) : Size(S) = n) /\ \A S \in SUBSET (1 .. s) : n <= Size(S)
  BY <1>2 DEF Rank
<1>6. \A n \in 0 .. s : (\E S \in SUBSET (1 .. s) : Size(S) = n) /\ (\A S \in SUBSET (1 .. s) : n <= Size(S)) => n = k
  <2>1. ASSUME NEW n \in 0 .. s, NEW S \in SUBSET (1 .. s), Size(S) = n, \A V \in SUBSET (1 .. s) : n <= Size(V)
        PROVE  n = k
    <3>. PICK V \in SUBSET (1 .. s) : Size(V) = k
      BY <1>4
    <3>1. n <= k /\ k <= n
      <4>. HIDE DEF Size
      <4>. QED
        BY <1>4, <2>1
    <3>2. n \in Nat /\ k \in Nat
      BY <1>4
    <3>. QED
      BY ONLY <3>1, <3>2
  <2>. HIDE DEF Size
  <2>. QED
    BY <2>1
<1>. HIDE DEF Size
<1>. QED
  BY <1>4, <1>5, <1>6

\* A slot holds a card exactly when it adds to what can be filled.
Ranked(held, R, m, M) ==
    \A s \in 1 .. m : (\E i \in 1 .. M : held[i] = s) <=>
        Rank(1 .. s, {sc \in R : sc[1] <= s}) > Rank(1 .. (s - 1), {sc \in R : sc[1] < s})
LEMMA MatchRanks ==
  ASSUME NEW m \in Nat, NEW M \in Nat, NEW R \in SUBSET ((1 .. m) \X (1 .. M)),
         NEW candidates, Taking(candidates, m, M, R), Offering(candidates, m, M, R),
         NEW cards, DOMAIN cards = 1 .. M, Len(cards) = M, NEW held, held = MatchSlots(candidates, cards)
  PROVE  Ranked(held, R, m, M)
<1>0. Len(candidates) = m
  BY DEF Taking
<1>. PICK matched : /\ held = matched[m]
                    /\ \A s \in 0 .. m : matched[s] = OnMatch(candidates, cards, s, matched[s - 1])
  BY <1>0, MatchIs
<1>. DEFINE BestAt(s) == Best(matched[s], s, m, M, R)
<1>. DEFINE F(s) == Full(matched[s], m, M)
<1>1. BestAt(0)
  <2>. PICK f : f = matched[0]
    OBVIOUS
  <2>0. 0 \in 0 .. m
    OBVIOUS
  <2>1. f = [i \in 1 .. M |-> 0]
    BY <2>0 DEF OnMatch
  <2>2. Accepted(f, m, M, R)
    BY <2>1 DEF Accepted
  <2>3. Full(f, m, M) = {}
    BY <2>1 DEF Full
  <2>4. \A i, j \in 1 .. M : f[i] # 0 /\ f[i] = f[j] => i = j
    BY <2>1
  <2>5. {} \in SUBSET (1 .. 0) /\ Room({}, 0, R, M) = Cardinality(Full(f, m, M))
    <3>1. NearAll(R, {}, M) = {}
      BY DEF NearAll
    <3>2. Cardinality({}) = 0
      BY FS_EmptySet
    <3>3. Room({}, 0, R, M) = 0 - 0 + 0
      BY ONLY <3>1, <3>2 DEF Room
    <3>. QED
      BY <2>3, <3>2, <3>3
  <2>. QED
    BY <2>2, <2>3, <2>4, <2>5 DEF Best
<1>2. ASSUME NEW s \in 1 .. m, BestAt(s - 1)
      PROVE  /\ BestAt(s)
             /\ \/ Changed(s, matched[s - 1], matched[s], m, M) /\ s \in F(s)
                                                     /\ Cardinality(F(s)) = Cardinality(F(s - 1)) + 1
                \/ matched[s] = matched[s - 1] /\ s \notin F(s)
  <2>. PICK f : f = matched[s - 1]
    OBVIOUS
  <2>. PICK g : g = matched[s]
    OBVIOUS
  <2>1. g = OnMatch(candidates, cards, s, f)
    OBVIOUS
  <2>2. Best(f, s - 1, m, M, R) /\ Accepted(f, m, M, R)
    BY <1>2 DEF Best
  <2>3. Accepted(g, m, M, R) /\ Enlarged(f, g, s, m, M, R)
    BY <2>1, <2>2, MatchGrows
  <2>4. CASE Changed(s, f, g, m, M)
    <3>1. Best(g, s, m, M, R) /\ s \in Full(g, m, M) /\ Cardinality(Full(g, m, M)) = Cardinality(Full(f, m, M)) + 1
      BY <2>2, <2>3, <2>4, GrowthBest
    <3>. QED
      BY <2>4, <3>1
  <2>5. CASE g = f /\ Stuck(f, s, M, R)
    <3>1. Best(g, s, m, M, R)
      BY <2>2, <2>5, StuckBest
    <3>2. Full(f, m, M) \subseteq 1 .. (s - 1)
      BY <2>2 DEF Best
    <3>3. s \notin Full(g, m, M)
      BY <2>5, <3>2
    <3>. QED
      BY <2>5, <3>1, <3>3
  <2>. QED
    BY <2>3, <2>4, <2>5 DEF Enlarged
<1>. HIDE DEF BestAt
<1>3. \A s \in 0 .. m : BestAt(s)
  <2>. DEFINE T == {s \in 0 .. m : BestAt(s)}
  <2>1. 0 \in T
    BY <1>1
  <2>2. ASSUME NEW n \in 0 .. m, n < m, n \in T PROVE n + 1 \in T
    <3>. PICK s \in 1 .. m : s = n + 1
      BY <2>2
    <3>1. s - 1 = n /\ s \in 0 .. m
      OBVIOUS
    <3>2. BestAt(s)
      BY <1>2, <2>2, <3>1
    <3>. QED
      BY <3>1, <3>2
  <2>3. \A s \in 0 .. m : s \in T
    <3>. HIDE DEF T
    <3>. QED
      BY <2>1, <2>2, UpTo
  <2>. QED
    BY <2>3
<1>4. ASSUME NEW s \in 1 .. m PROVE \A u \in 0 .. m : u >= s => (s \in F(u) <=> s \in F(s))
  <2>. DEFINE T == {u \in 0 .. m : u >= s => (s \in F(u) <=> s \in F(s))}
  <2>1. 0 \in T
    OBVIOUS
  <2>2. ASSUME NEW n \in 0 .. m, n < m, n \in T PROVE n + 1 \in T
    <3>. PICK u \in 1 .. m : u = n + 1
      BY <2>2
    <3>1. u - 1 = n /\ u \in 0 .. m
      OBVIOUS
    <3>2. CASE u <= s
      <4>1. u >= s => u = s
        BY <3>2
      <4>. QED
        BY <3>1, <4>1
    <3>3. CASE u > s
      <4>. PICK f : f = matched[n]
        OBVIOUS
      <4>. PICK g : g = matched[u]
        OBVIOUS
      <4>1. s \in Full(f, m, M) <=> s \in F(s)
        BY <2>2, <3>3
      <4>2. Best(f, n, m, M, R) /\ Best(g, u, m, M, R)
        BY <1>3, <3>1 DEF BestAt
      <4>3. Changed(u, f, g, m, M) \/ g = f
        BY <1>2, <1>3, <3>1
      <4>4. s \in Full(g, m, M) <=> s \in Full(f, m, M)
        <5>1. CASE g = f
          BY <5>1
        <5>2. CASE Changed(u, f, g, m, M)
          <6>1. Cardinality(Holders(g, s, M)) = Cardinality(Holders(f, s, M)) + Bit(s = u)
            BY <5>2 DEF Changed
          <6>2. Bit(s = u) = 0
            BY <3>3 DEF Bit
          <6>3. Cardinality(Holders(f, s, M)) \in Nat
            BY HoldersCount
          <6>4. Cardinality(Holders(g, s, M)) = Cardinality(Holders(f, s, M))
            BY ONLY <6>1, <6>2, <6>3
          <6>5. Accepted(f, m, M, R) /\ Accepted(g, m, M, R)
            BY <4>2 DEF Best
          <6>6. /\ s \in Full(f, m, M) <=> Cardinality(Holders(f, s, M)) # 0
                /\ s \in Full(g, m, M) <=> Cardinality(Holders(g, s, M)) # 0
            BY <6>5, HoldersFew
          <6>. QED
            BY ONLY <6>4, <6>6
        <5>. QED
          BY <4>3, <5>1, <5>2
      <4>. QED
        BY <3>1, <4>1, <4>4
    <3>. QED
      BY <3>2, <3>3
  <2>3. \A u \in 0 .. m : u \in T
    <3>. HIDE DEF T
    <3>. QED
      BY <2>1, <2>2, UpTo
  <2>. QED
    BY <2>3
<1>5. ASSUME NEW s \in 0 .. m, NEW Q, Q = {sc \in R : sc[1] <= s}
      PROVE  Rank(1 .. s, Q) = Cardinality(F(s)) /\ Cardinality(F(s)) \in Nat
  <2>1. Best(matched[s], s, m, M, R)
    BY <1>3 DEF BestAt
  <2>2. Rank(1 .. s, Q) = Cardinality(Full(matched[s], m, M))
    BY <1>5, <2>1, RankIs
  <2>3. {} \in SUBSET (1 .. m)
    OBVIOUS
  <2>. QED
    BY <2>2, <2>3, Sizes
<1>6. ASSUME NEW s \in 1 .. m
      PROVE  (\E i \in 1 .. M : held[i] = s) <=>
                Rank(1 .. s, {sc \in R : sc[1] <= s}) > Rank(1 .. (s - 1), {sc \in R : sc[1] < s})
  <2>. PICK n \in 0 .. m : n = s - 1
    OBVIOUS
  <2>. PICK P, Q : P = {sc \in R : sc[1] <= n} /\ Q = {sc \in R : sc[1] <= s}
    OBVIOUS
  <2>1. P = {sc \in R : sc[1] < s}
    <3>1. \A sc \in R : sc[1] \in 1 .. m
      OBVIOUS
    <3>2. \A a \in 1 .. m : a <= n <=> a < s
      OBVIOUS
    <3>. QED
      BY ONLY <3>1, <3>2, P = {sc \in R : sc[1] <= n}
  <2>2. Rank(1 .. s, Q) = Cardinality(F(s)) /\ Cardinality(F(s)) \in Nat
    <3>. HIDE DEF F
    <3>1. s \in 0 .. m
      OBVIOUS
    <3>. QED
      BY ONLY <1>5, <3>1, Q = {sc \in R : sc[1] <= s}
  <2>3. Rank(1 .. n, P) = Cardinality(F(n)) /\ Cardinality(F(n)) \in Nat
    <3>. HIDE DEF F
    <3>. QED
      BY ONLY <1>5, n \in 0 .. m, P = {sc \in R : sc[1] <= n}
  <2>4. (\E i \in 1 .. M : held[i] = s) <=> s \in F(s)
    <3>1. m \in 0 .. m /\ m >= s
      OBVIOUS
    <3>2. s \in F(m) <=> s \in F(s)
      BY <1>4, <3>1
    <3>3. (\E i \in 1 .. M : held[i] = s) <=> s \in F(m)
      BY DEF Full
    <3>. QED
      BY ONLY <3>2, <3>3
  <2>5. BestAt(n)
    BY <1>3
  <2>6. \/ s \in F(s) /\ Cardinality(F(s)) = Cardinality(F(n)) + 1
        \/ matched[s] = matched[n] /\ s \notin F(s)
    BY <1>2, <2>5
  <2>7. s \in F(s) <=> Cardinality(F(s)) > Cardinality(F(n))
    <3>1. matched[s] = matched[n] => F(s) = F(n)
      OBVIOUS
    <3>. HIDE DEF F
    <3>. QED
      BY ONLY <2>2, <2>3, <2>6, <3>1
  <2>. HIDE DEF F
  <2>. QED
    BY ONLY <2>1, <2>2, <2>3, <2>4, <2>7, n = s - 1, Q = {sc \in R : sc[1] <= s}
<1>. QED
  BY ONLY <1>6 DEF Ranked

LEMMA CandidatesOffer ==
  ASSUME NEW m \in Nat, NEW M \in Nat, NEW q, DOMAIN q.slots = 1 .. m, DOMAIN q.cards = 1 .. M, NEW R
  PROVE  Offering(Candidates(q, R), m, M, R)
<1>. PICK candidates : candidates = Candidates(q, R)
  OBVIOUS
<1>1. candidates = [s \in 1 .. m |-> Ascending({i \in 1 .. M : <<s, i>> \in R})]
  BY DEF Candidates
<1>2. ASSUME NEW s \in 1 .. m, NEW i \in Near(R, s, M)
      PROVE  \E k \in 1 .. Len(candidates[s]) : candidates[s][k] = i
  <2>. PICK S \in SUBSET (1 .. M) : S = Near(R, s, M)
    BY DEF Near
  <2>. PICK list : list = candidates[s]
    OBVIOUS
  <2>1. list = Ascending(S)
    BY <1>1 DEF Near
  <2>2. list \in Seq(1 .. M) /\ ToSet(list) = S
    BY <2>1, AscendingOnce
  <2>3. DOMAIN list = 1 .. Len(list) /\ ToSet(list) = {list[k] : k \in DOMAIN list}
    BY <2>2 DEF ToSet
  <2>. QED
    BY <2>2, <2>3
<1>. QED
  BY <1>2 DEF Offering

MaximumFor(program) ==
    LET p    == Placement(Slots(program), Cards, Facts)
        fits == FreeMatches(p, "yes")
        held == MatchSlots(Candidates(p, fits), Cards)
    IN  \A s \in DOMAIN p.slots :
          (\E i \in DOMAIN held : held[i] = s) <=>
             Rank(1 .. s, {sc \in fits : sc[1] <= s}) >
             Rank(1 .. (s - 1), {sc \in fits : sc[1] < s})
\* The matching leaves no slot empty that some other assignment would fill
\* without emptying an earlier one.
THEOREM MatchingStaysMaximum == Spec => []MatchingIsMaximum
<1>1. Init => Current
  BY DEF Init, Current
<1>2. Current /\ [Next]_vars => Current'
  BY StepCurrent
<1>3. Current /\ BoardIsOrdered => MatchingIsMaximum
  <2>1. SUFFICES ASSUME Current, BoardIsOrdered, report # None PROVE MatchingIsMaximum
    BY DEF MatchingIsMaximum, Reported
  <2>2. report = Evaluate(Bundle(plan)) /\ Ordered(plan) /\ SidebarOK(plan)
    BY <2>1 DEF Current, BoardIsOrdered, TypeOK, Ordered
  <2>. PICK b : b = Bundle(plan)
    OBVIOUS
  <2>3. b.plan = plan /\ b.facts = Facts
    BY DEF Bundle
  <2>. PICK chosen : chosen = ChosenPrograms(b)
    OBVIOUS
  <2>. PICK n \in Nat : chosen \in [1 .. n -> Programs]
    BY <2>2, ChosenAre
  <2>4. report.programs = [k \in 1 .. n |-> ProgramReport(plan, chosen[k], Cards, Facts)]
    BY <2>2, <2>3 DEF Evaluate, Reports, Summary, Cards
  <2>5. PICK M \in Nat : DOMAIN Cards = 1 .. M /\ Len(Cards) = M /\ Apart(Cards)
    BY <2>2, CardsApart DEF Cards
  <2>6. ASSUME NEW k \in 1 .. n, NEW program, program = chosen[k] PROVE MaximumFor(program)
    <3>. PICK slots : slots = Slots(program)
      OBVIOUS
    <3>. PICK p : p = Placement(slots, Cards, Facts)
      OBVIOUS
    <3>. PICK cards : cards = Cards
      OBVIOUS
    <3>. PICK m \in Nat : DOMAIN slots = 1 .. m
      <4>1. ProgramOK(program) /\ MaxDepth \in Nat
        BY <2>6, RulesAssumption
      <4>. QED
        BY ONLY <4>1, SlotsAre, slots = Slots(program)
    <3>1. p.slots = slots /\ p.cards = cards
      BY <2>5, PinsAre
    <3>. PICK R : R = FreeMatches(p, "yes")
      OBVIOUS
    <3>. PICK candidates : candidates = Candidates(p, R)
      OBVIOUS
    <3>. PICK held : held = MatchSlots(candidates, cards)
      OBVIOUS
    <3>2. DOMAIN p.slots = 1 .. m /\ DOMAIN p.cards = 1 .. M /\ DOMAIN cards = 1 .. M /\ Len(cards) = M
      BY <2>5, <3>1
    <3>3. R \in SUBSET ((1 .. m) \X (1 .. M))
      BY <3>2 DEF FreeMatches
    <3>4. Taking(candidates, m, M, R) /\ Offering(candidates, m, M, R)
      BY ONLY <3>2, CandidatesAre, CandidatesOffer, m \in Nat, M \in Nat, candidates = Candidates(p, R)
    <3>5. held \in [1 .. M -> 0 .. m]
      BY ONLY <3>2, <3>4, MatchesAre, m \in Nat, M \in Nat, held = MatchSlots(candidates, cards)
    <3>6. Ranked(held, R, m, M)
      BY ONLY <3>2, <3>3, <3>4, MatchRanks, m \in Nat, M \in Nat, held = MatchSlots(candidates, cards)
    <3>7. DOMAIN held = 1 .. M
      BY <3>5
    <3>8. \A x \in DOMAIN p.slots : (\E i \in DOMAIN held : held[i] = x) <=>
             Rank(1 .. x, {sc \in R : sc[1] <= x}) > Rank(1 .. (x - 1), {sc \in R : sc[1] < x})
      BY ONLY <3>2, <3>6, <3>7 DEF Ranked
    <3>. QED
      BY ONLY <3>8, slots = Slots(program), p = Placement(slots, Cards, Facts), cards = Cards,
              R = FreeMatches(p, "yes"), candidates = Candidates(p, R), held = MatchSlots(candidates, cards)
         DEF MaximumFor
  <2>7. DOMAIN report.programs = 1 .. n
    BY <2>4
  <2>8. \A k \in DOMAIN report.programs : MaximumFor(ChosenPrograms(Bundle(plan))[k])
    BY <2>6, <2>7
  <2>. QED
    BY ONLY <2>8 DEF MatchingIsMaximum, Reported, MaximumFor
<1>. QED
  BY <1>1, <1>2, <1>3, BoardStaysOrdered, PTL DEF Spec
-----------------------------------------------------------------------------
(* Prerequisites.  What a text is read as, and what an expression is judged  *)
(* to be, level by level.                                                   *)

Divided(S) == S \cup UNION {ToSet(Parts(r)) : r \in S}
IsDivided(f, root, D) == f = [n \in 0 .. D |-> IF n = 0 THEN {root} ELSE Divided(f[n - 1])]
LEMMA DividedExists ==
  ASSUME NEW root, NEW D \in Nat
  PROVE  \E f : IsDivided(f, root, D)
<1>. DEFINE S == {n \in 0 .. D : \E f : IsDivided(f, root, n)}
<1>1. 0 \in S
  <2>. PICK f : f = [n \in 0 .. 0 |-> {root}]
    OBVIOUS
  <2>1. IsDivided(f, root, 0)
    BY DEF IsDivided
  <2>. QED
    BY <2>1
<1>2. ASSUME NEW n \in 0 .. D, n < D, n \in S PROVE n + 1 \in S
  <2>. PICK f : IsDivided(f, root, n)
    BY <1>2
  <2>. PICK m \in 1 .. D : m = n + 1
    BY <1>2
  <2>. PICK g : g = [k \in 0 .. m |-> IF k = m THEN Divided(f[n]) ELSE f[k]]
    OBVIOUS
  <2>1. \A k \in 0 .. m : g[k] = IF k = m THEN Divided(f[n]) ELSE f[k]
    OBVIOUS
  <2>2. \A k \in 0 .. n : f[k] = IF k = 0 THEN {root} ELSE Divided(f[k - 1])
    BY DEF IsDivided
  <2>3. ASSUME NEW k \in 0 .. m PROVE g[k] = IF k = 0 THEN {root} ELSE Divided(g[k - 1])
    <3>1. CASE k = m
      <4>1. k # 0 /\ k - 1 = n /\ n \in 0 .. m /\ n # m
        BY <3>1
      <4>. QED
        BY ONLY <2>1, <3>1, <4>1, k \in 0 .. m
    <3>2. CASE k # m
      <4>1. k \in 0 .. n /\ (k # 0 => k - 1 \in 0 .. m /\ k - 1 # m)
        BY <3>2
      <4>2. g[k] = f[k] /\ (k # 0 => g[k - 1] = f[k - 1])
        BY ONLY <2>1, <3>2, <4>1, k \in 0 .. m
      <4>. QED
        BY ONLY <2>2, <4>1, <4>2
    <3>. QED
      BY <3>1, <3>2
  <2>4. g = [k \in 0 .. m |-> g[k]]
    OBVIOUS
  <2>5. IsDivided(g, root, m)
    BY ONLY <2>3, <2>4 DEF IsDivided
  <2>. QED
    BY <2>5
<1>3. \A n \in 0 .. D : n \in S
  <2>. HIDE DEF S
  <2>. QED
    BY <1>1, <1>2, UpTo
<1>. QED
  BY <1>3

\* Down to one level more is with the parts of each expression.
LEMMA PartsIs ==
  ASSUME NEW root, NEW d \in Nat
  PROVE  /\ Below(root, 0, Parts) = {root}
         /\ Below(root, d + 1, Parts) = Divided(Below(root, d, Parts))
<1>. DEFINE at(D) == CHOOSE f : IsDivided(f, root, D)
<1>1. ASSUME NEW D \in Nat
      PROVE  /\ Below(root, D, Parts) = at(D)[D]
             /\ \A n \in 0 .. D : at(D)[n] = IF n = 0 THEN {root} ELSE Divided(at(D)[n - 1])
  <2>1. IsDivided(at(D), root, D)
    BY DividedExists
  <2>2. Below(root, D, Parts) = at(D)[D]
    BY DEF Below, IsDivided, Divided
  <2>. HIDE DEF at
  <2>. QED
    BY <2>1, <2>2 DEF IsDivided
<1>. HIDE DEF at
<1>2. Below(root, 0, Parts) = {root}
  BY <1>1
<1>. PICK m \in Nat : m = d + 1
  OBVIOUS
<1>. DEFINE S == {n \in 0 .. d : at(d)[n] = at(m)[n]}
<1>3. 0 \in S
  BY <1>1
<1>4. ASSUME NEW n \in 0 .. d, n < d, n \in S PROVE n + 1 \in S
  <2>1. n + 1 \in 0 .. d /\ n + 1 \in 0 .. m /\ n + 1 # 0 /\ (n + 1) - 1 = n
    BY <1>4
  <2>2. at(d)[n + 1] = Divided(at(d)[n]) /\ at(m)[n + 1] = Divided(at(m)[n]) /\ at(d)[n] = at(m)[n]
    BY <1>1, <1>4, <2>1
  <2>. QED
    BY <2>1, <2>2
<1>5. \A n \in 0 .. d : n \in S
  <2>. HIDE DEF S
  <2>. QED
    BY <1>3, <1>4, UpTo
<1>6. at(d)[d] = at(m)[d]
  <2>1. d \in 0 .. d
    OBVIOUS
  <2>. QED
    BY <1>5, <2>1
<1>7. at(m)[m] = Divided(at(m)[d])
  <2>1. m \in 0 .. m /\ m # 0 /\ m - 1 = d
    OBVIOUS
  <2>. QED
    BY <1>1, <2>1
<1>. QED
  BY <1>1, <1>2, <1>6, <1>7

\* What each part is judged, with so many levels left to read.
Judged(e, target, taken, facts, n, below) ==
    [p \in Below(e, MaxExprDepth + 1 - n, Parts) |->
        IF n = 0 THEN Nothing(Unknown)
        ELSE JudgeOne(p, [i \in DOMAIN Parts(p) |-> below[Parts(p)[i]]], target, taken, facts)]
IsJudged(f, e, target, taken, facts, N) == f = [n \in 0 .. N |-> Judged(e, target, taken, facts, n, f[n - 1])]
LEMMA JudgedExists ==
  ASSUME NEW e, NEW target, NEW taken, NEW facts, NEW N \in Nat, \A a, b : Judged(e, target, taken, facts, 0, a) = Judged(e, target, taken, facts, 0, b)
  PROVE  \E f : IsJudged(f, e, target, taken, facts, N)
<1>. DEFINE S == {n \in 0 .. N : \E f : IsJudged(f, e, target, taken, facts, n)}
<1>1. 0 \in S
  <2>. PICK f : f = [n \in 0 .. 0 |-> Judged(e, target, taken, facts, 0, 0)]
    OBVIOUS
  <2>1. f = [n \in 0 .. 0 |-> f[n]] /\ \A n \in 0 .. 0 : n = 0 /\ f[n] = Judged(e, target, taken, facts, 0, 0)
    OBVIOUS
  <2>2. \A n \in 0 .. 0 : f[n] = Judged(e, target, taken, facts, n, f[n - 1])
    BY <2>1
  <2>3. IsJudged(f, e, target, taken, facts, 0)
    BY <2>1, <2>2 DEF IsJudged
  <2>. QED
    BY <2>3
<1>2. ASSUME NEW n \in 0 .. N, n < N, n \in S PROVE n + 1 \in S
  <2>. PICK f : IsJudged(f, e, target, taken, facts, n)
    BY <1>2
  <2>. PICK m \in 1 .. N : m = n + 1
    BY <1>2
  <2>. PICK new : new = Judged(e, target, taken, facts, m, f[n])
    OBVIOUS
  <2>. PICK g : g = [k \in 0 .. m |-> IF k = m THEN new ELSE f[k]]
    OBVIOUS
  <2>1. \A k \in 0 .. m : g[k] = IF k = m THEN new ELSE f[k]
    OBVIOUS
  <2>2. \A k \in 0 .. n : f[k] = Judged(e, target, taken, facts, k, f[k - 1])
    BY DEF IsJudged
  <2>3. ASSUME NEW k \in 0 .. m PROVE g[k] = Judged(e, target, taken, facts, k, g[k - 1])
    <3>1. CASE k = m
      <4>1. k - 1 = n /\ n \in 0 .. m /\ n # m
        BY <3>1
      <4>2. g[k - 1] = f[n] /\ g[k] = new
        BY ONLY <2>1, <3>1, <4>1, k \in 0 .. m
      <4>. QED
        BY ONLY <3>1, <4>2, new = Judged(e, target, taken, facts, m, f[n])
    <3>2. CASE k # m /\ k # 0
      <4>1. k \in 0 .. n /\ k - 1 \in 0 .. m /\ k - 1 # m
        BY <3>2
      <4>2. g[k] = f[k] /\ g[k - 1] = f[k - 1]
        BY ONLY <2>1, <3>2, <4>1, k \in 0 .. m
      <4>3. f[k] = Judged(e, target, taken, facts, k, f[k - 1])
        BY <2>2, <4>1
      <4>. QED
        BY ONLY <4>2, <4>3
    <3>3. CASE k # m /\ k = 0
      <4>1. k \in 0 .. n
        BY <3>3
      <4>2. g[k] = f[k]
        BY ONLY <2>1, <3>3, k \in 0 .. m
      <4>3. f[k] = Judged(e, target, taken, facts, 0, f[k - 1])
        BY <2>2, <3>3, <4>1
      <4>4. Judged(e, target, taken, facts, 0, f[k - 1]) = Judged(e, target, taken, facts, 0, g[k - 1])
        OBVIOUS
      <4>. QED
        BY ONLY <3>3, <4>2, <4>3, <4>4
    <3>. QED
      BY <3>1, <3>2, <3>3
  <2>4. g = [k \in 0 .. m |-> g[k]]
    OBVIOUS
  <2>5. IsJudged(g, e, target, taken, facts, m)
    BY ONLY <2>3, <2>4 DEF IsJudged
  <2>. QED
    BY <2>5
<1>3. \A n \in 0 .. N : n \in S
  <2>. HIDE DEF S
  <2>. QED
    BY <1>1, <1>2, UpTo
<1>. QED
  BY <1>3

\* One term of a list after another, from a place in the text.
Spelled(toks, at, inner, n, before) ==
    IF n = 0 THEN [ok |-> Term(toks, at, inner).ok, at |-> Term(toks, at, inner).at, op |-> None,
                   children |-> <<Term(toks, at, inner).expr>>]
    ELSE Rest(toks, before, inner)
IsSpelled(f, toks, at, inner, N) == f = [n \in 0 .. N |-> Spelled(toks, at, inner, n, f[n - 1])]
LEMMA SpelledExists ==
  ASSUME NEW toks, NEW at, NEW inner, NEW N \in Nat, \A a, b : Spelled(toks, at, inner, 0, a) = Spelled(toks, at, inner, 0, b)
  PROVE  \E f : IsSpelled(f, toks, at, inner, N)
<1>. DEFINE S == {n \in 0 .. N : \E f : IsSpelled(f, toks, at, inner, n)}
<1>1. 0 \in S
  <2>. PICK f : f = [n \in 0 .. 0 |-> Spelled(toks, at, inner, 0, 0)]
    OBVIOUS
  <2>1. f = [n \in 0 .. 0 |-> f[n]] /\ \A n \in 0 .. 0 : n = 0 /\ f[n] = Spelled(toks, at, inner, 0, 0)
    OBVIOUS
  <2>2. \A n \in 0 .. 0 : f[n] = Spelled(toks, at, inner, n, f[n - 1])
    BY <2>1
  <2>3. IsSpelled(f, toks, at, inner, 0)
    BY <2>1, <2>2 DEF IsSpelled
  <2>. QED
    BY <2>3
<1>2. ASSUME NEW n \in 0 .. N, n < N, n \in S PROVE n + 1 \in S
  <2>. PICK f : IsSpelled(f, toks, at, inner, n)
    BY <1>2
  <2>. PICK m \in 1 .. N : m = n + 1
    BY <1>2
  <2>. PICK new : new = Spelled(toks, at, inner, m, f[n])
    OBVIOUS
  <2>. PICK g : g = [k \in 0 .. m |-> IF k = m THEN new ELSE f[k]]
    OBVIOUS
  <2>1. \A k \in 0 .. m : g[k] = IF k = m THEN new ELSE f[k]
    OBVIOUS
  <2>2. \A k \in 0 .. n : f[k] = Spelled(toks, at, inner, k, f[k - 1])
    BY DEF IsSpelled
  <2>3. ASSUME NEW k \in 0 .. m PROVE g[k] = Spelled(toks, at, inner, k, g[k - 1])
    <3>1. CASE k = m
      <4>1. k - 1 = n /\ n \in 0 .. m /\ n # m
        BY <3>1
      <4>2. g[k - 1] = f[n] /\ g[k] = new
        BY ONLY <2>1, <3>1, <4>1, k \in 0 .. m
      <4>. QED
        BY ONLY <3>1, <4>2, new = Spelled(toks, at, inner, m, f[n])
    <3>2. CASE k # m /\ k # 0
      <4>1. k \in 0 .. n /\ k - 1 \in 0 .. m /\ k - 1 # m
        BY <3>2
      <4>2. g[k] = f[k] /\ g[k - 1] = f[k - 1]
        BY ONLY <2>1, <3>2, <4>1, k \in 0 .. m
      <4>3. f[k] = Spelled(toks, at, inner, k, f[k - 1])
        BY <2>2, <4>1
      <4>. QED
        BY ONLY <4>2, <4>3
    <3>3. CASE k # m /\ k = 0
      <4>1. k \in 0 .. n
        BY <3>3
      <4>2. g[k] = f[k]
        BY ONLY <2>1, <3>3, k \in 0 .. m
      <4>3. f[k] = Spelled(toks, at, inner, 0, f[k - 1])
        BY <2>2, <3>3, <4>1
      <4>4. Spelled(toks, at, inner, 0, f[k - 1]) = Spelled(toks, at, inner, 0, g[k - 1])
        OBVIOUS
      <4>. QED
        BY ONLY <3>3, <4>2, <4>3, <4>4
    <3>. QED
      BY <3>1, <3>2, <3>3
  <2>4. g = [k \in 0 .. m |-> g[k]]
    OBVIOUS
  <2>5. IsSpelled(g, toks, at, inner, m)
    BY ONLY <2>3, <2>4 DEF IsSpelled
  <2>. QED
    BY <2>5
<1>3. \A n \in 0 .. N : n \in S
  <2>. HIDE DEF S
  <2>. QED
    BY <1>1, <1>2, UpTo
<1>. QED
  BY <1>3

\* What is read from each place, with so many parentheses within.
Nested(toks, n, within) == [at \in 1 .. (Len(toks) + 1) |-> Expression(toks, at, IF n = 0 THEN <<>> ELSE within)]
IsNested(f, toks, N) == f = [n \in 0 .. N |-> Nested(toks, n, f[n - 1])]
LEMMA NestedExists ==
  ASSUME NEW toks, NEW N \in Nat, \A a, b : Nested(toks, 0, a) = Nested(toks, 0, b)
  PROVE  \E f : IsNested(f, toks, N)
<1>. DEFINE S == {n \in 0 .. N : \E f : IsNested(f, toks, n)}
<1>1. 0 \in S
  <2>. PICK f : f = [n \in 0 .. 0 |-> Nested(toks, 0, 0)]
    OBVIOUS
  <2>1. f = [n \in 0 .. 0 |-> f[n]] /\ \A n \in 0 .. 0 : n = 0 /\ f[n] = Nested(toks, 0, 0)
    OBVIOUS
  <2>2. \A n \in 0 .. 0 : f[n] = Nested(toks, n, f[n - 1])
    BY <2>1
  <2>3. IsNested(f, toks, 0)
    BY <2>1, <2>2 DEF IsNested
  <2>. QED
    BY <2>3
<1>2. ASSUME NEW n \in 0 .. N, n < N, n \in S PROVE n + 1 \in S
  <2>. PICK f : IsNested(f, toks, n)
    BY <1>2
  <2>. PICK m \in 1 .. N : m = n + 1
    BY <1>2
  <2>. PICK new : new = Nested(toks, m, f[n])
    OBVIOUS
  <2>. PICK g : g = [k \in 0 .. m |-> IF k = m THEN new ELSE f[k]]
    OBVIOUS
  <2>1. \A k \in 0 .. m : g[k] = IF k = m THEN new ELSE f[k]
    OBVIOUS
  <2>2. \A k \in 0 .. n : f[k] = Nested(toks, k, f[k - 1])
    BY DEF IsNested
  <2>3. ASSUME NEW k \in 0 .. m PROVE g[k] = Nested(toks, k, g[k - 1])
    <3>1. CASE k = m
      <4>1. k - 1 = n /\ n \in 0 .. m /\ n # m
        BY <3>1
      <4>2. g[k - 1] = f[n] /\ g[k] = new
        BY ONLY <2>1, <3>1, <4>1, k \in 0 .. m
      <4>. QED
        BY ONLY <3>1, <4>2, new = Nested(toks, m, f[n])
    <3>2. CASE k # m /\ k # 0
      <4>1. k \in 0 .. n /\ k - 1 \in 0 .. m /\ k - 1 # m
        BY <3>2
      <4>2. g[k] = f[k] /\ g[k - 1] = f[k - 1]
        BY ONLY <2>1, <3>2, <4>1, k \in 0 .. m
      <4>3. f[k] = Nested(toks, k, f[k - 1])
        BY <2>2, <4>1
      <4>. QED
        BY ONLY <4>2, <4>3
    <3>3. CASE k # m /\ k = 0
      <4>1. k \in 0 .. n
        BY <3>3
      <4>2. g[k] = f[k]
        BY ONLY <2>1, <3>3, k \in 0 .. m
      <4>3. f[k] = Nested(toks, 0, f[k - 1])
        BY <2>2, <3>3, <4>1
      <4>4. Nested(toks, 0, f[k - 1]) = Nested(toks, 0, g[k - 1])
        OBVIOUS
      <4>. QED
        BY ONLY <3>3, <4>2, <4>3, <4>4
    <3>. QED
      BY <3>1, <3>2, <3>3
  <2>4. g = [k \in 0 .. m |-> g[k]]
    OBVIOUS
  <2>5. IsNested(g, toks, m)
    BY ONLY <2>3, <2>4 DEF IsNested
  <2>. QED
    BY <2>5
<1>3. \A n \in 0 .. N : n \in S
  <2>. HIDE DEF S
  <2>. QED
    BY <1>1, <1>2, UpTo
<1>. QED
  BY <1>3

\* What a text is read as: an expression of courses, with names, and of lists,
\* none empty, of such expressions.
Asked(y, C) ==
    /\ y.kind \in {"course", "all", "any", "unparsed"}
    /\ y.kind = "course" => y.code # None
    /\ y.kind \in {"all", "any"} => \E n \in Nat : n > 0 /\ y.of \in [1 .. n -> C]
Grammar(C) == \A y \in C : Asked(y, C)
Legible(e) == \E C : e \in C /\ Grammar(C)

LEMMA AskedMore ==
  ASSUME NEW y, NEW C, NEW D, C \subseteq D, Asked(y, C)
  PROVE  Asked(y, D)
<1>1. ASSUME y.kind \in {"all", "any"} PROVE \E n \in Nat : n > 0 /\ y.of \in [1 .. n -> D]
  <2>. PICK n \in Nat : n > 0 /\ y.of \in [1 .. n -> C]
    BY <1>1 DEF Asked
  <2>1. y.of \in [1 .. n -> D]
    OBVIOUS
  <2>. QED
    BY <2>1
<1>. QED
  BY <1>1 DEF Asked

LEMMA LeafLegible ==
  ASSUME NEW e, e.kind \in {"course", "unparsed"}, e.kind = "course" => e.code # None
  PROVE  Legible(e)
<1>1. Asked(e, {e})
  BY DEF Asked
<1>2. e \in {e} /\ Grammar({e})
  BY <1>1 DEF Grammar
<1>. QED
  BY <1>2 DEF Legible

LEMMA GroupLegible ==
  ASSUME NEW n \in Nat, n > 0, NEW of, of = [i \in 1 .. n |-> of[i]], \A i \in 1 .. n : Legible(of[i]),
         NEW e, e.kind \in {"all", "any"}, e.of = of
  PROVE  Legible(e)
<1>. DEFINE c(i) == CHOOSE C : of[i] \in C /\ Grammar(C)
<1>1. \A i \in 1 .. n : of[i] \in c(i) /\ Grammar(c(i))
  BY DEF Legible
<1>. HIDE DEF c
<1>. PICK D : D = {e} \cup UNION {c(i) : i \in 1 .. n}
  OBVIOUS
<1>2. \A i \in 1 .. n : c(i) \subseteq D
  OBVIOUS
<1>3. of \in [1 .. n -> D]
  <2>1. \A i \in 1 .. n : of[i] \in D
    BY <1>1, <1>2
  <2>. QED
    BY ONLY <2>1, of = [i \in 1 .. n |-> of[i]]
<1>4. Asked(e, D)
  BY ONLY <1>3, n \in Nat, n > 0, e.kind \in {"all", "any"}, e.of = of DEF Asked
<1>5. ASSUME NEW y \in D PROVE Asked(y, D)
  <2>1. CASE y = e
    BY <1>4, <2>1
  <2>2. CASE \E i \in 1 .. n : y \in c(i)
    <3>. PICK i \in 1 .. n : y \in c(i)
      BY <2>2
    <3>1. Asked(y, c(i))
      BY <1>1 DEF Grammar
    <3>. QED
      BY ONLY <1>2, <3>1, AskedMore, i \in 1 .. n
  <2>. QED
    BY <2>1, <2>2
<1>6. e \in D /\ Grammar(D)
  BY <1>5 DEF Grammar
<1>. QED
  BY <1>6 DEF Legible

\* What is read from a place, and from each place within parentheses.
EntryOK(g) == g = [ok |-> g.ok, expr |-> g.expr, at |-> g.at] /\ (g.ok => Legible(g.expr))
Inner(inner, n) == inner = <<>> \/ (inner = [at \in 1 .. (n + 1) |-> inner[at]] /\ \A at \in 1 .. (n + 1) : EntryOK(inner[at]))

LEMMA RefusedRead == EntryOK(Refused)
BY DEF EntryOK, Refused

LEMMA TermRead ==
  ASSUME NEW toks, WordsOK(toks), NEW at, NEW inner, Inner(inner, Len(toks))
  PROVE  EntryOK(Term(toks, at, inner))
<1>. PICK N \in Nat : N = Len(toks) /\ DOMAIN toks = 1 .. N /\ \A i \in 1 .. N : toks[i] \in ToSet(toks)
  <2>1. toks \in Seq(ToSet(toks))
    BY DEF WordsOK
  <2>. QED
    BY <2>1
<1>. PICK kind : kind = KindAt(toks, at)
  OBVIOUS
<1>0. kind \in {"code", "open"} => (at \in 1 .. N /\ toks[at].kind = kind) \/ kind = "end"
  BY DEF KindAt
<1>00. "code" # "end" /\ "open" # "end"
  OBVIOUS
<1>1. CASE kind = "code"
  <2>1. Term(toks, at, inner) = [ok |-> TRUE, expr |-> Needs(toks[at].code), at |-> at + 1]
    BY <1>1 DEF Term
  <2>2. toks[at].code # None
    <3>1. toks[at] \in ToSet(toks) /\ toks[at].kind = "code"
      BY <1>0, <1>00, <1>1
    <3>. QED
      BY <3>1 DEF WordsOK
  <2>3. Legible(Needs(toks[at].code))
    <3>1. Needs(toks[at].code).kind = "course" /\ Needs(toks[at].code).code = toks[at].code
      BY DEF Needs
    <3>. QED
      BY <2>2, <3>1, LeafLegible
  <2>. QED
    BY <2>1, <2>3 DEF EntryOK
<1>2. CASE kind = "open" /\ inner # <<>>
  <2>. PICK group : group = inner[at + 1]
    OBVIOUS
  <2>1. Term(toks, at, inner) = IF group.ok /\ KindAt(toks, group.at) = "close" THEN [group EXCEPT !.at = @ + 1] ELSE Refused
    BY <1>2 DEF Term
  <2>2. EntryOK(group)
    <3>1. at + 1 \in 1 .. (N + 1)
      BY <1>0, <1>00, <1>2
    <3>. QED
      BY <1>2, <3>1 DEF Inner
  <2>3. CASE group.ok /\ KindAt(toks, group.at) = "close"
    <3>. PICK new : new = [group EXCEPT !.at = @ + 1]
      OBVIOUS
    <3>1. new.ok = group.ok /\ new.expr = group.expr /\ new = [ok |-> new.ok, expr |-> new.expr, at |-> new.at]
      BY ONLY <2>2, new = [group EXCEPT !.at = @ + 1] DEF EntryOK
    <3>2. EntryOK(new)
      BY <2>2, <3>1 DEF EntryOK
    <3>. QED
      BY <2>1, <2>3, <3>2
  <2>4. CASE ~(group.ok /\ KindAt(toks, group.at) = "close")
    BY <2>1, <2>4, RefusedRead
  <2>. QED
    BY <2>3, <2>4
<1>3. CASE kind # "code" /\ ~(kind = "open" /\ inner # <<>>)
  <2>1. Term(toks, at, inner) = Refused
    BY <1>3 DEF Term
  <2>. QED
    BY <2>1, RefusedRead
<1>. QED
  BY <1>1, <1>2, <1>3

\* A list of terms read so far.
HalfRead(st) ==
    st.ok => /\ st.op \in {None, "and", "or"}
             /\ \E n \in Nat : n > 0 /\ st.children = [i \in 1 .. n |-> st.children[i]] /\ \A i \in 1 .. n : Legible(st.children[i])

LEMMA RestRead ==
  ASSUME NEW toks, WordsOK(toks), NEW read, NEW inner, Inner(inner, Len(toks)), HalfRead(read)
  PROVE  HalfRead(Rest(toks, read, inner))
<1>. PICK op : op = KindAt(toks, read.at)
  OBVIOUS
<1>. PICK next : next = Term(toks, read.at + 1, inner)
  OBVIOUS
<1>1. EntryOK(next)
  BY TermRead
<1>2. CASE ~read.ok \/ op \notin {"and", "or"}
  <2>1. Rest(toks, read, inner) = read
    BY <1>2 DEF Rest
  <2>. QED
    BY <2>1
<1>3. CASE read.ok /\ op \in {"and", "or"}
  <2>. PICK kids : kids = Append(read.children, next.expr)
    OBVIOUS
  <2>. PICK st : st = [ok |-> read.op \in {None, op} /\ next.ok, at |-> next.at, op |-> op, children |-> kids]
    OBVIOUS
  <2>1. Rest(toks, read, inner) = st
    BY <1>3 DEF Rest
  <2>2. st.op = op /\ st.children = kids /\ (st.ok => next.ok)
    OBVIOUS
  <2>3. ASSUME st.ok
        PROVE  \E n \in Nat : n > 0 /\ kids = [i \in 1 .. n |-> kids[i]] /\ \A i \in 1 .. n : Legible(kids[i])
    <3>. PICK n \in Nat : n > 0 /\ read.children = [i \in 1 .. n |-> read.children[i]] /\ \A i \in 1 .. n : Legible(read.children[i])
      BY <1>3 DEF HalfRead
    <3>. PICK old : old = read.children
      OBVIOUS
    <3>. PICK new : new = next.expr
      OBVIOUS
    <3>. PICK S : S = {old[i] : i \in 1 .. n} \cup {new}
      OBVIOUS
    <3>1. old \in Seq(S) /\ Len(old) = n
      <4>1. \A i \in 1 .. n : old[i] \in S
        OBVIOUS
      <4>. QED
        BY <4>1, ListOf
    <3>2. /\ kids = [i \in 1 .. (n + 1) |-> kids[i]]
          /\ \A i \in 1 .. (n + 1) : kids[i] = IF i = n + 1 THEN new ELSE old[i]
      <4>1. kids \in Seq(S) /\ Len(kids) = n + 1
        BY ONLY <3>1, new \in S, kids = Append(old, new), n \in Nat
      <4>2. kids = [i \in 1 .. (n + 1) |-> kids[i]]
        BY ONLY <4>1, n \in Nat
      <4>3. kids[n + 1] = new
        BY ONLY <3>1, new \in S, kids = Append(old, new), n \in Nat
      <4>4. \A i \in 1 .. n : kids[i] = old[i]
        BY ONLY <3>1, new \in S, kids = Append(old, new), n \in Nat
      <4>5. \A i \in 1 .. (n + 1) : i = n + 1 \/ (i \in 1 .. n /\ i # n + 1)
        OBVIOUS
      <4>. QED
        BY ONLY <4>2, <4>3, <4>4, <4>5
    <3>3. Legible(new)
      BY <1>1, <2>2, <2>3 DEF EntryOK
    <3>4. \A i \in 1 .. (n + 1) : Legible(kids[i])
      <4>1. \A i \in 1 .. (n + 1) : i = n + 1 \/ i \in 1 .. n
        OBVIOUS
      <4>2. \A i \in 1 .. n : Legible(old[i])
        OBVIOUS
      <4>. QED
        BY ONLY <3>2, <3>3, <4>1, <4>2
    <3>5. n + 1 \in Nat /\ n + 1 > 0
      OBVIOUS
    <3>. QED
      BY ONLY <3>2, <3>4, <3>5
  <2>. QED
    BY ONLY <1>3, <2>1, <2>2, <2>3 DEF HalfRead
<1>. QED
  BY <1>2, <1>3

LEMMA ExpressionRead ==
  ASSUME NEW toks, WordsOK(toks), NEW at, NEW inner, Inner(inner, Len(toks))
  PROVE  EntryOK(Expression(toks, at, inner))
<1>. PICK N \in Nat : N = Len(toks)
  <2>1. toks \in Seq(ToSet(toks))
    BY DEF WordsOK
  <2>. QED
    BY <2>1
<1>. DEFINE read == CHOOSE f : IsSpelled(f, toks, at, inner, N)
<1>1. IsSpelled(read, toks, at, inner, N)
  <2>1. \A a, b : Spelled(toks, at, inner, 0, a) = Spelled(toks, at, inner, 0, b)
    BY DEF Spelled
  <2>. QED
    BY <2>1, SpelledExists
<1>. DEFINE all == read[N]
<1>2. Expression(toks, at, inner) =
        IF ~all.ok THEN Refused
        ELSE [ok |-> TRUE, at |-> all.at,
              expr |-> CASE all.op = None -> all.children[1] [] all.op = "and" -> AllOf(all.children)
                         [] OTHER -> AnyOf(all.children)]
  BY DEF Expression, IsSpelled, Spelled
<1>. HIDE DEF read
<1>. DEFINE S == {n \in 0 .. N : HalfRead(read[n])}
<1>3. \A n \in 0 .. N : read[n] = Spelled(toks, at, inner, n, read[n - 1])
  BY <1>1 DEF IsSpelled
<1>4. 0 \in S
  <2>. PICK first : first = Term(toks, at, inner)
    OBVIOUS
  <2>1. EntryOK(first)
    BY TermRead
  <2>2. read[0] = [ok |-> first.ok, at |-> first.at, op |-> None, children |-> <<first.expr>>]
    BY <1>3 DEF Spelled
  <2>3. read[0].ok = first.ok /\ read[0].op = None /\ read[0].children = <<first.expr>>
    BY <2>2
  <2>4. <<first.expr>> = [i \in 1 .. 1 |-> <<first.expr>>[i]] /\ \A i \in 1 .. 1 : <<first.expr>>[i] = first.expr
    OBVIOUS
  <2>5. 1 \in Nat /\ 1 > 0
    OBVIOUS
  <2>6. HalfRead(read[0])
    BY ONLY <2>1, <2>3, <2>4, <2>5 DEF HalfRead, EntryOK
  <2>. QED
    BY <2>6
<1>5. ASSUME NEW n \in 0 .. N, n < N, n \in S PROVE n + 1 \in S
  <2>. PICK m \in 1 .. N : m = n + 1
    BY <1>5
  <2>1. read[m] = Rest(toks, read[n], inner)
    <3>1. m - 1 = n /\ m # 0 /\ m \in 0 .. N
      OBVIOUS
    <3>. QED
      BY <1>3, <3>1 DEF Spelled
  <2>2. HalfRead(read[n])
    BY <1>5
  <2>3. HalfRead(read[m])
    BY <2>1, <2>2, RestRead
  <2>. QED
    BY <2>3
<1>6. HalfRead(all)
  <2>1. \A n \in 0 .. N : n \in S
    <3>. HIDE DEF S
    <3>. QED
      BY <1>4, <1>5, UpTo
  <2>2. N \in 0 .. N
    OBVIOUS
  <2>. QED
    BY <2>1, <2>2
<1>. HIDE DEF all
<1>7. CASE ~all.ok
  BY <1>2, <1>7, RefusedRead
<1>8. CASE all.ok
  <2>. PICK n \in Nat : n > 0 /\ all.children = [i \in 1 .. n |-> all.children[i]] /\ \A i \in 1 .. n : Legible(all.children[i])
    BY <1>6, <1>8 DEF HalfRead
  <2>. PICK kids : kids = all.children
    OBVIOUS
  <2>. PICK e : e = CASE all.op = None -> kids[1] [] all.op = "and" -> AllOf(kids) [] OTHER -> AnyOf(kids)
    OBVIOUS
  <2>1. Legible(AllOf(kids)) /\ Legible(AnyOf(kids))
    <3>1. AllOf(kids).kind = "all" /\ AllOf(kids).of = kids /\ AnyOf(kids).kind = "any" /\ AnyOf(kids).of = kids
      BY DEF AllOf, AnyOf
    <3>. QED
      BY <3>1, GroupLegible
  <2>2. Legible(kids[1])
    <3>1. 1 \in 1 .. n
      OBVIOUS
    <3>. QED
      BY <3>1
  <2>3. e \in {kids[1], AllOf(kids), AnyOf(kids)}
    BY ONLY e = CASE all.op = None -> kids[1] [] all.op = "and" -> AllOf(kids) [] OTHER -> AnyOf(kids)
  <2>4. Legible(e)
    BY ONLY <2>1, <2>2, <2>3
  <2>5. Expression(toks, at, inner) = [ok |-> TRUE, at |-> all.at, expr |-> e]
    BY <1>2, <1>8
  <2>. QED
    BY ONLY <2>4, <2>5 DEF EntryOK
<1>. QED
  BY <1>7, <1>8

\* A text is read as such an expression.
LEMMA TextRead ==
  ASSUME NEW toks, WordsOK(toks), MaxExprDepth \in Nat
  PROVE  Legible(ParseText(toks))
<1>. PICK N \in Nat : N = Len(toks)
  <2>1. toks \in Seq(ToSet(toks))
    BY DEF WordsOK
  <2>. QED
    BY <2>1
<1>. DEFINE level == CHOOSE f : IsNested(f, toks, MaxExprDepth)
<1>1. IsNested(level, toks, MaxExprDepth)
  <2>1. \A a, b : Nested(toks, 0, a) = Nested(toks, 0, b)
    BY DEF Nested
  <2>. QED
    BY <2>1, NestedExists
<1>. DEFINE all == level[MaxExprDepth][1]
<1>2. ParseText(toks) = IF all.ok /\ all.at = Len(toks) + 1 THEN all.expr ELSE Unparsed
  BY DEF ParseText, IsNested, Nested
<1>. HIDE DEF level
<1>3. \A n \in 0 .. MaxExprDepth : level[n] = Nested(toks, n, level[n - 1])
  BY <1>1 DEF IsNested
<1>. DEFINE S == {n \in 0 .. MaxExprDepth : Inner(level[n], N)}
<1>4. ASSUME NEW n \in 0 .. MaxExprDepth, NEW within, Inner(within, N), level[n] = Nested(toks, n, within)
      PROVE  Inner(level[n], N)
  <2>. PICK deeper : deeper = IF n = 0 THEN <<>> ELSE within
    OBVIOUS
  <2>1. Inner(deeper, N)
    <3>1. CASE n = 0
      BY <3>1 DEF Inner
    <3>2. CASE n # 0
      BY <1>4, <3>2
    <3>. QED
      BY <3>1, <3>2
  <2>2. level[n] = [at \in 1 .. (N + 1) |-> Expression(toks, at, deeper)]
    BY <1>4 DEF Nested
  <2>3. \A at : EntryOK(Expression(toks, at, deeper))
    BY <2>1, ExpressionRead
  <2>. QED
    BY ONLY <2>2, <2>3 DEF Inner
<1>5. 0 \in S
  <2>1. Inner(<<>>, N)
    BY DEF Inner
  <2>2. level[0] = Nested(toks, 0, <<>>)
    <3>1. level[0] = Nested(toks, 0, level[0 - 1])
      BY <1>3
    <3>. QED
      BY <3>1 DEF Nested
  <2>. QED
    BY <1>4, <2>1, <2>2
<1>6. ASSUME NEW n \in 0 .. MaxExprDepth, n < MaxExprDepth, n \in S PROVE n + 1 \in S
  <2>. PICK m \in 1 .. MaxExprDepth : m = n + 1
    BY <1>6
  <2>1. level[m] = Nested(toks, m, level[n]) /\ m \in 0 .. MaxExprDepth
    <3>1. m - 1 = n /\ m \in 0 .. MaxExprDepth
      OBVIOUS
    <3>. QED
      BY <1>3, <3>1
  <2>2. Inner(level[n], N)
    BY <1>6
  <2>. QED
    BY <1>4, <2>1, <2>2
<1>7. Inner(level[MaxExprDepth], N)
  <2>1. \A n \in 0 .. MaxExprDepth : n \in S
    <3>. HIDE DEF S
    <3>. QED
      BY <1>5, <1>6, UpTo
  <2>2. MaxExprDepth \in 0 .. MaxExprDepth
    OBVIOUS
  <2>. QED
    BY <2>1, <2>2
<1>8. EntryOK(all)
  <2>1. level[MaxExprDepth] = Nested(toks, MaxExprDepth, level[MaxExprDepth - 1])
    <3>1. MaxExprDepth \in 0 .. MaxExprDepth
      OBVIOUS
    <3>. QED
      BY <1>3, <3>1
  <2>2. level[MaxExprDepth] # <<>>
    <3>1. DOMAIN level[MaxExprDepth] = 1 .. (N + 1)
      BY <2>1 DEF Nested
    <3>2. 1 \in 1 .. (N + 1) /\ DOMAIN <<>> = {}
      OBVIOUS
    <3>. QED
      BY ONLY <3>1, <3>2
  <2>3. 1 \in 1 .. (N + 1)
    OBVIOUS
  <2>. QED
    BY <1>7, <2>2, <2>3 DEF Inner
<1>. HIDE DEF all
<1>9. Legible(Unparsed)
  <2>1. Unparsed.kind = "unparsed"
    BY DEF Unparsed
  <2>. QED
    BY <2>1, LeafLegible
<1>. QED
  BY ONLY <1>2, <1>8, <1>9 DEF EntryOK

\* What a verdict names; a sound one names courses, and names one when it says
\* that something is missing.
Named(v) == ToSet(v.missing) \cup ToSet(v.same) \cup {l.code : l \in ToSet(v.later)}
IsList(s) == s \in Seq(ToSet(s))
Sound(v) ==
    /\ v = Verdict(v.truth, v.missing, v.same, v.later) /\ v.truth \in 0 .. 2
    /\ IsList(v.missing) /\ IsList(v.same) /\ IsList(v.later)
    /\ None \notin Named(v) /\ (v.truth = Missing => Named(v) # {})
\* No worse, and nothing missing once all that was named is given.
Better(v, w, G) == v.truth <= w.truth /\ (v.truth = Missing /\ Named(v) \subseteq G => w.truth # Missing)

LEMMA EmptyList == IsList(<<>>) /\ ToSet(<<>>) = {}
<1>1. ToSet(<<>>) = {}
  BY DEF ToSet
<1>. QED
  BY <1>1 DEF IsList

LEMMA OneList ==
  ASSUME NEW x
  PROVE  IsList(<<x>>) /\ ToSet(<<x>>) = {x}
<1>1. DOMAIN <<x>> = 1 .. 1 /\ \A i \in 1 .. 1 : <<x>>[i] = x
  OBVIOUS
<1>2. ToSet(<<x>>) = {x}
  <2>1. 1 \in 1 .. 1
    OBVIOUS
  <2>. QED
    BY ONLY <1>1, <2>1 DEF ToSet
<1>3. <<x>> \in Seq({x})
  OBVIOUS
<1>. QED
  BY <1>2, <1>3 DEF IsList

LEMMA SomeListed ==
  ASSUME NEW s, IsList(s), s # <<>>
  PROVE  ToSet(s) # {}
<1>1. s \in Seq(ToSet(s))
  BY DEF IsList
<1>2. 1 \in DOMAIN s
  BY ONLY <1>1, s # <<>>
<1>. QED
  BY <1>2 DEF ToSet

LEMMA PlainVerdict ==
  ASSUME NEW t \in {Unknown, Satisfied}
  PROVE  Sound(Nothing(t)) /\ Nothing(t).truth = t
<1>. PICK v : v = Nothing(t)
  OBVIOUS
<1>1. v = Verdict(t, <<>>, <<>>, <<>>) /\ v.truth = t /\ v.missing = <<>> /\ v.same = <<>> /\ v.later = <<>>
  BY DEF Nothing, Verdict
<1>2. Named(v) = {}
  BY <1>1, EmptyList DEF Named
<1>3. t \in 0 .. 2 /\ t # Missing
  BY DEF Unknown, Satisfied, Missing
<1>. QED
  BY <1>1, <1>2, <1>3, EmptyList DEF Sound

\* What is said of a course that is missing names that course.
LEMMA CourseNamed ==
  ASSUME NEW code, code # None, NEW v, NEW term,
         \/ v = Verdict(Missing, <<code>>, <<>>, <<>>)
         \/ v = Verdict(Missing, <<>>, <<code>>, <<>>)
         \/ v = Verdict(Missing, <<>>, <<>>, <<[code |-> code, term |-> term]>>)
  PROVE  Sound(v) /\ v.truth = Missing /\ Named(v) = {code}
<1>. PICK l : l = [code |-> code, term |-> term]
  OBVIOUS
<1>0. l.code = code
  OBVIOUS
<1>1. v = Verdict(v.truth, v.missing, v.same, v.later) /\ v.truth = Missing
  BY DEF Verdict
<1>2. \/ v.missing = <<code>> /\ v.same = <<>> /\ v.later = <<>>
      \/ v.missing = <<>> /\ v.same = <<code>> /\ v.later = <<>>
      \/ v.missing = <<>> /\ v.same = <<>> /\ v.later = <<l>>
  BY DEF Verdict
<1>3. /\ IsList(<<>>) /\ IsList(<<code>>) /\ IsList(<<l>>)
      /\ ToSet(<<>>) = {} /\ ToSet(<<code>>) = {code} /\ ToSet(<<l>>) = {l}
  BY EmptyList, OneList
<1>4. IsList(v.missing) /\ IsList(v.same) /\ IsList(v.later)
  BY ONLY <1>2, <1>3
<1>5. Named(v) = {code}
  BY ONLY <1>0, <1>2, <1>3 DEF Named
<1>6. Missing \in 0 .. 2
  BY DEF Missing
<1>. QED
  BY ONLY <1>1, <1>4, <1>5, <1>6, code # None DEF Sound

\* More on the board, and nothing later.
Sooner(T, U) == \A c \in DOMAIN T : c \in DOMAIN U /\ T[c].when \in Int /\ U[c].when \in Int /\ U[c].when <= T[c].when
\* What is given is on the board before any term.
Credited(U, facts, G) == \A g \in G : Canonical(facts, g) \in DOMAIN U /\ U[Canonical(facts, g)].when = Incoming
LEMMA CourseBetter ==
  ASSUME NEW code, code # None, NEW target \in Nat, NEW facts, NEW T, NEW U, NEW G,
         Sooner(T, U), Credited(U, facts, G), \A c \in DOMAIN U : U[c].when \in Int,
         NEW v, v = JudgeCourse(code, target, T, facts), NEW w, w = JudgeCourse(code, target, U, facts)
  PROVE  Sound(v) /\ Sound(w) /\ Better(v, w, G)
<1>. PICK c : c = Canonical(facts, code)
  OBVIOUS
<1>. DEFINE MissingAs(x) == \E term : \/ x = Verdict(Missing, <<code>>, <<>>, <<>>)
                                      \/ x = Verdict(Missing, <<>>, <<code>>, <<>>)
                                      \/ x = Verdict(Missing, <<>>, <<>>, <<[code |-> code, term |-> term]>>)
<1>1. ASSUME NEW on, NEW x, x = JudgeCourse(code, target, on, facts), \A d \in DOMAIN on : on[d].when \in Int
      PROVE  \/ c \in DOMAIN on /\ on[c].when < target /\ x = Nothing(Satisfied)
             \/ ~(c \in DOMAIN on /\ on[c].when < target) /\ MissingAs(x)
  <2>. PICK term : term = on[c].term
    OBVIOUS
  <2>. PICK when : when = on[c].when
    OBVIOUS
  <2>1. x = CASE c \notin DOMAIN on -> Verdict(Missing, <<code>>, <<>>, <<>>)
              [] c \in DOMAIN on /\ when < target -> Nothing(Satisfied)
              [] c \in DOMAIN on /\ when = target -> Verdict(Missing, <<>>, <<code>>, <<>>)
              [] OTHER -> Verdict(Missing, <<>>, <<>>, <<[code |-> code, term |-> term]>>)
    BY <1>1 DEF JudgeCourse
  <2>2. c \in DOMAIN on => when \in Int
    BY <1>1
  <2>3. CASE c \in DOMAIN on /\ when < target
    <3>1. when # target
      BY <2>2, <2>3
    <3>2. x = Nothing(Satisfied)
      BY ONLY <2>1, <2>3, <3>1
    <3>. QED
      BY <2>3, <3>2
  <2>4. CASE ~(c \in DOMAIN on /\ when < target)
    <3>1. \/ x = Verdict(Missing, <<code>>, <<>>, <<>>)
          \/ x = Verdict(Missing, <<>>, <<code>>, <<>>)
          \/ x = Verdict(Missing, <<>>, <<>>, <<[code |-> code, term |-> term]>>)
      BY ONLY <2>1, <2>4
    <3>2. MissingAs(x)
      BY <3>1
    <3>. QED
      BY <2>4, <3>2
  <2>. QED
    BY <2>3, <2>4
<1>2. ASSUME NEW x, MissingAs(x) PROVE Sound(x) /\ x.truth = Missing /\ Named(x) = {code}
  BY <1>2, CourseNamed
<1>. HIDE DEF MissingAs
<1>3. Sound(Nothing(Satisfied)) /\ Nothing(Satisfied).truth = Satisfied
  BY PlainVerdict
<1>4. \/ c \in DOMAIN T /\ T[c].when < target /\ v = Nothing(Satisfied)
      \/ ~(c \in DOMAIN T /\ T[c].when < target) /\ MissingAs(v)
  <2>1. \A d \in DOMAIN T : T[d].when \in Int
    BY DEF Sooner
  <2>. QED
    BY <1>1, <2>1
<1>5. \/ c \in DOMAIN U /\ U[c].when < target /\ w = Nothing(Satisfied)
      \/ ~(c \in DOMAIN U /\ U[c].when < target) /\ MissingAs(w)
  BY <1>1
<1>6. Sound(v) /\ Sound(w)
  BY <1>2, <1>3, <1>4, <1>5
<1>7. v.truth \in 0 .. 2 /\ w.truth \in 0 .. 2
  BY <1>6 DEF Sound
<1>8. CASE c \in DOMAIN T /\ T[c].when < target
  <2>1. c \in DOMAIN U /\ U[c].when < target
    <3>1. c \in DOMAIN U /\ T[c].when \in Int /\ U[c].when \in Int /\ U[c].when <= T[c].when
      BY <1>8 DEF Sooner
    <3>. QED
      BY ONLY <1>8, <3>1, target \in Nat
  <2>2. w.truth = Satisfied /\ v.truth = Satisfied
    BY <1>3, <1>4, <1>5, <1>8, <2>1
  <2>. QED
    BY <1>6, <1>7, <2>2 DEF Better, Satisfied, Missing
<1>9. CASE ~(c \in DOMAIN T /\ T[c].when < target)
  <2>1. v.truth = Missing /\ Named(v) = {code}
    BY <1>2, <1>4, <1>9
  <2>2. v.truth <= w.truth
    BY <1>7, <2>1 DEF Missing
  <2>3. ASSUME code \in G PROVE w.truth # Missing
    <3>1. c \in DOMAIN U /\ U[c].when = Incoming
      BY <2>3 DEF Credited
    <3>2. Incoming < target
      BY DEF Incoming
    <3>3. w.truth = Satisfied
      BY <1>3, <1>5, <3>1, <3>2
    <3>. QED
      BY <3>3 DEF Satisfied, Missing
  <2>. QED
    BY <1>6, <2>1, <2>2, <2>3 DEF Better
<1>. QED
  BY <1>8, <1>9

LEMMA TruthsBound ==
  ASSUME NEW S \in SUBSET (0 .. 2), S # {}
  PROVE  /\ Min(S) \in S /\ \A y \in S : Min(S) <= y
         /\ Max(S) \in S /\ \A y \in S : y <= Max(S)
<1>1. \E x \in S : \A y \in S : x <= y
  <2>1. CASE 0 \in S
    BY <2>1
  <2>2. CASE 0 \notin S /\ 1 \in S
    BY <2>2
  <2>3. CASE 0 \notin S /\ 1 \notin S
    <3>1. \A y \in S : y = 2
      BY <2>3
    <3>. PICK x \in S : TRUE
      OBVIOUS
    <3>2. \A y \in S : x <= y
      BY <3>1
    <3>. QED
      BY <3>2
  <2>. QED
    BY <2>1, <2>2, <2>3
<1>2. \E x \in S : \A y \in S : x >= y
  <2>1. CASE 2 \in S
    BY <2>1
  <2>2. CASE 2 \notin S /\ 1 \in S
    BY <2>2
  <2>3. CASE 2 \notin S /\ 1 \notin S
    <3>1. \A y \in S : y = 0
      BY <2>3
    <3>. PICK x \in S : TRUE
      OBVIOUS
    <3>2. \A y \in S : x >= y
      BY <3>1
    <3>. QED
      BY <3>2
  <2>. QED
    BY <2>1, <2>2, <2>3
<1>3. Min(S) \in S /\ \A y \in S : Min(S) <= y
  BY <1>1 DEF Min
<1>4. Max(S) \in S /\ \A y \in S : Max(S) >= y
  BY <1>2 DEF Max
<1>. PICK m : m = Max(S)
  OBVIOUS
<1>5. m \in 0 .. 2 /\ \A y \in S : y \in 0 .. 2 /\ m >= y
  BY <1>4
<1>6. \A y \in S : y <= m
  BY ONLY <1>5
<1>. QED
  BY <1>3, <1>4, <1>6

\* The verdicts of the parts.
Sounds(results, n) == results = [i \in 1 .. n |-> results[i]] /\ \A i \in 1 .. n : Sound(results[i])

LEMMA ListsJoin ==
  ASSUME NEW n \in Nat, NEW lists, lists = [i \in 1 .. n |-> lists[i]], \A i \in 1 .. n : IsList(lists[i])
  PROVE  IsList(FlattenSeq(lists)) /\ \A x : x \in ToSet(FlattenSeq(lists)) <=> \E i \in 1 .. n : x \in ToSet(lists[i])
<1>. PICK S : S = UNION {ToSet(lists[i]) : i \in 1 .. n}
  OBVIOUS
<1>1. ASSUME NEW i \in 1 .. n PROVE lists[i] \in Seq(S)
  <2>1. lists[i] \in Seq(ToSet(lists[i])) /\ ToSet(lists[i]) \subseteq S
    BY DEF IsList
  <2>. PICK A : A = ToSet(lists[i])
    OBVIOUS
  <2>2. lists[i] \in Seq(A) /\ A \subseteq S
    BY <2>1
  <2>. QED
    BY ONLY <2>2
<1>2. lists \in [1 .. n -> Seq(S)]
  BY ONLY <1>1, lists = [i \in 1 .. n |-> lists[i]]
<1>3. \A x : x \in ToSet(FlattenSeq(lists)) <=> \E i \in 1 .. n : x \in ToSet(lists[i])
  BY ONLY <1>2, FlatHolds, n \in Nat
<1>4. FlattenSeq(lists) \in Seq(S)
  BY ONLY <1>2, Flattened, n \in Nat
<1>. PICK flat : flat = FlattenSeq(lists)
  OBVIOUS
<1>5. flat \in Seq(ToSet(flat))
  <2>. PICK k \in Nat : k = Len(flat) /\ flat = [i \in 1 .. k |-> flat[i]]
    BY ONLY <1>4, flat = FlattenSeq(lists)
  <2>1. \A i \in 1 .. k : flat[i] \in ToSet(flat)
    BY ONLY flat = [i \in 1 .. k |-> flat[i]] DEF ToSet
  <2>. QED
    BY ONLY <2>1, ListOf, k \in Nat, flat = [i \in 1 .. k |-> flat[i]]
<1>. QED
  BY <1>3, <1>5 DEF IsList

\* Of all the parts the least true speaks, and every course is named.
LEMMA AllVerdict ==
  ASSUME NEW n \in Nat, NEW vs, Sounds(vs, n), NEW e, e.kind = "all", NEW target, NEW taken, NEW facts,
         NEW v, v = JudgeOne(e, vs, target, taken, facts)
  PROVE  /\ Sound(v) /\ \A i \in 1 .. n : v.truth <= vs[i].truth /\ Named(vs[i]) \subseteq Named(v)
         /\ v.truth = Satisfied \/ \E i \in 1 .. n : v.truth = vs[i].truth
<1>. PICK truths : truths = {Satisfied} \cup {vs[i].truth : i \in 1 .. n}
  OBVIOUS
<1>. PICK miss : miss = [i \in 1 .. n |-> vs[i].missing]
  OBVIOUS
<1>. PICK same : same = [i \in 1 .. n |-> vs[i].same]
  OBVIOUS
<1>. PICK late : late = [i \in 1 .. n |-> vs[i].later]
  OBVIOUS
<1>1. DOMAIN vs = 1 .. n /\ \A i \in 1 .. n : Sound(vs[i])
  BY DEF Sounds
<1>2. v = Verdict(Min(truths), FlattenSeq(miss), FlattenSeq(same), FlattenSeq(late))
  BY <1>1 DEF JudgeOne
<1>3. v.truth = Min(truths) /\ v.missing = FlattenSeq(miss) /\ v.same = FlattenSeq(same) /\ v.later = FlattenSeq(late)
  BY <1>2 DEF Verdict
<1>4. truths \in SUBSET (0 .. 2) /\ truths # {}
  <2>1. \A i \in 1 .. n : vs[i].truth \in 0 .. 2
    BY <1>1 DEF Sound
  <2>. QED
    BY <2>1 DEF Satisfied
<1>5. Min(truths) \in truths /\ \A y \in truths : Min(truths) <= y
  BY <1>4, TruthsBound
<1>6. IsList(v.missing) /\ \A x : x \in ToSet(v.missing) <=> \E i \in 1 .. n : x \in ToSet(vs[i].missing)
  <2>1. miss = [i \in 1 .. n |-> miss[i]] /\ \A i \in 1 .. n : miss[i] = vs[i].missing
    OBVIOUS
  <2>2. \A i \in 1 .. n : IsList(miss[i])
    BY <1>1, <2>1 DEF Sound
  <2>3. IsList(FlattenSeq(miss)) /\ \A x : x \in ToSet(FlattenSeq(miss)) <=> \E i \in 1 .. n : x \in ToSet(miss[i])
    BY ONLY <2>1, <2>2, ListsJoin, n \in Nat
  <2>. QED
    BY ONLY <1>3, <2>1, <2>3
<1>7. IsList(v.same) /\ \A x : x \in ToSet(v.same) <=> \E i \in 1 .. n : x \in ToSet(vs[i].same)
  <2>1. same = [i \in 1 .. n |-> same[i]] /\ \A i \in 1 .. n : same[i] = vs[i].same
    OBVIOUS
  <2>2. \A i \in 1 .. n : IsList(same[i])
    BY <1>1, <2>1 DEF Sound
  <2>3. IsList(FlattenSeq(same)) /\ \A x : x \in ToSet(FlattenSeq(same)) <=> \E i \in 1 .. n : x \in ToSet(same[i])
    BY ONLY <2>1, <2>2, ListsJoin, n \in Nat
  <2>. QED
    BY ONLY <1>3, <2>1, <2>3
<1>8. IsList(v.later) /\ \A x : x \in ToSet(v.later) <=> \E i \in 1 .. n : x \in ToSet(vs[i].later)
  <2>1. late = [i \in 1 .. n |-> late[i]] /\ \A i \in 1 .. n : late[i] = vs[i].later
    OBVIOUS
  <2>2. \A i \in 1 .. n : IsList(late[i])
    BY <1>1, <2>1 DEF Sound
  <2>3. IsList(FlattenSeq(late)) /\ \A x : x \in ToSet(FlattenSeq(late)) <=> \E i \in 1 .. n : x \in ToSet(late[i])
    BY ONLY <2>1, <2>2, ListsJoin, n \in Nat
  <2>. QED
    BY ONLY <1>3, <2>1, <2>3
<1>9. \A x : x \in Named(v) <=> \E i \in 1 .. n : x \in Named(vs[i])
  BY ONLY <1>6, <1>7, <1>8 DEF Named
<1>10. \A i \in 1 .. n : Named(vs[i]) \subseteq Named(v)
  BY <1>9
<1>11. \A i \in 1 .. n : v.truth <= vs[i].truth
  BY <1>3, <1>5
<1>12. v.truth = Satisfied \/ \E i \in 1 .. n : v.truth = vs[i].truth
  BY <1>3, <1>5
<1>13. None \notin Named(v)
  <2>1. \A i \in 1 .. n : None \notin Named(vs[i])
    BY <1>1 DEF Sound
  <2>. QED
    BY <1>9, <2>1
<1>14. v.truth = Missing => Named(v) # {}
  <2>1. Missing # Satisfied
    BY DEF Missing, Satisfied
  <2>2. \A i \in 1 .. n : vs[i].truth = Missing => Named(vs[i]) # {}
    BY <1>1 DEF Sound
  <2>. QED
    BY <1>9, <1>12, <2>1, <2>2
<1>15. v = Verdict(v.truth, v.missing, v.same, v.later) /\ v.truth \in 0 .. 2
  BY <1>2, <1>3, <1>4, <1>5
<1>. QED
  BY ONLY <1>6, <1>7, <1>8, <1>10, <1>11, <1>12, <1>13, <1>14, <1>15 DEF Sound

\* The first place there is.
LEMMA FirstIs ==
  ASSUME NEW n \in Nat, NEW S \in SUBSET (1 .. n), NEW k, k = IF S # {} THEN Min(S) ELSE 0
  PROVE  (S # {} => k \in S) /\ (S = {} => k = 0) /\ (k # 0 <=> S # {})
<1>1. CASE S = {}
  BY <1>1
<1>2. CASE S # {}
  <2>1. PICK x \in S : \A j \in 1 .. (x - 1) : j \notin S
    BY <1>2, LeastIs
  <2>2. \A y \in S : x <= y
    <3>1. SUFFICES ASSUME NEW y \in S, ~(x <= y) PROVE FALSE
      OBVIOUS
    <3>2. x \in 1 .. n /\ y \in 1 .. n
      OBVIOUS
    <3>3. y \in 1 .. (x - 1)
      BY ONLY <3>1, <3>2, n \in Nat
    <3>. QED
      BY <2>1, <3>3
  <2>3. Min(S) \in S
    BY <2>2 DEF Min
  <2>4. k \in S /\ k # 0
    BY <1>2, <2>3
  <2>. QED
    BY <1>2, <2>4
<1>. QED
  BY <1>1, <1>2

\* The part whose miss is nearest, if any names a course.
Names(v) == v.same # <<>> \/ v.later # <<>> \/ v.missing # <<>>
LEMMA NearestIs ==
  ASSUME NEW n \in Nat, NEW vs, vs = [i \in 1 .. n |-> vs[i]]
  PROVE  \/ \E i \in 1 .. n : NearestMiss(vs) = vs[i] /\ Names(vs[i])
         \/ NearestMiss(vs) = Nothing(Missing) /\ \A i \in 1 .. n : ~Names(vs[i])
<1>1. Len(vs) = n
  BY ONLY n \in Nat, vs = [i \in 1 .. n |-> vs[i]]
<1>. PICK A \in SUBSET (1 .. n) : A = {i \in 1 .. n : vs[i].same # <<>>}
  OBVIOUS
<1>. PICK B \in SUBSET (1 .. n) : B = {i \in 1 .. n : vs[i].later # <<>>}
  OBVIOUS
<1>. PICK C \in SUBSET (1 .. n) : C = {i \in 1 .. n : vs[i].missing # <<>>}
  OBVIOUS
<1>. PICK a : a = IF A # {} THEN Min(A) ELSE 0
  OBVIOUS
<1>. PICK b : b = IF B # {} THEN Min(B) ELSE 0
  OBVIOUS
<1>. PICK c : c = IF C # {} THEN Min(C) ELSE 0
  OBVIOUS
<1>2. NearestMiss(vs) = CASE a # 0 -> vs[a] [] a = 0 /\ b # 0 -> vs[b]
                          [] a = 0 /\ b = 0 /\ c # 0 -> vs[c] [] OTHER -> Nothing(Missing)
  BY <1>1 DEF NearestMiss, SelectInSeq
<1>3. (a # 0 => a \in A) /\ (a = 0 => A = {})
  BY FirstIs
<1>4. (b # 0 => b \in B) /\ (b = 0 => B = {})
  BY FirstIs
<1>5. (c # 0 => c \in C) /\ (c = 0 => C = {})
  BY FirstIs
<1>6. CASE a # 0
  BY <1>2, <1>3, <1>6 DEF Names
<1>7. CASE a = 0 /\ b # 0
  BY <1>2, <1>4, <1>7 DEF Names
<1>8. CASE a = 0 /\ b = 0 /\ c # 0
  BY <1>2, <1>5, <1>8 DEF Names
<1>9. CASE a = 0 /\ b = 0 /\ c = 0
  BY <1>2, <1>3, <1>4, <1>5, <1>9 DEF Names
<1>. QED
  BY <1>6, <1>7, <1>8, <1>9

LEMMA NamesIs ==
  ASSUME NEW v, Sound(v)
  PROVE  Names(v) <=> Named(v) # {}
<1>1. /\ v.missing # <<>> => ToSet(v.missing) # {}
      /\ v.same # <<>> => ToSet(v.same) # {}
      /\ v.later # <<>> => ToSet(v.later) # {}
  BY SomeListed DEF Sound
<1>2. ToSet(<<>>) = {}
  BY EmptyList
<1>. QED
  BY ONLY <1>1, <1>2 DEF Names, Named

\* Of any of the parts the truest speaks; when something is missing in each,
\* the courses named are one's.
LEMMA AnyVerdict ==
  ASSUME NEW n \in Nat, n > 0, NEW vs, Sounds(vs, n), NEW e, e.kind = "any", NEW target, NEW taken, NEW facts,
         NEW v, v = JudgeOne(e, vs, target, taken, facts)
  PROVE  /\ Sound(v) /\ \A i \in 1 .. n : vs[i].truth <= v.truth
         /\ \E i \in 1 .. n : v.truth = vs[i].truth
         /\ v.truth = Missing => \E i \in 1 .. n : Named(vs[i]) = Named(v)
<1>. PICK truths : truths = {Missing} \cup {vs[i].truth : i \in 1 .. n}
  OBVIOUS
<1>. PICK any : any = Max(truths)
  OBVIOUS
<1>. PICK near : near = NearestMiss(vs)
  OBVIOUS
<1>1. DOMAIN vs = 1 .. n /\ (\A i \in 1 .. n : Sound(vs[i])) /\ vs = [i \in 1 .. n |-> vs[i]]
  BY DEF Sounds
<1>2. v = IF any = Satisfied THEN Nothing(Satisfied) ELSE [near EXCEPT !.truth = any]
  BY <1>1 DEF JudgeOne
<1>3. \A i \in 1 .. n : vs[i].truth \in 0 .. 2 /\ (vs[i].truth = Missing => Names(vs[i]))
  BY <1>1, NamesIs DEF Sound
<1>4. truths \in SUBSET (0 .. 2) /\ truths # {}
  BY <1>3 DEF Missing
<1>5. any \in truths /\ \A y \in truths : y <= any
  BY <1>4, TruthsBound
<1>6. (\A i \in 1 .. n : vs[i].truth <= any) /\ any \in 0 .. 2
  BY <1>4, <1>5
<1>7. \E i \in 1 .. n : any = vs[i].truth
  <2>1. CASE any # Missing
    BY <1>5, <2>1
  <2>2. CASE any = Missing
    <3>1. 1 \in 1 .. n
      OBVIOUS
    <3>2. vs[1].truth <= 0 /\ vs[1].truth \in 0 .. 2
      BY <1>3, <1>6, <2>2, <3>1 DEF Missing
    <3>3. vs[1].truth = Missing
      BY ONLY <3>2 DEF Missing
    <3>. QED
      BY <2>2, <3>1, <3>3
  <2>. QED
    BY <2>1, <2>2
<1>8. CASE any = Satisfied
  <2>1. Sound(v) /\ v.truth = Satisfied
    BY <1>2, <1>8, PlainVerdict
  <2>2. Satisfied # Missing
    BY DEF Satisfied, Missing
  <2>. QED
    BY <1>6, <1>7, <1>8, <2>1, <2>2
<1>9. CASE any # Satisfied
  <2>0. Sound(near) \/ near = Nothing(Missing)
    BY <1>1, NearestIs
  <2>1. /\ near = Verdict(near.truth, near.missing, near.same, near.later)
        /\ IsList(near.missing) /\ IsList(near.same) /\ IsList(near.later) /\ None \notin Named(near)
    <3>1. CASE Sound(near)
      BY <3>1 DEF Sound
    <3>2. CASE near = Nothing(Missing)
      <4>1. near = Verdict(Missing, <<>>, <<>>, <<>>) /\ near.missing = <<>> /\ near.same = <<>> /\ near.later = <<>>
            /\ near.truth = Missing
        BY <3>2 DEF Nothing, Verdict
      <4>. QED
        BY ONLY <4>1, EmptyList DEF Named
    <3>. QED
      BY <2>0, <3>1, <3>2
  <2>2. /\ v = Verdict(any, near.missing, near.same, near.later) /\ v.truth = any
        /\ v.missing = near.missing /\ v.same = near.same /\ v.later = near.later
    <3>1. v = [near EXCEPT !.truth = any]
      BY <1>2, <1>9
    <3>. QED
      BY ONLY <2>1, <3>1 DEF Verdict
  <2>3. Named(v) = Named(near)
    BY ONLY <2>2 DEF Named
  <2>4. ASSUME any = Missing PROVE \E i \in 1 .. n : near = vs[i] /\ Named(vs[i]) # {}
    <3>1. \E i \in 1 .. n : Names(vs[i])
      BY <1>3, <1>7, <2>4
    <3>2. PICK i \in 1 .. n : near = vs[i] /\ Names(vs[i])
      BY <1>1, <3>1, NearestIs
    <3>3. Sound(vs[i])
      BY <1>1
    <3>4. Named(vs[i]) # {}
      BY ONLY <3>2, <3>3, NamesIs
    <3>. QED
      BY <3>2, <3>4
  <2>5. Sound(v)
    <3>1. v = Verdict(v.truth, v.missing, v.same, v.later) /\ v.truth \in 0 .. 2
      BY <1>6, <2>2
    <3>2. v.truth = Missing => Named(v) # {}
      BY <2>2, <2>3, <2>4
    <3>. QED
      BY ONLY <2>1, <2>2, <2>3, <3>1, <3>2 DEF Sound
  <2>6. v.truth = Missing => \E i \in 1 .. n : Named(vs[i]) = Named(v)
    BY <2>2, <2>3, <2>4
  <2>. QED
    BY <1>6, <1>7, <2>2, <2>5, <2>6
<1>. QED
  BY <1>8, <1>9

Clears(v, w, G) == Sound(v) /\ Sound(w) /\ Better(v, w, G)

LEMMA AllClears ==
  ASSUME NEW n \in Nat, NEW vs, vs = [i \in 1 .. n |-> vs[i]], NEW ws, ws = [i \in 1 .. n |-> ws[i]], NEW G,
         \A i \in 1 .. n : Clears(vs[i], ws[i], G), NEW e, e.kind = "all", NEW target, NEW facts, NEW T, NEW U,
         NEW v, v = JudgeOne(e, vs, target, T, facts), NEW w, w = JudgeOne(e, ws, target, U, facts)
  PROVE  Clears(v, w, G)
<1>1. Sounds(vs, n) /\ Sounds(ws, n)
  BY DEF Sounds, Clears
<1>2. Sound(v) /\ \A i \in 1 .. n : v.truth <= vs[i].truth /\ Named(vs[i]) \subseteq Named(v)
  BY ONLY <1>1, AllVerdict, n \in Nat, e.kind = "all", v = JudgeOne(e, vs, target, T, facts)
<1>3. Sound(w) /\ (w.truth = Satisfied \/ \E i \in 1 .. n : w.truth = ws[i].truth)
  BY ONLY <1>1, AllVerdict, n \in Nat, e.kind = "all", w = JudgeOne(e, ws, target, U, facts)
<1>4. v.truth \in 0 .. 2 /\ w.truth \in 0 .. 2 /\ \A i \in 1 .. n : vs[i].truth \in 0 .. 2 /\ ws[i].truth \in 0 .. 2
  BY <1>2, <1>3 DEF Sound, Clears
<1>5. \A i \in 1 .. n : vs[i].truth <= ws[i].truth /\ (vs[i].truth = Missing /\ Named(vs[i]) \subseteq G => ws[i].truth # Missing)
  BY DEF Clears, Better
<1>6. CASE w.truth = Satisfied
  BY <1>2, <1>3, <1>4, <1>6 DEF Clears, Better, Satisfied, Missing
<1>7. CASE \E i \in 1 .. n : w.truth = ws[i].truth
  <2>. PICK i \in 1 .. n : w.truth = ws[i].truth
    BY <1>7
  <2>1. v.truth <= vs[i].truth /\ vs[i].truth <= ws[i].truth /\ Named(vs[i]) \subseteq Named(v)
    BY <1>2, <1>5
  <2>2. v.truth <= w.truth
    BY <1>4, <2>1
  <2>3. ASSUME Named(v) \subseteq G, w.truth = Missing PROVE FALSE
    <3>1. ws[i].truth = 0 /\ vs[i].truth = 0
      BY <1>4, <2>1, <2>3 DEF Missing
    <3>2. Named(vs[i]) \subseteq G
      BY <2>1, <2>3
    <3>. QED
      BY <1>5, <3>1, <3>2 DEF Missing
  <2>. QED
    BY <1>2, <1>3, <2>2, <2>3 DEF Clears, Better
<1>. QED
  BY <1>3, <1>6, <1>7

LEMMA AnyClears ==
  ASSUME NEW n \in Nat, n > 0, NEW vs, vs = [i \in 1 .. n |-> vs[i]], NEW ws, ws = [i \in 1 .. n |-> ws[i]], NEW G,
         \A i \in 1 .. n : Clears(vs[i], ws[i], G), NEW e, e.kind = "any", NEW target, NEW facts, NEW T, NEW U,
         NEW v, v = JudgeOne(e, vs, target, T, facts), NEW w, w = JudgeOne(e, ws, target, U, facts)
  PROVE  Clears(v, w, G)
<1>1. Sounds(vs, n) /\ Sounds(ws, n)
  BY DEF Sounds, Clears
<1>2. /\ Sound(v) /\ (\A i \in 1 .. n : vs[i].truth <= v.truth) /\ \E i \in 1 .. n : v.truth = vs[i].truth
      /\ v.truth = Missing => \E i \in 1 .. n : Named(vs[i]) = Named(v)
  BY ONLY <1>1, AnyVerdict, n \in Nat, n > 0, e.kind = "any", v = JudgeOne(e, vs, target, T, facts)
<1>3. Sound(w) /\ \A i \in 1 .. n : ws[i].truth <= w.truth
  BY ONLY <1>1, AnyVerdict, n \in Nat, n > 0, e.kind = "any", w = JudgeOne(e, ws, target, U, facts)
<1>4. v.truth \in 0 .. 2 /\ w.truth \in 0 .. 2 /\ \A i \in 1 .. n : vs[i].truth \in 0 .. 2 /\ ws[i].truth \in 0 .. 2
  BY <1>2, <1>3 DEF Sound, Clears
<1>5. \A i \in 1 .. n : vs[i].truth <= ws[i].truth /\ (vs[i].truth = Missing /\ Named(vs[i]) \subseteq G => ws[i].truth # Missing)
  BY DEF Clears, Better
<1>6. v.truth <= w.truth
  <2>. PICK i \in 1 .. n : v.truth = vs[i].truth
    BY <1>2
  <2>1. vs[i].truth <= ws[i].truth /\ ws[i].truth <= w.truth
    BY <1>3, <1>5
  <2>. QED
    BY <1>4, <2>1
<1>7. ASSUME v.truth = Missing, Named(v) \subseteq G PROVE w.truth # Missing
  <2>. PICK i \in 1 .. n : Named(vs[i]) = Named(v)
    BY <1>2, <1>7
  <2>1. vs[i].truth = Missing
    <3>1. vs[i].truth <= v.truth /\ vs[i].truth \in 0 .. 2
      BY <1>2, <1>4
    <3>. QED
      BY ONLY <1>7, <3>1 DEF Missing
  <2>2. ws[i].truth # Missing
    BY <1>5, <1>7, <2>1
  <2>3. ws[i].truth <= w.truth /\ ws[i].truth \in 0 .. 2 /\ w.truth \in 0 .. 2
    BY <1>3, <1>4
  <2>. QED
    BY ONLY <2>2, <2>3 DEF Missing
<1>. QED
  BY <1>2, <1>3, <1>6, <1>7 DEF Clears, Better

\* The parts of an expression.
LEMMA PartsAre ==
  ASSUME NEW C, NEW e, Asked(e, C)
  PROVE  \E n \in Nat : /\ DOMAIN Parts(e) = 1 .. n /\ \A i \in 1 .. n : Parts(e)[i] \in C
                        /\ e.kind \in {"all", "any"} => n > 0
<1>1. CASE e.kind \in {"all", "any"}
  <2>. PICK n \in Nat : n > 0 /\ e.of \in [1 .. n -> C]
    BY <1>1 DEF Asked
  <2>1. Parts(e) = e.of
    BY <1>1 DEF Parts
  <2>. QED
    BY <2>1
<1>2. CASE e.kind \notin {"all", "any"}
  <2>1. Parts(e) = <<>>
    BY <1>2 DEF Parts
  <2>2. DOMAIN <<>> = 1 .. 0 /\ 0 \in Nat
    OBVIOUS
  <2>. QED
    BY <1>2, <2>1, <2>2
<1>. QED
  BY <1>1, <1>2

LEMMA OneClears ==
  ASSUME NEW C, NEW e, Asked(e, C), NEW target \in Nat, NEW facts, NEW T, NEW U, NEW G,
         Sooner(T, U), Credited(U, facts, G), \A c \in DOMAIN U : U[c].when \in Int,
         NEW vs, vs = [i \in DOMAIN Parts(e) |-> vs[i]], NEW ws, ws = [i \in DOMAIN Parts(e) |-> ws[i]],
         \A i \in DOMAIN Parts(e) : Clears(vs[i], ws[i], G),
         NEW v, v = JudgeOne(e, vs, target, T, facts), NEW w, w = JudgeOne(e, ws, target, U, facts)
  PROVE  Clears(v, w, G)
<1>. PICK n \in Nat : /\ DOMAIN Parts(e) = 1 .. n /\ \A i \in 1 .. n : Parts(e)[i] \in C
                      /\ e.kind \in {"all", "any"} => n > 0
  BY PartsAre
<1>1. vs = [i \in 1 .. n |-> vs[i]] /\ ws = [i \in 1 .. n |-> ws[i]] /\ \A i \in 1 .. n : Clears(vs[i], ws[i], G)
  OBVIOUS
<1>2. CASE e.kind = "unparsed"
  <2>1. v = Nothing(Unknown) /\ w = Nothing(Unknown)
    BY <1>2 DEF JudgeOne
  <2>2. Sound(Nothing(Unknown)) /\ Nothing(Unknown).truth = Unknown
    BY PlainVerdict
  <2>. QED
    BY <2>1, <2>2 DEF Clears, Better, Unknown, Missing
<1>3. CASE e.kind = "course"
  <2>1. v = JudgeCourse(e.code, target, T, facts) /\ w = JudgeCourse(e.code, target, U, facts)
    BY <1>3 DEF JudgeOne
  <2>2. e.code # None
    BY <1>3 DEF Asked
  <2>. QED
    BY <2>1, <2>2, CourseBetter DEF Clears
<1>4. CASE e.kind = "all"
  BY ONLY <1>1, <1>4, AllClears, n \in Nat, v = JudgeOne(e, vs, target, T, facts), w = JudgeOne(e, ws, target, U, facts)
<1>5. CASE e.kind = "any"
  <2>1. n > 0
    BY <1>5
  <2>. QED
    BY ONLY <1>1, <1>5, <2>1, AnyClears, n \in Nat, v = JudgeOne(e, vs, target, T, facts), w = JudgeOne(e, ws, target, U, facts)
<1>. QED
  BY <1>2, <1>3, <1>4, <1>5 DEF Asked

\* Down to one level more is with the parts of what is there.
LEMMA PartsBelow ==
  ASSUME NEW e, NEW C, e \in C, Grammar(C), NEW D \in Nat
  PROVE  \A d \in 0 .. D : /\ Below(e, d, Parts) \subseteq C
                           /\ \A p \in Below(e, d, Parts) : \A i \in DOMAIN Parts(p) : Parts(p)[i] \in Below(e, d + 1, Parts)
<1>1. ASSUME NEW d \in Nat, NEW p \in Below(e, d, Parts), NEW i \in DOMAIN Parts(p)
      PROVE  Parts(p)[i] \in Below(e, d + 1, Parts)
  <2>1. Below(e, d + 1, Parts) = Divided(Below(e, d, Parts))
    BY PartsIs
  <2>2. Parts(p)[i] \in ToSet(Parts(p))
    BY DEF ToSet
  <2>. QED
    BY <2>1, <2>2 DEF Divided
<1>. DEFINE S == {d \in 0 .. D : Below(e, d, Parts) \subseteq C}
<1>2. 0 \in S
  BY PartsIs
<1>3. ASSUME NEW d \in 0 .. D, d < D, d \in S PROVE d + 1 \in S
  <2>1. Below(e, d + 1, Parts) = Divided(Below(e, d, Parts)) /\ Below(e, d, Parts) \subseteq C
    BY <1>3, PartsIs
  <2>2. ASSUME NEW p \in C PROVE ToSet(Parts(p)) \subseteq C
    <3>1. Asked(p, C)
      BY DEF Grammar
    <3>. PICK n \in Nat : DOMAIN Parts(p) = 1 .. n /\ \A i \in 1 .. n : Parts(p)[i] \in C
      BY <3>1, PartsAre
    <3>. QED
      BY DEF ToSet
  <2>3. Below(e, d + 1, Parts) \subseteq C
    BY <2>1, <2>2 DEF Divided
  <2>4. d + 1 \in 0 .. D
    BY <1>3
  <2>. QED
    BY <2>3, <2>4
<1>4. \A d \in 0 .. D : d \in S
  <2>. HIDE DEF S
  <2>. QED
    BY <1>2, <1>3, UpTo
<1>5. \A d \in 0 .. D : d \in Nat
  OBVIOUS
<1>6. \A d \in 0 .. D : Below(e, d, Parts) \subseteq C
  BY <1>4
<1>. QED
  BY ONLY <1>1, <1>5, <1>6

\* What a text that can be read is judged to be, on one board and on one with
\* more on it, sooner.
LEMMA JudgeClears ==
  ASSUME MaxExprDepth \in Nat, NEW e, Legible(e), NEW target \in Nat, NEW facts, NEW T, NEW U, NEW G,
         Sooner(T, U), Credited(U, facts, G), \A c \in DOMAIN U : U[c].when \in Int,
         NEW v, v = Judge(e, target, T, facts), NEW w, w = Judge(e, target, U, facts)
  PROVE  Clears(v, w, G)
<1>. DEFINE judge(on) == CHOOSE f : IsJudged(f, e, target, on, facts, MaxExprDepth + 1)
<1>1. ASSUME NEW on
      PROVE  /\ IsJudged(judge(on), e, target, on, facts, MaxExprDepth + 1)
             /\ Judge(e, target, on, facts) = judge(on)[MaxExprDepth + 1][e]
  <2>1. \A a, b : Judged(e, target, on, facts, 0, a) = Judged(e, target, on, facts, 0, b)
    BY DEF Judged
  <2>2. MaxExprDepth + 1 \in Nat
    OBVIOUS
  <2>3. IsJudged(judge(on), e, target, on, facts, MaxExprDepth + 1)
    BY <2>1, <2>2, JudgedExists
  <2>4. Judge(e, target, on, facts) = judge(on)[MaxExprDepth + 1][e]
    BY ONLY DEF Judge, IsJudged, Judged
  <2>. QED
    BY <2>3, <2>4
<1>. HIDE DEF judge
<1>. PICK D \in Nat : D = MaxExprDepth + 1
  OBVIOUS
<1>. PICK f : f = judge(T)
  OBVIOUS
<1>. PICK g : g = judge(U)
  OBVIOUS
<1>2. \A n \in 0 .. D : f[n] = Judged(e, target, T, facts, n, f[n - 1]) /\ g[n] = Judged(e, target, U, facts, n, g[n - 1])
  <2>1. IsJudged(f, e, target, T, facts, D) /\ IsJudged(g, e, target, U, facts, D)
    BY <1>1
  <2>. QED
    BY ONLY <2>1 DEF IsJudged
<1>. PICK C : e \in C /\ Grammar(C)
  BY DEF Legible
<1>3. \A d \in 0 .. D : /\ Below(e, d, Parts) \subseteq C
                        /\ \A p \in Below(e, d, Parts) : \A i \in DOMAIN Parts(p) : Parts(p)[i] \in Below(e, d + 1, Parts)
  BY PartsBelow
<1>. DEFINE S == {n \in 0 .. D : \A p \in Below(e, D - n, Parts) : Clears(f[n][p], g[n][p], G)}
<1>4. 0 \in S
  <2>1. f[0] = Judged(e, target, T, facts, 0, f[0 - 1]) /\ g[0] = Judged(e, target, U, facts, 0, g[0 - 1])
    BY <1>2
  <2>2. \A p \in Below(e, D - 0, Parts) : f[0][p] = Nothing(Unknown) /\ g[0][p] = Nothing(Unknown)
    BY <2>1 DEF Judged
  <2>3. Clears(Nothing(Unknown), Nothing(Unknown), G)
    <3>1. Sound(Nothing(Unknown)) /\ Nothing(Unknown).truth = Unknown
      BY PlainVerdict
    <3>. QED
      BY <3>1 DEF Clears, Better, Unknown, Missing
  <2>4. \A p \in Below(e, D - 0, Parts) : Clears(f[0][p], g[0][p], G)
    BY ONLY <2>2, <2>3
  <2>. QED
    BY <2>4
<1>5. ASSUME NEW n \in 0 .. D, n < D, n \in S PROVE n + 1 \in S
  <2>. PICK m \in 1 .. D : m = n + 1
    BY <1>5
  <2>. PICK d \in 0 .. D : d = D - m /\ d + 1 = D - n
    <3>1. D - m \in 0 .. D /\ (D - m) + 1 = D - n
      OBVIOUS
    <3>. QED
      BY <3>1
  <2>0. m - 1 = n /\ m # 0 /\ m \in 0 .. D
    OBVIOUS
  <2>1. f[m] = Judged(e, target, T, facts, m, f[n]) /\ g[m] = Judged(e, target, U, facts, m, g[n])
    BY <1>2, <2>0
  <2>2. \A p \in Below(e, d + 1, Parts) : Clears(f[n][p], g[n][p], G)
    BY <1>5
  <2>3. ASSUME NEW p \in Below(e, d, Parts) PROVE Clears(f[m][p], g[m][p], G)
    <3>. PICK vs : vs = [i \in DOMAIN Parts(p) |-> f[n][Parts(p)[i]]]
      OBVIOUS
    <3>. PICK ws : ws = [i \in DOMAIN Parts(p) |-> g[n][Parts(p)[i]]]
      OBVIOUS
    <3>1. f[m][p] = JudgeOne(p, vs, target, T, facts) /\ g[m][p] = JudgeOne(p, ws, target, U, facts)
      <4>1. p \in Below(e, MaxExprDepth + 1 - m, Parts)
        OBVIOUS
      <4>. QED
        BY ONLY <2>0, <2>1, <4>1, vs = [i \in DOMAIN Parts(p) |-> f[n][Parts(p)[i]]],
                ws = [i \in DOMAIN Parts(p) |-> g[n][Parts(p)[i]]] DEF Judged
    <3>2. \A i \in DOMAIN Parts(p) : Clears(f[n][Parts(p)[i]], g[n][Parts(p)[i]], G)
      BY <1>3, <2>2
    <3>3. \A i \in DOMAIN Parts(p) : Clears(vs[i], ws[i], G)
      BY ONLY <3>2, vs = [i \in DOMAIN Parts(p) |-> f[n][Parts(p)[i]]], ws = [i \in DOMAIN Parts(p) |-> g[n][Parts(p)[i]]]
    <3>4. Asked(p, C)
      BY <1>3 DEF Grammar
    <3>5. vs = [i \in DOMAIN Parts(p) |-> vs[i]] /\ ws = [i \in DOMAIN Parts(p) |-> ws[i]]
      OBVIOUS
    <3>. HIDE DEF S
    <3>. QED
      BY ONLY <3>1, <3>3, <3>4, <3>5, OneClears, target \in Nat, Sooner(T, U), Credited(U, facts, G),
              \A c \in DOMAIN U : U[c].when \in Int
  <2>4. m \in 0 .. D /\ \A p \in Below(e, D - m, Parts) : Clears(f[m][p], g[m][p], G)
    BY <2>3
  <2>. QED
    BY <2>4
<1>6. D \in S
  <2>1. \A n \in 0 .. D : n \in S
    <3>. HIDE DEF S
    <3>. QED
      BY <1>4, <1>5, UpTo
  <2>2. D \in 0 .. D
    OBVIOUS
  <2>. QED
    BY <2>1, <2>2
<1>7. e \in Below(e, D - D, Parts)
  <2>1. Below(e, 0, Parts) = {e}
    BY PartsIs
  <2>2. D - D = 0
    OBVIOUS
  <2>. QED
    BY <2>1, <2>2
<1>8. v = f[D][e] /\ w = g[D][e]
  BY <1>1
<1>. QED
  BY <1>6, <1>7, <1>8

LEMMA ImageFinite ==
  ASSUME NEW S, IsFiniteSet(S), NEW f, NEW T, T = {f[x] : x \in S}
  PROVE  IsFiniteSet(T)
<1>. PICK g : g = [x \in S |-> f[x]]
  OBVIOUS
<1>1. g \in Surjection(S, T)
  BY DEF Surjection
<1>. QED
  BY <1>1, FS_Surjection

LEMMA ListFinite ==
  ASSUME NEW s, IsList(s)
  PROVE  IsFiniteSet(ToSet(s))
<1>. PICK n \in Nat : DOMAIN s = 1 .. n
  BY DEF IsList
<1>1. IsFiniteSet(1 .. n)
  BY FS_Interval
<1>2. ToSet(s) = {s[i] : i \in 1 .. n}
  BY DEF ToSet
<1>. QED
  BY <1>1, <1>2, ImageFinite

\* The rows of cards: one for each that has a course, whatever their order.
RowFor(c, when, term, facts) ==
    [code |-> Canonical(facts, c.course), when |-> when, term |-> term, entry |-> c.id]
RowsFor(cards, when, term, facts) ==
    {RowFor(c, when, term, facts) : c \in {d \in cards : d.course # None /\ d.id # None}}
LEMMA RowsPlaced ==
  ASSUME NEW S, NEW cards \in Seq(S), NEW facts, NEW when, NEW term,
         NEW rows, rows = PlacedCards(cards, when, term, facts, None)
  PROVE  /\ rows \in Seq(RowsFor(ToSet(cards), when, term, facts))
         /\ ToSet(rows) = RowsFor(ToSet(cards), when, term, facts)
<1>. PICK n \in Nat : DOMAIN cards = 1 .. n
  OBVIOUS
<1>. PICK places : places = {i \in DOMAIN cards : cards[i].course # None /\ cards[i].id # None}
  OBVIOUS
<1>. PICK kept : kept = Chosen(cards, places)
  OBVIOUS
<1>1. Gathers(kept, cards, places)
  <2>1. places \in SUBSET (1 .. n)
    OBVIOUS
  <2>. QED
    BY <2>1, ChosenIs
<1>. PICK k \in Nat : k = Len(kept) /\ DOMAIN kept = 1 .. k
  <2>. PICK Q : Q = {cards[i] : i \in places}
    OBVIOUS
  <2>1. kept \in Seq(Q)
    BY <1>1 DEF Gathers
  <2>. QED
    BY ONLY <2>1
<1>2. \A j \in 1 .. k : \E i \in places : kept[j] = cards[i]
  BY <1>1 DEF Gathers
<1>3. \A i \in places : \E j \in 1 .. k : kept[j] = cards[i]
  BY <1>1 DEF Gathers
<1>4. rows = [i \in 1 .. k |-> RowFor(kept[i], when, term, facts)]
  BY DEF PlacedCards, RowFor
<1>. PICK R : R = RowsFor(ToSet(cards), when, term, facts)
  OBVIOUS
<1>5. \A r : r \in R <=> \E i \in places : r = RowFor(cards[i], when, term, facts)
  <2>1. \A i \in places : cards[i] \in ToSet(cards) /\ cards[i].course # None /\ cards[i].id # None
    BY DEF ToSet
  <2>2. \A c \in ToSet(cards) : c.course # None /\ c.id # None => \E i \in places : c = cards[i]
    BY DEF ToSet
  <2>. QED
    BY <2>1, <2>2 DEF RowsFor
<1>6. \A i \in 1 .. k : rows[i] \in R
  BY <1>2, <1>4, <1>5
<1>7. ToSet(rows) = {RowFor(kept[i], when, term, facts) : i \in 1 .. k}
  BY ONLY <1>4 DEF ToSet
<1>8. ToSet(rows) = R
  <2>1. \A r \in R : \E j \in 1 .. k : r = RowFor(kept[j], when, term, facts)
    BY <1>3, <1>5
  <2>2. \A j \in 1 .. k : RowFor(kept[j], when, term, facts) \in R
    BY <1>2, <1>5
  <2>. QED
    BY ONLY <1>7, <2>1, <2>2
<1>9. rows \in Seq(R)
  <2>1. rows = [i \in 1 .. k |-> rows[i]]
    BY ONLY <1>4
  <2>. QED
    BY ONLY <2>1, <1>6, ListOf, k \in Nat
<1>. QED
  BY <1>8, <1>9

\* The rows of a plan.
PlanRows(p, facts) ==
    RowsFor(ToSet(p.incoming), Incoming, None, facts)
      \cup UNION {RowsFor(ToSet(p.terms[k].cards), p.terms[k].id, p.terms[k].id, facts) : k \in DOMAIN p.terms}
LEMMA PlanPlaced ==
  ASSUME NEW p, IsList(p.incoming), NEW N \in Nat, DOMAIN p.terms = 1 .. N,
         \A k \in 1 .. N : IsList(p.terms[k].cards), NEW facts
  PROVE  Placed(p, facts, None) \in Seq(PlanRows(p, facts)) /\ ToSet(Placed(p, facts, None)) = PlanRows(p, facts)
<1>. PICK first : first = PlacedCards(p.incoming, Incoming, None, facts, None)
  OBVIOUS
<1>. PICK rest : rest = [k \in 1 .. N |-> PlacedCards(p.terms[k].cards, p.terms[k].id, p.terms[k].id, facts, None)]
  OBVIOUS
<1>1. Placed(p, facts, None) = first \o FlattenSeq(rest)
  BY DEF Placed, PlacedCards
<1>. PICK A : A = RowsFor(ToSet(p.incoming), Incoming, None, facts)
  OBVIOUS
<1>. PICK B : B = [k \in 1 .. N |-> RowsFor(ToSet(p.terms[k].cards), p.terms[k].id, p.terms[k].id, facts)]
  OBVIOUS
<1>. PICK R : R = PlanRows(p, facts)
  OBVIOUS
<1>2. R = A \cup UNION {B[k] : k \in 1 .. N}
  BY DEF PlanRows
<1>3. first \in Seq(A) /\ ToSet(first) = A
  BY RowsPlaced DEF IsList
<1>4. ASSUME NEW k \in 1 .. N PROVE rest[k] \in Seq(B[k]) /\ ToSet(rest[k]) = B[k]
  <2>1. p.terms[k].cards \in Seq(ToSet(p.terms[k].cards))
    BY DEF IsList
  <2>2. rest[k] = PlacedCards(p.terms[k].cards, p.terms[k].id, p.terms[k].id, facts, None)
    OBVIOUS
  <2>3. B[k] = RowsFor(ToSet(p.terms[k].cards), p.terms[k].id, p.terms[k].id, facts)
    OBVIOUS
  <2>. QED
    BY ONLY <2>1, <2>2, <2>3, RowsPlaced
<1>5. first \in Seq(R)
  BY ONLY <1>2, <1>3
<1>6. rest \in [1 .. N -> Seq(R)]
  <2>1. ASSUME NEW k \in 1 .. N PROVE rest[k] \in Seq(R)
    <3>. PICK b : b = B[k]
      OBVIOUS
    <3>. PICK r : r = rest[k]
      OBVIOUS
    <3>1. r \in Seq(b)
      BY <1>4
    <3>2. b \subseteq R
      BY <1>2
    <3>3. r \in Seq(R)
      BY ONLY <3>1, <3>2
    <3>. QED
      BY <3>3
  <2>. QED
    BY ONLY <2>1, rest = [k \in 1 .. N |-> PlacedCards(p.terms[k].cards, p.terms[k].id, p.terms[k].id, facts, None)]
<1>. PICK flat : flat = FlattenSeq(rest)
  OBVIOUS
<1>7. flat \in Seq(R) /\ \A x : x \in ToSet(flat) <=> \E k \in 1 .. N : x \in ToSet(rest[k])
  <2>1. flat \in Seq(R)
    BY ONLY <1>6, Flattened, N \in Nat, flat = FlattenSeq(rest)
  <2>2. \A x : x \in ToSet(flat) <=> \E k \in 1 .. N : x \in ToSet(rest[k])
    BY ONLY <1>6, FlatHolds, N \in Nat, flat = FlattenSeq(rest)
  <2>. QED
    BY <2>1, <2>2
<1>8. ToSet(first \o flat) = ToSet(first) \cup ToSet(flat)
  <2>1. flat \in Seq(R)
    BY <1>7
  <2>. QED
    BY ONLY <1>5, <2>1, BothHold
<1>9. first \o flat \in Seq(R)
  BY ONLY <1>5, <1>7
<1>10. ToSet(flat) = UNION {B[k] : k \in 1 .. N}
  BY <1>4, <1>7
<1>. QED
  BY ONLY <1>1, <1>2, <1>3, <1>8, <1>9, <1>10, R = PlanRows(p, facts), flat = FlattenSeq(rest)

\* Of the rows of a course the earliest counts.
Soonest(T, R) ==
    /\ DOMAIN T = {r.code : r \in R}
    /\ \A c \in DOMAIN T : T[c] \in R /\ T[c].code = c /\ \A r \in R : r.code = c => T[c].when <= r.when
LEMMA SoonestTaken ==
  ASSUME NEW p, NEW facts, NEW R, \A r \in R : r.when \in Int,
         Placed(p, facts, None) \in Seq(R), ToSet(Placed(p, facts, None)) = R,
         NEW T, T = Taken(p, facts, None)
  PROVE  Soonest(T, R)
<1>. PICK rows : rows = Placed(p, facts, None)
  OBVIOUS
<1>. PICK n \in Nat : n = Len(rows) /\ DOMAIN rows = 1 .. n /\ \A i \in 1 .. n : rows[i] \in R
  OBVIOUS
<1>1. R = {rows[i] : i \in 1 .. n}
  BY DEF ToSet
<1>2. DOMAIN T = {rows[i].code : i \in 1 .. n}
  BY DEF Taken
<1>3. \A c \in DOMAIN T : T[c] = rows[CHOOSE i \in 1 .. n : Earliest(rows, c, i)]
  BY <1>2 DEF Taken, Earliest
<1>4. ASSUME NEW c \in DOMAIN T PROVE \E i \in 1 .. n : Earliest(rows, c, i)
  <2>. PICK when : when = [i \in 1 .. n |-> rows[i].when]
    OBVIOUS
  <2>. PICK I : I = {i \in 1 .. n : rows[i].code = c}
    OBVIOUS
  <2>1. I # {} /\ I \in SUBSET (1 .. n)
    BY <1>2
  <2>2. when \in [1 .. n -> Int]
    <3>1. \A i \in 1 .. n : rows[i].when \in Int
      OBVIOUS
    <3>. QED
      BY ONLY <3>1, when = [i \in 1 .. n |-> rows[i].when]
  <2>3. PICK i \in I : \A j \in I : when[i] < when[j] \/ (when[i] = when[j] /\ i <= j)
    BY ONLY <2>1, <2>2, EarliestIs, n \in Nat
  <2>. QED
    BY <2>3 DEF Earliest
<1>5. ASSUME NEW c \in DOMAIN T PROVE T[c] \in R /\ T[c].code = c /\ \A r \in R : r.code = c => T[c].when <= r.when
  <2>. PICK i \in 1 .. n : Earliest(rows, c, i) /\ T[c] = rows[i]
    BY <1>3, <1>4
  <2>1. \A j \in 1 .. n : rows[j].code = c => rows[i].when < rows[j].when \/ rows[i].when = rows[j].when
    BY DEF Earliest
  <2>2. \A j \in 1 .. n : rows[j].when \in Int
    OBVIOUS
  <2>3. \A j \in 1 .. n : rows[j].code = c => rows[i].when <= rows[j].when
    BY ONLY <2>1, <2>2, i \in 1 .. n
  <2>4. rows[i].code = c
    BY DEF Earliest
  <2>. QED
    BY <1>1, <2>3, <2>4
<1>6. DOMAIN T = {r.code : r \in R}
  BY <1>1, <1>2
<1>. QED
  BY <1>5, <1>6 DEF Soonest

\* With cards brought in from before, nothing is later and those are first.
LEMMA GrantedFirst ==
  ASSUME NEW p, Ordered(p), NEW facts, NEW more, IsList(more), \A c \in ToSet(more) : c.id # None /\ c.course # None,
         NEW after, after = [p EXCEPT !.incoming = @ \o more],
         NEW T, T = Taken(p, facts, None), NEW U, U = Taken(after, facts, None)
  PROVE  /\ Sooner(T, U) /\ (\A c \in DOMAIN U : U[c].when \in Int) /\ after.terms = p.terms
         /\ Credited(U, facts, {c.course : c \in ToSet(more)})
<1>. PICK N \in Nat : Boarded(p, N)
  BY BoardedElim
<1>. PICK old : old = p.incoming
  OBVIOUS
<1>1. IsList(old) /\ DOMAIN p.terms = 1 .. N /\ \A k \in 1 .. N : IsList(p.terms[k].cards) /\ p.terms[k].id \in Nat
  BY DEF Boarded, CardsOK, TermOK, IsList
<1>2. after.incoming = old \o more /\ after.terms = p.terms
  BY DEF Boarded, Plan
<1>3. IsList(old \o more) /\ ToSet(old \o more) = ToSet(old) \cup ToSet(more)
  <2>. PICK S : S = ToSet(old) \cup ToSet(more)
    OBVIOUS
  <2>1. old \in Seq(S)
    <3>1. old \in Seq(ToSet(old)) /\ ToSet(old) \subseteq S
      BY <1>1 DEF IsList
    <3>. QED
      BY ONLY <3>1
  <2>2. more \in Seq(S)
    <3>1. more \in Seq(ToSet(more)) /\ ToSet(more) \subseteq S
      BY DEF IsList
    <3>. QED
      BY ONLY <3>1
  <2>3. ToSet(old \o more) = S
    BY ONLY <2>1, <2>2, BothHold, S = ToSet(old) \cup ToSet(more)
  <2>4. old \o more \in Seq(S)
    BY ONLY <2>1, <2>2
  <2>. QED
    BY <2>3, <2>4 DEF IsList
<1>. PICK A : A = PlanRows(p, facts)
  OBVIOUS
<1>. PICK B : B = PlanRows(after, facts)
  OBVIOUS
<1>. PICK new : new = RowsFor(ToSet(more), Incoming, None, facts)
  OBVIOUS
<1>4. A \subseteq B /\ new \subseteq B
  <2>1. RowsFor(ToSet(old), Incoming, None, facts) \subseteq RowsFor(ToSet(old \o more), Incoming, None, facts)
    BY <1>3 DEF RowsFor
  <2>2. new \subseteq RowsFor(ToSet(old \o more), Incoming, None, facts)
    BY <1>3 DEF RowsFor
  <2>3. RowsFor(ToSet(old \o more), Incoming, None, facts) \subseteq B
    BY <1>2 DEF PlanRows
  <2>4. A = RowsFor(ToSet(old), Incoming, None, facts)
             \cup UNION {RowsFor(ToSet(p.terms[k].cards), p.terms[k].id, p.terms[k].id, facts) : k \in DOMAIN p.terms}
    BY DEF PlanRows
  <2>5. UNION {RowsFor(ToSet(p.terms[k].cards), p.terms[k].id, p.terms[k].id, facts) : k \in DOMAIN p.terms} \subseteq B
    BY <1>2 DEF PlanRows
  <2>. QED
    BY ONLY <2>1, <2>2, <2>3, <2>4, <2>5
<1>5. ASSUME NEW r \in B PROVE r.when \in Int /\ r.when >= Incoming
  <2>1. CASE r \in RowsFor(ToSet(after.incoming), Incoming, None, facts)
    <3>1. r.when = Incoming
      BY <2>1 DEF RowsFor, RowFor
    <3>. QED
      BY <3>1 DEF Incoming
  <2>2. CASE \E k \in 1 .. N : r \in RowsFor(ToSet(p.terms[k].cards), p.terms[k].id, p.terms[k].id, facts)
    <3>. PICK k \in 1 .. N : r \in RowsFor(ToSet(p.terms[k].cards), p.terms[k].id, p.terms[k].id, facts)
      BY <2>2
    <3>1. r.when = p.terms[k].id
      BY DEF RowsFor, RowFor
    <3>2. p.terms[k].id \in Nat
      BY <1>1
    <3>. QED
      BY ONLY <3>1, <3>2 DEF Incoming
  <2>. QED
    BY <1>1, <1>2, <2>1, <2>2 DEF PlanRows
<1>6. Soonest(T, A)
  <2>1. Placed(p, facts, None) \in Seq(A) /\ ToSet(Placed(p, facts, None)) = A
    BY <1>1, PlanPlaced
  <2>2. \A r \in A : r.when \in Int
    BY <1>4, <1>5
  <2>. QED
    BY ONLY <2>1, <2>2, SoonestTaken, T = Taken(p, facts, None)
<1>7. Soonest(U, B)
  <2>0. IsList(after.incoming) /\ DOMAIN after.terms = 1 .. N /\ \A k \in 1 .. N : IsList(after.terms[k].cards)
    BY <1>1, <1>2, <1>3
  <2>1. Placed(after, facts, None) \in Seq(B) /\ ToSet(Placed(after, facts, None)) = B
    BY <2>0, PlanPlaced
  <2>2. \A r \in B : r.when \in Int
    BY <1>5
  <2>. QED
    BY ONLY <2>1, <2>2, SoonestTaken, U = Taken(after, facts, None)
<1>8. \A c \in DOMAIN U : U[c].when \in Int /\ U[c].when >= Incoming
  BY <1>5, <1>7 DEF Soonest
<1>9. ASSUME NEW c \in DOMAIN T
      PROVE  c \in DOMAIN U /\ T[c].when \in Int /\ U[c].when \in Int /\ U[c].when <= T[c].when
  <2>1. T[c] \in A /\ T[c].code = c
    BY <1>6 DEF Soonest
  <2>2. T[c] \in B
    BY <1>4, <2>1
  <2>3. c \in DOMAIN U
    BY <1>7, <2>1, <2>2 DEF Soonest
  <2>. QED
    BY <1>5, <1>7, <2>1, <2>2, <2>3 DEF Soonest
<1>10. ASSUME NEW c \in ToSet(more)
       PROVE  Canonical(facts, c.course) \in DOMAIN U /\ U[Canonical(facts, c.course)].when = Incoming
  <2>. PICK r : r = RowFor(c, Incoming, None, facts)
    OBVIOUS
  <2>1. r \in B /\ r.code = Canonical(facts, c.course) /\ r.when = Incoming
    <3>1. r \in new
      BY DEF RowsFor
    <3>. QED
      BY <1>4, <3>1 DEF RowFor
  <2>. PICK code : code = Canonical(facts, c.course)
    OBVIOUS
  <2>2. code \in DOMAIN U /\ U[code].when <= r.when
    <3>1. r \in B /\ r.code = code
      BY <2>1
    <3>2. code \in DOMAIN U
      BY ONLY <1>7, <3>1 DEF Soonest
    <3>. QED
      BY ONLY <1>7, <3>1, <3>2 DEF Soonest
  <2>3. U[code].when \in Int /\ U[code].when >= Incoming
    BY <1>8, <2>2
  <2>4. U[code].when = Incoming
    BY ONLY <2>1, <2>2, <2>3 DEF Incoming
  <2>. QED
    BY <2>2, <2>4
<1>11. Credited(U, facts, {c.course : c \in ToSet(more)})
  BY <1>10 DEF Credited
<1>. QED
  BY <1>2, <1>8, <1>9, <1>11 DEF Sooner

\* Of some records one is the newest.
LEMMA NewestIs ==
  ASSUME NEW S, IsFiniteSet(S), S # {}, \A r \in S : r.year \in Int
  PROVE  \E r \in S : \A q \in S : q.year <= r.year
<1>. PICK n \in Nat : n = Cardinality(S)
  BY FS_CardinalityType
<1>. PICK f \in Bijection(1 .. n, S) : TRUE
  BY FS_CardinalityType DEF ExistsBijection
<1>1. (\A i \in 1 .. n : f[i] \in S) /\ \A r \in S : \E i \in 1 .. n : f[i] = r
  BY DEF Bijection, Injection, Surjection
<1>. PICK age : age = [i \in 1 .. n |-> 0 - f[i].year]
  OBVIOUS
<1>2. age \in [1 .. n -> Int]
  <2>1. \A i \in 1 .. n : 0 - f[i].year \in Int
    BY <1>1
  <2>. QED
    BY ONLY <2>1, age = [i \in 1 .. n |-> 0 - f[i].year]
<1>. PICK I \in SUBSET (1 .. n) : I = 1 .. n
  OBVIOUS
<1>3. I # {}
  BY <1>1
<1>4. PICK i \in I : \A j \in I : age[i] < age[j] \/ (age[i] = age[j] /\ i <= j)
  BY ONLY <1>2, <1>3, EarliestIs, n \in Nat, I \in SUBSET (1 .. n)
<1>5. \A j \in 1 .. n : f[j].year \in Int /\ age[j] = 0 - f[j].year
  BY <1>1
<1>6. \A j \in 1 .. n : f[j].year <= f[i].year
  <2>1. ASSUME NEW j \in 1 .. n PROVE f[j].year <= f[i].year
    <3>1. age[i] <= age[j]
      <4>1. age[i] < age[j] \/ age[i] = age[j]
        BY <1>4
      <4>2. age[i] \in Int /\ age[j] \in Int
        BY <1>2
      <4>. QED
        BY ONLY <4>1, <4>2
    <3>2. f[j].year \in Int /\ age[j] = 0 - f[j].year /\ f[i].year \in Int /\ age[i] = 0 - f[i].year
      BY <1>5
    <3>. QED
      BY ONLY <3>1, <3>2
  <2>. QED
    BY <2>1
<1>. QED
  BY <1>1, <1>6

\* What is required of a course can be read.
LEMMA RequiredLegible ==
  ASSUME NEW c, PrereqFact(Rows, c).kind = "requires"
  PROVE  Legible(PrereqFact(Rows, c).expr)
<1>. PICK seen : seen = {r \in Catalog.records : r.course \in AllCodes(Catalog)}
  OBVIOUS
<1>. DEFINE Latest(o) == o.course = c /\ \A p \in seen : p.course = c => p.year <= o.year
            o == CHOOSE x \in seen : Latest(x)
<1>1. Rows = FoldPrerequisites(seen)
  BY DEF Rows, Prerequisites
<1>2. c \in DOMAIN Rows /\ PrereqFact(Rows, c) = Rows[c]
  BY DEF PrereqFact, UnknownFact
<1>3. c \in {r.course : r \in seen}
  BY <1>1, <1>2 DEF FoldPrerequisites
<1>4. Rows[c] = IF o.text = <<>> THEN NoneRequired(o.year) ELSE Requires(o.year, ParseText(o.text))
  BY <1>1, <1>3 DEF FoldPrerequisites
<1>5. \E x \in seen : Latest(x)
  <2>. PICK S : S = {r \in seen : r.course = c}
    OBVIOUS
  <2>1. IsFiniteSet(S)
    <3>1. S \subseteq Catalog.records
      OBVIOUS
    <3>. QED
      BY <3>1, CatalogAssumption, FS_Subset
  <2>2. S # {}
    BY <1>3
  <2>3. \A r \in S : r.year \in Int
    BY CatalogAssumption
  <2>4. PICK r \in S : \A q \in S : q.year <= r.year
    BY ONLY <2>1, <2>2, <2>3, NewestIs
  <2>. QED
    BY <2>4
<1>6. o \in seen
  BY <1>5
<1>. PICK text : text = o.text
  OBVIOUS
<1>7. WordsOK(text)
  BY <1>6, CatalogAssumption
<1>8. Legible(ParseText(text))
  BY <1>7, TextRead, CatalogAssumption
<1>. PICK year : year = o.year
  OBVIOUS
<1>9. Rows[c] = IF text = <<>> THEN NoneRequired(year) ELSE Requires(year, ParseText(text))
  BY <1>4
<1>10. NoneRequired(year).kind # "requires" /\ Requires(year, ParseText(text)).expr = ParseText(text)
  BY DEF NoneRequired, Requires
<1>. HIDE DEF o
<1>11. Rows[c].kind = "requires"
  BY <1>2
<1>12. text # <<>>
  BY ONLY <1>9, <1>10, <1>11
<1>. QED
  BY ONLY <1>2, <1>8, <1>9, <1>10, <1>12

\* The warnings of prerequisites that are missing.
FactFor(tc) == PrereqFact(Rows, Canonical(Facts, tc[2].course))
VerdictFor(tc, taken) == Judge(FactFor(tc).expr, tc[1].id, taken, Facts)
MissedBy(p) == {tc \in OnTerms(p, {"rice"}) :
                  FactFor(tc).kind = "requires" /\ VerdictFor(tc, Taken(p, Facts, None)).truth = Missing}
WarningOf(tc, problem) == W("prerequisite", [term |-> tc[1].id, course |-> tc[2].course, problem |-> problem])
Missed(p) == UNION {{WarningOf(tc, q) : q \in Problems(VerdictFor(tc, Taken(p, Facts, None)))} : tc \in MissedBy(p)}
LEMMA MissedAre ==
  ASSUME NEW p
  PROVE  {w \in PrerequisiteProblems(p, Rows, Facts) : w.kind = "prerequisite"} = Missed(p)
<1>. PICK taken : taken = Taken(p, Facts, None)
  OBVIOUS
<1>. PICK open : open = {W("prerequisite_unparsed", [term |-> tc[1].id, course |-> tc[2].course]) :
                           tc \in {x \in OnTerms(p, {"rice"}) : FactFor(x).kind = "requires" /\ VerdictFor(x, taken).truth = Unknown}}
  OBVIOUS
<1>1. PrerequisiteProblems(p, Rows, Facts) = open \cup Missed(p)
  <2>1. {W("prerequisite_unparsed", [term |-> tc[1].id, course |-> tc[2].course]) :
           tc \in {x \in {y \in OnTerms(p, {"rice"}) : FactFor(y).kind = "requires"} : VerdictFor(x, taken).truth = Unknown}} = open
    OBVIOUS
  <2>2. UNION {{WarningOf(tc, q) : q \in Problems(VerdictFor(tc, taken))} :
                 tc \in {x \in {y \in OnTerms(p, {"rice"}) : FactFor(y).kind = "requires"} : VerdictFor(x, taken).truth = Missing}} = Missed(p)
    BY DEF Missed, MissedBy
  <2>3. PrerequisiteProblems(p, Rows, Facts)
          = {W("prerequisite_unparsed", [term |-> tc[1].id, course |-> tc[2].course]) :
               tc \in {x \in {y \in OnTerms(p, {"rice"}) : FactFor(y).kind = "requires"} : VerdictFor(x, taken).truth = Unknown}}
            \cup UNION {{WarningOf(tc, q) : q \in Problems(VerdictFor(tc, taken))} :
                 tc \in {x \in {y \in OnTerms(p, {"rice"}) : FactFor(y).kind = "requires"} : VerdictFor(x, taken).truth = Missing}}
    BY DEF PrerequisiteProblems, FactFor, VerdictFor, WarningOf
  <2>. QED
    BY ONLY <2>1, <2>2, <2>3
<1>2. \A w \in open : w.kind # "prerequisite"
  BY DEF W
<1>3. \A w \in Missed(p) : w.kind = "prerequisite"
  BY DEF Missed, WarningOf, W
<1>. QED
  BY ONLY <1>1, <1>2, <1>3

\* No other warning is of that kind.
NotOfPrereqs(S) == \A w \in S : w.kind # "prerequisite"
LEMMA OthersTold ==
  ASSUME NEW bundle, NEW cards, NEW chosen, NEW reports, NEW rules
  PROVE  {w \in PlanWarnings(bundle, cards, chosen, reports, rules) : w.kind = "prerequisite"}
           = {w \in PrerequisiteProblems(bundle.plan, bundle.prerequisites, bundle.facts) : w.kind = "prerequisite"}
<1>1. NotOfPrereqs(ProgramWarnings(bundle, cards, chosen))
  <2>1. \A p : NotOfPrereqs(PinWarnings(p)) /\ NotOfPrereqs(AttributeUnknown(p))
    BY DEF NotOfPrereqs, PinWarnings, AttributeUnknown, W
  <2>. DEFINE live == UNION {RuleIds(chosen[k]) : k \in DOMAIN chosen}
              retired == UNION {p.retired : p \in bundle.programs}
              at(k) == Placement(Slots(chosen[k]), cards, bundle.facts)
              A == {W("program_unavailable", [program |-> id, year |-> bundle.plan.catalogYear]) :
                      id \in ToSet(bundle.plan.programs) \ {chosen[k].id : k \in DOMAIN chosen}}
              B == {W("program_year_substituted", [program |-> chosen[k].id, wanted |-> bundle.plan.catalogYear,
                                                   used |-> chosen[k].year]) :
                      k \in {j \in DOMAIN chosen : chosen[j].year # bundle.plan.catalogYear}}
              C == UNION {PinWarnings(at(k)) \cup AttributeUnknown(at(k)) : k \in DOMAIN chosen}
              D == {W("choice_missing", [term |-> cards[ir[1]].term, entry |-> cards[ir[1]].entry,
                                         rule |-> ir[2], retired |-> ir[2] \in retired]) :
                      ir \in UNION {{i} \X (ToSet(cards[i].fills) \ live) : i \in DOMAIN cards}}
  <2>2. ProgramWarnings(bundle, cards, chosen) = A \cup B \cup C \cup D
    BY ONLY DEF ProgramWarnings
  <2>3. NotOfPrereqs(A)
    BY DEF NotOfPrereqs, W
  <2>4. NotOfPrereqs(B)
    BY DEF NotOfPrereqs, W
  <2>5. NotOfPrereqs(C)
    <3>. HIDE DEF at
    <3>. QED
      BY <2>1 DEF NotOfPrereqs
  <2>6. NotOfPrereqs(D)
    <3>1. \A w \in D : \E b : w = W("choice_missing", b)
      BY ONLY Zenon
    <3>2. \A b : W("choice_missing", b).kind # "prerequisite"
      BY DEF W
    <3>. HIDE DEF D
    <3>. QED
      BY ONLY <3>1, <3>2 DEF NotOfPrereqs
  <2>. HIDE DEF A, B, C, D
  <2>. QED
    BY ONLY <2>2, <2>3, <2>4, <2>5, <2>6 DEF NotOfPrereqs
<1>2. NotOfPrereqs(FillsNoRequirement(bundle.plan, rules))
  BY DEF NotOfPrereqs, FillsNoRequirement, W
<1>3. NotOfPrereqs(DuplicateCourses(bundle.facts, bundle.programs, cards, rules))
  <2>1. \A w \in DuplicateCourses(bundle.facts, bundle.programs, cards, rules) : \E b : w = W("duplicate_course", b)
    BY ONLY Zenon DEF DuplicateCourses
  <2>2. \A b : W("duplicate_course", b).kind # "prerequisite"
    BY DEF W
  <2>. QED
    BY ONLY <2>1, <2>2 DEF NotOfPrereqs
<1>4. NotOfPrereqs(ExclusionProblems(bundle.plan, bundle.exclusions, bundle.facts))
  BY DEF NotOfPrereqs, ExclusionProblems, W
<1>5. NotOfPrereqs(SeasonUnlikely(bundle.plan, bundle.facts))
  BY DEF NotOfPrereqs, SeasonUnlikely, W
<1>6. NotOfPrereqs({W("plan_invalidated", d) : d \in bundle.invalidations})
  BY DEF NotOfPrereqs, W
<1>7. NotOfPrereqs(OverSemesterLoad(bundle.plan, bundle.limits, MusicOrArchitecture(bundle)))
  BY DEF NotOfPrereqs, OverSemesterLoad, W
<1>8. NotOfPrereqs(CourseFactsChanged(bundle.plan, bundle.facts))
  BY DEF NotOfPrereqs, CourseFactsChanged, W
<1>9. NotOfPrereqs(ManualCredits(bundle.plan))
  BY DEF NotOfPrereqs, ManualCredits, W
<1>10. NotOfPrereqs(DoubleCounted(reports, chosen, cards))
  <2>1. \A w \in DoubleCounted(reports, chosen, cards) : \E b : w = W("double_counted", b)
    BY ONLY Zenon DEF DoubleCounted
  <2>2. \A b : W("double_counted", b).kind # "prerequisite"
    BY DEF W
  <2>. QED
    BY ONLY <2>1, <2>2 DEF NotOfPrereqs
<1>11. NotOfPrereqs(SelfChecks(reports))
  BY DEF NotOfPrereqs, SelfChecks, W
<1>. QED
  BY ONLY <1>1, <1>2, <1>3, <1>4, <1>5, <1>6, <1>7, <1>8, <1>9, <1>10, <1>11 DEF PlanWarnings, NotOfPrereqs

LEMMA ImageIs ==
  ASSUME NEW A, NEW Y, \A y \in Y : \E q \in A : q.course = y, \A q \in A : q.course \in Y
  PROVE  {q.course : q \in A} = Y
OBVIOUS

\* What a sound verdict has for problems.
LEMMA ProblemsNamed ==
  ASSUME NEW v, Sound(v)
  PROVE  {q.course : q \in Problems(v)} = Named(v) /\ IsFiniteSet(Problems(v))
<1>1. IsList(v.missing) /\ IsList(v.same) /\ IsList(v.later)
  BY DEF Sound
<1>. PICK A : A = {[course |-> c, problem |-> "not_in_plan"] : c \in ToSet(v.missing)}
  OBVIOUS
<1>. PICK B : B = {[course |-> c, problem |-> "same_term"] : c \in ToSet(v.same)}
  OBVIOUS
<1>. PICK C : C = {[course |-> l.code, problem |-> "later"] : l \in ToSet(v.later)}
  OBVIOUS
<1>2. Problems(v) = (A \cup B) \cup C
  BY DEF Problems
<1>3. IsFiniteSet(A)
  <2>. PICK f : f = [c \in ToSet(v.missing) |-> [course |-> c, problem |-> "not_in_plan"]]
    OBVIOUS
  <2>1. A = {f[c] : c \in ToSet(v.missing)}
    OBVIOUS
  <2>. QED
    BY ONLY <1>1, <2>1, ListFinite, ImageFinite
<1>4. IsFiniteSet(B)
  <2>. PICK f : f = [c \in ToSet(v.same) |-> [course |-> c, problem |-> "same_term"]]
    OBVIOUS
  <2>1. B = {f[c] : c \in ToSet(v.same)}
    OBVIOUS
  <2>. QED
    BY ONLY <1>1, <2>1, ListFinite, ImageFinite
<1>5. IsFiniteSet(C)
  <2>. PICK f : f = [l \in ToSet(v.later) |-> [course |-> l.code, problem |-> "later"]]
    OBVIOUS
  <2>1. C = {f[l] : l \in ToSet(v.later)}
    OBVIOUS
  <2>. QED
    BY ONLY <1>1, <2>1, ListFinite, ImageFinite
<1>6. IsFiniteSet(Problems(v))
  <2>1. IsFiniteSet(A \cup B)
    BY ONLY <1>3, <1>4, FS_Union
  <2>. QED
    BY ONLY <1>2, <1>5, <2>1, FS_Union
<1>7. /\ {q.course : q \in A} = ToSet(v.missing) /\ {q.course : q \in B} = ToSet(v.same)
      /\ {q.course : q \in C} = {l.code : l \in ToSet(v.later)}
  <2>1. {q.course : q \in A} = ToSet(v.missing)
    <3>. PICK X : X = ToSet(v.missing)
      OBVIOUS
    <3>. PICK k : k = "not_in_plan"
      OBVIOUS
    <3>1. A = {[course |-> c, problem |-> k] : c \in X}
      OBVIOUS
    <3>2. ASSUME NEW z \in X
          PROVE  \E q \in A : q.course = z
      <4>. PICK q : q = [course |-> z, problem |-> k]
        OBVIOUS
      <4>1. q \in A /\ q.course = z
        BY <3>1
      <4>. QED
        BY ONLY <4>1
    <3>3. ASSUME NEW q \in A
          PROVE  \E z \in X : q.course = z
      BY <3>1
    <3>4. {q.course : q \in A} = X
      <4>. PICK Y : Y = X
        OBVIOUS
      <4>1. \A y \in Y : \E q \in A : q.course = y
        BY ONLY <3>2, Y = X
      <4>2. \A q \in A : q.course \in Y
        BY ONLY <3>3, Y = X
      <4>. QED
        BY ONLY <4>1, <4>2, ImageIs, Y = X
    <3>. QED
      BY ONLY <3>4, X = ToSet(v.missing)
  <2>2. {q.course : q \in B} = ToSet(v.same)
    <3>. PICK X : X = ToSet(v.same)
      OBVIOUS
    <3>. PICK k : k = "same_term"
      OBVIOUS
    <3>1. B = {[course |-> c, problem |-> k] : c \in X}
      OBVIOUS
    <3>2. ASSUME NEW z \in X
          PROVE  \E q \in B : q.course = z
      <4>. PICK q : q = [course |-> z, problem |-> k]
        OBVIOUS
      <4>1. q \in B /\ q.course = z
        BY <3>1
      <4>. QED
        BY ONLY <4>1
    <3>3. ASSUME NEW q \in B
          PROVE  \E z \in X : q.course = z
      BY <3>1
    <3>4. {q.course : q \in B} = X
      <4>. PICK Y : Y = X
        OBVIOUS
      <4>1. \A y \in Y : \E q \in B : q.course = y
        BY ONLY <3>2, Y = X
      <4>2. \A q \in B : q.course \in Y
        BY ONLY <3>3, Y = X
      <4>. QED
        BY ONLY <4>1, <4>2, ImageIs, Y = X
    <3>. QED
      BY ONLY <3>4, X = ToSet(v.same)
  <2>3. {q.course : q \in C} = {l.code : l \in ToSet(v.later)}
    <3>. PICK X : X = ToSet(v.later)
      OBVIOUS
    <3>. PICK k : k = "later"
      OBVIOUS
    <3>1. C = {[course |-> l.code, problem |-> k] : l \in X}
      OBVIOUS
    <3>2. ASSUME NEW z \in X
          PROVE  \E q \in C : q.course = z.code
      <4>. PICK q : q = [course |-> z.code, problem |-> k]
        OBVIOUS
      <4>1. q \in C /\ q.course = z.code
        BY <3>1
      <4>. QED
        BY ONLY <4>1
    <3>3. ASSUME NEW q \in C
          PROVE  \E z \in X : q.course = z.code
      BY <3>1
    <3>4. {q.course : q \in C} = {l.code : l \in X}
      <4>. PICK Y : Y = {l.code : l \in X}
        OBVIOUS
      <4>1. \A y \in Y : \E q \in C : q.course = y
        BY ONLY <3>2, Y = {l.code : l \in X}
      <4>2. \A q \in C : q.course \in Y
        BY ONLY <3>3, Y = {l.code : l \in X}
      <4>. QED
        BY ONLY <4>1, <4>2, ImageIs, Y = {l.code : l \in X}
    <3>. QED
      BY ONLY <3>4, X = ToSet(v.later)
  <2>. QED
    BY ONLY <2>1, <2>2, <2>3
<1>8. {q.course : q \in Problems(v)} = {q.course : q \in A} \cup {q.course : q \in B} \cup {q.course : q \in C}
  BY ONLY <1>2
<1>. QED
  BY ONLY <1>6, <1>7, <1>8 DEF Named

LEMMA OnTermsFinite ==
  ASSUME NEW p, Ordered(p), NEW kinds
  PROVE  IsFiniteSet(OnTerms(p, kinds)) /\ \A tc \in OnTerms(p, kinds) : tc[1].id \in Nat
<1>. PICK N \in Nat : Boarded(p, N)
  BY BoardedElim
<1>. PICK near : near = [k \in 1 .. N |-> {p.terms[k]} \X ToSet(p.terms[k].cards)]
  OBVIOUS
<1>. PICK all : all = {near[k] : k \in 1 .. N}
  OBVIOUS
<1>1. DOMAIN p.terms = 1 .. N /\ \A k \in 1 .. N : TermOK(p.terms[k])
  BY DEF Boarded
<1>2. OnTerms(p, kinds) \subseteq UNION all
  BY <1>1 DEF OnTerms, ToSet
<1>3. IsFiniteSet(all)
  <2>1. IsFiniteSet(1 .. N)
    BY FS_Interval
  <2>. QED
    BY ONLY <2>1, ImageFinite, all = {near[k] : k \in 1 .. N}
<1>4. \A S \in all : IsFiniteSet(S)
  <2>1. ASSUME NEW k \in 1 .. N PROVE IsFiniteSet(near[k])
    <3>1. IsList(p.terms[k].cards)
      BY <1>1 DEF TermOK, CardsOK, IsList
    <3>2. IsFiniteSet({p.terms[k]}) /\ IsFiniteSet(ToSet(p.terms[k].cards))
      BY <3>1, ListFinite, FS_Singleton
    <3>. QED
      BY <3>2, FS_Product
  <2>. QED
    BY <2>1
<1>5. IsFiniteSet(OnTerms(p, kinds))
  <2>1. IsFiniteSet(UNION all)
    BY <1>3, <1>4, FS_UNION
  <2>. QED
    BY <1>2, <2>1, FS_Subset
<1>6. \A tc \in OnTerms(p, kinds) : tc[1].id \in Nat
  <2>1. ASSUME NEW k \in 1 .. N, NEW c, NEW tc, tc = <<p.terms[k], c>> PROVE tc[1].id \in Nat
    BY <1>1, <2>1 DEF TermOK
  <2>2. \A tc \in OnTerms(p, kinds) : \E k \in 1 .. N : \E c : tc = <<p.terms[k], c>>
    BY <1>2
  <2>. QED
    BY <2>1, <2>2
<1>. QED
  BY <1>5, <1>6

\* A set that can be listed, as a list.
LEMMA SetListed ==
  ASSUME NEW S, IsFiniteSet(S)
  PROVE  IsList(SetToSeq(S)) /\ ToSet(SetToSeq(S)) = S
<1>. PICK n \in Nat : n = Cardinality(S)
  BY FS_CardinalityType
<1>. PICK f : f = SetToSeq(S)
  OBVIOUS
<1>1. f = CHOOSE g \in [1 .. n -> S] : IsInjective(g)
  BY DEF SetToSeq
<1>2. \E g \in [1 .. n -> S] : IsInjective(g)
  <2>. PICK g \in Bijection(1 .. n, S) : TRUE
    BY FS_CardinalityType DEF ExistsBijection
  <2>. QED
    BY DEF Bijection, Injection, IsInjective
<1>3. f \in [1 .. n -> S] /\ IsInjective(f)
  BY ONLY <1>1, <1>2
<1>4. \A x \in S : \E i \in 1 .. n : f[i] = x
  <2>1. f \in Injection(1 .. n, S)
    BY <1>3 DEF Injection, IsInjective
  <2>2. IsFiniteSet(1 .. n) /\ Cardinality(1 .. n) = n
    BY FS_Interval
  <2>3. f \in Surjection(1 .. n, S)
    BY <2>1, <2>2, FS_Injection
  <2>. QED
    BY <2>3 DEF Surjection
<1>5. ToSet(f) = S
  BY ONLY <1>3, <1>4 DEF ToSet
<1>6. f \in Seq(S)
  BY ONLY <1>3, n \in Nat
<1>. QED
  BY <1>5, <1>6 DEF IsList

\* Doing what the prerequisite warnings say clears them: with every course
\* they name brought in as credit from before, no such warning is left.
THEOREM WarningsAlwaysClear == Spec => []WarningsCanBeFollowed
<1>1. ASSUME Current, Ordered(plan) PROVE WarningsCanBeFollowed
  <2>. DEFINE told == {w \in report.warnings : w.kind = "prerequisite"}
              granted == {ManualCard(0, "transfer", w.body.problem.course, 0, None, <<>>, {}) : w \in told}
              after == [plan EXCEPT !.incoming = @ \o SetToSeq(granted)]
  <2>1. SUFFICES ASSUME report # None PROVE \A w \in PrerequisiteProblems(after, Rows, Facts) : w.kind # "prerequisite"
    BY DEF WarningsCanBeFollowed
  <2>2. told = Missed(plan)
    <3>1. \E cards, chosen, reports, rules : report.warnings = PlanWarnings(Bundle(plan), cards, chosen, reports, rules)
      <4>1. report = Evaluate(Bundle(plan))
        BY <1>1, <2>1 DEF Current
      <4>. QED
        BY <4>1 DEF Evaluate, Reports, Summary
    <3>2. Bundle(plan).plan = plan /\ Bundle(plan).prerequisites = Rows /\ Bundle(plan).facts = Facts
      BY DEF Bundle
    <3>3. told = {w \in PrerequisiteProblems(plan, Rows, Facts) : w.kind = "prerequisite"}
      BY ONLY <3>1, <3>2, OthersTold
    <3>. QED
      BY ONLY <3>3, MissedAre
  <2>. PICK T : T = Taken(plan, Facts, None)
    OBVIOUS
  <2>. PICK on : on = OnTerms(plan, {"rice"})
    OBVIOUS
  <2>3. IsFiniteSet(on) /\ \A tc \in on : tc[1].id \in Nat
    BY <1>1, OnTermsFinite
  <2>4. MaxExprDepth \in Nat /\ None \notin Int
    BY CatalogAssumption
  <2>5. ASSUME NEW tc \in on, FactFor(tc).kind = "requires" PROVE Legible(FactFor(tc).expr)
    BY <2>5, RequiredLegible DEF FactFor
  <2>6. \A c \in DOMAIN T : T[c].when \in Int
    BY <1>1, TakenIs DEF PlacedRow
  <2>7. ASSUME NEW tc \in on, FactFor(tc).kind = "requires" PROVE Sound(VerdictFor(tc, T))
    <3>1. Sooner(T, T) /\ Credited(T, Facts, {})
      <4>1. \A c \in DOMAIN T : T[c].when <= T[c].when
        BY <2>6
      <4>. QED
        BY ONLY <2>6, <4>1 DEF Sooner, Credited
    <3>2. tc[1].id \in Nat /\ Legible(FactFor(tc).expr)
      BY <2>3, <2>5, <2>7
    <3>3. Clears(VerdictFor(tc, T), VerdictFor(tc, T), {})
      BY ONLY <2>4, <2>6, <3>1, <3>2, JudgeClears DEF VerdictFor
    <3>. QED
      BY <3>3 DEF Clears
  <2>8. \A w \in told : \E tc \in MissedBy(plan) : \E q \in Problems(VerdictFor(tc, T)) : w = WarningOf(tc, q)
    BY <2>2 DEF Missed
  <2>9. \A tc, q : WarningOf(tc, q).body.problem = q
    BY DEF WarningOf, W
  <2>10. MissedBy(plan) \subseteq {tc \in on : FactFor(tc).kind = "requires"}
    BY DEF MissedBy
  <2>11. \A w \in told : w.body.problem.course # None
    <3>1. ASSUME NEW tc \in MissedBy(plan), NEW q \in Problems(VerdictFor(tc, T)) PROVE q.course # None
      <4>1. Sound(VerdictFor(tc, T))
        BY <2>7, <2>10
      <4>2. q.course \in Named(VerdictFor(tc, T))
        BY <4>1, ProblemsNamed
      <4>. QED
        BY <4>1, <4>2 DEF Sound
    <3>. QED
      BY ONLY <2>8, <2>9, <3>1
  <2>12. IsFiniteSet(told)
    <3>. PICK miss : miss = MissedBy(plan)
      OBVIOUS
    <3>. PICK ask : ask = [tc \in miss |-> {WarningOf(tc, q) : q \in Problems(VerdictFor(tc, T))}]
      OBVIOUS
    <3>1. told = UNION {ask[tc] : tc \in miss}
      BY <2>2 DEF Missed
    <3>2. IsFiniteSet(miss)
      <4>1. miss \subseteq on
        BY <2>10
      <4>. QED
        BY <2>3, <4>1, FS_Subset
    <3>3. ASSUME NEW tc \in miss PROVE IsFiniteSet(ask[tc])
      <4>. PICK Q : Q = Problems(VerdictFor(tc, T))
        OBVIOUS
      <4>1. IsFiniteSet(Q)
        <5>1. Sound(VerdictFor(tc, T))
          BY <2>7, <2>10
        <5>. QED
          BY <5>1, ProblemsNamed
      <4>. PICK f : f = [q \in Q |-> WarningOf(tc, q)]
        OBVIOUS
      <4>2. ask[tc] = {f[q] : q \in Q}
        OBVIOUS
      <4>. QED
        BY ONLY <4>1, <4>2, ImageFinite
    <3>4. IsFiniteSet({ask[tc] : tc \in miss})
      BY ONLY <3>2, ImageFinite
    <3>5. \A S \in {ask[tc] : tc \in miss} : IsFiniteSet(S)
      BY <3>3
    <3>. QED
      BY ONLY <3>1, <3>4, <3>5, FS_UNION
  <2>. HIDE DEF told
  <2>13. \A w \in told : ManualCard(0, "transfer", w.body.problem.course, 0, None, <<>>, {}).course = w.body.problem.course
                         /\ ManualCard(0, "transfer", w.body.problem.course, 0, None, <<>>, {}).id = 0
    BY DEF ManualCard
  <2>14. IsFiniteSet(granted)
    <3>. PICK f : f = [w \in told |-> ManualCard(0, "transfer", w.body.problem.course, 0, None, <<>>, {})]
      OBVIOUS
    <3>. PICK g : g = granted
      OBVIOUS
    <3>1. g = {f[w] : w \in told}
      OBVIOUS
    <3>2. IsFiniteSet(g)
      BY ONLY <2>12, <3>1, ImageFinite
    <3>. QED
      BY <3>2
  <2>. PICK more : more = SetToSeq(granted)
    OBVIOUS
  <2>15. IsList(more) /\ ToSet(more) = granted
    BY <2>14, SetListed
  <2>16. \A c \in ToSet(more) : c.id # None /\ c.course # None
    <3>1. 0 # None
      BY <2>4
    <3>. QED
      BY <2>11, <2>13, <2>15, <3>1
  <2>. PICK G : G = {c.course : c \in ToSet(more)}
    OBVIOUS
  <2>17. \A w \in told : w.body.problem.course \in G
    BY <2>13, <2>15
  <2>. PICK p : p = after
    OBVIOUS
  <2>18. p = [plan EXCEPT !.incoming = @ \o more]
    OBVIOUS
  <2>. HIDE DEF after, granted
  <2>. PICK U : U = Taken(p, Facts, None)
    OBVIOUS
  <2>19. Sooner(T, U) /\ (\A c \in DOMAIN U : U[c].when \in Int) /\ p.terms = plan.terms /\ Credited(U, Facts, G)
    BY ONLY <1>1, <2>15, <2>16, <2>18, GrantedFirst, T = Taken(plan, Facts, None), U = Taken(p, Facts, None),
            G = {c.course : c \in ToSet(more)}
  <2>20. OnTerms(p, {"rice"}) = on
    BY <2>19 DEF OnTerms
  <2>21. ASSUME NEW tc \in MissedBy(p) PROVE FALSE
    <3>1. tc \in on /\ FactFor(tc).kind = "requires" /\ VerdictFor(tc, U).truth = Missing
      BY <2>20 DEF MissedBy
    <3>. PICK v : v = VerdictFor(tc, T)
      OBVIOUS
    <3>. PICK w : w = VerdictFor(tc, U)
      OBVIOUS
    <3>2. Clears(v, w, G)
      <4>1. tc[1].id \in Nat /\ Legible(FactFor(tc).expr)
        BY <2>3, <2>5, <3>1
      <4>. QED
        BY ONLY <2>4, <2>19, <4>1, JudgeClears, v = VerdictFor(tc, T), w = VerdictFor(tc, U) DEF VerdictFor
    <3>3. v.truth \in 0 .. 2 /\ w.truth = Missing /\ v.truth <= w.truth
      BY <3>1, <3>2 DEF Clears, Better, Sound
    <3>4. v.truth = Missing
      BY ONLY <3>3 DEF Missing
    <3>5. tc \in MissedBy(plan)
      BY <3>1, <3>4 DEF MissedBy
    <3>6. Named(v) \subseteq G
      <4>1. ASSUME NEW x \in Named(v) PROVE x \in G
        <5>. PICK q \in Problems(v) : x = q.course
          BY <3>2, ProblemsNamed DEF Clears
        <5>1. WarningOf(tc, q) \in told
          BY <2>2, <3>5 DEF Missed
        <5>. QED
          BY <2>9, <2>17, <5>1
      <4>. QED
        BY <4>1
    <3>. QED
      BY <3>2, <3>3, <3>4, <3>6 DEF Clears, Better
  <2>22. Missed(p) = {}
    BY <2>21 DEF Missed
  <2>23. {w \in PrerequisiteProblems(p, Rows, Facts) : w.kind = "prerequisite"} = {}
    BY ONLY <2>22, MissedAre
  <2>. QED
    BY <2>23
<1>2. Init => Current
  BY DEF Init, Current
<1>3. Current /\ [Next]_vars => Current'
  BY StepCurrent
<1>4. BoardIsOrdered => Ordered(plan)
  BY DEF Ordered, BoardIsOrdered, TypeOK
<1>. QED
  BY <1>1, <1>2, <1>3, <1>4, BoardStaysOrdered, PTL DEF Spec
=============================================================================
