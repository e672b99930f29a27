--------------------------- MODULE PlanSync_proofs ---------------------------
(***************************************************************************)
(* Proofs about PlanSync: for any number of tabs and edits, patient users  *)
(* lose nothing, "saved" means stored, and documents land in order.        *)
(*                                                                         *)
(* 1. Types, and what each operation changes.                              *)
(* 2. Hands: a document in the hands of a tab is one it had, loaded or     *)
(*    grew by the edit just made; the store takes one of these or a late   *)
(*    request.  Every step of the system is such a move.                   *)
(* 3. Order: versions are behind the store's, documents are signed by      *)
(*    their newest edit, a tab's queue is newer than what it has stored.   *)
(* 4. Patient tabs: what the board, the queue and the picks of a user who  *)
(*    waits for saves know of each other.                                  *)
(* 5. Freshness: with all users patient, whoever names the current         *)
(*    version has read everything stored.                                  *)
(***************************************************************************)
EXTENDS PlanSync, FiniteSetTheorems, SequenceTheorems, TLAPS

-----------------------------------------------------------------------------
(* Types.  Edits are numbered without a gap, and every pick under way has  *)
(* one left to make, so the next edit is always a new one.                 *)

Picking == {t \in Tabs : load[t]["pick"].stage # "idle"}

Counted ==
  /\ Made = 1..Cardinality(Made)
  /\ Cardinality(Made) + Cardinality(Picking) <= MaxEdits

ServerType ==
  /\ doc \in Docs /\ version \in Nat \ {0} /\ stored \in Docs
  /\ late \in SUBSET [version : Nat, doc : Docs]

SaverType ==
  /\ pending \in [Tabs -> {None} \cup Docs]
  /\ chain \in [Tabs -> Seq(Docs)]
  /\ put \in [Tabs -> Put]
  /\ status \in [Tabs -> {"saved", "pending", "saving", "conflict", "failed"}]
  /\ \A t \in Tabs : (put[t].stage = "none") <=> (chain[t] = <<>>)

LoadType ==
  /\ load \in [Tabs -> [Loaders -> Load]]
  /\ \A t \in Tabs : load[t]["pick"].stage = "flush" => load[t]["pick"].wait >= 1

BoardType ==
  /\ page \in [Tabs -> {"away", "plan", "catalog"}]
  /\ shown \in [Tabs -> {None} \cup Docs]

HistoryType ==
  /\ by \in [Edits -> Tabs \cup {None}]
  /\ hurried \in SUBSET Tabs

TypeInv == /\ ServerType /\ SaverType /\ LoadType /\ BoardType /\ HistoryType
           /\ known \in [Tabs -> Nat]

\* One load changes, and no other.
LEMMA LoadEffect ==
  ASSUME load \in [Tabs -> [Loaders -> Load]], NEW t \in Tabs, NEW l \in Loaders, NEW q \in Load,
         load' = [load EXCEPT ![t][l] = q]
  PROVE  /\ load' \in [Tabs -> [Loaders -> Load]]
         /\ load'[t][l] = q
         /\ \A s \in Tabs, k \in Loaders : (s # t \/ k # l) => load'[s][k] = load[s][k]
  OBVIOUS

\* A load that is not left waiting for the chain.
LEMMA LoadMoves ==
  ASSUME LoadType, NEW t \in Tabs, NEW l \in Loaders, NEW q \in Load,
         q.stage # "flush", load' = [load EXCEPT ![t][l] = q]
  PROVE  /\ LoadType' /\ load'[t][l] = q
         /\ \A s \in Tabs, k \in Loaders : (s # t \/ k # l) => load'[s][k] = load[s][k]
<1>1. load \in [Tabs -> [Loaders -> Load]] /\ "pick" \in Loaders
  BY DEF LoadType, Loaders
<1>2. /\ load' \in [Tabs -> [Loaders -> Load]] /\ load'[t][l] = q
      /\ \A s \in Tabs, k \in Loaders : (s # t \/ k # l) => load'[s][k] = load[s][k]
  BY <1>1, LoadEffect
<1>3. ASSUME NEW s \in Tabs
      PROVE  load'[s]["pick"].stage = "flush" => load'[s]["pick"].wait >= 1
  BY <1>1, <1>2 DEF LoadType
<1>. QED
  BY <1>2, <1>3 DEF LoadType

\* A pick that may wait for the chain.
LEMMA PickMoves ==
  ASSUME LoadType, NEW t \in Tabs, NEW q \in Load, q.stage = "flush" => q.wait >= 1,
         load' = [load EXCEPT ![t]["pick"] = q]
  PROVE  /\ LoadType' /\ load'[t]["pick"] = q
         /\ \A s \in Tabs, k \in Loaders : (s # t \/ k # "pick") => load'[s][k] = load[s][k]
<1>1. load \in [Tabs -> [Loaders -> Load]] /\ "pick" \in Loaders
  BY DEF LoadType, Loaders
<1>2. /\ load' \in [Tabs -> [Loaders -> Load]] /\ load'[t]["pick"] = q
      /\ \A s \in Tabs, k \in Loaders : (s # t \/ k # "pick") => load'[s][k] = load[s][k]
  BY <1>1, LoadEffect
<1>3. ASSUME NEW s \in Tabs
      PROVE  load'[s]["pick"].stage = "flush" => load'[s]["pick"].wait >= 1
  <2>1. CASE s = t
    BY <1>2, <2>1
  <2>2. CASE s # t
    BY <1>1, <1>2, <2>2 DEF LoadType
  <2>. QED
    BY <2>1, <2>2
<1>. QED
  BY <1>2, <1>3 DEF LoadType

\* A write joins the chain of its tab; a chain that was empty sends at once.
LEMMA WriteNowEffect ==
  ASSUME PlanSyncAssumption, SaverType, NEW t \in Tabs, NEW d \in Docs, known \in [Tabs -> Nat],
         WriteNow(t, d)
  PROVE  /\ SaverType'
         /\ pending'[t] = None /\ chain'[t] = Append(chain[t], d)
         /\ put'[t] = IF chain[t] = <<>> THEN Sent(known[t]) ELSE put[t]
         /\ status'[t] = "saving"
         /\ chain'[t] # <<>>
         /\ \A s \in Tabs \ {t} :
              /\ pending'[s] = pending[s] /\ chain'[s] = chain[s]
              /\ put'[s] = put[s] /\ status'[s] = status[s]
<1>1. /\ pending' \in [Tabs -> {None} \cup Docs] /\ pending'[t] = None
      /\ \A s \in Tabs \ {t} : pending'[s] = pending[s]
  BY DEF SaverType, WriteNow
<1>2. /\ chain' \in [Tabs -> Seq(Docs)] /\ chain'[t] = Append(chain[t], d) /\ chain'[t] # <<>>
      /\ \A s \in Tabs \ {t} : chain'[s] = chain[s]
  <2>1. chain[t] \in Seq(Docs)
    BY DEF SaverType
  <2>2. Append(chain[t], d) \in Seq(Docs) /\ Append(chain[t], d) # <<>>
    BY <2>1
  <2>. QED
    BY <2>2 DEF SaverType, WriteNow
<1>3. /\ put' \in [Tabs -> Put]
      /\ put'[t] = IF chain[t] = <<>> THEN Sent(known[t]) ELSE put[t]
      /\ \A s \in Tabs \ {t} : put'[s] = put[s]
  BY DEF SaverType, WriteNow, Put, Sent
<1>4. /\ status' \in [Tabs -> {"saved", "pending", "saving", "conflict", "failed"}]
      /\ status'[t] = "saving"
      /\ \A s \in Tabs \ {t} : status'[s] = status[s]
  BY DEF SaverType, WriteNow
<1>5. put'[t].stage # "none"
  BY <1>3 DEF SaverType, Sent
<1>6. \A s \in Tabs : (put'[s].stage = "none") <=> (chain'[s] = <<>>)
  BY <1>2, <1>3, <1>5 DEF SaverType
<1>. QED
  BY <1>1, <1>2, <1>3, <1>4, <1>6 DEF SaverType

\* A flush does nothing, or writes what was pending.
LEMMA FlushEffect ==
  ASSUME PlanSyncAssumption, SaverType, NEW t \in Tabs, known \in [Tabs -> Nat], FlushPlanSave(t)
  PROVE  /\ SaverType'
         /\ pending'[t] = None
         /\ \/ pending[t] = None /\ UNCHANGED saver
            \/ pending[t] \in Docs /\ pending[t] # None /\ WriteNow(t, pending[t])
<1>1. CASE pending[t] = None
  BY <1>1 DEF SaverType, FlushPlanSave, saver
<1>2. CASE pending[t] # None
  <2>1. pending[t] \in Docs /\ WriteNow(t, pending[t])
    BY <1>2 DEF SaverType, FlushPlanSave
  <2>. QED
    BY <1>2, <2>1, WriteNowEffect
<1>. QED
  BY <1>1, <1>2

\* Queueing replaces what was pending.
LEMMA QueueEffect ==
  ASSUME PlanSyncAssumption, SaverType, NEW t \in Tabs, NEW d \in Docs, QueuePlanSave(t, d)
  PROVE  /\ SaverType'
         /\ pending'[t] = d /\ status'[t] = "pending" /\ d # None
         /\ chain' = chain /\ put' = put
         /\ \A s \in Tabs \ {t} : pending'[s] = pending[s] /\ status'[s] = status[s]
  BY DEF SaverType, QueuePlanSave, PlanSyncAssumption, Docs, Edits

\* The end of a write takes the head off the chain and sends the next.
LEMMA EndOfWriteEffect ==
  ASSUME SaverType, LoadType, NEW t \in Tabs, NEW outcome \in {"saved", "conflict", "failed"},
         known' \in [Tabs -> Nat], put[t].stage # "none", EndOfWrite(t, outcome)
  PROVE  /\ SaverType'
         /\ chain[t] # <<>> /\ chain[t] \in Seq(Docs)
         /\ chain'[t] = Tail(chain[t]) /\ pending' = pending
         /\ put'[t] = IF chain'[t] = <<>> THEN NoPut ELSE Sent(known'[t])
         /\ status'[t] = IF chain'[t] # <<>> THEN status[t]
                         ELSE IF pending[t] = None THEN outcome ELSE "pending"
         /\ \A s \in Tabs \ {t} :
              chain'[s] = chain[s] /\ put'[s] = put[s] /\ status'[s] = status[s]
<1>1. chain[t] # <<>> /\ chain[t] \in Seq(Docs)
  BY DEF SaverType
<1>2. Tail(chain[t]) \in Seq(Docs)
  BY <1>1
<1>3. /\ chain' \in [Tabs -> Seq(Docs)] /\ chain'[t] = Tail(chain[t])
      /\ \A s \in Tabs \ {t} : chain'[s] = chain[s]
  BY <1>2 DEF SaverType, EndOfWrite
<1>4. /\ put' \in [Tabs -> Put]
      /\ put'[t] = IF chain'[t] = <<>> THEN NoPut ELSE Sent(known'[t])
      /\ \A s \in Tabs \ {t} : put'[s] = put[s]
  <2>1. NoPut \in Put /\ Sent(known'[t]) \in Put
    BY DEF NoPut, Sent, Put
  <2>. QED
    BY <1>3, <2>1 DEF SaverType, EndOfWrite
<1>5. /\ status' \in [Tabs -> {"saved", "pending", "saving", "conflict", "failed"}]
      /\ status'[t] = IF chain'[t] # <<>> THEN status[t]
                         ELSE IF pending[t] = None THEN outcome ELSE "pending"
      /\ \A s \in Tabs \ {t} : status'[s] = status[s]
  BY <1>3 DEF SaverType, EndOfWrite
<1>6. pending' = pending
  BY DEF EndOfWrite
<1>7. \A s \in Tabs : (put'[s].stage = "none") <=> (chain'[s] = <<>>)
  <2>1. NoPut.stage = "none" /\ Sent(known'[t]).stage = "sent"
    BY DEF NoPut, Sent
  <2>2. (put'[t].stage = "none") <=> (chain'[t] = <<>>)
    BY <1>4, <2>1
  <2>. QED
    BY <1>3, <1>4, <2>2 DEF SaverType
<1>. QED
  BY <1>1, <1>3, <1>4, <1>5, <1>6, <1>7 DEF SaverType

\* The end of a write moves a waiting pick only.
LEMMA EndOfWriteLoad ==
  ASSUME LoadType, NEW t \in Tabs, NEW outcome, EndOfWrite(t, outcome)
  PROVE  /\ LoadType'
         /\ \A s \in Tabs, l \in Loaders :
              /\ s # t \/ l # "pick" => load'[s][l] = load[s][l]
              /\ load'[s][l].version = load[s][l].version
              /\ load'[s][l].doc = load[s][l].doc /\ load'[s][l].gone = load[s][l].gone
              /\ load'[s][l].stage = "idle" <=> load[s][l].stage = "idle"
              /\ load'[s][l].stage = "read" <=> load[s][l].stage = "read"
         /\ load[t]["pick"].stage # "flush" => load' = load
         /\ load[t]["pick"].stage = "flush" =>
              /\ load'[t]["pick"].wait = load[t]["pick"].wait - 1
              /\ load'[t]["pick"].stage = IF load[t]["pick"].wait = 1 THEN "list" ELSE "flush"
<1>1. CASE load[t]["pick"].stage # "flush"
  <2>1. load' = load
    BY <1>1 DEF EndOfWrite
  <2>. QED
    BY <1>1, <2>1 DEF LoadType
<1>2. CASE load[t]["pick"].stage = "flush"
  <2>. DEFINE pick == load[t]["pick"]
             w == pick.wait - 1
             st == IF pick.wait = 1 THEN "list" ELSE "flush"
             q == [pick EXCEPT !.wait = w, !.stage = st]
  <2>0. "pick" \in Loaders
    BY DEF Loaders
  <2>1. pick \in Load /\ pick.wait >= 1 /\ pick.stage = "flush"
    BY <1>2, <2>0 DEF LoadType
  <2>2. /\ q \in Load /\ q.wait = w /\ q.stage = st
        /\ q.version = pick.version /\ q.doc = pick.doc /\ q.gone = pick.gone
    <3>1. /\ pick.wait \in Nat /\ pick.version \in Nat /\ pick.doc \in Docs
          /\ pick.gone \in BOOLEAN
      BY <2>1 DEF Load
    <3>2. w \in Nat
      BY <2>1, <3>1
    <3>3. st \in {"list", "flush"}
      OBVIOUS
    <3>4. q = [pick EXCEPT !.wait = w, !.stage = st]
      OBVIOUS
    <3>. HIDE DEF pick, w, st
    <3>. QED
      BY <2>1, <3>2, <3>3 DEF Load
  <2>3. load' = [load EXCEPT ![t]["pick"] = q]
    BY <1>2 DEF EndOfWrite
  <2>4. q.stage = "flush" => q.wait >= 1
    <3>. HIDE DEF q, pick
    <3>1. pick.wait \in Nat
      BY <2>1 DEF Load
    <3>. QED
      BY <2>1, <2>2, <3>1
  <2>. HIDE DEF q
  <2>5. /\ LoadType' /\ load'[t]["pick"] = q
        /\ \A s \in Tabs, k \in Loaders :
             (s # t \/ k # "pick") => load'[s][k] = load[s][k]
    BY <2>2, <2>3, <2>4, PickMoves
  <2>. QED
    BY <1>2, <2>1, <2>2, <2>5
<1>. QED
  BY <1>1, <1>2

\* The edits made are finitely many.
LEMMA MadeIsFinite ==
  ASSUME PlanSyncAssumption, HistoryType
  PROVE  IsFiniteSet(Made) /\ Cardinality(Made) \in Nat /\ Made \subseteq Edits
<1>1. IsFiniteSet(Edits)
  BY FS_Interval DEF Edits, PlanSyncAssumption
<1>2. Made \subseteq Edits
  BY DEF Made
<1>. QED
  BY <1>1, <1>2, FS_Subset, FS_CardinalityType

\* So are the tabs with a pick under way.
LEMMA PickingIsFinite ==
  ASSUME PlanSyncAssumption
  PROVE  IsFiniteSet(Picking) /\ Cardinality(Picking) \in Nat
<1>1. Picking \subseteq Tabs
  BY DEF Picking
<1>. QED
  BY <1>1, FS_Subset, FS_CardinalityType DEF PlanSyncAssumption

\* Counting survives a step that makes no edit and starts no pick.
LEMMA CountedKept ==
  ASSUME PlanSyncAssumption, HistoryType, Counted, by' = by, Picking' \subseteq Picking
  PROVE  Counted' /\ Made' = Made
<1>1. Made' = Made
  BY DEF Made
<1>2. Cardinality(Picking') <= Cardinality(Picking) /\ Cardinality(Picking') \in Nat
  BY PickingIsFinite, FS_Subset, FS_CardinalityType
<1>3. Cardinality(Made) \in Nat /\ Cardinality(Picking) \in Nat /\ MaxEdits \in Nat
  BY MadeIsFinite, PickingIsFinite DEF PlanSyncAssumption
<1>4. Cardinality(Made') = Cardinality(Made)
  BY <1>1
<1>. QED
  BY <1>1, <1>2, <1>3, <1>4 DEF Counted

\* The next edit has a number of its own, beyond all others.
LEMMA NextEditIsNew ==
  ASSUME PlanSyncAssumption, HistoryType, Counted, Cardinality(Made) < MaxEdits
  PROVE  /\ NextEdit \in Edits /\ NextEdit \notin Made /\ by[NextEdit] = None
         /\ \A e \in Made : e < NextEdit
<1>1. Cardinality(Made) \in Nat /\ MaxEdits \in Nat
  BY MadeIsFinite DEF PlanSyncAssumption
<1>2. NextEdit \in Edits
  BY <1>1 DEF NextEdit, Edits
<1>3. \A e \in Made : e < NextEdit
  BY <1>1 DEF NextEdit, Counted
<1>4. NextEdit \notin Made
  BY <1>1, <1>2, <1>3 DEF Edits
<1>. QED
  BY <1>2, <1>3, <1>4 DEF Made

\* Making the next edit keeps the numbers of the edits contiguous.
LEMMA EditCounted ==
  ASSUME PlanSyncAssumption, HistoryType, Counted, NEW t \in Tabs,
         by' = [by EXCEPT ![NextEdit] = t],
         \/ Picking' \subseteq Picking /\ EditsLeft
         \/ t \in Picking /\ Picking' \subseteq Picking \ {t}
  PROVE  /\ Cardinality(Made) < MaxEdits
         /\ Made' = Made \cup {NextEdit} /\ Counted'
<1>1. Cardinality(Made) \in Nat /\ MaxEdits \in Nat /\ IsFiniteSet(Made)
  BY MadeIsFinite DEF PlanSyncAssumption
<1>2. Cardinality(Picking) \in Nat /\ IsFiniteSet(Picking)
  BY PickingIsFinite
<1>3. /\ Cardinality(Picking') \in Nat
      /\ Cardinality(Made) + Cardinality(Picking') < MaxEdits
  <2>1. CASE Picking' \subseteq Picking /\ EditsLeft
    <3>1. Cardinality(Made) + Cardinality(Picking) < MaxEdits
      BY <2>1 DEF EditsLeft, Picking
    <3>2. Cardinality(Picking') <= Cardinality(Picking) /\ Cardinality(Picking') \in Nat
      BY <1>2, <2>1, FS_Subset, FS_CardinalityType
    <3>. QED
      BY <1>1, <1>2, <3>1, <3>2
  <2>2. CASE t \in Picking /\ Picking' \subseteq Picking \ {t}
    <3>1. /\ Cardinality(Picking \ {t}) = Cardinality(Picking) - 1
          /\ IsFiniteSet(Picking \ {t}) /\ Cardinality(Picking \ {t}) \in Nat
      BY <1>2, <2>2, FS_RemoveElement, FS_CardinalityType
    <3>2. /\ Cardinality(Picking') <= Cardinality(Picking \ {t})
          /\ Cardinality(Picking') \in Nat
      BY <2>2, <3>1, FS_Subset, FS_CardinalityType
    <3>. QED
      BY <1>1, <1>2, <3>1, <3>2 DEF Counted
  <2>. QED
    BY <2>1, <2>2
<1>4. Cardinality(Made) < MaxEdits
  BY <1>1, <1>3
<1>5. NextEdit \in Edits /\ NextEdit \notin Made
  BY <1>4, NextEditIsNew
<1>6. Made' = Made \cup {NextEdit}
  BY <1>5 DEF Made, HistoryType, PlanSyncAssumption
<1>7. Cardinality(Made') = Cardinality(Made) + 1
  BY <1>1, <1>5, <1>6, FS_AddElement
<1>8. Made' = 1..Cardinality(Made')
  BY <1>1, <1>6, <1>7 DEF Counted, NextEdit
<1>9. Cardinality(Made') + Cardinality(Picking') <= MaxEdits
  BY <1>1, <1>3, <1>7
<1>. QED
  BY <1>4, <1>6, <1>8, <1>9 DEF Counted

\* The two loaders of a tab.
LEMMA PickIsALoader == "pick" \in Loaders /\ "page" \in Loaders /\ Loaders = {"page", "pick"}
  BY DEF Loaders

\* The records the actions start from have their types.
LEMMA RecordTypes == NoLoad \in Load /\ Asked \in Load /\ NoPut \in Put
  BY DEF NoLoad, Asked, Load, NoPut, Put, Docs, Edits

\* The server reads the plan list for a load.
LEMMA ListReadEffect ==
  ASSUME TypeInv, NEW t \in Tabs, NEW l \in Loaders, ListRead(t, l)
  PROVE  /\ LoadType' /\ Picking' = Picking
         /\ load'[t][l].stage = "listed" /\ load'[t][l].version = version
         /\ load'[t][l].doc = load[t][l].doc /\ load'[t][l].gone = load[t][l].gone
         /\ \A s \in Tabs, k \in Loaders : (s # t \/ k # l) => load'[s][k] = load[s][k]
<1>. DEFINE p == load[t][l]
            q == [p EXCEPT !.stage = "listed", !.version = version]
<1>1. p \in Load /\ version \in Nat /\ p.stage = "list"
  BY DEF TypeInv, LoadType, ServerType, ListRead
<1>2. /\ q \in Load /\ q.stage = "listed" /\ q.version = version
      /\ q.doc = p.doc /\ q.gone = p.gone
  <2>. HIDE DEF p
  <2>. QED
    BY <1>1 DEF Load
<1>3. load' = [load EXCEPT ![t][l] = q]
  BY DEF ListRead
<1>. HIDE DEF q
<1>4. /\ LoadType' /\ load'[t][l] = q
      /\ \A s \in Tabs, k \in Loaders : (s # t \/ k # l) => load'[s][k] = load[s][k]
  <2>1. LoadType
    BY DEF TypeInv
  <2>2. q.stage # "flush"
    BY <1>2
  <2>. QED
    BY <1>2, <1>3, <2>1, <2>2, LoadMoves
<1>5. Picking' = Picking
  BY <1>1, <1>2, <1>4, PickIsALoader DEF Picking
<1>. QED
  BY <1>2, <1>4, <1>5

\* The list answer sets the version the tab will name.
LEMMA ListAnsweredEffect ==
  ASSUME TypeInv, NEW t \in Tabs, NEW l \in Loaders, ListAnswered(t, l)
  PROVE  /\ LoadType' /\ Picking' = Picking
         /\ load'[t][l].stage = "bundle" /\ load'[t][l].version = 0
         /\ load'[t][l].doc = load[t][l].doc /\ load'[t][l].gone = load[t][l].gone
         /\ \A s \in Tabs, k \in Loaders : (s # t \/ k # l) => load'[s][k] = load[s][k]
         /\ known' \in [Tabs -> Nat] /\ known'[t] = load[t][l].version
         /\ \A s \in Tabs \ {t} : known'[s] = known[s]
<1>. DEFINE p == load[t][l]
            q == [p EXCEPT !.stage = "bundle", !.version = 0]
<1>1. p \in Load /\ p.version \in Nat /\ p.stage = "listed"
  BY DEF TypeInv, LoadType, ListAnswered, Load
<1>2. /\ q \in Load /\ q.stage = "bundle" /\ q.version = 0
      /\ q.doc = p.doc /\ q.gone = p.gone
  <2>. HIDE DEF p
  <2>. QED
    BY <1>1 DEF Load
<1>3. load' = [load EXCEPT ![t][l] = q] /\ known' = [known EXCEPT ![t] = p.version]
  BY DEF ListAnswered
<1>. HIDE DEF q
<1>4. /\ LoadType' /\ load'[t][l] = q
      /\ \A s \in Tabs, k \in Loaders : (s # t \/ k # l) => load'[s][k] = load[s][k]
  <2>1. LoadType
    BY DEF TypeInv
  <2>2. q.stage # "flush"
    BY <1>2
  <2>. QED
    BY <1>2, <1>3, <2>1, <2>2, LoadMoves
<1>5. Picking' = Picking
  BY <1>1, <1>2, <1>4, PickIsALoader DEF Picking
<1>6. /\ known' \in [Tabs -> Nat] /\ known'[t] = p.version
      /\ \A s \in Tabs \ {t} : known'[s] = known[s]
  BY <1>1, <1>3 DEF TypeInv
<1>. QED
  BY <1>2, <1>4, <1>5, <1>6

\* The server reads the bundle for a load.
LEMMA BundleReadEffect ==
  ASSUME TypeInv, NEW t \in Tabs, NEW l \in Loaders, BundleRead(t, l)
  PROVE  /\ LoadType' /\ Picking' = Picking
         /\ load'[t][l].stage = "read" /\ load'[t][l].doc = doc
         /\ load'[t][l].version = load[t][l].version /\ load'[t][l].gone = load[t][l].gone
         /\ \A s \in Tabs, k \in Loaders : (s # t \/ k # l) => load'[s][k] = load[s][k]
<1>. DEFINE p == load[t][l]
            q == [p EXCEPT !.stage = "read", !.doc = doc]
<1>1. p \in Load /\ doc \in Docs /\ p.stage = "bundle"
  BY DEF TypeInv, LoadType, ServerType, BundleRead
<1>2. /\ q \in Load /\ q.stage = "read" /\ q.doc = doc
      /\ q.version = p.version /\ q.gone = p.gone
  <2>. HIDE DEF p
  <2>. QED
    BY <1>1 DEF Load
<1>3. load' = [load EXCEPT ![t][l] = q]
  BY DEF BundleRead
<1>. HIDE DEF q
<1>4. /\ LoadType' /\ load'[t][l] = q
      /\ \A s \in Tabs, k \in Loaders : (s # t \/ k # l) => load'[s][k] = load[s][k]
  <2>1. LoadType
    BY DEF TypeInv
  <2>2. q.stage # "flush"
    BY <1>2
  <2>. QED
    BY <1>2, <1>3, <2>1, <2>2, LoadMoves
<1>5. Picking' = Picking
  BY <1>1, <1>2, <1>4, PickIsALoader DEF Picking
<1>. QED
  BY <1>2, <1>4, <1>5

\* A load that ends is as if it had never been.
LEMMA ForgetEffect ==
  ASSUME TypeInv, NEW t \in Tabs, NEW l \in Loaders,
         load' = [load EXCEPT ![t][l] = NoLoad]
  PROVE  /\ LoadType' /\ Picking' \subseteq Picking
         /\ l = "pick" => Picking' \subseteq Picking \ {t}
         /\ load'[t][l] = NoLoad /\ NoLoad.stage = "idle" /\ NoLoad.version = 0
         /\ NoLoad.doc = {}
         /\ \A s \in Tabs, k \in Loaders : (s # t \/ k # l) => load'[s][k] = load[s][k]
<1>1. /\ NoLoad \in Load /\ NoLoad.stage = "idle" /\ NoLoad.version = 0 /\ NoLoad.doc = {}
  BY RecordTypes DEF NoLoad
<1>2. /\ LoadType' /\ load'[t][l] = NoLoad
      /\ \A s \in Tabs, k \in Loaders : (s # t \/ k # l) => load'[s][k] = load[s][k]
  <2>1. LoadType
    BY DEF TypeInv
  <2>2. PICK q \in Load : q = NoLoad
    BY <1>1
  <2>3. q.stage # "flush" /\ load' = [load EXCEPT ![t][l] = q]
    BY <1>1, <2>2
  <2>4. LoadType'
    BY <2>1, <2>3, LoadMoves
  <2>5. load'[t][l] = q
    BY <2>1, <2>3 DEF LoadType
  <2>6. \A s \in Tabs, k \in Loaders : (s # t \/ k # l) => load'[s][k] = load[s][k]
    BY <2>1, <2>3 DEF LoadType
  <2>. QED
    BY <2>2, <2>4, <2>5, <2>6
<1>3. Picking' \subseteq Picking
  BY <1>1, <1>2, PickIsALoader DEF Picking
<1>4. l = "pick" => Picking' \subseteq Picking \ {t}
  BY <1>1, <1>2, PickIsALoader DEF Picking
<1>. QED
  BY <1>1, <1>2, <1>3, <1>4

\* A page that mounts asks for the list.
LEMMA StartLoadEffect ==
  ASSUME TypeInv, NEW t \in Tabs, NEW to, StartLoad(t, to)
  PROVE  /\ LoadType' /\ Picking' = Picking
         /\ load'[t]["page"] = Asked /\ Asked.stage = "list" /\ Asked.version = 0
         /\ Asked.doc = {}
         /\ \A s \in Tabs, k \in Loaders : (s # t \/ k # "page") => load'[s][k] = load[s][k]
<1>1. Asked \in Load /\ Asked.stage = "list" /\ Asked.version = 0 /\ Asked.doc = {}
  BY RecordTypes DEF NoLoad, Asked
<1>2. load' = [load EXCEPT ![t]["page"] = Asked]
  BY DEF StartLoad
<1>3. /\ LoadType' /\ load'[t]["page"] = Asked
      /\ \A s \in Tabs, k \in Loaders : (s # t \/ k # "page") => load'[s][k] = load[s][k]
  <2>1. LoadType
    BY DEF TypeInv
  <2>2. Asked.stage # "flush"
    BY <1>1
  <2>. QED
    BY <1>1, <1>2, <2>1, <2>2, LoadMoves, PickIsALoader
<1>4. Picking' = Picking
  BY <1>3, PickIsALoader DEF Picking
<1>. QED
  BY <1>1, <1>3, <1>4

\* Leaving marks a pick under way as gone.
LEMMA LeaveEffect ==
  ASSUME TypeInv, NEW t \in Tabs, Leave(t)
  PROVE  /\ LoadType' /\ Picking' = Picking
         /\ \A s \in Tabs, k \in Loaders : (s # t \/ k # "pick") => load'[s][k] = load[s][k]
         /\ load'[t]["pick"].stage = load[t]["pick"].stage
         /\ load'[t]["pick"].wait = load[t]["pick"].wait
         /\ load'[t]["pick"].version = load[t]["pick"].version
         /\ load'[t]["pick"].doc = load[t]["pick"].doc
<1>. DEFINE p == load[t]["pick"]
            g == (p.stage # "idle")
            q == [p EXCEPT !.gone = g]
<1>1. p \in Load /\ g \in BOOLEAN
  BY PickIsALoader DEF TypeInv, LoadType
<1>2. /\ q \in Load /\ q.stage = p.stage /\ q.wait = p.wait
      /\ q.version = p.version /\ q.doc = p.doc
  <2>. HIDE DEF p, g
  <2>. QED
    BY <1>1 DEF Load
<1>3. load' = [load EXCEPT ![t]["pick"] = q]
  BY DEF Leave
<1>4. q.stage = "flush" => q.wait >= 1
  <2>1. p.stage = "flush" => p.wait >= 1
    BY DEF TypeInv, LoadType
  <2>. HIDE DEF q, p
  <2>. QED
    BY <1>2, <2>1
<1>. HIDE DEF q
<1>5. /\ LoadType' /\ load'[t]["pick"] = q
      /\ \A s \in Tabs, k \in Loaders : (s # t \/ k # "pick") => load'[s][k] = load[s][k]
  <2>1. LoadType
    BY DEF TypeInv
  <2>. QED
    BY <1>2, <1>3, <1>4, <2>1, PickMoves
<1>6. Picking' = Picking
  BY <1>2, <1>5, PickIsALoader DEF Picking
<1>. QED
  BY <1>2, <1>5, <1>6

\* A reload forgets everything its tab knew.
LEMMA ReloadEffect ==
  ASSUME TypeInv, PlanSyncAssumption, NEW t \in Tabs, Reload(t)
  PROVE  /\ LoadType' /\ Picking' \subseteq Picking
         /\ \A k \in Loaders : load'[t][k] = NoLoad
         /\ NoLoad.stage = "idle" /\ NoLoad.version = 0 /\ NoLoad.doc = {}
         /\ \A s \in Tabs \ {t} : load'[s] = load[s]
         /\ SaverType' /\ pending'[t] = None /\ chain'[t] = <<>> /\ put'[t] = NoPut
         /\ status'[t] = "saved" /\ NoPut.stage = "none" /\ NoPut.version = 0
         /\ known' \in [Tabs -> Nat] /\ known'[t] = 0
         /\ \A s \in Tabs \ {t} :
              /\ pending'[s] = pending[s] /\ chain'[s] = chain[s] /\ put'[s] = put[s]
              /\ status'[s] = status[s] /\ known'[s] = known[s]
<1>1. NoLoad \in Load /\ NoLoad.stage = "idle" /\ NoLoad.version = 0 /\ NoLoad.doc = {}
  BY RecordTypes DEF NoLoad
<1>2. /\ load' \in [Tabs -> [Loaders -> Load]] /\ \A k \in Loaders : load'[t][k] = NoLoad
      /\ \A s \in Tabs \ {t} : load'[s] = load[s]
  BY <1>1 DEF TypeInv, LoadType, Reload
<1>3. LoadType' /\ Picking' \subseteq Picking
  BY <1>1, <1>2, PickIsALoader DEF TypeInv, LoadType, Picking
<1>4. NoPut \in Put /\ NoPut.stage = "none" /\ NoPut.version = 0
  BY RecordTypes DEF NoPut
<1>5. <<>> \in Seq(Docs)
  OBVIOUS
<1>6. /\ pending' \in [Tabs -> {None} \cup Docs] /\ pending'[t] = None
      /\ \A s \in Tabs \ {t} : pending'[s] = pending[s]
  BY DEF TypeInv, SaverType, Reload
<1>7. /\ chain' \in [Tabs -> Seq(Docs)] /\ chain'[t] = <<>>
      /\ \A s \in Tabs \ {t} : chain'[s] = chain[s]
  BY <1>5 DEF TypeInv, SaverType, Reload
<1>8. /\ put' \in [Tabs -> Put] /\ put'[t] = NoPut
      /\ \A s \in Tabs \ {t} : put'[s] = put[s]
  BY <1>4 DEF TypeInv, SaverType, Reload
<1>9. /\ status' \in [Tabs -> {"saved", "pending", "saving", "conflict", "failed"}]
      /\ status'[t] = "saved" /\ \A s \in Tabs \ {t} : status'[s] = status[s]
  BY DEF TypeInv, SaverType, Reload
<1>10. /\ known' \in [Tabs -> Nat] /\ known'[t] = 0
       /\ \A s \in Tabs \ {t} : known'[s] = known[s]
  BY DEF TypeInv, Reload
<1>11. SaverType'
  BY <1>4, <1>6, <1>7, <1>8, <1>9 DEF TypeInv, SaverType
<1>. QED
  BY <1>1, <1>2, <1>3, <1>4, <1>6, <1>7, <1>8, <1>9, <1>10, <1>11

\* A pick asks at once, or waits for the writes before it.
LEMMA PickEffect ==
  ASSUME TypeInv, PlanSyncAssumption, NEW t \in Tabs, Pick(t)
  PROVE  /\ SaverType' /\ LoadType' /\ Picking' \subseteq Picking \cup {t}
         /\ IF chain'[t] = <<>> THEN load'[t]["pick"].stage = "list"
            ELSE /\ load'[t]["pick"].stage = "flush"
                 /\ load'[t]["pick"].wait = Len(chain'[t])
         /\ load'[t]["pick"].version = 0 /\ load'[t]["pick"].doc = {}
         /\ ~ load'[t]["pick"].gone
         /\ \A s \in Tabs, k \in Loaders : (s # t \/ k # "pick") => load'[s][k] = load[s][k]
<1>1. SaverType'
  BY FlushEffect DEF Pick, TypeInv
<1>2. chain'[t] \in Seq(Docs)
  BY <1>1 DEF SaverType
<1>. DEFINE q == IF chain'[t] = <<>> THEN Asked
                 ELSE [NoLoad EXCEPT !.stage = "flush", !.wait = Len(chain'[t])]
<1>3. /\ q \in Load /\ q.version = 0 /\ q.doc = {} /\ ~ q.gone
      /\ IF chain'[t] = <<>> THEN q.stage = "list"
         ELSE q.stage = "flush" /\ q.wait = Len(chain'[t])
  <2>1. CASE chain'[t] = <<>>
    BY <2>1, RecordTypes DEF Asked, NoLoad
  <2>2. CASE chain'[t] # <<>>
    <3>1. Len(chain'[t]) \in Nat
      BY <1>2
    <3>2. q = [stage |-> "flush", wait |-> Len(chain'[t]), version |-> 0, doc |-> {},
               gone |-> FALSE]
      BY <2>2 DEF NoLoad
    <3>. HIDE DEF q
    <3>. QED
      BY <2>2, <3>1, <3>2 DEF Load, Docs
  <2>. QED
    BY <2>1, <2>2
<1>4. load' = [load EXCEPT ![t]["pick"] = q]
  BY DEF Pick
<1>. HIDE DEF q
<1>5. q.stage = "flush" => q.wait >= 1
  <2>1. chain'[t] # <<>> => Len(chain'[t]) \in Nat /\ Len(chain'[t]) >= 1
    BY <1>2
  <2>. QED
    BY <1>3, <2>1
<1>6. /\ LoadType' /\ load'[t]["pick"] = q
      /\ \A s \in Tabs, k \in Loaders : (s # t \/ k # "pick") => load'[s][k] = load[s][k]
  <2>1. LoadType
    BY DEF TypeInv
  <2>. QED
    BY <1>3, <1>4, <1>5, <2>1, PickMoves
<1>7. Picking' \subseteq Picking \cup {t}
  BY <1>6, PickIsALoader DEF Picking
<1>. QED
  BY <1>1, <1>3, <1>6, <1>7

\* The server accepts or refuses the PUT under way.
LEMMA ServerPutEffect ==
  ASSUME TypeInv, NEW t \in Tabs, ServerPut(t)
  PROVE  /\ ServerType' /\ SaverType' /\ put[t].stage = "sent"
         /\ chain[t] # <<>> /\ Head(chain[t]) \in Docs /\ put'[t].version = put[t].version
         /\ \A s \in Tabs \ {t} : put'[s] = put[s]
         /\ \/ /\ put'[t].stage = "ok" /\ put[t].version = version
               /\ doc' = Head(chain[t]) /\ version' = version + 1
               /\ stored' = stored \cup Head(chain[t])
            \/ /\ put'[t].stage = "stale" /\ put[t].version # version /\ UNCHANGED server
<1>1. /\ put[t].stage = "sent" /\ put[t] \in Put /\ chain[t] \in Seq(Docs) /\ chain[t] # <<>>
  BY DEF ServerPut, TypeInv, SaverType
<1>2. Head(chain[t]) \in Docs
  BY <1>1
<1>3. ASSUME NEW st \in {"ok", "stale"}, put' = [put EXCEPT ![t].stage = st]
      PROVE  /\ put' \in [Tabs -> Put] /\ put'[t].stage = st
             /\ put'[t].version = put[t].version
             /\ \A s \in Tabs \ {t} : put'[s] = put[s]
  BY <1>1, <1>3 DEF TypeInv, SaverType, Put
<1>4. ASSUME NEW st \in {"ok", "stale"}, put' = [put EXCEPT ![t].stage = st]
      PROVE  SaverType'
  BY <1>1, <1>3, <1>4 DEF TypeInv, SaverType, ServerPut
<1>5. CASE Accepted(put[t].version, Head(chain[t])) /\ put' = [put EXCEPT ![t].stage = "ok"]
  <2>1. ServerType'
    BY <1>2, <1>5 DEF TypeInv, ServerType, Accepted, ServerPut, Docs
  <2>. QED
    BY <1>1, <1>2, <1>3, <1>4, <1>5, <2>1 DEF Accepted
<1>6. CASE Refused(put[t].version) /\ put' = [put EXCEPT ![t].stage = "stale"]
  <2>1. ServerType'
    BY <1>6 DEF TypeInv, ServerType, Refused, server, ServerPut
  <2>. QED
    BY <1>1, <1>2, <1>3, <1>4, <1>6, <2>1 DEF Refused
<1>. QED
  BY <1>5, <1>6 DEF ServerPut

\* The server accepts or refuses a PUT nobody waits for.
LEMMA LatePutEffect ==
  ASSUME TypeInv, LatePut
  PROVE  /\ ServerType'
         /\ \E m \in late :
              /\ late' = late \ {m} /\ m.version \in Nat /\ m.doc \in Docs
              /\ \/ /\ m.version = version /\ doc' = m.doc /\ version' = version + 1
                    /\ stored' = stored \cup m.doc
                 \/ m.version # version /\ UNCHANGED server
<1>1. PICK m \in late : late' = late \ {m} /\ (Accepted(m.version, m.doc) \/ Refused(m.version))
  BY DEF LatePut
<1>2. m.version \in Nat /\ m.doc \in Docs
  BY DEF TypeInv, ServerType
<1>3. late' \in SUBSET [version : Nat, doc : Docs]
  BY <1>1 DEF TypeInv, ServerType
<1>4. CASE Accepted(m.version, m.doc)
  <2>1. ServerType'
    BY <1>2, <1>3, <1>4 DEF TypeInv, ServerType, Accepted, Docs
  <2>. QED
    BY <1>1, <1>2, <1>4, <2>1 DEF Accepted
<1>5. CASE Refused(m.version)
  <2>1. ServerType'
    BY <1>3, <1>5 DEF TypeInv, ServerType, Refused, server
  <2>. QED
    BY <1>1, <1>2, <1>5, <2>1 DEF Refused
<1>. QED
  BY <1>1, <1>4, <1>5

\* An answer ends the write; an accepted one moves the known version on.
LEMMA AnswerEffect ==
  ASSUME TypeInv, NEW t \in Tabs, PutAnswered(t)
  PROVE  /\ known' \in [Tabs -> Nat] /\ put[t].stage \in {"ok", "stale"}
         /\ known'[t] = IF put[t].stage = "ok" THEN put[t].version + 1 ELSE known[t]
         /\ \A s \in Tabs \ {t} : known'[s] = known[s]
         /\ EndOfWrite(t, IF put[t].stage = "ok" THEN "saved" ELSE "conflict")
         /\ UNCHANGED <<server, late, page, shown, by, hurried>>
<1>1. put[t] \in Put /\ put[t].version \in Nat
  BY DEF TypeInv, SaverType, Put
<1>2. CASE put[t].stage = "ok"
  <2>1. known' = [known EXCEPT ![t] = put[t].version + 1] /\ EndOfWrite(t, "saved")
    BY <1>2 DEF PutAnswered
  <2>. QED
    BY <1>1, <1>2, <2>1 DEF PutAnswered, TypeInv
<1>3. CASE put[t].stage = "stale"
  <2>1. known' = known /\ EndOfWrite(t, "conflict")
    BY <1>3 DEF PutAnswered
  <2>. QED
    BY <1>1, <1>3, <2>1 DEF PutAnswered, TypeInv
<1>. QED
  BY <1>2, <1>3 DEF PutAnswered

\* A rejected fetch ends the write and may leave its request on the way.
LEMMA FailEffect ==
  ASSUME TypeInv, NEW t \in Tabs, PutFails(t)
  PROVE  /\ put[t].stage # "none" /\ EndOfWrite(t, "failed") /\ known' = known
         /\ UNCHANGED <<server, page, shown, by, hurried>> /\ ServerType'
         /\ \/ late' = late
            \/ /\ put[t].stage = "sent"
               /\ late' = late \cup {[version |-> put[t].version, doc |-> Head(chain[t])]}
<1>1. /\ put[t].stage # "none" /\ put[t] \in Put /\ put[t].version \in Nat
      /\ chain[t] \in Seq(Docs) /\ chain[t] # <<>>
  BY DEF PutFails, TypeInv, SaverType, Put
<1>2. Head(chain[t]) \in Docs
  BY <1>1
<1>3. ServerType'
  <2>1. CASE late' = late
    BY <2>1 DEF PutFails, server, TypeInv, ServerType
  <2>2. CASE late' = late \cup {[version |-> put[t].version, doc |-> Head(chain[t])]}
    <3>1. [version |-> put[t].version, doc |-> Head(chain[t])] \in [version : Nat, doc : Docs]
      BY <1>1, <1>2
    <3>. QED
      BY <2>2, <3>1 DEF PutFails, server, TypeInv, ServerType
  <2>. QED
    BY <2>1, <2>2 DEF PutFails
<1>. QED
  BY <1>1, <1>3 DEF PutFails

\* An edit queues the whole board.
LEMMA EditEffect ==
  ASSUME PlanSyncAssumption, TypeInv, Counted, NEW t \in Tabs, Edit(t)
  PROVE  /\ shown[t] \in Docs /\ shown[t] # None /\ page[t] = "plan"
         /\ shown[t] \cup {NextEdit} \in Docs /\ shown[t] \cup {NextEdit} # None
         /\ QueuePlanSave(t, shown[t] \cup {NextEdit})
         /\ shown'[t] = shown[t] \cup {NextEdit}
         /\ \A s \in Tabs \ {t} : shown'[s] = shown[s]
         /\ by' = [by EXCEPT ![NextEdit] = t]
         /\ Cardinality(Made) < MaxEdits /\ Made' = Made \cup {NextEdit}
         /\ Counted' /\ SaverType' /\ BoardType' /\ HistoryType'
<1>1. /\ shown[t] \in Docs /\ shown[t] # None /\ page[t] = "plan" /\ EditsLeft
      /\ by' = [by EXCEPT ![NextEdit] = t] /\ load' = load
      /\ QueuePlanSave(t, shown[t] \cup {NextEdit})
      /\ shown' = [shown EXCEPT ![t] = shown[t] \cup {NextEdit}]
  BY DEF Edit, TypeInv, BoardType
<1>2. Picking' = Picking
  BY <1>1 DEF Picking
<1>3. Cardinality(Made) < MaxEdits /\ Made' = Made \cup {NextEdit} /\ Counted'
  BY <1>1, <1>2, EditCounted DEF TypeInv
<1>4. NextEdit \in Edits
  BY <1>3, NextEditIsNew DEF TypeInv
<1>5. shown[t] \cup {NextEdit} \in Docs
  BY <1>1, <1>4 DEF Docs
<1>6. SaverType' /\ shown[t] \cup {NextEdit} # None
  BY <1>1, <1>5, QueueEffect DEF TypeInv
<1>7. BoardType' /\ shown'[t] = shown[t] \cup {NextEdit}
      /\ \A s \in Tabs \ {t} : shown'[s] = shown[s]
  BY <1>1, <1>5 DEF TypeInv, BoardType, Edit
<1>8. HistoryType'
  BY <1>1 DEF TypeInv, HistoryType, Edit
<1>. QED
  BY <1>1, <1>3, <1>5, <1>6, <1>7, <1>8

\* A pick that has loaded writes at once, or does nothing.
LEMMA PickedEffect ==
  ASSUME PlanSyncAssumption, TypeInv, Counted, NEW t \in Tabs, PickLoaded(t)
  PROVE  LET d == load[t]["pick"].doc \cup {NextEdit} IN
         /\ load[t]["pick"].stage = "read" /\ load' = [load EXCEPT ![t]["pick"] = NoLoad]
         /\ Counted' /\ SaverType' /\ BoardType' /\ HistoryType'
         /\ \/ UNCHANGED <<saver, by, shown>>
            \/ /\ WriteNow(t, d) /\ d \in Docs /\ d # None
               /\ by' = [by EXCEPT ![NextEdit] = t]
               /\ Cardinality(Made) < MaxEdits /\ Made' = Made \cup {NextEdit}
               /\ load[t]["pick"].gone => shown' = shown
               /\ ~ load[t]["pick"].gone => shown'[t] = d
               /\ \A s \in Tabs \ {t} : shown'[s] = shown[s]
<1>. DEFINE pick == load[t]["pick"]
            d == pick.doc \cup {NextEdit}
<1>1. pick.stage = "read" /\ load' = [load EXCEPT ![t]["pick"] = NoLoad]
  BY DEF PickLoaded
<1>2. t \in Picking /\ Picking' \subseteq Picking \ {t}
  BY <1>1, ForgetEffect, PickIsALoader DEF Picking
<1>3. CASE UNCHANGED <<saver, by, shown>>
  <2>1. Counted'
    BY <1>2, <1>3, CountedKept DEF TypeInv
  <2>2. SaverType' /\ BoardType' /\ HistoryType'
    BY <1>3 DEF TypeInv, saver, SaverType, BoardType, HistoryType, PickLoaded
  <2>. QED
    BY <1>1, <1>3, <2>1, <2>2
<1>4. CASE /\ by' = [by EXCEPT ![NextEdit] = t] /\ WriteNow(t, d)
           /\ shown' = IF pick.gone THEN shown ELSE [shown EXCEPT ![t] = d]
  <2>1. Cardinality(Made) < MaxEdits /\ Made' = Made \cup {NextEdit} /\ Counted'
    BY <1>2, <1>4, EditCounted DEF TypeInv
  <2>2. NextEdit \in Edits
    BY <2>1, NextEditIsNew DEF TypeInv
  <2>3. pick.doc \in Docs
    BY PickIsALoader DEF TypeInv, LoadType, Load
  <2>4. d \in Docs /\ d # None
    BY <2>2, <2>3 DEF Docs, Edits, PlanSyncAssumption
  <2>5. SaverType'
    BY <1>4, <2>4, WriteNowEffect DEF TypeInv
  <2>6. BoardType' /\ (pick.gone => shown' = shown) /\ (~ pick.gone => shown'[t] = d)
        /\ \A s \in Tabs \ {t} : shown'[s] = shown[s]
    BY <1>4, <2>4 DEF TypeInv, BoardType, PickLoaded
  <2>7. HistoryType'
    BY <1>4 DEF TypeInv, HistoryType, PickLoaded
  <2>. QED
    BY <1>1, <1>4, <2>1, <2>4, <2>5, <2>6, <2>7
<1>. QED
  BY <1>3, <1>4 DEF PickLoaded

-----------------------------------------------------------------------------
(* What every action leaves of the types.                                  *)

\* The last words of a tab are a request.
LEMMA LastWordsType ==
  ASSUME TypeInv, NEW t \in Tabs
  PROVE  LastWords(t) \in SUBSET [version : Nat, doc : Docs]
<1>1. known[t] \in Nat /\ put[t] \in Put /\ put[t].version \in Nat
      /\ pending[t] \in {None} \cup Docs /\ chain[t] \in Seq(Docs)
  BY DEF TypeInv, SaverType, Put
<1>2. chain[t] # <<>> => Head(chain[t]) \in Docs
  BY <1>1
<1>. QED
  BY <1>1, <1>2 DEF LastWords

\* Types and counting are preserved by every step.
LEMMA TypeStep ==
  ASSUME PlanSyncAssumption, TypeInv, Counted, Next
  PROVE  TypeInv' /\ Counted' /\ Made \subseteq Made'
<1>1. ASSUME NEW t \in Tabs, NEW to \in {"plan", "catalog"}, StartLoad(t, to)
      PROVE  TypeInv' /\ Counted' /\ Made \subseteq Made'
  <2>1. LoadType' /\ Picking' = Picking
    BY <1>1, StartLoadEffect
  <2>2. Counted' /\ Made' = Made
    BY <1>1, <2>1, CountedKept DEF TypeInv, StartLoad
  <2>3. BoardType' /\ HistoryType'
    BY <1>1 DEF TypeInv, BoardType, HistoryType, StartLoad
  <2>. QED
    BY <1>1, <2>1, <2>2, <2>3 DEF TypeInv, ServerType, SaverType, StartLoad, server, saver
<1>2. ASSUME NEW t \in Tabs, Edit(t)
      PROVE  TypeInv' /\ Counted' /\ Made \subseteq Made'
  <2>1. Counted' /\ SaverType' /\ BoardType' /\ HistoryType' /\ Made \subseteq Made'
    BY <1>2, EditEffect
  <2>. QED
    BY <1>2, <2>1 DEF TypeInv, ServerType, LoadType, Edit, server
<1>3. ASSUME NEW t \in Tabs, Pick(t)
      PROVE  TypeInv' /\ Counted' /\ Made \subseteq Made'
  <2>1. SaverType' /\ LoadType' /\ Picking' \subseteq Picking \cup {t}
    BY <1>3, PickEffect
  <2>2. Made' = Made
    BY <1>3 DEF Pick, Made
  <2>3. Counted'
    <3>1. IsFiniteSet(Picking) /\ Cardinality(Picking) \in Nat /\ Cardinality(Made) \in Nat
          /\ MaxEdits \in Nat
      BY MadeIsFinite, PickingIsFinite DEF TypeInv, PlanSyncAssumption
    <3>2. t \notin Picking /\ Cardinality(Made) + Cardinality(Picking) < MaxEdits
      BY <1>3 DEF Pick, Picking, EditsLeft
    <3>3. /\ IsFiniteSet(Picking \cup {t})
          /\ Cardinality(Picking \cup {t}) = Cardinality(Picking) + 1
      BY <3>1, <3>2, FS_AddElement
    <3>4. Cardinality(Picking') <= Cardinality(Picking) + 1 /\ Cardinality(Picking') \in Nat
      BY <2>1, <3>3, FS_Subset, FS_CardinalityType
    <3>5. Cardinality(Made') = Cardinality(Made)
      BY <2>2
    <3>. QED
      BY <2>2, <3>1, <3>2, <3>4, <3>5 DEF Counted
  <2>. QED
    BY <1>3, <2>1, <2>2, <2>3
       DEF TypeInv, ServerType, BoardType, HistoryType, Pick, server
<1>4. ASSUME NEW t \in Tabs, Leave(t)
      PROVE  TypeInv' /\ Counted' /\ Made \subseteq Made'
  <2>1. LoadType' /\ Picking' = Picking
    BY <1>4, LeaveEffect
  <2>2. Counted' /\ Made' = Made
    BY <1>4, <2>1, CountedKept DEF TypeInv, Leave
  <2>3. SaverType'
    <3>1. CASE page[t] = "plan" /\ shown[t] # None
      BY <1>4, <3>1, FlushEffect DEF Leave, TypeInv
    <3>2. CASE ~ (page[t] = "plan" /\ shown[t] # None)
      BY <1>4, <3>2 DEF Leave, TypeInv, SaverType, saver
    <3>. QED
      BY <3>1, <3>2
  <2>4. BoardType'
    BY <1>4 DEF TypeInv, BoardType, Leave
  <2>. QED
    BY <1>4, <2>1, <2>2, <2>3, <2>4 DEF TypeInv, ServerType, HistoryType, Leave, server
<1>5. ASSUME NEW t \in Tabs, Reload(t)
      PROVE  TypeInv' /\ Counted' /\ Made \subseteq Made'
  <2>1. LoadType' /\ Picking' \subseteq Picking /\ SaverType' /\ known' \in [Tabs -> Nat]
    BY <1>5, ReloadEffect
  <2>2. Counted' /\ Made' = Made
    BY <1>5, <2>1, CountedKept DEF TypeInv, Reload
  <2>3. BoardType' /\ HistoryType'
    BY <1>5 DEF TypeInv, BoardType, HistoryType, Reload
  <2>4. LastWords(t) \in SUBSET [version : Nat, doc : Docs]
    BY <1>5, LastWordsType DEF TypeInv
  <2>5. ServerType'
    BY <1>5, <2>4 DEF TypeInv, ServerType, Reload, server
  <2>. QED
    BY <2>1, <2>2, <2>3, <2>5 DEF TypeInv
<1>6. ASSUME NEW t \in Tabs, NEW l \in Loaders, ListRead(t, l)
      PROVE  TypeInv' /\ Counted' /\ Made \subseteq Made'
  <2>1. LoadType' /\ Picking' = Picking
    BY <1>6, ListReadEffect
  <2>2. Counted' /\ Made' = Made
    BY <1>6, <2>1, CountedKept DEF TypeInv, ListRead
  <2>. QED
    BY <1>6, <2>1, <2>2
       DEF TypeInv, ServerType, SaverType, BoardType, HistoryType, ListRead, server, saver
<1>7. ASSUME NEW t \in Tabs, NEW l \in Loaders, ListAnswered(t, l)
      PROVE  TypeInv' /\ Counted' /\ Made \subseteq Made'
  <2>1. LoadType' /\ Picking' = Picking /\ known' \in [Tabs -> Nat]
    BY <1>7, ListAnsweredEffect
  <2>2. Counted' /\ Made' = Made
    BY <1>7, <2>1, CountedKept DEF TypeInv, ListAnswered
  <2>. QED
    BY <1>7, <2>1, <2>2
       DEF TypeInv, ServerType, SaverType, BoardType, HistoryType, ListAnswered, server, saver
<1>8. ASSUME NEW t \in Tabs, NEW l \in Loaders, BundleRead(t, l)
      PROVE  TypeInv' /\ Counted' /\ Made \subseteq Made'
  <2>1. LoadType' /\ Picking' = Picking
    BY <1>8, BundleReadEffect
  <2>2. Counted' /\ Made' = Made
    BY <1>8, <2>1, CountedKept DEF TypeInv, BundleRead
  <2>. QED
    BY <1>8, <2>1, <2>2
       DEF TypeInv, ServerType, SaverType, BoardType, HistoryType, BundleRead, server, saver
<1>9. ASSUME NEW t \in Tabs, NEW l \in Loaders, LoadFails(t, l)
      PROVE  TypeInv' /\ Counted' /\ Made \subseteq Made'
  <2>1. LoadType' /\ Picking' \subseteq Picking
    BY <1>9, ForgetEffect DEF LoadFails
  <2>2. Counted' /\ Made' = Made
    BY <1>9, <2>1, CountedKept DEF TypeInv, LoadFails
  <2>. QED
    BY <1>9, <2>1, <2>2
       DEF TypeInv, ServerType, SaverType, BoardType, HistoryType, LoadFails, server, saver
<1>10. ASSUME NEW t \in Tabs, PageLoaded(t)
       PROVE  TypeInv' /\ Counted' /\ Made \subseteq Made'
  <2>1. LoadType' /\ Picking' \subseteq Picking
    BY <1>10, ForgetEffect, PickIsALoader DEF PageLoaded
  <2>2. Counted' /\ Made' = Made
    BY <1>10, <2>1, CountedKept DEF TypeInv, PageLoaded
  <2>3. load[t]["page"].doc \in Docs
    BY PickIsALoader DEF TypeInv, LoadType, Load
  <2>4. BoardType'
    BY <1>10, <2>3 DEF TypeInv, BoardType, PageLoaded
  <2>. QED
    BY <1>10, <2>1, <2>2, <2>4
       DEF TypeInv, ServerType, SaverType, HistoryType, PageLoaded, server, saver
<1>11. ASSUME NEW t \in Tabs, PickLoaded(t)
       PROVE  TypeInv' /\ Counted' /\ Made \subseteq Made'
  <2>1. /\ Counted' /\ SaverType' /\ BoardType' /\ HistoryType'
        /\ load' = [load EXCEPT ![t]["pick"] = NoLoad]
        /\ by' = by \/ Made' = Made \cup {NextEdit}
    BY <1>11, PickedEffect
  <2>2. LoadType'
    BY <2>1, ForgetEffect, PickIsALoader
  <2>3. Made \subseteq Made'
    BY <2>1 DEF Made
  <2>. QED
    BY <1>11, <2>1, <2>2, <2>3 DEF TypeInv, ServerType, PickLoaded, server
<1>12. ASSUME NEW t \in Tabs, Timer(t)
       PROVE  TypeInv' /\ Counted' /\ Made \subseteq Made'
  <2>1. SaverType'
    BY <1>12, FlushEffect DEF TypeInv, Timer, FlushPlanSave
  <2>2. Counted' /\ Made' = Made
    BY <1>12, CountedKept DEF TypeInv, Timer, ui, Picking
  <2>. QED
    BY <1>12, <2>1, <2>2
       DEF TypeInv, ServerType, LoadType, BoardType, HistoryType, Timer, server, ui
<1>13. ASSUME NEW t \in Tabs, ServerPut(t)
       PROVE  TypeInv' /\ Counted' /\ Made \subseteq Made'
  <2>1. ServerType' /\ SaverType'
    BY <1>13, ServerPutEffect
  <2>2. Counted' /\ Made' = Made
    BY <1>13, CountedKept DEF TypeInv, ServerPut, ui, Picking
  <2>. QED
    BY <1>13, <2>1, <2>2 DEF TypeInv, LoadType, BoardType, HistoryType, ServerPut, ui
<1>14. ASSUME NEW t \in Tabs, PutAnswered(t)
       PROVE  TypeInv' /\ Counted' /\ Made \subseteq Made'
  <2>1. /\ known' \in [Tabs -> Nat] /\ put[t].stage # "none"
        /\ EndOfWrite(t, IF put[t].stage = "ok" THEN "saved" ELSE "conflict")
        /\ UNCHANGED <<server, late, page, shown, by, hurried>>
    BY <1>14, AnswerEffect
  <2>2. SaverType'
    BY <2>1, EndOfWriteEffect DEF TypeInv
  <2>3. LoadType' /\ Picking' = Picking
    BY <2>1, EndOfWriteLoad, PickIsALoader DEF TypeInv, Picking
  <2>4. Counted' /\ Made' = Made
    BY <2>1, <2>3, CountedKept DEF TypeInv
  <2>. QED
    BY <2>1, <2>2, <2>3, <2>4 DEF TypeInv, ServerType, BoardType, HistoryType, server
<1>15. ASSUME NEW t \in Tabs, PutFails(t)
       PROVE  TypeInv' /\ Counted' /\ Made \subseteq Made'
  <2>1. /\ put[t].stage # "none" /\ EndOfWrite(t, "failed") /\ known' = known
        /\ UNCHANGED <<server, page, shown, by, hurried>> /\ ServerType'
    BY <1>15, FailEffect
  <2>2. SaverType'
    BY <2>1, EndOfWriteEffect DEF TypeInv
  <2>3. LoadType' /\ Picking' = Picking
    BY <2>1, EndOfWriteLoad, PickIsALoader DEF TypeInv, Picking
  <2>4. Counted' /\ Made' = Made
    BY <2>1, <2>3, CountedKept DEF TypeInv
  <2>. QED
    BY <2>1, <2>2, <2>3, <2>4 DEF TypeInv, BoardType, HistoryType
<1>16. CASE LatePut
  <2>1. ServerType'
    BY <1>16, LatePutEffect
  <2>2. Counted' /\ Made' = Made
    BY <1>16, CountedKept DEF TypeInv, LatePut, ui, Picking
  <2>. QED
    BY <1>16, <2>1, <2>2
       DEF TypeInv, SaverType, LoadType, BoardType, HistoryType, LatePut, saver, ui
<1>. QED
  BY <1>1, <1>2, <1>3, <1>4, <1>5, <1>6, <1>7, <1>8, <1>9, <1>10, <1>11, <1>12,
     <1>13, <1>14, <1>15, <1>16 DEF Next, UserStep, LoadStep, SaveStep

-----------------------------------------------------------------------------
(* The documents a tab holds, and how a step changes them.                 *)

Queue(t)  == {chain[t][i] : i \in DOMAIN chain[t]} \cup ({pending[t]} \ {None})
InHand(t) == Queue(t) \cup ({shown[t]} \ {None})

(* A document an edit of the tab can start from.                           *)
Based(t, c) == c \in InHand(t) \/ \E l \in Loaders : c = load[t][l].doc

(* A document the step makes: the tab has added the next edit.             *)
Grown(t, d) ==
  /\ by' = [by EXCEPT ![NextEdit] = t] /\ Cardinality(Made) < MaxEdits
  /\ \E c \in Docs : Based(t, c) /\ d = c \cup {NextEdit}

\* Appending adds one element to the elements of a sequence.
LEMMA AppendElements ==
  ASSUME NEW S, NEW c \in Seq(S), NEW d \in S, NEW a, a = Append(c, d)
  PROVE  /\ a \in Seq(S) /\ Len(a) = Len(c) + 1 /\ a # <<>>
         /\ DOMAIN c = 1..Len(c) /\ DOMAIN a = 1..(Len(c) + 1) /\ Len(c) \in Nat
         /\ \A i \in 1..Len(c) : a[i] = c[i]
         /\ a[Len(c) + 1] = d
         /\ {a[i] : i \in DOMAIN a} = {c[i] : i \in DOMAIN c} \cup {d}
<1>1. /\ a \in Seq(S) /\ Len(a) = Len(c) + 1 /\ a # <<>>
      /\ DOMAIN c = 1..Len(c) /\ DOMAIN a = 1..(Len(c) + 1) /\ Len(c) \in Nat
  OBVIOUS
<1>2. (\A i \in 1..Len(c) : a[i] = c[i]) /\ a[Len(c) + 1] = d
  OBVIOUS
<1>3. {a[i] : i \in DOMAIN a} = {c[i] : i \in DOMAIN c} \cup {d}
  <2>1. \A i \in 1..(Len(c) + 1) : i \in 1..Len(c) \/ i = Len(c) + 1
    BY <1>1
  <2>2. 1..Len(c) \subseteq 1..(Len(c) + 1) /\ Len(c) + 1 \in 1..(Len(c) + 1)
    BY <1>1
  <2>. QED
    BY <1>1, <1>2, <2>1, <2>2
<1>. QED
  BY <1>1, <1>2, <1>3

\* The tail of a sequence holds its elements but the first.
LEMMA TailElements ==
  ASSUME NEW S, NEW c \in Seq(S), c # <<>>, NEW r, r = Tail(c)
  PROVE  /\ r \in Seq(S) /\ Len(r) = Len(c) - 1 /\ Len(c) \in Nat /\ Len(c) >= 1
         /\ DOMAIN c = 1..Len(c) /\ DOMAIN r = 1..(Len(c) - 1)
         /\ \A i \in 1..(Len(c) - 1) : r[i] = c[i + 1]
         /\ Head(c) = c[1] /\ c[1] \in S
         /\ {r[i] : i \in DOMAIN r} \subseteq {c[i] : i \in DOMAIN c}
<1>1. /\ r \in Seq(S) /\ Len(r) = Len(c) - 1 /\ Len(c) \in Nat /\ Len(c) >= 1
      /\ DOMAIN c = 1..Len(c) /\ DOMAIN r = 1..(Len(c) - 1)
      /\ \A i \in 1..(Len(c) - 1) : r[i] = c[i + 1]
      /\ Head(c) = c[1] /\ c[1] \in S
  OBVIOUS
<1>2. \A i \in 1..(Len(c) - 1) : i + 1 \in 1..Len(c)
  BY <1>1
<1>. QED
  BY <1>1, <1>2

\* A tab whose queue is untouched holds the same documents.
LEMMA QueueSame ==
  ASSUME NEW t \in Tabs, pending'[t] = pending[t], chain'[t] = chain[t]
  PROVE  Queue(t)' = Queue(t)
  BY DEF Queue

\* The document being written is one of the queue.
LEMMA HeadIsQueued ==
  ASSUME SaverType, NEW t \in Tabs, chain[t] # <<>>
  PROVE  /\ Head(chain[t]) \in Queue(t) /\ Head(chain[t]) = chain[t][1]
         /\ 1 \in DOMAIN chain[t]
<1>1. chain[t] \in Seq(Docs)
  BY DEF SaverType
<1>2. Head(chain[t]) = chain[t][1] /\ 1 \in DOMAIN chain[t]
  BY <1>1, TailElements
<1>. QED
  BY <1>2 DEF Queue

\* A write moves a document from pending to the chain.
LEMMA WriteNowHands ==
  ASSUME PlanSyncAssumption, SaverType, NEW t \in Tabs, NEW d \in Docs,
         known \in [Tabs -> Nat], WriteNow(t, d)
  PROVE  /\ Queue(t)' \subseteq Queue(t) \cup {d}
         /\ pending[t] = d => Queue(t)' = Queue(t)
         /\ \A s \in Tabs \ {t} : Queue(s)' = Queue(s)
<1>1. /\ pending'[t] = None /\ chain'[t] = Append(chain[t], d)
      /\ \A s \in Tabs \ {t} : pending'[s] = pending[s] /\ chain'[s] = chain[s]
  BY WriteNowEffect
<1>2. chain[t] \in Seq(Docs) /\ d # None
  BY DEF SaverType, PlanSyncAssumption, Docs, Edits
<1>3. {chain'[t][i] : i \in DOMAIN chain'[t]} = {chain[t][i] : i \in DOMAIN chain[t]} \cup {d}
  <2>. DEFINE c == chain[t]
              a == chain'[t]
  <2>1. c \in Seq(Docs) /\ a = Append(c, d)
    BY <1>1, <1>2
  <2>. HIDE DEF a, c
  <2>2. {a[i] : i \in DOMAIN a} = {c[i] : i \in DOMAIN c} \cup {d}
    BY <2>1, AppendElements
  <2>. QED
    BY <2>2 DEF a, c
<1>. QED
  BY <1>1, <1>2, <1>3, QueueSame DEF Queue

\* A flush keeps the documents of the queue.
LEMMA FlushHands ==
  ASSUME PlanSyncAssumption, SaverType, NEW t \in Tabs, known \in [Tabs -> Nat],
         FlushPlanSave(t)
  PROVE  \A s \in Tabs : Queue(s)' = Queue(s)
<1>1. CASE UNCHANGED saver
  BY <1>1, QueueSame DEF saver
<1>2. CASE pending[t] \in Docs /\ WriteNow(t, pending[t])
  BY <1>2, WriteNowHands
<1>. QED
  BY <1>1, <1>2, FlushEffect

\* The end of a write only drops documents from the queue.
LEMMA EndOfWriteHands ==
  ASSUME SaverType, LoadType, NEW t \in Tabs, NEW outcome \in {"saved", "conflict", "failed"},
         known' \in [Tabs -> Nat], put[t].stage # "none", EndOfWrite(t, outcome)
  PROVE  /\ Queue(t)' \subseteq Queue(t)
         /\ \A s \in Tabs \ {t} : Queue(s)' = Queue(s)
<1>1. /\ chain[t] # <<>> /\ chain[t] \in Seq(Docs) /\ chain'[t] = Tail(chain[t])
      /\ pending' = pending /\ \A s \in Tabs \ {t} : chain'[s] = chain[s]
  BY EndOfWriteEffect
<1>2. {chain'[t][i] : i \in DOMAIN chain'[t]} \subseteq {chain[t][i] : i \in DOMAIN chain[t]}
  BY <1>1, TailElements
<1>. QED
  BY <1>1, <1>2, QueueSame DEF Queue

HandsMove ==
  \A s \in Tabs :
    /\ \A d \in Queue(s)' : d \in Queue(s) \/ Grown(s, d)
    /\ \A d \in InHand(s)' : Based(s, d) \/ Grown(s, d)

\* Hands that only lose documents move.
LEMMA HandsKept ==
  ASSUME \A s \in Tabs : Queue(s)' \subseteq Queue(s),
         \A s \in Tabs : shown'[s] = shown[s] \/ shown'[s] = None
  PROVE  HandsMove
  BY DEF HandsMove, InHand, Based

\* Hands that are untouched are the same.
LEMMA HandsSame ==
  ASSUME UNCHANGED saver
  PROVE  \A s \in Tabs : Queue(s)' = Queue(s)
  BY QueueSame DEF saver

\* In any step a tab gets a document it had, one it loaded, or one it has grown.
LEMMA HandsStep ==
  ASSUME PlanSyncAssumption, TypeInv, Counted, Next
  PROVE  HandsMove
<1>1. ASSUME NEW t \in Tabs, NEW to \in {"plan", "catalog"}, StartLoad(t, to)
      PROVE  HandsMove
  BY <1>1, HandsKept, HandsSame DEF StartLoad
<1>2. ASSUME NEW t \in Tabs, Edit(t)
      PROVE  HandsMove
  <2>. DEFINE d == shown[t] \cup {NextEdit}
  <2>1. /\ shown[t] \in Docs /\ shown[t] # None /\ QueuePlanSave(t, d) /\ d \in Docs
        /\ shown'[t] = d /\ by' = [by EXCEPT ![NextEdit] = t]
        /\ Cardinality(Made) < MaxEdits /\ \A s \in Tabs \ {t} : shown'[s] = shown[s]
    BY <1>2, EditEffect
  <2>2. /\ pending'[t] = d /\ chain' = chain
        /\ \A s \in Tabs \ {t} : pending'[s] = pending[s]
    BY <2>1, QueueEffect DEF TypeInv
  <2>3. Grown(t, d)
    BY <2>1 DEF Grown, Based, InHand
  <2>. HIDE DEF d
  <2>4. Queue(t)' \subseteq Queue(t) \cup {d}
    BY <2>2 DEF Queue
  <2>5. InHand(t)' \subseteq Queue(t) \cup {d}
    BY <2>1, <2>4 DEF InHand
  <2>6. \A s \in Tabs \ {t} : Queue(s)' = Queue(s) /\ InHand(s)' = InHand(s)
    BY <2>1, <2>2, QueueSame DEF InHand
  <2>. QED
    BY <2>3, <2>4, <2>5, <2>6 DEF HandsMove, Based, InHand
<1>3. ASSUME NEW t \in Tabs, Pick(t)
      PROVE  HandsMove
  BY <1>3, HandsKept, FlushHands DEF Pick, TypeInv
<1>4. ASSUME NEW t \in Tabs, Leave(t)
      PROVE  HandsMove
  <2>1. \A s \in Tabs : Queue(s)' = Queue(s)
    BY <1>4, FlushHands, HandsSame DEF Leave, TypeInv
  <2>2. \A s \in Tabs : shown'[s] = shown[s] \/ shown'[s] = None
    BY <1>4 DEF Leave, TypeInv, BoardType
  <2>. QED
    BY <2>1, <2>2, HandsKept
<1>5. ASSUME NEW t \in Tabs, Reload(t)
      PROVE  HandsMove
  <2>1. /\ pending'[t] = None /\ chain'[t] = <<>>
        /\ \A s \in Tabs \ {t} : pending'[s] = pending[s] /\ chain'[s] = chain[s]
    BY <1>5, ReloadEffect
  <2>2. Queue(t)' = {}
    BY <2>1 DEF Queue
  <2>3. \A s \in Tabs \ {t} : Queue(s)' = Queue(s)
    BY <2>1, QueueSame
  <2>4. \A s \in Tabs : shown'[s] = shown[s] \/ shown'[s] = None
    BY <1>5 DEF Reload, TypeInv, BoardType
  <2>. QED
    BY <2>2, <2>3, <2>4, HandsKept
<1>6. ASSUME NEW t \in Tabs, NEW l \in Loaders,
             ListRead(t, l) \/ ListAnswered(t, l) \/ BundleRead(t, l) \/ LoadFails(t, l)
      PROVE  HandsMove
  BY <1>6, HandsKept, HandsSame DEF ListRead, ListAnswered, BundleRead, LoadFails
<1>7. ASSUME NEW t \in Tabs, PageLoaded(t)
      PROVE  HandsMove
  <2>1. \A s \in Tabs : Queue(s)' = Queue(s)
    BY <1>7, HandsSame DEF PageLoaded
  <2>2. \A s \in Tabs : shown'[s] = shown[s] \/ shown'[s] = load[s]["page"].doc
    BY <1>7 DEF PageLoaded, TypeInv, BoardType
  <2>3. \A s \in Tabs : \A d \in InHand(s)' : Based(s, d)
    BY <2>1, <2>2, PickIsALoader DEF InHand, Based
  <2>. QED
    BY <2>1, <2>3 DEF HandsMove
<1>8. ASSUME NEW t \in Tabs, PickLoaded(t)
      PROVE  HandsMove
  <2>. DEFINE c == load[t]["pick"].doc
              d == c \cup {NextEdit}
  <2>1. CASE UNCHANGED <<saver, by, shown>>
    BY <2>1, HandsKept, HandsSame
  <2>2. CASE /\ WriteNow(t, d) /\ d \in Docs
             /\ by' = [by EXCEPT ![NextEdit] = t] /\ Cardinality(Made) < MaxEdits
             /\ shown'[t] = d \/ shown'[t] = shown[t]
             /\ \A s \in Tabs \ {t} : shown'[s] = shown[s]
    <3>1. c \in Docs
      BY PickIsALoader DEF TypeInv, LoadType, Load
    <3>2. Grown(t, d)
      BY <2>2, <3>1, PickIsALoader DEF Grown, Based
    <3>. HIDE DEF d
    <3>3. Queue(t)' \subseteq Queue(t) \cup {d} /\ \A s \in Tabs \ {t} : Queue(s)' = Queue(s)
      BY <2>2, WriteNowHands DEF TypeInv
    <3>4. InHand(t)' \subseteq InHand(t) \cup {d}
      BY <2>2, <3>3 DEF InHand
    <3>5. \A s \in Tabs \ {t} : InHand(s)' = InHand(s)
      BY <2>2, <3>3 DEF InHand
    <3>. QED
      BY <3>2, <3>3, <3>4, <3>5 DEF HandsMove, Based
  <2>. QED
    BY <1>8, <2>1, <2>2, PickedEffect
<1>9. ASSUME NEW t \in Tabs, Timer(t)
      PROVE  HandsMove
  BY <1>9, HandsKept, FlushHands DEF Timer, ui, TypeInv, FlushPlanSave
<1>10. ASSUME NEW t \in Tabs, ServerPut(t)
       PROVE  HandsMove
  BY <1>10, HandsKept, QueueSame DEF ServerPut, ui
<1>11. ASSUME NEW t \in Tabs, PutAnswered(t)
       PROVE  HandsMove
  <2>1. \A s \in Tabs : Queue(s)' \subseteq Queue(s)
    BY <1>11, AnswerEffect, EndOfWriteHands DEF TypeInv
  <2>. QED
    BY <1>11, <2>1, HandsKept, AnswerEffect
<1>12. ASSUME NEW t \in Tabs, PutFails(t)
       PROVE  HandsMove
  <2>1. \A s \in Tabs : Queue(s)' \subseteq Queue(s)
    BY <1>12, FailEffect, EndOfWriteHands DEF TypeInv
  <2>. QED
    BY <1>12, <2>1, HandsKept, FailEffect
<1>13. CASE LatePut
  BY <1>13, HandsKept, HandsSame DEF LatePut, ui
<1>. QED
  BY <1>1, <1>2, <1>3, <1>4, <1>5, <1>6, <1>7, <1>8, <1>9, <1>10, <1>11, <1>12, <1>13
     DEF Next, UserStep, LoadStep, SaveStep

-----------------------------------------------------------------------------
(* How a step changes the store, the requests under way and the loads.     *)

HistoryMove ==
  \/ by' = by
  \/ /\ \E t \in Tabs : by' = [by EXCEPT ![NextEdit] = t]
     /\ Cardinality(Made) < MaxEdits /\ UNCHANGED <<server, late>>

(* A document is stored: the head of a chain, or one that arrives late.    *)
StoresHead(t) ==
  /\ put[t].stage = "sent" /\ put[t].version = version
  /\ chain[t] # <<>> /\ doc' = Head(chain[t])
  /\ put'[t].stage = "ok" /\ put'[t].version = put[t].version
  /\ \A s \in Tabs \ {t} : put'[s] = put[s]
  /\ UNCHANGED <<late, known, pending, chain, status, ui, hurried>>

StoresLate(m) ==
  /\ m.version = version /\ doc' = m.doc /\ late' = late \ {m}
  /\ UNCHANGED <<known, saver, ui, hurried>>

ServerMove ==
  \/ UNCHANGED server
  \/ /\ version' = version + 1 /\ stored' = stored \cup doc' /\ by' = by
     /\ (\E t \in Tabs : StoresHead(t)) \/ (\E m \in late : StoresLate(m))

(* A request its tab has given up on: the PUT under way, or the pending    *)
(* document of the pagehide flush.                                         *)
LateMove ==
  \A m \in late' :
    \/ m \in late
    \/ \E t \in Tabs :
         \/ /\ put[t].stage = "sent" /\ m.version = put[t].version
            /\ chain[t] # <<>> /\ m.doc = Head(chain[t])
            /\ Reload(t) \/ PutFails(t)
         \/ /\ chain[t] = <<>> /\ pending[t] # None
            /\ m.version = known[t] /\ m.doc = pending[t] /\ Reload(t)

LoadMove ==
  \A t \in Tabs, l \in Loaders :
    /\ load'[t][l].doc \in {load[t][l].doc, {}, doc}
    /\ load'[t][l].version \in {load[t][l].version, 0, version}

StepMoves == HandsMove /\ HistoryMove /\ ServerMove /\ LateMove /\ LoadMove

\* What a reload leaves on the way.
LEMMA LateReload ==
  ASSUME TypeInv, NEW t \in Tabs, Reload(t)
  PROVE  LateMove
<1>1. SUFFICES ASSUME NEW m \in LastWords(t)
               PROVE  \/ /\ put[t].stage = "sent" /\ m.version = put[t].version
                         /\ chain[t] # <<>> /\ m.doc = Head(chain[t])
                      \/ /\ chain[t] = <<>> /\ pending[t] # None
                         /\ m.version = known[t] /\ m.doc = pending[t]
  <2>1. \A m \in late' : m \in late \/ m \in LastWords(t)
    BY DEF Reload
  <2>. QED
    BY <1>1, <2>1 DEF LateMove
<1>2. CASE chain[t] = <<>>
  <2>1. pending[t] # None /\ m = [version |-> known[t], doc |-> pending[t]]
    BY <1>2 DEF LastWords
  <2>. QED
    BY <1>2, <2>1
<1>3. CASE chain[t] # <<>>
  <2>1. put[t].stage = "sent" /\ m = [version |-> put[t].version, doc |-> Head(chain[t])]
    BY <1>3 DEF LastWords
  <2>. QED
    BY <1>3, <2>1
<1>. QED
  BY <1>2, <1>3

\* In any step the store is untouched or takes a head or a late request.
LEMMA ServerStep ==
  ASSUME PlanSyncAssumption, TypeInv, Counted, Next
  PROVE  HistoryMove /\ ServerMove /\ LateMove
<1>1. ASSUME NEW t \in Tabs, NEW to \in {"plan", "catalog"}, StartLoad(t, to)
      PROVE  HistoryMove /\ ServerMove /\ LateMove
  BY <1>1 DEF StartLoad, HistoryMove, ServerMove, LateMove
<1>2. ASSUME NEW t \in Tabs, Edit(t)
      PROVE  HistoryMove /\ ServerMove /\ LateMove
  <2>1. by' = [by EXCEPT ![NextEdit] = t] /\ Cardinality(Made) < MaxEdits
    BY <1>2, EditEffect
  <2>. QED
    BY <1>2, <2>1 DEF Edit, HistoryMove, ServerMove, LateMove
<1>3. ASSUME NEW t \in Tabs, Pick(t) \/ Leave(t)
      PROVE  HistoryMove /\ ServerMove /\ LateMove
  BY <1>3 DEF Pick, Leave, HistoryMove, ServerMove, LateMove
<1>4. ASSUME NEW t \in Tabs, Reload(t)
      PROVE  HistoryMove /\ ServerMove /\ LateMove
  <2>1. HistoryMove /\ ServerMove
    BY <1>4 DEF Reload, HistoryMove, ServerMove
  <2>. QED
    BY <1>4, <2>1, LateReload
<1>5. ASSUME NEW t \in Tabs, NEW l \in Loaders,
             ListRead(t, l) \/ ListAnswered(t, l) \/ BundleRead(t, l) \/ LoadFails(t, l)
      PROVE  HistoryMove /\ ServerMove /\ LateMove
  BY <1>5 DEF ListRead, ListAnswered, BundleRead, LoadFails, HistoryMove, ServerMove, LateMove
<1>6. ASSUME NEW t \in Tabs, PageLoaded(t)
      PROVE  HistoryMove /\ ServerMove /\ LateMove
  BY <1>6 DEF PageLoaded, HistoryMove, ServerMove, LateMove
<1>7. ASSUME NEW t \in Tabs, PickLoaded(t)
      PROVE  HistoryMove /\ ServerMove /\ LateMove
  <2>1. \/ by' = by
        \/ by' = [by EXCEPT ![NextEdit] = t] /\ Cardinality(Made) < MaxEdits
    BY <1>7, PickedEffect
  <2>. QED
    BY <1>7, <2>1 DEF PickLoaded, HistoryMove, ServerMove, LateMove
<1>8. ASSUME NEW t \in Tabs, Timer(t)
      PROVE  HistoryMove /\ ServerMove /\ LateMove
  BY <1>8 DEF Timer, HistoryMove, ServerMove, LateMove
<1>9. ASSUME NEW t \in Tabs, ServerPut(t)
      PROVE  HistoryMove /\ ServerMove /\ LateMove
  <2>1. by' = by /\ late' = late
        /\ UNCHANGED <<late, known, pending, chain, status, ui, hurried>>
    BY <1>9 DEF ServerPut
  <2>2. ServerMove
    <3>1. CASE /\ put'[t].stage = "ok" /\ put[t].version = version
               /\ doc' = Head(chain[t]) /\ version' = version + 1
               /\ stored' = stored \cup Head(chain[t])
      <4>1. StoresHead(t)
        BY <1>9, <2>1, <3>1, ServerPutEffect DEF StoresHead
      <4>. QED
        BY <2>1, <3>1, <4>1 DEF ServerMove
    <3>. QED
      BY <1>9, <3>1, ServerPutEffect DEF ServerMove
  <2>. QED
    BY <2>1, <2>2 DEF HistoryMove, LateMove
<1>10. ASSUME NEW t \in Tabs, PutAnswered(t)
       PROVE  HistoryMove /\ ServerMove /\ LateMove
  BY <1>10, AnswerEffect DEF HistoryMove, ServerMove, LateMove
<1>11. ASSUME NEW t \in Tabs, PutFails(t)
       PROVE  HistoryMove /\ ServerMove /\ LateMove
  <2>1. HistoryMove /\ ServerMove
    BY <1>11, FailEffect DEF HistoryMove, ServerMove
  <2>2. CASE late' = late
    BY <2>1, <2>2 DEF LateMove
  <2>3. CASE /\ put[t].stage = "sent"
             /\ late' = late \cup {[version |-> put[t].version, doc |-> Head(chain[t])]}
    <3>1. chain[t] # <<>>
      BY <2>3 DEF TypeInv, SaverType
    <3>2. ASSUME NEW m \in late', m \notin late
          PROVE  m.version = put[t].version /\ m.doc = Head(chain[t])
      BY <2>3, <3>2
    <3>3. LateMove
      BY <1>11, <2>3, <3>1, <3>2 DEF LateMove
    <3>. QED
      BY <2>1, <3>3
  <2>. QED
    BY <1>11, <2>2, <2>3, FailEffect
<1>12. CASE LatePut
  <2>1. by' = by /\ UNCHANGED <<known, saver, ui, hurried>>
    BY <1>12 DEF LatePut
  <2>2. PICK m \in late :
          /\ late' = late \ {m}
          /\ \/ /\ m.version = version /\ doc' = m.doc /\ version' = version + 1
                /\ stored' = stored \cup m.doc
             \/ UNCHANGED server
    BY <1>12, LatePutEffect
  <2>3. ServerMove
    BY <2>1, <2>2 DEF ServerMove, StoresLate
  <2>. QED
    BY <2>1, <2>2, <2>3 DEF HistoryMove, LateMove
<1>. QED
  BY <1>1, <1>2, <1>3, <1>4, <1>5, <1>6, <1>7, <1>8, <1>9, <1>10, <1>11, <1>12
     DEF Next, UserStep, LoadStep, SaveStep

\* In any step a load keeps, forgets or reads the stored document.
LEMMA LoadsStep ==
  ASSUME PlanSyncAssumption, TypeInv, Counted, Next
  PROVE  LoadMove
<1>1. ASSUME NEW t \in Tabs, NEW to \in {"plan", "catalog"}, StartLoad(t, to)
      PROVE  LoadMove
  BY <1>1, StartLoadEffect DEF LoadMove
<1>2. ASSUME NEW t \in Tabs, Pick(t)
      PROVE  LoadMove
  BY <1>2, PickEffect DEF LoadMove
<1>3. ASSUME NEW t \in Tabs, Leave(t)
      PROVE  LoadMove
  BY <1>3, LeaveEffect DEF LoadMove
<1>4. ASSUME NEW t \in Tabs, Reload(t)
      PROVE  LoadMove
  BY <1>4, ReloadEffect DEF LoadMove
<1>5. ASSUME NEW t \in Tabs, NEW l \in Loaders, ListRead(t, l)
      PROVE  LoadMove
  BY <1>5, ListReadEffect DEF LoadMove
<1>6. ASSUME NEW t \in Tabs, NEW l \in Loaders, ListAnswered(t, l)
      PROVE  LoadMove
  BY <1>6, ListAnsweredEffect DEF LoadMove
<1>7. ASSUME NEW t \in Tabs, NEW l \in Loaders, BundleRead(t, l)
      PROVE  LoadMove
  BY <1>7, BundleReadEffect DEF LoadMove
<1>8. ASSUME NEW t \in Tabs, NEW l \in Loaders, load' = [load EXCEPT ![t][l] = NoLoad]
      PROVE  LoadMove
  <2>1. /\ load'[t][l] = NoLoad /\ NoLoad.version = 0 /\ NoLoad.doc = {}
        /\ \A s \in Tabs, k \in Loaders : (s # t \/ k # l) => load'[s][k] = load[s][k]
    BY <1>8, ForgetEffect
  <2>. QED
    BY <2>1 DEF LoadMove
<1>9. ASSUME NEW t \in Tabs, NEW o, EndOfWrite(t, o)
      PROVE  LoadMove
  BY <1>9, EndOfWriteLoad DEF LoadMove, TypeInv
<1>10. ASSUME load' = load
       PROVE  LoadMove
  BY <1>10 DEF LoadMove
<1>11. ASSUME NEW t \in Tabs, Edit(t) \/ Timer(t) \/ ServerPut(t)
       PROVE  LoadMove
  BY <1>10, <1>11 DEF Edit, Timer, ServerPut, ui
<1>12. ASSUME NEW t \in Tabs,
              \/ \E l \in Loaders : LoadFails(t, l)
              \/ PageLoaded(t) \/ PickLoaded(t)
       PROVE  LoadMove
  BY <1>8, <1>12, PickIsALoader DEF LoadFails, PageLoaded, PickLoaded
<1>13. ASSUME NEW t \in Tabs, PutAnswered(t) \/ PutFails(t)
       PROVE  LoadMove
  BY <1>9, <1>13 DEF PutAnswered, PutFails
<1>14. CASE LatePut
  BY <1>10, <1>14 DEF LatePut, ui
<1>. QED
  BY <1>1, <1>2, <1>3, <1>4, <1>5, <1>6, <1>7, <1>11, <1>12, <1>13, <1>14
     DEF Next, UserStep, LoadStep, SaveStep

\* Every step of the system is such a move.
LEMMA StepIsAMove ==
  ASSUME PlanSyncAssumption, TypeInv, Counted, Next
  PROVE  StepMoves
  BY HandsStep, ServerStep, LoadsStep DEF StepMoves

-----------------------------------------------------------------------------
(* Every document is made of edits made; the store has what it serves.     *)

MadeInv ==
  /\ doc \subseteq stored /\ stored \subseteq Made
  /\ \A m \in late : m.doc \subseteq Made
  /\ \A t \in Tabs : \A d \in InHand(t) : d \subseteq Made
  /\ \A t \in Tabs, l \in Loaders : load[t][l].doc \subseteq stored

\* A grown document has the edit just made, under its author.
LEMMA GrownIsMade ==
  ASSUME PlanSyncAssumption, TypeInv, Counted, NEW t \in Tabs, NEW d, Grown(t, d)
  PROVE  /\ NextEdit \in Edits /\ Made' = Made \cup {NextEdit} /\ by'[NextEdit] = t
         /\ \A e \in Edits \ {NextEdit} : by'[e] = by[e]
         /\ by[NextEdit] = None
         /\ \A e \in Made : e < NextEdit
<1>1. /\ NextEdit \in Edits /\ NextEdit \notin Made /\ by[NextEdit] = None
      /\ \A e \in Made : e < NextEdit
  BY NextEditIsNew DEF Grown, TypeInv
<1>2. by'[NextEdit] = t /\ \A e \in Edits \ {NextEdit} : by'[e] = by[e]
  BY <1>1 DEF Grown, TypeInv, HistoryType
<1>3. Made' = Made \cup {NextEdit}
  BY <1>1, <1>2 DEF Made, PlanSyncAssumption
<1>. QED
  BY <1>1, <1>2, <1>3

\* What a document is grown from consists of edits made.
LEMMA BasedIsMade ==
  ASSUME MadeInv, NEW t \in Tabs, NEW c, Based(t, c)
  PROVE  c \subseteq Made
  BY DEF MadeInv, Based

\* A request left on the way was in a queue.
LEMMA LateWasQueued ==
  ASSUME TypeInv, StepMoves, NEW m \in late'
  PROVE  m \in late \/ \E t \in Tabs : m.doc \in Queue(t)
<1>1. ASSUME NEW t \in Tabs, chain[t] # <<>>, m.doc = Head(chain[t])
      PROVE  m.doc \in Queue(t)
  BY <1>1, HeadIsQueued DEF TypeInv
<1>2. ASSUME NEW t \in Tabs, pending[t] # None, m.doc = pending[t]
      PROVE  m.doc \in Queue(t)
  BY <1>2 DEF Queue
<1>. QED
  BY <1>1, <1>2 DEF StepMoves, LateMove

\* MadeInv is preserved.
LEMMA MadeStep ==
  ASSUME PlanSyncAssumption, TypeInv, Counted, MadeInv, Next
  PROVE  MadeInv'
<1>1. Made \subseteq Made'
  BY TypeStep
<1>2. StepMoves
  BY StepIsAMove
<1>3. ASSUME NEW t \in Tabs, NEW d \in InHand(t)'
      PROVE  d \subseteq Made'
  <2>1. CASE Based(t, d)
    BY <1>1, <2>1, BasedIsMade
  <2>2. CASE Grown(t, d)
    <3>1. PICK c \in Docs : Based(t, c) /\ d = c \cup {NextEdit}
      BY <2>2 DEF Grown
    <3>2. c \subseteq Made
      BY <3>1, BasedIsMade
    <3>. QED
      BY <2>2, <3>1, <3>2, GrownIsMade
  <2>. QED
    BY <1>2, <2>1, <2>2 DEF StepMoves, HandsMove
<1>4. /\ doc' \subseteq stored' /\ stored' \subseteq Made' /\ stored \subseteq stored'
      /\ doc \subseteq stored'
  <2>1. CASE UNCHANGED server
    BY <1>1, <2>1 DEF server, MadeInv
  <2>2. CASE /\ stored' = stored \cup doc'
             /\ (\E t \in Tabs : StoresHead(t)) \/ (\E m \in late : StoresLate(m))
    <3>1. doc' \subseteq Made
      <4>1. ASSUME NEW t \in Tabs, StoresHead(t)
            PROVE  doc' \subseteq Made
        BY <4>1, HeadIsQueued DEF StoresHead, InHand, MadeInv, TypeInv
      <4>2. ASSUME NEW m \in late, StoresLate(m)
            PROVE  doc' \subseteq Made
        BY <4>2 DEF StoresLate, MadeInv
      <4>. QED
        BY <2>2, <4>1, <4>2
    <3>. QED
      BY <1>1, <2>2, <3>1 DEF MadeInv
  <2>. QED
    BY <1>2, <2>1, <2>2 DEF StepMoves, ServerMove
<1>5. ASSUME NEW m \in late'
      PROVE  m.doc \subseteq Made'
  <2>1. CASE m \in late
    BY <1>1, <2>1 DEF MadeInv
  <2>2. ASSUME NEW t \in Tabs, m.doc \in Queue(t)
        PROVE  m.doc \subseteq Made'
    BY <1>1, <2>2 DEF InHand, MadeInv
  <2>. QED
    BY <1>2, <2>1, <2>2, LateWasQueued
<1>6. ASSUME NEW t \in Tabs, NEW l \in Loaders
      PROVE  load'[t][l].doc \subseteq stored'
  <2>1. load'[t][l].doc \in {load[t][l].doc, {}, doc}
    BY <1>2 DEF StepMoves, LoadMove
  <2>. QED
    BY <1>4, <2>1 DEF MadeInv
<1>. QED
  BY <1>3, <1>4, <1>5, <1>6 DEF MadeInv

-----------------------------------------------------------------------------
(* Nobody names a version the store has not reached.                       *)

VersionTab(t) ==
  /\ known[t] <= version /\ put[t].version <= version
  /\ put[t].stage \in {"ok", "stale"} => put[t].version < version
  /\ put[t].stage = "ok" => Head(chain[t]) \subseteq stored
  /\ \A l \in Loaders : load[t][l].version <= version

VersionInv ==
  /\ \A m \in late : m.version <= version
  /\ \A t \in Tabs : VersionTab(t)

\* The versions are numbers.
LEMMA VersionTypes ==
  ASSUME TypeInv
  PROVE  /\ version \in Nat
         /\ \A m \in late : m.version \in Nat
         /\ \A t \in Tabs :
              /\ known[t] \in Nat /\ put[t] \in Put
              /\ put[t].version \in Nat /\ put[t].stage \in {"none", "sent", "ok", "stale"}
              /\ \A l \in Loaders : load[t][l] \in Load /\ load[t][l].version \in Nat
  BY DEF TypeInv, ServerType, SaverType, LoadType, Put, Load

\* A tab whose versions are untouched stays behind the store.
LEMMA VersionFrame ==
  ASSUME TypeInv, TypeInv', NEW t \in Tabs, VersionTab(t),
         version' \in {version, version + 1}, stored \subseteq stored',
         known'[t] = known[t], put'[t] = put[t], chain'[t] = chain[t], LoadMove
  PROVE  VersionTab(t)'
  BY VersionTypes DEF VersionTab, LoadMove

\* The version and the edits stored only grow.
LEMMA StoreGrows ==
  ASSUME TypeInv, ServerMove
  PROVE  /\ version \in Nat /\ version' \in {version, version + 1}
         /\ stored \subseteq stored'
         /\ version' = version => UNCHANGED server
  BY VersionTypes DEF ServerMove, server

\* VersionInv is preserved.
LEMMA VersionStep ==
  ASSUME PlanSyncAssumption, TypeInv, Counted, VersionInv, Next
  PROVE  VersionInv'
<1>1. TypeInv' /\ StepMoves
  BY TypeStep, StepIsAMove
<1>2. /\ version \in Nat /\ version' \in {version, version + 1} /\ stored \subseteq stored'
      /\ version' = version => UNCHANGED server
  BY <1>1, StoreGrows DEF StepMoves
<1>3. ASSUME NEW m \in late'
      PROVE  m.version <= version'
  <2>1. m.version <= version
    BY <1>1 DEF StepMoves, LateMove, VersionInv, VersionTab
  <2>2. m.version \in Nat /\ version' \in Nat
    BY <1>1 DEF TypeInv, ServerType
  <2>. QED
    BY <1>2, <2>1, <2>2
<1>4. ASSUME NEW s \in Tabs, known'[s] = known[s], put'[s] = put[s], chain'[s] = chain[s]
      PROVE  VersionTab(s)'
  BY <1>1, <1>2, <1>4, VersionFrame DEF VersionInv, StepMoves
<1>5. ASSUME NEW s \in Tabs
      PROVE  \A l \in Loaders : load'[s][l].version <= version'
  BY <1>1, <1>2, VersionTypes DEF StepMoves, LoadMove, VersionInv, VersionTab
<1>6. ASSUME NEW t \in Tabs, NEW d \in Docs, WriteNow(t, d), known' = known
      PROVE  \A s \in Tabs : VersionTab(s)'
  <2>1. /\ chain'[t] = Append(chain[t], d) /\ chain[t] \in Seq(Docs)
        /\ put'[t] = IF chain[t] = <<>> THEN Sent(known[t]) ELSE put[t]
        /\ \A s \in Tabs \ {t} : chain'[s] = chain[s] /\ put'[s] = put[s]
    BY <1>6, WriteNowEffect DEF TypeInv, SaverType
  <2>2. chain[t] # <<>> => Head(chain'[t]) = Head(chain[t])
    BY <2>1
  <2>3. Sent(known[t]).stage = "sent" /\ Sent(known[t]).version = known[t]
    BY DEF Sent
  <2>4. VersionTab(t)'
    <3>1. CASE chain[t] = <<>>
      BY <1>1, <1>2, <1>5, <1>6, <2>1, <2>3, <3>1, VersionTypes DEF VersionInv, VersionTab
    <3>2. CASE chain[t] # <<>>
      <4>1. put'[t] = put[t] /\ Head(chain'[t]) = Head(chain[t]) /\ known'[t] = known[t]
        BY <1>6, <2>1, <2>2, <3>2
      <4>. HIDE <2>1, <2>2
      <4>. QED
        BY <1>1, <1>2, <1>5, <4>1, VersionTypes DEF VersionInv, VersionTab
    <3>. QED
      BY <3>1, <3>2
  <2>. QED
    BY <1>4, <1>6, <2>1, <2>4
<1>7. ASSUME NEW t \in Tabs, FlushPlanSave(t), known' = known
      PROVE  \A s \in Tabs : VersionTab(s)'
  BY <1>4, <1>6, <1>7, FlushEffect DEF TypeInv, saver
<1>8. ASSUME UNCHANGED <<known, put, chain>>
      PROVE  \A s \in Tabs : VersionTab(s)'
  BY <1>4, <1>8
<1>9. ASSUME NEW t \in Tabs, NEW o \in {"saved", "conflict", "failed"}, EndOfWrite(t, o),
             put[t].stage # "none", known'[t] <= version', known'[t] \in Nat,
             known' \in [Tabs -> Nat],
             \A s \in Tabs \ {t} : known'[s] = known[s]
      PROVE  \A s \in Tabs : VersionTab(s)'
  <2>1. /\ put'[t] = IF chain'[t] = <<>> THEN NoPut ELSE Sent(known'[t])
        /\ \A s \in Tabs \ {t} : chain'[s] = chain[s] /\ put'[s] = put[s]
    BY <1>9, EndOfWriteEffect DEF TypeInv
  <2>2. put'[t].stage \in {"none", "sent"} /\ put'[t].version \in {0, known'[t]}
    BY <2>1 DEF NoPut, Sent
  <2>3. VersionTab(t)'
    BY <1>1, <1>2, <1>5, <1>9, <2>2 DEF VersionTab
  <2>. QED
    BY <1>4, <1>9, <2>1, <2>3
<1>10. ASSUME NEW t \in Tabs, Pick(t) \/ Leave(t) \/ Timer(t)
       PROVE  \A s \in Tabs : VersionTab(s)'
  BY <1>7, <1>8, <1>10 DEF Pick, Leave, Timer, FlushPlanSave, saver
<1>11. ASSUME NEW t \in Tabs, Reload(t)
       PROVE  \A s \in Tabs : VersionTab(s)'
  <2>1. /\ put'[t].stage = "none" /\ put'[t].version = 0 /\ known'[t] = 0
        /\ \A s \in Tabs \ {t} :
             chain'[s] = chain[s] /\ put'[s] = put[s] /\ known'[s] = known[s]
    BY <1>11, ReloadEffect
  <2>2. VersionTab(t)'
    BY <1>1, <1>2, <1>5, <2>1 DEF VersionTab
  <2>. QED
    BY <1>4, <2>1, <2>2
<1>12. ASSUME NEW t \in Tabs, NEW l \in Loaders, ListAnswered(t, l)
       PROVE  \A s \in Tabs : VersionTab(s)'
  <2>1. /\ known'[t] = load[t][l].version /\ put' = put /\ chain' = chain
        /\ \A s \in Tabs \ {t} : known'[s] = known[s]
        /\ version' = version /\ stored' = stored
    BY <1>12, ListAnsweredEffect DEF ListAnswered, saver, server
  <2>2. VersionTab(t)'
    BY <1>5, <2>1 DEF VersionTab, VersionInv
  <2>. QED
    BY <1>4, <2>1, <2>2
<1>13. ASSUME NEW t \in Tabs, PickLoaded(t)
       PROVE  \A s \in Tabs : VersionTab(s)'
  BY <1>6, <1>8, <1>13, PickedEffect DEF saver, PickLoaded
<1>14. ASSUME NEW t \in Tabs, ServerPut(t)
       PROVE  \A s \in Tabs : VersionTab(s)'
  <2>1. /\ put'[t].version = put[t].version /\ \A s \in Tabs \ {t} : put'[s] = put[s]
        /\ \/ /\ put'[t].stage = "ok" /\ put[t].version = version
              /\ version' = version + 1
              /\ stored' = stored \cup Head(chain[t])
           \/ /\ put'[t].stage = "stale" /\ put[t].version # version /\ UNCHANGED server
    BY <1>14, ServerPutEffect
  <2>2. known' = known /\ chain' = chain
    BY <1>14 DEF ServerPut
  <2>3. /\ put[t].version \in Nat /\ known[t] \in Nat /\ put[t].version <= version
        /\ known[t] <= version
    BY VersionTypes DEF VersionInv, VersionTab
  <2>4. VersionTab(t)'
    <3>1. CASE /\ put'[t].stage = "ok" /\ put[t].version = version
               /\ version' = version + 1 /\ stored' = stored \cup Head(chain[t])
      BY <1>2, <1>5, <2>1, <2>2, <2>3, <3>1 DEF VersionTab
    <3>2. CASE put'[t].stage = "stale" /\ put[t].version # version /\ UNCHANGED server
      BY <1>2, <1>5, <2>1, <2>2, <2>3, <3>2 DEF VersionTab, server
    <3>. QED
      BY <2>1, <3>1, <3>2
  <2>. QED
    BY <1>4, <2>1, <2>2, <2>4
<1>15. ASSUME NEW t \in Tabs, PutAnswered(t)
       PROVE  \A s \in Tabs : VersionTab(s)'
  <2>1. /\ known' \in [Tabs -> Nat] /\ put[t].stage \in {"ok", "stale"}
        /\ known'[t] = IF put[t].stage = "ok" THEN put[t].version + 1 ELSE known[t]
        /\ \A s \in Tabs \ {t} : known'[s] = known[s]
        /\ EndOfWrite(t, IF put[t].stage = "ok" THEN "saved" ELSE "conflict")
        /\ version' = version
    BY <1>15, AnswerEffect DEF server
  <2>2. known'[t] <= version' /\ known'[t] \in Nat
    <3>1. put[t].version \in Nat /\ known[t] \in Nat /\ version \in Nat
          /\ known[t] <= version /\ put[t].version < version
      BY <2>1, VersionTypes DEF VersionInv, VersionTab
    <3>. QED
      BY <2>1, <3>1
  <2>. QED
    BY <1>9, <2>1, <2>2
<1>16. ASSUME NEW t \in Tabs, PutFails(t)
       PROVE  \A s \in Tabs : VersionTab(s)'
  <2>1. /\ put[t].stage # "none" /\ EndOfWrite(t, "failed") /\ known' = known
        /\ version' = version
    BY <1>16, FailEffect DEF server
  <2>2. known'[t] <= version' /\ known'[t] \in Nat /\ known' \in [Tabs -> Nat]
    BY <2>1, VersionTypes DEF VersionInv, VersionTab, TypeInv
  <2>. QED
    BY <1>9, <2>1, <2>2
<1>17. ASSUME NEW t \in Tabs,
              \/ \E to \in {"plan", "catalog"} : StartLoad(t, to)
              \/ Edit(t) \/ PageLoaded(t)
              \/ \E l \in Loaders : ListRead(t, l) \/ BundleRead(t, l) \/ LoadFails(t, l)
       PROVE  \A s \in Tabs : VersionTab(s)'
  BY <1>8, <1>17
     DEF StartLoad, Edit, QueuePlanSave, ListRead, BundleRead, LoadFails, PageLoaded, saver
<1>18. ASSUME LatePut
       PROVE  \A s \in Tabs : VersionTab(s)'
  <2>1. UNCHANGED <<known, put, chain>>
    BY <1>18 DEF LatePut, saver
  <2>. QED
    BY <1>8, <2>1
<1>19. \A s \in Tabs : VersionTab(s)'
  <2>1. ASSUME NEW t \in Tabs, UserStep(t) \/ LoadStep(t) \/ SaveStep(t)
        PROVE  \A s \in Tabs : VersionTab(s)'
    BY <1>10, <1>11, <1>12, <1>13, <1>14, <1>15, <1>16, <1>17, <2>1
       DEF UserStep, LoadStep, SaveStep
  <2>. QED
    BY <1>18, <2>1 DEF Next
<1>. QED
  BY <1>3, <1>19 DEF VersionInv

-----------------------------------------------------------------------------
(* Whose edits a document holds.  The newest edit of a queued document is  *)
(* the tab's own; an edit of somebody else has been stored.                *)

Signed(t, d) == Newest(d) \in d /\ (\A f \in d : f <= Newest(d)) /\ by[Newest(d)] = t

Borrowed(t, d) == \A e \in d : by[e] = t \/ e \in stored

SignedInv ==
  /\ \A t \in Tabs : \A d \in Queue(t) : Signed(t, d)
  /\ \A m \in late : \E t \in Tabs : Signed(t, m.doc)

BorrowedInv ==
  /\ \A t \in Tabs : \A d \in InHand(t) : Borrowed(t, d)
  /\ \A m \in late : Borrowed(by[Newest(m.doc)], m.doc)

\* The newest edit of a document is its greatest.
LEMMA NewestIs ==
  ASSUME NEW d \in SUBSET Nat, NEW n \in d, \A f \in d : f <= n
  PROVE  Newest(d) = n
<1>1. \E e \in d : \A f \in d : f <= e
  OBVIOUS
<1>2. Newest(d) \in d /\ \A f \in d : f <= Newest(d)
  BY <1>1 DEF Newest
<1>. HIDE DEF Newest
<1>3. Newest(d) <= n /\ n <= Newest(d) /\ n \in Nat /\ Newest(d) \in Nat
  BY <1>2
<1>. QED
  BY <1>3

\* An edit made keeps its author.
LEMMA MadeKeepsAuthor ==
  ASSUME PlanSyncAssumption, TypeInv, Counted, HistoryMove, NEW e \in Made
  PROVE  by'[e] = by[e] /\ by[e] \in Tabs /\ e \in Edits /\ e \in Nat
<1>1. e \in Edits /\ by[e] \in Tabs /\ e \in Nat
  BY DEF Made, TypeInv, HistoryType, Edits
<1>2. CASE by' = by
  BY <1>1, <1>2
<1>3. ASSUME NEW t \in Tabs, by' = [by EXCEPT ![NextEdit] = t], Cardinality(Made) < MaxEdits
      PROVE  by'[e] = by[e]
  <2>1. NextEdit # e
    BY <1>3, NextEditIsNew DEF TypeInv
  <2>. QED
    BY <1>1, <1>3, <2>1 DEF TypeInv, HistoryType
<1>. QED
  BY <1>1, <1>2, <1>3 DEF HistoryMove

\* A grown document is signed by its tab, its newest edit beyond all others.
LEMMA GrownIsSigned ==
  ASSUME PlanSyncAssumption, TypeInv, Counted, MadeInv, NEW t \in Tabs, NEW d, Grown(t, d)
  PROVE  /\ Newest(d) = NextEdit /\ Signed(t, d)'
         /\ \A e \in Made : e < Newest(d)
<1>1. PICK c \in Docs : Based(t, c) /\ d = c \cup {NextEdit}
  BY DEF Grown
<1>2. /\ NextEdit \in Edits /\ by'[NextEdit] = t /\ \A e \in Made : e < NextEdit
  BY GrownIsMade
<1>3. d \in SUBSET Nat /\ NextEdit \in d /\ NextEdit \in Nat /\ Made \subseteq Nat
  BY <1>1, <1>2 DEF Docs, Edits, Made
<1>4. c \subseteq Made
  BY <1>1, BasedIsMade
<1>5. \A f \in d : f <= NextEdit
  BY <1>1, <1>2, <1>3, <1>4
<1>6. Newest(d) = NextEdit
  BY <1>3, <1>5, NewestIs
<1>. QED
  BY <1>2, <1>3, <1>5, <1>6 DEF Signed

\* A signed document stays signed.
LEMMA SignedKept ==
  ASSUME PlanSyncAssumption, TypeInv, Counted, HistoryMove,
         NEW t, NEW d, Signed(t, d), d \subseteq Made
  PROVE  Signed(t, d)' /\ by'[Newest(d)] = by[Newest(d)] /\ t \in Tabs /\ Newest(d) \in Made
<1>1. Newest(d) \in Made
  BY DEF Signed
<1>2. by'[Newest(d)] = by[Newest(d)] /\ by[Newest(d)] \in Tabs
  BY <1>1, MadeKeepsAuthor
<1>. QED
  BY <1>1, <1>2 DEF Signed

\* SignedInv is preserved.
LEMMA SignedStep ==
  ASSUME PlanSyncAssumption, TypeInv, Counted, MadeInv, SignedInv, StepMoves
  PROVE  SignedInv'
<1>1. HistoryMove
  BY DEF StepMoves
<1>2. ASSUME NEW t \in Tabs, NEW d \in Queue(t)
      PROVE  Signed(t, d)' /\ Signed(t, d)
  BY <1>1, <1>2, SignedKept DEF MadeInv, InHand, SignedInv
<1>3. ASSUME NEW t \in Tabs, NEW d \in Queue(t)'
      PROVE  Signed(t, d)'
  BY <1>2, <1>3, GrownIsSigned DEF StepMoves, HandsMove
<1>4. ASSUME NEW m \in late'
      PROVE  \E t \in Tabs : Signed(t, m.doc)'
  <2>1. CASE m \in late
    BY <1>1, <2>1, SignedKept DEF SignedInv, MadeInv
  <2>2. ASSUME NEW t \in Tabs, m.doc \in Queue(t)
        PROVE  \E s \in Tabs : Signed(s, m.doc)'
    BY <1>2, <2>2
  <2>. QED
    BY <2>1, <2>2, LateWasQueued
<1>. QED
  BY <1>3, <1>4 DEF SignedInv

\* A borrowed document stays so.
LEMMA BorrowedKept ==
  ASSUME PlanSyncAssumption, TypeInv, Counted, HistoryMove, stored \subseteq stored',
         NEW t, NEW d, Borrowed(t, d), d \subseteq Made
  PROVE  Borrowed(t, d)'
  BY MadeKeepsAuthor DEF Borrowed

\* BorrowedInv is preserved.
LEMMA BorrowedStep ==
  ASSUME PlanSyncAssumption, TypeInv, Counted, MadeInv, SignedInv, BorrowedInv, StepMoves
  PROVE  BorrowedInv'
<1>1. HistoryMove /\ stored \subseteq stored'
  BY StoreGrows DEF StepMoves
<1>2. ASSUME NEW t \in Tabs, NEW c, Based(t, c)
      PROVE  Borrowed(t, c)' /\ c \subseteq Made
  <2>1. Borrowed(t, c)
    BY <1>2 DEF Based, BorrowedInv, MadeInv, Borrowed
  <2>2. c \subseteq Made
    BY <1>2, BasedIsMade
  <2>. QED
    BY <1>1, <2>1, <2>2, BorrowedKept
<1>3. ASSUME NEW t \in Tabs, NEW d, Grown(t, d)
      PROVE  Borrowed(t, d)'
  <2>1. PICK c \in Docs : Based(t, c) /\ d = c \cup {NextEdit}
    BY <1>3 DEF Grown
  <2>2. by'[NextEdit] = t
    BY <1>3, GrownIsMade
  <2>. QED
    BY <1>2, <2>1, <2>2 DEF Borrowed
<1>4. ASSUME NEW t \in Tabs, NEW d \in InHand(t)'
      PROVE  Borrowed(t, d)'
  BY <1>2, <1>3, <1>4 DEF StepMoves, HandsMove
<1>5. ASSUME NEW m \in late'
      PROVE  Borrowed(by[Newest(m.doc)], m.doc)'
  <2>1. CASE m \in late
    <3>1. PICK t \in Tabs : Signed(t, m.doc)
      BY <2>1 DEF SignedInv
    <3>2. m.doc \subseteq Made /\ Borrowed(by[Newest(m.doc)], m.doc)
      BY <2>1 DEF MadeInv, BorrowedInv
    <3>3. by'[Newest(m.doc)] = t /\ by[Newest(m.doc)] = t
      BY <1>1, <3>1, <3>2, SignedKept DEF Signed
    <3>4. Borrowed(t, m.doc)'
      BY <1>1, <3>2, <3>3, BorrowedKept
    <3>. QED
      BY <3>3, <3>4 DEF Borrowed
  <2>2. ASSUME NEW t \in Tabs, m.doc \in Queue(t)
        PROVE  Borrowed(by[Newest(m.doc)], m.doc)'
    <3>1. Signed(t, m.doc) /\ m.doc \subseteq Made /\ Borrowed(t, m.doc)
      BY <2>2 DEF SignedInv, MadeInv, BorrowedInv, InHand
    <3>2. by'[Newest(m.doc)] = t
      BY <1>1, <3>1, SignedKept DEF Signed
    <3>3. Borrowed(t, m.doc)'
      BY <1>1, <3>1, BorrowedKept
    <3>. QED
      BY <3>2, <3>3 DEF Borrowed
  <2>. QED
    BY <2>1, <2>2, LateWasQueued
<1>. QED
  BY <1>4, <1>5 DEF BorrowedInv

-----------------------------------------------------------------------------
(* The order of a tab's documents.                                         *)

OrderedTab(t) ==
  /\ \A i, j \in DOMAIN chain[t] : i < j => Newest(chain[t][i]) < Newest(chain[t][j])
  /\ pending[t] # None =>
       \A i \in DOMAIN chain[t] : Newest(chain[t][i]) < Newest(pending[t])

OrderedInv == \A t \in Tabs : OrderedTab(t)

\* A write of a document newer than the chain keeps the chain in order.
LEMMA OrderedWrite ==
  ASSUME PlanSyncAssumption, TypeInv, NEW t \in Tabs, NEW d \in Docs, WriteNow(t, d),
         OrderedTab(t), \A i \in DOMAIN chain[t] : Newest(chain[t][i]) < Newest(d)
  PROVE  OrderedTab(t)'
<1>1. pending'[t] = None /\ chain'[t] = Append(chain[t], d) /\ chain[t] \in Seq(Docs)
  BY WriteNowEffect DEF TypeInv, SaverType
<1>. DEFINE c == chain[t]
            a == chain'[t]
            n == Len(c)
<1>2. /\ DOMAIN c = 1..n /\ DOMAIN a = 1..(n + 1) /\ n \in Nat
      /\ \A i \in 1..n : a[i] = c[i]
      /\ a[n + 1] = d
  BY <1>1, AppendElements
<1>. HIDE DEF c, a, n
<1>3. /\ \A i, j \in DOMAIN c : i < j => Newest(c[i]) < Newest(c[j])
      /\ \A i \in DOMAIN c : Newest(c[i]) < Newest(d)
  BY DEF OrderedTab, c
<1>4. ASSUME NEW i \in 1..(n + 1), NEW j \in 1..(n + 1), i < j
      PROVE  Newest(a[i]) < Newest(a[j])
  <2>1. i \in 1..n
    BY <1>2, <1>4
  <2>2. CASE j \in 1..n
    BY <1>2, <1>3, <1>4, <2>1, <2>2
  <2>3. CASE j = n + 1
    BY <1>2, <1>3, <2>1, <2>3
  <2>. QED
    BY <1>2, <2>2, <2>3
<1>. QED
  BY <1>1, <1>2, <1>4 DEF OrderedTab, a

\* The end of a write keeps the chain in order.
LEMMA OrderedEnd ==
  ASSUME TypeInv, NEW t \in Tabs, NEW o \in {"saved", "conflict", "failed"},
         known' \in [Tabs -> Nat], put[t].stage # "none", EndOfWrite(t, o), OrderedTab(t)
  PROVE  OrderedTab(t)'
<1>1. /\ chain[t] # <<>> /\ chain[t] \in Seq(Docs) /\ chain'[t] = Tail(chain[t])
      /\ pending'[t] = pending[t]
  BY EndOfWriteEffect DEF TypeInv
<1>. DEFINE c == chain[t]
            r == chain'[t]
            n == Len(c)
<1>2. /\ DOMAIN c = 1..n /\ DOMAIN r = 1..(n - 1) /\ n \in Nat /\ n >= 1
      /\ \A i \in 1..(n - 1) : r[i] = c[i + 1]
  BY <1>1, TailElements
<1>. HIDE DEF c, r, n
<1>3. \A i, j \in DOMAIN c : i < j => Newest(c[i]) < Newest(c[j])
  BY DEF OrderedTab, c
<1>4. ASSUME NEW i \in 1..(n - 1), NEW j \in 1..(n - 1), i < j
      PROVE  Newest(r[i]) < Newest(r[j])
  <2>1. i + 1 \in 1..n /\ j + 1 \in 1..n /\ i + 1 < j + 1
    BY <1>2, <1>4
  <2>. QED
    BY <1>2, <1>3, <2>1
<1>5. ASSUME NEW i \in 1..(n - 1), pending[t] # None
      PROVE  Newest(r[i]) < Newest(pending[t])
  <2>1. i + 1 \in 1..n
    BY <1>2
  <2>. QED
    BY <1>2, <1>5, <2>1 DEF OrderedTab, c
<1>. QED
  BY <1>1, <1>2, <1>4, <1>5 DEF OrderedTab, r

\* A flush keeps the chain in order.
LEMMA OrderedFlush ==
  ASSUME PlanSyncAssumption, TypeInv, NEW t \in Tabs, FlushPlanSave(t), OrderedInv
  PROVE  \A s \in Tabs : OrderedTab(s)'
<1>1. CASE UNCHANGED saver
  BY <1>1 DEF saver, OrderedInv, OrderedTab
<1>2. CASE pending[t] \in Docs /\ pending[t] # None /\ WriteNow(t, pending[t])
  <2>1. OrderedTab(t)'
    BY <1>2, OrderedWrite DEF OrderedInv, OrderedTab
  <2>2. \A s \in Tabs \ {t} : OrderedTab(s)'
    BY <1>2, WriteNowEffect DEF OrderedInv, OrderedTab, TypeInv
  <2>. QED
    BY <2>1, <2>2
<1>. QED
  BY <1>1, <1>2, FlushEffect DEF TypeInv

\* OrderedInv is preserved.
LEMMA OrderedStep ==
  ASSUME PlanSyncAssumption, TypeInv, Counted, MadeInv, SignedInv, OrderedInv, Next
  PROVE  OrderedInv'
<1>. SUFFICES \A s \in Tabs : OrderedTab(s)'
  BY DEF OrderedInv
<1>1. ASSUME pending' = pending, chain' = chain
      PROVE  \A s \in Tabs : OrderedTab(s)'
  BY <1>1 DEF OrderedInv, OrderedTab
<1>2. ASSUME NEW t \in Tabs, NEW i \in DOMAIN chain[t]
      PROVE  Newest(chain[t][i]) \in Made
  BY DEF MadeInv, InHand, Queue, SignedInv, Signed
<1>3. ASSUME NEW t \in Tabs, Edit(t)
      PROVE  \A s \in Tabs : OrderedTab(s)'
  <2>. DEFINE d == shown[t] \cup {NextEdit}
  <2>1. /\ QueuePlanSave(t, d) /\ d \in Docs /\ shown[t] \in Docs /\ shown[t] # None
        /\ by' = [by EXCEPT ![NextEdit] = t] /\ Cardinality(Made) < MaxEdits
    BY <1>3, EditEffect
  <2>2. Grown(t, d)
    BY <2>1 DEF Grown, Based, InHand
  <2>. HIDE DEF d
  <2>3. \A e \in Made : e < Newest(d)
    BY <2>2, GrownIsSigned
  <2>4. /\ pending'[t] = d /\ chain' = chain
        /\ \A s \in Tabs \ {t} : pending'[s] = pending[s]
    BY <2>1, QueueEffect DEF TypeInv
  <2>. QED
    BY <1>2, <2>3, <2>4 DEF OrderedInv, OrderedTab
<1>4. ASSUME NEW t \in Tabs, Pick(t) \/ Leave(t) \/ Timer(t)
      PROVE  \A s \in Tabs : OrderedTab(s)'
  BY <1>1, <1>4, OrderedFlush DEF Pick, Leave, Timer, FlushPlanSave, saver
<1>5. ASSUME NEW t \in Tabs, Reload(t)
      PROVE  \A s \in Tabs : OrderedTab(s)'
  <2>1. /\ pending'[t] = None /\ chain'[t] = <<>>
        /\ \A s \in Tabs \ {t} : pending'[s] = pending[s] /\ chain'[s] = chain[s]
    BY <1>5, ReloadEffect
  <2>. QED
    BY <2>1 DEF OrderedInv, OrderedTab
<1>6. ASSUME NEW t \in Tabs, PickLoaded(t)
      PROVE  \A s \in Tabs : OrderedTab(s)'
  <2>. DEFINE c == load[t]["pick"].doc
              d == c \cup {NextEdit}
  <2>1. CASE UNCHANGED <<saver, by, shown>>
    BY <1>1, <2>1 DEF saver
  <2>2. CASE /\ WriteNow(t, d) /\ d \in Docs
             /\ by' = [by EXCEPT ![NextEdit] = t] /\ Cardinality(Made) < MaxEdits
    <3>1. c \in Docs
      BY PickIsALoader DEF TypeInv, LoadType, Load
    <3>2. Grown(t, d)
      BY <2>2, <3>1, PickIsALoader DEF Grown, Based
    <3>. HIDE DEF d
    <3>3. \A e \in Made : e < Newest(d)
      BY <3>2, GrownIsSigned
    <3>4. OrderedTab(t)'
      BY <1>2, <2>2, <3>3, OrderedWrite DEF OrderedInv
    <3>5. \A s \in Tabs \ {t} : OrderedTab(s)'
      BY <2>2, WriteNowEffect DEF OrderedInv, OrderedTab, TypeInv
    <3>. QED
      BY <3>4, <3>5
  <2>. QED
    BY <1>6, <2>1, <2>2, PickedEffect
<1>7. ASSUME NEW t \in Tabs, NEW o \in {"saved", "conflict", "failed"},
             known' \in [Tabs -> Nat], put[t].stage # "none", EndOfWrite(t, o)
      PROVE  \A s \in Tabs : OrderedTab(s)'
  <2>1. OrderedTab(t)'
    BY <1>7, OrderedEnd DEF OrderedInv
  <2>2. \A s \in Tabs \ {t} : chain'[s] = chain[s] /\ pending'[s] = pending[s]
    BY <1>7, EndOfWriteEffect DEF TypeInv
  <2>. QED
    BY <2>1, <2>2 DEF OrderedInv, OrderedTab
<1>8. ASSUME NEW t \in Tabs, PutAnswered(t)
      PROVE  \A s \in Tabs : OrderedTab(s)'
  BY <1>7, <1>8, AnswerEffect
<1>9. ASSUME NEW t \in Tabs, PutFails(t)
      PROVE  \A s \in Tabs : OrderedTab(s)'
  BY <1>7, <1>9, FailEffect DEF TypeInv
<1>10. ASSUME NEW t \in Tabs,
              \/ \E to \in {"plan", "catalog"} : StartLoad(t, to)
              \/ PageLoaded(t) \/ ServerPut(t)
              \/ \E l \in Loaders : ListRead(t, l) \/ ListAnswered(t, l)
                                    \/ BundleRead(t, l) \/ LoadFails(t, l)
       PROVE  \A s \in Tabs : OrderedTab(s)'
  <2>1. pending' = pending /\ chain' = chain
    BY <1>10
       DEF StartLoad, ListRead, ListAnswered, BundleRead, LoadFails, PageLoaded, ServerPut, saver
  <2>. QED
    BY <1>1, <2>1
<1>11. ASSUME LatePut
       PROVE  \A s \in Tabs : OrderedTab(s)'
  <2>1. pending' = pending /\ chain' = chain
    BY <1>11 DEF LatePut, saver
  <2>. QED
    BY <1>1, <2>1
<1>12. ASSUME NEW t \in Tabs, UserStep(t) \/ LoadStep(t) \/ SaveStep(t)
       PROVE  \A s \in Tabs : OrderedTab(s)'
  BY <1>3, <1>4, <1>5, <1>6, <1>8, <1>9, <1>10, <1>12 DEF UserStep, LoadStep, SaveStep
<1>. QED
  BY <1>11, <1>12 DEF Next

-----------------------------------------------------------------------------
(* What is still to be written is newer than what the tab has stored.      *)

Ahead(t, d) == \A e \in stored : by[e] = t => e < Newest(d)

(* The documents of the queue but the one whose PUT was accepted.          *)
Waiting(t) ==
  {chain[t][i] : i \in {j \in DOMAIN chain[t] : j > 1 \/ put[t].stage # "ok"}}
    \cup ({pending[t]} \ {None})

AheadInv == \A t \in Tabs : \A d \in Waiting(t) : Ahead(t, d)

LateInv ==
  \A m \in late :
    /\ m.version = version => Ahead(by[Newest(m.doc)], m.doc)
    /\ \A t \in Tabs : by[Newest(m.doc)] = t =>
         \A d \in Queue(t) : Newest(m.doc) < Newest(d)

WaitingMove == \A s \in Tabs : \A d \in Waiting(s)' : d \in Waiting(s) \/ Grown(s, d)

\* A tab whose saver is untouched waits for the same documents.
LEMMA WaitingSame ==
  ASSUME NEW s \in Tabs, pending'[s] = pending[s], chain'[s] = chain[s], put'[s] = put[s]
  PROVE  Waiting(s)' = Waiting(s)
  BY DEF Waiting

\* What waits to be written is queued.
LEMMA WaitingIsQueued ==
  ASSUME NEW s \in Tabs
  PROVE  Waiting(s) \subseteq Queue(s)
  BY DEF Waiting, Queue

\* What is behind the head of the chain is newer than the head.
LEMMA BehindHead ==
  ASSUME TypeInv, OrderedInv, NEW t \in Tabs, chain[t] # <<>>
  PROVE  /\ \A i \in DOMAIN chain[t] : i > 1 => Newest(Head(chain[t])) < Newest(chain[t][i])
         /\ pending[t] # None => Newest(Head(chain[t])) < Newest(pending[t])
<1>1. Head(chain[t]) = chain[t][1] /\ 1 \in DOMAIN chain[t]
  BY HeadIsQueued DEF TypeInv
<1>2. DOMAIN chain[t] \subseteq Nat
  BY DEF TypeInv, SaverType
<1>. QED
  BY <1>1, <1>2 DEF OrderedInv, OrderedTab

\* A write adds its document to those waiting.
LEMMA WaitingWrite ==
  ASSUME PlanSyncAssumption, TypeInv, NEW t \in Tabs, NEW d \in Docs, WriteNow(t, d)
  PROVE  /\ Waiting(t)' \subseteq Waiting(t) \cup {d}
         /\ \A s \in Tabs \ {t} : Waiting(s)' = Waiting(s)
<1>1. /\ pending'[t] = None /\ chain'[t] = Append(chain[t], d) /\ chain[t] \in Seq(Docs)
      /\ put'[t] = IF chain[t] = <<>> THEN Sent(known[t]) ELSE put[t]
      /\ \A s \in Tabs \ {t} :
           pending'[s] = pending[s] /\ chain'[s] = chain[s] /\ put'[s] = put[s]
  BY WriteNowEffect DEF TypeInv, SaverType
<1>. DEFINE c == chain[t]
            a == chain'[t]
            n == Len(c)
<1>2. /\ DOMAIN c = 1..n /\ DOMAIN a = 1..(n + 1) /\ n \in Nat
      /\ \A i \in 1..n : a[i] = c[i]
      /\ a[n + 1] = d
  BY <1>1, AppendElements
<1>3. n >= 1 => put'[t] = put[t]
  BY <1>1
<1>. HIDE DEF c, a, n
<1>4. ASSUME NEW i \in 1..(n + 1), i > 1 \/ put'[t].stage # "ok"
      PROVE  a[i] = d \/ a[i] \in Waiting(t)
  <2>1. CASE i \in 1..n
    <3>1. put'[t] = put[t] /\ a[i] = c[i] /\ i \in DOMAIN c
      BY <1>2, <1>3, <2>1
    <3>. QED
      BY <1>4, <3>1 DEF Waiting, c
  <2>2. CASE i = n + 1
    BY <1>2, <2>2
  <2>. QED
    BY <1>2, <2>1, <2>2
<1>5. Waiting(t)' \subseteq Waiting(t) \cup {d}
  BY <1>1, <1>2, <1>4 DEF Waiting, a
<1>. QED
  BY <1>1, <1>5, WaitingSame

\* After a write only what was behind its head waits.
LEMMA WaitingEnd ==
  ASSUME TypeInv, NEW t \in Tabs, NEW o \in {"saved", "conflict", "failed"},
         known' \in [Tabs -> Nat], put[t].stage # "none", EndOfWrite(t, o)
  PROVE  /\ Waiting(t)' \subseteq Waiting(t)
         /\ \A d \in Queue(t)' :
              \/ \E i \in DOMAIN chain[t] : i > 1 /\ d = chain[t][i]
              \/ pending[t] # None /\ d = pending[t]
         /\ \A s \in Tabs \ {t} : Waiting(s)' = Waiting(s)
<1>1. /\ chain[t] # <<>> /\ chain[t] \in Seq(Docs) /\ chain'[t] = Tail(chain[t])
      /\ pending' = pending
      /\ \A s \in Tabs \ {t} : chain'[s] = chain[s] /\ put'[s] = put[s]
  BY EndOfWriteEffect DEF TypeInv
<1>. DEFINE c == chain[t]
            r == chain'[t]
            n == Len(c)
<1>2. /\ DOMAIN c = 1..n /\ DOMAIN r = 1..(n - 1) /\ n \in Nat /\ n >= 1
      /\ \A i \in 1..(n - 1) : r[i] = c[i + 1]
  BY <1>1, TailElements
<1>. HIDE DEF c, r, n
<1>3. \A i \in 1..(n - 1) : i + 1 \in 1..n /\ i + 1 > 1
  BY <1>2
<1>4. \A i \in DOMAIN r : \E j \in DOMAIN c : j > 1 /\ r[i] = c[j]
  BY <1>2, <1>3
<1>5. Waiting(t)' \subseteq Waiting(t)
  BY <1>1, <1>4 DEF Waiting, c, r
<1>6. \A d \in Queue(t)' :
        \/ \E i \in DOMAIN chain[t] : i > 1 /\ d = chain[t][i]
        \/ pending[t] # None /\ d = pending[t]
  BY <1>1, <1>4 DEF Queue, c, r
<1>. QED
  BY <1>1, <1>5, <1>6, WaitingSame

\* A flush adds nothing to those waiting.
LEMMA WaitingFlush ==
  ASSUME PlanSyncAssumption, TypeInv, NEW t \in Tabs, FlushPlanSave(t)
  PROVE  \A s \in Tabs : Waiting(s)' \subseteq Waiting(s)
<1>1. CASE UNCHANGED saver
  BY <1>1, WaitingSame DEF saver
<1>2. CASE pending[t] \in Docs /\ pending[t] # None /\ WriteNow(t, pending[t])
  <2>1. pending[t] \in Waiting(t)
    BY <1>2 DEF Waiting
  <2>. QED
    BY <1>2, <2>1, WaitingWrite
<1>. QED
  BY <1>1, <1>2, FlushEffect DEF TypeInv

\* In any step what waits was waiting or is grown.
LEMMA WaitingStep ==
  ASSUME PlanSyncAssumption, TypeInv, Counted, Next
  PROVE  WaitingMove
<1>1. ASSUME \A s \in Tabs : Waiting(s)' \subseteq Waiting(s)
      PROVE  WaitingMove
  BY <1>1 DEF WaitingMove
<1>2. ASSUME UNCHANGED saver
      PROVE  WaitingMove
  BY <1>1, <1>2, WaitingSame DEF saver
<1>3. ASSUME NEW t \in Tabs, Edit(t)
      PROVE  WaitingMove
  <2>. DEFINE d == shown[t] \cup {NextEdit}
  <2>1. /\ QueuePlanSave(t, d) /\ d \in Docs /\ shown[t] \in Docs /\ shown[t] # None
        /\ by' = [by EXCEPT ![NextEdit] = t] /\ Cardinality(Made) < MaxEdits
    BY <1>3, EditEffect
  <2>2. Grown(t, d)
    BY <2>1 DEF Grown, Based, InHand
  <2>. HIDE DEF d
  <2>3. /\ pending'[t] = d /\ chain' = chain /\ put' = put
        /\ \A s \in Tabs \ {t} : pending'[s] = pending[s]
    BY <2>1, QueueEffect DEF TypeInv
  <2>4. Waiting(t)' \subseteq Waiting(t) \cup {d}
    BY <2>3 DEF Waiting
  <2>. QED
    BY <2>2, <2>3, <2>4, WaitingSame DEF WaitingMove
<1>4. ASSUME NEW t \in Tabs, Pick(t) \/ Leave(t) \/ Timer(t)
      PROVE  WaitingMove
  BY <1>1, <1>2, <1>4, WaitingFlush DEF Pick, Leave, Timer, FlushPlanSave
<1>5. ASSUME NEW t \in Tabs, Reload(t)
      PROVE  WaitingMove
  <2>1. /\ pending'[t] = None /\ chain'[t] = <<>>
        /\ \A s \in Tabs \ {t} :
             pending'[s] = pending[s] /\ chain'[s] = chain[s] /\ put'[s] = put[s]
    BY <1>5, ReloadEffect
  <2>2. Waiting(t)' = {}
    BY <2>1 DEF Waiting
  <2>. QED
    BY <1>1, <2>1, <2>2, WaitingSame
<1>6. ASSUME NEW t \in Tabs, PickLoaded(t)
      PROVE  WaitingMove
  <2>. DEFINE c == load[t]["pick"].doc
              d == c \cup {NextEdit}
  <2>1. CASE UNCHANGED <<saver, by, shown>>
    BY <1>2, <2>1
  <2>2. CASE /\ WriteNow(t, d) /\ d \in Docs
             /\ by' = [by EXCEPT ![NextEdit] = t] /\ Cardinality(Made) < MaxEdits
    <3>1. c \in Docs
      BY PickIsALoader DEF TypeInv, LoadType, Load
    <3>2. Grown(t, d)
      BY <2>2, <3>1, PickIsALoader DEF Grown, Based
    <3>. HIDE DEF d
    <3>3. /\ Waiting(t)' \subseteq Waiting(t) \cup {d}
          /\ \A s \in Tabs \ {t} : Waiting(s)' = Waiting(s)
      BY <2>2, WaitingWrite
    <3>. QED
      BY <3>2, <3>3 DEF WaitingMove
  <2>. QED
    BY <1>6, <2>1, <2>2, PickedEffect
<1>7. ASSUME NEW t \in Tabs, NEW o \in {"saved", "conflict", "failed"},
             known' \in [Tabs -> Nat], put[t].stage # "none", EndOfWrite(t, o)
      PROVE  WaitingMove
  BY <1>1, <1>7, WaitingEnd
<1>8. ASSUME NEW t \in Tabs, PutAnswered(t)
      PROVE  WaitingMove
  BY <1>7, <1>8, AnswerEffect
<1>9. ASSUME NEW t \in Tabs, PutFails(t)
      PROVE  WaitingMove
  BY <1>7, <1>9, FailEffect DEF TypeInv
<1>10. ASSUME NEW t \in Tabs, ServerPut(t)
       PROVE  WaitingMove
  <2>1. put[t].stage = "sent" /\ \A s \in Tabs \ {t} : put'[s] = put[s]
    BY <1>10, ServerPutEffect
  <2>2. pending' = pending /\ chain' = chain
    BY <1>10 DEF ServerPut
  <2>3. Waiting(t)' \subseteq Waiting(t)
    BY <2>1, <2>2 DEF Waiting
  <2>. QED
    BY <1>1, <2>1, <2>2, <2>3, WaitingSame
<1>11. ASSUME NEW t \in Tabs,
              \/ \E to \in {"plan", "catalog"} : StartLoad(t, to)
              \/ PageLoaded(t)
              \/ \E l \in Loaders : ListRead(t, l) \/ ListAnswered(t, l)
                                    \/ BundleRead(t, l) \/ LoadFails(t, l)
       PROVE  WaitingMove
  <2>1. UNCHANGED saver
    BY <1>11 DEF StartLoad, ListRead, ListAnswered, BundleRead, LoadFails, PageLoaded
  <2>. QED
    BY <1>2, <2>1
<1>12. ASSUME LatePut
       PROVE  WaitingMove
  <2>1. UNCHANGED saver
    BY <1>12 DEF LatePut
  <2>. QED
    BY <1>2, <2>1
<1>13. ASSUME NEW t \in Tabs, UserStep(t) \/ LoadStep(t) \/ SaveStep(t)
       PROVE  WaitingMove
  BY <1>3, <1>4, <1>5, <1>6, <1>8, <1>9, <1>10, <1>11, <1>13
     DEF UserStep, LoadStep, SaveStep
<1>. QED
  BY <1>12, <1>13 DEF Next

\* What waits after the head is stored was behind it.
LEMMA WaitingBehindHead ==
  ASSUME TypeInv, OrderedInv, NEW t \in Tabs, StoresHead(t)
  PROVE  \A d \in Waiting(t)' : Newest(Head(chain[t])) < Newest(d)
<1>1. /\ chain[t] # <<>> /\ put'[t].stage = "ok" /\ pending' = pending /\ chain' = chain
  BY DEF StoresHead
<1>. QED
  BY <1>1, BehindHead DEF Waiting

(* What a step adds to the store of one author is not past the document it *)
(* stores.                                                                 *)
LEMMA StoredIsSigned ==
  ASSUME TypeInv, MadeInv, SignedInv, BorrowedInv, ServerMove, NEW e \in stored' \ stored
  PROVE  \/ \E t \in Tabs : StoresHead(t) /\ by[e] = t /\ e <= Newest(Head(chain[t]))
         \/ \E m \in late : /\ StoresLate(m) /\ by[e] = by[Newest(m.doc)]
                            /\ e <= Newest(m.doc)
<1>1. stored' = stored \cup doc' /\ e \in doc' /\ e \notin stored
  BY DEF ServerMove, server
<1>2. ASSUME NEW t \in Tabs, StoresHead(t)
      PROVE  by[e] = t /\ e <= Newest(Head(chain[t]))
  <2>1. Head(chain[t]) \in Queue(t) /\ doc' = Head(chain[t])
    BY <1>2, HeadIsQueued DEF StoresHead, TypeInv
  <2>2. Signed(t, Head(chain[t])) /\ Borrowed(t, Head(chain[t]))
    BY <2>1 DEF SignedInv, BorrowedInv, InHand
  <2>. QED
    BY <1>1, <2>1, <2>2 DEF Signed, Borrowed
<1>3. ASSUME NEW m \in late, StoresLate(m)
      PROVE  by[e] = by[Newest(m.doc)] /\ e <= Newest(m.doc)
  <2>1. doc' = m.doc /\ Borrowed(by[Newest(m.doc)], m.doc)
    BY <1>3 DEF StoresLate, BorrowedInv
  <2>2. PICK t \in Tabs : Signed(t, m.doc)
    BY <1>3 DEF SignedInv
  <2>. QED
    BY <1>1, <2>1, <2>2 DEF Signed, Borrowed
<1>. QED
  BY <1>1, <1>2, <1>3 DEF ServerMove, server

\* AheadInv is preserved.
LEMMA AheadStep ==
  ASSUME PlanSyncAssumption, TypeInv, Counted, MadeInv, SignedInv, BorrowedInv, OrderedInv,
         AheadInv, LateInv, Next
  PROVE  AheadInv'
<1>1. StepMoves /\ WaitingMove /\ MadeInv'
  BY StepIsAMove, WaitingStep, MadeStep
<1>2. HistoryMove /\ ServerMove
  BY <1>1 DEF StepMoves
<1>. SUFFICES ASSUME NEW s \in Tabs, NEW d \in Waiting(s)',
                     NEW e \in stored', by'[e] = s
              PROVE  e < Newest(d)
  BY DEF AheadInv, Ahead
<1>3. CASE Grown(s, d)
  <2>1. stored' \subseteq Made
    <3>1. UNCHANGED server \/ by' = by
      BY <1>2 DEF ServerMove
    <3>2. CASE by' = by
      BY <1>1, <3>2 DEF MadeInv, Made
    <3>3. CASE UNCHANGED server
      BY <3>3 DEF MadeInv, server
    <3>. QED
      BY <3>1, <3>2, <3>3
  <2>. QED
    BY <1>3, <2>1, GrownIsSigned
<1>4. CASE d \in Waiting(s)
  <2>0. d \in Queue(s)
    BY <1>4, WaitingIsQueued
  <2>1. CASE e \in stored
    <3>1. by[e] = s
      BY <1>2, <2>1, MadeKeepsAuthor DEF MadeInv
    <3>. QED
      BY <1>4, <2>1, <3>1 DEF AheadInv, Ahead
  <2>2. CASE e \notin stored
    <3>1. by' = by
      BY <1>2, <2>2 DEF ServerMove, server
    <3>2. e \in Nat /\ Newest(d) \in Nat
      <4>1. e \in Made'
        BY <1>1 DEF MadeInv
      <4>2. Newest(d) \in Made
        BY <2>0 DEF SignedInv, Signed, MadeInv, InHand
      <4>. QED
        BY <4>1, <4>2 DEF Made, Edits
    <3>3. ASSUME NEW t \in Tabs, StoresHead(t), by[e] = t, e <= Newest(Head(chain[t]))
          PROVE  e < Newest(d)
      <4>1. t = s
        BY <3>1, <3>3
      <4>2. Newest(Head(chain[t])) < Newest(d)
        BY <3>3, <4>1, WaitingBehindHead
      <4>3. Newest(Head(chain[t])) \in Nat
        <5>1. Head(chain[t]) \in Queue(t)
          BY <3>3, HeadIsQueued DEF StoresHead, TypeInv
        <5>2. Newest(Head(chain[t])) \in Made
          BY <5>1 DEF SignedInv, Signed, MadeInv, InHand
        <5>. QED
          BY <5>2 DEF Made, Edits
      <4>. QED
        BY <3>2, <3>3, <4>2, <4>3
    <3>4. ASSUME NEW m \in late, StoresLate(m), by[e] = by[Newest(m.doc)], e <= Newest(m.doc)
          PROVE  e < Newest(d)
      <4>1. Newest(m.doc) < Newest(d)
        BY <2>0, <3>1, <3>4 DEF LateInv
      <4>2. Newest(m.doc) \in Nat
        <5>1. Newest(m.doc) \in Made
          BY <3>4 DEF SignedInv, Signed, MadeInv
        <5>. QED
          BY <5>1 DEF Made, Edits
      <4>. QED
        BY <3>2, <3>4, <4>1, <4>2
    <3>. QED
      BY <1>2, <2>2, <3>3, <3>4, StoredIsSigned
  <2>. QED
    BY <2>1, <2>2
<1>. QED
  BY <1>1, <1>3, <1>4 DEF WaitingMove

\* A request newly left on the way is older than all its tab still queues.
LEMMA LateIsNew ==
  ASSUME PlanSyncAssumption, TypeInv, OrderedInv, SignedInv, StepMoves, NEW m \in late', m \notin late
  PROVE  \E t \in Tabs :
           /\ m.doc \in Waiting(t) /\ m.doc \in Queue(t)
           /\ \A d \in Queue(t)' : Newest(m.doc) < Newest(d)
           /\ UNCHANGED server /\ by' = by
<1>1. PICK t \in Tabs :
         \/ /\ put[t].stage = "sent" /\ chain[t] # <<>> /\ m.doc = Head(chain[t])
            /\ Reload(t) \/ PutFails(t)
         \/ chain[t] = <<>> /\ pending[t] # None /\ m.doc = pending[t] /\ Reload(t)
  BY DEF StepMoves, LateMove
<1>2. UNCHANGED server /\ by' = by
  BY <1>1, FailEffect DEF Reload
<1>3. m.doc \in Waiting(t)
  <2>1. CASE put[t].stage = "sent" /\ chain[t] # <<>> /\ m.doc = Head(chain[t])
    BY <2>1, HeadIsQueued DEF Waiting, TypeInv
  <2>2. CASE pending[t] # None /\ m.doc = pending[t]
    BY <2>2 DEF Waiting
  <2>. QED
    BY <1>1, <2>1, <2>2
<1>4. m.doc \in Queue(t)
  BY <1>3, WaitingIsQueued
<1>5. CASE Reload(t)
  <2>1. pending'[t] = None /\ chain'[t] = <<>>
    BY <1>5, ReloadEffect
  <2>2. Queue(t)' = {}
    BY <2>1 DEF Queue
  <2>. QED
    BY <1>2, <1>3, <1>4, <2>2
<1>6. CASE put[t].stage = "sent" /\ chain[t] # <<>> /\ m.doc = Head(chain[t]) /\ PutFails(t)
  <2>1. EndOfWrite(t, "failed") /\ known' \in [Tabs -> Nat] /\ put[t].stage # "none"
    BY <1>6, FailEffect DEF TypeInv
  <2>2. \A d \in Queue(t)' :
          \/ \E i \in DOMAIN chain[t] : i > 1 /\ d = chain[t][i]
          \/ pending[t] # None /\ d = pending[t]
    BY <2>1, WaitingEnd
  <2>3. \A d \in Queue(t)' : Newest(m.doc) < Newest(d)
    BY <1>6, <2>2, BehindHead
  <2>. QED
    BY <1>2, <1>3, <1>4, <2>3
<1>. QED
  BY <1>1, <1>5, <1>6

\* LateInv is preserved.
LEMMA LateStep ==
  ASSUME PlanSyncAssumption, TypeInv, Counted, MadeInv, VersionInv, SignedInv, OrderedInv,
         AheadInv, LateInv, Next
  PROVE  LateInv'
<1>1. StepMoves /\ HistoryMove /\ ServerMove
  BY StepIsAMove DEF StepMoves
<1>2. ASSUME NEW m \in late
      PROVE  /\ by'[Newest(m.doc)] = by[Newest(m.doc)]
             /\ Newest(m.doc) \in Made /\ m.doc \subseteq Made
  <2>1. PICK t \in Tabs : Signed(t, m.doc)
    BY DEF SignedInv
  <2>2. m.doc \subseteq Made
    BY DEF MadeInv
  <2>. QED
    BY <1>1, <2>1, <2>2, SignedKept
<1>3. ASSUME NEW m \in late', m.version = version'
      PROVE  Ahead(by[Newest(m.doc)], m.doc)'
  <2>1. CASE m \in late
    <3>1. m.version <= version /\ version \in Nat /\ version' \in {version, version + 1}
      BY <1>1, <2>1, StoreGrows DEF VersionInv
    <3>2. version' = version
      BY <1>3, <3>1
    <3>3. UNCHANGED server
      BY <1>1, <3>2, StoreGrows
    <3>4. Ahead(by[Newest(m.doc)], m.doc) /\ stored' = stored
      BY <1>3, <2>1, <3>2, <3>3 DEF LateInv, server
    <3>5. \A e \in stored : by'[e] = by[e]
      BY <1>1, MadeKeepsAuthor DEF MadeInv
    <3>. QED
      BY <1>2, <2>1, <3>4, <3>5 DEF Ahead
  <2>2. CASE m \notin late
    <3>1. PICK t \in Tabs : /\ m.doc \in Waiting(t) /\ m.doc \in Queue(t)
                            /\ UNCHANGED server /\ by' = by
      BY <1>1, <2>2, LateIsNew
    <3>2. by[Newest(m.doc)] = t /\ Ahead(t, m.doc)
      BY <3>1 DEF SignedInv, Signed, AheadInv
    <3>. QED
      BY <3>1, <3>2 DEF Ahead, server
  <2>. QED
    BY <2>1, <2>2
<1>4. ASSUME NEW m \in late', NEW t \in Tabs, by'[Newest(m.doc)] = t, NEW d \in Queue(t)'
      PROVE  Newest(m.doc) < Newest(d)
  <2>1. CASE m \in late
    <3>1. CASE d \in Queue(t)
      BY <1>2, <1>4, <2>1, <3>1 DEF LateInv
    <3>2. CASE Grown(t, d)
      BY <1>2, <2>1, <3>2, GrownIsSigned
    <3>. QED
      BY <1>1, <3>1, <3>2 DEF StepMoves, HandsMove
  <2>2. CASE m \notin late
    <3>1. PICK s \in Tabs : /\ m.doc \in Queue(s) /\ by' = by
                            /\ \A c \in Queue(s)' : Newest(m.doc) < Newest(c)
      BY <1>1, <2>2, LateIsNew
    <3>2. s = t
      BY <1>4, <3>1 DEF SignedInv, Signed
    <3>. QED
      BY <3>1, <3>2
  <2>. QED
    BY <2>1, <2>2
<1>. QED
  BY <1>3, <1>4 DEF LateInv, Ahead

OrderInv == MadeInv /\ VersionInv /\ SignedInv /\ BorrowedInv /\ OrderedInv /\ AheadInv /\ LateInv

\* The order invariants together are preserved.
LEMMA OrderStep ==
  ASSUME PlanSyncAssumption, TypeInv, Counted, OrderInv, Next
  PROVE  OrderInv'
<1>1. StepMoves
  BY StepIsAMove
<1>. QED
  BY <1>1, MadeStep, VersionStep, SignedStep, BorrowedStep, OrderedStep, AheadStep, LateStep
     DEF OrderInv

\* What is stored is newer than all its author stored before.
LEMMA StoredInOrder ==
  ASSUME PlanSyncAssumption, TypeInv, Counted, OrderInv, Next, version' # version
  PROVE  \A e \in stored : by[e] = by[Newest(doc')] => e < Newest(doc')
<1>1. ServerMove
  BY StepIsAMove DEF StepMoves
<1>2. ASSUME NEW t \in Tabs, StoresHead(t)
      PROVE  \A e \in stored : by[e] = by[Newest(doc')] => e < Newest(doc')
  <2>1. /\ Head(chain[t]) \in Queue(t) /\ Head(chain[t]) = chain[t][1] /\ 1 \in DOMAIN chain[t]
        /\ doc' = Head(chain[t]) /\ put[t].stage = "sent"
    BY <1>2, HeadIsQueued DEF StoresHead, TypeInv
  <2>2. doc' \in Waiting(t)
    BY <2>1 DEF Waiting
  <2>3. by[Newest(doc')] = t
    BY <2>1 DEF OrderInv, SignedInv, Signed
  <2>. QED
    BY <2>2, <2>3 DEF OrderInv, AheadInv, Ahead
<1>3. ASSUME NEW m \in late, StoresLate(m)
      PROVE  \A e \in stored : by[e] = by[Newest(doc')] => e < Newest(doc')
  BY <1>3 DEF StoresLate, OrderInv, LateInv, Ahead
<1>. QED
  BY <1>1, <1>2, <1>3 DEF ServerMove, server

-----------------------------------------------------------------------------
(* A tab whose user waits for its saves.                                   *)

(* The saver of a busy tab says so.                                        *)
BusyInv == \A t \in Tabs : Busy(t) => status[t] \in {"pending", "saving"}

(* A page load runs alone, a pick after the writes it awaits.              *)
PageLoadInv(t) ==
  load[t]["page"].stage # "idle" =>
    shown[t] = None /\ pending[t] = None /\ chain[t] = <<>> /\ load[t]["pick"].stage = "idle"

PickInv(t) ==
  load[t]["pick"].stage # "idle" =>
    /\ pending[t] = None /\ page[t] # "plan"
    /\ load[t]["pick"].gone => shown[t] = None
    /\ ~ load[t]["pick"].gone => page[t] = "catalog"
    /\ IF load[t]["pick"].stage = "flush" THEN load[t]["pick"].wait = Len(chain[t])
       ELSE chain[t] = <<>>

Nested(t)    == \A i, j \in DOMAIN chain[t] : i < j => chain[t][i] \subseteq chain[t][j]
Covers(t, d) == \A i \in DOMAIN chain[t] : chain[t][i] \subseteq d

(* The board shows what is pending, and contains what is being written.    *)
BoardInv(t) ==
  /\ pending[t] # None => page[t] = "plan" /\ pending[t] = shown[t]
  /\ page[t] = "away" => shown[t] = None
  /\ page[t] = "plan" /\ shown[t] # None => Covers(t, shown[t])
  /\ Nested(t)
  /\ chain[t] # <<>> => put[t].version = known[t]

SavedInv(t) ==
  /\ status[t] = "saved" /\ shown[t] # None => shown[t] \subseteq stored
  /\ pending[t] = None /\ chain[t] # <<>> /\ shown[t] # None =>
       shown[t] = chain[t][Len(chain[t])]

TabInv(t)  == PageLoadInv(t) /\ PickInv(t) /\ BoardInv(t) /\ SavedInv(t)
PatientInv == BusyInv /\ \A t \in Tabs \ hurried : TabInv(t)

\* A write of a document that covers the chain keeps the chain nested.
LEMMA NestedWrite ==
  ASSUME PlanSyncAssumption, TypeInv, NEW t \in Tabs, NEW d \in Docs, WriteNow(t, d),
         Nested(t), Covers(t, d)
  PROVE  Nested(t)' /\ Covers(t, d)' /\ chain'[t][Len(chain'[t])] = d /\ chain'[t] # <<>>
<1>1. chain'[t] = Append(chain[t], d) /\ chain[t] \in Seq(Docs) /\ chain'[t] # <<>>
  BY WriteNowEffect DEF TypeInv, SaverType
<1>. DEFINE c == chain[t]
            a == chain'[t]
            n == Len(c)
<1>2. /\ DOMAIN c = 1..n /\ DOMAIN a = 1..(n + 1) /\ n \in Nat /\ Len(a) = n + 1
      /\ \A i \in 1..n : a[i] = c[i]
      /\ a[n + 1] = d
  BY <1>1, AppendElements
<1>. HIDE DEF c, a, n
<1>3. /\ \A i, j \in DOMAIN c : i < j => c[i] \subseteq c[j]
      /\ \A i \in DOMAIN c : c[i] \subseteq d
  BY DEF Nested, Covers, c
<1>4. ASSUME NEW i \in 1..(n + 1)
      PROVE  a[i] \subseteq d
  BY <1>2, <1>3
<1>5. ASSUME NEW i \in 1..(n + 1), NEW j \in 1..(n + 1), i < j
      PROVE  a[i] \subseteq a[j]
  <2>1. i \in 1..n
    BY <1>2, <1>5
  <2>2. CASE j \in 1..n
    BY <1>2, <1>3, <1>5, <2>1, <2>2
  <2>3. CASE j = n + 1
    BY <1>2, <1>3, <2>1, <2>3
  <2>. QED
    BY <1>2, <2>2, <2>3
<1>6. Nested(t)' /\ Covers(t, d)'
  BY <1>2, <1>4, <1>5 DEF Nested, Covers, a
<1>. QED
  BY <1>1, <1>2, <1>6 DEF a

\* The end of a write keeps the chain nested.
LEMMA NestedEnd ==
  ASSUME TypeInv, NEW t \in Tabs, NEW o \in {"saved", "conflict", "failed"},
         known' \in [Tabs -> Nat], put[t].stage # "none", EndOfWrite(t, o), Nested(t)
  PROVE  /\ Nested(t)'
         /\ \A d : Covers(t, d) => Covers(t, d)'
         /\ Len(chain'[t]) = Len(chain[t]) - 1 /\ Len(chain[t]) \in Nat \ {0}
         /\ chain'[t] = <<>> <=> Len(chain[t]) = 1
         /\ chain'[t] # <<>> => chain'[t][Len(chain'[t])] = chain[t][Len(chain[t])]
         /\ chain'[t] = <<>> => chain[t][Len(chain[t])] = Head(chain[t])
<1>1. chain[t] # <<>> /\ chain[t] \in Seq(Docs) /\ chain'[t] = Tail(chain[t])
  BY EndOfWriteEffect DEF TypeInv
<1>. DEFINE c == chain[t]
            r == chain'[t]
            n == Len(c)
<1>2. /\ DOMAIN c = 1..n /\ DOMAIN r = 1..(n - 1) /\ n \in Nat /\ n >= 1
      /\ \A i \in 1..(n - 1) : r[i] = c[i + 1]
      /\ Head(c) = c[1] /\ Len(r) = n - 1 /\ r \in Seq(Docs)
  BY <1>1, TailElements
<1>. HIDE DEF c, r, n
<1>3. r = <<>> <=> n = 1
  <2>1. r = <<>> <=> Len(r) = 0
    BY <1>2, EmptySeq
  <2>. QED
    BY <1>2, <2>1
<1>4. \A i, j \in DOMAIN c : i < j => c[i] \subseteq c[j]
  BY DEF Nested, c
<1>5. ASSUME NEW i \in 1..(n - 1), NEW j \in 1..(n - 1), i < j
      PROVE  r[i] \subseteq r[j]
  <2>1. i + 1 \in 1..n /\ j + 1 \in 1..n /\ i + 1 < j + 1
    BY <1>2, <1>5
  <2>2. c[i + 1] \subseteq c[j + 1]
    <3>1. i + 1 \in DOMAIN c /\ j + 1 \in DOMAIN c
      BY <1>2, <2>1
    <3>. QED
      BY <1>4, <2>1, <3>1
  <2>3. r[i] = c[i + 1] /\ r[j] = c[j + 1]
    BY <1>2, <1>5
  <2>. QED
    BY <2>2, <2>3
<1>6. ASSUME NEW d, NEW i \in 1..(n - 1), \A k \in DOMAIN c : c[k] \subseteq d
      PROVE  r[i] \subseteq d
  <2>1. i + 1 \in 1..n
    BY <1>2
  <2>. QED
    BY <1>2, <1>6, <2>1
<1>7. r # <<>> => r[Len(r)] = c[n]
  <2>1. r # <<>> => n - 1 \in 1..(n - 1)
    BY <1>2, <1>3
  <2>. QED
    BY <1>2, <2>1
<1>8. r = <<>> => c[n] = Head(c)
  BY <1>2, <1>3
<1>9. Nested(t)' /\ \A d : Covers(t, d) => Covers(t, d)'
  BY <1>2, <1>5, <1>6 DEF Nested, Covers, c, r
<1>. QED
  BY <1>2, <1>3, <1>7, <1>8, <1>9 DEF c, r, n

\* A tab whose saver is untouched stays busy or idle.
LEMMA BusyKept ==
  ASSUME BusyInv, NEW s \in Tabs,
         pending'[s] = pending[s], chain'[s] = chain[s], status'[s] = status[s]
  PROVE  Busy(s)' => status'[s] \in {"pending", "saving"}
  BY DEF BusyInv, Busy

\* BusyInv is preserved.
LEMMA BusyStep ==
  ASSUME PlanSyncAssumption, TypeInv, Counted, BusyInv, Next
  PROVE  BusyInv'
<1>. DEFINE P(s) == Busy(s)' => status'[s] \in {"pending", "saving"}
<1>. SUFFICES \A s \in Tabs : P(s)
  BY DEF BusyInv
<1>1. ASSUME UNCHANGED saver
      PROVE  \A s \in Tabs : P(s)
  BY <1>1, BusyKept DEF saver
<1>2. ASSUME NEW t \in Tabs, NEW d \in Docs, WriteNow(t, d)
      PROVE  \A s \in Tabs : P(s)
  BY <1>2, WriteNowEffect, BusyKept DEF TypeInv
<1>3. ASSUME NEW t \in Tabs, FlushPlanSave(t)
      PROVE  \A s \in Tabs : P(s)
  BY <1>1, <1>2, <1>3, FlushEffect DEF TypeInv
<1>4. ASSUME NEW t \in Tabs, Edit(t)
      PROVE  \A s \in Tabs : P(s)
  BY <1>4, EditEffect, QueueEffect, BusyKept DEF TypeInv
<1>5. ASSUME NEW t \in Tabs, Pick(t) \/ Leave(t) \/ Timer(t)
      PROVE  \A s \in Tabs : P(s)
  BY <1>1, <1>3, <1>5 DEF Pick, Leave, Timer, FlushPlanSave
<1>6. ASSUME NEW t \in Tabs, Reload(t)
      PROVE  \A s \in Tabs : P(s)
  BY <1>6, ReloadEffect, BusyKept DEF Busy
<1>7. ASSUME NEW t \in Tabs, PickLoaded(t)
      PROVE  \A s \in Tabs : P(s)
  BY <1>1, <1>2, <1>7, PickedEffect
<1>8. ASSUME NEW t \in Tabs, NEW o \in {"saved", "conflict", "failed"},
             known' \in [Tabs -> Nat], put[t].stage # "none", EndOfWrite(t, o)
      PROVE  \A s \in Tabs : P(s)
  <2>1. /\ chain[t] # <<>> /\ pending' = pending
        /\ status'[t] = IF chain'[t] # <<>> THEN status[t]
                        ELSE IF pending[t] = None THEN o ELSE "pending"
        /\ \A s \in Tabs \ {t} : chain'[s] = chain[s] /\ status'[s] = status[s]
    BY <1>8, EndOfWriteEffect DEF TypeInv
  <2>2. status[t] \in {"pending", "saving"}
    BY <2>1 DEF BusyInv, Busy
  <2>3. P(t)
    BY <2>1, <2>2 DEF Busy
  <2>. QED
    BY <2>1, <2>3, BusyKept
<1>9. ASSUME NEW t \in Tabs, PutAnswered(t)
      PROVE  \A s \in Tabs : P(s)
  BY <1>8, <1>9, AnswerEffect
<1>10. ASSUME NEW t \in Tabs, PutFails(t)
       PROVE  \A s \in Tabs : P(s)
  BY <1>8, <1>10, FailEffect DEF TypeInv
<1>11. ASSUME NEW t \in Tabs, ServerPut(t)
       PROVE  \A s \in Tabs : P(s)
  BY <1>11, BusyKept DEF ServerPut
<1>12. ASSUME NEW t \in Tabs,
              \/ \E to \in {"plan", "catalog"} : StartLoad(t, to)
              \/ PageLoaded(t)
              \/ \E l \in Loaders : ListRead(t, l) \/ ListAnswered(t, l)
                                    \/ BundleRead(t, l) \/ LoadFails(t, l)
       PROVE  \A s \in Tabs : P(s)
  <2>1. UNCHANGED saver
    BY <1>12 DEF StartLoad, ListRead, ListAnswered, BundleRead, LoadFails, PageLoaded
  <2>. QED
    BY <1>1, <2>1
<1>13. ASSUME LatePut
       PROVE  \A s \in Tabs : P(s)
  <2>1. UNCHANGED saver
    BY <1>13 DEF LatePut
  <2>. QED
    BY <1>1, <2>1
<1>14. ASSUME NEW t \in Tabs, UserStep(t) \/ LoadStep(t) \/ SaveStep(t)
       PROVE  \A s \in Tabs : P(s)
  BY <1>4, <1>5, <1>6, <1>7, <1>9, <1>10, <1>11, <1>12, <1>14
     DEF UserStep, LoadStep, SaveStep
<1>. QED
  BY <1>13, <1>14 DEF Next

\* A tab nobody touches keeps its invariant, whatever else is stored.
LEMMA TabFrame ==
  ASSUME NEW s \in Tabs, TabInv(s), stored \subseteq stored',
         pending'[s] = pending[s], chain'[s] = chain[s], status'[s] = status[s],
         put'[s].version = put[s].version,
         known'[s] = known[s], page'[s] = page[s], shown'[s] = shown[s],
         \A l \in Loaders : load'[s][l] = load[s][l]
  PROVE  TabInv(s)'
<1>1. load'[s]["page"] = load[s]["page"] /\ load'[s]["pick"] = load[s]["pick"]
  BY PickIsALoader
<1>2. PageLoadInv(s)' /\ PickInv(s)'
  BY <1>1 DEF TabInv, PageLoadInv, PickInv
<1>3. BoardInv(s)'
  BY DEF TabInv, BoardInv, Nested, Covers
<1>4. SavedInv(s)'
  BY DEF TabInv, SavedInv
<1>. QED
  BY <1>2, <1>3, <1>4 DEF TabInv

(* What one tab does leaves the others alone.                              *)
Alone(t) ==
  \A s \in Tabs \ {t} :
    /\ pending'[s] = pending[s] /\ chain'[s] = chain[s] /\ status'[s] = status[s]
    /\ put'[s] = put[s] /\ known'[s] = known[s] /\ page'[s] = page[s]
    /\ shown'[s] = shown[s] /\ \A l \in Loaders : load'[s][l] = load[s][l]

\* It is enough to look at the tab that acts.
LEMMA AloneKeeps ==
  ASSUME PatientInv, stored \subseteq stored', hurried \subseteq hurried',
         NEW t \in Tabs, Alone(t), t \notin hurried' => TabInv(t)'
  PROVE  \A s \in Tabs \ hurried' : TabInv(s)'
  BY TabFrame DEF PatientInv, Alone

\* The patient tab's invariant, action by action: a page mounts.
LEMMA PatientStartLoad ==
  ASSUME TypeInv, PatientInv, NEW t \in Tabs, NEW to \in {"plan", "catalog"}, StartLoad(t, to)
  PROVE  Alone(t) /\ hurried \subseteq hurried' /\ (t \notin hurried' => TabInv(t)')
<1>1. /\ load'[t]["page"] = Asked
      /\ \A s \in Tabs, k \in Loaders : (s # t \/ k # "page") => load'[s][k] = load[s][k]
  BY StartLoadEffect
<1>2. /\ page'[t] = to /\ \A s \in Tabs \ {t} : page'[s] = page[s]
      /\ shown' = shown /\ shown[t] = None /\ known' = known
      /\ pending' = pending /\ chain' = chain /\ put' = put /\ status' = status
      /\ hurried' = IF Busy(t) \/ load[t]["pick"].stage # "idle"
                    THEN hurried \cup {t} ELSE hurried
  BY DEF StartLoad, TypeInv, BoardType, saver
<1>3. Alone(t) /\ hurried \subseteq hurried'
  BY <1>1, <1>2 DEF Alone
<1>4. ASSUME t \notin hurried'
      PROVE  TabInv(t)'
  <2>1. ~ Busy(t) /\ load[t]["pick"].stage = "idle" /\ t \notin hurried
    BY <1>2, <1>4
  <2>2. pending[t] = None /\ chain[t] = <<>> /\ load'[t]["pick"] = load[t]["pick"]
    BY <1>1, <2>1, PickIsALoader DEF Busy
  <2>3. PageLoadInv(t)' /\ PickInv(t)'
    BY <1>2, <2>1, <2>2 DEF PageLoadInv, PickInv
  <2>4. BoardInv(t)' /\ SavedInv(t)'
    BY <1>2, <2>2 DEF BoardInv, SavedInv, Nested, Covers
  <2>. QED
    BY <2>3, <2>4 DEF TabInv
<1>. QED
  BY <1>3, <1>4

\* An edit.
LEMMA PatientEdit ==
  ASSUME PlanSyncAssumption, TypeInv, Counted, PatientInv, NEW t \in Tabs, Edit(t)
  PROVE  Alone(t) /\ hurried \subseteq hurried' /\ (t \notin hurried' => TabInv(t)')
<1>. DEFINE d == shown[t] \cup {NextEdit}
<1>1. /\ shown[t] # None /\ page[t] = "plan" /\ QueuePlanSave(t, d) /\ d \in Docs /\ d # None
      /\ shown'[t] = d /\ \A s \in Tabs \ {t} : shown'[s] = shown[s]
  BY EditEffect
<1>2. /\ pending'[t] = d /\ status'[t] = "pending" /\ chain' = chain /\ put' = put
      /\ \A s \in Tabs \ {t} : pending'[s] = pending[s] /\ status'[s] = status[s]
  BY <1>1, QueueEffect DEF TypeInv
<1>3. page' = page /\ load' = load /\ known' = known /\ hurried' = hurried /\ shown[t] \subseteq d
  BY DEF Edit
<1>4. Alone(t) /\ hurried \subseteq hurried'
  BY <1>1, <1>2, <1>3 DEF Alone
<1>. HIDE DEF d
<1>5. ASSUME t \notin hurried'
      PROVE  TabInv(t)'
  <2>1. PageLoadInv(t) /\ PickInv(t) /\ BoardInv(t)
    BY <1>3, <1>5 DEF PatientInv, TabInv
  <2>2. PageLoadInv(t)' /\ PickInv(t)'
    BY <1>1, <1>3, <2>1 DEF PageLoadInv, PickInv
  <2>3. BoardInv(t)'
    BY <1>1, <1>2, <1>3, <2>1 DEF BoardInv, Nested, Covers
  <2>4. SavedInv(t)'
    BY <1>1, <1>2 DEF SavedInv
  <2>. QED
    BY <2>2, <2>3, <2>4 DEF TabInv
<1>. QED
  BY <1>4, <1>5

\* A flush of the board.
LEMMA PatientFlush ==
  ASSUME PlanSyncAssumption, TypeInv, NEW t \in Tabs, BoardInv(t), FlushPlanSave(t),
         pending[t] # None
  PROVE  /\ Nested(t)' /\ pending'[t] = None
         /\ \A i \in DOMAIN chain'[t] : chain'[t][i] \subseteq shown[t]
         /\ put'[t].version = known[t] /\ status'[t] = "saving"
         /\ chain'[t] # <<>> /\ chain'[t][Len(chain'[t])] = shown[t]
<1>1. pending[t] \in Docs /\ WriteNow(t, pending[t]) /\ pending[t] = shown[t]
      /\ page[t] = "plan" /\ shown[t] # None
  BY FlushEffect DEF TypeInv, BoardInv
<1>2. /\ Nested(t)' /\ chain'[t] # <<>>
      /\ \A i \in DOMAIN chain'[t] : chain'[t][i] \subseteq shown[t]
      /\ chain'[t][Len(chain'[t])] = shown[t]
  <2>1. PICK d \in Docs : d = shown[t]
    BY <1>1
  <2>2. WriteNow(t, d) /\ Nested(t) /\ Covers(t, d)
    BY <1>1, <2>1 DEF BoardInv
  <2>3. Nested(t)' /\ Covers(t, d)' /\ chain'[t] # <<>> /\ chain'[t][Len(chain'[t])] = d
    BY <2>2, NestedWrite
  <2>. QED
    BY <2>1, <2>3 DEF Covers
<1>3. /\ pending'[t] = None /\ status'[t] = "saving"
      /\ put'[t] = IF chain[t] = <<>> THEN Sent(known[t]) ELSE put[t]
  BY <1>1, WriteNowEffect DEF TypeInv
<1>4. put'[t].version = known[t]
  BY <1>3 DEF BoardInv, Sent
<1>. QED
  BY <1>2, <1>3, <1>4

\* A flush touches one saver.
LEMMA FlushAlone ==
  ASSUME PlanSyncAssumption, TypeInv, NEW t \in Tabs, FlushPlanSave(t)
  PROVE  \A s \in Tabs \ {t} :
           /\ pending'[s] = pending[s] /\ chain'[s] = chain[s]
           /\ put'[s] = put[s] /\ status'[s] = status[s]
  BY FlushEffect, WriteNowEffect DEF TypeInv, saver

\* A pick.
LEMMA PatientPick ==
  ASSUME PlanSyncAssumption, TypeInv, PatientInv, NEW t \in Tabs, Pick(t)
  PROVE  Alone(t) /\ hurried \subseteq hurried' /\ (t \notin hurried' => TabInv(t)')
<1>1. /\ IF chain'[t] = <<>> THEN load'[t]["pick"].stage = "list"
         ELSE load'[t]["pick"].stage = "flush" /\ load'[t]["pick"].wait = Len(chain'[t])
      /\ ~ load'[t]["pick"].gone
      /\ \A s \in Tabs, k \in Loaders : (s # t \/ k # "pick") => load'[s][k] = load[s][k]
  BY PickEffect
<1>2. /\ page[t] = "catalog" /\ shown[t] # None /\ FlushPlanSave(t)
      /\ known' = known /\ page' = page /\ shown' = shown /\ hurried' = hurried
      /\ stored' = stored
  BY DEF Pick, server
<1>3. Alone(t) /\ hurried \subseteq hurried'
  BY <1>1, <1>2, FlushAlone DEF Alone
<1>4. ASSUME t \notin hurried'
      PROVE  TabInv(t)'
  <2>1. PageLoadInv(t) /\ PickInv(t) /\ BoardInv(t) /\ SavedInv(t)
    BY <1>2, <1>4 DEF PatientInv, TabInv
  <2>2. pending[t] = None
    BY <1>2, <2>1 DEF BoardInv
  <2>3. pending' = pending /\ chain' = chain /\ put' = put /\ status' = status
    BY <1>2, <2>2 DEF FlushPlanSave, saver
  <2>4. load'[t]["page"] = load[t]["page"]
    BY <1>1, PickIsALoader
  <2>5. PageLoadInv(t)'
    BY <1>2, <2>1, <2>4 DEF PageLoadInv
  <2>6. PickInv(t)'
    BY <1>1, <1>2, <2>2, <2>3 DEF PickInv
  <2>7. BoardInv(t)' /\ SavedInv(t)'
    BY <1>2, <2>1, <2>3 DEF BoardInv, SavedInv, Nested, Covers
  <2>. QED
    BY <2>5, <2>6, <2>7 DEF TabInv
<1>. QED
  BY <1>3, <1>4

\* A page is left.
LEMMA PatientLeave ==
  ASSUME PlanSyncAssumption, TypeInv, PatientInv, NEW t \in Tabs, Leave(t)
  PROVE  Alone(t) /\ hurried \subseteq hurried' /\ (t \notin hurried' => TabInv(t)')
<1>1. /\ \A s \in Tabs, k \in Loaders : (s # t \/ k # "pick") => load'[s][k] = load[s][k]
      /\ load'[t]["pick"].stage = load[t]["pick"].stage
      /\ load'[t]["pick"].wait = load[t]["pick"].wait
      /\ load'[t]["pick"].stage # "idle" => load'[t]["pick"].gone
  <2>1. load[t]["pick"] \in Load
    BY PickIsALoader DEF TypeInv, LoadType
  <2>2. load'[t]["pick"].gone = (load[t]["pick"].stage # "idle")
    <3>. DEFINE p == load[t]["pick"]
                g == (p.stage # "idle")
                q == [p EXCEPT !.gone = g]
    <3>1. q.gone = g
      <4>. HIDE DEF p, g
      <4>. QED
        BY <2>1 DEF Load, p
    <3>2. load'[t]["pick"] = q
      BY PickIsALoader DEF Leave, TypeInv, LoadType
    <3>. QED
      BY <3>1, <3>2
  <2>. QED
    BY <2>2, LeaveEffect
<1>2. /\ page'[t] = "away" /\ shown'[t] = None
      /\ \A s \in Tabs \ {t} : page'[s] = page[s] /\ shown'[s] = shown[s]
      /\ known' = known /\ hurried' = hurried
  BY DEF Leave, TypeInv, BoardType
<1>3. UNCHANGED saver \/ (FlushPlanSave(t) /\ page[t] = "plan")
  BY DEF Leave
<1>4. Alone(t) /\ hurried \subseteq hurried'
  BY <1>1, <1>2, <1>3, FlushAlone DEF Alone, saver
<1>5. ASSUME t \notin hurried'
      PROVE  TabInv(t)'
  <2>1. PageLoadInv(t) /\ PickInv(t) /\ BoardInv(t) /\ SavedInv(t)
    BY <1>2, <1>5 DEF PatientInv, TabInv
  <2>2. load'[t]["page"] = load[t]["page"]
    BY <1>1, PickIsALoader
  <2>3. SavedInv(t)'
    BY <1>2 DEF SavedInv
  <2>4. CASE pending[t] = None
    <3>1. pending' = pending /\ chain' = chain /\ put' = put /\ status' = status
      BY <1>3, <2>4 DEF FlushPlanSave, saver
    <3>2. PageLoadInv(t)' /\ PickInv(t)'
      BY <1>1, <1>2, <2>1, <2>2, <3>1 DEF PageLoadInv, PickInv
    <3>3. BoardInv(t)'
      BY <1>2, <2>1, <2>4, <3>1 DEF BoardInv, Nested
    <3>. QED
      BY <2>3, <3>2, <3>3 DEF TabInv
  <2>5. CASE pending[t] # None
    <3>1. page[t] = "plan" /\ shown[t] # None /\ pending[t] = shown[t]
      BY <2>1, <2>5 DEF BoardInv
    <3>2. FlushPlanSave(t)
      BY <3>1 DEF Leave
    <3>3. /\ Nested(t)' /\ pending'[t] = None /\ put'[t].version = known[t]
      BY <2>1, <2>5, <3>2, PatientFlush
    <3>4. load[t]["page"].stage = "idle" /\ load[t]["pick"].stage = "idle"
      BY <2>1, <3>1 DEF PageLoadInv, PickInv
    <3>5. PageLoadInv(t)' /\ PickInv(t)'
      BY <1>1, <2>2, <3>4 DEF PageLoadInv, PickInv
    <3>6. BoardInv(t)'
      BY <1>2, <3>3 DEF BoardInv
    <3>. QED
      BY <2>3, <3>5, <3>6 DEF TabInv
  <2>. QED
    BY <2>4, <2>5
<1>. QED
  BY <1>4, <1>5

\* A reload.
LEMMA PatientReload ==
  ASSUME PlanSyncAssumption, TypeInv, PatientInv, NEW t \in Tabs, Reload(t)
  PROVE  Alone(t) /\ hurried \subseteq hurried' /\ (t \notin hurried' => TabInv(t)')
<1>1. /\ \A k \in Loaders : load'[t][k] = NoLoad
      /\ NoLoad.stage = "idle" /\ \A s \in Tabs \ {t} : load'[s] = load[s]
      /\ pending'[t] = None /\ chain'[t] = <<>>
      /\ \A s \in Tabs \ {t} :
           /\ pending'[s] = pending[s] /\ chain'[s] = chain[s] /\ put'[s] = put[s]
           /\ status'[s] = status[s] /\ known'[s] = known[s]
  BY ReloadEffect
<1>2. /\ page'[t] = "away" /\ shown'[t] = None
      /\ \A s \in Tabs \ {t} : page'[s] = page[s] /\ shown'[s] = shown[s]
      /\ hurried \subseteq hurried'
  BY DEF Reload, TypeInv, BoardType
<1>3. Alone(t)
  BY <1>1, <1>2 DEF Alone
<1>4. PageLoadInv(t)' /\ PickInv(t)' /\ BoardInv(t)' /\ SavedInv(t)'
  BY <1>1, <1>2, PickIsALoader DEF PageLoadInv, PickInv, BoardInv, SavedInv, Nested, Covers
<1>. QED
  BY <1>2, <1>3, <1>4 DEF TabInv

\* The answers of a load.
LEMMA PatientLoading ==
  ASSUME TypeInv, PatientInv, NEW t \in Tabs, NEW l \in Loaders,
         ListRead(t, l) \/ BundleRead(t, l) \/ LoadFails(t, l) \/ ListAnswered(t, l)
  PROVE  Alone(t) /\ hurried \subseteq hurried' /\ (t \notin hurried' => TabInv(t)')
<1>1. /\ \A s \in Tabs, k \in Loaders : (s # t \/ k # l) => load'[s][k] = load[s][k]
      /\ load[t][l].stage \notin {"idle", "flush"} /\ load'[t][l].stage # "flush"
      /\ load'[t][l].stage # "idle" => load'[t][l].gone = load[t][l].gone
  <2>1. CASE ListRead(t, l)
    BY <2>1, ListReadEffect DEF ListRead
  <2>2. CASE BundleRead(t, l)
    BY <2>2, BundleReadEffect DEF BundleRead
  <2>3. CASE LoadFails(t, l)
    <3>1. load'[t][l] = NoLoad /\ NoLoad.stage = "idle"
          /\ \A s \in Tabs, k \in Loaders : (s # t \/ k # l) => load'[s][k] = load[s][k]
      BY <2>3, ForgetEffect DEF LoadFails
    <3>. QED
      BY <2>3, <3>1 DEF LoadFails
  <2>4. CASE ListAnswered(t, l)
    <3>1. load[t][l].stage = "listed"
      BY <2>4 DEF ListAnswered
    <3>2. load'[t][l].stage = "bundle" /\ load'[t][l].gone = load[t][l].gone
          /\ \A s \in Tabs, k \in Loaders : (s # t \/ k # l) => load'[s][k] = load[s][k]
      BY <2>4, ListAnsweredEffect
    <3>. QED
      BY <3>1, <3>2
  <2>. QED
    BY <2>1, <2>2, <2>3, <2>4
<1>2. /\ pending' = pending /\ chain' = chain /\ put' = put /\ status' = status
      /\ page' = page /\ shown' = shown /\ hurried' = hurried /\ stored' = stored
      /\ \A s \in Tabs \ {t} : known'[s] = known[s]
      /\ known' = known \/ ListAnswered(t, l)
  <2>1. CASE ListAnswered(t, l)
    BY <2>1, ListAnsweredEffect DEF ListAnswered, saver, server
  <2>2. CASE ListRead(t, l) \/ BundleRead(t, l) \/ LoadFails(t, l)
    BY <2>2 DEF ListRead, BundleRead, LoadFails, saver, server
  <2>. QED
    BY <2>1, <2>2
<1>3. Alone(t)
  BY <1>1, <1>2 DEF Alone
<1>4. ASSUME t \notin hurried'
      PROVE  TabInv(t)'
  <2>1. PageLoadInv(t) /\ PickInv(t) /\ BoardInv(t) /\ SavedInv(t)
    BY <1>2, <1>4 DEF PatientInv, TabInv
  <2>2. chain[t] = <<>>
    BY <1>1, <2>1, PickIsALoader DEF PageLoadInv, PickInv
  <2>3. PageLoadInv(t)'
    BY <1>1, <1>2, <2>1, PickIsALoader DEF PageLoadInv
  <2>4. PickInv(t)'
    BY <1>1, <1>2, <2>1, PickIsALoader DEF PickInv
  <2>5. BoardInv(t)' /\ SavedInv(t)'
    BY <1>2, <2>1, <2>2 DEF BoardInv, SavedInv, Nested, Covers
  <2>. QED
    BY <2>3, <2>4, <2>5 DEF TabInv
<1>. QED
  BY <1>2, <1>3, <1>4

\* The page shows what it loaded.
LEMMA PatientPageLoaded ==
  ASSUME TypeInv, MadeInv, PatientInv, NEW t \in Tabs, PageLoaded(t)
  PROVE  Alone(t) /\ hurried \subseteq hurried' /\ (t \notin hurried' => TabInv(t)')
<1>1. /\ load[t]["page"].stage = "read" /\ load'[t]["page"] = NoLoad /\ NoLoad.stage = "idle"
      /\ \A s \in Tabs, k \in Loaders : (s # t \/ k # "page") => load'[s][k] = load[s][k]
  BY ForgetEffect, PickIsALoader DEF PageLoaded
<1>2. /\ pending' = pending /\ chain' = chain /\ put' = put /\ status' = status
      /\ page' = page /\ hurried' = hurried /\ stored' = stored /\ known' = known
      /\ page[t] = "away" => shown' = shown
      /\ page[t] # "away" => shown'[t] = load[t]["page"].doc
      /\ \A s \in Tabs \ {t} : shown'[s] = shown[s]
  BY DEF PageLoaded, saver, server, TypeInv, BoardType
<1>3. Alone(t)
  BY <1>1, <1>2 DEF Alone
<1>4. ASSUME t \notin hurried'
      PROVE  TabInv(t)'
  <2>1. PageLoadInv(t) /\ PickInv(t) /\ BoardInv(t) /\ SavedInv(t)
    BY <1>2, <1>4 DEF PatientInv, TabInv
  <2>2. /\ shown[t] = None /\ pending[t] = None /\ chain[t] = <<>>
        /\ load[t]["pick"].stage = "idle" /\ load'[t]["pick"] = load[t]["pick"]
    BY <1>1, <2>1, PickIsALoader DEF PageLoadInv
  <2>3. load[t]["page"].doc \subseteq stored
    BY PickIsALoader DEF MadeInv
  <2>4. PageLoadInv(t)' /\ PickInv(t)'
    BY <1>1, <2>2 DEF PageLoadInv, PickInv
  <2>5. BoardInv(t)' /\ SavedInv(t)'
    BY <1>2, <2>2, <2>3 DEF BoardInv, SavedInv, Nested, Covers
  <2>. QED
    BY <2>4, <2>5 DEF TabInv
<1>. QED
  BY <1>2, <1>3, <1>4

\* The pick writes.
LEMMA PatientPicked ==
  ASSUME PlanSyncAssumption, TypeInv, Counted, PatientInv, NEW t \in Tabs, PickLoaded(t)
  PROVE  Alone(t) /\ hurried \subseteq hurried' /\ (t \notin hurried' => TabInv(t)')
<1>1. /\ load[t]["pick"].stage = "read" /\ load'[t]["pick"] = NoLoad /\ NoLoad.stage = "idle"
      /\ \A s \in Tabs, k \in Loaders : (s # t \/ k # "pick") => load'[s][k] = load[s][k]
  BY ForgetEffect, PickIsALoader DEF PickLoaded
<1>2. page' = page /\ hurried' = hurried /\ stored' = stored /\ known' = known
  BY DEF PickLoaded, server
<1>3. load'[t]["page"] = load[t]["page"]
  BY <1>1, PickIsALoader
<1>4. CASE UNCHANGED <<saver, by, shown>>
  <2>1. pending' = pending /\ chain' = chain /\ put' = put /\ status' = status
        /\ shown' = shown
    BY <1>4 DEF saver
  <2>2. Alone(t)
    BY <1>1, <1>2, <2>1 DEF Alone
  <2>3. ASSUME t \notin hurried'
        PROVE  TabInv(t)'
    <3>1. PageLoadInv(t) /\ PickInv(t) /\ BoardInv(t) /\ SavedInv(t)
      BY <1>2, <2>3 DEF PatientInv, TabInv
    <3>2. PageLoadInv(t)' /\ PickInv(t)'
      BY <1>1, <1>3, <2>1, <3>1 DEF PageLoadInv, PickInv
    <3>3. BoardInv(t)' /\ SavedInv(t)'
      BY <1>2, <2>1, <3>1 DEF BoardInv, SavedInv, Nested, Covers
    <3>. QED
      BY <3>2, <3>3 DEF TabInv
  <2>. QED
    BY <1>2, <2>2, <2>3
<1>5. ASSUME NEW d, d \in Docs, d # None, WriteNow(t, d),
             load[t]["pick"].gone => shown' = shown,
             ~ load[t]["pick"].gone => shown'[t] = d,
             \A s \in Tabs \ {t} : shown'[s] = shown[s]
      PROVE  Alone(t) /\ hurried \subseteq hurried' /\ (t \notin hurried' => TabInv(t)')
  <2>1. /\ pending'[t] = None /\ status'[t] = "saving"
        /\ put'[t] = IF chain[t] = <<>> THEN Sent(known[t]) ELSE put[t]
        /\ \A s \in Tabs \ {t} :
             /\ pending'[s] = pending[s] /\ chain'[s] = chain[s]
             /\ put'[s] = put[s] /\ status'[s] = status[s]
    BY <1>5, WriteNowEffect DEF TypeInv
  <2>2. Alone(t)
    BY <1>1, <1>2, <1>5, <2>1 DEF Alone
  <2>3. ASSUME t \notin hurried'
        PROVE  TabInv(t)'
    <3>1. PageLoadInv(t) /\ PickInv(t) /\ BoardInv(t) /\ SavedInv(t)
      BY <1>2, <2>3 DEF PatientInv, TabInv
    <3>2. /\ load[t]["page"].stage = "idle" /\ page[t] # "plan" /\ chain[t] = <<>>
          /\ load[t]["pick"].gone => shown[t] = None
          /\ ~ load[t]["pick"].gone => page[t] = "catalog"
      BY <1>1, <3>1 DEF PageLoadInv, PickInv
    <3>3. Nested(t) /\ Covers(t, d)
      BY <3>2 DEF Nested, Covers
    <3>4. Nested(t)' /\ chain'[t][Len(chain'[t])] = d
      BY <1>5, <3>3, NestedWrite
    <3>5. put'[t].version = known[t]
      BY <2>1, <3>2 DEF Sent
    <3>6. PageLoadInv(t)' /\ PickInv(t)'
      BY <1>1, <1>3, <3>2 DEF PageLoadInv, PickInv
    <3>7. BoardInv(t)'
      BY <1>2, <1>5, <2>1, <3>1, <3>2, <3>4, <3>5 DEF BoardInv
    <3>8. SavedInv(t)'
      BY <1>5, <2>1, <3>2, <3>4 DEF SavedInv
    <3>. QED
      BY <3>6, <3>7, <3>8 DEF TabInv
  <2>. QED
    BY <1>2, <2>2, <2>3
<1>. QED
  BY <1>4, <1>5, PickedEffect

\* The debounce runs out.
LEMMA PatientTimer ==
  ASSUME PlanSyncAssumption, TypeInv, PatientInv, NEW t \in Tabs, Timer(t)
  PROVE  Alone(t) /\ hurried \subseteq hurried' /\ (t \notin hurried' => TabInv(t)')
<1>1. /\ FlushPlanSave(t) /\ pending[t] # None
      /\ known' = known /\ load' = load /\ page' = page /\ shown' = shown
      /\ hurried' = hurried /\ stored' = stored
  BY DEF Timer, FlushPlanSave, ui, server
<1>2. Alone(t)
  BY <1>1, FlushAlone DEF Alone
<1>3. ASSUME t \notin hurried'
      PROVE  TabInv(t)'
  <2>1. PageLoadInv(t) /\ PickInv(t) /\ BoardInv(t) /\ SavedInv(t)
    BY <1>1, <1>3 DEF PatientInv, TabInv
  <2>2. page[t] = "plan" /\ load[t]["page"].stage = "idle" /\ load[t]["pick"].stage = "idle"
    BY <1>1, <2>1 DEF PageLoadInv, PickInv, BoardInv
  <2>3. /\ Nested(t)' /\ pending'[t] = None
        /\ \A i \in DOMAIN chain'[t] : chain'[t][i] \subseteq shown[t]
        /\ put'[t].version = known[t] /\ status'[t] = "saving"
        /\ chain'[t][Len(chain'[t])] = shown[t]
    BY <1>1, <2>1, PatientFlush
  <2>4. PageLoadInv(t)' /\ PickInv(t)'
    BY <1>1, <2>2 DEF PageLoadInv, PickInv
  <2>5. BoardInv(t)'
    BY <1>1, <2>2, <2>3 DEF BoardInv, Covers
  <2>6. SavedInv(t)'
    BY <1>1, <2>3 DEF SavedInv
  <2>. QED
    BY <2>4, <2>5, <2>6 DEF TabInv
<1>. QED
  BY <1>1, <1>2, <1>3

\* The server answers a PUT.
LEMMA PatientServerPut ==
  ASSUME TypeInv, PatientInv, NEW t \in Tabs, ServerPut(t)
  PROVE  Alone(t) /\ hurried \subseteq hurried' /\ (t \notin hurried' => TabInv(t)')
<1>1. /\ put'[t].version = put[t].version /\ \A s \in Tabs \ {t} : put'[s] = put[s]
      /\ stored \subseteq stored'
  BY ServerPutEffect DEF server
<1>2. /\ pending' = pending /\ chain' = chain /\ status' = status /\ known' = known
      /\ page' = page /\ shown' = shown /\ load' = load /\ hurried' = hurried
  BY DEF ServerPut, ui
<1>3. Alone(t)
  BY <1>1, <1>2 DEF Alone
<1>4. ASSUME t \notin hurried'
      PROVE  TabInv(t)'
  BY <1>1, <1>2, <1>4, TabFrame DEF PatientInv
<1>. QED
  BY <1>2, <1>3, <1>4

\* A write ends.
LEMMA PatientEnd ==
  ASSUME TypeInv, VersionInv, PatientInv, NEW t \in Tabs,
         NEW o \in {"saved", "conflict", "failed"}, o = "saved" => put[t].stage = "ok",
         known' \in [Tabs -> Nat], \A s \in Tabs \ {t} : known'[s] = known[s],
         put[t].stage # "none", EndOfWrite(t, o),
         UNCHANGED <<page, shown, hurried>>, stored' = stored
  PROVE  Alone(t) /\ hurried \subseteq hurried' /\ (t \notin hurried' => TabInv(t)')
<1>1. /\ chain[t] # <<>> /\ pending' = pending
      /\ put'[t] = IF chain'[t] = <<>> THEN NoPut ELSE Sent(known'[t])
      /\ status'[t] = IF chain'[t] # <<>> THEN status[t]
                      ELSE IF pending[t] = None THEN o ELSE "pending"
      /\ \A s \in Tabs \ {t} :
           chain'[s] = chain[s] /\ put'[s] = put[s] /\ status'[s] = status[s]
  BY EndOfWriteEffect DEF TypeInv
<1>2. /\ \A s \in Tabs, l \in Loaders : s # t \/ l # "pick" => load'[s][l] = load[s][l]
      /\ load[t]["pick"].stage # "flush" => load' = load
      /\ load'[t]["pick"].gone = load[t]["pick"].gone
      /\ load[t]["pick"].stage = "flush" =>
           /\ load'[t]["pick"].wait = load[t]["pick"].wait - 1
           /\ load'[t]["pick"].stage = IF load[t]["pick"].wait = 1 THEN "list" ELSE "flush"
  BY EndOfWriteLoad, PickIsALoader DEF TypeInv
<1>3. Alone(t)
  BY <1>1, <1>2 DEF Alone
<1>4. ASSUME t \notin hurried'
      PROVE  TabInv(t)'
  <2>1. PageLoadInv(t) /\ PickInv(t) /\ BoardInv(t) /\ SavedInv(t)
    BY <1>4 DEF PatientInv, TabInv
  <2>2. /\ Nested(t)' /\ \A d : Covers(t, d) => Covers(t, d)'
        /\ Len(chain'[t]) = Len(chain[t]) - 1 /\ Len(chain[t]) \in Nat \ {0}
        /\ chain'[t] = <<>> <=> Len(chain[t]) = 1
        /\ chain'[t] # <<>> => chain'[t][Len(chain'[t])] = chain[t][Len(chain[t])]
        /\ chain'[t] = <<>> => chain[t][Len(chain[t])] = Head(chain[t])
    BY <2>1, NestedEnd DEF BoardInv
  <2>3. load[t]["page"].stage = "idle" /\ load'[t]["page"] = load[t]["page"]
    BY <1>1, <1>2, <2>1, PickIsALoader DEF PageLoadInv
  <2>4. PageLoadInv(t)'
    BY <2>3 DEF PageLoadInv
  <2>5. PickInv(t)'
    <3>1. CASE load[t]["pick"].stage = "flush"
      BY <1>1, <1>2, <2>1, <2>2, <3>1 DEF PickInv
    <3>2. CASE load[t]["pick"].stage # "flush"
      BY <1>1, <1>2, <2>1, <3>2 DEF PickInv
    <3>. QED
      BY <3>1, <3>2
  <2>6. BoardInv(t)'
    <3>1. chain'[t] # <<>> => put'[t].version = known'[t]
      BY <1>1 DEF Sent
    <3>2. page[t] = "plan" /\ shown[t] # None =>
            \A i \in DOMAIN chain'[t] : chain'[t][i] \subseteq shown[t]
      <4>1. SUFFICES ASSUME page[t] = "plan", shown[t] # None
                     PROVE  \A i \in DOMAIN chain'[t] : chain'[t][i] \subseteq shown[t]
        OBVIOUS
      <4>2. PICK d : d = shown[t]
        OBVIOUS
      <4>3. Covers(t, d)
        BY <2>1, <4>1, <4>2 DEF BoardInv
      <4>4. Covers(t, d)'
        BY <2>2, <4>3
      <4>. QED
        BY <4>2, <4>4 DEF Covers
    <3>. QED
      BY <1>1, <2>1, <2>2, <3>1, <3>2 DEF BoardInv, Covers
  <2>7. SavedInv(t)'
    <3>1. status[t] \in {"pending", "saving"}
      BY <1>1 DEF PatientInv, BusyInv, Busy
    <3>2. CASE chain'[t] # <<>>
      BY <1>1, <2>1, <2>2, <3>1, <3>2 DEF SavedInv
    <3>3. CASE chain'[t] = <<>>
      <4>1. status'[t] = "saved" => pending[t] = None /\ put[t].stage = "ok"
        BY <1>1, <3>3
      <4>2. put[t].stage = "ok" => Head(chain[t]) \subseteq stored
        BY DEF VersionInv, VersionTab
      <4>. QED
        BY <1>1, <2>1, <2>2, <3>3, <4>1, <4>2 DEF SavedInv
    <3>. QED
      BY <3>2, <3>3
  <2>. QED
    BY <2>4, <2>5, <2>6, <2>7 DEF TabInv
<1>. QED
  BY <1>3, <1>4

\* Any step of a tab.
LEMMA PatientTab ==
  ASSUME PlanSyncAssumption, TypeInv, Counted, MadeInv, VersionInv, PatientInv,
         NEW t \in Tabs, UserStep(t) \/ LoadStep(t) \/ SaveStep(t)
  PROVE  Alone(t) /\ hurried \subseteq hurried' /\ (t \notin hurried' => TabInv(t)')
<1>1. ASSUME PutAnswered(t)
      PROVE  Alone(t) /\ hurried \subseteq hurried' /\ (t \notin hurried' => TabInv(t)')
  <2>1. /\ known' \in [Tabs -> Nat] /\ put[t].stage # "none"
        /\ \A s \in Tabs \ {t} : known'[s] = known[s]
        /\ EndOfWrite(t, IF put[t].stage = "ok" THEN "saved" ELSE "conflict")
        /\ UNCHANGED <<page, shown, hurried>> /\ stored' = stored
    BY <1>1, AnswerEffect DEF server
  <2>. QED
    BY <2>1, PatientEnd
<1>2. ASSUME PutFails(t)
      PROVE  Alone(t) /\ hurried \subseteq hurried' /\ (t \notin hurried' => TabInv(t)')
  <2>1. /\ known' = known /\ put[t].stage # "none" /\ EndOfWrite(t, "failed")
        /\ UNCHANGED <<page, shown, hurried>> /\ stored' = stored
    BY <1>2, FailEffect DEF server
  <2>. QED
    BY <2>1, PatientEnd DEF TypeInv
<1>3. ASSUME UserStep(t)
      PROVE  Alone(t) /\ hurried \subseteq hurried' /\ (t \notin hurried' => TabInv(t)')
  BY <1>3, PatientStartLoad, PatientEdit, PatientPick, PatientLeave, PatientReload
     DEF UserStep
<1>4. ASSUME LoadStep(t)
      PROVE  Alone(t) /\ hurried \subseteq hurried' /\ (t \notin hurried' => TabInv(t)')
  BY <1>4, PatientLoading, PatientPageLoaded, PatientPicked DEF LoadStep
<1>5. ASSUME SaveStep(t)
      PROVE  Alone(t) /\ hurried \subseteq hurried' /\ (t \notin hurried' => TabInv(t)')
  BY <1>1, <1>2, <1>5, PatientTimer, PatientServerPut DEF SaveStep
<1>. QED
  BY <1>3, <1>4, <1>5

\* PatientInv is preserved, and a hurried tab stays hurried.
LEMMA PatientStep ==
  ASSUME PlanSyncAssumption, TypeInv, Counted, MadeInv, VersionInv, PatientInv, Next
  PROVE  PatientInv' /\ hurried \subseteq hurried'
<1>1. stored \subseteq stored' /\ BusyInv'
  BY StepIsAMove, StoreGrows, BusyStep DEF StepMoves, PatientInv
<1>2. ASSUME NEW t \in Tabs, UserStep(t) \/ LoadStep(t) \/ SaveStep(t)
      PROVE  PatientInv' /\ hurried \subseteq hurried'
  <2>1. Alone(t) /\ hurried \subseteq hurried' /\ (t \notin hurried' => TabInv(t)')
    BY <1>2, PatientTab
  <2>. QED
    BY <1>1, <2>1, AloneKeeps DEF PatientInv
<1>3. ASSUME LatePut
      PROVE  PatientInv' /\ hurried \subseteq hurried'
  <2>1. UNCHANGED <<known, saver, ui, hurried>>
    BY <1>3 DEF LatePut
  <2>2. \A s \in Tabs \ hurried' : TabInv(s)'
    BY <1>1, <2>1, TabFrame DEF PatientInv, saver, ui
  <2>. QED
    BY <1>1, <2>1, <2>2 DEF PatientInv
<1>. QED
  BY <1>2, <1>3 DEF Next

-----------------------------------------------------------------------------
(* While everybody waits, the current version is in the hands of tabs that *)
(* have read everything stored.                                            *)

(* The version the tab's next PUT names once the present one is answered.  *)
Names(t) == IF put[t].stage = "ok" THEN known[t] + 1 ELSE known[t]

FreshTab(t) ==
  /\ Names(t) = version =>
       /\ \A d \in Queue(t) : stored \subseteq d
       /\ page[t] = "plan" /\ shown[t] # None => stored \subseteq shown[t]
  /\ \A l \in Loaders : load[t][l].stage = "read" /\ known[t] = version =>
       stored \subseteq load[t][l].doc

Fresh ==
  /\ stored \subseteq doc
  /\ \A m \in late : m.version = version => stored \subseteq m.doc
  /\ \A t \in Tabs : FreshTab(t)

FreshInv == hurried = {} => Fresh

\* Nobody names a version beyond the store's.
LEMMA NamesBound ==
  ASSUME TypeInv, VersionInv, NEW t \in Tabs, BoardInv(t)
  PROVE  Names(t) \in Nat /\ Names(t) <= version /\ known[t] <= version
<1>1. /\ version \in Nat /\ known[t] \in Nat /\ put[t].version \in Nat /\ known[t] <= version
      /\ put[t].stage = "ok" => put[t].version < version
  BY VersionTypes DEF VersionInv, VersionTab
<1>2. put[t].stage = "ok" => put[t].version = known[t]
  BY DEF BoardInv, TypeInv, SaverType
<1>. QED
  BY <1>1, <1>2 DEF Names

\* A tab nobody touches stays fresh while the store is untouched.
LEMMA FreshFrame ==
  ASSUME NEW s \in Tabs, FreshTab(s), UNCHANGED server,
         Queue(s)' = Queue(s), put'[s].stage = put[s].stage,
         known'[s] = known[s], page'[s] = page[s], shown'[s] = shown[s],
         \A l \in Loaders : load'[s][l] = load[s][l]
  PROVE  FreshTab(s)'
<1>1. Names(s)' = Names(s) /\ version' = version /\ stored' = stored
  BY DEF Names, server
<1>. QED
  BY <1>1 DEF FreshTab

\* Once a document is stored, whoever does not name the new version is behind.
LEMMA FreshStored ==
  ASSUME PlanSyncAssumption, TypeInv, MadeInv, VersionInv, Fresh,
         \A t \in Tabs : TabInv(t), ServerMove, LoadMove, LateMove, ~ UNCHANGED server
  PROVE  Fresh'
<1>1. version' = version + 1 /\ stored' = stored \cup doc' /\ version \in Nat
  BY VersionTypes DEF ServerMove
<1>2. ASSUME NEW t \in Tabs
      PROVE  /\ Names(t) \in Nat /\ Names(t) <= version /\ known[t] <= version
             /\ known[t] \in Nat
  BY NamesBound, VersionTypes DEF TabInv
<1>3. ASSUME NEW m \in late, late' \subseteq late
      PROVE  m.version # version'
  <2>1. m.version <= version /\ m.version \in Nat
    BY VersionTypes DEF VersionInv
  <2>. QED
    BY <1>1, <2>1
<1>4. ASSUME NEW s \in Tabs, put'[s] = put[s], known' = known
      PROVE  FreshTab(s)'
  <2>1. Names(s)' # version' /\ known'[s] # version'
    BY <1>1, <1>2, <1>4 DEF Names
  <2>. QED
    BY <2>1 DEF FreshTab
<1>5. ASSUME NEW t \in Tabs, StoresHead(t)
      PROVE  Fresh'
  <2>1. /\ put[t].stage = "sent" /\ put[t].version = version /\ chain[t] # <<>>
        /\ doc' = Head(chain[t]) /\ put'[t].stage = "ok"
        /\ late' = late /\ known' = known /\ pending' = pending /\ chain' = chain
        /\ page' = page /\ shown' = shown /\ load' = load
        /\ \A s \in Tabs \ {t} : put'[s] = put[s]
    BY <1>5 DEF StoresHead, ui
  <2>2. /\ Head(chain[t]) \in Queue(t) /\ Head(chain[t]) = chain[t][1]
        /\ 1 \in DOMAIN chain[t]
    BY <2>1, HeadIsQueued DEF TypeInv
  <2>3. BoardInv(t) /\ FreshTab(t)
    BY DEF TabInv, Fresh
  <2>4. Names(t) = version
    BY <2>1, <2>3 DEF Names, BoardInv
  <2>5. stored \subseteq Head(chain[t]) /\ stored' = doc'
    BY <1>1, <2>1, <2>2, <2>3, <2>4 DEF FreshTab
  <2>6. \A i \in DOMAIN chain[t] : Head(chain[t]) \subseteq chain[t][i]
    <3>1. DOMAIN chain[t] \subseteq Nat \ {0}
      BY DEF TypeInv, SaverType
    <3>. QED
      BY <2>2, <2>3, <3>1 DEF BoardInv, Nested
  <2>7. page[t] = "plan" /\ shown[t] # None => Head(chain[t]) \subseteq shown[t]
    BY <2>2, <2>3 DEF BoardInv, Covers
  <2>8. pending[t] # None => Head(chain[t]) \subseteq pending[t]
    BY <2>3, <2>7 DEF BoardInv
  <2>9. \A d \in Queue(t)' : stored' \subseteq d
    BY <2>1, <2>5, <2>6, <2>8 DEF Queue
  <2>10. known'[t] # version'
    BY <1>1, <1>2, <2>1
  <2>11. FreshTab(t)'
    BY <2>1, <2>5, <2>7, <2>9, <2>10 DEF FreshTab
  <2>12. \A s \in Tabs : FreshTab(s)'
    BY <1>4, <2>1, <2>11
  <2>. QED
    BY <1>3, <2>1, <2>5, <2>12 DEF Fresh
<1>6. ASSUME NEW m \in late, StoresLate(m)
      PROVE  Fresh'
  <2>1. /\ m.version = version /\ doc' = m.doc /\ late' \subseteq late
        /\ known' = known /\ put' = put
    BY <1>6 DEF StoresLate, saver
  <2>2. stored \subseteq m.doc /\ stored' = doc'
    BY <1>1, <2>1 DEF Fresh
  <2>3. \A s \in Tabs : FreshTab(s)'
    BY <1>4, <2>1
  <2>. QED
    BY <1>3, <2>1, <2>2, <2>3 DEF Fresh
<1>. QED
  BY <1>5, <1>6 DEF ServerMove

\* A tab stays fresh when its hands only lose documents.
LEMMA FreshQueue ==
  ASSUME NEW t \in Tabs, FreshTab(t), UNCHANGED server, Names(t)' = Names(t),
         Queue(t)' \subseteq Queue(t), known'[t] = known[t],
         shown'[t] = None \/ (shown'[t] = shown[t] /\ page'[t] = page[t]),
         \A l \in Loaders : load'[t][l].stage = "read" =>
           load[t][l].stage = "read" /\ load'[t][l].doc = load[t][l].doc
  PROVE  FreshTab(t)'
  BY DEF FreshTab, server

\* A flush changes neither the queue nor the version named.
LEMMA FreshFlush ==
  ASSUME PlanSyncAssumption, TypeInv, NEW t \in Tabs, FlushPlanSave(t), known' = known
  PROVE  Names(t)' = Names(t) /\ Queue(t)' = Queue(t)
<1>1. Queue(t)' = Queue(t)
  BY FlushHands DEF TypeInv
<1>2. CASE UNCHANGED saver
  BY <1>1, <1>2 DEF saver, Names
<1>3. CASE pending[t] \in Docs /\ pending[t] # None /\ WriteNow(t, pending[t])
  <2>1. put'[t] = IF chain[t] = <<>> THEN Sent(known[t]) ELSE put[t]
    BY <1>3, WriteNowEffect DEF TypeInv
  <2>2. chain[t] = <<>> => put[t].stage = "none"
    BY DEF TypeInv, SaverType
  <2>3. Sent(known[t]).stage = "sent"
    BY DEF Sent
  <2>4. put'[t].stage = "ok" <=> put[t].stage = "ok"
    BY <2>1, <2>2, <2>3
  <2>. QED
    BY <1>1, <2>4 DEF Names
<1>. QED
  BY <1>2, <1>3, FlushEffect DEF TypeInv

\* The user's steps keep a tab fresh.
LEMMA FreshUser ==
  ASSUME PlanSyncAssumption, TypeInv, Counted, NEW t \in Tabs, FreshTab(t), TabInv(t),
         UserStep(t), t \notin hurried'
  PROVE  FreshTab(t)' /\ late' = late
<1>1. ASSUME NEW to \in {"plan", "catalog"}, StartLoad(t, to)
      PROVE  FreshTab(t)'
  <2>1. /\ load'[t]["page"] = Asked /\ Asked.stage = "list"
        /\ \A k \in Loaders : k # "page" => load'[t][k] = load[t][k]
    BY <1>1, StartLoadEffect
  <2>2. UNCHANGED server /\ UNCHANGED saver /\ known' = known /\ shown'[t] = None
    BY <1>1 DEF StartLoad
  <2>3. Names(t)' = Names(t) /\ Queue(t)' = Queue(t)
    BY <2>2, HandsSame DEF Names, saver
  <2>. QED
    BY <2>1, <2>2, <2>3, FreshQueue
<1>2. ASSUME Edit(t)
      PROVE  FreshTab(t)'
  <2>. DEFINE d == shown[t] \cup {NextEdit}
  <2>1. /\ shown[t] # None /\ page[t] = "plan" /\ QueuePlanSave(t, d) /\ d \in Docs
        /\ shown'[t] = d
    BY <1>2, EditEffect
  <2>2. pending'[t] = d /\ chain' = chain /\ put' = put
    BY <2>1, QueueEffect DEF TypeInv
  <2>3. /\ UNCHANGED server /\ load' = load /\ known' = known /\ page' = page
        /\ shown[t] \subseteq d
    BY <1>2 DEF Edit
  <2>. HIDE DEF d
  <2>4. Queue(t)' \subseteq Queue(t) \cup {d} /\ Names(t)' = Names(t)
    BY <2>2, <2>3 DEF Queue, Names
  <2>. QED
    BY <2>1, <2>3, <2>4 DEF FreshTab, server
<1>3. ASSUME Pick(t)
      PROVE  FreshTab(t)'
  <2>1. /\ page[t] = "catalog" /\ FlushPlanSave(t) /\ known' = known /\ page' = page
        /\ shown' = shown /\ UNCHANGED server
    BY <1>3 DEF Pick
  <2>2. /\ load'[t]["pick"].stage \in {"list", "flush"}
        /\ \A k \in Loaders : k # "pick" => load'[t][k] = load[t][k]
    BY <1>3, PickEffect
  <2>3. Names(t)' = Names(t) /\ Queue(t)' = Queue(t)
    BY <2>1, FreshFlush
  <2>. QED
    BY <2>1, <2>2, <2>3, FreshQueue
<1>4. ASSUME Leave(t)
      PROVE  FreshTab(t)'
  <2>1. /\ UNCHANGED saver \/ FlushPlanSave(t)
        /\ known' = known /\ shown'[t] = None /\ UNCHANGED server
    BY <1>4 DEF Leave, TypeInv, BoardType
  <2>2. \A k \in Loaders : /\ load'[t][k].stage = load[t][k].stage
                           /\ load'[t][k].doc = load[t][k].doc
    BY <1>4, LeaveEffect
  <2>3. Names(t)' = Names(t) /\ Queue(t)' = Queue(t)
    BY <2>1, FreshFlush, HandsSame DEF Names, saver
  <2>. QED
    BY <2>1, <2>2, <2>3, FreshQueue
<1>5. ASSUME Reload(t)
      PROVE  FreshTab(t)'
  <2>1. /\ \A k \in Loaders : load'[t][k] = NoLoad
        /\ NoLoad.stage = "idle" /\ put'[t] = NoPut /\ NoPut.stage = "none"
        /\ known'[t] = 0
    BY <1>5, ReloadEffect
  <2>2. version' = version /\ version # 0
    BY <1>5 DEF Reload, server, TypeInv, ServerType
  <2>3. Names(t)' # version'
    BY <2>1, <2>2 DEF Names
  <2>. QED
    BY <2>1, <2>3 DEF FreshTab
<1>6. late' = late
  <2>1. CASE Reload(t)
    <3>1. ~ Busy(t)
      BY <2>1 DEF Reload
    <3>2. LastWords(t) = {}
      BY <3>1 DEF Busy, LastWords
    <3>. QED
      BY <2>1, <3>2 DEF Reload
  <2>. QED
    BY <2>1 DEF UserStep, StartLoad, Edit, Pick, Leave
<1>. QED
  BY <1>1, <1>2, <1>3, <1>4, <1>5, <1>6 DEF UserStep

\* So do the answers of a load.
LEMMA FreshLoad ==
  ASSUME PlanSyncAssumption, TypeInv, Counted, NEW t \in Tabs, FreshTab(t), TabInv(t),
         stored \subseteq doc, LoadStep(t)
  PROVE  FreshTab(t)' /\ late' = late
<1>1. ASSUME NEW l \in Loaders, ListRead(t, l) \/ LoadFails(t, l)
      PROVE  FreshTab(t)'
  <2>1. /\ load'[t][l].stage # "read"
        /\ \A k \in Loaders : k # l => load'[t][k] = load[t][k]
    <3>1. CASE ListRead(t, l)
      BY <3>1, ListReadEffect
    <3>2. CASE LoadFails(t, l)
      <4>1. load'[t][l] = NoLoad /\ NoLoad.stage = "idle"
            /\ \A s \in Tabs, k \in Loaders : (s # t \/ k # l) => load'[s][k] = load[s][k]
        BY <3>2, ForgetEffect DEF LoadFails
      <4>. QED
        BY <4>1
    <3>. QED
      BY <1>1, <3>1, <3>2
  <2>2. UNCHANGED server /\ UNCHANGED saver /\ known' = known /\ UNCHANGED <<page, shown>>
    BY <1>1 DEF ListRead, LoadFails
  <2>3. Names(t)' = Names(t) /\ Queue(t)' = Queue(t)
    BY <2>2, HandsSame DEF Names, saver
  <2>. QED
    BY <2>1, <2>2, <2>3, FreshQueue
<1>2. ASSUME NEW l \in Loaders, ListAnswered(t, l)
      PROVE  FreshTab(t)'
  <2>1. load[t][l].stage = "listed"
    BY <1>2 DEF ListAnswered
  <2>5. /\ load'[t][l].stage = "bundle"
        /\ \A k \in Loaders : k # l => load'[t][k] = load[t][k]
    BY <1>2, ListAnsweredEffect
  <2>2. UNCHANGED saver /\ UNCHANGED <<page, shown>>
    BY <1>2 DEF ListAnswered
  <2>3. /\ chain[t] = <<>> /\ pending[t] = None
        /\ page[t] = "plan" => shown[t] = None
        /\ \A k \in Loaders : k # l => load[t][k].stage = "idle"
    BY <2>1, PickIsALoader DEF TabInv, PageLoadInv, PickInv
  <2>4. Queue(t)' = {}
    BY <2>2, <2>3 DEF Queue, saver
  <2>. QED
    BY <2>2, <2>3, <2>4, <2>5 DEF FreshTab
<1>3. ASSUME NEW l \in Loaders, BundleRead(t, l)
      PROVE  FreshTab(t)'
  <2>1. /\ load'[t][l].doc = doc
        /\ \A k \in Loaders : k # l => load'[t][k] = load[t][k]
    BY <1>3, BundleReadEffect
  <2>2. UNCHANGED server /\ UNCHANGED saver /\ known' = known /\ UNCHANGED <<page, shown>>
    BY <1>3 DEF BundleRead
  <2>3. Names(t)' = Names(t) /\ Queue(t)' = Queue(t)
    BY <2>2, HandsSame DEF Names, saver
  <2>. QED
    BY <2>1, <2>2, <2>3 DEF FreshTab, server
<1>4. ASSUME PageLoaded(t)
      PROVE  FreshTab(t)'
  <2>1. /\ load[t]["page"].stage = "read" /\ load'[t]["page"] = NoLoad
        /\ NoLoad.stage = "idle"
        /\ \A s \in Tabs, k \in Loaders : (s # t \/ k # "page") => load'[s][k] = load[s][k]
    BY <1>4, ForgetEffect, PickIsALoader DEF PageLoaded
  <2>2. /\ UNCHANGED server /\ UNCHANGED saver /\ known' = known /\ page' = page
        /\ shown'[t] = shown[t] \/ shown'[t] = load[t]["page"].doc
    BY <1>4 DEF PageLoaded, TypeInv, BoardType
  <2>3. Names(t)' = Names(t) /\ Queue(t)' = Queue(t)
    BY <2>2, HandsSame DEF Names, saver
  <2>4. chain[t] = <<>> /\ put[t].stage = "none"
    BY <2>1 DEF TabInv, PageLoadInv, TypeInv, SaverType
  <2>5. Names(t) = known[t]
    BY <2>4 DEF Names
  <2>. QED
    BY <2>1, <2>2, <2>3, <2>5, PickIsALoader DEF FreshTab, server
<1>5. ASSUME PickLoaded(t)
      PROVE  FreshTab(t)'
  <2>. DEFINE c == load[t]["pick"].doc
              d == c \cup {NextEdit}
  <2>1. /\ load[t]["pick"].stage = "read" /\ load'[t]["pick"] = NoLoad
        /\ NoLoad.stage = "idle"
        /\ \A s \in Tabs, k \in Loaders : (s # t \/ k # "pick") => load'[s][k] = load[s][k]
    BY <1>5, ForgetEffect, PickIsALoader DEF PickLoaded
  <2>2. UNCHANGED server /\ known' = known /\ page' = page
    BY <1>5 DEF PickLoaded
  <2>3. CASE UNCHANGED <<saver, by, shown>>
    <3>1. Names(t)' = Names(t) /\ Queue(t)' = Queue(t)
      BY <2>2, <2>3, HandsSame DEF Names, saver
    <3>. QED
      BY <2>1, <2>2, <2>3, <3>1, FreshQueue
  <2>4. CASE WriteNow(t, d) /\ d \in Docs
    <3>1. chain[t] = <<>> /\ page[t] # "plan" /\ put[t].stage = "none"
      BY <2>1 DEF TabInv, PickInv, TypeInv, SaverType
    <3>2. put'[t] = Sent(known[t]) /\ Sent(known[t]).stage = "sent"
      BY <2>4, <3>1, WriteNowEffect DEF TypeInv, Sent
    <3>3. Names(t)' = known[t] /\ Names(t) = known[t]
      BY <2>2, <3>1, <3>2 DEF Names
    <3>4. known[t] = version => stored \subseteq d
      BY <2>1, PickIsALoader DEF FreshTab
    <3>. HIDE DEF d
    <3>5. Queue(t)' \subseteq Queue(t) \cup {d}
      BY <2>4, WriteNowHands DEF TypeInv
    <3>. QED
      BY <2>1, <2>2, <3>1, <3>3, <3>4, <3>5, PickIsALoader DEF FreshTab, server
  <2>. QED
    BY <1>5, <2>3, <2>4, PickedEffect
<1>6. late' = late
  BY DEF LoadStep, ListRead, ListAnswered, BundleRead, LoadFails, PageLoaded, PickLoaded
<1>. QED
  BY <1>1, <1>2, <1>3, <1>4, <1>5, <1>6 DEF LoadStep

\* So does the end of a write.
LEMMA FreshEnd ==
  ASSUME TypeInv, NEW t \in Tabs, FreshTab(t), TabInv(t),
         NEW o \in {"saved", "conflict", "failed"}, known' \in [Tabs -> Nat],
         put[t].stage # "none", EndOfWrite(t, o), UNCHANGED server,
         UNCHANGED <<page, shown>>, known'[t] = Names(t) \/ known'[t] # version
  PROVE  FreshTab(t)'
<1>1. /\ chain[t] # <<>>
      /\ put'[t] = IF chain'[t] = <<>> THEN NoPut ELSE Sent(known'[t])
  BY EndOfWriteEffect DEF TypeInv
<1>2. put'[t].stage # "ok"
  BY <1>1 DEF NoPut, Sent
<1>3. Names(t)' = known'[t]
  BY <1>2 DEF Names
<1>4. Queue(t)' \subseteq Queue(t)
  BY EndOfWriteHands DEF TypeInv
<1>5. \A l \in Loaders : load'[t][l].stage # "read"
  <2>1. load[t]["page"].stage = "idle" /\ load[t]["pick"].stage \in {"idle", "flush"}
    BY <1>1 DEF TabInv, PageLoadInv, PickInv
  <2>2. \A l \in Loaders : load'[t][l].stage = "read" <=> load[t][l].stage = "read"
    BY EndOfWriteLoad DEF TypeInv
  <2>. QED
    BY <2>1, <2>2, PickIsALoader
<1>. QED
  BY <1>3, <1>4, <1>5 DEF FreshTab, server

\* So do the save queue and the network; a request left on the way is fresh.
LEMMA FreshSave ==
  ASSUME PlanSyncAssumption, TypeInv, VersionInv, NEW t \in Tabs, FreshTab(t), TabInv(t),
         SaveStep(t), UNCHANGED server
  PROVE  /\ FreshTab(t)'
         /\ \A m \in late' \ late : m.version = version => stored \subseteq m.doc
<1>1. CASE Timer(t)
  <2>1. /\ FlushPlanSave(t) /\ known' = known /\ load' = load /\ page' = page
        /\ shown' = shown /\ late' = late
    BY <1>1 DEF Timer, FlushPlanSave, ui
  <2>2. Names(t)' = Names(t) /\ Queue(t)' = Queue(t)
    BY <2>1, FreshFlush
  <2>. QED
    BY <2>1, <2>2, FreshQueue
<1>2. CASE ServerPut(t)
  <2>1. put[t].stage = "sent" /\ put'[t].stage = "stale"
    <3>1. ~ (version' = version + 1)
      BY VersionTypes DEF server
    <3>. QED
      BY <1>2, <3>1, ServerPutEffect
  <2>2. /\ known' = known /\ load' = load /\ page' = page /\ shown' = shown
        /\ late' = late /\ pending' = pending /\ chain' = chain
    BY <1>2 DEF ServerPut, ui
  <2>3. Names(t)' = Names(t) /\ Queue(t)' = Queue(t)
    BY <2>1, <2>2 DEF Names, Queue
  <2>. QED
    BY <2>2, <2>3, FreshQueue
<1>3. CASE PutAnswered(t)
  <2>1. /\ known' \in [Tabs -> Nat] /\ put[t].stage \in {"ok", "stale"}
        /\ known'[t] = IF put[t].stage = "ok" THEN put[t].version + 1 ELSE known[t]
        /\ EndOfWrite(t, IF put[t].stage = "ok" THEN "saved" ELSE "conflict")
        /\ UNCHANGED <<page, shown>> /\ late' = late
    BY <1>3, AnswerEffect
  <2>2. put[t].version = known[t]
    BY <2>1 DEF TabInv, BoardInv, TypeInv, SaverType
  <2>3. known'[t] = Names(t)
    BY <2>1, <2>2 DEF Names
  <2>4. FreshTab(t)'
    BY <2>1, <2>3, FreshEnd
  <2>. QED
    BY <2>1, <2>4
<1>4. CASE PutFails(t)
  <2>1. /\ put[t].stage # "none" /\ EndOfWrite(t, "failed") /\ known' = known
        /\ UNCHANGED <<page, shown>>
        /\ \/ late' = late
           \/ /\ put[t].stage = "sent"
              /\ late' = late \cup {[version |-> put[t].version, doc |-> Head(chain[t])]}
    BY <1>4, FailEffect
  <2>2. put[t].version = known[t] /\ chain[t] # <<>>
    BY <2>1 DEF TabInv, BoardInv, TypeInv, SaverType
  <2>3. known'[t] = Names(t) \/ known'[t] # version
    <3>1. put[t].stage = "ok" => known[t] < version
      BY <2>2 DEF VersionInv, VersionTab
    <3>2. known[t] \in Nat /\ version \in Nat
      BY VersionTypes
    <3>. QED
      BY <2>1, <3>1, <3>2 DEF Names
  <2>4. FreshTab(t)'
    BY <2>1, <2>3, FreshEnd DEF TypeInv
  <2>5. ASSUME NEW m \in late' \ late, m.version = version
        PROVE  stored \subseteq m.doc
    <3>1. put[t].stage = "sent" /\ m = [version |-> put[t].version, doc |-> Head(chain[t])]
      BY <2>1, <2>5
    <3>2. m.doc = Head(chain[t]) /\ m.version = known[t]
      BY <2>2, <3>1
    <3>3. Names(t) = version /\ Head(chain[t]) \in Queue(t)
      BY <2>2, <2>5, <3>1, <3>2, HeadIsQueued DEF Names, TypeInv
    <3>. QED
      BY <3>2, <3>3 DEF FreshTab
  <2>. QED
    BY <2>4, <2>5
<1>. QED
  BY <1>1, <1>2, <1>3, <1>4 DEF SaveStep

\* So does any step of the tab while the store is untouched.
LEMMA FreshTabStep ==
  ASSUME PlanSyncAssumption, TypeInv, Counted, VersionInv, Fresh, NEW t \in Tabs, TabInv(t),
         UserStep(t) \/ LoadStep(t) \/ SaveStep(t), t \notin hurried', UNCHANGED server
  PROVE  /\ FreshTab(t)'
         /\ \A m \in late' \ late : m.version = version => stored \subseteq m.doc
<1>1. FreshTab(t) /\ stored \subseteq doc
  BY DEF Fresh
<1>2. CASE UserStep(t)
  <2>1. FreshTab(t)' /\ late' = late
    BY <1>1, <1>2, FreshUser
  <2>. QED
    BY <2>1
<1>3. CASE LoadStep(t)
  <2>1. FreshTab(t)' /\ late' = late
    BY <1>1, <1>3, FreshLoad
  <2>. QED
    BY <2>1
<1>4. CASE SaveStep(t)
  BY <1>1, <1>4, FreshSave
<1>. QED
  BY <1>2, <1>3, <1>4

\* FreshInv is preserved.
LEMMA FreshStep ==
  ASSUME PlanSyncAssumption, TypeInv, Counted, MadeInv, VersionInv, PatientInv, FreshInv, Next
  PROVE  FreshInv'
<1>. SUFFICES ASSUME hurried' = {}
              PROVE  Fresh'
  BY DEF FreshInv
<1>1. hurried \subseteq hurried'
  BY PatientStep
<1>2. Fresh /\ \A t \in Tabs : TabInv(t)
  BY <1>1 DEF FreshInv, PatientInv
<1>3. ServerMove /\ LoadMove /\ LateMove
  BY StepIsAMove DEF StepMoves
<1>4. CASE ~ UNCHANGED server
  BY <1>2, <1>3, <1>4, FreshStored
<1>5. ASSUME NEW t \in Tabs, UserStep(t) \/ LoadStep(t) \/ SaveStep(t), UNCHANGED server
      PROVE  Fresh'
  <2>1. /\ FreshTab(t)'
        /\ \A m \in late' \ late : m.version = version => stored \subseteq m.doc
    BY <1>2, <1>5, FreshTabStep
  <2>2. Alone(t)
    BY <1>5, PatientTab
  <2>3. ASSUME NEW s \in Tabs \ {t}
        PROVE  FreshTab(s)'
    <3>1. /\ pending'[s] = pending[s] /\ chain'[s] = chain[s] /\ put'[s] = put[s]
          /\ known'[s] = known[s] /\ page'[s] = page[s] /\ shown'[s] = shown[s]
          /\ \A l \in Loaders : load'[s][l] = load[s][l]
      BY <2>2 DEF Alone
    <3>2. Queue(s)' = Queue(s)
      BY <3>1, QueueSame
    <3>. QED
      BY <1>2, <1>5, <3>1, <3>2, FreshFrame DEF Fresh
  <2>4. doc' = doc /\ version' = version /\ stored' = stored
    BY <1>5 DEF server
  <2>. QED
    BY <1>2, <2>1, <2>3, <2>4 DEF Fresh
<1>6. ASSUME LatePut, UNCHANGED server
      PROVE  Fresh'
  <2>1. /\ late' \subseteq late /\ UNCHANGED <<known, saver, ui>>
        /\ doc' = doc /\ version' = version /\ stored' = stored
    BY <1>6 DEF LatePut, server
  <2>2. ASSUME NEW s \in Tabs
        PROVE  FreshTab(s)'
    <3>1. Queue(s)' = Queue(s)
      BY <2>1, QueueSame DEF saver
    <3>. QED
      BY <1>2, <1>6, <2>1, <3>1, FreshFrame DEF Fresh, saver, ui
  <2>. QED
    BY <1>2, <2>1, <2>2 DEF Fresh
<1>. QED
  BY <1>4, <1>5, <1>6 DEF Next

-----------------------------------------------------------------------------
(* The inductive invariant, and what it gives.                             *)

IInv == TypeInv /\ Counted /\ OrderInv /\ PatientInv /\ FreshInv

\* The initial states satisfy the invariant: types and order.
LEMMA InitIsOrdered ==
  ASSUME PlanSyncAssumption, Init
  PROVE  TypeInv /\ Counted /\ OrderInv
<1>1. \A e \in Edits : by[e] = None
  BY DEF Init
<1>2. Made = {}
  BY <1>1 DEF Made
<1>3. \A t \in Tabs, l \in Loaders : load[t][l] = NoLoad
  BY DEF Init
<1>4. Picking = {}
  BY <1>3, PickIsALoader DEF Picking, NoLoad
<1>5. Counted
  BY <1>2, <1>4, FS_EmptySet DEF Counted, PlanSyncAssumption
<1>6. /\ \A t \in Tabs : known[t] = 0 /\ pending[t] = None /\ chain[t] = <<>> /\ put[t] = NoPut
      /\ \A t \in Tabs : page[t] = "away" /\ shown[t] = None
      /\ late = {} /\ stored = {} /\ doc = {} /\ version = 1
  BY DEF Init
<1>7. TypeInv
  <2>1. ServerType
    BY <1>6 DEF ServerType, Docs
  <2>2. SaverType
    <3>1. <<>> \in Seq(Docs)
      OBVIOUS
    <3>2. chain \in [Tabs -> Seq(Docs)]
      BY <3>1 DEF Init
    <3>3. put \in [Tabs -> Put]
      BY RecordTypes DEF Init
    <3>. QED
      BY <1>6, <3>2, <3>3 DEF SaverType, Init, NoPut
  <2>3. LoadType
    <3>1. [l \in Loaders |-> NoLoad] \in [Loaders -> Load]
      BY RecordTypes
    <3>2. load \in [Tabs -> [Loaders -> Load]]
      BY <3>1 DEF Init
    <3>3. NoLoad.stage = "idle"
      BY DEF NoLoad
    <3>. QED
      BY <1>3, <3>2, <3>3, PickIsALoader DEF LoadType
  <2>. QED
    BY <2>1, <2>2, <2>3 DEF TypeInv, BoardType, HistoryType, Init
<1>8. \A t \in Tabs : Queue(t) = {} /\ Waiting(t) = {}
  <2>. SUFFICES ASSUME NEW t \in Tabs
                PROVE  Queue(t) = {} /\ Waiting(t) = {}
    OBVIOUS
  <2>1. DOMAIN chain[t] = {} /\ pending[t] = None
    BY <1>6
  <2>. QED
    BY <2>1 DEF Queue, Waiting
<1>9. /\ NoPut.version = 0 /\ NoPut.stage = "none"
      /\ NoLoad.version = 0 /\ NoLoad.stage = "idle" /\ NoLoad.doc = {}
  BY DEF NoPut, NoLoad
<1>10. MadeInv
  BY <1>3, <1>6, <1>8, <1>9 DEF MadeInv, InHand
<1>11. VersionInv
  BY <1>3, <1>6, <1>9 DEF VersionInv, VersionTab
<1>12. OrderedInv
  BY <1>6 DEF OrderedInv, OrderedTab
<1>13. SignedInv /\ BorrowedInv /\ AheadInv /\ LateInv
  BY <1>3, <1>6, <1>8, <1>9 DEF SignedInv, BorrowedInv, AheadInv, LateInv, InHand
<1>. QED
  BY <1>5, <1>7, <1>10, <1>11, <1>12, <1>13 DEF OrderInv

\* And what patient tabs ensure.
LEMMA InitIsPatient ==
  ASSUME PlanSyncAssumption, Init
  PROVE  PatientInv /\ FreshInv
<1>1. /\ \A t \in Tabs, l \in Loaders : load[t][l] = NoLoad
      /\ \A t \in Tabs : known[t] = 0 /\ pending[t] = None /\ chain[t] = <<>> /\ put[t] = NoPut
      /\ \A t \in Tabs : page[t] = "away" /\ shown[t] = None
      /\ late = {} /\ stored = {} /\ doc = {} /\ version = 1
  BY DEF Init
<1>2. /\ NoPut.stage = "none" /\ NoLoad.stage = "idle" /\ NoPut.version = 0
  BY DEF NoPut, NoLoad
<1>3. \A t \in Tabs : DOMAIN chain[t] = {}
  BY <1>1
<1>4. BusyInv
  BY <1>1 DEF BusyInv, Busy
<1>5. ASSUME NEW t \in Tabs
      PROVE  TabInv(t) /\ FreshTab(t)
  <2>1. PageLoadInv(t) /\ PickInv(t) /\ SavedInv(t)
    BY <1>1, <1>2, PickIsALoader DEF PageLoadInv, PickInv, SavedInv
  <2>2. BoardInv(t)
    BY <1>1, <1>2, <1>3 DEF BoardInv, Nested
  <2>3. FreshTab(t)
    BY <1>1, <1>2 DEF FreshTab, Names
  <2>. QED
    BY <2>1, <2>2, <2>3 DEF TabInv
<1>. QED
  BY <1>1, <1>4, <1>5 DEF PatientInv, FreshInv, Fresh

\* Every step, stuttering included, preserves the invariant.
LEMMA IInvStep ==
  ASSUME PlanSyncAssumption, IInv, [Next]_vars
  PROVE  IInv'
<1>1. CASE Next
  <2>1. TypeInv' /\ Counted'
    BY <1>1, TypeStep DEF IInv
  <2>2. OrderInv'
    BY <1>1, OrderStep DEF IInv
  <2>3. PatientInv' /\ FreshInv'
    BY <1>1, PatientStep, FreshStep DEF IInv, OrderInv
  <2>. QED
    BY <2>1, <2>2, <2>3 DEF IInv
<1>2. CASE UNCHANGED vars
  <2>1. TypeInv' /\ Counted'
    BY <1>2 DEF IInv, vars, TypeInv, ServerType, SaverType, LoadType, BoardType, HistoryType,
                Counted, Made, Picking
  <2>2. \A t \in Tabs : Queue(t)' = Queue(t) /\ Waiting(t)' = Waiting(t) /\ InHand(t)' = InHand(t)
    BY <1>2 DEF vars, Queue, Waiting, InHand
  <2>3. MadeInv' /\ VersionInv'
    BY <1>2, <2>2 DEF IInv, vars, OrderInv, MadeInv, VersionInv, VersionTab, Made
  <2>4. SignedInv' /\ BorrowedInv'
    BY <1>2, <2>2 DEF IInv, vars, OrderInv, SignedInv, Signed, BorrowedInv, Borrowed
  <2>5. OrderedInv' /\ AheadInv' /\ LateInv'
    BY <1>2, <2>2 DEF IInv, vars, OrderInv, OrderedInv, OrderedTab, AheadInv, Ahead, LateInv
  <2>6. PatientInv'
    <3>1. \A t \in Tabs \ hurried' : TabInv(t)'
      BY <1>2, TabFrame DEF IInv, vars, PatientInv
    <3>. QED
      BY <1>2, <3>1 DEF IInv, vars, PatientInv, BusyInv, Busy
  <2>7. FreshInv'
    <3>1. hurried' = hurried /\ UNCHANGED server
      BY <1>2 DEF vars, server
    <3>2. \A t \in Tabs : FreshTab(t) => FreshTab(t)'
      BY <1>2, <2>2, FreshFrame DEF vars, server
    <3>. QED
      BY <1>2, <3>1, <3>2 DEF IInv, vars, FreshInv, Fresh
  <2>. QED
    BY <2>1, <2>3, <2>4, <2>5, <2>6, <2>7 DEF IInv, OrderInv
<1>. QED
  BY <1>1, <1>2

\* The invariant implies the two properties the runs check.
LEMMA IInvGives ==
  ASSUME PlanSyncAssumption, IInv
  PROVE  PatientUsersLoseNothing /\ SavedMeansStored
<1>1. TypeInv /\ stored \subseteq Made
  BY DEF IInv, OrderInv, MadeInv
<1>2. \A t \in Tabs : \A i \in DOMAIN chain[t] : chain[t][i] \in Docs
  <2>. SUFFICES ASSUME NEW t \in Tabs, NEW i \in DOMAIN chain[t]
                PROVE  chain[t][i] \in Docs
    OBVIOUS
  <2>1. chain[t] \in Seq(Docs)
    BY <1>1 DEF TypeInv, SaverType
  <2>. QED
    BY <2>1
<1>3. TypeOK
  BY <1>1, <1>2 DEF TypeOK, TypeInv, ServerType, SaverType, LoadType, BoardType, HistoryType
<1>4. hurried = {} => stored \subseteq doc
  BY DEF IInv, FreshInv, Fresh
<1>5. \A t \in Tabs \ hurried : SavedInv(t)
  BY DEF IInv, PatientInv, TabInv
<1>. QED
  BY <1>3, <1>4, <1>5 DEF PatientUsersLoseNothing, NoLostUpdate, SavedMeansStored, SavedInv

\* The invariant holds in every behaviour.
LEMMA IInvHolds == Spec => []IInv
<1>1. Init => IInv
  BY PlanSyncAssumption, InitIsOrdered, InitIsPatient DEF IInv
<1>2. IInv /\ [Next]_vars => IInv'
  BY PlanSyncAssumption, IInvStep
<1>. QED
  BY <1>1, <1>2, PTL DEF Spec

(* No accepted edit is overwritten while every user waits for a save to    *)
(* end before opening another page or closing the tab: whatever the tabs   *)
(* interleave, whatever the network loses, delays or delivers after its    *)
(* tab gave up (save_plan's version guard, planSaver.ts, loadBundle).      *)
THEOREM PatientUsersKeepTheirEdits == Spec => []PatientUsersLoseNothing
<1>1. IInv => PatientUsersLoseNothing
  BY PlanSyncAssumption, IInvGives
<1>. QED
  BY <1>1, IInvHolds, PTL

(* "Saved" on the screen of a patient user means that the document on the  *)
(* board has been stored (settle of planSaver.ts shows an outcome only     *)
(* when nothing is queued behind it).                                      *)
THEOREM SavedIsTrue == Spec => []SavedMeansStored
<1>1. IInv => SavedMeansStored
  BY PlanSyncAssumption, IInvGives
<1>. QED
  BY <1>1, IInvHolds, PTL

(* A document never lands after a newer one of the same tab, also when its *)
(* request was given up and arrives late: for every user, hurried or not   *)
(* ("a later plan never lands before an earlier one", planSaver.ts).       *)
THEOREM NeverOutOfOrder == Spec => InOrder
<1>1. IInv /\ [Next]_vars =>
        [version' # version =>
           \A e \in stored : by[e] = by[Newest(doc')] => e < Newest(doc')]_vars
  <2>. SUFFICES ASSUME IInv, Next, version' # version
                PROVE  \A e \in stored : by[e] = by[Newest(doc')] => e < Newest(doc')
    OBVIOUS
  <2>. QED
    BY PlanSyncAssumption, StoredInOrder DEF IInv
<1>. QED
  BY <1>1, IInvHolds, PTL DEF Spec, InOrder
=============================================================================
