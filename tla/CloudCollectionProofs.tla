------------------------ MODULE CloudCollectionProofs ------------------------
(***************************************************************************)
(* Proofs about CloudCollection: its inductive invariant IInv, that a      *)
(* token never runs ahead of the rows kept with it, and that what an       *)
(* operation reports as a success is true.                                 *)
(***************************************************************************)
EXTENDS CloudCollectionInv, OperationQueueProofs, FiniteSetTheorems, WellFoundedInduction

USE DEF serverVars, stateVars

(***************************************************************************)
(* Numbers and counting.                                                   *)
(***************************************************************************)
LEMMA MinExists ==
    ASSUME NEW S \in SUBSET Nat, S # {} PROVE \E m \in S : \A s \in S : m <= s
<1>1. PICK m \in S : \A s \in S : ~(<<s, m>> \in OpToRel(<, Nat))
  BY WFMin, NatLessThanWellFounded
<1>2. \A s \in S : s \in Nat /\ m \in Nat /\ ~(s < m)
  BY <1>1 DEF OpToRel
<1>. QED
  BY <1>2

LEMMA MaxExists ==
    ASSUME NEW S \in SUBSET Nat, S # {}, NEW b \in Nat, \A s \in S : s <= b
    PROVE  \E m \in S : \A s \in S : s <= m
<1>. DEFINE T == {b - s : s \in S}
<1>1. T \in SUBSET Nat /\ T # {}
  <2>1. \A s \in S : b - s \in Nat
    OBVIOUS
  <2>. QED
    BY <2>1
<1>2. PICK t \in T : \A u \in T : t <= u
  BY <1>1, MinExists
<1>3. PICK m \in S : t = b - m
  OBVIOUS
<1>4. \A s \in S : b - s \in T
  OBVIOUS
<1>5. \A s \in S : s \in Nat /\ b - m <= b - s
  BY <1>2, <1>3, <1>4
<1>. QED
  BY <1>3, <1>5

LEMMA ItemsFinite ==
    /\ Items \subseteq Nat \ {0} /\ 1 \in Items
    /\ \A S \in SUBSET Items : IsFiniteSet(S) /\ Cardinality(S) \in Nat
    /\ \A S, T \in SUBSET Items : S \subseteq T => Cardinality(S) <= Cardinality(T)
<1>1. Items \subseteq Nat \ {0} /\ 1 \in Items /\ IsFiniteSet(Items)
  BY CloudAssumption, FS_Interval DEF Items
<1>2. \A S \in SUBSET Items : IsFiniteSet(S) /\ Cardinality(S) \in Nat
  BY <1>1, FS_Subset, FS_CardinalityType
<1>. QED
  BY <1>1, <1>2, FS_Subset

(* The place of an item in a listing: it counts those before it.           *)
LEMMA PlaceFacts ==
    ASSUME NEW i \in Items
    PROVE  /\ Place(i) \in Nat
           /\ There(i) => Place(i) >= 1
           /\ \A j \in Items : j <= i => Place(j) <= Place(i)
           /\ \A j \in Items : j < i /\ There(i) => Place(j) < Place(i)
<1>. DEFINE Upto(j) == {k \in 1..j : There(k)}
<1>1. \A j \in Items : Upto(j) \in SUBSET Items /\ Place(j) = Cardinality(Upto(j))
  BY CloudAssumption DEF Items, Place
<1>2. \A j \in Items : Place(j) \in Nat
  BY <1>1, ItemsFinite
<1>3. \A j \in Items : j <= i => Place(j) <= Place(i)
  <2>1. ASSUME NEW j \in Items, j <= i PROVE Upto(j) \subseteq Upto(i)
    BY <2>1, CloudAssumption DEF Items
  <2>. QED
    BY <1>1, <2>1, ItemsFinite
<1>4. There(i) => Place(i) >= 1
  <2>1. There(i) => i \in Upto(i)
    BY ItemsFinite
  <2>2. There(i) => Upto(i) # {}
    BY <2>1
  <2>3. Upto(i) # {} => Cardinality(Upto(i)) # 0
    BY <1>1, ItemsFinite, FS_EmptySet
  <2>. QED
    BY <1>1, <1>2, <2>2, <2>3
<1>5. ASSUME NEW j \in Items, j < i, There(i) PROVE Place(j) < Place(i)
  <2>1. i \notin Upto(j) /\ Upto(j) \union {i} \in SUBSET Upto(i)
    BY <1>5, CloudAssumption DEF Items
  <2>2. Cardinality(Upto(j) \union {i}) = Cardinality(Upto(j)) + 1
    BY <1>1, <2>1, ItemsFinite, FS_AddElement
  <2>3. Cardinality(Upto(j) \union {i}) <= Cardinality(Upto(i))
    BY <1>1, <2>1, ItemsFinite
  <2>. QED
    BY <1>1, <1>2, <2>2, <2>3
<1>. QED
  BY <1>2, <1>3, <1>4, <1>5

(***************************************************************************)
(* A page.                                                                 *)
(***************************************************************************)
AllKinds == {"calendar", "people", "tasks", "delta", "lists"}

LEMMA FurthestIsMax ==
    ASSUME walk.at \in Nat, NEW keys \in SUBSET Nat, NEW b \in Nat, \A k \in keys : k <= b
    PROVE  /\ Furthest(keys) \in keys \union {walk.at}
           /\ \A k \in keys \union {walk.at} : k <= Furthest(keys)
<1>. DEFINE S == keys \union {walk.at}
<1>1. S \in SUBSET Nat /\ S # {}
  OBVIOUS
<1>2. \A s \in S : s <= b + walk.at /\ b + walk.at \in Nat
  OBVIOUS
<1>3. \E m \in S : \A s \in S : s <= m
  BY <1>1, <1>2, MaxExists
<1>. QED
  BY <1>3 DEF Furthest

(* A page is what comes first of what has still to be given.               *)
LEMMA PageIsPrefix ==
    ASSUME BudgetTyped, ServerTyped
    PROVE  /\ Page \subseteq Listed /\ Listed \subseteq Items
           /\ \A i \in Page, j \in Listed : ~Before(i, j) => j \in Page
<1>1. Page \subseteq Listed /\ Listed \subseteq Items
  BY DEF Page, Listed, BudgetTyped
<1>2. ASSUME NEW i \in Page, NEW j \in Listed, ~Before(i, j) PROVE j \in Page
  <2>. DEFINE Ahead(k) == {l \in Listed : Before(l, k)}
  <2>1. i \in Items /\ j \in Items
    BY <1>1
  <2>2. \A k \in Items : k \in Nat /\ changed[k] \in Nat
    BY ItemsFinite DEF ServerTyped
  <2>3. \A l \in Listed : Before(l, j) => Before(l, i)
    BY <1>1, <1>2, <2>1, <2>2 DEF Before
  <2>4. Ahead(j) \subseteq Ahead(i) /\ Ahead(i) \in SUBSET Items /\ Ahead(j) \in SUBSET Items
    BY <1>1, <2>3
  <2>5. /\ Cardinality(Ahead(j)) <= Cardinality(Ahead(i))
        /\ Cardinality(Ahead(j)) \in Nat /\ Cardinality(Ahead(i)) \in Nat
    BY <2>4, ItemsFinite
  <2>6. Cardinality(Ahead(i)) < PageSize
    BY DEF Page
  <2>7. Cardinality(Ahead(j)) < PageSize
    BY <2>5, <2>6, CloudAssumption
  <2>. QED
    BY <2>7 DEF Page
<1>. QED
  BY <1>1, <1>2

(* How far a walk by items has come after a page.                          *)
LEMMA AfterItemPage ==
    ASSUME BudgetTyped, ServerTyped, WalkTyped, Kind \in {"calendar", "people", "tasks"}
    PROVE  /\ AtAfterPage \in Nat /\ walk.at <= AtAfterPage
           /\ \A i \in Page : i <= AtAfterPage /\ i > walk.at
           /\ \A i \in Listed : i <= AtAfterPage => i \in Page
<1>1. /\ walk.at \in Nat /\ Page \in SUBSET Nat /\ Page \subseteq Listed /\ Listed \subseteq Items
      /\ Last \in Nat /\ \A i \in Page : i <= Last
  BY PageIsPrefix, ItemsFinite, CloudAssumption DEF WalkTyped, Walks, Items
<1>2. AtAfterPage = Furthest(Page)
  BY DEF AtAfterPage
<1>3. /\ AtAfterPage \in Page \union {walk.at}
      /\ \A k \in Page \union {walk.at} : k <= AtAfterPage
  BY <1>1, <1>2, FurthestIsMax
<1>4. \A i \in Listed : i > walk.at
  BY DEF Listed
<1>5. ASSUME NEW i \in Listed, i <= AtAfterPage PROVE i \in Page
  <2>1. i \in Nat /\ i > walk.at /\ AtAfterPage \in Nat
    BY <1>1, <1>3, <1>4, ItemsFinite
  <2>2. AtAfterPage \in Page /\ ~Before(AtAfterPage, i)
    BY <1>1, <1>3, <1>5, <2>1 DEF Before
  <2>. QED
    BY <2>2, PageIsPrefix
<1>. QED
  BY <1>1, <1>3, <1>4, <1>5

(* The same of a walk by changes.                                          *)
LEMMA AfterDeltaPage ==
    ASSUME BudgetTyped, ServerTyped, WalkTyped, Kind = "delta"
    PROVE  /\ AtAfterPage \in 0..seq /\ walk.at <= AtAfterPage
           /\ \A i \in Page : changed[i] <= AtAfterPage
           /\ \A i \in Listed : changed[i] <= AtAfterPage => i \in Page
<1>. DEFINE keys == {changed[i] : i \in Page}
<1>1. /\ walk.at \in Nat /\ walk.at <= seq /\ seq \in Nat
      /\ Page \subseteq Listed /\ Listed \subseteq Items
      /\ \A i \in Items : changed[i] \in Nat /\ changed[i] <= seq
  BY PageIsPrefix DEF WalkTyped, Walks, ServerTyped
<1>2. keys \in SUBSET Nat /\ \A k \in keys : k <= seq
  BY <1>1
<1>3. AtAfterPage = Furthest(keys)
  BY DEF AtAfterPage
<1>4. /\ AtAfterPage \in keys \union {walk.at}
      /\ \A k \in keys \union {walk.at} : k <= AtAfterPage
  BY <1>1, <1>2, <1>3, FurthestIsMax
<1>5. \A i \in Listed : changed[i] > walk.at
  BY DEF Listed
<1>6. AtAfterPage \in 0..seq
  BY <1>1, <1>4
<1>7. ASSUME NEW i \in Listed, changed[i] <= AtAfterPage PROVE i \in Page
  <2>1. AtAfterPage # walk.at
    BY <1>1, <1>5, <1>6, <1>7
  <2>2. PICK k \in Page : AtAfterPage = changed[k]
    BY <1>4, <2>1
  <2>3. ~Before(k, i)
    BY <1>1, <1>7, <2>2 DEF Before
  <2>. QED
    BY <2>3, PageIsPrefix
<1>. QED
  BY <1>1, <1>4, <1>6, <1>7

(* The same of a walk by offsets: exactly as many as were given are passed.*)
LEMMA AfterOffsetPage ==
    ASSUME BudgetTyped, ServerTyped, WalkTyped, Kind = "lists"
    PROVE  /\ AtAfterPage \in Nat
           /\ \A i \in Listed \ Page : Place(i) > AtAfterPage
<1>1. Page \subseteq Listed /\ Listed \subseteq Items /\ walk.at \in Nat
  BY PageIsPrefix DEF WalkTyped, Walks
<1>2. AtAfterPage = walk.at + Cardinality(Page) /\ Cardinality(Page) \in Nat
  BY <1>1, ItemsFinite DEF AtAfterPage
<1>3. \A i \in Items : i \in Listed <=> There(i) /\ Place(i) > walk.at
  BY DEF Listed
<1>4. ASSUME NEW i \in Listed \ Page PROVE Place(i) > AtAfterPage
  <2>. DEFINE passed == {j \in Items : There(j) /\ Place(j) <= walk.at}
  <2>1. Cardinality(passed) >= walk.at
    <3>1. PICK first \in Listed : \A j \in Listed : first <= j
      BY <1>1, <1>4, ItemsFinite, MinExists
    <3>. DEFINE upto == {j \in 1..first : There(j)}
    <3>2. upto \subseteq passed \union {first}
      <4>1. ASSUME NEW j \in upto, j # first PROVE j \in passed
        <5>1. j \in Items /\ There(j) /\ j < first
          BY <4>1, <1>1, <3>1, CloudAssumption DEF Items
        <5>2. j \notin Listed
          BY <5>1, <3>1, <1>1, ItemsFinite
        <5>3. Place(j) \in Nat
          BY <5>1, PlaceFacts
        <5>. QED
          BY <5>1, <5>2, <5>3, <1>1, <1>3
      <4>. QED
        BY <4>1
    <3>3. /\ first \in Items /\ passed \in SUBSET Items
          /\ passed \union {first} \in SUBSET Items /\ upto \in SUBSET Items
      BY <1>1, <3>1, <3>2
    <3>4. Cardinality(upto) <= Cardinality(passed) + 1
      <4>1. Cardinality(passed \union {first}) <= Cardinality(passed) + 1
        BY <3>3, ItemsFinite, FS_AddElement
      <4>. QED
        BY <4>1, <3>2, <3>3, ItemsFinite
    <3>5. Place(first) = Cardinality(upto) /\ Place(first) > walk.at
      BY <1>3, <3>1, <3>3 DEF Place
    <3>. QED
      BY <3>3, <3>4, <3>5, <1>1, ItemsFinite, PlaceFacts
  <2>. DEFINE upto == {j \in 1..i : There(j)}
  <2>2. /\ i \in Items /\ There(i) /\ Place(i) > walk.at /\ Place(i) = Cardinality(upto)
        /\ upto \in SUBSET Items /\ passed \in SUBSET Items /\ i \notin passed
    BY <1>1, <1>3, <1>4, PlaceFacts, CloudAssumption DEF Place, Items
  <2>3. \A j \in Page : j < i
    <3>1. ASSUME NEW j \in Page, ~(j < i) PROVE FALSE
      BY <3>1, <1>1, <1>4, <2>2, ItemsFinite, PageIsPrefix DEF Before
    <3>. QED
      BY <3>1
  <2>4. \A j \in passed : j < i
    <3>1. ASSUME NEW j \in passed, ~(j < i) PROVE FALSE
      <4>1. i <= j /\ j \in Items
        BY <3>1, <2>2, ItemsFinite
      <4>2. Place(i) <= Place(j)
        BY <4>1, <2>2, PlaceFacts
      <4>. QED
        BY <4>1, <4>2, <2>2, <3>1, <1>1, PlaceFacts
    <3>. QED
      BY <3>1
  <2>5. passed \intersect Page = {} /\ i \notin passed \union Page
    BY <1>1, <1>3, <1>4, <2>2, PlaceFacts
  <2>6. (passed \union Page) \union {i} \subseteq upto
    <3>1. \A j \in passed \union Page : j \in Items /\ There(j) /\ j < i
      BY <1>1, <1>3, <2>3, <2>4
    <3>2. \A j \in Items : j <= i => j \in 1..i
      BY <2>2, CloudAssumption DEF Items
    <3>3. \A j \in passed \union Page : j <= i
      BY <3>1, <2>2, ItemsFinite
    <3>4. i <= i
      BY <2>2, ItemsFinite
    <3>. QED
      BY <3>1, <3>2, <3>3, <3>4, <2>2
  <2>. HIDE DEF passed, upto
  <2>7. Cardinality(passed \union Page) = Cardinality(passed) + Cardinality(Page)
    <3>1. /\ IsFiniteSet(passed) /\ IsFiniteSet(Page) /\ Cardinality(passed \intersect Page) = 0
          /\ Cardinality(passed) \in Nat /\ Cardinality(Page) \in Nat
      BY <1>1, <2>2, <2>5, ItemsFinite, FS_EmptySet
    <3>2. Cardinality(passed \union Page) =
             Cardinality(passed) + Cardinality(Page) - Cardinality(passed \intersect Page)
      BY <3>1, FS_Union
    <3>. QED
      BY <3>1, <3>2
  <2>8. Cardinality((passed \union Page) \union {i}) = Cardinality(passed \union Page) + 1
    BY <1>1, <2>2, <2>5, ItemsFinite, FS_AddElement
  <2>9. Cardinality((passed \union Page) \union {i}) <= Cardinality(upto)
    BY <2>2, <2>6, ItemsFinite
  <2>. QED
    BY <1>1, <1>2, <2>1, <2>2, <2>7, <2>8, <2>9, ItemsFinite
<1>. QED
  BY <1>1, <1>2, <1>4

(* What a page says of an item is true.                                    *)
LEMMA RowTrue ==
    ASSUME BudgetTyped, ServerTyped, WalkTyped, NEW i \in Items, NEW skeleton
    PROVE  Row(i, skeleton) \in RowType /\ Agrees(Row(i, skeleton), server[i])
<1>1. server[i] \in RowType /\ walk.prev[i] \in RowType /\ walk.cache[i] \in RowType
  BY DEF ServerTyped, WalkTyped, Walks, Rows
<1>2. Gone \in RowType /\ (~There(i) => server[i] = Gone)
  BY DEF Gone, RowType, There
<1>3. \A row, old \in RowType :
         /\ Filled(row, old) \in RowType /\ Filled(row, old).main = row.main
         /\ row.note # 0 => Filled(row, old).note = row.note
  BY DEF Filled, RowType
<1>4. CASE Kind = "calendar"
  BY <1>1, <1>4 DEF Row, EventRow, Agrees
<1>5. CASE Kind \in {"people", "tasks"}
  BY <1>1, <1>2, <1>3, <1>5 DEF Row, PersonRow, TaskRow, Agrees
<1>6. CASE Kind = "lists"
  BY <1>1, <1>3, <1>6 DEF Row, ListRow, Agrees
<1>7. CASE Kind = "delta"
  <2>1. [server[i] EXCEPT !.note = 0] \in RowType
        /\ [server[i] EXCEPT !.note = 0].main = server[i].main
    BY <1>1 DEF RowType
  <2>. QED
    BY <1>1, <1>2, <1>3, <1>7, <2>1 DEF Row, DeltaRow, Agrees
<1>. QED
  BY <1>4, <1>5, <1>6, <1>7 DEF BudgetTyped

(***************************************************************************)
(* A change of the server.                                                 *)
(***************************************************************************)
(* What may happen is spent, what was asked for stays.                     *)
SameBudget ==
    /\ BudgetTyped'
    /\ budget'.kind = budget.kind
    /\ budget'.fetches = budget.fetches /\ budget'.writes = budget.writes

LEMMA SpendKeeps ==
    ASSUME BudgetTyped,
           \/ UNCHANGED budget
           \/ \E what \in {"foreign", "troubles", "cancels", "restarts"} : Spend(what)
    PROVE  SameBudget
BY DEF SameBudget, BudgetTyped, Spend, Kind, IsFetch, Wanted

LEMMA PlaceAfterChange ==
    ASSUME ServerTyped, NEW i \in Items, NEW row, server' = [server EXCEPT ![i] = row],
           NEW j \in Items
    PROVE  /\ Place(j)' \in Nat /\ Place(j) \in Nat
           /\ row # Gone => Place(j)' >= Place(j)
           /\ Place(j)' >= Place(j) - 1
           /\ j < i => Place(j)' = Place(j)
<1>. DEFINE before == {k \in 1..j : There(k)}
            after == {k \in 1..j : server'[k] # Gone}
<1>1. 1..j \subseteq Items
  BY CloudAssumption DEF Items
<1>2. Place(j) = Cardinality(before) /\ Place(j)' = Cardinality(after)
  BY DEF Place, There
<1>3. before \in SUBSET Items /\ after \in SUBSET Items /\ after \union {i} \in SUBSET Items
  BY <1>1
<1>4. \A k \in Items : server'[k] = IF k = i THEN row ELSE server[k]
  BY DEF ServerTyped, Rows
<1>5. before \subseteq after \union {i} /\ (row # Gone => before \subseteq after)
  BY <1>1, <1>4 DEF There
<1>6. j < i => before = after
  BY <1>1, <1>4, CloudAssumption DEF There, Items
<1>. HIDE DEF before, after
<1>7. Cardinality(before) \in Nat /\ Cardinality(after) \in Nat /\ IsFiniteSet(after)
  BY <1>3, ItemsFinite
<1>8. Cardinality(before) <= Cardinality(after) + 1
  <2>1. Cardinality(before) <= Cardinality(after \union {i})
    BY <1>3, <1>5, ItemsFinite
  <2>2. Cardinality(after \union {i}) \in Nat /\ Cardinality(after \union {i}) <= Cardinality(after) + 1
    BY <1>3, <1>7, ItemsFinite, FS_AddElement
  <2>. QED
    BY <1>7, <2>1, <2>2
<1>9. row # Gone => Cardinality(before) <= Cardinality(after)
  BY <1>3, <1>5, ItemsFinite
<1>. QED
  BY <1>2, <1>6, <1>7, <1>8, <1>9

(* No change of the server hurts a walk, a token or the rows kept.         *)
LEMMA ChangeInv ==
    ASSUME BudgetTyped, ReadInv, SameBudget, UNCHANGED <<stateVars, walk>>,
           NEW i \in Items, NEW row \in RowType, Change(i, row)
    PROVE  ReadInv'
<1>. USE DEF ReadInv
<1>1. /\ seq' = seq + 1 /\ changed' = [changed EXCEPT ![i] = seq + 1]
      /\ server' = [server EXCEPT ![i] = row]
      /\ was' = IF Walking THEN [was EXCEPT ![i] = @ \union {row}] ELSE was
      /\ missed \subseteq missed'
      /\ Kind = "lists" /\ Walking /\ row = Gone /\ Place(i) <= walk.at =>
            \A j \in Items : There(j) /\ Place(j) = walk.at + 1 => j \in missed'
  BY DEF Change
<1>2. /\ Kind' = Kind /\ (HasToken' <=> HasToken) /\ (Walking' <=> Walking)
      /\ \A r, q : Agrees(r, q)' <=> Agrees(r, q)
  BY DEF SameBudget, Kind, HasToken, Walking, Agrees
<1>3. /\ seq \in Nat \ {0} /\ seq' \in Nat \ {0} /\ changed' \in [Items -> 0..seq'] /\ server' \in Rows
      /\ was' \in [Items -> SUBSET RowType]
      /\ changed'[i] = seq + 1 /\ server'[i] = row
      /\ \A j \in Items : changed[j] \in Nat /\ changed[j] <= seq
      /\ \A j \in Items : j # i => changed'[j] = changed[j] /\ server'[j] = server[j]
      /\ \A j \in Items : was[j] \subseteq was'[j]
      /\ Walking => row \in was'[i]
  <2>1. seq \in Nat \ {0} /\ changed \in [Items -> 0..seq] /\ server \in Rows
        /\ was \in [Items -> SUBSET RowType]
    BY DEF ServerTyped
  <2>2. changed' \in [Items -> 0..seq']
    BY <1>1, <2>1
  <2>3. was' \in [Items -> SUBSET RowType] /\ (Walking => row \in was'[i])
        /\ \A j \in Items : was[j] \subseteq was'[j]
    BY <1>1, <2>1
  <2>. QED
    BY <1>1, <2>1, <2>2, <2>3 DEF Rows
<1>4. ServerTyped'
  BY <1>1, <1>2, <1>3 DEF ServerTyped
<1>5. WalkTyped'
  <2>1. \A n \in Nat : n <= seq => n <= seq'
    BY <1>1, <1>3
  <2>2. walk' = walk /\ walk.token \in Nat /\ walk.start \in Nat /\ walk.at \in Nat
    BY DEF WalkTyped, Walks
  <2>. QED
    BY <1>2, <2>1, <2>2 DEF WalkTyped
<1>6. ASSUME NEW t \in Nat, t <= seq, NEW j \in Items, changed'[j] <= t
      PROVE  j # i /\ changed[j] <= t /\ server'[j] = server[j]
  BY <1>3, <1>6
<1>7. ASSUME NEW t \in Nat, t <= seq, NEW rs, CoversUpTo(t, rs)
      PROVE  CoversUpTo(t, rs)'
  BY <1>2, <1>6, <1>7 DEF CoversUpTo
<1>8. StateAtToken'
  <2>1. token \in Nat /\ token <= seq /\ disk.token \in Nat /\ disk.token <= seq
    BY DEF ServerTyped
  <2>. QED
    BY <1>2, <1>7, <2>1 DEF StateAtToken, AtToken, CoversUpTo
<1>9. WasNow'
  BY <1>2, <1>3 DEF WasNow
<1>10. ItemWalk'
  <2>. SUFFICES ASSUME Walking, Kind \in {"calendar", "people", "tasks"}
                PROVE  ItemWalk'
    BY <1>2 DEF ItemWalk
  <2>1. walk' = walk /\ walk.token \in Nat /\ walk.token <= seq
        /\ walk.start \in Nat /\ walk.start <= seq
    BY DEF WalkTyped, Walks
  <2>2. ASSUME NEW j \in Items, j <= walk.at
        PROVE  /\ \E r \in was'[j] : Agrees(walk.cache[j], r)
               /\ HasToken /\ changed'[j] <= walk.start => Agrees(walk.cache[j], server'[j])
    BY <2>1, <2>2, <1>3, <1>6 DEF ItemWalk
  <2>3. ASSUME NEW j \in Items, j > walk.at
        PROVE  /\ changed'[j] <= walk.token => Agrees(walk.cache[j], server'[j])
               /\ walk.token = 0 => walk.cache[j] = Gone
    BY <2>1, <2>3, <1>3, <1>6 DEF ItemWalk
  <2>. QED
    BY <2>1, <2>2, <2>3, <1>2 DEF ItemWalk
<1>11. DeltaWalk'
  <2>1. walk' = walk /\ walk.at \in Nat /\ (Kind = "delta" => walk.at <= seq)
    BY DEF WalkTyped, Walks
  <2>. QED
    BY <1>2, <1>7, <2>1 DEF DeltaWalk, CoversUpTo
<1>12. OffsetWalk'
  <2>. SUFFICES ASSUME Walking, Kind = "lists", NEW j \in Items \ missed'
                PROVE  \/ \E r \in was'[j] : Agrees(walk.cache[j], r)
                       \/ There(j)' /\ Place(j)' > walk.at /\ walk.cache[j] = Gone
    BY <1>2 DEF OffsetWalk
  <2>1. \/ \E r \in was[j] : Agrees(walk.cache[j], r)
        \/ There(j) /\ Place(j) > walk.at /\ walk.cache[j] = Gone
    BY <1>1 DEF OffsetWalk
  <2>2. CASE \E r \in was[j] : Agrees(walk.cache[j], r)
    BY <2>2, <1>3
  <2>3. CASE There(j) /\ Place(j) > walk.at /\ walk.cache[j] = Gone
    <3>1. /\ Place(j)' \in Nat /\ Place(j) \in Nat /\ walk.at \in Nat
          /\ row # Gone => Place(j)' >= Place(j)
          /\ Place(j)' >= Place(j) - 1
          /\ j < i => Place(j)' = Place(j)
      <4>1. walk.at \in Nat
        BY DEF WalkTyped, Walks
      <4>2. j \in Items /\ server' = [server EXCEPT ![i] = row] /\ ServerTyped
        BY <1>1
      <4>3. /\ Place(j)' \in Nat /\ Place(j) \in Nat
            /\ row # Gone => Place(j)' >= Place(j)
            /\ Place(j)' >= Place(j) - 1
            /\ j < i => Place(j)' = Place(j)
        BY <4>2, PlaceAfterChange
      <4>. QED
        BY <4>1, <4>3
    <3>2. CASE row # Gone
      BY <3>1, <3>2, <2>3, <1>3 DEF There
    <3>3. CASE row = Gone /\ j = i
      BY <3>3, <2>3, <1>3 DEF Agrees, Gone
    <3>4. CASE row = Gone /\ j # i
      <4>1. There(j)'
        BY <3>4, <2>3, <1>3 DEF There
      <4>2. j < i \/ Place(j) >= walk.at + 2
        <5>1. Place(i) \in Nat /\ i \in Nat /\ j \in Nat
          BY PlaceFacts, ItemsFinite
        <5>2. CASE Place(i) <= walk.at
          BY <5>1, <5>2, <3>1, <3>4, <2>3, <1>1
        <5>3. CASE Place(i) > walk.at /\ i < j
          BY <5>1, <5>3, <3>1, <2>3, PlaceFacts
        <5>. QED
          BY <5>1, <5>2, <5>3, <3>1, <3>4
      <4>. QED
        BY <4>1, <4>2, <3>1, <2>3
    <3>. QED
      BY <3>2, <3>3, <3>4
  <2>. QED
    BY <2>1, <2>2, <2>3
<1>. QED
  BY <1>4, <1>5, <1>8, <1>9, <1>10, <1>11, <1>12

(* What leaves server, rows and walk alone leaves them sound.              *)
LEMMA ReadUnchanged ==
    ASSUME BudgetTyped, ReadInv, SameBudget, UNCHANGED <<serverVars, stateVars, walk>>
    PROVE  ReadInv'
<1>. USE DEF ReadInv
<1>1. /\ Kind' = Kind /\ (HasToken' <=> HasToken) /\ (Walking' <=> Walking)
      /\ \A r, q : Agrees(r, q)' <=> Agrees(r, q)
      /\ \A i : (There(i)' <=> There(i)) /\ Place(i)' = Place(i)
  BY DEF SameBudget, Kind, HasToken, Walking, Agrees, There, Place
<1>2. \A t, rs : CoversUpTo(t, rs)' <=> CoversUpTo(t, rs)
  BY <1>1 DEF CoversUpTo
<1>3. ServerTyped' /\ WalkTyped' /\ WasNow'
  BY <1>1 DEF ServerTyped, WalkTyped, WasNow
<1>4. StateAtToken' /\ DeltaWalk'
  BY <1>1, <1>2 DEF StateAtToken, AtToken, DeltaWalk
<1>5. ItemWalk' /\ OffsetWalk'
  BY <1>1 DEF ItemWalk, OffsetWalk
<1>. QED
  BY <1>3, <1>4, <1>5

(***************************************************************************)
(* The walk.                                                               *)
(***************************************************************************)
(* What the walk has come to, whatever page it is on.                      *)
LEMMA NothingAgrees ==
    ASSUME ServerTyped, NEW i \in Items, changed[i] <= 0
    PROVE  Agrees(Nothing[i], server[i]) /\ server[i] = Gone
<1>1. changed[i] = 0
  BY DEF ServerTyped
<1>. QED
  BY <1>1 DEF ServerTyped, Nothing, Agrees, Gone

(* An item a walk will not be given any more is as the walk has it.        *)
LEMMA NotListed ==
    ASSUME BudgetTyped, ReadInv, Walking, Kind \in {"calendar", "people", "tasks"},
           NEW i \in Items, i > walk.at, i \notin Listed
    PROVE  Agrees(walk.cache[i], server[i])
<1>. USE DEF ReadInv
<1>1. /\ changed[i] <= walk.token => Agrees(walk.cache[i], server[i])
      /\ walk.token = 0 => walk.cache[i] = Gone
  BY DEF ItemWalk
<1>2. changed[i] \in Nat /\ walk.token \in Nat
  BY DEF ServerTyped, WalkTyped, Walks
<1>3. CASE changed[i] <= walk.token
  BY <1>1, <1>3
<1>4. CASE changed[i] > walk.token
  <2>1. walk.token = 0 /\ ~There(i)
    BY <1>2, <1>4 DEF Listed
  <2>. QED
    BY <2>1, <1>1 DEF There, Agrees, Gone
<1>. QED
  BY <1>2, <1>3, <1>4

(* The walk with one more page.                                            *)
LEMMA AfterPage ==
    ASSUME BudgetTyped, ReadInv, walk.phase = "asked", NEW skeleton,
           NEW w, w = WalkAfterPage(skeleton)
    PROVE  /\ w \in Walks /\ w.phase = "asked" /\ w.at = AtAfterPage
           /\ w.token = walk.token /\ w.start \in 1..seq
           /\ walk.start # 0 => w.start = walk.start
           /\ Kind = "delta" => w.at <= seq
           /\ \A i \in Items : IF i \in Page THEN Agrees(w.cache[i], server[i])
                               ELSE w.cache[i] = walk.cache[i]
<1>. USE DEF ReadInv
<1>1. AtAfterPage \in Nat /\ (Kind = "delta" => AtAfterPage <= seq)
  BY AfterItemPage, AfterDeltaPage, AfterOffsetPage DEF BudgetTyped, ServerTyped
<1>2. \A i \in Items : Row(i, skeleton) \in RowType /\ Agrees(Row(i, skeleton), server[i])
  BY RowTrue
<1>3. walk \in Walks /\ walk.start <= seq /\ seq \in Nat \ {0}
  BY DEF WalkTyped, ServerTyped
<1>4. /\ w.cache = [i \in Items |-> IF i \in Page THEN Row(i, skeleton) ELSE walk.cache[i]]
      /\ w.phase = "asked" /\ w.at = AtAfterPage /\ w.token = walk.token
      /\ w.start = IF walk.start = 0 THEN seq ELSE walk.start
  BY <1>3 DEF WalkAfterPage, Walks
<1>5. w.cache \in Rows
  BY <1>2, <1>3, <1>4 DEF Walks, Rows
<1>6. w.start \in Nat /\ walk.pages + 1 \in Nat
  BY <1>3, <1>4 DEF Walks
<1>7. w \in Walks
  <2>1. w = [phase |-> "asked", token |-> walk.token, cache |-> w.cache, prev |-> walk.prev,
             at |-> AtAfterPage, start |-> w.start, tries |-> 1, pages |-> walk.pages + 1,
             resynced |-> walk.resynced]
    BY <1>3, <1>4 DEF WalkAfterPage, Walks
  <2>. QED
    BY <1>1, <1>3, <1>5, <1>6, <2>1 DEF Walks
<1>8. w.start \in 1..seq /\ (walk.start # 0 => w.start = walk.start)
  BY <1>3, <1>4 DEF Walks
<1>. QED
  BY <1>1, <1>2, <1>4, <1>7, <1>8

(* What it owes to the items it passed and to those to come.               *)
LEMMA ItemPage ==
    ASSUME BudgetTyped, ReadInv, walk.phase = "asked", NEW skeleton,
           NEW w, w = WalkAfterPage(skeleton), Kind \in {"calendar", "people", "tasks"}
    PROVE  /\ \A i \in Items : i <= w.at => /\ \E row \in was[i] : Agrees(w.cache[i], row)
                                            /\ HasToken /\ changed[i] <= w.start
                                               => Agrees(w.cache[i], server[i])
           /\ \A i \in Items : i > w.at => w.cache[i] = walk.cache[i] /\ i > walk.at
           /\ ~More => \A i \in Items : i > w.at => Agrees(w.cache[i], server[i])
<1>. USE DEF ReadInv
<1>1. /\ AtAfterPage \in Nat /\ walk.at <= AtAfterPage /\ walk.at \in Nat
      /\ \A i \in Page : i <= AtAfterPage /\ i > walk.at
      /\ \A i \in Listed : i <= AtAfterPage => i \in Page
  BY AfterItemPage DEF WalkTyped, Walks
<1>2. /\ w.at = AtAfterPage /\ (walk.start # 0 => w.start = walk.start)
      /\ \A i \in Items : IF i \in Page THEN Agrees(w.cache[i], server[i])
                          ELSE w.cache[i] = walk.cache[i]
  BY AfterPage
<1>3. Walking /\ \A i \in Items : server[i] \in was[i] /\ i \in Nat /\ i # 0
  BY ItemsFinite DEF Walking, WasNow
<1>4. ASSUME NEW i \in Items, i <= w.at
      PROVE  /\ \E row \in was[i] : Agrees(w.cache[i], row)
             /\ HasToken /\ changed[i] <= w.start => Agrees(w.cache[i], server[i])
  <2>1. CASE i \in Page
    BY <2>1, <1>2, <1>3
  <2>2. CASE i \notin Page /\ i <= walk.at
    <3>1. walk.start # 0
      BY <2>2, <1>1, <1>3 DEF ItemWalk
    <3>. QED
      BY <2>2, <3>1, <1>2, <1>3 DEF ItemWalk
  <2>3. CASE i \notin Page /\ i > walk.at
    <3>1. i \notin Listed
      BY <2>3, <1>1, <1>2, <1>4
    <3>. QED
      BY <2>3, <3>1, <1>2, <1>3, NotListed
  <2>. QED
    BY <2>1, <2>2, <2>3, <1>1, <1>3
<1>5. ASSUME NEW i \in Items, i > w.at PROVE w.cache[i] = walk.cache[i] /\ i > walk.at /\ i \notin Page
  BY <1>1, <1>2, <1>3, <1>5
<1>6. ASSUME ~More, NEW i \in Items, i > w.at PROVE Agrees(w.cache[i], server[i])
  <2>1. i \notin Listed
    BY <1>5, <1>6 DEF More
  <2>. QED
    BY <2>1, <1>3, <1>5, <1>6, NotListed
<1>. QED
  BY <1>4, <1>5, <1>6

LEMMA DeltaPage ==
    ASSUME BudgetTyped, ReadInv, walk.phase = "asked", NEW skeleton,
           NEW w, w = WalkAfterPage(skeleton), Kind = "delta"
    PROVE  /\ CoversUpTo(w.at, w.cache)
           /\ ~More => \A i \in Items : Agrees(w.cache[i], server[i])
<1>. USE DEF ReadInv
<1>1. /\ AtAfterPage \in Nat /\ walk.at <= AtAfterPage /\ walk.at \in Nat
      /\ \A i \in Page : changed[i] <= AtAfterPage
      /\ \A i \in Listed : changed[i] <= AtAfterPage => i \in Page
      /\ \A i \in Items : changed[i] \in Nat
  BY AfterDeltaPage DEF WalkTyped, Walks, ServerTyped
<1>2. /\ w.at = AtAfterPage
      /\ \A i \in Items : IF i \in Page THEN Agrees(w.cache[i], server[i])
                          ELSE w.cache[i] = walk.cache[i]
  BY AfterPage
<1>3. \A i \in Items : changed[i] <= walk.at => Agrees(walk.cache[i], server[i])
  BY DEF Walking, DeltaWalk, CoversUpTo
<1>4. \A i \in Items : i \notin Listed => changed[i] <= walk.at
  BY <1>1 DEF Listed
<1>5. \A i \in Items : i \notin Listed \ Page => Agrees(w.cache[i], server[i])
  BY <1>2, <1>3, <1>4
<1>. QED
  BY <1>1, <1>2, <1>5 DEF CoversUpTo, More

LEMMA OffsetPage ==
    ASSUME BudgetTyped, ReadInv, walk.phase = "asked", NEW skeleton,
           NEW w, w = WalkAfterPage(skeleton), Kind = "lists", NEW i \in Items \ missed
    PROVE  /\ \/ \E row \in was[i] : Agrees(w.cache[i], row)
              \/ There(i) /\ Place(i) > w.at /\ w.cache[i] = Gone
           /\ ~More => \E row \in was[i] : Agrees(w.cache[i], row)
<1>. USE DEF ReadInv
<1>1. /\ w.at = AtAfterPage
      /\ IF i \in Page THEN Agrees(w.cache[i], server[i]) ELSE w.cache[i] = walk.cache[i]
  BY AfterPage
<1>2. /\ server[i] \in was[i]
      /\ \/ \E row \in was[i] : Agrees(walk.cache[i], row)
         \/ There(i) /\ Place(i) > walk.at /\ walk.cache[i] = Gone
  BY DEF Walking, WasNow, OffsetWalk
<1>3. There(i) /\ Place(i) > walk.at => i \in Listed
  BY DEF Listed
<1>. QED
  BY <1>1, <1>2, <1>3, AfterOffsetPage DEF More

(* Primed, the names that only depend on the kind are what they were.      *)
LEMMA SameKind ==
    ASSUME SameBudget
    PROVE  /\ Kind' = Kind /\ (HasToken' <=> HasToken)
           /\ \A r, q : Agrees(r, q)' <=> Agrees(r, q)
BY DEF SameBudget, Kind, HasToken, Agrees

(* No walk, no debts: the rows and their token are all that matters.       *)
LEMMA IdleInv ==
    ASSUME BudgetTyped, ServerTyped, SameBudget, UNCHANGED <<seq, changed, server>>,
           walk' = Idle, was' = [i \in Items |-> {}],
           cache' \in Rows, disk' \in [token : Nat, cache : Rows],
           token' \in 0..seq, disk'.token \in 0..seq,
           ~HasToken => token' = 0 /\ disk'.token = 0,
           HasToken => AtToken(token, cache)' /\ AtToken(disk.token, disk.cache)'
    PROVE  ReadInv'
<1>1. /\ Idle \in Walks /\ Idle.phase = "idle" /\ Idle.token = 0 /\ Idle.start = 0 /\ Idle.at = 0
  <2>1. Nothing \in Rows
    BY DEF Nothing, Rows, RowType, Gone
  <2>. QED
    BY <2>1 DEF Idle, Walks
<1>2. ServerTyped'
  BY SameKind DEF ServerTyped
<1>3. WalkTyped'
  BY <1>1, SameKind DEF WalkTyped, ServerTyped
<1>4. ~Walking'
  BY <1>1 DEF Walking
<1>. QED
  BY <1>2, <1>3, <1>4, SameKind
     DEF ReadInv, StateAtToken, WasNow, ItemWalk, DeltaWalk, OffsetWalk

LEMMA CoversSame ==
    ASSUME SameBudget, UNCHANGED <<changed, server>>, NEW t, NEW rs
    PROVE  /\ CoversUpTo(t, rs)' <=> CoversUpTo(t, rs)
           /\ AtToken(t, rs)' <=> AtToken(t, rs)
<1>1. /\ Kind' = Kind /\ \A r, q : Agrees(r, q)' <=> Agrees(r, q)
  BY SameKind
<1>2. CoversUpTo(t, rs)' <=> CoversUpTo(t, rs)
  BY <1>1 DEF CoversUpTo
<1>3. (t = 0 /\ Kind # "people" => rs = Nothing)' <=> (t = 0 /\ Kind # "people" => rs = Nothing)
  BY <1>1 DEF Nothing
<1>. QED
  BY <1>2, <1>3 DEF AtToken

(* A walk that is given up, or cut off, leaves rows and token alone.       *)
LEMMA GivenUpInv ==
    ASSUME BudgetTyped, ReadInv, SameBudget,
           UNCHANGED <<seq, changed, server, token, cache, disk>>,
           walk' = Idle, was' = [i \in Items |-> {}]
    PROVE  ReadInv'
<1>1. HasToken => AtToken(token, cache)' /\ AtToken(disk.token, disk.cache)'
  <2>1. HasToken => AtToken(token', cache') /\ AtToken(disk'.token, disk'.cache)
    BY DEF ReadInv, StateAtToken
  <2>. QED
    BY <2>1, SameKind DEF AtToken, CoversUpTo
<1>. QED
  BY <1>1, IdleInv DEF ReadInv, ServerTyped

(* The rows and token a walk ends with belong together, on disk too, where *)
(* the file of before may be left, or none.                                *)
LEMMA FinishInv ==
    ASSUME BudgetTyped, ReadInv, NEW op \in Ops, NEW w \in Walks, NEW t \in 0..seq,
           HasToken => AtToken(t, w.cache), FinishFetch(op, w, t),
           UNCHANGED <<seq, changed, server>>
    PROVE  SameBudget /\ ReadInv'
<1>. USE DEF ReadInv
<1>1. SameBudget
  BY SpendKeeps DEF FinishFetch, Persisted, Trouble
<1>2. w.cache \in Rows /\ seq \in Nat \ {0}
  BY DEF Walks, ServerTyped
<1>3. /\ token' = IF HasToken THEN t ELSE 0
      /\ cache' = w.cache /\ walk' = Idle /\ was' = [i \in Items |-> {}]
      /\ disk' \in {[token |-> token', cache |-> w.cache], disk, NoState}
  BY DEF FinishFetch, Persisted
<1>6. NoState.token = 0 /\ NoState.cache = Nothing /\ Nothing \in Rows
      /\ NoState \in [token : Nat, cache : Rows]
  BY DEF NoState, Nothing, Rows, RowType, Gone
<1>7. HasToken => AtToken(token', w.cache)
  BY <1>3
<1>8. AtToken(0, Nothing)
  BY NothingAgrees DEF AtToken, CoversUpTo
<1>9. ASSUME HasToken PROVE AtToken(token, cache)' /\ AtToken(disk.token, disk.cache)'
  <2>1. AtToken(token', cache') /\ AtToken(disk'.token, disk'.cache)
    BY <1>3, <1>6, <1>7, <1>8, <1>9 DEF StateAtToken
  <2>. QED
    BY <2>1, <1>1, SameKind DEF AtToken, CoversUpTo
<1>10. /\ token' \in 0..seq /\ (~HasToken => token' = 0)
       /\ disk' \in [token : Nat, cache : Rows] /\ disk'.token \in 0..seq
       /\ ~HasToken => disk'.token = 0
  BY <1>2, <1>3, <1>6 DEF ServerTyped
<1>. QED
  BY <1>1, <1>2, <1>3, <1>9, <1>10, IdleInv

(* What the last page leaves covers the token that comes with it.          *)
LEMMA LastPage ==
    ASSUME BudgetTyped, ReadInv, walk.phase = "asked", ~More, NEW skeleton,
           NEW w, w = WalkAfterPage(skeleton)
    PROVE  w \in Walks /\ NextToken(w) \in 0..seq /\ (HasToken => AtToken(NextToken(w), w.cache))
<1>. USE DEF ReadInv
<1>1. /\ w \in Walks /\ w.start \in 1..seq /\ seq \in Nat \ {0}
  BY AfterPage DEF ServerTyped
<1>2. NextToken(w) \in 1..seq
  BY <1>1 DEF NextToken
<1>3. ASSUME HasToken PROVE CoversUpTo(NextToken(w), w.cache)
  <2>1. CASE Kind = "delta"
    BY <2>1, DeltaPage DEF CoversUpTo
  <2>2. CASE Kind \in {"calendar", "people"}
    <3>1. NextToken(w) = w.start
      BY <2>2 DEF NextToken
    <3>2. \A i \in Items : i \in Nat /\ w.at \in Nat
      BY <1>1, ItemsFinite DEF Walks
    <3>. QED
      BY <2>2, <3>1, <3>2, <1>3, ItemPage DEF CoversUpTo
  <2>. QED
    BY <2>1, <2>2, <1>3 DEF HasToken
<1>. QED
  BY <1>1, <1>2, <1>3 DEF AtToken

(* What a walk of contacts has, when an answer is cut, covers no token, and *)
(* is true of all that the listing has not left out.                       *)
LEMMA CutWalk ==
    ASSUME BudgetTyped, ReadInv, Walking, Kind = "people"
    PROVE  /\ walk \in Walks /\ AtToken(0, walk.cache)
           /\ \A i \in Items \ Listed : \E row \in was[i] : Agrees(walk.cache[i], row)
<1>. USE DEF ReadInv
<1>1. /\ walk \in Walks /\ walk.at \in Nat /\ walk.token \in Nat /\ walk.start \in Nat
  BY DEF WalkTyped, Walks
<1>2. ASSUME NEW i \in Items
      PROVE  /\ i \in Nat /\ changed[i] \in Nat /\ server[i] \in was[i]
             /\ i <= walk.at => /\ \E row \in was[i] : Agrees(walk.cache[i], row)
                                /\ changed[i] <= walk.start => Agrees(walk.cache[i], server[i])
             /\ i > walk.at => /\ changed[i] <= walk.token => Agrees(walk.cache[i], server[i])
                               /\ walk.token = 0 => walk.cache[i] = Gone
  BY <1>2, ItemsFinite DEF ServerTyped, WasNow, ItemWalk, HasToken
<1>3. \A i \in Items : changed[i] <= 0 => Agrees(walk.cache[i], server[i])
  BY <1>1, <1>2
<1>4. ASSUME NEW i \in Items \ Listed, i > walk.at PROVE Agrees(walk.cache[i], server[i])
  <2>1. changed[i] <= walk.token \/ (walk.token = 0 /\ ~There(i))
    BY <1>1, <1>2, <1>4 DEF Listed
  <2>2. CASE walk.token = 0 /\ ~There(i)
    BY <1>2, <1>4, <2>2 DEF There, Agrees
  <2>. QED
    BY <1>2, <1>4, <2>1, <2>2
<1>5. ASSUME NEW i \in Items \ Listed PROVE \E row \in was[i] : Agrees(walk.cache[i], row)
  BY <1>1, <1>2, <1>4, <1>5
<1>. QED
  BY <1>1, <1>3, <1>5 DEF AtToken, CoversUpTo

(* A fetch begins with the rows of the last one, or with none.             *)
LEMMA FetchBeginsInv ==
    ASSUME BudgetTyped, ReadInv, NEW op \in Ops, FetchBegins(op)
    PROVE  SameBudget /\ ReadInv'
<1>. USE DEF ReadInv
<1>1. UNCHANGED <<seq, changed, server, disk, budget>> /\ SameBudget
  BY SpendKeeps DEF FetchBegins
<1>2. /\ token' \in 0..seq /\ cache' \in Rows /\ (~HasToken => token' = 0)
      /\ HasToken => AtToken(token', cache')
  BY DEF FetchBegins, EnsurePersistedStateLoaded, ServerTyped, StateAtToken
<1>. DEFINE base == MergeBase(token', cache')
<1>3. base \in Rows /\ Nothing \in Rows
  BY <1>2 DEF MergeBase, Nothing, Rows, RowType, Gone
<1>4. seq \in Nat \ {0} /\ token' \in Nat /\ token' <= seq
  BY <1>2 DEF ServerTyped
<1>5. walk' = [phase |-> "asked", token |-> token', cache |-> base, prev |-> cache',
               at |-> IF Kind = "delta" THEN token' ELSE 0,
               start |-> 0, tries |-> 1, pages |-> 0, resynced |-> FALSE]
  BY DEF FetchBegins, Idle
<1>. HIDE DEF base
<1>6. walk' \in Walks
  BY <1>2, <1>3, <1>4, <1>5 DEF Walks
<1>7. was' = [i \in Items |-> {server[i]}] /\ missed' = {}
  BY DEF FetchBegins
<1>8. ServerTyped'
  BY <1>1, <1>2, <1>7, SameKind DEF ServerTyped, Rows
<1>9. WalkTyped'
  BY <1>1, <1>2, <1>4, <1>5, <1>6, SameKind DEF WalkTyped
<1>10. StateAtToken'
  <2>1. HasToken => AtToken(token', cache') /\ AtToken(disk'.token, disk'.cache)
    BY <1>1, <1>2 DEF StateAtToken
  <2>. QED
    BY <2>1, <1>1, SameKind DEF StateAtToken, AtToken, CoversUpTo
<1>11. WasNow'
  BY <1>1, <1>7 DEF WasNow
<1>12. ASSUME Kind \in {"calendar", "people", "tasks"}, NEW i \in Items
       PROVE  /\ changed[i] <= token' => Agrees(base[i], server[i])
              /\ token' = 0 => base[i] = Gone
  <2>1. \/ base = cache' /\ HasToken /\ (Kind = "people" => token' # 0)
        \/ base = Nothing /\ token' = 0
    <3>1. CASE Kind = "calendar"
      <4>1. HasToken /\ base = cache' /\ Kind # "people"
        BY <3>1 DEF base, MergeBase, HasToken
      <4>. QED
        BY <4>1
    <3>2. CASE Kind = "people"
      <4>1. HasToken /\ base = IF token' # 0 THEN cache' ELSE Nothing
        BY <3>2 DEF base, MergeBase, HasToken
      <4>. QED
        BY <4>1
    <3>3. CASE Kind = "tasks"
      BY <3>3, <1>2 DEF base, MergeBase, HasToken
    <3>. QED
      BY <3>1, <3>2, <3>3, <1>12
  <2>2. Nothing[i] = Gone
    BY DEF Nothing
  <2>3. CASE base = cache' /\ HasToken /\ (Kind = "people" => token' # 0)
    BY <2>2, <2>3, <1>2 DEF AtToken, CoversUpTo
  <2>4. CASE base = Nothing /\ token' = 0
    BY <2>2, <2>4, NothingAgrees
  <2>. QED
    BY <2>1, <2>3, <2>4
<1>13. ItemWalk'
  <2>1. \A i \in Items : i > 0 /\ ~(i <= 0)
    BY ItemsFinite
  <2>. QED
    BY <2>1, <1>1, <1>5, <1>12, SameKind DEF ItemWalk
<1>14. DeltaWalk'
  <2>1. Kind = "delta" => base = cache' /\ CoversUpTo(token', cache')
    BY <1>2 DEF base, MergeBase, HasToken, AtToken
  <2>. QED
    BY <2>1, <1>1, <1>5, SameKind DEF DeltaWalk, CoversUpTo
<1>15. OffsetWalk'
  <2>. SUFFICES ASSUME Kind = "lists", NEW i \in Items
                PROVE  \/ \E row \in was'[i] : Agrees(base[i], row)
                       \/ There(i) /\ Place(i) > 0 /\ base[i] = Gone
    BY <1>1, <1>5, SameKind DEF OffsetWalk, There, Place
  <2>1. base[i] = Gone
    BY DEF base, MergeBase, Nothing
  <2>2. There(i) => Place(i) > 0
    BY PlaceFacts
  <2>3. ~There(i) => was'[i] = {Gone}
    BY <1>7 DEF There
  <2>. QED
    BY <2>1, <2>2, <2>3 DEF Agrees, Gone
<1>. QED
  BY <1>1, <1>8, <1>9, <1>10, <1>11, <1>13, <1>14, <1>15

(* A walk that goes on: what it has to satisfy, server, rows and histories *)
(* being as they were.                                                     *)
WalkOk(w) ==
    /\ w \in Walks /\ w.phase # "idle" /\ w.token <= seq /\ w.start <= seq
    /\ ~HasToken => w.token = 0
    /\ Kind = "delta" => w.at <= seq /\ CoversUpTo(w.at, w.cache)
    /\ Kind \in {"calendar", "people", "tasks"} =>
        /\ w.start = 0 => w.at = 0
        /\ \A i \in Items : i <= w.at => /\ \E row \in was[i] : Agrees(w.cache[i], row)
                                         /\ HasToken /\ changed[i] <= w.start
                                            => Agrees(w.cache[i], server[i])
        /\ \A i \in Items : i > w.at => /\ changed[i] <= w.token => Agrees(w.cache[i], server[i])
                                        /\ w.token = 0 => w.cache[i] = Gone
    /\ Kind = "lists" => \A i \in Items \ missed :
            \/ \E row \in was[i] : Agrees(w.cache[i], row)
            \/ There(i) /\ Place(i) > w.at /\ w.cache[i] = Gone

LEMMA WalkNow == ASSUME ReadInv, Walking PROVE WalkOk(walk)
BY DEF ReadInv, WalkTyped, Walking, ItemWalk, DeltaWalk, OffsetWalk, WalkOk

LEMMA WalkOn ==
    ASSUME BudgetTyped, ReadInv, Walking, SameBudget, UNCHANGED <<serverVars, stateVars>>,
           NEW w, WalkOk(w), walk' = w
    PROVE  ReadInv'
<1>. USE DEF ReadInv, WalkOk
<1>1. /\ Kind' = Kind /\ (HasToken' <=> HasToken) /\ Walking'
      /\ \A r, q : Agrees(r, q)' <=> Agrees(r, q)
      /\ \A i : (There(i)' <=> There(i)) /\ Place(i)' = Place(i)
  BY DEF SameBudget, Kind, HasToken, Walking, Agrees, There, Place
<1>2. \A t, rs : CoversUpTo(t, rs)' <=> CoversUpTo(t, rs)
  BY <1>1 DEF CoversUpTo
<1>3. ServerTyped' /\ WalkTyped' /\ WasNow'
  BY <1>1 DEF ServerTyped, WalkTyped, WasNow
<1>4. StateAtToken' /\ DeltaWalk'
  BY <1>1, <1>2 DEF StateAtToken, AtToken, DeltaWalk
<1>5. ItemWalk' /\ OffsetWalk'
  BY <1>1 DEF ItemWalk, OffsetWalk
<1>. QED
  BY <1>3, <1>4, <1>5

LEMMA PageAnsweredInv ==
    ASSUME BudgetTyped, ReadInv, NEW op \in Ops, PageAnswered(op)
    PROVE  SameBudget /\ ReadInv'
<1>1. walk.phase = "asked" /\ Walking /\ UNCHANGED <<seq, changed, server, missed>>
  BY DEF PageAnswered, Walking
<1>2. PICK skeleton :
         IF ~More THEN FinishFetch(op, WalkAfterPage(skeleton), NextToken(WalkAfterPage(skeleton)))
         ELSE IF ClientWalks /\ WalkAfterPage(skeleton).pages > MaxPages
         THEN FetchFails(op) /\ UNCHANGED budget
         ELSE walk' = WalkAfterPage(skeleton) /\ UNCHANGED <<was, stateVars, budget, opVars>>
  BY DEF PageAnswered
<1>3. PICK w : w = WalkAfterPage(skeleton)
  OBVIOUS
<1>4. CASE ~More
  BY <1>1, <1>2, <1>3, <1>4, LastPage, FinishInv
<1>5. CASE FetchFails(op) /\ UNCHANGED budget
  BY <1>1, <1>5, SpendKeeps, GivenUpInv DEF FetchFails
<1>6. CASE walk' = w /\ UNCHANGED <<was, stateVars, budget>>
  <2>1. SameBudget
    BY <1>6, SpendKeeps
  <2>2. WalkOk(walk) /\ seq \in Nat
    BY <1>1, WalkNow DEF ReadInv, ServerTyped
  <2>3. /\ w \in Walks /\ w.phase = "asked" /\ w.at = AtAfterPage
        /\ w.token = walk.token /\ w.start \in 1..seq
        /\ Kind = "delta" => w.at <= seq
    BY <1>1, <1>3, AfterPage
  <2>4. WalkOk(w)
    <3>1. CASE Kind \in {"calendar", "people", "tasks"}
      <4>1. /\ \A i \in Items : i <= w.at => /\ \E row \in was[i] : Agrees(w.cache[i], row)
                                             /\ HasToken /\ changed[i] <= w.start
                                                => Agrees(w.cache[i], server[i])
            /\ \A i \in Items : i > w.at => w.cache[i] = walk.cache[i] /\ i > walk.at
        BY <1>1, <1>3, <3>1, ItemPage
      <4>. QED
        BY <2>2, <2>3, <3>1, <4>1 DEF WalkOk
    <3>2. CASE Kind = "delta"
      <4>1. CoversUpTo(w.at, w.cache)
        BY <1>1, <1>3, <3>2, DeltaPage
      <4>. QED
        BY <2>2, <2>3, <3>2, <4>1 DEF WalkOk
    <3>3. CASE Kind = "lists"
      <4>1. \A i \in Items \ missed :
               \/ \E row \in was[i] : Agrees(w.cache[i], row)
               \/ There(i) /\ Place(i) > w.at /\ w.cache[i] = Gone
        BY <1>1, <1>3, <3>3, OffsetPage
      <4>. QED
        BY <2>2, <2>3, <3>3, <4>1 DEF WalkOk
    <3>. QED
      BY <3>1, <3>2, <3>3 DEF BudgetTyped
  <2>. QED
    BY <1>1, <1>6, <2>1, <2>4, WalkOn
<1>. QED
  BY <1>2, <1>3, <1>4, <1>5, <1>6

LEMMA PageCutInv ==
    ASSUME BudgetTyped, ReadInv, NEW op \in Ops, PageCut(op)
    PROVE  SameBudget /\ ReadInv'
<1>1. Walking /\ Kind = "people" /\ FinishFetch(op, walk, 0) /\ UNCHANGED <<seq, changed, server>>
  BY DEF PageCut, Walking
<1>2. walk \in Walks /\ AtToken(0, walk.cache)
  BY <1>1, CutWalk
<1>3. 0 \in 0..seq
  BY DEF ReadInv, ServerTyped
<1>. QED
  BY <1>1, <1>2, <1>3, FinishInv

(* Errors and timers: the walk waits, tries again, or is given up.         *)
LEMMA PageTroubleInv ==
    ASSUME BudgetTyped, ReadInv, NEW op \in Ops, PageFailed(op) \/ RetryTimer(op)
    PROVE  SameBudget /\ ReadInv'
<1>1. Walking /\ UNCHANGED <<seq, changed, server, missed>> /\ SameBudget
  BY SpendKeeps DEF PageFailed, RetryTimer, Walking
<1>2. CASE FetchFails(op)
  BY <1>1, <1>2, GivenUpInv DEF FetchFails
<1>3. ASSUME NEW w, walk' = w, UNCHANGED <<was, stateVars>>,
             \/ w = [walk EXCEPT !.phase = "waiting"]
             \/ w = [walk EXCEPT !.phase = "asked", !.tries = @ + 1]
      PROVE  ReadInv'
  <2>1. WalkOk(walk)
    BY <1>1, WalkNow
  <2>2. /\ w \in Walks /\ w.phase # "idle" /\ w.token = walk.token /\ w.start = walk.start
        /\ w.at = walk.at /\ w.cache = walk.cache
    <3>1. walk \in Walks /\ walk.tries + 1 \in Nat
      BY <2>1 DEF WalkOk, Walks
    <3>2. CASE w = [walk EXCEPT !.phase = "waiting"]
      BY <3>1, <3>2 DEF Walks
    <3>3. CASE w = [walk EXCEPT !.phase = "asked", !.tries = @ + 1]
      BY <3>1, <3>3 DEF Walks
    <3>. QED
      BY <1>3, <3>2, <3>3
  <2>3. WalkOk(w)
    BY <2>1, <2>2 DEF WalkOk
  <2>. QED
    BY <1>1, <1>3, <2>3, WalkOn
<1>. QED
  BY <1>1, <1>2, <1>3 DEF PageFailed, RetryTimer

(* A token that is refused: the walk begins anew, with nothing.            *)
LEMMA PageGoneInv ==
    ASSUME BudgetTyped, ReadInv, NEW op \in Ops, PageGone(op)
    PROVE  SameBudget /\ ReadInv'
<1>1. Walking /\ UNCHANGED <<seq, changed, server, missed>> /\ SameBudget
  BY SpendKeeps DEF PageGone, Walking
<1>2. CASE FetchFails(op)
  BY <1>1, <1>2, GivenUpInv DEF FetchFails
<1>3. CASE HasToken /\ walk' = Resynced(walk) /\ UNCHANGED <<was, stateVars>>
  <2>1. PICK w : w = Resynced(walk)
    OBVIOUS
  <2>2. WalkOk(walk)
    BY <1>1, WalkNow
  <2>3. Nothing \in Rows /\ \A i \in Items : Nothing[i] = Gone /\ ~(i <= 0)
    BY ItemsFinite DEF Nothing, Rows, RowType, Gone
  <2>4. /\ w \in Walks /\ w.phase # "idle" /\ w.token = 0 /\ w.start = 0
        /\ w.at = 0 /\ w.cache = Nothing
    BY <2>1, <2>2, <2>3, <1>1 DEF Resynced, WalkOk, Walks
  <2>5. ServerTyped /\ seq \in Nat
    BY DEF ReadInv, ServerTyped
  <2>6. \A i \in Items : changed[i] <= 0 => Agrees(Nothing[i], server[i])
    BY <2>5, NothingAgrees
  <2>7. WalkOk(w)
    BY <1>3, <2>3, <2>4, <2>5, <2>6 DEF WalkOk, CoversUpTo, HasToken
  <2>. QED
    BY <1>1, <1>3, <2>1, <2>7, WalkOn
<1>. QED
  BY <1>1, <1>2, <1>3 DEF PageGone

(* A restart: the rows are gone with their token, the file stays.          *)
LEMMA RestartRead ==
    ASSUME BudgetTyped, ReadInv, Restart
    PROVE  SameBudget /\ ReadInv'
<1>1. SameBudget
  BY SpendKeeps DEF Restart
<1>2. /\ token' = 0 /\ cache' = Nothing /\ walk' = Idle /\ was' = [i \in Items |-> {}]
      /\ UNCHANGED <<seq, changed, server, disk>>
  BY DEF Restart
<1>3. ServerTyped /\ Nothing \in Rows
  BY DEF ReadInv, Nothing, Rows, RowType, Gone
<1>4. AtToken(0, Nothing)
  BY <1>3, NothingAgrees DEF AtToken, CoversUpTo
<1>5. HasToken => AtToken(token, cache)' /\ AtToken(disk.token, disk.cache)'
  BY <1>1, <1>2, <1>4, SameKind DEF ReadInv, StateAtToken, AtToken, CoversUpTo
<1>. QED
  BY <1>1, <1>2, <1>3, <1>5, IdleInv DEF ServerTyped

(* A request that reaches the server, asked for by whom ever.              *)
Requests == {"create", "update", "carrier", "delete", "relist"}

LEMMA ArrivesInv ==
    ASSUME BudgetTyped, ReadInv, NEW what \in Requests, NEW i \in Items, NEW answer,
           Arrives(what, i, answer), answer \in {"ok", "gone", "no"},
           UNCHANGED <<stateVars, walk>>
    PROVE  SameBudget /\ ReadInv'
<1>1. SameBudget
  BY SpendKeeps DEF Arrives
<1>2. CASE UNCHANGED serverVars
  BY <1>1, <1>2, ReadUnchanged
<1>3. CASE what # "relist" /\ Change(i, Written(i, what))
  <2>1. server[i] \in RowType /\ seq \in Nat
    BY DEF ReadInv, ServerTyped, Rows
  <2>2. PICK row : row = Written(i, what)
    OBVIOUS
  <2>3. row \in RowType
    BY <2>1, <2>2, <1>3 DEF Written, RowType, Gone, Requests
  <2>. QED
    BY <1>1, <1>3, <2>2, <2>3, ChangeInv
<1>. QED
  BY <1>1, <1>2, <1>3 DEF Arrives

LEMMA ForeignInv ==
    ASSUME BudgetTyped, ReadInv, NEW i \in Items, ForeignChange(i)
    PROVE  SameBudget /\ ReadInv'
<1>1. SameBudget /\ UNCHANGED <<stateVars, walk>>
  BY SpendKeeps DEF ForeignChange
<1>2. PICK row \in [main : {seq + 1}, note : {0, seq + 1, server[i].note}]
                   \union (IF There(i) THEN {Gone} ELSE {}) : Change(i, row)
  BY DEF ForeignChange
<1>3. row \in RowType
  <2>1. server[i] \in RowType /\ seq \in Nat
    BY DEF ReadInv, ServerTyped, Rows
  <2>. QED
    BY <2>1, <1>2 DEF RowType, Gone
<1>. QED
  BY <1>1, <1>2, <1>3, ChangeInv

(***************************************************************************)
(* The batch.                                                              *)
(***************************************************************************)
(* A batch between two of its records.                                     *)
Between(b, wanted) ==
    /\ b \in BatchStates
    /\ ToSend(b) \union b.ok \union b.bad = wanted.create \union wanted.update \union wanted.delete
    /\ b.create \intersect b.update = {} /\ (b.create \union b.update) \intersect b.delete = {}
    /\ b.ok \intersect b.bad = {}
    /\ ToSend(b) \intersect (b.ok \union b.bad) = {}
    /\ b.ok \subseteq b.done

LEMMA NextFields ==
    ASSUME NEW b \in BatchStates
    PROVE  /\ \/ NextKind(b) = "create" /\ b[NextKind(b)] = b.create
              \/ NextKind(b) = "update" /\ b[NextKind(b)] = b.update /\ b.create = {}
              \/ NextKind(b) = "delete" /\ b[NextKind(b)] = b.delete /\ b.create \union b.update = {}
           /\ b[NextKind(b)] = {} => ToSend(b) = {}
<1>1. CASE b.create # {}
  BY <1>1 DEF NextKind
<1>2. CASE b.create = {} /\ b.update # {}
  BY <1>2 DEF NextKind
<1>3. CASE b.create = {} /\ b.update = {}
  BY <1>3 DEF NextKind, ToSend
<1>. QED
  BY <1>1, <1>2, <1>3

(* The next record leaves those to be sent and is on its way.              *)
LEMMA NextSent ==
    ASSUME NEW wanted, NEW b, Between(b, wanted), b[NextKind(b)] # {},
           NEW c, c = SendNext(b)
    PROVE  /\ c \in BatchStates /\ c.phase = "sent" /\ Accounts(c, wanted)
           /\ c.item \in Items /\ c.what \in {"create", "update", "delete"}
           /\ c.ok \subseteq c.done
<1>. DEFINE kind == NextKind(b)
            next == CHOOSE i \in b[kind] : \A j \in b[kind] : i <= j
<1>1. b \in BatchStates
  BY DEF Between
<1>2. b[kind] \in SUBSET Items /\ Items \subseteq Nat
  BY <1>1, NextFields, ItemsFinite DEF BatchStates
<1>3. \E i \in b[kind] : \A j \in b[kind] : i <= j
  BY <1>2, MinExists
<1>4. next \in b[kind] /\ next \in Items /\ next \in 0..Last
  BY <1>2, <1>3, CloudAssumption DEF Items
<1>5. c = [b EXCEPT ![kind] = @ \ {next}, !.phase = "sent", !.what = kind, !.item = next]
  <2>1. c = Sending([b EXCEPT ![kind] = @ \ {next}], kind, next)
    BY DEF SendNext
  <2>. QED
    BY <2>1 DEF Sending
<1>6. PICK i : i = next
  OBVIOUS
<1>. HIDE DEF kind, next
<1>7. CASE kind = "create" /\ b[kind] = b.create
  <2>1. c = [b EXCEPT !.create = @ \ {i}, !.phase = "sent", !.what = "create", !.item = i]
    BY <1>5, <1>6, <1>7
  <2>2. /\ c.create = b.create \ {i} /\ c.update = b.update /\ c.delete = b.delete
        /\ c.phase = "sent" /\ c.what = "create" /\ c.item = i /\ c.answer = b.answer
        /\ c.ok = b.ok /\ c.bad = b.bad /\ c.done = b.done
        /\ c = [phase |-> c.phase, what |-> c.what, item |-> c.item, answer |-> c.answer,
                create |-> c.create, update |-> c.update, delete |-> c.delete,
                ok |-> c.ok, bad |-> c.bad, done |-> c.done]
    BY <2>1, <1>1 DEF BatchStates
  <2>3. c \in BatchStates
    BY <2>2, <1>1, <1>4, <1>6 DEF BatchStates
  <2>4. i \in b.create
    BY <1>4, <1>6, <1>7
  <2>. QED
    BY <2>2, <2>3, <2>4, <1>4, <1>6 DEF Between, Accounts, ToSend, OnItsWay
<1>8. CASE kind = "update" /\ b[kind] = b.update
  <2>1. c = [b EXCEPT !.update = @ \ {i}, !.phase = "sent", !.what = "update", !.item = i]
    BY <1>5, <1>6, <1>8
  <2>2. /\ c.create = b.create /\ c.update = b.update \ {i} /\ c.delete = b.delete
        /\ c.phase = "sent" /\ c.what = "update" /\ c.item = i /\ c.answer = b.answer
        /\ c.ok = b.ok /\ c.bad = b.bad /\ c.done = b.done
        /\ c = [phase |-> c.phase, what |-> c.what, item |-> c.item, answer |-> c.answer,
                create |-> c.create, update |-> c.update, delete |-> c.delete,
                ok |-> c.ok, bad |-> c.bad, done |-> c.done]
    BY <2>1, <1>1 DEF BatchStates
  <2>3. c \in BatchStates
    BY <2>2, <1>1, <1>4, <1>6 DEF BatchStates
  <2>4. i \in b.update
    BY <1>4, <1>6, <1>8
  <2>. QED
    BY <2>2, <2>3, <2>4, <1>4, <1>6 DEF Between, Accounts, ToSend, OnItsWay
<1>9. CASE kind = "delete" /\ b[kind] = b.delete
  <2>1. c = [b EXCEPT !.delete = @ \ {i}, !.phase = "sent", !.what = "delete", !.item = i]
    BY <1>5, <1>6, <1>9
  <2>2. /\ c.create = b.create /\ c.update = b.update /\ c.delete = b.delete \ {i}
        /\ c.phase = "sent" /\ c.what = "delete" /\ c.item = i /\ c.answer = b.answer
        /\ c.ok = b.ok /\ c.bad = b.bad /\ c.done = b.done
        /\ c = [phase |-> c.phase, what |-> c.what, item |-> c.item, answer |-> c.answer,
                create |-> c.create, update |-> c.update, delete |-> c.delete,
                ok |-> c.ok, bad |-> c.bad, done |-> c.done]
    BY <2>1, <1>1 DEF BatchStates
  <2>3. c \in BatchStates
    BY <2>2, <1>1, <1>4, <1>6 DEF BatchStates
  <2>4. i \in b.delete
    BY <1>4, <1>6, <1>9
  <2>. QED
    BY <2>2, <2>3, <2>4, <1>4, <1>6 DEF Between, Accounts, ToSend, OnItsWay
<1>. QED
  BY <1>1, <1>7, <1>8, <1>9, NextFields DEF kind

(* Who runs is alone.                                                      *)
LEMMA Alone ==
    ASSUME OpInv, NEW op \in Ops,
           opState[op] = "running" \/ (op \in posted /\ opState[op] = "pending")
    PROVE  \A o \in Ops : o # op => opState[o] # "running"
BY DEF OpInv, OneAtATime

LEMMA EndFacts ==
    ASSUME OpInv, NEW op \in Ops, NEW outcome, End(op, outcome)
    PROVE  opState'[op] = outcome /\ \A o \in Ops : o # op => opState'[o] = opState[o]
BY DEF End, OpInv, OpTypeOK

(* With the operation over nobody asks what its batch has come to.         *)
LEMMA NoneRuns ==
    ASSUME SameBudget, batch' \in BatchStates, late' \subseteq LateRequests,
           \A o \in Ops : IsWrite(o) => opState'[o] # "running",
           batch'.phase \notin {"sent", "answered"}, batch'.ok \subseteq batch'.done
    PROVE  WriteInv'
BY DEF SameBudget, WriteInv, LateRequests, BatchStates, BatchSound, Carried, IsWrite

(* Steps that do not concern the batch.                                    *)
LEMMA BatchUnchanged ==
    ASSUME WriteInv, SameBudget, batch' = batch, late' \subseteq LateRequests,
           \A o \in Ops : IsWrite(o) /\ opState'[o] = "running" => opState[o] = "running"
    PROVE  WriteInv'
<1>1. /\ \A o : (IsWrite(o)' <=> IsWrite(o)) /\ Wanted(o)' = Wanted(o)
      /\ HasCarriers' <=> HasCarriers
  BY DEF SameBudget, IsWrite, Wanted, HasCarriers, Kind
<1>2. Carried' /\ batch' \in BatchStates
  BY <1>1 DEF WriteInv, Carried
<1>3. BatchSound'
  BY <1>1 DEF WriteInv, BatchSound
<1>. QED
  BY <1>2, <1>3 DEF WriteInv, LateRequests

(* The batch of the operation that runs goes on.                           *)
LEMMA BatchOn ==
    ASSUME OpInv, SameBudget, NEW op \in Ops, IsWrite(op), late' \subseteq LateRequests,
           \A o \in Ops : o # op => opState'[o] # "running",
           batch' \in BatchStates, batch'.phase \in {"begun", "sent"},
           batch'.phase = "begun" => ToSend(batch') = {},
           batch'.phase = "sent" => batch'.item \in Items /\ batch'.what # "none",
           Accounts(batch', Wanted(op)), batch'.ok \subseteq batch'.done
    PROVE  WriteInv'
<1>1. \A o : (IsWrite(o)' <=> IsWrite(o)) /\ Wanted(o)' = Wanted(o)
  BY DEF SameBudget, IsWrite, Wanted
<1>2. BatchSound'
  BY <1>1 DEF BatchSound
<1>3. Carried'
  BY DEF Carried
<1>. QED
  BY <1>2, <1>3 DEF WriteInv, LateRequests

(* applyNext(): the next record is sent, or the operation ends.            *)
LEMMA ApplyStepInv ==
    ASSUME OpInv, SameBudget, NEW op \in Ops, IsWrite(op), opState[op] = "running",
           late' \subseteq LateRequests, NEW b, Between(b, Wanted(op)), ApplyStep(op, b)
    PROVE  WriteInv'
<1>1. b \in BatchStates
  BY DEF Between
<1>2. CASE b[NextKind(b)] = {}
  <2>1. batch' = [b EXCEPT !.phase = "over"]
        /\ \E outcome \in {"succeeded", "failed"} : End(op, outcome)
    BY <1>2 DEF ApplyStep, FinishIfSettled
  <2>2. \A o \in Ops : opState'[o] # "running"
    BY <2>1, EndFacts, Alone
  <2>3. batch' \in BatchStates /\ batch'.phase = "over" /\ batch'.ok = b.ok /\ batch'.done = b.done
    BY <2>1, <1>1 DEF BatchStates
  <2>. QED
    BY <2>2, <2>3, NoneRuns DEF Between
<1>3. CASE b[NextKind(b)] # {}
  <2>1. batch' = SendNext(b) /\ opState' = opState
    BY <1>3 DEF ApplyStep, opVars
  <2>2. /\ batch' \in BatchStates /\ batch'.phase = "sent" /\ Accounts(batch', Wanted(op))
        /\ batch'.item \in Items /\ batch'.what \in {"create", "update", "delete"}
        /\ batch'.ok \subseteq batch'.done
    BY <1>3, <2>1, NextSent
  <2>3. \A o \in Ops : o # op => opState'[o] # "running"
    BY <2>1, Alone
  <2>. QED
    BY <2>2, <2>3, BatchOn
<1>. QED
  BY <1>2, <1>3

(* A batch begins with what the rule on recurrence lets pass.              *)
LEMMA BatchBegins ==
    ASSUME BudgetTyped, NEW op \in Ops, IsWrite(op), NEW b, b = RuleRefuses(Begun(op))
    PROVE  Between(b, Wanted(op)) /\ b.phase = "begun"
<1>. DEFINE refused == IF HasCarriers
                       THEN budget.unruly \intersect (Wanted(op).create \union Wanted(op).update)
                       ELSE {}
<1>1. Wanted(op) \in Batches
  BY DEF BudgetTyped, IsWrite
<1>2. b = [phase |-> "begun", what |-> "none", item |-> 0, answer |-> "none",
           create |-> Wanted(op).create \ refused, update |-> Wanted(op).update \ refused,
           delete |-> Wanted(op).delete, ok |-> {}, bad |-> {} \union refused, done |-> {}]
  BY DEF RuleRefuses, Begun, NoBatch
<1>3. refused \subseteq Wanted(op).create \union Wanted(op).update
  OBVIOUS
<1>. HIDE DEF refused
<1>4. b \in BatchStates
  <2>1. 0 \in 0..Last
    BY CloudAssumption
  <2>. QED
    BY <1>1, <1>2, <1>3, <2>1 DEF Batches, BatchStates, Items
<1>. QED
  BY <1>1, <1>2, <1>3, <1>4 DEF Batches, Between, ToSend

LEMMA WriteBeginsInv ==
    ASSUME OpInv, BudgetTyped, WriteInv, NEW op \in Ops, WriteBegins(op)
    PROVE  WriteInv'
<1>1. SameBudget /\ late' = late /\ late \subseteq LateRequests /\ IsWrite(op) /\ StartBody(op)
  BY SpendKeeps DEF WriteBegins, WriteInv
<1>2. PICK b : b = RuleRefuses(Begun(op))
  OBVIOUS
<1>3. batch' = IF b[NextKind(b)] = {} THEN b ELSE SendNext(b)
  BY <1>2 DEF WriteBegins
<1>4. Between(b, Wanted(op)) /\ b.phase = "begun" /\ b \in BatchStates
  BY <1>1, <1>2, BatchBegins DEF Between
<1>5. \A o \in Ops : o # op => opState'[o] # "running"
  BY <1>1, Alone DEF StartBody, OpInv, OpTypeOK
<1>6. CASE b[NextKind(b)] = {}
  <2>1. batch' = b /\ ToSend(b) = {}
    BY <1>3, <1>4, <1>6, NextFields
  <2>2. Accounts(b, Wanted(op))
    BY <1>4 DEF Between, Accounts, OnItsWay
  <2>. QED
    BY <1>1, <1>4, <1>5, <2>1, <2>2, BatchOn DEF Between
<1>7. CASE b[NextKind(b)] # {}
  <2>1. batch' = SendNext(b)
    BY <1>3, <1>7
  <2>2. /\ batch' \in BatchStates /\ batch'.phase = "sent" /\ Accounts(batch', Wanted(op))
        /\ batch'.item \in Items /\ batch'.what \in {"create", "update", "delete"}
        /\ batch'.ok \subseteq batch'.done
    BY <1>4, <1>7, <2>1, NextSent
  <2>. QED
    BY <1>1, <1>5, <2>2, BatchOn
<1>. QED
  BY <1>6, <1>7

(* A record that is settled leaves its batch between two records.          *)
LEMMA SettledBetween ==
    ASSUME NEW b \in BatchStates, NEW wanted, Accounts(b, wanted),
           b.phase \in {"sent", "answered"}, b.item \in Items, b.ok \subseteq b.done,
           NEW good \in BOOLEAN, good => b.item \in b.done
    PROVE  Between(SettleOne(b, good), wanted)
<1>1. CASE good
  <2>1. PICK c : c = [b EXCEPT !.ok = @ \union {b.item}]
    OBVIOUS
  <2>2. /\ c \in BatchStates /\ c.ok = b.ok \union {b.item} /\ c.bad = b.bad /\ c.done = b.done
        /\ c.create = b.create /\ c.update = b.update /\ c.delete = b.delete
    BY <2>1 DEF BatchStates
  <2>3. Between(c, wanted)
    BY <1>1, <2>2 DEF Accounts, OnItsWay, ToSend, Between
  <2>. QED
    BY <1>1, <2>1, <2>3 DEF SettleOne
<1>2. CASE ~good
  <2>1. PICK c : c = [b EXCEPT !.bad = @ \union {b.item}]
    OBVIOUS
  <2>2. /\ c \in BatchStates /\ c.bad = b.bad \union {b.item} /\ c.ok = b.ok /\ c.done = b.done
        /\ c.create = b.create /\ c.update = b.update /\ c.delete = b.delete
    BY <2>1 DEF BatchStates
  <2>3. Between(c, wanted)
    BY <1>2, <2>2 DEF Accounts, OnItsWay, ToSend, Between
  <2>. QED
    BY <1>2, <2>1, <2>3 DEF SettleOne
<1>. QED
  BY <1>1, <1>2

(* What an answer is taken for a success of has happened.                  *)
LEMMA GoodIsDone ==
    ASSUME WriteInv, batch.phase = "answered", ~CarriersFollow(batch), Good(batch)
    PROVE  batch.item \in batch.done
<1>1. batch.what \in {"create", "update", "carrier", "delete", "relist"}
  BY DEF WriteInv, BatchStates, Carried
<1>2. GoneIsDone => ~HasCarriers
  BY DEF GoneIsDone, HasCarriers
<1>3. CASE batch.answer = "ok"
  BY <1>1, <1>3 DEF WriteInv, Carried, Good, CarriersFollow
<1>4. CASE batch.answer = "gone"
  BY <1>1, <1>2, <1>4 DEF WriteInv, Carried, Good
<1>. QED
  BY <1>3, <1>4 DEF Good

LEMMA WriteAnsweredInv ==
    ASSUME OpInv, BudgetTyped, WriteInv, NEW op \in Ops, WriteAnswered(op)
    PROVE  WriteInv'
<1>1. /\ SameBudget /\ late' = late /\ late \subseteq LateRequests /\ IsWrite(op)
      /\ opState[op] = "running" /\ batch.phase = "answered" /\ batch \in BatchStates
  BY SpendKeeps DEF WriteAnswered, WriteInv, Running
<1>2. /\ Accounts(batch, Wanted(op)) /\ batch.item \in Items /\ batch.ok \subseteq batch.done
  BY <1>1 DEF WriteInv, BatchSound, Carried
<1>3. ASSUME NEW what \in {"carrier", "relist"}, batch' = Sending(batch, what, batch.item),
             opState' = opState
      PROVE  WriteInv'
  <2>1. /\ batch' \in BatchStates /\ batch'.phase = "sent" /\ batch'.item = batch.item
        /\ batch'.what = what
        /\ batch'.create = batch.create /\ batch'.update = batch.update
        /\ batch'.delete = batch.delete
        /\ batch'.ok = batch.ok /\ batch'.bad = batch.bad /\ batch'.done = batch.done
    BY <1>1, <1>3 DEF Sending, BatchStates
  <2>2. Accounts(batch', Wanted(op))
    BY <1>1, <1>2, <2>1 DEF Accounts, OnItsWay, ToSend
  <2>3. \A o \in Ops : o # op => opState'[o] # "running"
    BY <1>1, <1>3, Alone
  <2>. QED
    BY <1>1, <1>2, <2>1, <2>2, <2>3, BatchOn
<1>4. CASE ~CarriersFollow(batch) /\ ApplyStep(op, SettleOne(batch, Good(batch)))
  <2>1. PICK good \in BOOLEAN : good = Good(batch)
    BY DEF Good
  <2>2. Between(SettleOne(batch, good), Wanted(op))
    BY <1>1, <1>2, <1>4, <2>1, GoodIsDone, SettledBetween
  <2>. QED
    BY <1>1, <1>4, <2>1, <2>2, ApplyStepInv
<1>. QED
  BY <1>3, <1>4 DEF WriteAnswered, opVars

(* A request that is given up may still arrive.                            *)
LEMMA OutstandingTyped ==
    ASSUME WriteInv, NEW heard \in BOOLEAN PROVE Outstanding(heard) \subseteq LateRequests
BY DEF WriteInv, Carried, BatchStates, Outstanding, LateRequests

LEMMA WriteLostInv ==
    ASSUME OpInv, BudgetTyped, WriteInv, NEW op \in Ops, WriteLost(op)
    PROVE  WriteInv'
<1>1. /\ SameBudget /\ IsWrite(op) /\ opState[op] = "running"
      /\ batch.phase \in {"sent", "answered"} /\ batch \in BatchStates
  BY SpendKeeps DEF WriteLost, WriteInv, Running
<1>2. late' \subseteq LateRequests
  BY OutstandingTyped DEF WriteLost, WriteInv
<1>3. /\ Accounts(batch, Wanted(op)) /\ batch.item \in Items /\ batch.ok \subseteq batch.done
  BY <1>1 DEF WriteInv, BatchSound, Carried
<1>4. Between(SettleOne(batch, FALSE), Wanted(op)) /\ ApplyStep(op, SettleOne(batch, FALSE))
  BY <1>1, <1>3, SettledBetween DEF WriteLost
<1>. QED
  BY <1>1, <1>2, <1>4, ApplyStepInv

LEMMA NothingToSendInv ==
    ASSUME OpInv, BudgetTyped, WriteInv, NEW op \in Ops, NothingToSend(op)
    PROVE  WriteInv'
<1>1. /\ SameBudget /\ opState[op] = "running" /\ late' = late
      /\ batch' = [batch EXCEPT !.phase = "over"]
      /\ \E outcome \in {"succeeded", "failed"} : End(op, outcome)
  BY SpendKeeps DEF NothingToSend, FinishIfSettled, Running
<1>2. \A o \in Ops : opState'[o] # "running"
  BY <1>1, EndFacts, Alone
<1>3. /\ batch' \in BatchStates /\ batch'.phase = "over" /\ batch'.ok \subseteq batch'.done
  BY <1>1 DEF WriteInv, Carried, BatchStates
<1>. QED
  BY <1>1, <1>2, <1>3, NoneRuns DEF WriteInv

(* The server answers: what it has carried out is noted.                   *)
LEMMA RequestArrivesInv ==
    ASSUME BudgetTyped, ReadInv, WriteInv, RequestArrives
    PROVE  SameBudget /\ ReadInv' /\ WriteInv'
<1>1. /\ batch.phase = "sent" /\ batch \in BatchStates /\ batch.item \in Items
      /\ batch.what \in Requests /\ late' = late /\ opState' = opState
      /\ UNCHANGED <<stateVars, walk>>
  BY DEF RequestArrives, WriteInv, Carried, BatchStates, Requests, opVars
<1>2. PICK answer \in {"ok", "gone", "no"} :
         /\ Arrives(batch.what, batch.item, answer)
         /\ batch' = [batch EXCEPT !.phase = "answered", !.answer = answer,
                         !.done = IF Completes(batch.what, batch.item, answer)
                                  THEN @ \union {batch.item} ELSE @]
  BY DEF RequestArrives
<1>3. SameBudget /\ ReadInv'
  <2>1. PICK what \in Requests, i \in Items : what = batch.what /\ i = batch.item
    BY <1>1
  <2>2. Arrives(what, i, answer)
    BY <1>2, <2>1
  <2>. QED
    BY <1>1, <1>2, <2>2, ArrivesInv
<1>4. /\ batch' \in BatchStates /\ batch'.phase = "answered" /\ batch'.answer = answer
      /\ batch'.item = batch.item /\ batch'.what = batch.what
      /\ batch'.create = batch.create /\ batch'.update = batch.update
      /\ batch'.delete = batch.delete /\ batch'.ok = batch.ok /\ batch'.bad = batch.bad
      /\ batch.done \subseteq batch'.done
      /\ Completes(batch.what, batch.item, answer) => batch.item \in batch'.done
  BY <1>1, <1>2 DEF BatchStates
<1>5. \A o : (IsWrite(o)' <=> IsWrite(o)) /\ Wanted(o)' = Wanted(o) /\ (HasCarriers' <=> HasCarriers)
  BY <1>3 DEF SameBudget, IsWrite, Wanted, HasCarriers, Kind
<1>6. \A o \in Ops : Accounts(batch, Wanted(o)) => Accounts(batch', Wanted(o))
  BY <1>1, <1>4 DEF Accounts, OnItsWay, ToSend
<1>7. BatchSound'
  BY <1>1, <1>4, <1>5, <1>6 DEF WriteInv, BatchSound
<1>8. answer = "gone" /\ (batch.what = "relist" \/ (batch.what = "delete" /\ ~HasCarriers))
      => Completes(batch.what, batch.item, answer)
  BY <1>2 DEF Arrives, Completes
<1>9. answer = "ok" /\ (batch.what = "delete" \/ batch.what = "carrier"
                        \/ (batch.what \in {"create", "update"} /\ ~HasCarriers))
      => Completes(batch.what, batch.item, answer)
  BY DEF Completes
<1>10. Carried'
  BY <1>1, <1>4, <1>5, <1>8, <1>9 DEF WriteInv, Carried
<1>. QED
  BY <1>1, <1>3, <1>4, <1>7, <1>10 DEF WriteInv, LateRequests

(* Cancelling one that runs leaves its batch to nobody.                    *)
LEMMA CancelInv ==
    ASSUME OpInv, BudgetTyped, ReadInv, WriteInv, NEW op \in Ops, CancelOperation(op)
    PROVE  SameBudget /\ ReadInv' /\ WriteInv'
<1>1. /\ SameBudget /\ UNCHANGED <<seq, changed, server, missed, stateVars>>
      /\ opState'[op] = "cancelled" /\ \A o \in Ops : o # op => opState'[o] = opState[o]
      /\ late \subseteq LateRequests /\ batch \in BatchStates
  BY SpendKeeps, EndFacts DEF CancelOperation, CancelOp, WriteInv
<1>2. ReadInv'
  <2>1. CASE UNCHANGED <<walk, was>>
    BY <1>1, <2>1, ReadUnchanged
  <2>2. CASE walk' = Idle /\ was' = [i \in Items |-> {}]
    BY <1>1, <2>2, GivenUpInv
  <2>. QED
    BY <2>1, <2>2 DEF CancelOperation
<1>3. WriteInv'
  <2>1. CASE batch' = batch /\ late' = late
    BY <1>1, <2>1, BatchUnchanged
  <2>2. CASE Running(op) /\ batch' = NoBatch
             /\ late' = late \union Outstanding(TRUE) \union OwedCarrier
    <3>1. OwedCarrier \subseteq LateRequests
      <4>1. batch.phase = "answered" =>
               [what |-> "carrier", item |-> batch.item, heard |-> TRUE] \in LateRequests
        BY DEF WriteInv, Carried, LateRequests
      <4>. QED
        BY <4>1 DEF OwedCarrier
    <3>2. Outstanding(TRUE) \subseteq LateRequests
      BY OutstandingTyped
    <3>3. \A o \in Ops : opState'[o] # "running"
      BY <1>1, <2>2, Alone DEF Running
    <3>4. NoBatch \in BatchStates /\ NoBatch.phase = "idle" /\ NoBatch.ok = {}
      BY CloudAssumption DEF NoBatch, BatchStates
    <3>5. late' \subseteq LateRequests
      BY <1>1, <2>2, <3>1, <3>2
    <3>. QED
      BY <1>1, <2>2, <3>3, <3>4, <3>5, NoneRuns
  <2>. QED
    BY <2>1, <2>2 DEF CancelOperation
<1>. QED
  BY <1>1, <1>2, <1>3

LEMMA RestartInv ==
    ASSUME OpInv, BudgetTyped, ReadInv, WriteInv, Restart
    PROVE  SameBudget /\ ReadInv' /\ WriteInv'
<1>1. SameBudget /\ ReadInv'
  BY RestartRead
<1>2. \A o \in Ops : opState'[o] # "running"
  BY DEF Restart
<1>3. NoBatch \in BatchStates /\ NoBatch.phase = "idle" /\ NoBatch.ok = {}
  BY CloudAssumption DEF NoBatch, BatchStates
<1>4. late' \subseteq LateRequests
  <2>1. late \union Outstanding(FALSE) \subseteq LateRequests
    BY OutstandingTyped DEF WriteInv
  <2>2. \A r \in LateRequests : [r EXCEPT !.heard = FALSE] \in LateRequests
    BY DEF LateRequests
  <2>. QED
    BY <2>1, <2>2 DEF Restart
<1>. QED
  BY <1>1, <1>2, <1>3, <1>4, NoneRuns DEF Restart

LEMMA LateInv ==
    ASSUME BudgetTyped, ReadInv, WriteInv, NEW r \in late, LateArrives(r) \/ LateNever(r)
    PROVE  SameBudget /\ ReadInv' /\ WriteInv'
<1>1. r \in LateRequests /\ late \subseteq LateRequests
  BY DEF WriteInv
<1>2. CASE LateArrives(r)
  <2>1. PICK answer \in {"ok", "gone"} :
           /\ Arrives(r.what, r.item, answer)
           /\ late' \subseteq late \union {[r EXCEPT !.what = "carrier"]}
    BY <1>2 DEF LateArrives
  <2>2. UNCHANGED <<stateVars, walk, batch, opVars>>
    BY <1>2 DEF LateArrives
  <2>3. PICK what \in Requests, i \in Items : what = r.what /\ i = r.item
    BY <1>1 DEF LateRequests, Requests
  <2>4. SameBudget /\ ReadInv'
    <3>1. Arrives(what, i, answer) /\ answer \in {"ok", "gone", "no"}
      BY <2>1, <2>3
    <3>. QED
      BY <2>2, <3>1, ArrivesInv
  <2>5. [r EXCEPT !.what = "carrier"] \in LateRequests
    BY <1>1 DEF LateRequests
  <2>6. late' \subseteq LateRequests
    BY <1>1, <2>1, <2>5
  <2>. QED
    BY <2>2, <2>4, <2>6, BatchUnchanged DEF opVars
<1>3. CASE LateNever(r)
  <2>1. UNCHANGED <<serverVars, stateVars, walk, batch, budget, opVars>> /\ late' \subseteq late
    BY <1>3 DEF LateNever
  <2>. QED
    BY <1>1, <2>1, SpendKeeps, ReadUnchanged, BatchUnchanged DEF opVars
<1>. QED
  BY <1>2, <1>3

(* What the queue does moves neither walk nor batch.                       *)
LEMMA QueueInv ==
    ASSUME OpInv, BudgetTyped, ReadInv, WriteInv, NEW op \in Ops,
           EnqueueOperation(op) \/ DeleteOperation(op) \/ StartIdle(op)
    PROVE  SameBudget /\ ReadInv' /\ WriteInv'
<1>1. UNCHANGED <<serverVars, stateVars, walk, batch, late, budget>>
  BY DEF EnqueueOperation, DeleteOperation, StartIdle
<1>2. SameBudget
  BY <1>1, SpendKeeps
<1>3. \A o \in Ops : opState'[o] = "running" => opState[o] = "running"
  BY DEF EnqueueOperation, Enqueue, DeleteOperation, DeleteOp, StartIdle, StartNothing,
         OpInv, OpTypeOK
<1>. QED
  BY <1>1, <1>2, <1>3, ReadUnchanged, BatchUnchanged DEF WriteInv

(***************************************************************************)
(* The invariant.                                                          *)
(***************************************************************************)
LEMMA FetchOps ==
    ASSUME OpInv, NEW op \in Ops, FetchTurn(op) PROVE OpInv'
<1>1. CASE FetchBegins(op)
  BY <1>1, StartInv DEF FetchBegins
<1>2. CASE opState[op] = "running" /\ End(op, "succeeded")
  BY <1>2, EndInv DEF Terminal
<1>3. CASE opState[op] = "running" /\ End(op, "failed")
  BY <1>3, EndInv DEF Terminal
<1>4. CASE UNCHANGED opVars
  BY <1>4, OpsUnchangedInv
<1>. QED
  BY <1>1, <1>2, <1>3, <1>4
     DEF FetchTurn, PageAnswered, PageCut, PageFailed, PageGone, RetryTimer, FinishFetch, FetchFails, Running

LEMMA WriteOps ==
    ASSUME OpInv, NEW op \in Ops, WriteTurn(op) PROVE OpInv'
<1>1. CASE WriteBegins(op)
  BY <1>1, StartInv DEF WriteBegins
<1>2. CASE opState[op] = "running" /\ \E outcome \in {"succeeded", "failed"} : End(op, outcome)
  BY <1>2, EndInv DEF Terminal
<1>3. CASE UNCHANGED opVars
  BY <1>3, OpsUnchangedInv
<1>4. ASSUME NEW b, FinishIfSettled(op, b) PROVE \E outcome \in {"succeeded", "failed"} : End(op, outcome)
  BY <1>4 DEF FinishIfSettled
<1>5. ASSUME NEW b, ApplyStep(op, b)
      PROVE  (\E outcome \in {"succeeded", "failed"} : End(op, outcome)) \/ UNCHANGED opVars
  BY <1>5, <1>4 DEF ApplyStep
<1>. QED
  BY <1>1, <1>2, <1>3, <1>4, <1>5
     DEF WriteTurn, NothingToSend, WriteAnswered, WriteLost, Running

LEMMA InitInv == Init => IInv
<1>. SUFFICES ASSUME Init PROVE IInv
  OBVIOUS
<1>. USE DEF Init
<1>1. OpInv
  BY OpInitInv
<1>2. BudgetTyped
  BY BudgetsAssumption DEF BudgetTyped, Kind, IsFetch, Wanted
<1>3. \A i \in Items : i \in Nat \ {0} /\ i <= Last
  BY ItemsFinite, CloudAssumption DEF Items
<1>4. seq = Last /\ Last \in Nat \ {0} /\ Gone \in RowType /\ Nothing \in Rows
  BY CloudAssumption DEF Gone, RowType, Nothing, Rows
<1>5. server \in Rows /\ changed \in [Items -> 0..seq]
  BY <1>3, <1>4 DEF Rows, RowType
<1>6. disk \in [token : Nat, cache : Rows] /\ disk.token \in 0..seq /\ (~HasToken => disk.token = 0)
  BY <1>4, <1>5 DEF NoState
<1>7. ServerTyped
  BY <1>3, <1>4, <1>5, <1>6 DEF ServerTyped
<1>8. StateAtToken
  <2>1. AtToken(0, Nothing)
    BY <1>7, NothingAgrees DEF AtToken, CoversUpTo
  <2>2. HasToken /\ disk # NoState => disk.token # 0 /\ disk.cache = server
    BY <1>4
  <2>3. NoState.token = 0 /\ NoState.cache = Nothing
    BY DEF NoState
  <2>4. HasToken => AtToken(disk.token, disk.cache)
    BY <2>1, <2>2, <2>3 DEF AtToken, CoversUpTo, Agrees
  <2>. QED
    BY <2>1, <2>4 DEF StateAtToken
<1>9. ~Walking /\ WalkTyped
  BY <1>4 DEF Walking, WalkTyped, Idle, Walks
<1>10. ReadInv
  BY <1>7, <1>8, <1>9 DEF ReadInv, WasNow, ItemWalk, DeltaWalk, OffsetWalk
<1>11. WriteInv
  BY CloudAssumption DEF WriteInv, NoBatch, BatchStates, LateRequests, BatchSound, Carried, OpInit
<1>. QED
  BY <1>1, <1>2, <1>10, <1>11 DEF IInv

LEMMA FetchTurnInv ==
    ASSUME IInv, NEW op \in Ops, FetchTurn(op) PROVE IInv'
<1>. USE DEF IInv
<1>1. SameBudget /\ ReadInv'
  BY FetchBeginsInv, PageAnsweredInv, PageCutInv, PageTroubleInv, PageGoneInv DEF FetchTurn
<1>2. batch' = batch /\ late' = late /\ IsFetch(op)
  BY DEF FetchTurn, FetchBegins, PageAnswered, PageCut, PageFailed, PageGone, RetryTimer
<1>3. OpInv'
  BY FetchOps
<1>4. \A o \in Ops : IsWrite(o) /\ opState'[o] = "running" => opState[o] = "running"
  <2>1. ~IsWrite(op)
    BY <1>2 DEF BudgetTyped, IsWrite
  <2>2. \A o \in Ops : o # op => opState'[o] = opState[o]
    BY EndFacts
       DEF FetchTurn, FetchBegins, StartBody, PageAnswered, PageCut, PageFailed, PageGone, RetryTimer,
           FinishFetch, FetchFails, opVars, OpInv, OpTypeOK
  <2>. QED
    BY <2>1, <2>2
<1>5. WriteInv'
  BY <1>1, <1>2, <1>4, BatchUnchanged DEF WriteInv
<1>. QED
  BY <1>1, <1>3, <1>5 DEF SameBudget

LEMMA WriteTurnInv ==
    ASSUME IInv, NEW op \in Ops, WriteTurn(op) PROVE IInv'
<1>. USE DEF IInv
<1>1. UNCHANGED <<serverVars, stateVars, walk>>
  BY DEF WriteTurn, WriteBegins, NothingToSend, WriteAnswered, WriteLost
<1>2. SameBudget
  BY SpendKeeps DEF WriteTurn, WriteBegins, NothingToSend, WriteAnswered, WriteLost
<1>3. WriteInv'
  BY WriteBeginsInv, NothingToSendInv, WriteAnsweredInv, WriteLostInv DEF WriteTurn
<1>. QED
  BY <1>1, <1>2, <1>3, WriteOps, ReadUnchanged DEF SameBudget

LEMMA NextInv == IInv /\ [Next]_vars => IInv'
<1>. SUFFICES ASSUME IInv, [Next]_vars PROVE IInv'
  OBVIOUS
<1>. USE DEF IInv
<1>1. ASSUME NEW i \in Items, ForeignChange(i) PROVE IInv'
  <2>1. SameBudget /\ ReadInv'
    BY <1>1, ForeignInv
  <2>2. batch' = batch /\ late' = late /\ UNCHANGED opVars
    BY <1>1 DEF ForeignChange
  <2>. QED
    BY <2>1, <2>2, OpsUnchangedInv, BatchUnchanged DEF SameBudget, WriteInv, opVars
<1>2. ASSUME NEW op \in Ops, EnqueueOperation(op) \/ DeleteOperation(op) \/ StartIdle(op)
      PROVE  IInv'
  <2>1. OpInv'
    BY <1>2, EnqueueInv, DeleteInv, StartInv DEF EnqueueOperation, DeleteOperation, StartIdle
  <2>. QED
    BY <1>2, <2>1, QueueInv DEF SameBudget
<1>3. ASSUME NEW op \in Ops, CancelOperation(op) PROVE IInv'
  <2>1. OpInv'
    BY <1>3, EndInv DEF CancelOperation, CancelOp, Terminal
  <2>. QED
    BY <1>3, <2>1, CancelInv DEF SameBudget
<1>4. ASSUME NEW op \in Ops, FetchTurn(op) \/ WriteTurn(op) PROVE IInv'
  BY <1>4, FetchTurnInv, WriteTurnInv
<1>5. CASE RequestArrives
  BY <1>5, RequestArrivesInv, OpsUnchangedInv DEF RequestArrives, SameBudget
<1>6. ASSUME NEW r \in late, LateArrives(r) \/ LateNever(r) PROVE IInv'
  BY <1>6, LateInv, OpsUnchangedInv DEF LateArrives, LateNever, SameBudget
<1>7. CASE Restart
  BY <1>7, RestartInv, OpRestartInv DEF Restart, SameBudget
<1>8. CASE UNCHANGED vars
  <2>1. SameBudget
    BY <1>8, SpendKeeps DEF vars
  <2>. QED
    BY <1>8, <2>1, ReadUnchanged, BatchUnchanged, OpsUnchangedInv
       DEF vars, SameBudget, WriteInv, opVars
<1>. QED
  BY <1>1, <1>2, <1>3, <1>4, <1>5, <1>6, <1>7, <1>8 DEF Next

(* IInv, the invariant the theorems below rest on, holds in every state of *)
(* a collection (CloudCollection.tla; the five backends it models).        *)
THEOREM Invariance == Spec => []IInv
BY InitInv, NextInv, PTL DEF Spec

(* No operation of a collection is lost: each that waits is in flight or   *)
(* queued behind what is, at most one runs, and the queue is empty when    *)
(* nothing is in flight (the queue of syncbackendbase.cpp).                *)
THEOREM QueueKept == Spec => []OpInv
BY Invariance, PTL DEF IInv

(* A token is never ahead of the rows kept with it, in memory or on disk:  *)
(* no walk that is cut off, restarted, refused or paged over changes of    *)
(* others commits a token whose rows it does not have.                     *)
THEOREM TokenCovered == Spec => []CacheAtToken
<1>1. IInv => CacheAtToken
  BY DEF IInv, ReadInv, StateAtToken, AtToken, CacheAtToken
<1>. QED
  BY <1>1, Invariance, PTL

(* What a fetch that succeeds gives is as the server had it.               *)
LEMMA FetchTells ==
    ASSUME IInv, NEW op \in Ops, PageAnswered(op), opState'[op] = "succeeded",
           NEW i \in Items \ missed
    PROVE  \E row \in was[i] : Agrees(memo'[i], row)
<1>. USE DEF IInv
<1>1. /\ opState[op] = "running" /\ walk.phase = "asked" /\ Walking
      /\ UNCHANGED <<seq, changed, server, missed>>
  BY DEF PageAnswered, Running, Walking
<1>2. PICK skeleton :
         IF ~More THEN FinishFetch(op, WalkAfterPage(skeleton), NextToken(WalkAfterPage(skeleton)))
         ELSE IF ClientWalks /\ WalkAfterPage(skeleton).pages > MaxPages
         THEN FetchFails(op) /\ UNCHANGED budget
         ELSE walk' = WalkAfterPage(skeleton) /\ UNCHANGED <<was, stateVars, budget, opVars>>
  BY DEF PageAnswered
<1>3. PICK w : w = WalkAfterPage(skeleton)
  OBVIOUS
<1>4. ~More /\ memo' = w.cache
  <2>1. FetchFails(op) => opState'[op] = "failed"
    BY EndFacts DEF FetchFails
  <2>. QED
    BY <1>1, <1>2, <1>3, <2>1 DEF FinishFetch, opVars
<1>5. server[i] \in was[i]
  BY <1>1 DEF ReadInv, WasNow
<1>6. CASE Kind \in {"calendar", "people", "tasks"}
  <2>1. i \in Nat /\ w.at \in Nat
    BY <1>1, <1>3, ItemsFinite, AfterPage DEF Walks
  <2>2. /\ i <= w.at => \E row \in was[i] : Agrees(w.cache[i], row)
        /\ i > w.at => Agrees(w.cache[i], server[i])
    BY <1>1, <1>3, <1>4, <1>6, ItemPage
  <2>. QED
    BY <1>4, <1>5, <2>1, <2>2
<1>7. CASE Kind = "delta"
  BY <1>1, <1>3, <1>4, <1>5, <1>7, DeltaPage
<1>8. CASE Kind = "lists"
  BY <1>1, <1>3, <1>4, <1>8, OffsetPage
<1>. QED
  BY <1>6, <1>7, <1>8 DEF BudgetTyped

LEMMA CutTells ==
    ASSUME IInv, NEW op \in Ops, PageCut(op), NEW i \in Items \ missed'
    PROVE  \E row \in was[i] : Agrees(memo'[i], row)
<1>1. Walking /\ Kind = "people" /\ memo' = walk.cache /\ i \notin Listed
  BY DEF PageCut, FinishFetch, Walking
<1>2. \A j \in Items \ Listed : \E row \in was[j] : Agrees(walk.cache[j], row)
  BY <1>1, CutWalk DEF IInv
<1>. QED
  BY <1>1, <1>2

(* A batch whose operation succeeds has settled each record once.          *)
LEMMA BatchTells ==
    ASSUME NEW b, NEW op \in Ops, BudgetTyped, IsWrite(op), Between(b, Wanted(op)), ToSend(b) = {},
           batch' = [b EXCEPT !.phase = "over"]
    PROVE  /\ batch'.ok \union batch'.bad = UNION {Wanted(op)[k] : k \in DOMAIN Wanted(op)}
           /\ batch'.ok \intersect batch'.bad = {}
           /\ batch'.ok \subseteq batch'.done
<1>1. b \in BatchStates /\ Wanted(op) \in Batches
  BY DEF Between, BudgetTyped, IsWrite
<1>2. batch'.ok = b.ok /\ batch'.bad = b.bad /\ batch'.done = b.done
  BY <1>1 DEF BatchStates
<1>3. PICK wanted : wanted = Wanted(op)
  OBVIOUS
<1>4. /\ DOMAIN wanted = {"create", "update", "delete"}
      /\ wanted["create"] = wanted.create /\ wanted["update"] = wanted.update
      /\ wanted["delete"] = wanted.delete
  BY <1>1, <1>3 DEF Batches
<1>5. UNION {wanted[k] : k \in DOMAIN wanted} = wanted.create \union wanted.update \union wanted.delete
  BY <1>4
<1>. QED
  BY <1>2, <1>3, <1>5 DEF Between

LEMMA WriteTells ==
    ASSUME IInv, NEW op \in Ops, WriteTurn(op), opState[op] = "running", opState'[op] = "succeeded"
    PROVE  /\ batch'.ok \union batch'.bad = UNION {Wanted(op)[k] : k \in DOMAIN Wanted(op)}
           /\ batch'.ok \intersect batch'.bad = {}
           /\ batch'.ok \subseteq batch'.done
<1>. USE DEF IInv
<1>1. /\ IsWrite(op) /\ batch \in BatchStates
      /\ batch.phase \in {"begun", "sent", "answered"}
      /\ batch.phase = "begun" => ToSend(batch) = {}
      /\ Accounts(batch, Wanted(op)) /\ batch.ok \subseteq batch.done
  BY DEF WriteTurn, WriteBegins, NothingToSend, WriteAnswered, WriteLost, WriteInv, BatchSound, Carried
<1>2. CASE NothingToSend(op)
  <2>1. Between(batch, Wanted(op)) /\ ToSend(batch) = {} /\ batch' = [batch EXCEPT !.phase = "over"]
    BY <1>1, <1>2 DEF NothingToSend, FinishIfSettled, Between, Accounts, OnItsWay
  <2>. QED
    BY <1>1, <2>1, BatchTells
<1>3. ASSUME NEW b, Between(b, Wanted(op)), ApplyStep(op, b)
      PROVE  ToSend(b) = {} /\ batch' = [b EXCEPT !.phase = "over"]
  <2>1. opState' # opState
    OBVIOUS
  <2>2. b \in BatchStates
    BY <1>3 DEF Between
  <2>3. b[NextKind(b)] = {}
    BY <1>3, <2>1 DEF ApplyStep, opVars
  <2>. QED
    BY <1>3, <2>2, <2>3, NextFields DEF ApplyStep, FinishIfSettled
<1>4. CASE WriteAnswered(op)
  <2>1. batch.phase = "answered" /\ batch.item \in Items
    BY <1>4 DEF WriteAnswered, WriteInv, Carried
  <2>2. ~CarriersFollow(batch) /\ ApplyStep(op, SettleOne(batch, Good(batch)))
    <3>1. opState' # opState
      OBVIOUS
    <3>. QED
      BY <1>4, <3>1 DEF WriteAnswered, opVars
  <2>3. PICK good \in BOOLEAN : good = Good(batch)
    BY DEF Good
  <2>4. Between(SettleOne(batch, good), Wanted(op))
    BY <1>1, <2>1, <2>2, <2>3, GoodIsDone, SettledBetween
  <2>5. PICK b : b = SettleOne(batch, good)
    OBVIOUS
  <2>. QED
    BY <1>1, <1>3, <2>2, <2>3, <2>4, <2>5, BatchTells
<1>5. CASE WriteLost(op)
  <2>1. batch.phase \in {"sent", "answered"} /\ batch.item \in Items
    BY <1>5 DEF WriteLost, WriteInv, Carried
  <2>2. Between(SettleOne(batch, FALSE), Wanted(op))
    BY <1>1, <2>1, SettledBetween
  <2>3. PICK b : b = SettleOne(batch, FALSE)
    OBVIOUS
  <2>. QED
    BY <1>1, <1>3, <1>5, <2>2, <2>3, BatchTells DEF WriteLost
<1>6. ~WriteBegins(op)
  BY DEF WriteBegins, StartBody
<1>. QED
  BY <1>2, <1>4, <1>5, <1>6 DEF WriteTurn

(* An operation that succeeds tells the truth: a fetch reports each item   *)
(* as the server had it at some moment of the fetch, but for those that a  *)
(* listing left out (past its offset, or after a page of contacts that was *)
(* cut), and a write has settled each of its records once, those it calls  *)
(* successful being carried out (FetchState and ApplyState of the five     *)
(* backends).                                                              *)
THEOREM Truthful == Spec => SuccessTellsTheTruth
<1>1. ASSUME IInv, [Next]_vars, NEW op \in Ops, opState[op] = "running", opState'[op] = "succeeded"
      PROVE  IF IsFetch(op)
             THEN \A i \in Items \ missed' : \E row \in was[i] : Agrees(memo'[i], row)
             ELSE /\ batch'.ok \union batch'.bad = UNION {Wanted(op)[k] : k \in DOMAIN Wanted(op)}
                  /\ batch'.ok \intersect batch'.bad = {}
                  /\ batch'.ok \subseteq batch'.done
  <2>. USE DEF IInv
  <2>1. opState \in [Ops -> OpStates] /\ opState' # opState
    BY <1>1 DEF OpInv, OpTypeOK, OpStates
  <2>2. ~Restart /\ ~RequestArrives /\ ~UNCHANGED vars
    BY <1>1, <2>1 DEF Restart, RequestArrives, vars, opVars
  <2>3. ~(\E i \in Items : ForeignChange(i)) /\ ~(\E r \in late : LateArrives(r) \/ LateNever(r))
    BY <1>1, <2>1 DEF ForeignChange, LateArrives, LateNever, opVars
  <2>4. PICK o \in Ops :
           \/ EnqueueOperation(o) \/ CancelOperation(o) \/ DeleteOperation(o)
           \/ StartIdle(o) \/ FetchTurn(o) \/ WriteTurn(o)
    BY <1>1, <2>2, <2>3 DEF Next
  <2>5. ~EnqueueOperation(o) /\ ~StartIdle(o) /\ ~DeleteOperation(o)
    BY <1>1, <2>1 DEF EnqueueOperation, Enqueue, StartIdle, StartNothing, DeleteOperation, DeleteOp
  <2>6. ~CancelOperation(o)
    BY <1>1, <2>1, EndFacts DEF CancelOperation, CancelOp
  <2>7. CASE FetchTurn(o)
    <3>1. o = op /\ (PageAnswered(o) \/ PageCut(o))
      <4>1. ~FetchBegins(o)
        BY <1>1, <2>1 DEF FetchBegins, StartBody
      <4>2. ~PageFailed(o) /\ ~PageGone(o) /\ ~RetryTimer(o)
        <5>1. ~FetchFails(o)
          BY <1>1, <2>1, EndFacts DEF FetchFails
        <5>. QED
          BY <5>1, <1>1, <2>1 DEF PageFailed, PageGone, RetryTimer, opVars
      <4>3. PageAnswered(o) \/ PageCut(o)
        BY <2>7, <4>1, <4>2 DEF FetchTurn
      <4>. QED
        BY <1>1, <4>3, Alone DEF PageAnswered, PageCut, Running
    <3>2. IsFetch(op)
      BY <3>1 DEF PageAnswered, PageCut
    <3>3. CASE PageAnswered(op)
      <4>1. missed' = missed
        BY <3>3 DEF PageAnswered
      <4>. QED
        BY <1>1, <3>2, <3>3, <4>1, FetchTells
    <3>4. CASE PageCut(op)
      BY <1>1, <3>2, <3>4, CutTells
    <3>. QED
      BY <3>1, <3>3, <3>4
  <2>8. CASE WriteTurn(o)
    <3>1. IsWrite(o) /\ ~IsFetch(o)
      <4>1. IsWrite(o)
        BY <2>8 DEF WriteTurn, WriteBegins, NothingToSend, WriteAnswered, WriteLost
      <4>. QED
        BY <1>1, <4>1 DEF BudgetTyped, IsWrite
    <3>2. o = op
      <4>1. CASE StartBody(o)
        BY <1>1, <2>1, <4>1 DEF StartBody
      <4>2. CASE opState[o] = "running"
        BY <1>1, <4>2, Alone
      <4>. QED
        BY <2>8, <4>1, <4>2
           DEF WriteTurn, WriteBegins, NothingToSend, WriteAnswered, WriteLost, Running
    <3>. QED
      BY <1>1, <2>8, <3>1, <3>2, WriteTells
  <2>. QED
    BY <2>4, <2>5, <2>6, <2>7, <2>8
<1>2. IInv /\ [Next]_vars =>
        [\A op \in Ops : opState[op] = "running" /\ opState'[op] = "succeeded" =>
            IF IsFetch(op)
            THEN \A i \in Items \ missed' : \E row \in was[i] : Agrees(memo'[i], row)
            ELSE /\ batch'.ok \union batch'.bad = UNION {Wanted(op)[k] : k \in DOMAIN Wanted(op)}
                 /\ batch'.ok \intersect batch'.bad = {}
                 /\ batch'.ok \subseteq batch'.done]_vars
  BY <1>1
<1>. QED
  BY <1>2, Invariance, PTL DEF Spec, SuccessTellsTheTruth
=============================================================================
