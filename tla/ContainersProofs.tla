--------------------------- MODULE ContainersProofs --------------------------
(***************************************************************************)
(* Proofs about the containers, one after the other and for arrays of any  *)
(* size.                                                                   *)
(*                                                                         *)
(* Dict: probes end, count and len() are what they should be, and the      *)
(* dictionary is a map, through growing, shrinking and copying.            *)
(* ValueSet: a set keeps its elements, although its count may be wrong and *)
(* a probe may never end.  Queue: what grayQueue marks, and the order in   *)
(* which values come out.  Lists: a list is a sequence, whatever its array *)
(* went through, and what it holds has been put there.                     *)
(***************************************************************************)
EXTENDS MCContainers, ProbingProofs, SequenceTheorems

----------------------------------------------------------------------------
(***************************************************************************)
(* Dictionaries.                                                           *)
(***************************************************************************)

\* A dictionary's table can be probed: it is empty or has a gap.
Probed(table, cap) ==
  IsTable(table, cap) /\ Settled(table, cap) /\ (cap # 0 => HasGap(table))

\* A value of struct sObjDict.
IsDict(d) ==
  /\ d = [entries |-> d.entries, capacityMask |-> d.capacityMask,
          count |-> d.count, activeCount |-> d.activeCount]
  /\ d.capacityMask \in Int

\* The sizes of arrays.
Capacities == {0} \cup {2 ^ n : n \in 3 .. 30}

\* What is true of every dictionary between two calls.
InOrder(d) ==
  /\ IsDict(d)
  /\ DictCapacity(d) \in Capacities
  /\ Probed(d.entries, DictCapacity(d))
  /\ d.count \in Nat
  /\ Cardinality(Occupied(d.entries)) <= d.count
  /\ 4 * d.count <= 3 * DictCapacity(d)
  /\ d.activeCount = Cardinality(Live(d.entries))

DictInv == InOrder(dict) /\ dictRet \in Values \cup BOOLEAN \cup {NotFound}

----------------------------------------------------------------------------
(* Rehashing. *)

\* The live slots among the first n.
Before(table, n) == {i \in Live(table) : i < n}

\* A new array after the first n slots of a table are moved to it.
HoldsFirst(fresh, cap, table, n) ==
  /\ IsTable(fresh, cap) /\ Settled(fresh, cap)
  /\ Held(fresh) = {table[i] : i \in Before(table, n)}
  /\ Occupied(fresh) = Live(fresh)
  /\ Cardinality(Live(fresh)) = Cardinality(Before(table, n))

\* The next slot is one more of them if it is live.
LEMMA BeforeFacts ==
  ASSUME NEW table, NEW size, IsTable(table, size), NEW n \in 1 .. size
  PROVE  /\ IsFiniteSet(Before(table, n - 1)) /\ Cardinality(Before(table, n - 1)) \in Nat
         /\ ~ IsLive(table[n - 1]) => Before(table, n) = Before(table, n - 1)
         /\ IsLive(table[n - 1]) =>
              /\ Before(table, n) = Before(table, n - 1) \cup {n - 1}
              /\ Cardinality(Before(table, n)) = Cardinality(Before(table, n - 1)) + 1
         /\ Cardinality(Before(table, n)) <= Cardinality(Live(table))
         /\ Cardinality(Before(table, n)) \in Nat
<1>1. IsFiniteSet(Live(table)) /\ Cardinality(Live(table)) \in Nat
  BY LiveFacts
<1>2. /\ IsFiniteSet(Before(table, n - 1)) /\ Cardinality(Before(table, n - 1)) \in Nat
      /\ Cardinality(Before(table, n)) <= Cardinality(Live(table))
      /\ Cardinality(Before(table, n)) \in Nat
  <2>1. Before(table, n) \subseteq Live(table) /\ Before(table, n - 1) \subseteq Live(table)
    BY DEF Before
  <2> QED BY <1>1, <2>1, FS_Subset, FS_CardinalityType
<1>3. DOMAIN table = 0 .. size - 1 /\ size \in Nat
  BY DEF IsTable, Slots
<1>4. ~ IsLive(table[n - 1]) => Before(table, n) = Before(table, n - 1)
  BY <1>3 DEF Before, Live
<1>5. IsLive(table[n - 1]) => /\ Before(table, n) = Before(table, n - 1) \cup {n - 1}
                              /\ n - 1 \notin Before(table, n - 1)
  BY <1>3 DEF Before, Live
<1>6. ASSUME IsLive(table[n - 1])
      PROVE  Cardinality(Before(table, n)) = Cardinality(Before(table, n - 1)) + 1
  BY <1>2, <1>5, <1>6, FS_AddElement
<1> QED BY <1>2, <1>4, <1>5, <1>6

\* One turn of adjustDictCapacity's loop.
LEMMA MoveSlotFacts ==
  ASSUME NEW table, NEW size, Probed(table, size), NEW mask \in Nat,
         4 * Cardinality(Live(table)) <= 3 * (mask + 1),
         NEW n \in 1 .. size, NEW fresh, HoldsFirst(fresh, mask + 1, table, n - 1)
  PROVE  HoldsFirst(MoveSlot(fresh, mask, table[n - 1]), mask + 1, table, n)
<1> DEFINE c == table[n - 1]
<1>1. /\ IsTable(table, size) /\ Settled(table, size) /\ HasGap(table)
      /\ n - 1 \in Slots(size)
  BY DEF Probed, Slots, IsTable
<1>2. c \in Content
  BY <1>1 DEF IsTable
<1>3. CASE ~ IsLive(c)
  <2>1. Before(table, n) = Before(table, n - 1)
    BY <1>1, <1>3, BeforeFacts
  <2> QED BY <1>3, <2>1 DEF MoveSlot, HoldsFirst
<1>4. CASE IsLive(c)
  <2>1. c \in Entry /\ c.key \in Keys
    BY <1>2, <1>4, LiveIsEntry
  <2>2. /\ Before(table, n) = Before(table, n - 1) \cup {n - 1}
        /\ Cardinality(Before(table, n)) = Cardinality(Before(table, n - 1)) + 1
        /\ Cardinality(Before(table, n)) <= Cardinality(Live(table))
        /\ Cardinality(Before(table, n - 1)) \in Nat
    BY <1>1, <1>4, BeforeFacts
  <2>3. Cardinality(Live(table)) \in Nat
    BY <1>1, LiveFacts
  <2>4. HasGap(fresh)
    <3>1. 4 * Cardinality(Occupied(fresh)) <= 3 * (mask + 1)
      BY <2>2, <2>3 DEF HoldsFirst
    <3> QED BY <3>1, GapFacts DEF HoldsFirst
  <2> DEFINE at == Find(fresh, mask + 1, c.key)
             after == StoredIn(fresh, mask + 1, c)
  <2>5. MoveSlot(fresh, mask, c) = after
    <3>1. FindDictEntry(fresh, mask, c.key) = Find(fresh, mask + 1, c.key)
      BY DEF FindDictEntry
    <3>2. MoveSlot(fresh, mask, c) = [fresh EXCEPT ![FindDictEntry(fresh, mask, c.key)] = c]
      BY <1>4 DEF MoveSlot
    <3>3. after = [fresh EXCEPT ![Find(fresh, mask + 1, c.key)] = c]
      BY DEF StoredIn
    <3> HIDE DEF c, after
    <3> QED BY <3>1, <3>2, <3>3, Zenon
  <2>6. /\ IsTable(after, mask + 1) /\ Settled(after, mask + 1)
        /\ Held(after) = With(Held(fresh), c)
        /\ Occupied(after) = Occupied(fresh) \cup {at}
        /\ Live(after) = Live(fresh) \cup {at}
    <3>1. IsTable(fresh, mask + 1) /\ Settled(fresh, mask + 1)
      BY DEF HoldsFirst
    <3>2. PICK e \in Entry : e = c
      BY <2>1
    <3>3. PICK cap : cap = mask + 1
      OBVIOUS
    <3>4. /\ IsTable(StoredIn(fresh, cap, e), cap) /\ Settled(StoredIn(fresh, cap, e), cap)
          /\ Held(StoredIn(fresh, cap, e)) = With(Held(fresh), e)
          /\ Occupied(StoredIn(fresh, cap, e)) = Occupied(fresh) \cup {Find(fresh, cap, e.key)}
      BY <2>4, <3>1, <3>3, StoreFacts
    <3>5. Live(StoredIn(fresh, cap, e)) = Live(fresh) \cup {Find(fresh, cap, e.key)}
      BY <2>4, <3>1, <3>3, StoreLives
    <3> QED BY <3>2, <3>3, <3>4, <3>5
  <2>7. \A i \in Before(table, n - 1) : table[i].key # c.key
    <3> SUFFICES ASSUME NEW i \in Before(table, n - 1), table[i].key = c.key PROVE FALSE
      OBVIOUS
    <3>1. i \in Live(table) /\ n - 1 \in Live(table) /\ i # n - 1
      BY <1>1, <1>4 DEF Before, Live, IsTable
    <3> QED BY <1>1, <3>1, KeysAreUnique
  <2>8. \A e \in Held(fresh) : e.key # c.key
    BY <2>7 DEF HoldsFirst
  <2>9. Held(after) = {table[i] : i \in Before(table, n)}
    BY <2>2, <2>6, <2>8 DEF HoldsFirst, With
  <2>10. at \notin Live(fresh)
    <3>1. /\ IsLive(fresh[at]) => fresh[at].key = c.key
      BY <2>1, <2>4, FindFacts DEF HoldsFirst
    <3> QED BY <2>8, <3>1 DEF Held, Live
  <2>11. Cardinality(Live(after)) = Cardinality(Before(table, n))
    <3>1. IsFiniteSet(Live(fresh))
      BY LiveFacts DEF HoldsFirst
    <3>2. Cardinality(Live(fresh) \cup {at}) = Cardinality(Live(fresh)) + 1
      BY <2>10, <3>1, FS_AddElement
    <3> QED BY <2>2, <2>6, <3>2 DEF HoldsFirst
  <2>12. Occupied(after) = Live(after)
    BY <2>6 DEF HoldsFirst
  <2> QED BY <2>5, <2>6, <2>9, <2>11, <2>12 DEF HoldsFirst
<1> QED BY <1>3, <1>4

\* adjustDictCapacity moves every entry and nothing else.
LEMMA MovedFacts ==
  ASSUME NEW d, Probed(d.entries, DictCapacity(d)), NEW mask \in Nat,
         4 * Cardinality(Live(d.entries)) <= 3 * (mask + 1)
  PROVE  /\ IsTable(Moved(d, mask), mask + 1) /\ Settled(Moved(d, mask), mask + 1)
         /\ Held(Moved(d, mask)) = Held(d.entries)
         /\ Occupied(Moved(d, mask)) = Live(Moved(d, mask))
         /\ Cardinality(Live(Moved(d, mask))) = Cardinality(Live(d.entries))
<1> DEFINE size == DictCapacity(d)
           table == d.entries
           may == [n \in 0 .. size |->
                     {t \in [Slots(mask + 1) -> Content] : HoldsFirst(t, mask + 1, table, n)}]
           turn == [n \in 1 .. size |->
                      [t \in [Slots(mask + 1) -> Content] |-> MoveSlot(t, mask, table[n - 1])]]
           start == Blank(mask + 1)
           Stages(f) == f = [n \in 0 .. size |->
                               IF n = 0 THEN start ELSE MoveSlot(f[n - 1], mask, table[n - 1])]
<1>1. size \in Nat /\ Probed(table, size) /\ IsTable(table, size)
  BY DEF Probed, IsTable
<1>2. start \in may[0]
  <2>1. Before(table, 0) = {}
    BY <1>1 DEF Before, Live, IsTable, Slots
  <2>2. /\ IsTable(start, mask + 1) /\ Settled(start, mask + 1)
        /\ Held(start) = {} /\ Live(start) = {} /\ Occupied(start) = {}
    <3>1. mask + 1 \in Nat
      OBVIOUS
    <3> QED BY <3>1, BlankFacts
  <2>3. HoldsFirst(start, mask + 1, table, 0)
    <3> HIDE DEF start, table
    <3> QED BY <2>1, <2>2 DEF HoldsFirst
  <2> QED BY <1>1, <2>2, <2>3 DEF IsTable
<1>3. \A n \in 1 .. size : \A t :
        HoldsFirst(t, mask + 1, table, n - 1) =>
          HoldsFirst(MoveSlot(t, mask, table[n - 1]), mask + 1, table, n)
  BY <1>1, MoveSlotFacts
<1>4. \A n \in 1 .. size : \A t \in may[n - 1] :
        turn[n][t] \in may[n] /\ turn[n][t] = MoveSlot(t, mask, table[n - 1])
  <2> SUFFICES ASSUME NEW n \in 1 .. size, NEW t \in may[n - 1]
               PROVE  turn[n][t] \in may[n] /\ turn[n][t] = MoveSlot(t, mask, table[n - 1])
    OBVIOUS
  <2>1. n - 1 \in 0 .. size /\ n \in 0 .. size
    BY <1>1
  <2>2. t \in [Slots(mask + 1) -> Content] /\ HoldsFirst(t, mask + 1, table, n - 1)
    BY <2>1
  <2>3. turn[n][t] = MoveSlot(t, mask, table[n - 1])
    BY <2>2
  <2>4. HoldsFirst(MoveSlot(t, mask, table[n - 1]), mask + 1, table, n)
    BY <1>3, <2>2
  <2>5. MoveSlot(t, mask, table[n - 1]) \in [Slots(mask + 1) -> Content]
    BY <2>4 DEF HoldsFirst, IsTable
  <2> QED BY <2>1, <2>3, <2>4, <2>5
<1>5. PICK f : IsRun(f, size, start, turn, may)
  <2> HIDE DEF may, turn, start, size
  <2> QED BY <1>1, <1>2, <1>4, Loop
<1>6. Stages(f)
  <2>1. \A n \in 1 .. size : turn[n][f[n - 1]] = MoveSlot(f[n - 1], mask, table[n - 1])
    <3> SUFFICES ASSUME NEW n \in 1 .. size
                 PROVE  turn[n][f[n - 1]] = MoveSlot(f[n - 1], mask, table[n - 1])
      OBVIOUS
    <3>1. n - 1 \in 0 .. size
      BY <1>1
    <3>2. f[n - 1] \in may[n - 1]
      BY <1>5, <3>1 DEF IsRun
    <3> HIDE DEF may, turn
    <3> QED BY <1>4, <3>2
  <2>2. DOMAIN f = 0 .. size
    BY <1>5 DEF IsRun
  <2>3. \A n \in 0 .. size : f[n] = IF n = 0 THEN start ELSE turn[n][f[n - 1]]
    <3> HIDE DEF may, turn, start
    <3> QED BY <1>5 DEF IsRun
  <2>4. \A n \in 0 .. size : f[n] = IF n = 0 THEN start ELSE MoveSlot(f[n - 1], mask, table[n - 1])
    <3> HIDE DEF may, turn, start
    <3>1. \A n \in 0 .. size : n = 0 \/ n \in 1 .. size
      BY <1>1
    <3> QED BY <2>1, <2>3, <3>1
  <2>5. f = [n \in 0 .. size |-> f[n]]
    <3> HIDE DEF may, turn, start
    <3> QED BY <1>5 DEF IsRun
  <2>6. f = [n \in 0 .. size |->
                IF n = 0 THEN start ELSE MoveSlot(f[n - 1], mask, table[n - 1])]
    <3> HIDE DEF start, size
    <3> QED BY <2>4, <2>5, Zenon
  <2> QED BY <2>6
<1> DEFINE g == CHOOSE h : Stages(h)
<1>7. Stages(g)
  BY <1>6
<1>8. Moved(d, mask) = g[size]
  BY DEF Moved
<1> HIDE DEF g
<1>9. \A n \in 0 .. size : g[n] \in may[n]
  <2>1. \A n \in 0 .. size : g[n] = IF n = 0 THEN start ELSE MoveSlot(g[n - 1], mask, table[n - 1])
    <3> HIDE DEF may, turn, start
    <3> QED BY <1>7
  <2>2. g[0] = start
    BY <1>1, <2>1
  <2>3. \A n \in 1 .. size : g[n] = MoveSlot(g[n - 1], mask, table[n - 1])
    BY <1>1, <2>1
  <2>4. \A n \in 1 .. size : g[n - 1] \in may[n - 1] => g[n] \in may[n]
    <3> HIDE DEF may, turn
    <3> QED BY <1>4, <2>3
  <2> HIDE DEF may, turn, start, size
  <2> QED BY <1>1, <1>2, <2>2, <2>4, LoopStays
<1>10. HoldsFirst(g[size], mask + 1, table, size)
  BY <1>1, <1>9
<1>11. Before(table, size) = Live(table)
  BY <1>1 DEF Before, Live, IsTable, Slots
<1> QED BY <1>8, <1>10, <1>11 DEF HoldsFirst, Held

\* A rehash to a size with room keeps every entry, and count becomes their number.
LEMMA AdjustFacts ==
  ASSUME NEW d, IsDict(d), Probed(d.entries, DictCapacity(d)),
         d.activeCount = Cardinality(Live(d.entries)),
         NEW cap \in {2 ^ n : n \in 3 .. 30}, 4 * Cardinality(Live(d.entries)) <= 3 * cap
  PROVE  /\ InOrder(AdjustDictCapacity(d, cap - 1))
         /\ Held(AdjustDictCapacity(d, cap - 1).entries) = Held(d.entries)
         /\ AdjustDictCapacity(d, cap - 1).count = Cardinality(Live(d.entries))
         /\ DictCapacity(AdjustDictCapacity(d, cap - 1)) = cap
<1> DEFINE a == AdjustDictCapacity(d, cap - 1)
<1>1. cap \in Nat \ {0}
  <2>1. \A size \in Sizes : size \in Nat \ {0}
    BY SMT DEF Sizes
  <2> QED BY <2>1, SizesArePowers
<1>2. cap - 1 \in Nat /\ cap - 1 + 1 = cap
  BY <1>1
<1>3. /\ a.entries = Moved(d, cap - 1) /\ a.capacityMask = cap - 1
      /\ a.count = Cardinality(Live(d.entries)) /\ a.activeCount = d.activeCount
      /\ IsDict(a) /\ DictCapacity(a) = cap
  <2>1. PICK table : table = Moved(d, cap - 1)
    OBVIOUS
  <2>2. PICK mask \in Int : mask = cap - 1 /\ mask + 1 = cap
    BY <1>2
  <2>3. PICK live : live = Cardinality(Live(d.entries))
    OBVIOUS
  <2>4. PICK b : b = [d EXCEPT !.entries = table, !.capacityMask = mask, !.count = live]
    OBVIOUS
  <2>5. /\ b.entries = table /\ b.capacityMask = mask /\ b.count = live
        /\ b.activeCount = d.activeCount /\ IsDict(b)
    BY <2>2, <2>4 DEF IsDict
  <2>6. a = b
    BY <2>1, <2>2, <2>3, <2>4 DEF AdjustDictCapacity
  <2> HIDE DEF a
  <2> QED BY <2>1, <2>2, <2>3, <2>5, <2>6 DEF DictCapacity
<1> HIDE DEF a
<1>4. /\ IsTable(a.entries, cap) /\ Settled(a.entries, cap)
      /\ Held(a.entries) = Held(d.entries)
      /\ Occupied(a.entries) = Live(a.entries)
      /\ Cardinality(Live(a.entries)) = Cardinality(Live(d.entries))
  BY <1>2, <1>3, MovedFacts
<1>5. a.count \in Nat
  BY <1>3, LiveFacts DEF Probed
<1>6. HasGap(a.entries)
  BY <1>1, <1>4, GapFacts
<1>7. InOrder(a)
  BY <1>1, <1>3, <1>4, <1>5, <1>6 DEF InOrder, Probed, Capacities
<1> QED BY <1>3, <1>4, <1>7 DEF a

\* dictSet makes room first, where the bound allows it.
LEMMA GrownFacts ==
  ASSUME NEW d, InOrder(d),
         Full(d.count, DictCapacity(d)) => GrowCapacity(DictCapacity(d)) <= 2 ^ 30
  PROVE  /\ InOrder(Grown(d)) /\ Held(Grown(d).entries) = Held(d.entries)
         /\ Grown(d).count <= d.count
         /\ 4 * (Grown(d).count + 1) <= 3 * DictCapacity(Grown(d))
         /\ DictCapacity(Grown(d)) = IF Full(d.count, DictCapacity(d))
                                     THEN GrowCapacity(DictCapacity(d)) ELSE DictCapacity(d)
<1> DEFINE cap == DictCapacity(d)
<1>1. /\ cap \in Nat /\ GrowCapacity(cap) \in Nat \ {0}
      /\ 3 * cap + 8 <= 3 * GrowCapacity(cap)
      /\ GrowCapacity(cap) <= 2 ^ 30 => GrowCapacity(cap) \in {2 ^ n : n \in 3 .. 30}
  BY SizeGrows DEF InOrder, Capacities
<1>2. /\ Cardinality(Live(d.entries)) \in Nat /\ Cardinality(Live(d.entries)) <= d.count
      /\ d.count \in Nat /\ 4 * d.count <= 3 * cap
  <2>1. /\ Cardinality(Live(d.entries)) <= Cardinality(Occupied(d.entries))
        /\ Cardinality(Live(d.entries)) \in Nat
        /\ Cardinality(Occupied(d.entries)) \in Nat
    BY LiveFacts, GapFacts DEF InOrder, Probed
  <2>2. Cardinality(Occupied(d.entries)) <= d.count /\ d.count \in Nat /\ 4 * d.count <= 3 * cap
    BY DEF InOrder
  <2> QED BY <2>1, <2>2
<1>3. CASE ~ Full(d.count, cap)
  <2>1. Grown(d) = d
    BY <1>3 DEF Grown
  <2>2. 4 * (d.count + 1) <= 3 * cap
    <3> HIDE DEF cap
    <3> QED BY <1>1, <1>2, <1>3 DEF Full
  <2> QED BY <1>2, <1>3, <2>1, <2>2
<1>4. CASE Full(d.count, cap)
  <2> DEFINE new == GrowCapacity(cap)
  <2>1. Grown(d) = AdjustDictCapacity(d, new - 1)
    BY <1>4 DEF Grown
  <2>2. new \in {2 ^ n : n \in 3 .. 30}
    BY <1>1, <1>4
  <2>3. /\ 4 * Cardinality(Live(d.entries)) <= 3 * new
        /\ 4 * (Cardinality(Live(d.entries)) + 1) <= 3 * new
    <3> HIDE DEF new, cap
    <3>1. new \in Nat /\ 3 * cap + 8 <= 3 * new /\ cap \in Nat
      BY <1>1 DEF new
    <3> QED BY <1>2, <3>1
  <2>4. /\ InOrder(Grown(d)) /\ Held(Grown(d).entries) = Held(d.entries)
        /\ Grown(d).count = Cardinality(Live(d.entries)) /\ DictCapacity(Grown(d)) = new
    <3> HIDE DEF new
    <3> QED BY <2>1, <2>2, <2>3, AdjustFacts DEF InOrder
  <2> QED BY <1>2, <1>4, <2>3, <2>4
<1> QED BY <1>3, <1>4

\* dictSet stores its entry, where there is room for it.
LEMMA PutFacts ==
  ASSUME NEW d, InOrder(d), NEW k \in Keys, NEW v \in Values,
         Full(d.count, DictCapacity(d)) => GrowCapacity(DictCapacity(d)) <= 2 ^ 30
  PROVE  /\ InOrder(Put(d, k, v))
         /\ Held(Put(d, k, v).entries) = With(Held(d.entries), [key |-> k, value |-> v])
         /\ Put(d, k, v).count <= d.count + 1
         /\ DictCapacity(Put(d, k, v)) = IF Full(d.count, DictCapacity(d))
                                         THEN GrowCapacity(DictCapacity(d)) ELSE DictCapacity(d)
<1>1. PICK g : g = Grown(d)
  OBVIOUS
<1>2. PICK e : e = [key |-> k, value |-> v]
  OBVIOUS
<1>3. e \in Entry /\ e.key = k
  BY <1>2 DEF Entry
<1>4. PICK cap : cap = DictCapacity(g)
  OBVIOUS
<1>5. /\ InOrder(g) /\ Held(g.entries) = Held(d.entries) /\ g.count <= d.count
      /\ 4 * (g.count + 1) <= 3 * cap
      /\ cap = IF Full(d.count, DictCapacity(d)) THEN GrowCapacity(DictCapacity(d)) ELSE DictCapacity(d)
  BY <1>1, <1>4, GrownFacts
<1>6. /\ cap \in Capacities /\ cap \in Nat /\ g.count \in Nat /\ d.count \in Nat
      /\ IsTable(g.entries, cap) /\ Settled(g.entries, cap)
      /\ Cardinality(Occupied(g.entries)) <= g.count
      /\ g.activeCount = Cardinality(Live(g.entries))
      /\ IsDict(g) /\ cap = g.capacityMask + 1
  BY <1>4, <1>5 DEF InOrder, Probed, IsTable, DictCapacity
<1>7. HasGap(g.entries)
  <2>1. cap # 0
    BY <1>5, <1>6
  <2> QED BY <1>4, <1>5, <2>1 DEF InOrder, Probed
<1>8. PICK at : at = Find(g.entries, cap, k)
  OBVIOUS
<1>9. PICK n : n = IF IsLive(g.entries[at]) THEN 0 ELSE 1
  OBVIOUS
<1>10. PICK after : after = StoredIn(g.entries, cap, e)
  OBVIOUS
<1>11. PICK p : p = [g EXCEPT !.entries = after, !.count = @ + n, !.activeCount = @ + n]
  OBVIOUS
<1>12. Put(d, k, v) = p
  <2>1. FindDictEntry(g.entries, g.capacityMask, k) = at
    BY <1>6, <1>8 DEF FindDictEntry
  <2>2. (IF IsNewKey(g, at) THEN 1 ELSE 0) = n
    BY <1>9 DEF IsNewKey
  <2>3. Put(d, k, v) = [g EXCEPT !.entries[at] = e, !.count = @ + n, !.activeCount = @ + n]
    BY <1>1, <1>2, <2>1, <2>2 DEF Put
  <2>4. after = [g.entries EXCEPT ![at] = e]
    BY <1>3, <1>8, <1>10 DEF StoredIn
  <2> QED BY <1>6, <1>11, <2>3, <2>4 DEF IsDict
<1>13. /\ p.entries = after /\ p.capacityMask = g.capacityMask
       /\ p.count = g.count + n /\ p.activeCount = g.activeCount + n
       /\ IsDict(p) /\ DictCapacity(p) = cap
  BY <1>6, <1>11 DEF IsDict, DictCapacity
<1>14. /\ IsTable(after, cap) /\ Settled(after, cap)
       /\ Held(after) = With(Held(g.entries), e)
       /\ Occupied(after) = Occupied(g.entries) \cup {at}
       /\ Live(after) = Live(g.entries) \cup {at}
  BY <1>3, <1>6, <1>7, <1>8, <1>10, StoreFacts, StoreLives
<1>15. at \in Slots(cap) /\ DOMAIN g.entries = Slots(cap)
  BY <1>6, <1>7, <1>8, FindFacts DEF IsTable
<1>16. /\ IsFiniteSet(Live(g.entries)) /\ Cardinality(Live(g.entries)) \in Nat
       /\ IsFiniteSet(Occupied(g.entries)) /\ Cardinality(Occupied(g.entries)) \in Nat
  BY <1>6, LiveFacts, GapFacts
<1>17. Cardinality(Live(after)) = Cardinality(Live(g.entries)) + n
  <2>1. at \in Live(g.entries) <=> IsLive(g.entries[at])
    BY <1>15 DEF Live
  <2>2. Cardinality(Live(g.entries) \cup {at}) =
          IF at \in Live(g.entries) THEN Cardinality(Live(g.entries))
                                    ELSE Cardinality(Live(g.entries)) + 1
    BY <1>16, FS_AddElement
  <2> QED BY <1>9, <1>14, <1>16, <2>1, <2>2
<1>18. Cardinality(Occupied(after)) <= g.count + n
  <2>1. IsLive(g.entries[at]) => at \in Occupied(g.entries)
    BY <1>15 DEF Occupied, IsLive
  <2>2. Cardinality(Occupied(g.entries) \cup {at}) =
          IF at \in Occupied(g.entries) THEN Cardinality(Occupied(g.entries))
                                        ELSE Cardinality(Occupied(g.entries)) + 1
    BY <1>16, FS_AddElement
  <2> QED BY <1>6, <1>9, <1>14, <1>16, <2>1, <2>2
<1>19. n \in {0, 1} /\ g.count + n \in Nat /\ 4 * (g.count + n) <= 3 * cap
  BY <1>5, <1>6, <1>9
<1>20. HasGap(after)
  <2>1. Cardinality(Occupied(after)) \in Nat
    BY <1>14, GapFacts
  <2>2. cap > 0 /\ 4 * Cardinality(Occupied(after)) <= 3 * cap
    BY <1>5, <1>6, <1>18, <1>19, <2>1
  <2> QED BY <1>14, <2>2, GapFacts
<1>21. InOrder(p)
  BY <1>6, <1>13, <1>14, <1>17, <1>18, <1>19, <1>20 DEF InOrder, Probed
<1>22. p.count <= d.count + 1
  BY <1>5, <1>6, <1>13, <1>19
<1> QED BY <1>2, <1>5, <1>12, <1>13, <1>14, <1>21, <1>22

----------------------------------------------------------------------------
(* Dictionaries and what they hold. *)

\* A new dictionary has nothing.
LEMMA NewDictFacts ==
  InOrder(NewDict) /\ Held(NewDict.entries) = {} /\ NewDict.count = 0 /\ DictCapacity(NewDict) = 0
<1>1. PICK table : table = Blank(0)
  OBVIOUS
<1>2. PICK d : d = [entries |-> table, capacityMask |-> -1, count |-> 0, activeCount |-> 0]
  OBVIOUS
<1>3. d = NewDict
  BY <1>1, <1>2 DEF NewDict
<1>4. /\ d.entries = table /\ d.count = 0 /\ d.activeCount = 0 /\ d.capacityMask = -1
      /\ IsDict(d) /\ DictCapacity(d) = 0
  BY <1>2 DEF IsDict, DictCapacity
<1>5. /\ IsTable(table, 0) /\ Settled(table, 0) /\ Held(table) = {}
      /\ Cardinality(Live(table)) = 0 /\ Cardinality(Occupied(table)) = 0
  BY <1>1, BlankFacts, FS_EmptySet
<1>6. InOrder(d)
  BY <1>4, <1>5 DEF InOrder, Probed, Capacities
<1> QED BY <1>3, <1>4, <1>5, <1>6

\* A lookup finds what a dictionary holds.
LEMMA LookupFacts ==
  ASSUME NEW d, InOrder(d), NEW k \in Keys
  PROVE  /\ IsLive(Lookup(d, k)) =>
              /\ HasGap(d.entries)
              /\ FindDictEntry(d.entries, d.capacityMask, k) \in Live(d.entries)
              /\ Lookup(d, k) = d.entries[FindDictEntry(d.entries, d.capacityMask, k)]
              /\ Lookup(d, k).key = k
         /\ ~ IsLive(Lookup(d, k)) => \A e \in Held(d.entries) : e.key # k
<1> DEFINE cap == DictCapacity(d)
           at == Find(d.entries, cap, k)
<1>1. FindDictEntry(d.entries, d.capacityMask, k) = at
  BY DEF FindDictEntry, DictCapacity
<1>2. /\ IsTable(d.entries, cap) /\ Settled(d.entries, cap) /\ cap \in Nat
      /\ cap # 0 => HasGap(d.entries)
      /\ Cardinality(Occupied(d.entries)) <= d.count /\ d.count \in Nat
      /\ 4 * d.count <= 3 * cap
  BY DEF InOrder, Probed, IsTable
<1>3. CASE d.count = 0
  <2>1. Lookup(d, k) = Empty /\ ~ IsLive(Empty)
    BY <1>3 DEF Lookup, IsLive
  <2>2. Cardinality(Occupied(d.entries)) = 0
    BY <1>2, <1>3, GapFacts
  <2>3. Held(d.entries) = {}
    BY <1>2, <2>2, GapFacts DEF Held
  <2> QED BY <2>1, <2>3
<1>4. CASE d.count # 0
  <2>1. cap # 0
    BY <1>2, <1>4
  <2>2. Lookup(d, k) = d.entries[at]
    BY <1>1, <1>4 DEF Lookup
  <2>3. /\ at \in Slots(cap)
        /\ IsLive(d.entries[at]) => d.entries[at].key = k
        /\ ~ IsLive(d.entries[at]) => \A i \in Slots(cap) : ~ HasKey(d.entries, i, k)
    BY <1>2, <2>1, FindFacts
  <2>4. DOMAIN d.entries = Slots(cap)
    BY <1>2 DEF IsTable
  <2> HIDE DEF at, cap
  <2> QED BY <1>1, <1>2, <2>1, <2>2, <2>3, <2>4 DEF Live, Held, HasKey
<1> QED BY <1>3, <1>4

\* dictDelete takes one key away, and may shrink the array.
LEMMA WithoutFacts ==
  ASSUME NEW d, InOrder(d), NEW k \in Keys, IsLive(Lookup(d, k))
  PROVE  InOrder(Without(d, k)) /\ Held(Without(d, k).entries) = WithoutKeys(Held(d.entries), {k})
<1>1. PICK at : at = FindDictEntry(d.entries, d.capacityMask, k)
  OBVIOUS
<1>2. PICK cap : cap = DictCapacity(d)
  OBVIOUS
<1>3. /\ at \in Live(d.entries) /\ d.entries[at].key = k /\ HasGap(d.entries)
  BY <1>1, LookupFacts
<1>4. /\ IsTable(d.entries, cap) /\ Settled(d.entries, cap) /\ cap \in Nat /\ cap \in Capacities
      /\ Cardinality(Occupied(d.entries)) <= d.count /\ d.count \in Nat
      /\ 4 * d.count <= 3 * cap /\ cap = d.capacityMask + 1 /\ IsDict(d)
      /\ d.activeCount = Cardinality(Live(d.entries)) /\ d.capacityMask \in Int
  BY <1>2 DEF InOrder, Probed, IsTable, DictCapacity, IsDict
<1>5. PICK after : after = [i \in DOMAIN d.entries |-> IF i \in {at} THEN Tombstone ELSE d.entries[i]]
  OBVIOUS
<1>6. /\ IsTable(after, cap) /\ Settled(after, cap)
      /\ Live(after) = Live(d.entries) \ {at}
      /\ \A i \in Live(after) : after[i] = d.entries[i]
      /\ Occupied(after) = Occupied(d.entries)
  <2>1. PICK table : table = d.entries
    OBVIOUS
  <2>2. PICK gone \in SUBSET Live(table) : gone = {at}
    BY <1>3, <2>1
  <2>3. after = [i \in DOMAIN table |-> IF i \in gone THEN Tombstone ELSE table[i]]
    BY <1>5, <2>1, <2>2
  <2>4. /\ IsTable(after, cap) /\ Settled(after, cap)
        /\ Live(after) = Live(table) \ gone
        /\ \A i \in Live(after) : after[i] = table[i]
        /\ Occupied(after) = Occupied(table)
    <3>1. IsTable(table, cap) /\ Settled(table, cap)
      BY <1>4, <2>1
    <3> QED BY <2>3, <3>1, EraseFacts
  <2> QED BY <2>1, <2>2, <2>4
<1>7. PICK e : e = [d EXCEPT !.entries = after, !.activeCount = @ - 1]
  OBVIOUS
<1>8. [d EXCEPT !.entries[at] = Dead, !.count = DeletedCount(d), !.activeCount = @ - 1] = e
  <2>1. after = [d.entries EXCEPT ![at] = Dead]
    BY <1>3, <1>5 DEF Dead, Live
  <2> QED BY <1>4, <1>7, <2>1 DEF IsDict, DeletedCount
<1>9. Without(d, k) = IF Sparse(e) THEN AdjustDictCapacity(e, ShrunkMask(e)) ELSE e
  BY <1>1, <1>8 DEF Without
<1>10. /\ e.entries = after /\ e.capacityMask = d.capacityMask /\ e.count = d.count
       /\ e.activeCount = d.activeCount - 1 /\ IsDict(e) /\ DictCapacity(e) = cap
  BY <1>4, <1>7 DEF IsDict, DictCapacity
<1>11. Held(after) = WithoutKeys(Held(d.entries), {k})
  <2>1. \A i \in Live(d.entries) : d.entries[i].key = k => i = at
    BY <1>3, <1>4, KeysAreUnique
  <2> QED BY <1>3, <1>6, <2>1 DEF Held, WithoutKeys
<1>12. /\ IsFiniteSet(Live(d.entries)) /\ Cardinality(Live(d.entries)) \in Nat
       /\ Cardinality(Live(d.entries)) <= Cardinality(Occupied(d.entries))
       /\ Cardinality(Occupied(d.entries)) \in Nat
  BY <1>4, LiveFacts, GapFacts
<1>13. /\ Cardinality(Live(after)) = Cardinality(Live(d.entries)) - 1
       /\ Cardinality(Live(after)) \in Nat
  <2>1. PICK live : live = Live(d.entries)
    OBVIOUS
  <2>2. Cardinality(live \ {at}) = Cardinality(live) - 1
    BY <1>3, <1>12, <2>1, FS_RemoveElement
  <2> QED BY <1>6, <2>1, <2>2, LiveFacts
<1>14. HasGap(after)
  <2>1. 4 * Cardinality(Occupied(after)) <= 3 * cap
    BY <1>4, <1>6, <1>12
  <2>2. cap # 0
    BY <1>3, <1>4, LiveFacts
  <2> QED BY <1>4, <1>6, <2>1, <2>2, GapFacts
<1>15. e.activeCount = Cardinality(Live(e.entries)) /\ Probed(e.entries, cap)
  BY <1>4, <1>6, <1>10, <1>13, <1>14 DEF Probed
<1>16. CASE ~ Sparse(e)
  <2>1. InOrder(e)
    BY <1>4, <1>6, <1>10, <1>15 DEF InOrder
  <2> QED BY <1>9, <1>10, <1>11, <1>16, <2>1
<1>17. CASE Sparse(e)
  <2>1. cap \in {2 ^ n : n \in 3 .. 30}
    <3>1. cap # 0
      BY <1>3, <1>4, LiveFacts
    <3> QED BY <1>4, <3>1 DEF Capacities
  <2>2. PICK new : new = ShrinkCapacity(cap)
    OBVIOUS
  <2>3. new \in {2 ^ n : n \in 3 .. 30} /\ new \in Nat \ {0} /\ cap <= 2 * new
    BY <2>1, <2>2, SizeShrinks
  <2>4. 4 * (d.count - 1) < d.capacityMask
    BY <1>10, <1>17 DEF Sparse
  <2>5. 4 * Cardinality(Live(after)) <= 3 * new
    <3>1. Cardinality(Live(after)) <= d.count - 1
      BY <1>4, <1>12, <1>13
    <3> QED BY <1>4, <1>13, <2>3, <2>4, <3>1
  <2>6. Without(d, k) = AdjustDictCapacity(e, new - 1)
    BY <1>9, <1>10, <1>17, <2>2 DEF ShrunkMask
  <2> QED BY <1>10, <1>11, <1>15, <2>3, <2>5, <2>6, AdjustFacts
<1> QED BY <1>16, <1>17

----------------------------------------------------------------------------
(* Copies. *)

\* A copy after the first n slots of a dictionary are put into it.
CopiesFirst(copy, d, n) ==
  /\ InOrder(copy)
  /\ Held(copy.entries) = {d.entries[i] : i \in Before(d.entries, n)}
  /\ copy.count <= Cardinality(Before(d.entries, n))
  /\ DictCapacity(copy) <= DictCapacity(d)

\* One turn of copyDict's loop.  The copy never outgrows the original.
LEMMA PutSlotFacts ==
  ASSUME NEW d, InOrder(d), NEW n \in 1 .. DictCapacity(d), NEW copy, CopiesFirst(copy, d, n - 1)
  PROVE  CopiesFirst(PutSlot(copy, d.entries[n - 1]), d, n)
<1> DEFINE size == DictCapacity(d)
           table == d.entries
           c == table[n - 1]
<1>1. /\ IsTable(table, size) /\ Settled(table, size) /\ HasGap(table) /\ n - 1 \in Slots(size)
      /\ size \in Nat
  BY DEF InOrder, Probed, Slots, IsTable
<1>2. c \in Content
  BY <1>1 DEF IsTable
<1>3. CASE ~ IsLive(c)
  <2>1. Before(table, n) = Before(table, n - 1)
    BY <1>1, <1>3, BeforeFacts
  <2> QED BY <1>3, <2>1 DEF PutSlot, CopiesFirst
<1>4. CASE IsLive(c)
  <2>1. c \in Entry /\ c.key \in Keys /\ c.value \in Values /\ c = [key |-> c.key, value |-> c.value]
    BY <1>2, <1>4, LiveIsEntry DEF Entry
  <2>2. /\ Before(table, n) = Before(table, n - 1) \cup {n - 1}
        /\ Cardinality(Before(table, n)) = Cardinality(Before(table, n - 1)) + 1
        /\ Cardinality(Before(table, n)) <= Cardinality(Live(table))
        /\ Cardinality(Before(table, n)) \in Nat
        /\ Cardinality(Before(table, n - 1)) \in Nat
    BY <1>1, <1>4, BeforeFacts
  <2>3. 4 * Cardinality(Live(table)) <= 3 * size /\ Cardinality(Live(table)) \in Nat
    <3>1. /\ Cardinality(Live(table)) <= Cardinality(Occupied(table))
          /\ Cardinality(Live(table)) \in Nat /\ Cardinality(Occupied(table)) \in Nat
      BY <1>1, LiveFacts, GapFacts
    <3>2. Cardinality(Occupied(table)) <= d.count /\ d.count \in Nat /\ 4 * d.count <= 3 * size
      BY DEF InOrder
    <3> QED BY <1>1, <3>1, <3>2
  <2>4. PICK small : small = DictCapacity(copy)
    OBVIOUS
  <2>5. /\ small \in Capacities /\ size \in Capacities /\ small <= size
        /\ copy.count \in Nat /\ small \in Nat
        /\ copy.count <= Cardinality(Before(table, n - 1))
    BY <2>4 DEF CopiesFirst, InOrder, Probed, IsTable
  <2>6. Full(copy.count, small) => small < size
    <3>1. ASSUME 4 * (copy.count + 1) > 3 * small PROVE small < size
      BY <1>1, <2>2, <2>3, <2>5, <3>1
    <3> QED BY <3>1 DEF Full
  <2>7. Full(copy.count, small) => GrowCapacity(small) <= size
    BY <2>5, <2>6, SizesApart DEF Capacities
  <2>8. size <= 2 ^ 30 /\ GrowCapacity(small) \in Nat
    BY <2>5, SizeGrows DEF Capacities
  <2>9. Full(copy.count, small) => GrowCapacity(small) <= 2 ^ 30
    <3>1. 2 ^ 30 \in Nat
      BY SMT
    <3> QED BY <1>1, <2>7, <2>8, <3>1
  <2>10. PICK p : p = Put(copy, c.key, c.value)
    OBVIOUS
  <2>11. /\ InOrder(p) /\ Held(p.entries) = With(Held(copy.entries), c)
         /\ p.count <= copy.count + 1
         /\ DictCapacity(p) = IF Full(copy.count, small) THEN GrowCapacity(small) ELSE small
    <3>1. PICK k \in Keys : k = c.key
      BY <2>1
    <3>2. PICK v \in Values : v = c.value
      BY <2>1
    <3>3. /\ InOrder(Put(copy, k, v))
          /\ Held(Put(copy, k, v).entries) = With(Held(copy.entries), [key |-> k, value |-> v])
          /\ Put(copy, k, v).count <= copy.count + 1
          /\ DictCapacity(Put(copy, k, v)) = IF Full(copy.count, DictCapacity(copy))
                                             THEN GrowCapacity(DictCapacity(copy)) ELSE DictCapacity(copy)
      BY <2>4, <2>9, PutFacts DEF CopiesFirst
    <3> QED BY <2>1, <2>4, <2>10, <3>1, <3>2, <3>3
  <2>12. \A e \in Held(copy.entries) : e.key # c.key
    <3> SUFFICES ASSUME NEW i \in Before(table, n - 1), table[i].key = c.key PROVE FALSE
      BY DEF CopiesFirst
    <3>1. i \in Live(table) /\ n - 1 \in Live(table) /\ i # n - 1
      BY <1>1, <1>4 DEF Before, Live, IsTable
    <3> QED BY <1>1, <3>1, KeysAreUnique
  <2>13. Held(p.entries) = {table[i] : i \in Before(table, n)}
    <3>1. Held(copy.entries) = {table[i] : i \in Before(table, n - 1)}
      BY DEF CopiesFirst
    <3>2. Held(p.entries) = Held(copy.entries) \cup {c}
      BY <2>11, <2>12 DEF With
    <3> QED BY <2>2, <3>1, <3>2
  <2>14. p.count <= Cardinality(Before(table, n))
    <3>1. p.count \in Nat
      BY <2>11 DEF InOrder
    <3> QED BY <2>2, <2>5, <2>11, <3>1
  <2>15. DictCapacity(p) <= size
    BY <2>5, <2>7, <2>11
  <2>16. PutSlot(copy, c) = p
    BY <1>4, <2>10 DEF PutSlot
  <2> QED BY <2>11, <2>13, <2>14, <2>15, <2>16 DEF CopiesFirst
<1> QED BY <1>3, <1>4

\* Dictionaries in order are a set.
Dicts == [entries : UNION {[Slots(cap) -> Content] : cap \in Capacities},
          capacityMask : Int, count : Nat, activeCount : Nat]

\* Which InOrder is part of.
LEMMA InOrderInDicts ==
  ASSUME NEW d, InOrder(d)
  PROVE  d \in Dicts
<1>1. d.entries \in [Slots(DictCapacity(d)) -> Content] /\ DictCapacity(d) \in Capacities
  BY DEF InOrder, Probed, IsTable
<1>2. PICK tables : tables = UNION {[Slots(cap) -> Content] : cap \in Capacities}
  OBVIOUS
<1>3. d.entries \in tables
  BY <1>1, <1>2
<1>4. d.activeCount \in Nat /\ d.count \in Nat /\ d.capacityMask \in Int
  BY LiveFacts DEF InOrder, Probed, IsDict
<1>5. d \in [entries : tables, capacityMask : Int, count : Nat, activeCount : Nat]
  BY <1>3, <1>4 DEF InOrder, IsDict
<1> QED BY <1>2, <1>5 DEF Dicts

\* copyDict copies every entry and nothing else.
LEMMA CopiedFacts ==
  ASSUME NEW d, InOrder(d)
  PROVE  InOrder(Copied(d)) /\ Held(Copied(d).entries) = Held(d.entries)
<1> DEFINE size == DictCapacity(d)
           table == d.entries
           may == [n \in 0 .. size |-> {c \in Dicts : CopiesFirst(c, d, n)}]
           turn == [n \in 1 .. size |-> [c \in Dicts |-> PutSlot(c, table[n - 1])]]
           start == NewDict
           Stages(f) == f = [n \in 0 .. size |->
                               IF n = 0 THEN start ELSE PutSlot(f[n - 1], table[n - 1])]
<1>1. size \in Nat /\ IsTable(table, size)
  BY DEF InOrder, Probed, IsTable
<1>2. start \in may[0]
  <2>1. Before(table, 0) = {}
    BY <1>1 DEF Before, Live, IsTable, Slots
  <2>2. InOrder(start) /\ Held(start.entries) = {} /\ start.count = 0 /\ DictCapacity(start) = 0
    BY NewDictFacts
  <2>3. CopiesFirst(start, d, 0)
    <3> HIDE DEF start
    <3>1. Cardinality(Before(table, 0)) = 0
      BY <2>1, FS_EmptySet
    <3> QED BY <1>1, <2>1, <2>2, <3>1 DEF CopiesFirst
  <2>4. start \in Dicts
    BY <2>2, InOrderInDicts
  <2> QED BY <1>1, <2>3, <2>4
<1>3. \A n \in 1 .. size : \A c :
        CopiesFirst(c, d, n - 1) => CopiesFirst(PutSlot(c, table[n - 1]), d, n)
  BY PutSlotFacts
<1>4. \A n \in 1 .. size : \A c \in may[n - 1] :
        turn[n][c] \in may[n] /\ turn[n][c] = PutSlot(c, table[n - 1])
  <2> SUFFICES ASSUME NEW n \in 1 .. size, NEW c \in may[n - 1]
               PROVE  turn[n][c] \in may[n] /\ turn[n][c] = PutSlot(c, table[n - 1])
    OBVIOUS
  <2>1. n - 1 \in 0 .. size /\ n \in 0 .. size
    BY <1>1
  <2>2. c \in Dicts /\ CopiesFirst(c, d, n - 1)
    BY <2>1
  <2>3. turn[n][c] = PutSlot(c, table[n - 1])
    BY <2>2
  <2>4. CopiesFirst(PutSlot(c, table[n - 1]), d, n)
    BY <1>3, <2>2
  <2>5. PutSlot(c, table[n - 1]) \in Dicts
    BY <2>4, InOrderInDicts DEF CopiesFirst
  <2> QED BY <2>1, <2>3, <2>4, <2>5
<1>5. PICK f : IsRun(f, size, start, turn, may)
  <2> HIDE DEF may, turn, start, size
  <2> QED BY <1>1, <1>2, <1>4, Loop
<1>6. Stages(f)
  <2>1. \A n \in 1 .. size : turn[n][f[n - 1]] = PutSlot(f[n - 1], table[n - 1])
    <3> SUFFICES ASSUME NEW n \in 1 .. size
                 PROVE  turn[n][f[n - 1]] = PutSlot(f[n - 1], table[n - 1])
      OBVIOUS
    <3>1. n - 1 \in 0 .. size
      BY <1>1
    <3>2. f[n - 1] \in may[n - 1]
      BY <1>5, <3>1 DEF IsRun
    <3> HIDE DEF may, turn
    <3> QED BY <1>4, <3>2
  <2>2. \A n \in 0 .. size : f[n] = IF n = 0 THEN start ELSE turn[n][f[n - 1]]
    <3> HIDE DEF may, turn, start
    <3> QED BY <1>5 DEF IsRun
  <2>3. \A n \in 0 .. size : f[n] = IF n = 0 THEN start ELSE PutSlot(f[n - 1], table[n - 1])
    <3> HIDE DEF may, turn, start
    <3>1. \A n \in 0 .. size : n = 0 \/ n \in 1 .. size
      BY <1>1
    <3> QED BY <2>1, <2>2, <3>1
  <2>4. f = [n \in 0 .. size |-> f[n]]
    <3> HIDE DEF may, turn, start
    <3> QED BY <1>5 DEF IsRun
  <2>5. f = [n \in 0 .. size |-> IF n = 0 THEN start ELSE PutSlot(f[n - 1], table[n - 1])]
    <3> HIDE DEF start, size
    <3> QED BY <2>3, <2>4, Zenon
  <2> QED BY <2>5
<1> DEFINE g == CHOOSE h : Stages(h)
<1>7. Stages(g)
  BY <1>6
<1>8. Copied(d) = g[size]
  BY DEF Copied
<1> HIDE DEF g
<1>9. \A n \in 0 .. size : g[n] \in may[n]
  <2>1. \A n \in 0 .. size : g[n] = IF n = 0 THEN start ELSE PutSlot(g[n - 1], table[n - 1])
    <3> HIDE DEF may, turn, start
    <3> QED BY <1>7
  <2>2. g[0] = start
    BY <1>1, <2>1
  <2>3. \A n \in 1 .. size : g[n] = PutSlot(g[n - 1], table[n - 1])
    BY <1>1, <2>1
  <2>4. \A n \in 1 .. size : g[n - 1] \in may[n - 1] => g[n] \in may[n]
    <3> HIDE DEF may, turn
    <3> QED BY <1>4, <2>3
  <2> HIDE DEF may, turn, start, size
  <2> QED BY <1>1, <1>2, <2>2, <2>4, LoopStays
<1>10. CopiesFirst(g[size], d, size)
  BY <1>1, <1>9
<1>11. Before(table, size) = Live(table)
  BY <1>1 DEF Before, Live, IsTable, Slots
<1> QED BY <1>8, <1>10, <1>11 DEF CopiesFirst, Held

----------------------------------------------------------------------------
(* Steps. *)

\* What a lookup answers is a value.
LEMMA LookedUpIsValue ==
  ASSUME NEW d, InOrder(d), NEW k \in Keys, IsLive(Lookup(d, k))
  PROVE  Lookup(d, k) \in Held(d.entries) /\ Lookup(d, k) \in Entry /\ Lookup(d, k).key = k
<1>1. /\ FindDictEntry(d.entries, d.capacityMask, k) \in Live(d.entries)
      /\ Lookup(d, k) = d.entries[FindDictEntry(d.entries, d.capacityMask, k)]
      /\ Lookup(d, k).key = k
  BY LookupFacts
<1>2. Lookup(d, k) \in Content
  BY <1>1 DEF InOrder, Probed, IsTable, Live
<1> QED BY <1>1, <1>2, LiveIsEntry DEF Held

\* dictGet answers the value bound, or that there is none.
LEMMA GetStep ==
  ASSUME DictInv, NEW k \in Keys, GetDictItem(k)
  PROVE  /\ DictInv' /\ UNCHANGED dict
         /\ \A e \in Held(dict.entries) : e.key = k => dictRet' = e.value
         /\ (\A e \in Held(dict.entries) : e.key # k) => dictRet' = NotFound
<1>1. /\ UNCHANGED dict /\ InOrder(dict)
      /\ dictRet' = IF IsLive(Lookup(dict, k)) THEN Lookup(dict, k).value ELSE NotFound
  BY DEF GetDictItem, DictInv
<1>2. CASE IsLive(Lookup(dict, k))
  <2>1. /\ Lookup(dict, k) \in Held(dict.entries) /\ Lookup(dict, k) \in Entry
        /\ Lookup(dict, k).key = k /\ HasGap(dict.entries)
    BY <1>1, <1>2, LookedUpIsValue, LookupFacts
  <2>2. Functional(Held(dict.entries))
    BY <1>1, <2>1, HeldIsFunctional DEF InOrder, Probed
  <2>3. dictRet' \in Values
    BY <1>1, <1>2, <2>1 DEF Entry
  <2>4. DictInv'
    BY <1>1, <2>3 DEF DictInv
  <2>5. \A e \in Held(dict.entries) : e.key = k => e = Lookup(dict, k)
    BY <2>1, <2>2 DEF Functional
  <2> QED BY <1>1, <1>2, <2>1, <2>4, <2>5
<1>3. CASE ~ IsLive(Lookup(dict, k))
  <2>1. dictRet' = NotFound /\ \A e \in Held(dict.entries) : e.key # k
    BY <1>1, <1>3, LookupFacts
  <2>2. DictInv'
    BY <1>1, <2>1 DEF DictInv
  <2> QED BY <1>1, <2>1, <2>2
<1> QED BY <1>2, <1>3

\* Whether a lookup finds something says whether the key is there.
LEMMA FoundIfHeld ==
  ASSUME NEW d, InOrder(d), NEW k \in Keys
  PROVE  IsLive(Lookup(d, k)) = (\E e \in Held(d.entries) : e.key = k)
<1>1. CASE IsLive(Lookup(d, k))
  BY <1>1, LookedUpIsValue
<1>2. CASE ~ IsLive(Lookup(d, k))
  <2>1. IsLive(Lookup(d, k)) = FALSE
    BY <1>2 DEF IsLive
  <2>2. \A e \in Held(d.entries) : e.key # k
    BY <1>2, LookupFacts
  <2> QED BY <2>1, <2>2
<1> QED BY <1>1, <1>2

\* exists() says whether the key is there.
LEMMA HasStep ==
  ASSUME DictInv, NEW k \in Keys, DictItemExists(k)
  PROVE  DictInv' /\ UNCHANGED dict /\ dictRet' = (\E e \in Held(dict.entries) : e.key = k)
<1>1. UNCHANGED dict /\ dictRet' = (\E e \in Held(dict.entries) : e.key = k) /\ dictRet' \in BOOLEAN
  BY FoundIfHeld DEF DictItemExists, DictInv, IsLive
<1> QED BY <1>1 DEF DictInv

\* remove() takes the key away, if it is there.
LEMMA RemoveKeyStep ==
  ASSUME DictInv, NEW k \in Keys, RemoveDictItem(k)
  PROVE  /\ DictInv'
         /\ Held(dict'.entries) = WithoutKeys(Held(dict.entries), {k})
         /\ dictRet' = (\E e \in Held(dict.entries) : e.key = k)
<1>1. InOrder(dict) /\ dictRet' = IsLive(Lookup(dict, k)) /\ dictRet' \in BOOLEAN
  BY DEF RemoveDictItem, DictInv, IsLive
<1>2. dictRet' = (\E e \in Held(dict.entries) : e.key = k)
  BY <1>1, FoundIfHeld
<1>3. CASE IsLive(Lookup(dict, k))
  <2>1. dict' = Without(dict, k)
    BY <1>3 DEF RemoveDictItem
  <2>2. InOrder(dict') /\ Held(dict'.entries) = WithoutKeys(Held(dict.entries), {k})
    BY <1>1, <1>3, <2>1, WithoutFacts
  <2> QED BY <1>1, <1>2, <2>2 DEF DictInv
<1>4. CASE ~ IsLive(Lookup(dict, k))
  <2>1. dict' = dict
    BY <1>4 DEF RemoveDictItem
  <2>2. \A e \in Held(dict.entries) : e.key # k
    BY <1>1, <1>4, LookupFacts
  <2>3. Held(dict'.entries) = WithoutKeys(Held(dict.entries), {k})
    BY <2>1, <2>2 DEF WithoutKeys
  <2> QED BY <1>1, <1>2, <2>1, <2>3 DEF DictInv
<1> QED BY <1>3, <1>4

\* dict[k] = v binds the key, and says whether it is a new one.
LEMMA AssignKeyStep ==
  ASSUME DictInv, NEW k \in Keys, NEW v \in Values, SubscriptAssign(k, v)
  PROVE  /\ DictInv'
         /\ Held(dict'.entries) = With(Held(dict.entries), [key |-> k, value |-> v])
         /\ dictRet' = (\A e \in Held(dict.entries) : e.key # k)
<1>1. /\ InOrder(dict) /\ dict' = Put(dict, k, v)
      /\ dictRet' = ~ IsLive(Lookup(dict, k)) /\ dictRet' \in BOOLEAN
      /\ Full(dict.count, DictCapacity(dict)) => GrowCapacity(DictCapacity(dict)) <= MaxDictCapacity
  BY DEF SubscriptAssign, DictInv
<1>2. Full(dict.count, DictCapacity(dict)) => GrowCapacity(DictCapacity(dict)) <= 2 ^ 30
  <2>1. DictCapacity(dict) \in {0} \cup {2 ^ n : n \in 3 .. 30}
    BY <1>1 DEF InOrder, Capacities
  <2>2. PICK new \in Nat : new = GrowCapacity(DictCapacity(dict))
    BY <2>1, SizeGrows
  <2>3. PICK top \in Nat : top = 2 ^ 30
    BY SMT
  <2>4. MaxDictCapacity \in Nat /\ MaxDictCapacity <= top
    BY <2>3, DictAssumption
  <2> QED BY <1>1, <2>2, <2>3, <2>4
<1>3. InOrder(dict') /\ Held(dict'.entries) = With(Held(dict.entries), [key |-> k, value |-> v])
  BY <1>1, <1>2, PutFacts
<1>4. dictRet' = (\A e \in Held(dict.entries) : e.key # k)
  <2>1. IsLive(Lookup(dict, k)) = (\E e \in Held(dict.entries) : e.key = k)
    BY <1>1, FoundIfHeld
  <2> QED BY <1>1, <2>1
<1> QED BY <1>1, <1>3, <1>4 DEF DictInv

\* A copy holds what the original does.
LEMMA CopyStep ==
  ASSUME DictInv, CopyDict
  PROVE  DictInv' /\ Held(dict'.entries) = Held(dict.entries) /\ UNCHANGED dictRet
  BY CopiedFacts DEF CopyDict, DictInv

\* A new dictionary is in order.
LEMMA DictInitHolds == DictInit => DictInv
  BY NewDictFacts DEF DictInit, DictInv

\* The invariant is inductive.
LEMMA DictInductive == DictInv /\ [DictNext]_dictVars => DictInv'
<1> SUFFICES ASSUME DictInv, [DictNext]_dictVars PROVE DictInv'
  OBVIOUS
<1>1. ASSUME NEW k \in Keys, GetDictItem(k) PROVE DictInv'
  BY <1>1, GetStep
<1>2. ASSUME NEW k \in Keys, DictItemExists(k) PROVE DictInv'
  BY <1>2, HasStep
<1>3. ASSUME NEW k \in Keys, RemoveDictItem(k) PROVE DictInv'
  BY <1>3, RemoveKeyStep
<1>4. ASSUME NEW k \in Keys, NEW v \in Values, SubscriptAssign(k, v) PROVE DictInv'
  BY <1>4, AssignKeyStep
<1>5. CASE CopyDict
  BY <1>5, CopyStep
<1>6. CASE UNCHANGED dictVars
  BY <1>6 DEF dictVars, DictInv
<1> QED BY <1>1, <1>2, <1>3, <1>4, <1>5, <1>6 DEF DictNext

----------------------------------------------------------------------------
(* Theorems. *)

\* The invariant that the theorems below rest on holds in every reachable state.
THEOREM DictInvariance == DictSpec => []DictInv
  BY DictInitHolds, DictInductive, PTL DEF DictSpec

\* The invariant gives every field its type.
LEMMA DictInvIsTyped == DictInv => DictTypeOK
<1> SUFFICES ASSUME DictInv PROVE DictTypeOK
  OBVIOUS
<1>1. dict.activeCount \in Nat
  BY LiveFacts DEF DictInv, InOrder, Probed
<1> QED BY <1>1 DEF DictInv, DictTypeOK, InOrder, Probed, IsTable, Capacities, DictCapacity

\* Every field has its type, and capacityMask is that of the array.
THEOREM DictTypeCorrect == DictSpec => []DictTypeOK
BY DictInvIsTyped, DictInvariance, PTL

\* Whatever is put, removed and copied, count bounds the slots in use and leaves a
\* quarter of them empty: every probe ends.
THEOREM ProbesEnd == DictSpec => []DictLoadBounded
<1>1. DictInv => DictLoadBounded
  BY DEF DictInv, InOrder, DictLoadBounded
<1> QED BY <1>1, DictInvariance, PTL

\* len() counts the keys, although growing, shrinking and copying never write it.
THEOREM LengthCorrect == DictSpec => []LenIsSize
<1>1. DictInv => LenIsSize
  <2> SUFFICES ASSUME DictInv PROVE LenIsSize
    OBVIOUS
  <2>1. /\ Cardinality(Live(dict.entries)) \in Nat
        /\ Cardinality(Live(dict.entries)) <= Cardinality(Occupied(dict.entries))
        /\ Cardinality(Occupied(dict.entries)) \in Nat
    BY LiveFacts, GapFacts DEF DictInv, InOrder, Probed
  <2>2. /\ Cardinality(Occupied(dict.entries)) <= dict.count /\ dict.count \in Nat
        /\ dict.activeCount = Cardinality(Live(dict.entries))
    BY DEF DictInv, InOrder
  <2> QED BY <2>1, <2>2 DEF LenIsSize, LenDict, IsFalsey
<1> QED BY <1>1, DictInvariance, PTL

\* What a dictionary holds is a function from keys to values.
LEMMA MapFacts ==
  DictInv => /\ Functional(Held(dict.entries))
             /\ DOMAIN Bindings(dict.entries) = {e.key : e \in Held(dict.entries)}
             /\ \A e \in Held(dict.entries) : Bindings(dict.entries)[e.key] = e.value
<1> SUFFICES ASSUME DictInv PROVE Functional(Held(dict.entries))
  BY BindingsFacts
<1>1. PICK cap : cap = DictCapacity(dict)
  OBVIOUS
<1>2. IsTable(dict.entries, cap) /\ Settled(dict.entries, cap) /\ (cap # 0 => HasGap(dict.entries))
  BY <1>1 DEF DictInv, InOrder, Probed
<1>3. CASE cap = 0
  BY <1>2, <1>3, LiveFacts DEF Held, Functional
<1>4. CASE cap # 0
  BY <1>2, <1>4, HeldIsFunctional
<1> QED BY <1>3, <1>4

\* Each call does to the dictionary's bindings what MapSpec says of it, and a copy
\* changes none.
LEMMA StepIsMapStep ==
  DictInv /\ DictInv' /\ [DictNext]_dictVars => [DictMap!Next]_<<Bindings(dict.entries), dictRet>>
<1> DictInv => Functional(Held(dict.entries))
  BY MapFacts
<1>1. DictInv' => Functional(Held(dict.entries))'
  BY PTL
<1> SUFFICES ASSUME DictInv, DictInv', [DictNext]_dictVars
             PROVE  [DictMap!Next]_<<Bindings(dict.entries), dictRet>>
  OBVIOUS
<1>2. /\ Functional(Held(dict.entries)) /\ Functional(Held(dict'.entries))
      /\ DOMAIN Bindings(dict.entries) = {e.key : e \in Held(dict.entries)}
      /\ \A e \in Held(dict.entries) : Bindings(dict.entries)[e.key] = e.value
  BY <1>1, MapFacts
<1>3. ASSUME NEW k \in Keys
      PROVE  (k \in DOMAIN Bindings(dict.entries)) = (\E e \in Held(dict.entries) : e.key = k)
  <2>1. k \in DOMAIN Bindings(dict.entries) <=> \E e \in Held(dict.entries) : e.key = k
    BY <1>2
  <2>2. CASE k \in DOMAIN Bindings(dict.entries)
    <3>1. (k \in DOMAIN Bindings(dict.entries)) = TRUE
      BY <2>2
    <3>2. (\E e \in Held(dict.entries) : e.key = k) = TRUE
      BY <2>1, <2>2
    <3> QED BY <3>1, <3>2, Zenon
  <2>3. CASE k \notin DOMAIN Bindings(dict.entries)
    <3>1. (k \in DOMAIN Bindings(dict.entries)) = FALSE
      BY <2>3
    <3>2. (\E e \in Held(dict.entries) : e.key = k) = FALSE
      BY <2>1, <2>3
    <3> QED BY <3>1, <3>2, Zenon
  <2> QED BY <2>2, <2>3
<1>4. ASSUME NEW k \in Keys, GetDictItem(k) PROVE DictMap!Get(k)
  <2>1. /\ UNCHANGED dict
        /\ \A e \in Held(dict.entries) : e.key = k => dictRet' = e.value
        /\ (\A e \in Held(dict.entries) : e.key # k) => dictRet' = NotFound
    BY <1>4, GetStep
  <2>2. CASE k \in DOMAIN Bindings(dict.entries)
    BY <1>2, <2>1, <2>2 DEF DictMap!Get
  <2>3. CASE k \notin DOMAIN Bindings(dict.entries)
    BY <1>2, <2>1, <2>3 DEF DictMap!Get
  <2> QED BY <2>2, <2>3
<1>5. ASSUME NEW k \in Keys, DictItemExists(k) PROVE DictMap!Has(k)
  <2>1. UNCHANGED dict /\ dictRet' = (\E e \in Held(dict.entries) : e.key = k)
    BY <1>5, HasStep
  <2>2. dictRet' = (k \in DOMAIN Bindings(dict.entries))
    BY <1>3, <2>1, Zenon
  <2> QED BY <2>1, <2>2 DEF DictMap!Has
<1>6. ASSUME NEW k \in Keys, RemoveDictItem(k) PROVE DictMap!Remove(k)
  <2>1. /\ Held(dict'.entries) = WithoutKeys(Held(dict.entries), {k})
        /\ dictRet' = (\E e \in Held(dict.entries) : e.key = k)
    BY <1>6, RemoveKeyStep
  <2>2. Bindings(dict'.entries) = MapWithout(Bindings(dict.entries), {k})
    BY <1>2, <2>1, RemovalUnbinds
  <2>3. dictRet' = (k \in DOMAIN Bindings(dict.entries))
    BY <1>3, <2>1, Zenon
  <2> QED BY <2>2, <2>3 DEF DictMap!Remove, DictMap!Without, MapWithout
<1>7. ASSUME NEW k \in Keys, NEW v \in Values, SubscriptAssign(k, v) PROVE DictMap!Put(k, v)
  <2>1. PICK b : b = [key |-> k, value |-> v]
    OBVIOUS
  <2>2. b \in Entry /\ b.key = k /\ b.value = v
    BY <2>1 DEF Entry
  <2>3. /\ Held(dict'.entries) = With(Held(dict.entries), b)
        /\ dictRet' = (\A e \in Held(dict.entries) : e.key # k)
    BY <1>7, <2>1, AssignKeyStep
  <2>4. Bindings(dict'.entries) = [j \in DOMAIN Bindings(dict.entries) \cup {b.key} |->
                                     IF j = b.key THEN b.value ELSE Bindings(dict.entries)[j]]
    BY <1>2, <2>2, <2>3, StoreBinds, ZenonT(30)
  <2>5. dictRet' = (k \notin DOMAIN Bindings(dict.entries))
    BY <1>2, <2>3
  <2> QED BY <2>2, <2>4, <2>5 DEF DictMap!Put
<1>8. ASSUME CopyDict PROVE UNCHANGED <<Bindings(dict.entries), dictRet>>
  <2>1. Held(dict'.entries) = Held(dict.entries) /\ dictRet' = dictRet
    BY <1>8, CopyStep
  <2>2. Bindings(dict'.entries) = Bindings(dict.entries)
    BY <1>2, <2>1, SameBindings
  <2> QED BY <2>1, <2>2
<1>9. ASSUME UNCHANGED dictVars PROVE UNCHANGED <<Bindings(dict.entries), dictRet>>
  BY <1>9 DEF dictVars
<1> QED BY <1>4, <1>5, <1>6, <1>7, <1>8, <1>9 DEF DictNext, DictMap!Next

\* The dictionary behaves as a map: no growth, shrinking, reuse of a tombstone or copy
\* loses, revives or changes a binding.
THEOREM DictionaryIsMap == DictSpec => DictIsMap
<1>1. DictInit => DictMap!Init
  <2> SUFFICES ASSUME DictInit PROVE DictMap!Init
    OBVIOUS
  <2>1. dict.entries = Blank(0) /\ dictRet = NotFound
    BY DEF DictInit, NewDict
  <2>2. Bindings(dict.entries) = [j \in {} |-> NotFound]
    BY <2>1, BlankFacts DEF Bindings
  <2> QED BY <2>1, <2>2 DEF DictMap!Init
<1> QED BY <1>1, StepIsMapStep, DictInvariance, PTL DEF DictSpec, DictIsMap, DictMap!Spec

----------------------------------------------------------------------------
(***************************************************************************)
(* Sets.                                                                   *)
(***************************************************************************)

\* What a multiple leaves.
LEMMA RestOf ==
  ASSUME NEW q \in Nat, NEW m \in Nat \ {0}, NEW r \in 0 .. m - 1
  PROVE  (m * q + r) % m = r
BY SMTT(20)

\* One step further.
LEMMA NextMod ==
  ASSUME NEW a \in Nat, NEW m \in Nat \ {0}
  PROVE  ((a % m) + 1) % m = (a + 1) % m
<1>1. PICK q \in Nat, r \in 0 .. m - 1 : a = m * q + r /\ a % m = r
  <2>1. a = m * (a \div m) + (a % m) /\ a % m \in 0 .. m - 1 /\ a \div m \in Nat
    BY SMTT(20)
  <2> QED BY <2>1
<1>2. CASE r < m - 1
  <2>1. r + 1 \in 0 .. m - 1 /\ a + 1 = m * q + (r + 1)
    BY <1>1, <1>2
  <2>2. (a + 1) % m = r + 1
    BY <2>1, RestOf
  <2>3. (r + 1) % m = r + 1
    BY <2>1, SMTT(20)
  <2> QED BY <1>1, <2>2, <2>3
<1>3. CASE r = m - 1
  <2>1. 0 \in 0 .. m - 1 /\ a + 1 = m * (q + 1) + 0 /\ q + 1 \in Nat
    BY <1>1, <1>3
  <2>2. (m * (q + 1) + 0) % m = 0
    BY <2>1, RestOf
  <2>3. (r + 1) % m = 0
    BY <1>3, SMTT(20)
  <2> QED BY <1>1, <2>1, <2>2, <2>3
<1> QED BY <1>2, <1>3

\* Fewer steps than slots from a slot go round once at most.
LEMMA ModWraps ==
  ASSUME NEW h, NEW d, NEW m \in Nat \ {0}, h \in 0 .. m - 1, d \in 0 .. m - 1
  PROVE  (h + d) % m = IF h + d < m THEN h + d ELSE h + d - m
BY SMTT(20)

\* A remainder names a slot.
LEMMA ModSlot ==
  ASSUME NEW h \in Nat, NEW m \in Nat \ {0}
  PROVE  h % m \in 0 .. m - 1
BY SMTT(20)

(* What a set's probe finds. *)

\* The slot that a probe for v looks at after d others.
SlotOf(v, d, mask) == (MemberHome(v, mask) + d) % (mask + 1)

\* A probe for v gets to slot i: none of the d slots before it stopped it.
Reaches(entries, mask, v, i) ==
  \E d \in Nat : /\ i = SlotOf(v, d, mask)
                 /\ \A c \in 0 .. d - 1 : ~ StopsAtMember(entries[SlotOf(v, c, mask)], v)

\* Every value, deleted or not, is where a probe for it gets to.
AreReached(entries, mask) ==
  \A i \in 0 .. mask : entries[i] # Vacant => Reaches(entries, mask, entries[i].value, i)

IsSlots(entries, mask) == mask + 1 \in Nat /\ mask \in Int
                          /\ entries \in [0 .. mask -> SetItem \cup {Vacant}]

Present(entries) == {i \in DOMAIN entries : IsPresent(entries[i])}
ElementsOf(entries) == {entries[i].value : i \in Present(entries)}

\* A probe looks at slots, and at every one of them.
LEMMA SlotFacts ==
  ASSUME NEW v \in Members, NEW mask \in Nat
  PROVE  /\ \A d \in Nat : SlotOf(v, d, mask) \in 0 .. mask
         /\ \A i \in 0 .. mask : \E d \in 0 .. mask : SlotOf(v, d, mask) = i
         /\ SlotOf(v, 0, mask) = MemberHome(v, mask)
         /\ \A d \in Nat : SlotOf(v, d + 1, mask) = (SlotOf(v, d, mask) + 1) % (mask + 1)
<1>1. PICK m \in Nat \ {0} : m = mask + 1
  OBVIOUS
<1>2. PICK h : h = MemberHome(v, mask)
  OBVIOUS
<1>3. h \in 0 .. m - 1
  <2>1. MemberHash[v] \in Nat /\ h = MemberHash[v] % m
    BY <1>1, <1>2, ValueSetAssumption DEF MemberHome
  <2> QED BY <2>1, ModSlot
<1>4. \A d : SlotOf(v, d, mask) = (h + d) % m
  BY <1>1, <1>2 DEF SlotOf
<1>5. ASSUME NEW d \in Nat PROVE SlotOf(v, d, mask) \in 0 .. mask
  <2>1. PICK a \in Nat : a = h + d
    BY <1>3
  <2>2. a % m \in 0 .. m - 1
    BY ModSlot
  <2> QED BY <1>1, <1>4, <2>1, <2>2
<1>6. ASSUME NEW i \in 0 .. mask PROVE \E d \in 0 .. mask : SlotOf(v, d, mask) = i
  <2>0. PICK d : d = IF i >= h THEN i - h ELSE i - h + m
    OBVIOUS
  <2>1. d \in 0 .. m - 1
    <3>1. h \in Nat /\ h < m /\ i \in Nat /\ i < m
      BY <1>1, <1>3
    <3> QED BY <2>0, <3>1
  <2>2. (h + d) % m = IF h + d < m THEN h + d ELSE h + d - m
    BY <1>3, <2>1, ModWraps
  <2>3. (h + d) % m = i
    <3>1. h \in Nat /\ h < m /\ i \in Nat /\ i < m
      BY <1>1, <1>3
    <3> QED BY <2>0, <2>1, <2>2, <3>1
  <2> QED BY <1>1, <1>4, <2>1, <2>3
<1>7. SlotOf(v, 0, mask) = h
  <2>1. 0 \in 0 .. m - 1 /\ h + 0 = h /\ h < m
    BY <1>1, <1>3
  <2>2. (h + 0) % m = h
    BY <1>3, <2>1, ModWraps
  <2> QED BY <1>4, <2>2
<1>8. ASSUME NEW d \in Nat PROVE SlotOf(v, d + 1, mask) = (SlotOf(v, d, mask) + 1) % (mask + 1)
  <2>1. PICK a \in Nat : a = h + d /\ a + 1 = h + (d + 1)
    BY <1>3
  <2>2. ((a % m) + 1) % m = (a + 1) % m
    BY NextMod
  <2> QED BY <1>1, <1>4, <2>1, <2>2
<1> QED BY <1>2, <1>5, <1>6, <1>7, <1>8

\* A probe has one end.
LEMMA ReachedOnce ==
  ASSUME NEW entries, NEW mask, NEW v, NEW i, NEW j,
         Reaches(entries, mask, v, i), StopsAtMember(entries[i], v),
         Reaches(entries, mask, v, j), StopsAtMember(entries[j], v)
  PROVE  i = j
<1>1. PICK d \in Nat : /\ i = SlotOf(v, d, mask)
                       /\ \A c \in 0 .. d - 1 : ~ StopsAtMember(entries[SlotOf(v, c, mask)], v)
  BY DEF Reaches
<1>2. PICK e \in Nat : /\ j = SlotOf(v, e, mask)
                       /\ \A c \in 0 .. e - 1 : ~ StopsAtMember(entries[SlotOf(v, c, mask)], v)
  BY DEF Reaches
<1>3. ~ d < e
  <2> SUFFICES ASSUME d < e PROVE FALSE
    OBVIOUS
  <2>1. d \in 0 .. e - 1
    OBVIOUS
  <2> QED BY <1>1, <1>2, <2>1
<1>4. ~ e < d
  <2> SUFFICES ASSUME e < d PROVE FALSE
    OBVIOUS
  <2>1. e \in 0 .. d - 1
    OBVIOUS
  <2> QED BY <1>1, <1>2, <2>1
<1>5. d = e
  BY <1>3, <1>4
<1> QED BY <1>1, <1>2, <1>5

\* With an empty slot in the array findSetEntry's loop ends, at a slot it stops at.
LEMMA FindMemberFacts ==
  ASSUME NEW entries, NEW mask \in Nat, NEW v \in Members,
         \E i \in 0 .. mask : entries[i] = Vacant
  PROVE  /\ FindSetEntry(entries, mask, v) \in 0 .. mask
         /\ StopsAtMember(entries[FindSetEntry(entries, mask, v)], v)
         /\ Reaches(entries, mask, v, FindSetEntry(entries, mask, v))
<1> DEFINE stops(d) == StopsAtMember(entries[SlotOf(v, d, mask)], v)
           Ends == {d \in 0 .. mask : stops(d)}
<1>1. Ends \subseteq Nat /\ Ends # {}
  <2>1. PICK i \in 0 .. mask : entries[i] = Vacant
    OBVIOUS
  <2>2. PICK d \in 0 .. mask : SlotOf(v, d, mask) = i
    BY SlotFacts
  <2> QED BY <2>1, <2>2 DEF StopsAtMember
<1>2. PICK e \in Ends : \A c \in Ends : e <= c
  <2> HIDE DEF Ends
  <2> QED BY <1>1, Least
<1>3. e \in 0 .. mask /\ stops(e) /\ \A c \in 0 .. e - 1 : ~ stops(c)
  BY <1>2
<1> DEFINE IsEnd(d) == stops(d) /\ \A c \in 0 .. d - 1 : ~ stops(c)
<1>4. PICK d : d = CHOOSE x \in 0 .. mask : IsEnd(x)
  OBVIOUS
<1>5. d \in 0 .. mask /\ IsEnd(d)
  <2>1. \E x \in 0 .. mask : IsEnd(x)
    BY <1>3
  <2> HIDE DEF IsEnd
  <2> QED BY <1>4, <2>1, Zenon
<1>6. FindSetEntry(entries, mask, v) = SlotOf(v, d, mask)
  BY <1>4 DEF FindSetEntry, SlotOf
<1>7. d \in Nat /\ SlotOf(v, d, mask) \in 0 .. mask
  <2>1. d \in Nat
    BY <1>5
  <2> QED BY <2>1, SlotFacts
<1> QED BY <1>5, <1>6, <1>7 DEF Reaches

\* The value at the slot where a probe for it stops may come, go or be marked.
LEMMA ReachedStay ==
  ASSUME NEW entries, NEW mask, IsSlots(entries, mask), AreReached(entries, mask),
         NEW v, NEW i \in 0 .. mask, Reaches(entries, mask, v, i), StopsAtMember(entries[i], v),
         NEW item \in SetItem, item.value = v,
         NEW after, after = [entries EXCEPT ![i] = item]
  PROVE  IsSlots(after, mask) /\ AreReached(after, mask)
<1>1. IsSlots(after, mask)
  BY DEF IsSlots
<1>2. after[i] = item /\ item # Vacant /\ \A j \in 0 .. mask : j # i => after[j] = entries[j]
  BY ValueSetAssumption DEF IsSlots
<1>3. ASSUME NEW w, NEW j, NEW d \in Nat, j = SlotOf(w, d, mask), 
             \A c \in 0 .. d - 1 : ~ StopsAtMember(entries[SlotOf(w, c, mask)], w),
             \A c \in 0 .. d - 1 : SlotOf(w, c, mask) = i => w # v,
             \A c \in 0 .. d - 1 : SlotOf(w, c, mask) # i =>
               after[SlotOf(w, c, mask)] = entries[SlotOf(w, c, mask)]
      PROVE  Reaches(after, mask, w, j)
  <2>1. ASSUME NEW c \in 0 .. d - 1 PROVE ~ StopsAtMember(after[SlotOf(w, c, mask)], w)
    BY <1>2, <1>3 DEF StopsAtMember
  <2> QED BY <1>3, <2>1 DEF Reaches
<1>4. ASSUME NEW j PROVE j # i => after[j] = entries[j]
  <2>1. DOMAIN entries = 0 .. mask
    BY DEF IsSlots
  <2> QED BY <2>1
<1>5. ASSUME NEW j \in 0 .. mask, after[j] # Vacant
      PROVE  Reaches(after, mask, after[j].value, j)
  <2>1. PICK w : w = after[j].value
    OBVIOUS
  <2>2. Reaches(entries, mask, w, j)
    BY <1>2, <1>5, <2>1 DEF AreReached
  <2>3. PICK d \in Nat : /\ j = SlotOf(w, d, mask)
                         /\ \A c \in 0 .. d - 1 : ~ StopsAtMember(entries[SlotOf(w, c, mask)], w)
    BY <2>2 DEF Reaches
  <2>4. \A c \in 0 .. d - 1 : SlotOf(w, c, mask) = i => w # v
    BY <2>3
  <2>5. Reaches(after, mask, w, j)
    BY <1>3, <1>4, <2>3, <2>4
  <2> QED BY <2>1, <2>5
<1> QED BY <1>1, <1>5 DEF AreReached

(* The elements of a set. *)

\* Every value is reached, and there is one slot for each element.
IsSound(entries, mask) ==
  /\ IsSlots(entries, mask) /\ AreReached(entries, mask)
  /\ IsFiniteSet(ElementsOf(entries))
  /\ Cardinality(Present(entries)) = Cardinality(ElementsOf(entries))

\* The slots of elements are so many of the slots.
LEMMA PresentFacts ==
  ASSUME NEW entries, NEW mask, IsSlots(entries, mask)
  PROVE  /\ DOMAIN entries = 0 .. mask /\ Present(entries) \subseteq 0 .. mask
         /\ IsFiniteSet(Present(entries)) /\ Cardinality(Present(entries)) \in Nat
         /\ Cardinality(Present(entries)) <= mask + 1
         /\ \A i \in 0 .. mask : entries[i] # Vacant => entries[i] \in SetItem
         /\ (\A i \in 0 .. mask : entries[i] # Vacant => IsPresent(entries[i])) =>
              (Cardinality(Present(entries)) < mask + 1 => \E i \in 0 .. mask : entries[i] = Vacant)
<1>1. DOMAIN entries = 0 .. mask /\ mask \in Int /\ mask + 1 \in Nat
      /\ \A i \in 0 .. mask : entries[i] # Vacant => entries[i] \in SetItem
  BY DEF IsSlots
<1>2. Present(entries) \subseteq 0 .. mask
  BY <1>1 DEF Present
<1>3. IsFiniteSet(0 .. mask) /\ Cardinality(0 .. mask) = mask + 1
  <2>1. IsFiniteSet(0 .. mask) /\ Cardinality(0 .. mask) = IF 0 > mask THEN 0 ELSE mask - 0 + 1
    BY <1>1, FS_Interval
  <2> QED BY <1>1, <2>1
<1>4. /\ IsFiniteSet(Present(entries)) /\ Cardinality(Present(entries)) \in Nat
      /\ Cardinality(Present(entries)) <= mask + 1
  BY <1>2, <1>3, FS_Subset, FS_CardinalityType
<1>5. ASSUME \A i \in 0 .. mask : entries[i] # Vacant => IsPresent(entries[i]),
             Cardinality(Present(entries)) < mask + 1
      PROVE  \E i \in 0 .. mask : entries[i] = Vacant
  <2> SUFFICES ASSUME \A i \in 0 .. mask : entries[i] # Vacant PROVE FALSE
    OBVIOUS
  <2>1. Present(entries) = 0 .. mask
    BY <1>1, <1>5 DEF Present
  <2> QED BY <1>1, <1>3, <1>5, <2>1
<1> QED BY <1>1, <1>2, <1>4, <1>5

\* Where a probe for a value stops says whether it is an element.
LEMMA ElementAt ==
  ASSUME NEW entries, NEW mask, IsSlots(entries, mask), AreReached(entries, mask),
         NEW v, NEW i \in 0 .. mask, Reaches(entries, mask, v, i), StopsAtMember(entries[i], v)
  PROVE  /\ \A j \in Present(entries) : entries[j].value = v => j = i
         /\ IsPresent(entries[i]) => i \in Present(entries) /\ entries[i].value = v
         /\ IsPresent(entries[i]) <=> v \in ElementsOf(entries)
<1>1. DOMAIN entries = 0 .. mask
  BY PresentFacts
<1>2. ASSUME NEW j \in Present(entries), entries[j].value = v
      PROVE  j = i
  <2>1. j \in 0 .. mask /\ entries[j] # Vacant
    BY <1>1 DEF Present, IsPresent
  <2>2. Reaches(entries, mask, v, j) /\ StopsAtMember(entries[j], v)
    BY <1>2, <2>1 DEF AreReached, StopsAtMember
  <2> QED BY <2>2, ReachedOnce
<1>3. IsPresent(entries[i]) => i \in Present(entries) /\ entries[i].value = v
  BY <1>1 DEF Present, IsPresent, StopsAtMember
<1>4. IsPresent(entries[i]) <=> v \in ElementsOf(entries)
  BY <1>2, <1>3 DEF ElementsOf, Present
<1> QED BY <1>2, <1>3, <1>4

IsPut(after, entries, mask, v, i) ==
  /\ IsSound(after, mask) /\ ElementsOf(after) = ElementsOf(entries) \cup {v}
  /\ Cardinality(ElementsOf(after)) = Cardinality(ElementsOf(entries))
                                      + (IF IsPresent(entries[i]) THEN 0 ELSE 1)
IsDropped(after, entries, mask, v, i) ==
  /\ IsSound(after, mask) /\ ElementsOf(after) = ElementsOf(entries) \ {v}
  /\ IsPresent(entries[i]) => ElementsOf(entries) # {}
  /\ Cardinality(ElementsOf(after)) = Cardinality(ElementsOf(entries))
                                      - (IF IsPresent(entries[i]) THEN 1 ELSE 0)

\* A value is put where its probe stops.
LEMMA MemberPut ==
  ASSUME NEW entries, NEW mask, IsSound(entries, mask),
         NEW v, v \in Members, NEW i, i \in 0 .. mask,
         Reaches(entries, mask, v, i), StopsAtMember(entries[i], v),
         NEW item, item \in SetItem, item.value = v, ~ item.deleted,
         NEW after, after = [entries EXCEPT ![i] = item]
  PROVE  IsPut(after, entries, mask, v, i)
<1>1. IsSlots(entries, mask) /\ AreReached(entries, mask) /\ IsFiniteSet(ElementsOf(entries))
      /\ Cardinality(Present(entries)) = Cardinality(ElementsOf(entries))
  BY DEF IsSound
<1>2. IsSlots(after, mask) /\ AreReached(after, mask)
  BY <1>1, ReachedStay
<1>3. DOMAIN entries = 0 .. mask /\ IsFiniteSet(Present(entries))
      /\ Cardinality(Present(entries)) \in Nat
  BY <1>1, PresentFacts
<1>4. /\ DOMAIN after = 0 .. mask /\ after[i] = item /\ IsPresent(item)
      /\ \A j \in 0 .. mask : j # i => after[j] = entries[j]
  BY <1>3, ValueSetAssumption DEF IsPresent
<1>5. /\ \A j \in Present(entries) : entries[j].value = v => j = i
      /\ IsPresent(entries[i]) => i \in Present(entries) /\ entries[i].value = v
      /\ IsPresent(entries[i]) <=> v \in ElementsOf(entries)
  BY <1>1, ElementAt
<1>6. Present(after) = Present(entries) \cup {i}
  BY <1>3, <1>4 DEF Present
<1>7. ElementsOf(after) = ElementsOf(entries) \cup {v}
  <2>1. ASSUME NEW w \in ElementsOf(after) PROVE w \in ElementsOf(entries) \cup {v}
    <3>1. PICK j \in Present(after) : w = after[j].value
      BY DEF ElementsOf
    <3>2. CASE j = i
      BY <1>4, <3>1, <3>2
    <3>3. CASE j # i
      <4>1. j \in Present(entries) /\ after[j] = entries[j]
        BY <1>3, <1>4, <1>6, <3>1, <3>3 DEF Present
      <4> QED BY <3>1, <4>1 DEF ElementsOf
    <3> QED BY <3>2, <3>3
  <2>2. v \in ElementsOf(after)
    BY <1>4, <1>6 DEF ElementsOf
  <2>3. ASSUME NEW w \in ElementsOf(entries) PROVE w \in ElementsOf(after)
    <3>1. PICK j \in Present(entries) : w = entries[j].value
      BY DEF ElementsOf
    <3>2. CASE j = i
      BY <1>4, <1>5, <2>2, <3>1, <3>2 DEF Present
    <3>3. CASE j # i
      <4>1. j \in Present(after) /\ after[j] = entries[j]
        BY <1>3, <1>4, <1>6, <3>1, <3>3 DEF Present
      <4> QED BY <3>1, <4>1 DEF ElementsOf
    <3> QED BY <3>2, <3>3
  <2> QED BY <2>1, <2>2, <2>3
<1>8. CASE IsPresent(entries[i])
  <2>1. Present(after) = Present(entries) /\ ElementsOf(after) = ElementsOf(entries)
    BY <1>5, <1>6, <1>7, <1>8
  <2>2. Cardinality(ElementsOf(after)) = Cardinality(ElementsOf(entries)) + 0
    BY <1>1, <1>3, <2>1
  <2>3. IsSound(after, mask)
    BY <1>1, <1>2, <2>1 DEF IsSound
  <2> QED BY <1>7, <1>8, <2>2, <2>3 DEF IsPut
<1>9. CASE ~ IsPresent(entries[i])
  <2>1. i \notin Present(entries) /\ v \notin ElementsOf(entries)
    BY <1>5, <1>9 DEF Present
  <2>2. Cardinality(Present(after)) = Cardinality(Present(entries)) + 1
    BY <1>3, <1>6, <2>1, FS_AddElement
  <2>3. /\ Cardinality(ElementsOf(after)) = Cardinality(ElementsOf(entries)) + 1
        /\ IsFiniteSet(ElementsOf(after))
    <3>1. PICK S : S = ElementsOf(entries)
      OBVIOUS
    <3>2. IsFiniteSet(S) /\ v \notin S
      BY <1>1, <2>1, <3>1
    <3>3. Cardinality(S \cup {v}) = Cardinality(S) + 1 /\ IsFiniteSet(S \cup {v})
      BY <3>2, FS_AddElement
    <3> QED BY <1>7, <3>1, <3>3
  <2>4. IsSound(after, mask)
    BY <1>1, <1>2, <2>2, <2>3 DEF IsSound
  <2> QED BY <1>7, <1>9, <2>3, <2>4 DEF IsPut
<1> QED BY <1>8, <1>9

\* A value is marked as deleted where its probe stops.
LEMMA MemberDropped ==
  ASSUME NEW entries, NEW mask, IsSound(entries, mask),
         NEW v, v \in Members, NEW i, i \in 0 .. mask,
         Reaches(entries, mask, v, i), StopsAtMember(entries[i], v),
         NEW item, item \in SetItem, item.value = v, item.deleted,
         NEW after, after = [entries EXCEPT ![i] = item]
  PROVE  IsDropped(after, entries, mask, v, i)
<1>1. IsSlots(entries, mask) /\ AreReached(entries, mask) /\ IsFiniteSet(ElementsOf(entries))
      /\ Cardinality(Present(entries)) = Cardinality(ElementsOf(entries))
  BY DEF IsSound
<1>2. IsSlots(after, mask) /\ AreReached(after, mask)
  BY <1>1, ReachedStay
<1>3. DOMAIN entries = 0 .. mask /\ IsFiniteSet(Present(entries))
      /\ Cardinality(Present(entries)) \in Nat
  BY <1>1, PresentFacts
<1>4. /\ DOMAIN after = 0 .. mask /\ after[i] = item /\ ~ IsPresent(item)
      /\ \A j \in 0 .. mask : j # i => after[j] = entries[j]
  BY <1>3 DEF IsPresent
<1>5. /\ \A j \in Present(entries) : entries[j].value = v => j = i
      /\ IsPresent(entries[i]) => i \in Present(entries) /\ entries[i].value = v
      /\ IsPresent(entries[i]) <=> v \in ElementsOf(entries)
  BY <1>1, ElementAt
<1>6. Present(after) = Present(entries) \ {i}
  BY <1>3, <1>4 DEF Present
<1>7. ElementsOf(after) = ElementsOf(entries) \ {v}
  <2>1. ASSUME NEW j \in Present(after)
        PROVE  j \in Present(entries) /\ after[j] = entries[j] /\ entries[j].value # v
    BY <1>3, <1>4, <1>5, <1>6 DEF Present
  <2>2. ASSUME NEW j \in Present(entries), entries[j].value # v
        PROVE  j \in Present(after) /\ after[j] = entries[j]
    <3>1. j # i
      BY <1>5, <2>2 DEF Present
    <3> QED BY <1>3, <1>4, <1>6, <3>1 DEF Present
  <2>3. ASSUME NEW w \in ElementsOf(after) PROVE w \in ElementsOf(entries) \ {v}
    <3>1. PICK j \in Present(after) : w = after[j].value
      BY DEF ElementsOf
    <3> QED BY <2>1, <3>1 DEF ElementsOf
  <2>4. ASSUME NEW w \in ElementsOf(entries) \ {v} PROVE w \in ElementsOf(after)
    <3>1. PICK j \in Present(entries) : w = entries[j].value
      BY DEF ElementsOf
    <3> QED BY <2>2, <3>1 DEF ElementsOf
  <2> QED BY <2>3, <2>4
<1>8. CASE IsPresent(entries[i])
  <2>1. i \in Present(entries) /\ v \in ElementsOf(entries)
    BY <1>5, <1>8
  <2>2. Cardinality(Present(after)) = Cardinality(Present(entries)) - 1
    BY <1>3, <1>6, <2>1, FS_RemoveElement
  <2>3. /\ Cardinality(ElementsOf(after)) = Cardinality(ElementsOf(entries)) - 1
        /\ IsFiniteSet(ElementsOf(after))
    <3>1. PICK S : S = ElementsOf(entries)
      OBVIOUS
    <3>2. IsFiniteSet(S) /\ v \in S
      BY <1>1, <2>1, <3>1
    <3>3. Cardinality(S \ {v}) = Cardinality(S) - 1 /\ IsFiniteSet(S \ {v})
      BY <3>2, FS_RemoveElement
    <3> QED BY <1>7, <3>1, <3>3
  <2>4. IsSound(after, mask)
    BY <1>1, <1>2, <2>2, <2>3 DEF IsSound
  <2> QED BY <1>7, <1>8, <2>1, <2>3, <2>4 DEF IsDropped
<1>9. CASE ~ IsPresent(entries[i])
  <2>1. Present(after) = Present(entries) /\ ElementsOf(after) = ElementsOf(entries)
    BY <1>5, <1>6, <1>7, <1>9 DEF Present
  <2>2. Cardinality(ElementsOf(after)) = Cardinality(ElementsOf(entries)) - 0
    BY <1>1, <1>3, <2>1
  <2>3. IsSound(after, mask)
    BY <1>1, <1>2, <2>1 DEF IsSound
  <2> QED BY <1>7, <1>9, <2>2, <2>3 DEF IsDropped
<1> QED BY <1>8, <1>9

(* Rehashing a set. *)

\* The elements in the first n slots.
ElementsBefore(entries, n) == {entries[i].value : i \in {j \in Present(entries) : j < n}}

\* A new array after the first n slots of another are moved to it.
HoldsMembers(fresh, mask, entries, n) ==
  /\ IsSound(fresh, mask)
  /\ \A i \in 0 .. mask : fresh[i] # Vacant => IsPresent(fresh[i])
  /\ ElementsOf(fresh) = ElementsBefore(entries, n)

\* An empty array holds nothing.
LEMMA VacantFacts ==
  ASSUME NEW mask \in Int, mask + 1 \in Nat,
         NEW entries, entries = [i \in 0 .. mask |-> Vacant]
  PROVE  /\ IsSound(entries, mask) /\ ElementsOf(entries) = {}
         /\ \A i \in 0 .. mask : entries[i] = Vacant
<1>1. Present(entries) = {} /\ ElementsOf(entries) = {} /\ \A i \in 0 .. mask : entries[i] = Vacant
  BY DEF Present, IsPresent, ElementsOf
<1>2. IsSlots(entries, mask) /\ AreReached(entries, mask)
  BY <1>1 DEF IsSlots, AreReached
<1>3. IsFiniteSet({})
  BY FS_EmptySet
<1> QED BY <1>1, <1>2, <1>3 DEF IsSound

\* The next slot gives one more element, if any.
LEMMA NextElement ==
  ASSUME NEW entries, NEW mask, IsSound(entries, mask), NEW n \in 1 .. mask + 1
  PROVE  /\ ~ IsPresent(entries[n - 1]) => ElementsBefore(entries, n) = ElementsBefore(entries, n - 1)
         /\ IsPresent(entries[n - 1]) =>
              /\ ElementsBefore(entries, n) = ElementsBefore(entries, n - 1) \cup {entries[n - 1].value}
              /\ entries[n - 1].value \notin ElementsBefore(entries, n - 1)
              /\ entries[n - 1].value \in ElementsOf(entries)
              /\ entries[n - 1] \in SetItem
         /\ ElementsBefore(entries, n - 1) \subseteq ElementsOf(entries)
<1>1. IsSlots(entries, mask) /\ AreReached(entries, mask) /\ mask \in Int /\ mask + 1 \in Nat
  BY DEF IsSound, IsSlots
<1>2. PICK k : k = n - 1
  OBVIOUS
<1>3. k \in 0 .. mask /\ k \in Nat
  BY <1>1, <1>2
<1>4. DOMAIN entries = 0 .. mask /\ Present(entries) \subseteq 0 .. mask
      /\ \A i \in 0 .. mask : entries[i] # Vacant => entries[i] \in SetItem
  BY <1>1, PresentFacts
<1>5. {j \in Present(entries) : j < n} = IF IsPresent(entries[k])
                                         THEN {j \in Present(entries) : j < k} \cup {k}
                                         ELSE {j \in Present(entries) : j < k}
  <2>1. ASSUME NEW j \in 0 .. mask PROVE j < n <=> j < k \/ j = k
    BY <1>1, <1>2, <1>3
  <2>2. IsPresent(entries[k]) <=> k \in Present(entries)
    BY <1>3, <1>4 DEF Present
  <2>3. ~ k < k
    BY <1>3
  <2> QED BY <1>4, <2>1, <2>2, <2>3
<1>6. ASSUME ~ IsPresent(entries[k])
      PROVE  ElementsBefore(entries, n) = ElementsBefore(entries, k)
  BY <1>5, <1>6 DEF ElementsBefore
<1>7. ASSUME IsPresent(entries[k])
      PROVE  /\ ElementsBefore(entries, n) = ElementsBefore(entries, k) \cup {entries[k].value}
             /\ entries[k].value \notin ElementsBefore(entries, k)
             /\ entries[k].value \in ElementsOf(entries)
             /\ entries[k] \in SetItem
  <2>1. {j \in Present(entries) : j < n} = {j \in Present(entries) : j < k} \cup {k}
    BY <1>5, <1>7
  <2>2. k \in Present(entries) /\ entries[k] # Vacant
    BY <1>3, <1>4, <1>7 DEF Present, IsPresent
  <2>3. Reaches(entries, mask, entries[k].value, k) /\ StopsAtMember(entries[k], entries[k].value)
    BY <1>1, <1>3, <2>2 DEF AreReached, StopsAtMember
  <2>4. ASSUME NEW j \in Present(entries), j < k, entries[j].value = entries[k].value PROVE FALSE
    <3>1. j \in 0 .. mask /\ j # k
      BY <1>3, <1>4, <2>4
    <3>2. j = k
      BY <1>1, <1>3, <2>3, <2>4, ElementAt
    <3> QED BY <3>1, <3>2
  <2>5. ElementsBefore(entries, n) = ElementsBefore(entries, k) \cup {entries[k].value}
    <3>1. PICK S : S = {j \in Present(entries) : j < k}
      OBVIOUS
    <3>2. {entries[i].value : i \in S \cup {k}} = {entries[i].value : i \in S} \cup {entries[k].value}
      OBVIOUS
    <3> QED BY <2>1, <3>1, <3>2 DEF ElementsBefore
  <2> QED BY <1>3, <1>4, <2>2, <2>4, <2>5 DEF ElementsBefore, ElementsOf
<1>8. ElementsBefore(entries, k) \subseteq ElementsOf(entries)
  BY DEF ElementsBefore, ElementsOf
<1> QED BY <1>2, <1>6, <1>7, <1>8

\* One turn of adjustSetCapacity's loop: the new array has room for what is moved.
LEMMA MoveMemberFacts ==
  ASSUME NEW entries, NEW size, IsSound(entries, size), NEW mask \in Nat,
         Cardinality(ElementsOf(entries)) <= mask + 1,
         NEW n \in 1 .. size + 1, NEW fresh, HoldsMembers(fresh, mask, entries, n - 1)
  PROVE  HoldsMembers(MoveMember(fresh, mask, entries[n - 1]), mask, entries, n)
<1>1. PICK c : c = entries[n - 1]
  OBVIOUS
<1>2. CASE ~ IsPresent(c)
  <2>1. MoveMember(fresh, mask, c) = fresh
    BY <1>2 DEF MoveMember
  <2>2. ElementsBefore(entries, n) = ElementsBefore(entries, n - 1)
    BY <1>1, <1>2, NextElement
  <2> QED BY <1>1, <2>1, <2>2 DEF HoldsMembers
<1>3. CASE IsPresent(c)
  <2>1. PICK v : v = c.value
    OBVIOUS
  <2>2. /\ ElementsBefore(entries, n) = ElementsBefore(entries, n - 1) \cup {v}
        /\ v \notin ElementsBefore(entries, n - 1) /\ v \in ElementsOf(entries)
        /\ ElementsBefore(entries, n - 1) \subseteq ElementsOf(entries)
        /\ c \in SetItem /\ ~ c.deleted
    BY <1>1, <1>3, <2>1, NextElement DEF IsPresent
  <2>3. v \in Members
    BY <2>1, <2>2 DEF SetItem
  <2>4. /\ IsSound(fresh, mask) /\ ElementsOf(fresh) = ElementsBefore(entries, n - 1)
        /\ \A i \in 0 .. mask : fresh[i] # Vacant => IsPresent(fresh[i])
    BY DEF HoldsMembers
  <2>5. Cardinality(ElementsOf(fresh)) < mask + 1
    <3>1. PICK S : S = ElementsOf(entries) \ {v}
      OBVIOUS
    <3>2. IsFiniteSet(ElementsOf(entries)) /\ ElementsOf(fresh) \subseteq S
      BY <2>2, <2>4, <3>1 DEF IsSound
    <3>3. IsFiniteSet(S) /\ Cardinality(S) = Cardinality(ElementsOf(entries)) - 1
          /\ Cardinality(ElementsOf(entries)) \in Nat
      BY <2>2, <3>1, <3>2, FS_RemoveElement, FS_CardinalityType
    <3>4. Cardinality(ElementsOf(fresh)) <= Cardinality(S) /\ Cardinality(ElementsOf(fresh)) \in Nat
      BY <3>2, <3>3, FS_Subset, FS_CardinalityType
    <3> QED BY <3>3, <3>4
  <2>6. \E i \in 0 .. mask : fresh[i] = Vacant
    BY <2>4, <2>5, PresentFacts DEF IsSound
  <2>7. PICK i : i = FindSetEntry(fresh, mask, v)
    OBVIOUS
  <2>8. i \in 0 .. mask /\ StopsAtMember(fresh[i], v) /\ Reaches(fresh, mask, v, i)
    BY <2>3, <2>6, <2>7, FindMemberFacts
  <2>9. PICK after : after = [fresh EXCEPT ![i] = c]
    OBVIOUS
  <2>10. IsPut(after, fresh, mask, v, i)
    <3>1. IsSound(fresh, mask) /\ c \in SetItem /\ c.value = v /\ ~ c.deleted
      BY <2>1, <2>2, <2>4
    <3> QED BY <2>3, <2>8, <2>9, <3>1, MemberPut, Zenon
  <2>11. MoveMember(fresh, mask, c) = after
    BY <1>3, <2>1, <2>7, <2>9 DEF MoveMember
  <2>12. \A j \in 0 .. mask : after[j] # Vacant => IsPresent(after[j])
    <3>1. DOMAIN fresh = 0 .. mask
      BY <2>4 DEF IsSound, IsSlots
    <3> QED BY <1>3, <2>4, <2>8, <2>9, <3>1
  <2> QED BY <1>1, <2>2, <2>4, <2>10, <2>11, <2>12 DEF HoldsMembers, IsPut
<1> QED BY <1>2, <1>3

\* adjustSetCapacity moves every element and nothing else.
LEMMA MovedMembersFacts ==
  ASSUME NEW s, IsSound(s.entries, s.capacityMask), NEW mask \in Nat,
         Cardinality(ElementsOf(s.entries)) <= mask + 1
  PROVE  /\ IsSound(MovedMembers(s, mask), mask)
         /\ ElementsOf(MovedMembers(s, mask)) = ElementsOf(s.entries)
         /\ \A i \in 0 .. mask : MovedMembers(s, mask)[i] # Vacant => IsPresent(MovedMembers(s, mask)[i])
<1> DEFINE size == SetCapacity(s)
           table == s.entries
           arrays == [0 .. mask -> SetItem \cup {Vacant}]
           may == [n \in 0 .. size |-> {t \in arrays : HoldsMembers(t, mask, table, n)}]
           turn == [n \in 1 .. size |-> [t \in arrays |-> MoveMember(t, mask, table[n - 1])]]
           start == [i \in 0 .. mask |-> Vacant]
           Stages(f) == f = [n \in 0 .. size |->
                               IF n = 0 THEN start ELSE MoveMember(f[n - 1], mask, table[n - 1])]
<1>1. size \in Nat /\ size = s.capacityMask + 1 /\ IsSound(table, s.capacityMask)
      /\ DOMAIN table = 0 .. size - 1
  BY DEF SetCapacity, IsSound, IsSlots
<1>2. start \in may[0]
  <2>1. ElementsBefore(table, 0) = {}
    <3>1. \A j \in Present(table) : ~ j < 0
      BY <1>1 DEF Present
    <3> QED BY <3>1 DEF ElementsBefore
  <2>2. PICK b : b = start
    OBVIOUS
  <2>3. /\ IsSound(b, mask) /\ ElementsOf(b) = {} /\ \A i \in 0 .. mask : b[i] = Vacant
    BY <2>2, VacantFacts
  <2>4. HoldsMembers(b, mask, table, 0)
    <3> HIDE DEF table
    <3> QED BY <2>1, <2>3 DEF HoldsMembers
  <2> QED BY <1>1, <2>2, <2>4
<1>3. \A n \in 1 .. size : \A t :
        HoldsMembers(t, mask, table, n - 1) => HoldsMembers(MoveMember(t, mask, table[n - 1]), mask, table, n)
  BY <1>1, MoveMemberFacts
<1>4. \A n \in 1 .. size : \A t \in may[n - 1] :
        turn[n][t] \in may[n] /\ turn[n][t] = MoveMember(t, mask, table[n - 1])
  <2> SUFFICES ASSUME NEW n \in 1 .. size, NEW t \in may[n - 1]
               PROVE  turn[n][t] \in may[n] /\ turn[n][t] = MoveMember(t, mask, table[n - 1])
    OBVIOUS
  <2>1. n - 1 \in 0 .. size /\ n \in 0 .. size
    BY <1>1
  <2>2. t \in arrays /\ HoldsMembers(t, mask, table, n - 1)
    BY <2>1
  <2>3. turn[n][t] = MoveMember(t, mask, table[n - 1])
    BY <2>2
  <2>4. HoldsMembers(MoveMember(t, mask, table[n - 1]), mask, table, n)
    BY <1>3, <2>2
  <2>5. MoveMember(t, mask, table[n - 1]) \in arrays
    BY <2>4 DEF HoldsMembers, IsSound, IsSlots
  <2> QED BY <2>1, <2>3, <2>4, <2>5
<1>5. PICK f : IsRun(f, size, start, turn, may)
  <2> HIDE DEF may, turn, start, size
  <2> QED BY <1>1, <1>2, <1>4, Loop
<1>6. Stages(f)
  <2>1. \A n \in 1 .. size : turn[n][f[n - 1]] = MoveMember(f[n - 1], mask, table[n - 1])
    <3> SUFFICES ASSUME NEW n \in 1 .. size
                 PROVE  turn[n][f[n - 1]] = MoveMember(f[n - 1], mask, table[n - 1])
      OBVIOUS
    <3>1. n - 1 \in 0 .. size
      BY <1>1
    <3>2. f[n - 1] \in may[n - 1]
      BY <1>5, <3>1 DEF IsRun
    <3> HIDE DEF may, turn
    <3> QED BY <1>4, <3>2
  <2>2. \A n \in 0 .. size : f[n] = IF n = 0 THEN start ELSE turn[n][f[n - 1]]
    <3> HIDE DEF may, turn, start
    <3> QED BY <1>5 DEF IsRun
  <2>3. \A n \in 0 .. size : f[n] = IF n = 0 THEN start ELSE MoveMember(f[n - 1], mask, table[n - 1])
    <3> HIDE DEF may, turn, start
    <3>1. \A n \in 0 .. size : n = 0 \/ n \in 1 .. size
      BY <1>1
    <3> QED BY <2>1, <2>2, <3>1
  <2>4. f = [n \in 0 .. size |-> f[n]]
    <3> HIDE DEF may, turn, start
    <3> QED BY <1>5 DEF IsRun
  <2>5. f = [n \in 0 .. size |->
                IF n = 0 THEN start ELSE MoveMember(f[n - 1], mask, table[n - 1])]
    <3> HIDE DEF start, size
    <3> QED BY <2>3, <2>4, Zenon
  <2> QED BY <2>5
<1> DEFINE g == CHOOSE h : Stages(h)
<1>7. Stages(g)
  BY <1>6
<1>8. MovedMembers(s, mask) = g[size]
  BY DEF MovedMembers
<1> HIDE DEF g
<1>9. \A n \in 0 .. size : g[n] \in may[n]
  <2>1. \A n \in 0 .. size : g[n] = IF n = 0 THEN start ELSE MoveMember(g[n - 1], mask, table[n - 1])
    <3> HIDE DEF may, turn, start
    <3> QED BY <1>7
  <2>2. g[0] = start
    BY <1>1, <2>1
  <2>3. \A n \in 1 .. size : g[n] = MoveMember(g[n - 1], mask, table[n - 1])
    BY <1>1, <2>1
  <2>4. \A n \in 1 .. size : g[n - 1] \in may[n - 1] => g[n] \in may[n]
    <3> HIDE DEF may, turn
    <3> QED BY <1>4, <2>3
  <2> HIDE DEF may, turn, start, size
  <2> QED BY <1>1, <1>2, <2>2, <2>4, LoopStays
<1>10. HoldsMembers(g[size], mask, table, size)
  <2>1. size \in 0 .. size
    BY <1>1
  <2>2. g[size] \in may[size]
    <3> HIDE DEF may
    <3> QED BY <1>9, <2>1
  <2>3. may[size] = {t \in arrays : HoldsMembers(t, mask, table, size)}
    <3> HIDE DEF arrays, size, table
    <3> QED BY <2>1
  <2> HIDE DEF may
  <2> QED BY <2>2, <2>3
<1>11. ElementsBefore(table, size) = ElementsOf(table)
  <2>1. \A j \in Present(table) : j < size
    BY <1>1 DEF Present
  <2>2. {j \in Present(table) : j < size} = Present(table)
    BY <2>1
  <2> QED BY <2>2 DEF ElementsBefore, ElementsOf
<1> QED BY <1>8, <1>10, <1>11 DEF HoldsMembers

----------------------------------------------------------------------------
(* Sets. *)


\* What is true of every set between two steps.  count may be too low, but not when
\* it says that there is nothing.
SetInOrder(s) ==
  /\ s = [entries |-> s.entries, capacityMask |-> s.capacityMask, count |-> s.count]
  /\ s.capacityMask \in Int /\ SetCapacity(s) \in Capacities
  /\ IsSound(s.entries, s.capacityMask)
  /\ s.count \in Nat /\ s.count <= Cardinality(ElementsOf(s.entries))
  /\ s.count = 0 => ElementsOf(s.entries) = {}

\* A set that no value was removed from knows how many it has, and has gaps.
IsFresh(s) ==
  /\ \A i \in 0 .. s.capacityMask : s.entries[i] # Vacant => IsPresent(s.entries[i])
  /\ s.count = Cardinality(ElementsOf(s.entries))

\* There are no more elements than slots, and no less of them than count says.
LEMMA OrderFacts ==
  ASSUME NEW s, SetInOrder(s)
  PROVE  /\ IsFiniteSet(ElementsOf(s.entries)) /\ Cardinality(ElementsOf(s.entries)) \in Nat
         /\ s.count <= Cardinality(ElementsOf(s.entries))
         /\ Cardinality(ElementsOf(s.entries)) <= SetCapacity(s)
         /\ s.capacityMask + 1 = SetCapacity(s) /\ SetCapacity(s) \in Nat /\ s.capacityMask \in Int
         /\ SetCapacity(s) # 0 => s.capacityMask \in Nat
         /\ IsSlots(s.entries, s.capacityMask) /\ AreReached(s.entries, s.capacityMask)
<1>1. IsSlots(s.entries, s.capacityMask) /\ AreReached(s.entries, s.capacityMask)
      /\ IsFiniteSet(ElementsOf(s.entries))
      /\ Cardinality(Present(s.entries)) = Cardinality(ElementsOf(s.entries))
  BY DEF SetInOrder, IsSound
<1>2. Cardinality(Present(s.entries)) \in Nat /\ Cardinality(Present(s.entries)) <= s.capacityMask + 1
  BY <1>1, PresentFacts
<1>3. s.capacityMask + 1 = SetCapacity(s) /\ SetCapacity(s) \in Nat /\ s.capacityMask \in Int
  BY <1>1 DEF SetCapacity, IsSlots
<1> QED BY <1>1, <1>2, <1>3 DEF SetInOrder

\* A rehash to a size with room keeps every element, and count becomes their number.
LEMMA AdjustSetFacts ==
  ASSUME NEW s, IsSound(s.entries, s.capacityMask), NEW cap \in {2 ^ n : n \in 3 .. 30},
         Cardinality(ElementsOf(s.entries)) <= cap,
         NEW a, a = AdjustSetCapacity(s, cap - 1)
  PROVE  /\ SetInOrder(a) /\ IsFresh(a)
         /\ ElementsOf(a.entries) = ElementsOf(s.entries)
         /\ SetCapacity(a) = cap
<1>1. cap \in Nat \ {0}
  <2>1. \A size \in Sizes : size \in Nat \ {0}
    BY SMT DEF Sizes
  <2> QED BY <2>1, SizesArePowers
<1>2. PICK mask : mask = cap - 1
  OBVIOUS
<1>3. mask \in Nat /\ mask + 1 = cap
  BY <1>1, <1>2
<1>4. PICK entries : entries = MovedMembers(s, mask)
  OBVIOUS
<1>5. /\ IsSound(entries, mask) /\ ElementsOf(entries) = ElementsOf(s.entries)
      /\ \A i \in 0 .. mask : entries[i] # Vacant => IsPresent(entries[i])
  BY <1>3, <1>4, MovedMembersFacts
<1>6. PICK n : n = Cardinality(ElementsOf(s.entries))
  OBVIOUS
<1>7. a = [entries |-> entries, capacityMask |-> mask, count |-> n]
  BY <1>2, <1>4, <1>6 DEF AdjustSetCapacity, Elements, ElementsOf, Present
<1>8. a.entries = entries /\ a.capacityMask = mask /\ a.count = n /\ SetCapacity(a) = cap
  BY <1>3, <1>7 DEF SetCapacity
<1>9. n \in Nat /\ (n = 0 => ElementsOf(s.entries) = {})
  BY <1>6, FS_EmptySet, FS_CardinalityType DEF IsSound
<1>10. SetInOrder(a)
  BY <1>3, <1>5, <1>6, <1>7, <1>8, <1>9 DEF SetInOrder, Capacities
<1> QED BY <1>5, <1>6, <1>8, <1>10 DEF IsFresh

\* A slot for v: where a probe for it stops.
IsSlotFor(s, v, i) ==
  /\ i \in 0 .. s.capacityMask
  /\ Reaches(s.entries, s.capacityMask, v, i) /\ StopsAtMember(s.entries[i], v)

\* setInsert makes room first.
LEMMA GrownSetFacts ==
  ASSUME NEW s, SetInOrder(s),
         SetIsFull(s) => GrowCapacity(SetCapacity(s)) <= 2 ^ 30,
         NEW g, g = GrownSet(s)
  PROVE  /\ SetInOrder(g) /\ ElementsOf(g.entries) = ElementsOf(s.entries)
         /\ g.capacityMask \in Nat
         /\ SetCapacity(g) = IF SetIsFull(s) THEN GrowCapacity(SetCapacity(s)) ELSE SetCapacity(s)
         /\ IsFresh(s) => IsFresh(g) /\ \E i \in 0 .. g.capacityMask : g.entries[i] = Vacant
<1>1. PICK n : n = Cardinality(ElementsOf(s.entries))
  OBVIOUS
<1>2. PICK cap : cap = SetCapacity(s)
  OBVIOUS
<1>3. /\ n \in Nat /\ n <= cap /\ s.count <= n /\ s.count \in Nat /\ cap \in Nat
      /\ s.capacityMask + 1 = cap /\ s.capacityMask \in Int
  BY <1>1, <1>2, OrderFacts DEF SetInOrder
<1>4. CASE ~ SetIsFull(s)
  <2>1. g = s
    BY <1>4 DEF GrownSet
  <2>2. 4 * (s.count + 1) <= 3 * cap
    BY <1>2, <1>3, <1>4 DEF SetIsFull
  <2>3. s.capacityMask \in Nat /\ s.count < s.capacityMask + 1
    BY <1>3, <2>2
  <2>4. ASSUME IsFresh(s) PROVE \E i \in 0 .. s.capacityMask : s.entries[i] = Vacant
    <3>1. Cardinality(Present(s.entries)) < s.capacityMask + 1
      BY <2>3, <2>4 DEF IsFresh, SetInOrder, IsSound
    <3> QED BY <2>4, <3>1, OrderFacts, PresentFacts DEF IsFresh
  <2> QED BY <1>4, <2>1, <2>3, <2>4
<1>5. CASE SetIsFull(s)
  <2>1. PICK new : new = GrowCapacity(cap)
    OBVIOUS
  <2>2. new \in {2 ^ k : k \in 3 .. 30} /\ new \in Nat /\ new > cap
    <3>1. cap \in {0} \cup {2 ^ k : k \in 3 .. 30}
      BY <1>2 DEF SetInOrder, Capacities
    <3>2. GrowCapacity(cap) \in Nat \ {0} /\ 3 * cap + 8 <= 3 * GrowCapacity(cap)
          /\ (GrowCapacity(cap) <= 2 ^ 30 => GrowCapacity(cap) \in {2 ^ k : k \in 3 .. 30})
      BY <3>1, SizeGrows
    <3>3. new \in Nat /\ 3 * cap + 8 <= 3 * new
      BY <2>1, <3>2
    <3>4. new > cap
      BY <1>3, <3>3
    <3> QED BY <1>2, <1>5, <2>1, <3>2, <3>3, <3>4
  <2>3. g = AdjustSetCapacity(s, new - 1)
    BY <1>2, <1>5, <2>1 DEF GrownSet
  <2>4. IsSound(s.entries, s.capacityMask) /\ n <= new
    BY <1>3, <2>2 DEF SetInOrder
  <2>5. /\ SetInOrder(g) /\ IsFresh(g) /\ ElementsOf(g.entries) = ElementsOf(s.entries)
        /\ SetCapacity(g) = new
    BY <1>1, <2>2, <2>3, <2>4, AdjustSetFacts
  <2>6. g.capacityMask \in Nat /\ g.capacityMask + 1 = new
    <3>1. new # 0
      BY <1>3, <2>2
    <3> QED BY <2>5, <3>1, OrderFacts
  <2>7. \E i \in 0 .. g.capacityMask : g.entries[i] = Vacant
    <3>1. Cardinality(Present(g.entries)) = n
      BY <1>1, <2>5 DEF SetInOrder, IsSound
    <3>2. Cardinality(Present(g.entries)) < g.capacityMask + 1
      BY <1>3, <2>2, <2>6, <3>1
    <3> QED BY <2>5, <3>2, OrderFacts, PresentFacts DEF IsFresh
  <2> QED BY <1>2, <1>5, <2>1, <2>5, <2>6, <2>7
<1> QED BY <1>4, <1>5

\* The end of setInsert puts the value into the set.
LEMMA InsertAtFacts ==
  ASSUME NEW s, SetInOrder(s), NEW v \in Members, NEW i, IsSlotFor(s, v, i),
         NEW a, a = InsertAt(s, i, v)
  PROVE  /\ SetInOrder(a) /\ ElementsOf(a.entries) = ElementsOf(s.entries) \cup {v}
         /\ IsPresent(s.entries[i]) <=> v \in ElementsOf(s.entries)
         /\ a.count <= s.count + 1 /\ SetCapacity(a) = SetCapacity(s)
         /\ a.capacityMask = s.capacityMask
         /\ IsFresh(s) => IsFresh(a)
<1>1. PICK item : item = [value |-> v, deleted |-> FALSE]
  OBVIOUS
<1>2. item \in SetItem /\ item.value = v /\ ~ item.deleted
  BY <1>1 DEF SetItem
<1>3. PICK entries : entries = [s.entries EXCEPT ![i] = item]
  OBVIOUS
<1>4. PICK n : n = IF IsPresent(s.entries[i]) THEN s.count ELSE s.count + 1
  OBVIOUS
<1>5. a = [s EXCEPT !.entries = entries, !.count = n]
  BY <1>1, <1>3, <1>4 DEF InsertAt
<1>6. /\ a = [entries |-> entries, capacityMask |-> s.capacityMask, count |-> n]
      /\ a.entries = entries /\ a.capacityMask = s.capacityMask /\ a.count = n
      /\ SetCapacity(a) = SetCapacity(s)
  BY <1>5 DEF SetInOrder, SetCapacity
<1>7. /\ i \in 0 .. s.capacityMask /\ IsSound(s.entries, s.capacityMask)
      /\ Reaches(s.entries, s.capacityMask, v, i) /\ StopsAtMember(s.entries[i], v)
      /\ IsSlots(s.entries, s.capacityMask) /\ AreReached(s.entries, s.capacityMask)
  BY DEF IsSlotFor, SetInOrder, IsSound
<1>8. IsPut(entries, s.entries, s.capacityMask, v, i)
  BY <1>2, <1>3, <1>7, MemberPut, Zenon
<1>9. IsPresent(s.entries[i]) <=> v \in ElementsOf(s.entries)
  BY <1>7, ElementAt
<1>10. PICK m : m = Cardinality(ElementsOf(s.entries))
  OBVIOUS
<1>11. m \in Nat /\ s.count \in Nat /\ s.count <= m
  BY <1>10, OrderFacts DEF SetInOrder
<1>12. /\ n \in Nat /\ n <= s.count + 1 /\ n # 0
       /\ n <= Cardinality(ElementsOf(entries))
       /\ s.count = m => n = Cardinality(ElementsOf(entries))
  <2>1. CASE IsPresent(s.entries[i])
    <3>1. s.count # 0
      BY <1>9, <2>1 DEF SetInOrder
    <3>2. Cardinality(ElementsOf(entries)) = m + 0
      BY <1>8, <1>10, <2>1 DEF IsPut
    <3> QED BY <1>4, <1>11, <2>1, <3>1, <3>2
  <2>2. CASE ~ IsPresent(s.entries[i])
    <3>1. Cardinality(ElementsOf(entries)) = m + 1
      BY <1>8, <1>10, <2>2 DEF IsPut
    <3> QED BY <1>4, <1>11, <2>2, <3>1
  <2> QED BY <2>1, <2>2
<1>13. SetInOrder(a)
  <2>1. IsSound(entries, s.capacityMask)
    BY <1>8 DEF IsPut
  <2> QED BY <1>6, <1>12, <2>1 DEF SetInOrder
<1>14. IsFresh(s) => IsFresh(a)
  <2> SUFFICES ASSUME IsFresh(s) PROVE IsFresh(a)
    OBVIOUS
  <2>1. IsPresent(item) /\ DOMAIN s.entries = 0 .. s.capacityMask
    BY <1>2, <1>7, ValueSetAssumption DEF IsPresent, IsSlots
  <2>2. \A j \in 0 .. s.capacityMask : entries[j] # Vacant => IsPresent(entries[j])
    BY <1>3, <2>1 DEF IsFresh
  <2> QED BY <1>6, <1>10, <1>12, <2>2 DEF IsFresh
<1> QED BY <1>6, <1>8, <1>9, <1>12, <1>13, <1>14 DEF IsPut

\* setDelete takes the value out of the set, whether or not it was still in it.
LEMMA DeleteAtFacts ==
  ASSUME NEW s, SetInOrder(s), s.count > 0, NEW v \in Members, NEW i, IsSlotFor(s, v, i),
         s.entries[i] # Vacant, ShrinkEnds(s, i), NEW a, a = DeleteAt(s, i)
  PROVE  SetInOrder(a) /\ ElementsOf(a.entries) = ElementsOf(s.entries) \ {v}
<1>1. /\ i \in 0 .. s.capacityMask /\ IsSound(s.entries, s.capacityMask)
      /\ Reaches(s.entries, s.capacityMask, v, i) /\ StopsAtMember(s.entries[i], v)
      /\ s.entries[i] \in SetItem /\ s.entries[i].value = v /\ s.capacityMask \in Nat
  <2>1. i \in 0 .. s.capacityMask /\ IsSlots(s.entries, s.capacityMask)
    BY DEF IsSlotFor, SetInOrder, IsSound
  <2>2. s.entries[i] \in SetItem
    BY <2>1, PresentFacts
  <2>3. s.capacityMask \in Nat
    BY <2>1 DEF IsSlots
  <2> QED BY <2>2, <2>3 DEF IsSlotFor, SetInOrder, StopsAtMember
<1>2. PICK item : item = [value |-> v, deleted |-> TRUE]
  OBVIOUS
<1>3. item \in SetItem /\ item.value = v /\ item.deleted
      /\ item = [s.entries[i] EXCEPT !.deleted = TRUE]
  <2>1. PICK c : c = s.entries[i]
    OBVIOUS
  <2>2. c = [value |-> v, deleted |-> c.deleted]
    BY <1>1, <2>1 DEF SetItem
  <2>3. PICK yes : yes = TRUE
    OBVIOUS
  <2>4. PICK b : b = [c EXCEPT !.deleted = yes]
    OBVIOUS
  <2>5. item = b
    <3>1. b = [value |-> v, deleted |-> yes]
      BY <2>2, <2>4
    <3>2. item = [value |-> v, deleted |-> yes]
      BY <1>2, <2>3, Zenon
    <3> QED BY <3>1, <3>2
  <2>6. item = [s.entries[i] EXCEPT !.deleted = TRUE]
    BY <2>1, <2>3, <2>4, <2>5, Zenon
  <2> QED BY <1>1, <1>2, <2>6 DEF SetItem
<1>4. PICK entries : entries = [s.entries EXCEPT ![i] = item]
  OBVIOUS
<1>5. PICK n : n = s.count - 1
  OBVIOUS
<1>6. PICK d : d = Dropped(s, i)
  OBVIOUS
<1>7. d = [s EXCEPT !.entries = entries, !.count = n]
  <2>1. entries = [s.entries EXCEPT ![i].deleted = TRUE]
    BY <1>3, <1>4
  <2> QED BY <1>5, <1>6, <2>1 DEF Dropped
<1>8. /\ d = [entries |-> entries, capacityMask |-> s.capacityMask, count |-> n]
      /\ d.entries = entries /\ d.capacityMask = s.capacityMask /\ d.count = n
      /\ SetCapacity(d) = SetCapacity(s)
  BY <1>7 DEF SetInOrder, SetCapacity
<1>9. IsDropped(entries, s.entries, s.capacityMask, v, i)
  BY <1>1, <1>3, <1>4, MemberDropped, Zenon
<1>10. PICK m : m = Cardinality(ElementsOf(s.entries))
  OBVIOUS
<1>11. m \in Nat /\ s.count \in Nat /\ s.count <= m
  BY <1>10, OrderFacts DEF SetInOrder
<1>12. n \in Nat /\ n <= Cardinality(ElementsOf(entries))
  <2>1. CASE IsPresent(s.entries[i])
    <3>1. Cardinality(ElementsOf(entries)) = m - 1
      BY <1>9, <1>10, <2>1 DEF IsDropped
    <3> QED BY <1>5, <1>11, <3>1
  <2>2. CASE ~ IsPresent(s.entries[i])
    <3>1. Cardinality(ElementsOf(entries)) = m - 0
      BY <1>9, <1>10, <2>2 DEF IsDropped
    <3> QED BY <1>5, <1>11, <3>1
  <2> QED BY <2>1, <2>2
<1>13. IsSound(entries, s.capacityMask) /\ ElementsOf(entries) = ElementsOf(s.entries) \ {v}
  BY <1>9 DEF IsDropped
<1>14. CASE ~ SetIsSparse(d)
  <2>1. a = d
    BY <1>6, <1>14 DEF DeleteAt
  <2>2. n # 0
    <3>1. ~ 4 * (n - 1) < s.capacityMask
      BY <1>8, <1>14 DEF SetIsSparse
    <3> QED BY <1>1, <1>12, <3>1
  <2>3. SetInOrder(d)
    BY <1>8, <1>12, <1>13, <2>2 DEF SetInOrder
  <2> QED BY <1>8, <1>13, <2>1, <2>3
<1>15. CASE SetIsSparse(d)
  <2>1. PICK cap : cap = ShrinkCapacity(SetCapacity(s))
    OBVIOUS
  <2>2. a = AdjustSetCapacity(d, cap - 1)
    BY <1>6, <1>8, <1>15, <2>1 DEF DeleteAt
  <2>3. cap \in {2 ^ k : k \in 3 .. 30}
    <3>1. SetCapacity(s) # 0
      BY <1>1 DEF SetCapacity
    <3>2. SetCapacity(s) \in {2 ^ k : k \in 3 .. 30}
      BY <3>1 DEF SetInOrder, Capacities
    <3> QED BY <2>1, <3>2, SizeShrinks
  <2>4. Cardinality(ElementsOf(d.entries)) <= cap
    BY <1>6, <1>8, <1>15, <2>1 DEF ShrinkEnds, Elements, ElementsOf, Present
  <2>5. IsSound(d.entries, d.capacityMask)
    BY <1>8, <1>13
  <2> QED BY <1>8, <1>13, <2>2, <2>3, <2>4, <2>5, AdjustSetFacts
<1> QED BY <1>14, <1>15

(* Sets that set() builds. *)

\* Sets in order are a set.
ValueSets == [entries : UNION {[0 .. cap - 1 -> SetItem \cup {Vacant}] : cap \in Capacities},
              capacityMask : Int, count : Nat]

\* What a set built of n values so far is.
IsBuilt(s, n) == SetInOrder(s) /\ IsFresh(s) /\ s.count <= n

\* Which SetInOrder is part of.
LEMMA OrderInSets ==
  ASSUME NEW s, SetInOrder(s)
  PROVE  s \in ValueSets
<1>1. PICK cap : cap = SetCapacity(s)
  OBVIOUS
<1>2. s.capacityMask = cap - 1 /\ cap \in Capacities /\ s.capacityMask \in Int /\ s.count \in Nat
  BY <1>1, OrderFacts DEF SetInOrder
<1>3. s.entries \in [0 .. cap - 1 -> SetItem \cup {Vacant}]
  BY <1>2, OrderFacts DEF IsSlots
<1>4. PICK tables : tables = UNION {[0 .. c - 1 -> SetItem \cup {Vacant}] : c \in Capacities}
  OBVIOUS
<1>5. s.entries \in tables
  BY <1>2, <1>3, <1>4
<1>6. s \in [entries : tables, capacityMask : Int, count : Nat]
  BY <1>2, <1>5 DEF SetInOrder
<1> QED BY <1>4, <1>6 DEF ValueSets

\* newSet gives an empty one.
LEMMA NewSetFacts == IsBuilt(NewSet, 0)
<1>1. PICK entries : entries = [i \in 0 .. -1 |-> Vacant]
  OBVIOUS
<1>2. NewSet = [entries |-> entries, capacityMask |-> -1, count |-> 0]
  BY <1>1 DEF NewSet
<1>3. PICK s : s = NewSet
  OBVIOUS
<1>4. s = [entries |-> entries, capacityMask |-> -1, count |-> 0]
      /\ s.entries = entries /\ s.capacityMask = -1 /\ s.count = 0
  BY <1>2, <1>3
<1>5. IsSound(entries, -1) /\ ElementsOf(entries) = {}
  <2>1. PICK mask \in Int : mask = -1 /\ mask + 1 \in Nat
    BY SMT
  <2> QED BY <1>1, <2>1, VacantFacts
<1>6. SetCapacity(s) = 0
  BY <1>4 DEF SetCapacity
<1>7. Cardinality({}) = 0
  BY FS_EmptySet
<1>8. SetInOrder(s)
  BY <1>4, <1>5, <1>6, <1>7 DEF SetInOrder, Capacities
<1>9. IsFresh(s) /\ s.count <= 0
  <2>1. \A i : i \notin 0 .. -1
    OBVIOUS
  <2> QED BY <1>4, <1>5, <1>7, <2>1 DEF IsFresh
<1> QED BY <1>3, <1>8, <1>9 DEF IsBuilt

\* setInsert into a set of few values.
LEMMA InsertedFacts ==
  ASSUME NEW n \in Nat, n <= 2 ^ 14, NEW s, IsBuilt(s, n), NEW v \in Members
  PROVE  IsBuilt(Inserted(s, v), n + 1)
<1>1. PICK g : g = GrownSet(s)
  OBVIOUS
<1>2. SetInOrder(s) /\ IsFresh(s) /\ s.count \in Nat /\ s.count <= n
      /\ SetCapacity(s) \in {0} \cup {2 ^ k : k \in 3 .. 30}
  BY DEF IsBuilt, SetInOrder, Capacities
<1>3. SetIsFull(s) => GrowCapacity(SetCapacity(s)) <= 2 ^ 30
  <2> SUFFICES ASSUME SetIsFull(s) PROVE GrowCapacity(SetCapacity(s)) <= 2 ^ 30
    OBVIOUS
  <2>1. PICK cap : cap = SetCapacity(s)
    OBVIOUS
  <2>2. cap \in Nat
    BY <1>2, <2>1, SizeGrows
  <2>3. 4 * (s.count + 1) > 3 * cap
    BY <2>1 DEF SetIsFull
  <2>4. 2 ^ 14 = 16384 /\ 2 ^ 30 = 1073741824
    BY SMT
  <2>5. 2 * cap < 1073741824
    BY <1>2, <2>2, <2>3, <2>4
  <2> QED BY <2>1, <2>2, <2>4, <2>5 DEF GrowCapacity
<1>4. /\ SetInOrder(g) /\ ElementsOf(g.entries) = ElementsOf(s.entries)
      /\ g.capacityMask \in Nat /\ IsFresh(g)
      /\ \E i \in 0 .. g.capacityMask : g.entries[i] = Vacant
  BY <1>1, <1>2, <1>3, GrownSetFacts
<1>5. g.count = s.count
  BY <1>2, <1>4 DEF IsFresh
<1>6. PICK i : i = FindSetEntry(g.entries, g.capacityMask, v)
  OBVIOUS
<1>7. IsSlotFor(g, v, i)
  <2>1. IsSlots(g.entries, g.capacityMask)
    BY <1>4, OrderFacts
  <2> QED BY <1>4, <1>6, <2>1, FindMemberFacts DEF IsSlotFor
<1>8. PICK a : a = InsertAt(g, i, v)
  OBVIOUS
<1>9. SetInOrder(a) /\ a.count <= g.count + 1 /\ IsFresh(a)
  BY <1>4, <1>7, <1>8, InsertAtFacts
<1>10. a.count \in Nat
  BY <1>9 DEF SetInOrder
<1>11. Inserted(s, v) = a
  BY <1>1, <1>6, <1>8 DEF Inserted
<1> QED BY <1>2, <1>5, <1>9, <1>10, <1>11 DEF IsBuilt

\* set() builds a set in order.
LEMMA SetNativeFacts ==
  ASSUME NEW args \in SetLiterals
  PROVE  SetInOrder(SetNative(args))
<1> DEFINE size == Len(args)
           may == [n \in 0 .. size |-> {s \in ValueSets : IsBuilt(s, n)}]
           turn == [n \in 1 .. size |-> [s \in ValueSets |-> Inserted(s, args[n])]]
           start == NewSet
           Stages(f) == f = [n \in 0 .. size |->
                               IF n = 0 THEN start ELSE Inserted(f[n - 1], args[n])]
<1>1. size \in Nat /\ size <= 2 ^ 14 /\ \A n \in 1 .. size : args[n] \in Members
  <2>1. args \in Seq(Members)
    BY ValueSetAssumption
  <2> QED BY <2>1, ValueSetAssumption
<1>2. start \in may[0]
  <2>1. NewSet \in ValueSets /\ IsBuilt(NewSet, 0)
    BY NewSetFacts, OrderInSets DEF IsBuilt
  <2> HIDE DEF size
  <2> QED BY <1>1, <2>1
<1>3. \A n \in 1 .. size : \A s :
        IsBuilt(s, n - 1) => IsBuilt(Inserted(s, args[n]), n)
  <2> SUFFICES ASSUME NEW n \in 1 .. size, NEW s, IsBuilt(s, n - 1)
               PROVE  IsBuilt(Inserted(s, args[n]), n)
    OBVIOUS
  <2>1. PICK m \in Nat : m = n - 1 /\ n = m + 1 /\ m <= 2 ^ 14
    <3>1. 2 ^ 14 = 16384
      BY SMT
    <3> QED BY <1>1, <3>1
  <2>2. args[n] \in Members
    BY <1>1
  <2> HIDE DEF size
  <2> QED BY <2>1, <2>2, InsertedFacts
<1>4. \A n \in 1 .. size : \A s \in may[n - 1] :
        turn[n][s] \in may[n] /\ turn[n][s] = Inserted(s, args[n])
  <2> SUFFICES ASSUME NEW n \in 1 .. size, NEW s \in may[n - 1]
               PROVE  turn[n][s] \in may[n] /\ turn[n][s] = Inserted(s, args[n])
    OBVIOUS
  <2>1. n - 1 \in 0 .. size /\ n \in 0 .. size
    BY <1>1
  <2>2. s \in ValueSets /\ IsBuilt(s, n - 1)
    BY <2>1
  <2>3. turn[n][s] = Inserted(s, args[n])
    BY <2>2
  <2>4. IsBuilt(Inserted(s, args[n]), n)
    BY <1>3, <2>2
  <2>5. Inserted(s, args[n]) \in ValueSets
    BY <2>4, OrderInSets DEF IsBuilt
  <2> QED BY <2>1, <2>3, <2>4, <2>5
<1>5. PICK f : IsRun(f, size, start, turn, may)
  <2> HIDE DEF may, turn, start, size
  <2> QED BY <1>1, <1>2, <1>4, Loop
<1>6. Stages(f)
  <2>1. \A n \in 1 .. size : turn[n][f[n - 1]] = Inserted(f[n - 1], args[n])
    <3> SUFFICES ASSUME NEW n \in 1 .. size
                 PROVE  turn[n][f[n - 1]] = Inserted(f[n - 1], args[n])
      OBVIOUS
    <3>1. n - 1 \in 0 .. size
      BY <1>1
    <3>2. f[n - 1] \in may[n - 1]
      BY <1>5, <3>1 DEF IsRun
    <3> HIDE DEF may, turn
    <3> QED BY <1>4, <3>2
  <2>2. \A n \in 0 .. size : f[n] = IF n = 0 THEN start ELSE turn[n][f[n - 1]]
    <3> HIDE DEF may, turn, start
    <3> QED BY <1>5 DEF IsRun
  <2>3. \A n \in 0 .. size : f[n] = IF n = 0 THEN start ELSE Inserted(f[n - 1], args[n])
    <3> HIDE DEF may, turn, start
    <3>1. \A n \in 0 .. size : n = 0 \/ n \in 1 .. size
      BY <1>1
    <3> QED BY <2>1, <2>2, <3>1
  <2>4. f = [n \in 0 .. size |-> f[n]]
    <3> HIDE DEF may, turn, start
    <3> QED BY <1>5 DEF IsRun
  <2>5. f = [n \in 0 .. size |-> IF n = 0 THEN start ELSE Inserted(f[n - 1], args[n])]
    <3> HIDE DEF start, size
    <3> QED BY <2>3, <2>4, Zenon
  <2> QED BY <2>5
<1> DEFINE g == CHOOSE h : Stages(h)
<1>7. Stages(g)
  BY <1>6
<1>8. SetNative(args) = g[size]
  BY DEF SetNative
<1> HIDE DEF g
<1>9. \A n \in 0 .. size : g[n] \in may[n]
  <2>1. \A n \in 0 .. size : g[n] = IF n = 0 THEN start ELSE Inserted(g[n - 1], args[n])
    <3> HIDE DEF may, turn, start
    <3> QED BY <1>7
  <2>2. g[0] = start
    BY <1>1, <2>1
  <2>3. \A n \in 1 .. size : g[n] = Inserted(g[n - 1], args[n])
    BY <1>1, <2>1
  <2>4. \A n \in 1 .. size : g[n - 1] \in may[n - 1] => g[n] \in may[n]
    <3> HIDE DEF may, turn
    <3> QED BY <1>4, <2>3
  <2> HIDE DEF may, turn, start, size
  <2> QED BY <1>1, <1>2, <2>2, <2>4, LoopStays
<1>10. IsBuilt(g[size], size)
  <2>1. size \in 0 .. size
    BY <1>1
  <2>2. g[size] \in may[size]
    <3> HIDE DEF may
    <3> QED BY <1>9, <2>1
  <2>3. may[size] = {s \in ValueSets : IsBuilt(s, size)}
    <3> HIDE DEF size
    <3> QED BY <2>1
  <2> HIDE DEF may
  <2> QED BY <2>2, <2>3
<1> QED BY <1>8, <1>10 DEF IsBuilt

(* The methods of sets. *)

\* What is true of a set between two steps, and of the probe that is under way:
\* no slot before the one it looks at held its value or was empty.
SetInv ==
  /\ SetInOrder(set)
  /\ op \in {"none", "add", "remove", "contains"}
  /\ answer \in BOOLEAN
  /\ op = "none" => arg = Vacant /\ index = 0
  /\ op # "none" => /\ arg \in Members /\ set.capacityMask \in Nat
                    /\ index \in 0 .. set.capacityMask
                    /\ Reaches(set.entries, set.capacityMask, arg, index)
  /\ op = "remove" => set.count > 0

\* What Membership says of a step.
IsMember(was, is) ==
  /\ op = "none" \/ op' # "none" => is = was
  /\ op = "none" /\ op' = "none" => was = {}
  /\ op = "add" /\ op' = "none" => is = was \cup {arg} /\ (answer' <=> arg \notin was)
  /\ op = "remove" /\ op' = "none" => is = was \ {arg} /\ (arg \in was => answer')
  /\ op = "contains" /\ op' = "none" => is = was /\ (answer' <=> arg \in was)

\* What a step does.
SetStep == SetInv' /\ IsMember(ElementsOf(set.entries), ElementsOf(set.entries)')

\* The elements of a set are the values in its slots.
LEMMA ElementsAre ==
  ASSUME NEW s
  PROVE  Elements(s) = ElementsOf(s.entries)
BY DEF Elements, ElementsOf, Present

\* Every invariant state has the types of the variables.
LEMMA SetInvIsTyped ==
  ASSUME SetInv
  PROVE  SetTypeOK
<1>1. /\ SetCapacity(set) \in {0} \cup {2 ^ n : n \in 3 .. 30}
      /\ set.entries \in [0 .. set.capacityMask -> SetItem \cup {Vacant}]
      /\ set.count \in Nat
  BY OrderFacts DEF SetInv, SetInOrder, Capacities, IsSlots
<1>2. arg \in Members \cup {Vacant}
  BY DEF SetInv
<1>3. index \in 0 .. (IF SetCapacity(set) = 0 THEN 0 ELSE set.capacityMask)
  <2>1. SetCapacity(set) # 0 => set.capacityMask \in Nat
    BY OrderFacts DEF SetInv
  <2>2. set.capacityMask \in Nat => SetCapacity(set) # 0
    BY DEF SetCapacity
  <2>3. CASE op = "none"
    BY <2>1, <2>3 DEF SetInv
  <2>4. CASE op # "none"
    BY <2>2, <2>4 DEF SetInv
  <2> QED BY <2>3, <2>4
<1> QED BY <1>1, <1>2, <1>3 DEF SetInv, SetTypeOK

\* A probe starts at the home of its value.
LEMMA BeginFacts ==
  ASSUME SetInv, op = "none", NEW name \in {"add", "remove", "contains"}, NEW v \in Members,
         NEW s, SetInOrder(s), s.capacityMask \in Nat, name = "remove" => s.count > 0,
         ElementsOf(s.entries) = ElementsOf(set.entries), BeginProbe(name, s, v)
  PROVE  SetStep
<1>1. /\ set' = s /\ op' = name /\ arg' = v /\ answer' = answer
      /\ index' = MemberHome(v, s.capacityMask)
  BY DEF BeginProbe
<1>2. index' \in 0 .. s.capacityMask /\ Reaches(s.entries, s.capacityMask, v, index')
  <2>1. PICK mask \in Nat : mask = s.capacityMask
    OBVIOUS
  <2>2. SlotOf(v, 0, mask) = MemberHome(v, mask) /\ SlotOf(v, 0, mask) \in 0 .. mask
    BY SlotFacts
  <2>3. \A c : c \notin 0 .. 0 - 1
    OBVIOUS
  <2>4. Reaches(s.entries, mask, v, SlotOf(v, 0, mask))
    BY <2>3 DEF Reaches
  <2> QED BY <1>1, <2>1, <2>2, <2>4
<1>3. answer' \in BOOLEAN
  BY <1>1 DEF SetInv
<1>4. SetInv'
  <2>1. SetInOrder(set)'
    BY <1>1
  <2> QED BY <1>1, <1>2, <1>3, <2>1 DEF SetInv
<1>5. ElementsOf(set.entries)' = ElementsOf(set.entries)
  BY <1>1
<1> QED BY <1>1, <1>4, <1>5 DEF SetStep, IsMember

\* add() makes room and starts to probe.
LEMMA AddStep ==
  ASSUME SetInv, NEW v \in Members, AddSetItem(v)
  PROVE  SetStep
<1>1. op = "none" /\ BeginProbe("add", GrownSet(set), v) /\ SetInOrder(set)
  BY DEF AddSetItem, SetInv
<1>2. SetIsFull(set) => GrowCapacity(SetCapacity(set)) <= 2 ^ 30
  <2> SUFFICES ASSUME SetIsFull(set) PROVE GrowCapacity(SetCapacity(set)) <= 2 ^ 30
    OBVIOUS
  <2>1. PICK new : new = GrowCapacity(SetCapacity(set))
    OBVIOUS
  <2>2. new <= MaxSetCapacity
    BY <2>1 DEF AddSetItem
  <2>3. MaxSetCapacity \in Nat /\ MaxSetCapacity <= 2 ^ 30
    BY ValueSetAssumption
  <2>4. new \in Nat
    <3>1. SetCapacity(set) \in {0} \cup {2 ^ k : k \in 3 .. 30}
      BY <1>1 DEF SetInOrder, Capacities
    <3>2. GrowCapacity(SetCapacity(set)) \in Nat \ {0}
      BY <3>1, SizeGrows
    <3> QED BY <2>1, <3>2
  <2>5. 2 ^ 30 = 1073741824
    BY SMT
  <2> QED BY <2>1, <2>2, <2>3, <2>4, <2>5
<1>3. PICK g : g = GrownSet(set)
  OBVIOUS
<1>4. SetInOrder(g) /\ ElementsOf(g.entries) = ElementsOf(set.entries) /\ g.capacityMask \in Nat
  BY <1>1, <1>2, <1>3, GrownSetFacts
<1>5. BeginProbe("add", g, v)
  BY <1>1, <1>3
<1> QED BY <1>1, <1>4, <1>5, BeginFacts

\* remove() and contains() start to probe, unless count says that there is nothing.
LEMMA AskStep ==
  ASSUME SetInv, NEW name \in {"remove", "contains"}, NEW v \in Members, Ask(name, v)
  PROVE  SetStep
<1>1. op = "none" /\ SetInOrder(set)
  BY DEF Ask, SetInv
<1>2. CASE set.count = 0
  <2>1. answer' = FALSE /\ UNCHANGED <<set, op, arg, index>>
    BY <1>2 DEF Ask
  <2>2. ElementsOf(set.entries) = {} /\ ElementsOf(set.entries)' = ElementsOf(set.entries)
    BY <1>1, <1>2, <2>1 DEF SetInOrder
  <2>3. SetInOrder(set)'
    BY <1>1, <2>1
  <2>4. answer' \in BOOLEAN
    BY <2>1
  <2>5. SetInv'
    BY <1>1, <2>1, <2>3, <2>4 DEF SetInv
  <2> QED BY <1>1, <2>1, <2>2, <2>5 DEF SetStep, IsMember
<1>3. CASE set.count # 0
  <2>1. BeginProbe(name, set, v)
    BY <1>3 DEF Ask
  <2>2. set.count \in Nat /\ set.count > 0
    BY <1>1, <1>3 DEF SetInOrder
  <2>3. SetCapacity(set) # 0
    <3>1. PICK m : m = Cardinality(ElementsOf(set.entries))
      OBVIOUS
    <3>2. set.count <= m /\ m \in Nat /\ m <= SetCapacity(set) /\ SetCapacity(set) \in Nat
      BY <1>1, <3>1, OrderFacts
    <3> QED BY <2>2, <3>2
  <2>4. set.capacityMask \in Nat
    BY <1>1, <2>3, OrderFacts
  <2> QED BY <1>1, <2>1, <2>2, <2>4, BeginFacts
<1> QED BY <1>2, <1>3

\* One slot further.
LEMMA ProbeStep ==
  ASSUME SetInv, ProbeNext
  PROVE  SetStep
<1>1. /\ op # "none" /\ ~ StopsAtMember(set.entries[index], arg)
      /\ index' = (index + 1) % SetCapacity(set)
      /\ set' = set /\ op' = op /\ arg' = arg /\ answer' = answer
  BY DEF ProbeNext
<1>2. PICK mask \in Nat : mask = set.capacityMask /\ SetCapacity(set) = mask + 1
  BY <1>1 DEF SetInv, SetCapacity
<1>3. PICK entries : entries = set.entries
  OBVIOUS
<1>4. PICK v \in Members : v = arg
  BY <1>1 DEF SetInv
<1>5. PICK d \in Nat : /\ index = SlotOf(v, d, mask)
                       /\ \A c \in 0 .. d - 1 : ~ StopsAtMember(entries[SlotOf(v, c, mask)], v)
  BY <1>1, <1>2, <1>3, <1>4 DEF SetInv, Reaches
<1>6. index' = SlotOf(v, d + 1, mask) /\ index' \in 0 .. mask
  <2>1. PICK e \in Nat : e = d + 1
    OBVIOUS
  <2>2. SlotOf(v, d + 1, mask) = (SlotOf(v, d, mask) + 1) % (mask + 1)
    BY SlotFacts
  <2>3. SlotOf(v, e, mask) \in 0 .. mask
    BY SlotFacts
  <2> QED BY <1>1, <1>2, <1>5, <2>1, <2>2, <2>3
<1>7. Reaches(entries, mask, v, index')
  <2>1. PICK e \in Nat : e = d + 1
    OBVIOUS
  <2>2. ASSUME NEW c \in 0 .. e - 1 PROVE ~ StopsAtMember(entries[SlotOf(v, c, mask)], v)
    <3>1. c \in 0 .. d - 1 \/ c = d
      BY <2>1
    <3> QED BY <1>1, <1>3, <1>4, <1>5, <3>1
  <2>3. index' = SlotOf(v, e, mask)
    BY <1>6, <2>1
  <2> QED BY <2>2, <2>3 DEF Reaches
<1>8. SetInv'
  <2>1. SetInOrder(set)' /\ answer' \in BOOLEAN
    BY <1>1 DEF SetInv
  <2>2. index' \in 0 .. set.capacityMask' /\ Reaches(set.entries, set.capacityMask, arg, index)'
    BY <1>1, <1>2, <1>3, <1>4, <1>6, <1>7
  <2> QED BY <1>1, <2>1, <2>2 DEF SetInv
<1>9. ElementsOf(set.entries)' = ElementsOf(set.entries)
  BY <1>1
<1> QED BY <1>1, <1>8, <1>9 DEF SetStep, IsMember

\* What a method does when its probe ends.
LEMMA FinishStep ==
  ASSUME SetInv, FinishProbe
  PROVE  SetStep
<1>1. /\ op # "none" /\ op' = "none" /\ arg' = Vacant /\ index' = 0
      /\ SetInOrder(set) /\ IsSlotFor(set, arg, index) /\ arg \in Members
      /\ op \in {"add", "remove", "contains"}
  BY DEF FinishProbe, SetInv, IsSlotFor
<1>2. PICK was : was = ElementsOf(set.entries)
  OBVIOUS
<1>3. PICK i : i = index
  OBVIOUS
<1>4. PICK v \in Members : v = arg
  BY <1>1
<1>5. IsSlotFor(set, v, i)
  BY <1>1, <1>3, <1>4
<1>6. IsPresent(set.entries[i]) <=> v \in was
  <2>1. IsSlots(set.entries, set.capacityMask) /\ AreReached(set.entries, set.capacityMask)
    BY <1>1, OrderFacts
  <2> QED BY <1>2, <1>5, <2>1, ElementAt DEF IsSlotFor
<1>7. CASE op = "contains"
  <2>1. answer' = IsPresent(set.entries[i]) /\ set' = set
    BY <1>3, <1>7 DEF FinishProbe
  <2>2. answer' \in BOOLEAN /\ (answer' <=> v \in was)
    BY <1>6, <2>1, Zenon DEF IsPresent
  <2>3. SetInOrder(set)' /\ ElementsOf(set.entries)' = was
    BY <1>1, <1>2, <2>1
  <2>4. SetInv'
    BY <1>1, <2>2, <2>3 DEF SetInv
  <2> QED BY <1>1, <1>2, <1>4, <1>7, <2>2, <2>3, <2>4 DEF SetStep, IsMember
<1>8. CASE op = "add"
  <2>1. answer' = ~ IsPresent(set.entries[i]) /\ set' = InsertAt(set, i, v)
    BY <1>3, <1>4, <1>8 DEF FinishProbe
  <2>2. answer' \in BOOLEAN /\ (answer' <=> v \notin was)
    BY <1>6, <2>1, Zenon DEF IsPresent
  <2>3. PICK a : a = InsertAt(set, i, v)
    OBVIOUS
  <2>4. SetInOrder(a) /\ ElementsOf(a.entries) = was \cup {v}
    BY <1>1, <1>2, <1>5, <2>3, InsertAtFacts
  <2>5. SetInOrder(set)' /\ ElementsOf(set.entries)' = was \cup {v}
    BY <2>1, <2>3, <2>4
  <2>6. SetInv'
    BY <1>1, <2>2, <2>5 DEF SetInv
  <2> QED BY <1>1, <1>2, <1>4, <1>8, <2>2, <2>5, <2>6 DEF SetStep, IsMember
<1>9. CASE op = "remove"
  <2>1. /\ set.entries[i] # Vacant => ShrinkEnds(set, i)
        /\ answer' = (set.entries[i] # Vacant)
        /\ set' = IF set.entries[i] = Vacant THEN set ELSE DeleteAt(set, i)
    BY <1>3, <1>9 DEF FinishProbe
  <2>2. answer' \in BOOLEAN /\ (v \in was => answer')
    BY <1>6, <2>1, Zenon DEF IsPresent
  <2>3. SetInOrder(set)' /\ ElementsOf(set.entries)' = was \ {v}
    <3>1. CASE set.entries[i] = Vacant
      <4>1. set' = set
        BY <2>1, <3>1
      <4>2. v \notin was
        BY <1>6, <3>1 DEF IsPresent
      <4> QED BY <1>1, <1>2, <4>1, <4>2
    <3>2. CASE set.entries[i] # Vacant
      <4>1. PICK a : a = DeleteAt(set, i)
        OBVIOUS
      <4>2. set.count > 0
        BY <1>9 DEF SetInv
      <4>3. ShrinkEnds(set, i)
        BY <2>1, <3>2
      <4>4. SetInOrder(a) /\ ElementsOf(a.entries) = ElementsOf(set.entries) \ {v}
        BY <1>1, <1>5, <3>2, <4>1, <4>2, <4>3, DeleteAtFacts
      <4> QED BY <1>2, <2>1, <3>2, <4>1, <4>4
    <3> QED BY <3>1, <3>2
  <2>4. SetInv'
    BY <1>1, <2>2, <2>3 DEF SetInv
  <2> QED BY <1>1, <1>2, <1>4, <1>9, <2>2, <2>3, <2>4 DEF SetStep, IsMember
<1> QED BY <1>1, <1>7, <1>8, <1>9

\* The sets that set() builds are in order.
LEMMA SetInitHolds ==
  ASSUME SetInit
  PROVE  SetInv
<1>1. SetInOrder(set) /\ op = "none" /\ arg = Vacant /\ index = 0 /\ answer \in BOOLEAN
  BY SetNativeFacts DEF SetInit
<1> QED BY <1>1 DEF SetInv

\* Every step keeps the invariant, and Membership holds of it.
LEMMA SetInductive ==
  ASSUME SetInv, [SetNext]_setVars
  PROVE  SetInv'
<1>1. CASE SetNext
  BY <1>1, AddStep, AskStep, ProbeStep, FinishStep
     DEF SetNext, RemoveSetItem, ContainsSetItem, SetStep
<1>2. CASE UNCHANGED setVars
  <2>1. set' = set /\ op' = op /\ arg' = arg /\ index' = index /\ answer' = answer
    BY <1>2 DEF setVars
  <2> QED BY <2>1 DEF SetInv
<1> QED BY <1>1, <1>2

\* Whatever the methods of a set do, the probe under way has passed no slot that it
\* should have stopped at, and count is no more than the number of elements.
THEOREM SetInvariance == SetSpec => []SetInv
<1>1. SetInit => SetInv
  BY SetInitHolds
<1>2. SetInv /\ [SetNext]_setVars => SetInv'
  BY SetInductive
<1> QED BY <1>1, <1>2, PTL DEF SetSpec

\* Every field of a set has its type, and its count never becomes negative
\* (sets.c, and setInsert and setDelete of value.c).
THEOREM SetTypeCorrect == SetSpec => []SetTypeOK
<1>1. SetInv => SetTypeOK
  BY SetInvIsTyped
<1> QED BY <1>1, SetInvariance, PTL

\* A set keeps its elements: every call adds or removes its argument and nothing
\* else, and answers what it should, whatever deleted values linger.
THEOREM SetMembership == SetSpec => Membership
<1>1. SetInv /\ [SetNext]_setVars =>
        [IsMember(Elements(set), Elements(set'))]_setVars
  <2> SUFFICES ASSUME SetInv, SetNext
               PROVE  IsMember(Elements(set), Elements(set'))
    BY DEF setVars
  <2>1. SetStep
    BY AddStep, AskStep, ProbeStep, FinishStep
       DEF SetNext, RemoveSetItem, ContainsSetItem
  <2>2. ElementsOf(set.entries)' = ElementsOf(set'.entries)
    OBVIOUS
  <2> QED BY <2>1, <2>2, ElementsAre DEF SetStep
<1>2. SetInv /\ [SetNext]_setVars =>
        [ LET was == Elements(set)
              is  == Elements(set')
          IN /\ op = "none" \/ op' # "none" => is = was
             /\ op = "none" /\ op' = "none" => was = {}
             /\ op = "add" /\ op' = "none" => is = was \cup {arg} /\ (answer' <=> arg \notin was)
             /\ op = "remove" /\ op' = "none" => is = was \ {arg} /\ (arg \in was => answer')
             /\ op = "contains" /\ op' = "none" => is = was /\ (answer' <=> arg \in was) ]_setVars
  BY <1>1 DEF IsMember
<1> QED BY <1>2, SetInvariance, PTL DEF SetSpec, Membership

----------------------------------------------------------------------------
(***************************************************************************)
(* Queues.                                                                 *)
(***************************************************************************)

Holdable == Elem \cup {Unset, Freed}

\* A struct Queue whose fields name slots of its array.
IsQueue(q) ==
  /\ DOMAIN q = {"dq", "capacity", "front", "rear", "count"}
  /\ q.capacity \in Nat /\ q.count \in 0 .. q.capacity
  /\ q.dq \in [0 .. q.capacity - 1 -> Holdable]
  /\ q.front \in 0 .. q.capacity - 1 \cup {0}
  /\ q.rear \in -1 .. q.capacity - 1

\* The rear is the slot before the one that front + count would be, going round.
\* It is -1 in a new queue only, and there the front and count are 0.
Ring(capacity, front, count, rear) ==
  /\ \/ rear + 1 = front + count
     \/ rear + 1 = front + count - capacity
     \/ rear + 1 = capacity /\ front = 0 /\ count = 0
  /\ rear = -1 => front = 0 /\ count = 0

IsRing(q) == Ring(q.capacity, q.front, q.count, q.rear)

Bends == {"grown while wrapped", "collected while wrapped", "marked freed memory"}

QueueInv == /\ IsQueue(queue)
            /\ pushed \in Elem /\ taken \in Holdable /\ bent \subseteq Bends
            /\ "grown while wrapped" \notin bent => IsRing(queue)

----------------------------------------------------------------------------
(* Going round. *)

\* Going round once at most.
LEMMA Round ==
  ASSUME NEW n \in Nat \ {0}, NEW i \in 0 .. 2 * n - 1
  PROVE  i % n = IF i < n THEN i ELSE i - n
  BY SMT

\* A value more after the rear, and one less at the front, keep a ring a ring.
LEMMA RingSteps ==
  ASSUME NEW c \in Nat \ {0}, NEW f \in 0 .. c - 1, NEW n \in 0 .. c, NEW r \in -1 .. c - 1,
         Ring(c, f, n, r)
  PROVE  /\ n < c /\ r # c - 1 => Ring(c, f, n + 1, r + 1)
         /\ n < c /\ r = c - 1 => Ring(c, f, n + 1, 0)
         /\ n < c => (IF r = c - 1 THEN 0 ELSE r + 1) = IF f + n < c THEN f + n ELSE f + n - c
         /\ n > 0 /\ f # c - 1 => Ring(c, f + 1, n - 1, r)
         /\ n > 0 /\ f = c - 1 => Ring(c, 0, n - 1, r)
<1>1. CASE r = c - 1
  BY <1>1 DEF Ring
<1>2. CASE r # c - 1
  BY <1>2 DEF Ring
<1> QED BY <1>1, <1>2

\* The slots that hold values, without remainders.
LEMMA StoredFacts ==
  ASSUME NEW q, IsQueue(q), q.count > 0
  PROVE  /\ \A i \in 0 .. q.count - 1 :
              (q.front + i) % q.capacity = IF q.front + i < q.capacity THEN q.front + i
                                           ELSE q.front + i - q.capacity
         /\ \A i \in 0 .. q.count - 1 : (q.front + i) % q.capacity \in 0 .. q.capacity - 1
<1>1. /\ q.capacity \in Nat \ {0} /\ q.front \in 0 .. q.capacity - 1 /\ q.count \in 0 .. q.capacity
  BY DEF IsQueue
<1>2. ASSUME NEW i \in 0 .. q.count - 1
      PROVE  /\ (q.front + i) % q.capacity = IF q.front + i < q.capacity THEN q.front + i
                                             ELSE q.front + i - q.capacity
             /\ (q.front + i) % q.capacity \in 0 .. q.capacity - 1
  <2>1. q.front + i \in 0 .. 2 * q.capacity - 1
    BY <1>1
  <2>2. (q.front + i) % q.capacity = IF q.front + i < q.capacity THEN q.front + i
                                     ELSE q.front + i - q.capacity
    <3>1. PICK n \in Nat \ {0} : n = q.capacity
      BY <1>1
    <3>2. PICK m \in 0 .. 2 * n - 1 : m = q.front + i
      BY <2>1, <3>1
    <3>3. m % n = IF m < n THEN m ELSE m - n
      BY Round
    <3> QED BY <1>1, <3>1, <3>2, <3>3
  <2> QED BY <1>1, <2>1, <2>2
<1> QED BY <1>2

\* In a ring that is not full and wrapped the collector is shown every value,
LEMMA RingIsGrayed ==
  ASSUME NEW q, IsQueue(q), IsRing(q)
  PROVE  Stored(q) \subseteq Grayed(q) <=> ~ IsWrapped(q)
<1>1. /\ q.capacity \in Nat /\ q.count \in 0 .. q.capacity /\ q.rear \in -1 .. q.capacity - 1
      /\ q.front \in 0 .. q.capacity - 1 \cup {0}
  BY DEF IsQueue
<1>2. CASE q.count = 0
  BY <1>1, <1>2 DEF Stored, IsWrapped
<1>3. CASE q.count > 0
  <2>1. q.front \in 0 .. q.capacity - 1
    BY <1>1, <1>3
  <2>2. CASE IsWrapped(q)
    <3>1. q.capacity - q.front \in 0 .. q.count - 1
      BY <1>1, <2>1, <2>2 DEF IsWrapped
    <3>2. (q.front + (q.capacity - q.front)) % q.capacity = 0
      BY <1>1, <1>3, <2>1, <3>1, StoredFacts
    <3>3. 0 \in Stored(q)
      BY <3>1, <3>2 DEF Stored
    <3>4. 0 \notin Grayed(q)
      BY <1>1, <2>1, <2>2 DEF Grayed, IsWrapped
    <3> QED BY <2>2, <3>3, <3>4
  <2>3. CASE ~ IsWrapped(q)
    <3> SUFFICES ASSUME NEW i \in 0 .. q.count - 1
                 PROVE  (q.front + i) % q.capacity \in Grayed(q)
      BY <2>3 DEF Stored
    <3>0. PICK at : at = (q.front + i) % q.capacity
      OBVIOUS
    <3>1. /\ at = IF q.front + i < q.capacity THEN q.front + i ELSE q.front + i - q.capacity
          /\ at \in 0 .. q.capacity - 1
      BY <1>3, <3>0, StoredFacts
    <3>2. CASE q.count = q.capacity
      BY <1>1, <2>1, <2>3, <3>0, <3>1, <3>2 DEF Grayed, IsWrapped
    <3>3. CASE q.count # q.capacity /\ q.rear + 1 < q.front
      BY <1>1, <2>1, <3>0, <3>1, <3>3 DEF Grayed, IsRing, Ring
    <3>4. CASE q.count # q.capacity /\ ~ (q.rear + 1 < q.front)
      BY <1>1, <1>3, <2>1, <3>0, <3>1, <3>4 DEF Grayed, IsRing, Ring
    <3> QED BY <3>2, <3>3, <3>4
  <2> QED BY <2>2, <2>3
<1> QED BY <1>1, <1>2, <1>3

\* and unless an empty queue has gone round its array nothing else.
LEMMA GrayedIsStored ==
  ASSUME NEW q, IsQueue(q), IsRing(q), ~ (q.count = 0 /\ q.front = 0 /\ q.rear = q.capacity - 1)
  PROVE  Grayed(q) \subseteq Stored(q)
<1>1. /\ q.capacity \in Nat /\ q.count \in 0 .. q.capacity /\ q.rear \in -1 .. q.capacity - 1
      /\ q.front \in 0 .. q.capacity - 1 \cup {0}
  BY DEF IsQueue
<1> SUFFICES ASSUME NEW at \in Grayed(q)
             PROVE  at \in Stored(q)
  OBVIOUS
<1>2. at \in 0 .. q.capacity - 1 /\ q.count > 0
  BY <1>1 DEF Grayed, IsRing, Ring
<1> DEFINE i == IF at < q.front THEN at + q.capacity - q.front ELSE at - q.front
<1>3. i \in 0 .. q.count - 1
  BY <1>1, <1>2 DEF Grayed, IsRing, Ring
<1>4. (q.front + i) % q.capacity = at
  <2>1. (q.front + i) % q.capacity = IF q.front + i < q.capacity THEN q.front + i
                                     ELSE q.front + i - q.capacity
    BY <1>2, <1>3, StoredFacts
  <2> QED BY <1>1, <1>2, <2>1
<1> HIDE DEF i
<1> QED BY <1>3, <1>4 DEF Stored

----------------------------------------------------------------------------
(* The values in the order in which they come out. *)

\* The slot of the i-th value from the front.
SlotIn(q, i) == IF q.front + i - 1 < q.capacity THEN q.front + i - 1
                ELSE q.front + i - 1 - q.capacity

\* Unwrapped is a sequence of count values.
LEMMA UnwrappedFacts ==
  ASSUME NEW q, IsQueue(q)
  PROVE  /\ Unwrapped(q) \in Seq(Holdable) /\ Len(Unwrapped(q)) = q.count
         /\ \A i \in 1 .. q.count : /\ SlotIn(q, i) \in 0 .. q.capacity - 1
                                    /\ Unwrapped(q)[i] = q.dq[SlotIn(q, i)]
<1>1. /\ q.capacity \in Nat /\ q.count \in 0 .. q.capacity /\ q.front \in 0 .. q.capacity - 1 \cup {0}
      /\ q.dq \in [0 .. q.capacity - 1 -> Holdable]
  BY DEF IsQueue
<1>2. ASSUME NEW i \in 1 .. q.count
      PROVE  /\ SlotIn(q, i) \in 0 .. q.capacity - 1
             /\ Unwrapped(q)[i] = q.dq[SlotIn(q, i)] /\ Unwrapped(q)[i] \in Holdable
  <2>1. PICK j \in 0 .. q.count - 1 : j = i - 1
    BY <1>1
  <2>2. (q.front + j) % q.capacity = IF q.front + j < q.capacity THEN q.front + j
                                     ELSE q.front + j - q.capacity
    BY <1>1, StoredFacts
  <2>3. (q.front + j) % q.capacity \in 0 .. q.capacity - 1
    BY <1>1, StoredFacts, SMTT(20)
  <2>4. q.front + i - 1 = q.front + j
    BY <1>1, <2>1
  <2>5. (q.front + j) % q.capacity = SlotIn(q, i)
    BY <1>1, <2>1, <2>2, <2>4 DEF SlotIn
  <2>6. Unwrapped(q)[i] = q.dq[(q.front + j) % q.capacity]
    BY <2>4 DEF Unwrapped
  <2> QED BY <1>1, <2>3, <2>5, <2>6
<1>3. Unwrapped(q) \in [1 .. q.count -> Holdable]
  BY <1>2 DEF Unwrapped
<1>4. Unwrapped(q) \in Seq(Holdable) /\ Len(Unwrapped(q)) = q.count
  BY <1>1, <1>3
<1> QED BY <1>2, <1>4

\* The slots of the values are the ones that hold them.
LEMMA StoredSlots ==
  ASSUME NEW q, IsQueue(q), NEW i \in 1 .. q.count
  PROVE  SlotIn(q, i) \in Stored(q)
<1>1. q.capacity \in Nat /\ q.count \in 0 .. q.capacity /\ q.front \in 0 .. q.capacity - 1 \cup {0}
  BY DEF IsQueue
<1>2. PICK j \in 0 .. q.count - 1 : j = i - 1
  BY <1>1
<1>3. (q.front + j) % q.capacity = IF q.front + j < q.capacity THEN q.front + j
                                   ELSE q.front + j - q.capacity
  BY <1>1, StoredFacts
<1>4. q.front + i - 1 = q.front + j
  BY <1>1, <1>2
<1>5. (q.front + j) % q.capacity = SlotIn(q, i)
  BY <1>1, <1>2, <1>3, <1>4 DEF SlotIn
<1> QED BY <1>5 DEF Stored

\* A queue whose values are the same, in the same order from the front.
LEMMA SameValues ==
  ASSUME NEW q, NEW r, IsQueue(q), IsQueue(r), q.count = r.count,
         \A i \in 1 .. q.count : r.dq[SlotIn(r, i)] = q.dq[SlotIn(q, i)]
  PROVE  Unwrapped(r) = Unwrapped(q)
<1>1. /\ Unwrapped(q) \in Seq(Holdable) /\ Len(Unwrapped(q)) = q.count
      /\ \A i \in 1 .. q.count : Unwrapped(q)[i] = q.dq[SlotIn(q, i)]
  BY UnwrappedFacts
<1>2. /\ Unwrapped(r) \in Seq(Holdable) /\ Len(Unwrapped(r)) = r.count
      /\ \A i \in 1 .. r.count : Unwrapped(r)[i] = r.dq[SlotIn(r, i)]
  BY UnwrappedFacts
<1>3. \A i \in 1 .. Len(Unwrapped(r)) : Unwrapped(r)[i] = Unwrapped(q)[i]
  BY <1>1, <1>2
<1> QED BY <1>1, <1>2, <1>3, SeqEqual

----------------------------------------------------------------------------
(* What the operations do to a queue. *)

\* A value is stored after the rear, and comes out last.
LEMMA EnqueuedFacts ==
  ASSUME NEW q, IsQueue(q), q.count < q.capacity, NEW e \in Elem
  PROVE  /\ IsQueue(Enqueued(q, e))
         /\ IsRing(q) => /\ IsRing(Enqueued(q, e))
                         /\ Unwrapped(Enqueued(q, e)) = Append(Unwrapped(q), e)
<1> DEFINE r == Enqueued(q, e)
           at == NextSlot(q, q.rear)
<1>1. /\ q.capacity \in Nat \ {0} /\ q.count \in 0 .. q.capacity - 1 /\ q.front \in 0 .. q.capacity - 1
      /\ q.dq \in [0 .. q.capacity - 1 -> Holdable] /\ q.rear \in -1 .. q.capacity - 1
      /\ e \in Holdable
  BY DEF IsQueue, Holdable
<1>2. /\ at \in 0 .. q.capacity - 1
      /\ q.rear = q.capacity - 1 => at = 0
      /\ q.rear # q.capacity - 1 => at = q.rear + 1
  BY <1>1 DEF NextSlot
<1>3. /\ r.capacity = q.capacity /\ r.front = q.front /\ r.rear = at /\ r.count = q.count + 1
      /\ r.dq = [q.dq EXCEPT ![at] = e]
      /\ DOMAIN r = {"dq", "capacity", "front", "rear", "count"}
  BY DEF IsQueue, Enqueued
<1> HIDE DEF r, at
<1>4. IsQueue(r)
  BY <1>1, <1>2, <1>3 DEF IsQueue
<1>5. ASSUME IsRing(q) PROVE IsRing(r) /\ Unwrapped(r) = Append(Unwrapped(q), e)
  <2>1. IsRing(r)
    BY <1>1, <1>2, <1>3, <1>5, RingSteps DEF IsRing
  <2>2. at = SlotIn(q, q.count + 1)
    <3>1. at = IF q.front + q.count < q.capacity THEN q.front + q.count
               ELSE q.front + q.count - q.capacity
      BY <1>1, <1>2, <1>5, RingSteps, SMTT(20) DEF IsRing
    <3>2. q.front + (q.count + 1) - 1 = q.front + q.count
      BY <1>1
    <3> QED BY <1>1, <3>1, <3>2 DEF SlotIn
  <2>3. /\ Unwrapped(q) \in Seq(Holdable) /\ Len(Unwrapped(q)) = q.count
        /\ \A i \in 1 .. q.count : /\ SlotIn(q, i) \in 0 .. q.capacity - 1
                                   /\ Unwrapped(q)[i] = q.dq[SlotIn(q, i)]
    BY UnwrappedFacts
  <2>4. /\ Unwrapped(r) \in Seq(Holdable) /\ Len(Unwrapped(r)) = r.count
        /\ \A i \in 1 .. r.count : Unwrapped(r)[i] = r.dq[SlotIn(r, i)]
    BY <1>4, UnwrappedFacts
  <2>5. \A i : SlotIn(r, i) = SlotIn(q, i)
    BY <1>3 DEF SlotIn
  <2>6. ASSUME NEW i \in 1 .. q.count PROVE Unwrapped(r)[i] = Unwrapped(q)[i]
    <3>1. i \in 1 .. r.count
      BY <1>1, <1>3
    <3>2. SlotIn(q, i) # at
      BY <1>1, <2>2, SMTT(20) DEF SlotIn
    <3>3. Unwrapped(r)[i] = r.dq[SlotIn(q, i)] /\ Unwrapped(q)[i] = q.dq[SlotIn(q, i)]
      BY <2>3, <2>4, <2>5, <3>1
    <3>4. SlotIn(q, i) \in 0 .. q.capacity - 1
      BY <2>3
    <3>5. r.dq[SlotIn(q, i)] = q.dq[SlotIn(q, i)]
      BY <1>1, <1>2, <1>3, <3>2, <3>4
    <3> QED BY <3>3, <3>5
  <2>7. Unwrapped(r)[q.count + 1] = e
    <3>1. q.count + 1 \in 1 .. r.count
      BY <1>1, <1>3
    <3> QED BY <1>1, <1>2, <1>3, <2>2, <2>4, <2>5, <3>1
  <2>8. /\ Append(Unwrapped(q), e) \in Seq(Holdable) /\ Len(Append(Unwrapped(q), e)) = q.count + 1
        /\ \A i \in 1 .. q.count : Append(Unwrapped(q), e)[i] = Unwrapped(q)[i]
        /\ Append(Unwrapped(q), e)[q.count + 1] = e
    BY <1>1, <2>3, AppendProperties
  <2>9. \A i \in 1 .. q.count + 1 : Unwrapped(r)[i] = Append(Unwrapped(q), e)[i]
    BY <1>1, <2>6, <2>7, <2>8
  <2>10. Unwrapped(r) = Append(Unwrapped(q), e)
    BY <1>3, <2>4, <2>8, <2>9, SeqEqual
  <2> QED BY <2>1, <2>10
<1> QED BY <1>4, <1>5 DEF r

\* The value at the front is taken.
LEMMA DequeuedFacts ==
  ASSUME NEW q, IsQueue(q), q.count > 0
  PROVE  /\ IsQueue(Dequeued(q)) /\ q.dq[q.front] \in Holdable
         /\ q.dq[q.front] = Head(Unwrapped(q)) /\ Unwrapped(Dequeued(q)) = Tail(Unwrapped(q))
         /\ Unwrapped(q) # <<>>
         /\ IsRing(q) => IsRing(Dequeued(q))
<1> DEFINE r == Dequeued(q)
<1>1. /\ q.capacity \in Nat \ {0} /\ q.count \in 1 .. q.capacity /\ q.front \in 0 .. q.capacity - 1
      /\ q.dq \in [0 .. q.capacity - 1 -> Holdable] /\ q.rear \in -1 .. q.capacity - 1
  BY DEF IsQueue
<1>2. /\ r.capacity = q.capacity /\ r.dq = q.dq /\ r.rear = q.rear /\ r.count = q.count - 1
      /\ r.front = NextSlot(q, q.front)
      /\ DOMAIN r = {"dq", "capacity", "front", "rear", "count"}
  BY DEF IsQueue, Dequeued
<1> HIDE DEF r
<1>3. /\ q.front = q.capacity - 1 => r.front = 0
      /\ q.front # q.capacity - 1 => r.front = q.front + 1
  BY <1>2 DEF NextSlot
<1>4. IsQueue(r)
  BY <1>1, <1>2, <1>3 DEF IsQueue
<1>5. ASSUME IsRing(q) PROVE IsRing(r)
  BY <1>1, <1>2, <1>3, <1>5, RingSteps, SMTT(20) DEF IsRing
<1>6. /\ Unwrapped(q) \in Seq(Holdable) /\ Len(Unwrapped(q)) = q.count
      /\ \A i \in 1 .. q.count : Unwrapped(q)[i] = q.dq[SlotIn(q, i)]
  BY UnwrappedFacts
<1>7. /\ Unwrapped(r) \in Seq(Holdable) /\ Len(Unwrapped(r)) = r.count
      /\ \A i \in 1 .. r.count : Unwrapped(r)[i] = r.dq[SlotIn(r, i)]
  BY <1>4, UnwrappedFacts
<1>8. Unwrapped(q)[1] = q.dq[q.front]
  <2>1. SlotIn(q, 1) = q.front /\ 1 \in 1 .. q.count
    BY <1>1 DEF SlotIn
  <2> QED BY <1>6, <2>1
<1>9. Unwrapped(q) # <<>> /\ Head(Unwrapped(q)) = Unwrapped(q)[1]
  BY <1>1, <1>6
<1>10. /\ Tail(Unwrapped(q)) \in Seq(Holdable) /\ Len(Tail(Unwrapped(q))) = q.count - 1
       /\ \A i \in 1 .. q.count - 1 : Tail(Unwrapped(q))[i] = Unwrapped(q)[i + 1]
  BY <1>6, <1>9, HeadTailProperties
<1>11. ASSUME NEW i \in 1 .. q.count - 1 PROVE Unwrapped(r)[i] = Tail(Unwrapped(q))[i]
  <2>1. SlotIn(r, i) = SlotIn(q, i + 1)
    BY <1>1, <1>2, <1>3, SMTT(20) DEF SlotIn
  <2>2. i \in 1 .. r.count /\ i + 1 \in 1 .. q.count
    BY <1>1, <1>2
  <2> QED BY <1>2, <1>6, <1>7, <1>10, <2>1, <2>2
<1>12. Unwrapped(r) = Tail(Unwrapped(q))
  BY <1>2, <1>7, <1>10, <1>11, SeqEqual
<1>13. q.dq[q.front] \in Holdable
  BY <1>1
<1> QED BY <1>4, <1>5, <1>8, <1>9, <1>12, <1>13 DEF r

\* A collection only frees values that grayQueue does not mark.  It is stated for
\* an array of n slots, since queuePush collects after it has set the capacity.
LEMMA CollectedFacts ==
  ASSUME NEW q, DOMAIN q = {"dq", "capacity", "front", "rear", "count"},
         NEW n \in Nat, q.dq \in [0 .. n - 1 -> Holdable]
  PROVE  /\ DOMAIN Collected(q) = {"dq", "capacity", "front", "rear", "count"}
         /\ Collected(q).capacity = q.capacity /\ Collected(q).front = q.front
         /\ Collected(q).rear = q.rear /\ Collected(q).count = q.count
         /\ Collected(q).dq \in [0 .. n - 1 -> Holdable]
         /\ \A i \in Grayed(q) : i \in 0 .. n - 1 => Collected(q).dq[i] = q.dq[i]
<1>1. Collected(q).dq = [i \in 0 .. n - 1 |->
                           IF q.dq[i] \in Elem /\ i \notin Grayed(q) THEN Freed ELSE q.dq[i]]
  BY DEF Collected
<1>2. \A i \in 0 .. n - 1 : q.dq[i] \in Holdable /\ Freed \in Holdable
  BY DEF Holdable
<1> QED BY <1>1, <1>2 DEF Collected

\* So a collection changes nothing that a pop has yet to take.
LEMMA CollectedKeeps ==
  ASSUME NEW q, IsQueue(q)
  PROVE  /\ IsQueue(Collected(q)) /\ (IsRing(q) => IsRing(Collected(q)))
         /\ IsRing(q) /\ ~ IsWrapped(q) => Unwrapped(Collected(q)) = Unwrapped(q)
<1> DEFINE r == Collected(q)
<1>1. /\ DOMAIN q = {"dq", "capacity", "front", "rear", "count"}
      /\ q.capacity \in Nat /\ q.dq \in [0 .. q.capacity - 1 -> Holdable]
      /\ q.count \in 0 .. q.capacity /\ q.front \in 0 .. q.capacity - 1 \cup {0}
  BY DEF IsQueue
<1>2. /\ DOMAIN r = {"dq", "capacity", "front", "rear", "count"}
      /\ r.capacity = q.capacity /\ r.front = q.front /\ r.rear = q.rear /\ r.count = q.count
      /\ r.dq \in [0 .. q.capacity - 1 -> Holdable]
      /\ \A i \in Grayed(q) : i \in 0 .. q.capacity - 1 => r.dq[i] = q.dq[i]
  BY <1>1, CollectedFacts
<1> HIDE DEF r
<1>3. IsQueue(r) /\ (IsRing(q) => IsRing(r))
  BY <1>2 DEF IsQueue, IsRing
<1>4. ASSUME IsRing(q), ~ IsWrapped(q)
      PROVE  Unwrapped(r) = Unwrapped(q)
  <2>1. Stored(q) \subseteq Grayed(q)
    BY <1>4, RingIsGrayed
  <2>2. ASSUME NEW i \in 1 .. q.count
        PROVE  r.dq[SlotIn(r, i)] = q.dq[SlotIn(q, i)]
    <3>1. SlotIn(r, i) = SlotIn(q, i) /\ SlotIn(q, i) \in 0 .. q.capacity - 1
      BY <1>2, UnwrappedFacts DEF SlotIn
    <3>2. SlotIn(q, i) \in Stored(q)
      BY StoredSlots
    <3> QED BY <1>2, <2>1, <3>1, <3>2
  <2> QED BY <1>2, <1>3, <2>2, SameValues
<1> QED BY <1>3, <1>4 DEF r

\* Growing makes room.  The values stay in order unless the queue is wrapped: then
\* those at the start of the array no longer follow those at its old end.
LEMMA GrowFacts ==
  ASSUME NEW q, IsQueue(q), q.count = q.capacity, NEW collects \in BOOLEAN
  PROVE  /\ IsQueue(Grow(q, collects)) /\ Grow(q, collects).count < Grow(q, collects).capacity
         /\ IsRing(q) /\ ~ IsWrapped(q) =>
              IsRing(Grow(q, collects)) /\ Unwrapped(Grow(q, collects)) = Unwrapped(q)
<1> DEFINE n == q.capacity
           m == GrowCapacity(n)
           grown == [q EXCEPT !.capacity = m]
           old == IF collects THEN Collected(grown) ELSE grown
           r == Reallocated(old, n)
<1>1. /\ DOMAIN q = {"dq", "capacity", "front", "rear", "count"}
      /\ n \in Nat /\ q.dq \in [0 .. n - 1 -> Holdable] /\ q.count = n
      /\ q.front \in 0 .. n - 1 \cup {0} /\ q.rear \in -1 .. n - 1
  BY DEF IsQueue
<1>2. m \in Nat /\ n < m
  BY <1>1 DEF GrowCapacity
<1> HIDE DEF m
<1>3. /\ DOMAIN grown = {"dq", "capacity", "front", "rear", "count"} /\ grown.dq = q.dq
      /\ grown.capacity = m /\ grown.front = q.front /\ grown.rear = q.rear /\ grown.count = n
  BY <1>1
<1> HIDE DEF grown
<1>4. /\ DOMAIN old = {"dq", "capacity", "front", "rear", "count"}
      /\ old.capacity = m /\ old.front = q.front /\ old.rear = q.rear /\ old.count = n
      /\ old.dq \in [0 .. n - 1 -> Holdable]
      /\ \A i \in Grayed(grown) : i \in 0 .. n - 1 => old.dq[i] = q.dq[i]
  <2>1. CASE collects
    BY <1>1, <1>3, <2>1, CollectedFacts
  <2>2. CASE ~ collects
    BY <1>1, <1>3, <2>2
  <2> QED BY <2>1, <2>2
<1> HIDE DEF old
<1>5. /\ DOMAIN r = {"dq", "capacity", "front", "rear", "count"}
      /\ r.capacity = m /\ r.front = q.front /\ r.rear = q.rear /\ r.count = n
      /\ r.dq = [i \in 0 .. m - 1 |-> IF i < n THEN old.dq[i] ELSE Unset]
  BY <1>4 DEF Reallocated
<1> HIDE DEF r
<1>6. IsQueue(r)
  <2>1. r.dq \in [0 .. m - 1 -> Holdable]
    BY <1>1, <1>2, <1>4, <1>5 DEF Holdable
  <2> QED BY <1>1, <1>2, <1>5, <2>1 DEF IsQueue
<1>7. ASSUME IsRing(q), ~ IsWrapped(q)
      PROVE  IsRing(r) /\ Unwrapped(r) = Unwrapped(q)
  <2>1. q.front = 0 /\ q.rear = n - 1
    BY <1>1, <1>7 DEF IsRing, Ring, IsWrapped
  <2>2. IsRing(r)
    BY <1>1, <1>5, <2>1 DEF IsRing, Ring
  <2>3. Grayed(grown) = 0 .. n - 1
    BY <1>1, <1>2, <1>3, <2>1 DEF Grayed
  <2>4. ASSUME NEW i \in 1 .. q.count
        PROVE  r.dq[SlotIn(r, i)] = q.dq[SlotIn(q, i)]
    <3>1. SlotIn(r, i) = i - 1 /\ SlotIn(q, i) = i - 1
      BY <1>1, <1>2, <1>5, <2>1 DEF SlotIn
    <3>2. i - 1 \in 0 .. n - 1 /\ i - 1 \in 0 .. m - 1 /\ i - 1 < n
      BY <1>1, <1>2
    <3>3. r.dq[i - 1] = old.dq[i - 1]
      BY <1>5, <3>2
    <3> QED BY <1>4, <2>3, <3>1, <3>2, <3>3
  <2> QED BY <1>1, <1>5, <1>6, <2>2, <2>4, SameValues
<1>8. r = Grow(q, collects)
  BY DEF r, old, grown, m, Grow
<1> QED BY <1>2, <1>5, <1>6, <1>7, <1>8

\* Shrinking puts the values at the start, in order, however they were wrapped.
LEMMA ShrinkFacts ==
  ASSUME NEW q, IsQueue(q), IsSparse(q), q.count > 0
  PROVE  /\ IsQueue(ShrinkQueue(q)) /\ IsRing(ShrinkQueue(q))
         /\ ShrinkQueue(q).count = q.count
         /\ Unwrapped(ShrinkQueue(q)) = Unwrapped(q)
<1> DEFINE r == ShrinkQueue(q)
           m == ShrinkCapacity(q.capacity)
           values == Unwrapped(q)
<1>1. q.capacity \in Nat /\ q.count \in Nat \ {0}
  BY DEF IsQueue
<1>2. m \in Nat /\ q.count < m
  BY <1>1 DEF IsSparse, ShrinkCapacity, DefaultCapacity
<1>3. /\ Len(values) = q.count /\ \A i \in 1 .. q.count : values[i] \in Holdable
      /\ \A i \in 1 .. q.count : values[i] = q.dq[SlotIn(q, i)]
  BY UnwrappedFacts, ElementOfSeq
<1> HIDE DEF m, values
<1>4. /\ DOMAIN r = {"dq", "capacity", "front", "rear", "count"}
      /\ r.capacity = m /\ r.front = 0 /\ r.rear = q.count - 1 /\ r.count = q.count
      /\ r.dq = [i \in 0 .. m - 1 |-> IF i < q.count THEN values[i + 1] ELSE Unset]
  BY DEF ShrinkQueue, CreateQueue, m, values
<1> HIDE DEF r
<1>5. r.dq \in [0 .. m - 1 -> Holdable]
  BY <1>1, <1>2, <1>3, <1>4 DEF Holdable
<1>6. IsQueue(r)
  BY <1>1, <1>2, <1>4, <1>5 DEF IsQueue
<1>7. IsRing(r)
  BY <1>1, <1>4 DEF IsRing, Ring
<1>8. ASSUME NEW i \in 1 .. q.count
      PROVE  r.dq[SlotIn(r, i)] = q.dq[SlotIn(q, i)]
  <2>1. SlotIn(r, i) = i - 1 /\ i - 1 \in 0 .. m - 1 /\ i - 1 < q.count /\ (i - 1) + 1 = i
    BY <1>1, <1>2, <1>4 DEF SlotIn
  <2> QED BY <1>3, <1>4, <2>1
<1>9. Unwrapped(r) = Unwrapped(q)
  BY <1>4, <1>6, <1>8, SameValues
<1> QED BY <1>4, <1>6, <1>7, <1>9 DEF r

----------------------------------------------------------------------------
(* The invariant. *)

\* A queue of any size that create() makes is a ring.
LEMMA QueueInitHolds == QueueInit => QueueInv
<1> SUFFICES ASSUME QueueInit PROVE QueueInv
  OBVIOUS
<1>1. PICK size \in QueueSizes : queue = CreateQueue(size)
  BY DEF QueueInit
<1>2. size \in Nat /\ Objects \in Nat \ {0}
  BY QueueAssumption
<1>3. /\ DOMAIN queue = {"dq", "capacity", "front", "rear", "count"}
      /\ queue.capacity = size /\ queue.front = 0 /\ queue.rear = -1 /\ queue.count = 0
      /\ queue.dq = [i \in 0 .. size - 1 |-> Unset]
  BY <1>1 DEF CreateQueue
<1>4. queue.dq \in [0 .. size - 1 -> Holdable]
  BY <1>3 DEF Holdable
<1>5. IsQueue(queue) /\ IsRing(queue)
  BY <1>2, <1>3, <1>4 DEF IsQueue, IsRing, Ring
<1>6. pushed \in Elem /\ taken \in Holdable /\ bent \subseteq Bends
  BY <1>2 DEF QueueInit, Elem, Holdable
<1> QED BY <1>5, <1>6 DEF QueueInv

\* The queue that a push stores into.
RoomyQueue(collects) == IF queue.count = queue.capacity THEN Grow(queue, collects) ELSE queue

\* It has room, and unless it was full and wrapped it is the same ring.
LEMMA RoomyQueueFacts ==
  ASSUME QueueInv, NEW collects \in BOOLEAN
  PROVE  /\ IsQueue(RoomyQueue(collects))
         /\ RoomyQueue(collects).count < RoomyQueue(collects).capacity
         /\ IsRing(queue) /\ ~ (queue.count = queue.capacity /\ IsWrapped(queue)) =>
              IsRing(RoomyQueue(collects)) /\ Unwrapped(RoomyQueue(collects)) = Unwrapped(queue)
<1>1. CASE queue.count = queue.capacity
  BY <1>1, GrowFacts DEF RoomyQueue, QueueInv
<1>2. CASE queue.count # queue.capacity
  <2>1. RoomyQueue(collects) = queue
    BY <1>2 DEF RoomyQueue
  <2>2. IsQueue(queue)
    BY DEF QueueInv
  <2>3. queue.count < queue.capacity
    BY <1>2, <2>2 DEF IsQueue
  <2> QED BY <2>1, <2>2, <2>3
<1> QED BY <1>1, <1>2

\* A push keeps a ring a ring, unless it grows one that is wrapped.
LEMMA PushKeeps == \A collects \in BOOLEAN : QueueInv /\ QueuePush(collects) => QueueInv'
<1> SUFFICES ASSUME NEW collects \in BOOLEAN, QueueInv, QueuePush(collects) PROVE QueueInv'
  OBVIOUS
<1> DEFINE q == RoomyQueue(collects)
<1>1. /\ queue' = Enqueued(q, pushed) /\ UNCHANGED taken /\ pushed' = (pushed + 1) % Objects
      /\ bent' = IF queue.count = queue.capacity /\ IsWrapped(queue)
                 THEN bent \cup {"grown while wrapped"} ELSE bent
  BY DEF QueuePush, RoomyQueue
<1>2. /\ IsQueue(q) /\ q.count < q.capacity /\ pushed \in Elem
      /\ IsRing(queue) /\ ~ (queue.count = queue.capacity /\ IsWrapped(queue)) => IsRing(q)
  BY RoomyQueueFacts DEF QueueInv
<1> HIDE DEF q
<1>3. IsQueue(queue') /\ (IsRing(q) => IsRing(queue'))
  BY <1>1, <1>2, EnqueuedFacts
<1>4. pushed' \in Elem
  <2>1. PICK n \in Nat \ {0} : n = Objects
    BY QueueAssumption
  <2>2. PICK k \in Nat : k = pushed + 1
    BY <1>2, <2>1 DEF Elem
  <2>3. k % n \in 0 .. n - 1
    BY SMT
  <2> QED BY <1>1, <2>1, <2>2, <2>3 DEF Elem
<1>5. bent' \subseteq Bends /\ bent \subseteq bent'
  BY <1>1 DEF QueueInv, Bends
<1>6. "grown while wrapped" \notin bent' =>
        "grown while wrapped" \notin bent /\ ~ (queue.count = queue.capacity /\ IsWrapped(queue))
  BY <1>1
<1>7. "grown while wrapped" \notin bent' => IsRing(queue')
  BY <1>2, <1>3, <1>6 DEF QueueInv
<1> QED BY <1>1, <1>3, <1>4, <1>5, <1>7 DEF QueueInv

\* The queue that a pop takes from.
DenseQueue == IF IsSparse(queue) THEN ShrinkQueue(queue) ELSE queue

\* It holds the same values in the same order.
LEMMA DenseFacts ==
  ASSUME QueueInv, queue.count > 0
  PROVE  /\ IsQueue(DenseQueue) /\ DenseQueue.count = queue.count
         /\ Unwrapped(DenseQueue) = Unwrapped(queue)
         /\ IsRing(queue) => IsRing(DenseQueue)
<1>1. CASE IsSparse(queue)
  BY <1>1, ShrinkFacts DEF DenseQueue, QueueInv
<1>2. CASE ~ IsSparse(queue)
  BY <1>2 DEF DenseQueue, QueueInv
<1> QED BY <1>1, <1>2

\* A pop keeps a ring a ring.
LEMMA PopKeeps == QueueInv /\ QueuePop => QueueInv'
<1> SUFFICES ASSUME QueueInv, QueuePop PROVE QueueInv'
  OBVIOUS
<1> DEFINE q == DenseQueue
<1>1. /\ queue.count > 0 /\ queue' = Dequeued(q) /\ taken' = q.dq[q.front]
      /\ UNCHANGED <<pushed, bent>>
  BY DEF QueuePop, DenseQueue
<1>2. IsQueue(q) /\ q.count > 0 /\ (IsRing(queue) => IsRing(q))
  BY <1>1, DenseFacts
<1> HIDE DEF q
<1>3. IsQueue(queue') /\ taken' \in Holdable /\ (IsRing(q) => IsRing(queue'))
  BY <1>1, <1>2, DequeuedFacts
<1> QED BY <1>1, <1>2, <1>3 DEF QueueInv

\* The invariant is inductive.
LEMMA QueueInductive == QueueInv /\ [QueueNext]_queueVars => QueueInv'
<1> SUFFICES ASSUME QueueInv, [QueueNext]_queueVars PROVE QueueInv'
  OBVIOUS
<1>1. ASSUME NEW collects \in BOOLEAN, QueuePush(collects) PROVE QueueInv'
  BY <1>1, PushKeeps
<1>2. CASE QueuePop
  BY <1>2, PopKeeps
<1>3. CASE QueuePeek
  <2>1. taken' \in Holdable
    <3>1. CASE queue.capacity = 0
      BY <1>3, <3>1 DEF QueuePeek, Holdable
    <3>2. CASE queue.capacity # 0
      <4>0. IsQueue(queue)
        BY DEF QueueInv
      <4>1. queue.front \in 0 .. queue.capacity - 1
        BY <3>2, <4>0 DEF IsQueue
      <4>2. queue.dq \in [0 .. queue.capacity - 1 -> Holdable]
        BY <4>0 DEF IsQueue
      <4> QED BY <1>3, <3>2, <4>1, <4>2 DEF QueuePeek
    <3> QED BY <3>1, <3>2
  <2> QED BY <1>3, <2>1 DEF QueuePeek, QueueInv
<1>4. CASE QueueCollect
  <2>1. queue' = Collected(queue) /\ UNCHANGED <<pushed, taken>>
        /\ bent \subseteq bent' /\ bent' \subseteq Bends
    BY <1>4 DEF QueueCollect, QueueInv, Bends
  <2>2. IsQueue(queue') /\ (IsRing(queue) => IsRing(queue'))
    BY <2>1, CollectedKeeps DEF QueueInv
  <2> QED BY <2>1, <2>2 DEF QueueInv
<1>5. CASE UNCHANGED queueVars
  BY <1>5 DEF queueVars, QueueInv
<1> QED BY <1>1, <1>2, <1>3, <1>4, <1>5 DEF QueueNext

\* The inductive invariant: as long as the queue was never grown while full and
\* wrapped, its values are a ring.
THEOREM QueueInvariance == QueueSpec => []QueueInv
<1>1. QueueInit => QueueInv
  BY QueueInitHolds
<1>2. QueueInv /\ [QueueNext]_queueVars => QueueInv'
  BY QueueInductive
<1> QED BY <1>1, <1>2, PTL DEF QueueSpec

\* The invariant gives every field its type.
LEMMA QueueInvIsTyped == QueueInv => QueueTypeOK
BY DEF QueueInv, IsQueue, QueueTypeOK, Holdable

\* Type correctness: whatever is pushed, popped, grown and shrunk, every field of
\* struct Queue has its type and names a slot.
THEOREM QueueTypeCorrect == QueueSpec => []QueueTypeOK
BY QueueInvIsTyped, QueueInvariance, PTL

\* grayQueue marks every value that is to come out, exactly unless the queue is
\* full and wrapped.
THEOREM StoredAreMarked == QueueSpec => []StoredIsGrayed
<1>1. QueueInv => StoredIsGrayed
  BY RingIsGrayed DEF QueueInv, StoredIsGrayed
<1> QED BY <1>1, QueueInvariance, PTL

\* It marks nothing else, unless an empty queue has gone exactly round.
THEOREM MarkedAreStored == QueueSpec => []OnlyStoredIsGrayed
<1>1. QueueInv => OnlyStoredIsGrayed
  BY GrayedIsStored DEF QueueInv, OnlyStoredIsGrayed, HasGoneRound
<1> QED BY <1>1, QueueInvariance, PTL

----------------------------------------------------------------------------
(* First in, first out. *)

\* Every step is one of FifoSpec, until the queue is bent.
LEMMA StepIsFifo ==
  QueueInv /\ QueueInv' /\ [QueueNext]_queueVars => [bent' # {} \/ Fifo!Next]_<<Unwrapped(queue), taken>>
<1> SUFFICES ASSUME QueueInv, QueueInv', [QueueNext]_queueVars, bent' = {}
             PROVE  [Fifo!Next]_<<Unwrapped(queue), taken>>
  OBVIOUS
<1>1. ASSUME NEW collects \in BOOLEAN, QueuePush(collects)
      PROVE  Fifo!Next
  <2> DEFINE q == RoomyQueue(collects)
  <2>1. /\ queue' = Enqueued(q, pushed) /\ UNCHANGED taken
        /\ bent' = IF queue.count = queue.capacity /\ IsWrapped(queue)
                   THEN bent \cup {"grown while wrapped"} ELSE bent
    BY <1>1 DEF QueuePush, RoomyQueue
  <2>2. bent = {} /\ ~ (queue.count = queue.capacity /\ IsWrapped(queue))
    BY <2>1
  <2>3. /\ IsQueue(q) /\ q.count < q.capacity /\ IsRing(q) /\ Unwrapped(q) = Unwrapped(queue)
        /\ pushed \in Elem
    BY <2>2, RoomyQueueFacts DEF QueueInv
  <2> HIDE DEF q
  <2>4. Unwrapped(queue') = Append(Unwrapped(queue), pushed)
    BY <2>1, <2>3, EnqueuedFacts
  <2>5. Unwrapped(queue)' = Unwrapped(queue')
    OBVIOUS
  <2> QED BY <2>1, <2>3, <2>4, <2>5 DEF Fifo!Next, Fifo!Push
<1>2. CASE QueuePop
  <2> DEFINE q == DenseQueue
  <2>1. queue.count > 0 /\ queue' = Dequeued(q) /\ taken' = q.dq[q.front]
    BY <1>2 DEF QueuePop, DenseQueue
  <2>2. IsQueue(q) /\ q.count > 0 /\ Unwrapped(q) = Unwrapped(queue)
    BY <2>1, DenseFacts
  <2> HIDE DEF q
  <2>3. /\ taken' = Head(Unwrapped(queue)) /\ Unwrapped(queue') = Tail(Unwrapped(queue))
        /\ Unwrapped(queue) # <<>>
    BY <2>1, <2>2, DequeuedFacts
  <2>4. Unwrapped(queue)' = Unwrapped(queue')
    OBVIOUS
  <2> QED BY <2>3, <2>4 DEF Fifo!Next, Fifo!Pop
<1>3. CASE QueuePeek
  <2>1. queue' = queue /\ Unwrapped(queue)' = Unwrapped(queue)
    BY <1>3 DEF QueuePeek
  <2>2. IsQueue(queue)
    BY DEF QueueInv
  <2>3. CASE queue.count = 0
    <3>1. Unwrapped(queue) = <<>>
      BY <2>2, <2>3, UnwrappedFacts, EmptySeq
    <3> QED BY <2>1, <3>1 DEF Fifo!Next, Fifo!PeekNothing
  <2>4. CASE queue.count # 0
    <3>1. queue.count > 0 /\ queue.capacity # 0
      BY <2>2, <2>4 DEF IsQueue
    <3>2. taken' = Head(Unwrapped(queue)) /\ Unwrapped(queue) # <<>>
      BY <1>3, <2>2, <3>1, DequeuedFacts DEF QueuePeek
    <3> QED BY <2>1, <3>2 DEF Fifo!Next, Fifo!Peek
  <2> QED BY <2>3, <2>4
<1>4. CASE QueueCollect
  <2>1. queue' = Collected(queue) /\ taken' = taken /\ bent = {} /\ ~ IsWrapped(queue)
    BY <1>4 DEF QueueCollect
  <2>2. IsQueue(queue) /\ IsRing(queue)
    BY <2>1 DEF QueueInv
  <2>3. Unwrapped(queue') = Unwrapped(queue)
    BY <2>1, <2>2, CollectedKeeps
  <2>4. Unwrapped(queue)' = Unwrapped(queue')
    OBVIOUS
  <2> QED BY <2>1, <2>3, <2>4
<1>5. CASE UNCHANGED queueVars
  BY <1>5 DEF queueVars
<1> QED BY <1>1, <1>2, <1>3, <1>4, <1>5 DEF QueueNext

\* The queue implements FifoSpec, as long as it is never grown or collected while
\* it is full and wrapped.
THEOREM FifoImplemented == QueueSpec => FifoUnlessBent
<1>1. QueueInit => Fifo!Init
  <2> SUFFICES ASSUME QueueInit PROVE Unwrapped(queue) = <<>>
    BY DEF Fifo!Init
  <2>1. IsQueue(queue)
    BY QueueInitHolds DEF QueueInv
  <2>2. queue.count = 0
    BY DEF QueueInit, CreateQueue
  <2> QED BY <2>1, <2>2, UnwrappedFacts, EmptySeq
<1>2. QueueInv /\ QueueInv' /\ [QueueNext]_queueVars =>
        [bent' # {} \/ Fifo!Next]_<<Unwrapped(queue), taken>>
  BY StepIsFifo
<1> QED BY <1>1, <1>2, QueueInvariance, PTL DEF QueueSpec, FifoUnlessBent

----------------------------------------------------------------------------
(***************************************************************************)
(* Lists.                                                                  *)
(***************************************************************************)

\* What an array must be for its first slots to be the list: whatever the slots
\* behind them hold, those before count have been written.
IsArray(r) ==
  /\ r = [capacity |-> r.capacity, count |-> r.count, values |-> r.values]
  /\ r.capacity \in Nat /\ r.count \in 0 .. r.capacity
  /\ r.values \in [0 .. r.capacity - 1 -> ListElements \cup {Garbage}]
  /\ \A i \in 0 .. r.count - 1 : r.values[i] \in ListElements

\* The inductive invariant.
ListInv == IsArray(list) /\ replied \in ListElements \cup {Garbage, Error, None} /\ beyond \in BOOLEAN

\* InsertItem's and PopItemAt's effects.
InsertedInto(r, at, e) == [MovedUp(Roomy(r), at) EXCEPT !.values[at] = e, !.count = @ + 1]
WithoutAt(r, at) == [MovedDown(r, at) EXCEPT !.count = @ - 1]

\* The list in an array.
Seen(r) == [i \in 1 .. r.count |-> r.values[i - 1]]

----------------------------------------------------------------------------
\* What is seen of an array is a sequence of elements.
LEMMA SeenIsSeq ==
  ASSUME NEW r, IsArray(r)
  PROVE  /\ Seen(r) \in Seq(ListElements) /\ Len(Seen(r)) = r.count
         /\ \A i \in 1 .. r.count : Seen(r)[i] = r.values[i - 1]
<1>1. r.count \in Nat
  BY DEF IsArray
<1>2. \A i \in 1 .. r.count : i - 1 \in 0 .. r.count - 1
  BY <1>1
<1>3. Seen(r) \in [1 .. r.count -> ListElements]
  BY <1>2 DEF Seen, IsArray
<1>4. Seen(r) \in Seq(ListElements) /\ Len(Seen(r)) = r.count
  BY <1>1, <1>3, SeqDef
<1> QED BY <1>4 DEF Seen

\* A growth makes room and keeps the list.
LEMMA RoomyFacts ==
  ASSUME NEW r, IsArray(r)
  PROVE  /\ IsArray(Roomy(r)) /\ Roomy(r).count = r.count /\ r.count < Roomy(r).capacity
         /\ \A i \in 0 .. r.count - 1 : Roomy(r).values[i] = r.values[i]
<1>1. CASE r.capacity > r.count
  BY <1>1 DEF Roomy, IsArray
<1>2. CASE ~ r.capacity > r.count
  <2>1. PICK n \in Nat : n = r.count /\ n = r.capacity
    BY <1>2 DEF IsArray
  <2>2. PICK cap \in Nat : cap = GrowCapacity(r.capacity) /\ n < cap
    BY <2>1 DEF GrowCapacity
  <2>3. PICK new : new = [i \in 0 .. cap - 1 |-> IF i < r.capacity THEN r.values[i] ELSE Garbage]
    OBVIOUS
  <2>4. r = [capacity |-> r.capacity, count |-> r.count, values |-> r.values]
    BY DEF IsArray
  <2>5. Roomy(r) = [capacity |-> cap, count |-> n, values |-> new]
    BY <1>2, <2>1, <2>2, <2>3, <2>4 DEF Roomy
  <2>6. new \in [0 .. cap - 1 -> ListElements \cup {Garbage}]
    <3>1. ASSUME NEW i \in 0 .. cap - 1, i < r.capacity
          PROVE  r.values[i] \in ListElements \cup {Garbage}
      BY <2>1, <3>1 DEF IsArray
    <3> QED BY <2>3, <3>1
  <2>7. \A i \in 0 .. n - 1 : new[i] = r.values[i]
    BY <2>1, <2>2, <2>3
  <2> QED BY <2>1, <2>2, <2>5, <2>6, <2>7 DEF IsArray
<1> QED BY <1>1, <1>2

\* An element pushed.
LEMMA PushFacts ==
  ASSUME NEW r, IsArray(r), NEW e \in ListElements, NEW w, w = WriteValueArray(r, e)
  PROVE  /\ IsArray(w) /\ w.count = r.count + 1
         /\ \A i \in 0 .. r.count : w.values[i] = IF i < r.count THEN r.values[i] ELSE e
<1>1. PICK m : m = Roomy(r)
  OBVIOUS
<1>2. /\ IsArray(m) /\ m.count = r.count /\ r.count < m.capacity
      /\ \A i \in 0 .. r.count - 1 : m.values[i] = r.values[i]
  BY <1>1, RoomyFacts
<1>3. PICK n \in Nat : n = r.count
  BY DEF IsArray
<1>4. PICK new : new = [m.values EXCEPT ![n] = e]
  OBVIOUS
<1>5. m = [capacity |-> m.capacity, count |-> m.count, values |-> m.values]
  BY <1>2 DEF IsArray
<1>6. w = [capacity |-> m.capacity, count |-> n + 1, values |-> new]
  BY <1>1, <1>2, <1>3, <1>4, <1>5 DEF WriteValueArray
<1>7. new \in [0 .. m.capacity - 1 -> ListElements \cup {Garbage}] /\ m.capacity \in Nat
  BY <1>2, <1>4 DEF IsArray
<1>8. n \in 0 .. m.capacity - 1
  BY <1>2, <1>3, <1>7
<1>9. \A i \in 0 .. n : new[i] = IF i < n THEN r.values[i] ELSE e
  BY <1>2, <1>3, <1>4, <1>8 DEF IsArray
<1>10. \A i \in 0 .. n : new[i] \in ListElements
  BY <1>3, <1>9 DEF IsArray
<1> QED BY <1>2, <1>3, <1>6, <1>7, <1>8, <1>9, <1>10 DEF IsArray

\* An element inserted before the one at a place, or behind the last.
LEMMA InsertFacts ==
  ASSUME NEW r, IsArray(r), NEW e \in ListElements, NEW at \in 0 .. r.count,
         NEW w, w = InsertedInto(r, at, e)
  PROVE  /\ IsArray(w) /\ w.count = r.count + 1
         /\ \A i \in 0 .. r.count : w.values[i] =
               IF i < at THEN r.values[i] ELSE IF i = at THEN e ELSE r.values[i - 1]
<1>1. PICK m : m = Roomy(r)
  OBVIOUS
<1>2. /\ IsArray(m) /\ m.count = r.count /\ r.count < m.capacity
      /\ \A i \in 0 .. r.count - 1 : m.values[i] = r.values[i]
  BY <1>1, RoomyFacts
<1>3. PICK n \in Nat : n = r.count
  BY DEF IsArray
<1>4. PICK cap \in Nat : cap = m.capacity
  BY <1>2 DEF IsArray
<1>5. PICK v \in [0 .. cap - 1 -> ListElements \cup {Garbage}] : v = m.values
  BY <1>2, <1>4 DEF IsArray
<1>6. PICK up : up = [i \in 0 .. cap - 1 |-> IF i > at /\ i <= n THEN v[i - 1] ELSE v[i]]
  OBVIOUS
<1>7. PICK new : new = [up EXCEPT ![at] = e]
  OBVIOUS
<1>8. m = [capacity |-> cap, count |-> n, values |-> v]
  BY <1>2, <1>3, <1>4, <1>5 DEF IsArray
<1>9. MovedUp(m, at) = [capacity |-> cap, count |-> n, values |-> up]
  <2>1. up = [i \in DOMAIN m.values |-> IF i > at /\ i <= m.count THEN m.values[i - 1] ELSE m.values[i]]
    BY <1>5, <1>6, <1>8
  <2>2. MovedUp(m, at) = [m EXCEPT !.values = up]
    BY <2>1, Zenon DEF MovedUp
  <2> QED BY <1>8, <2>2
<1>10. w = [capacity |-> cap, count |-> n + 1, values |-> new]
  <2>1. PICK x : x = MovedUp(m, at)
    OBVIOUS
  <2>2. w = [x EXCEPT !.values[at] = e, !.count = @ + 1]
    BY <1>1, <2>1, Zenon DEF InsertedInto
  <2>3. /\ x = [capacity |-> x.capacity, count |-> x.count, values |-> x.values]
        /\ x.capacity = cap /\ x.count = n /\ x.values = up
    BY <1>9, <2>1
  <2>4. w = [capacity |-> x.capacity, count |-> x.count + 1, values |-> [x.values EXCEPT ![at] = e]]
    BY <2>2, <2>3
  <2> QED BY <1>7, <2>3, <2>4
<1>11. n < cap /\ at \in 0 .. n /\ at \in 0 .. cap - 1
  BY <1>2, <1>3, <1>4
<1>12. up \in [0 .. cap - 1 -> ListElements \cup {Garbage}]
  <2>1. ASSUME NEW i \in 0 .. cap - 1
        PROVE  (IF i > at /\ i <= n THEN v[i - 1] ELSE v[i]) \in ListElements \cup {Garbage}
    <3>1. CASE i > at
      <4>1. i - 1 \in 0 .. cap - 1
        BY <1>11, <3>1
      <4> QED BY <1>5, <4>1
    <3> QED BY <1>5, <1>11, <3>1
  <2> QED BY <1>6, <2>1
<1>13. new \in [0 .. cap - 1 -> ListElements \cup {Garbage}]
  BY <1>7, <1>12
<1>14. ASSUME NEW i \in 0 .. n
       PROVE  new[i] = IF i < at THEN r.values[i] ELSE IF i = at THEN e ELSE r.values[i - 1]
  <2>1. CASE i < at
    BY <1>2, <1>3, <1>5, <1>6, <1>7, <1>11, <1>12, <2>1
  <2>2. CASE i = at
    BY <1>7, <1>11, <1>12, <2>2
  <2>3. CASE i > at
    <3>1. i - 1 \in 0 .. n - 1 /\ i \in 0 .. cap - 1
      BY <1>11, <2>3
    <3>2. new[i] = v[i - 1]
      BY <1>6, <1>7, <1>11, <1>12, <2>3, <3>1
    <3> QED BY <1>2, <1>3, <1>5, <1>11, <2>3, <3>1, <3>2
  <2> QED BY <1>11, <2>1, <2>2, <2>3
<1>15. ASSUME NEW i \in 0 .. n
       PROVE  new[i] \in ListElements
  <2>1. \A j \in 0 .. n - 1 : r.values[j] \in ListElements
    BY <1>3 DEF IsArray
  <2>2. i < at => i \in 0 .. n - 1
    BY <1>11
  <2>3. i > at => i - 1 \in 0 .. n - 1
    BY <1>11
  <2> QED BY <1>11, <1>14, <2>1, <2>2, <2>3
<1>16. w.values = new /\ w.count = n + 1 /\ w.capacity = cap
  BY <1>10
<1>17. w = [capacity |-> w.capacity, count |-> w.count, values |-> w.values]
  BY <1>10
<1>18. IsArray(w)
  BY <1>11, <1>13, <1>15, <1>16, <1>17 DEF IsArray
<1> QED BY <1>3, <1>14, <1>16, <1>18

\* An element taken out.  The place behind the last one is no element: then it is
\* the last that is lost.
LEMMA DownFacts ==
  ASSUME NEW r, IsArray(r), 0 < r.count, NEW at \in 0 .. r.count,
         NEW w, w = WithoutAt(r, at)
  PROVE  /\ IsArray(w) /\ w.count = r.count - 1
         /\ \A i \in 0 .. r.count - 2 : w.values[i] = IF i < at THEN r.values[i] ELSE r.values[i + 1]
<1>1. PICK n \in Nat : n = r.count
  BY DEF IsArray
<1>2. PICK cap \in Nat : cap = r.capacity
  BY DEF IsArray
<1>3. PICK v \in [0 .. cap - 1 -> ListElements \cup {Garbage}] : v = r.values
  BY <1>2 DEF IsArray
<1>4. PICK down : down = [i \in 0 .. cap - 1 |-> IF i >= at /\ i < n - 1 THEN v[i + 1] ELSE v[i]]
  OBVIOUS
<1>5. r = [capacity |-> cap, count |-> n, values |-> v]
  BY <1>1, <1>2, <1>3 DEF IsArray
<1>6. MovedDown(r, at) = [capacity |-> cap, count |-> n, values |-> down]
  <2>1. down = [i \in DOMAIN r.values |->
                  IF i >= at /\ i < r.count - 1 THEN r.values[i + 1] ELSE r.values[i]]
    BY <1>3, <1>4, <1>5
  <2>2. MovedDown(r, at) = [r EXCEPT !.values = down]
    BY <2>1, Zenon DEF MovedDown
  <2> QED BY <1>5, <2>2
<1>7. w = [capacity |-> cap, count |-> n - 1, values |-> down]
  <2>1. PICK x : x = MovedDown(r, at)
    OBVIOUS
  <2>2. w = [x EXCEPT !.count = @ - 1]
    BY <2>1, Zenon DEF WithoutAt
  <2> QED BY <1>6, <2>1, <2>2
<1>8. 0 < n /\ n <= cap /\ at \in 0 .. n
  BY <1>1, <1>2 DEF IsArray
<1>9. down \in [0 .. cap - 1 -> ListElements \cup {Garbage}]
  <2>1. ASSUME NEW i \in 0 .. cap - 1
        PROVE  (IF i >= at /\ i < n - 1 THEN v[i + 1] ELSE v[i]) \in ListElements \cup {Garbage}
    <3>1. CASE i < n - 1
      <4>1. i + 1 \in 0 .. cap - 1
        BY <1>8, <3>1
      <4> QED BY <1>3, <4>1
    <3> QED BY <1>3, <1>8, <3>1
  <2> QED BY <1>4, <2>1
<1>10. ASSUME NEW i \in 0 .. n - 2
       PROVE  down[i] = IF i < at THEN r.values[i] ELSE r.values[i + 1]
  <2>1. i \in 0 .. cap - 1 /\ i < n - 1
    BY <1>8
  <2> QED BY <1>3, <1>4, <1>8, <2>1
<1>11. ASSUME NEW i \in 0 .. n - 2
       PROVE  down[i] \in ListElements
  <2>1. \A j \in 0 .. n - 1 : r.values[j] \in ListElements
    BY <1>1 DEF IsArray
  <2>2. i \in 0 .. n - 1 /\ i + 1 \in 0 .. n - 1
    BY <1>8
  <2> QED BY <1>8, <1>10, <2>1, <2>2
<1>12. w.values = down /\ w.count = n - 1 /\ w.capacity = cap
  BY <1>7
<1>13. w = [capacity |-> w.capacity, count |-> w.count, values |-> w.values]
  BY <1>7
<1>14. IsArray(w)
  BY <1>8, <1>9, <1>11, <1>12, <1>13 DEF IsArray
<1> QED BY <1>1, <1>10, <1>12, <1>14

\* The last element taken out.
LastOut(r) == [r EXCEPT !.count = @ - 1]

\* What remains is an array.
LEMMA LastFacts ==
  ASSUME NEW r, IsArray(r), 0 < r.count, NEW w, w = LastOut(r)
  PROVE  IsArray(w) /\ w.count = r.count - 1 /\ \A i \in 0 .. r.count - 2 : w.values[i] = r.values[i]
  BY DEF IsArray, LastOut

\* One element assigned.
Assigned(r, at, e) == [r EXCEPT !.values[at] = e]

\* The others stay.
LEMMA AssignFacts ==
  ASSUME NEW r, IsArray(r), NEW e \in ListElements, NEW at \in 0 .. r.count - 1,
         NEW w, w = Assigned(r, at, e)
  PROVE  /\ IsArray(w) /\ w.count = r.count
         /\ \A i \in 0 .. r.count - 1 : w.values[i] = IF i = at THEN e ELSE r.values[i]
<1>1. PICK n \in Nat : n = r.count
  BY DEF IsArray
<1>2. PICK cap \in Nat : cap = r.capacity
  BY DEF IsArray
<1>3. PICK v \in [0 .. cap - 1 -> ListElements \cup {Garbage}] : v = r.values
  BY <1>2 DEF IsArray
<1>4. PICK new : new = [v EXCEPT ![at] = e]
  OBVIOUS
<1>5. r = [capacity |-> cap, count |-> n, values |-> v]
  BY <1>1, <1>2, <1>3 DEF IsArray
<1>6. w = [capacity |-> cap, count |-> n, values |-> new]
  <2>1. w = [capacity |-> r.capacity, count |-> r.count, values |-> [r.values EXCEPT ![at] = e]]
    BY <1>5 DEF Assigned
  <2> QED BY <1>3, <1>4, <1>5, <2>1
<1>7. n <= cap /\ at \in 0 .. n - 1 /\ at \in 0 .. cap - 1
  BY <1>1, <1>2 DEF IsArray
<1>8. new \in [0 .. cap - 1 -> ListElements \cup {Garbage}]
  BY <1>3, <1>4
<1>9. \A i \in 0 .. n - 1 : new[i] = IF i = at THEN e ELSE r.values[i]
  BY <1>3, <1>4, <1>7
<1>10. \A i \in 0 .. n - 1 : new[i] \in ListElements
  BY <1>1, <1>9 DEF IsArray
<1>11. w.values = new /\ w.count = n /\ w.capacity = cap
  BY <1>6
<1>12. w = [capacity |-> w.capacity, count |-> w.count, values |-> w.values]
  BY <1>6
<1>13. IsArray(w)
  BY <1>7, <1>8, <1>10, <1>11, <1>12 DEF IsArray
<1> QED BY <1>1, <1>9, <1>11, <1>13

\* ReverseList's effect.
Reversed(r) ==
  [r EXCEPT !.values = [i \in DOMAIN @ |-> IF i < r.count THEN @[r.count - 1 - i] ELSE @[i]]]

\* The elements turned around.
LEMMA ReversedFacts ==
  ASSUME NEW r, IsArray(r), NEW w, w = Reversed(r)
  PROVE  /\ IsArray(w) /\ w.count = r.count
         /\ \A i \in 0 .. r.count - 1 : w.values[i] = r.values[r.count - 1 - i]
<1>1. PICK n \in Nat : n = r.count
  BY DEF IsArray
<1>2. PICK cap \in Nat : cap = r.capacity
  BY DEF IsArray
<1>3. PICK v \in [0 .. cap - 1 -> ListElements \cup {Garbage}] : v = r.values
  BY <1>2 DEF IsArray
<1>4. PICK new : new = [i \in 0 .. cap - 1 |-> IF i < n THEN v[n - 1 - i] ELSE v[i]]
  OBVIOUS
<1>5. r = [capacity |-> cap, count |-> n, values |-> v]
  BY <1>1, <1>2, <1>3 DEF IsArray
<1>6. w = [capacity |-> cap, count |-> n, values |-> new]
  <2>1. new = [i \in DOMAIN r.values |->
                 IF i < r.count THEN r.values[r.count - 1 - i] ELSE r.values[i]]
    BY <1>3, <1>4, <1>5
  <2>2. w = [r EXCEPT !.values = new]
    BY <2>1, Zenon DEF Reversed
  <2> QED BY <1>5, <2>2
<1>7. n <= cap
  BY <1>1, <1>2 DEF IsArray
<1>8. \A i \in 0 .. n - 1 : n - 1 - i \in 0 .. n - 1 /\ n - 1 - i \in 0 .. cap - 1
  BY <1>7
<1>9. new \in [0 .. cap - 1 -> ListElements \cup {Garbage}]
  <2>1. ASSUME NEW i \in 0 .. cap - 1
        PROVE  (IF i < n THEN v[n - 1 - i] ELSE v[i]) \in ListElements \cup {Garbage}
    <3>1. CASE i < n
      <4>1. n - 1 - i \in 0 .. cap - 1
        BY <1>7, <3>1
      <4> QED BY <1>3, <3>1, <4>1
    <3> QED BY <1>3, <3>1
  <2> QED BY <1>4, <2>1
<1>10. \A i \in 0 .. n - 1 : new[i] = r.values[n - 1 - i]
  BY <1>3, <1>4, <1>7
<1>11. \A i \in 0 .. n - 1 : new[i] \in ListElements
  BY <1>1, <1>8, <1>10 DEF IsArray
<1>12. w.values = new /\ w.count = n /\ w.capacity = cap
  BY <1>6
<1>13. w = [capacity |-> w.capacity, count |-> w.count, values |-> w.values]
  BY <1>6
<1>14. IsArray(w)
  BY <1>7, <1>9, <1>11, <1>12, <1>13 DEF IsArray
<1> QED BY <1>1, <1>10, <1>12, <1>14

----------------------------------------------------------------------------
\* A sequence by its length.
IsSeqOf(S, n, s) == s \in Seq(S) /\ Len(s) = n

\* One sequence after another.
Joins(a, m, b, c, l) == \A i \in 1 .. l : c[i] = IF i <= m THEN a[i] ELSE b[i - m]

IsJoined(a, b, c) == c = a \o b

\* The length and the elements of two sequences, one after the other.
LEMMA JoinFacts ==
  ASSUME NEW S, NEW a, NEW b, NEW c, NEW m \in Nat, NEW n \in Nat, NEW l \in Nat,
         IsSeqOf(S, m, a), IsSeqOf(S, n, b), IsJoined(a, b, c), l = m + n
  PROVE  IsSeqOf(S, l, c) /\ Joins(a, m, b, c, l)
  BY ConcatProperties DEF IsSeqOf, Joins, IsJoined

\* A sequence of n elements with one inserted before, or without, the element at a
\* place.
IsInserted(s, n, at, e, t) ==
  t = [i \in 1 .. n + 1 |-> IF i < at THEN s[i] ELSE IF i = at THEN e ELSE s[i - 1]]

IsRemoved(s, n, at, t) == t = [i \in 1 .. n - 1 |-> IF i < at THEN s[i] ELSE s[i + 1]]

\* What InsertAt of the community modules returns.
LEMMA InsertedSeqFacts ==
  ASSUME NEW S, NEW n \in Nat, NEW s, IsSeqOf(S, n, s), NEW e \in S, NEW at \in 1 .. n + 1
  PROVE  IsInserted(s, n, at, e, Sequence!InsertAt(s, at, e))
<1> s \in Seq(S) /\ Len(s) = n
  BY DEF IsSeqOf
<1>1. PICK m \in Nat : m = at - 1
  OBVIOUS
<1>2. PICK k \in Nat : k = n - at + 1
  OBVIOUS
<1>3. PICK a : a = SubSeq(s, 1, at - 1)
  OBVIOUS
<1>4. a \in Seq(S) /\ Len(a) = m /\ \A i \in 1 .. m : a[i] = s[i]
  BY <1>1, <1>3, SubSeqProperties
<1>5. PICK b : b = SubSeq(s, at, n)
  OBVIOUS
<1>6. b \in Seq(S) /\ Len(b) = k /\ \A i \in 1 .. k : b[i] = s[at + i - 1]
  BY <1>2, <1>5, SubSeqProperties
<1>7. PICK c : c = <<e>>
  OBVIOUS
<1>8. c \in Seq(S) /\ Len(c) = 1 /\ c[1] = e
  BY <1>7
<1>9. PICK ac : IsJoined(a, c, ac)
  BY DEF IsJoined
<1>10. PICK l \in Nat : l = m + 1
  OBVIOUS
<1>11. IsSeqOf(S, l, ac) /\ Joins(a, m, c, ac, l)
  <2>1. IsSeqOf(S, m, a) /\ IsSeqOf(S, 1, c)
    BY <1>4, <1>8 DEF IsSeqOf
  <2> QED BY <1>1, <1>9, <1>10, <2>1, JoinFacts
<1>12. PICK all : IsJoined(ac, b, all)
  BY DEF IsJoined
<1>13. PICK total \in Nat : total = n + 1
  OBVIOUS
<1>14. IsSeqOf(S, total, all) /\ Joins(ac, l, b, all, total)
  <2>1. total = l + k
    BY <1>1, <1>2, <1>10, <1>13
  <2>2. IsSeqOf(S, k, b)
    BY <1>6 DEF IsSeqOf
  <2> QED BY <1>2, <1>10, <1>11, <1>12, <1>13, <2>1, <2>2, JoinFacts
<1>15. ASSUME NEW i \in 1 .. n + 1
       PROVE  all[i] = IF i < at THEN s[i] ELSE IF i = at THEN e ELSE s[i - 1]
  <2>1. CASE i < at
    <3>1. i \in 1 .. m /\ i \in 1 .. l /\ i \in 1 .. total /\ i <= m /\ i <= l
      BY <1>1, <1>10, <1>13, <2>1
    <3> QED BY <1>4, <1>11, <1>14, <2>1, <3>1 DEF Joins
  <2>2. CASE i = at
    <3>1. i \in 1 .. l /\ i \in 1 .. total /\ i <= l /\ ~ i <= m /\ i - m = 1
      BY <1>1, <1>10, <1>13, <2>2
    <3>2. ac[i] = c[1]
      BY <1>11, <3>1 DEF Joins
    <3> QED BY <1>8, <1>14, <2>2, <3>1, <3>2 DEF Joins
  <2>3. CASE i > at
    <3>1. PICK j \in 1 .. k : j = i - l
      BY <1>1, <1>2, <1>10, <2>3
    <3>2. b[j] = s[at + j - 1] /\ at + j - 1 = i - 1 /\ ~ i <= l /\ i \in 1 .. total
      BY <1>1, <1>6, <1>10, <1>13, <2>3, <3>1
    <3> QED BY <1>14, <2>3, <3>1, <3>2 DEF Joins
  <2> QED BY <2>1, <2>2, <2>3
<1>16. DOMAIN all = 1 .. n + 1 /\ all = [i \in DOMAIN all |-> all[i]]
  BY <1>13, <1>14 DEF IsSeqOf
<1>17. Sequence!InsertAt(s, at, e) = all
  BY <1>3, <1>5, <1>7, <1>9, <1>12 DEF IsJoined, Sequence!InsertAt
<1> QED BY <1>15, <1>16, <1>17, Zenon DEF IsInserted

\* What RemoveAt returns.
LEMMA RemovedSeqFacts ==
  ASSUME NEW S, NEW n \in Nat, NEW s, IsSeqOf(S, n, s), NEW at \in 1 .. n
  PROVE  IsRemoved(s, n, at, Sequence!RemoveAt(s, at))
<1> s \in Seq(S) /\ Len(s) = n
  BY DEF IsSeqOf
<1>1. PICK m \in Nat : m = at - 1
  OBVIOUS
<1>2. PICK k \in Nat : k = n - at
  OBVIOUS
<1>3. PICK a : a = SubSeq(s, 1, at - 1)
  OBVIOUS
<1>4. a \in Seq(S) /\ Len(a) = m /\ \A i \in 1 .. m : a[i] = s[i]
  BY <1>1, <1>3, SubSeqProperties
<1>5. PICK b : b = SubSeq(s, at + 1, n)
  OBVIOUS
<1>6. b \in Seq(S) /\ Len(b) = k /\ \A i \in 1 .. k : b[i] = s[at + i]
  BY <1>2, <1>5, SubSeqProperties
<1>7. PICK all : IsJoined(a, b, all)
  BY DEF IsJoined
<1>8. PICK total \in Nat : total = n - 1 /\ total = m + k
  BY <1>1, <1>2
<1>9. IsSeqOf(S, total, all) /\ Joins(a, m, b, all, total)
  <2>1. IsSeqOf(S, m, a) /\ IsSeqOf(S, k, b)
    BY <1>4, <1>6 DEF IsSeqOf
  <2> QED BY <1>1, <1>2, <1>7, <1>8, <2>1, JoinFacts
<1>10. ASSUME NEW i \in 1 .. n - 1
       PROVE  all[i] = IF i < at THEN s[i] ELSE s[i + 1]
  <2>1. CASE i < at
    <3>1. i \in 1 .. m /\ i <= m
      BY <1>1, <2>1
    <3> QED BY <1>4, <1>8, <1>9, <2>1, <3>1 DEF Joins
  <2>2. CASE i >= at
    <3>1. PICK j \in 1 .. k : j = i - m
      BY <1>1, <1>2, <2>2
    <3>2. b[j] = s[at + j] /\ at + j = i + 1 /\ ~ i <= m
      BY <1>1, <1>6, <2>2, <3>1
    <3>3. i \in 1 .. total
      BY <1>8
    <3> QED BY <1>9, <2>2, <3>1, <3>2, <3>3 DEF Joins
  <2> QED BY <2>1, <2>2
<1>11. DOMAIN all = 1 .. n - 1 /\ all = [i \in DOMAIN all |-> all[i]]
  BY <1>8, <1>9 DEF IsSeqOf
<1>12. Sequence!RemoveAt(s, at) = all
  BY <1>3, <1>5, <1>7 DEF IsJoined, Sequence!RemoveAt
<1> QED BY <1>10, <1>11, <1>12, Zenon DEF IsRemoved

\* An element is removed at the first place it has.
LEMMA RemoveFirstFacts ==
  ASSUME NEW s, NEW e, NEW at \in 1 .. Len(s), s[at] = e, Len(s) \in Nat,
         \A i \in 1 .. Len(s) : s[i] = e => at <= i
  PROVE  Sequence!Contains(s, e) /\ Sequence!RemoveFirst(s, e) = Sequence!RemoveAt(s, at)
<1> DEFINE I == {i \in 1 .. Len(s) : s[i] = e}
<1>1. at \in I /\ \A i \in I : at <= i
  OBVIOUS
<1>2. Sequence!Min(I) = at
  BY <1>1 DEF Sequence!Min
<1>3. Sequence!SelectInSeq(s, LAMBDA v : v = e) = at
  BY <1>1, <1>2 DEF Sequence!SelectInSeq
<1> QED BY <1>1, <1>3 DEF Sequence!RemoveFirst, Sequence!Contains

----------------------------------------------------------------------------
\* What the operations do to the array is what SequenceSpec does to the sequence.
LEMMA SeenPushed ==
  ASSUME NEW r, IsArray(r), NEW e \in ListElements
  PROVE  Seen(WriteValueArray(r, e)) = Append(Seen(r), e)
<1>1. PICK n \in Nat : n = r.count
  BY DEF IsArray
<1>2. PICK w : w = WriteValueArray(r, e)
  OBVIOUS
<1>3. w.count = n + 1 /\ \A i \in 0 .. n : w.values[i] = IF i < n THEN r.values[i] ELSE e
  BY <1>1, <1>2, PushFacts
<1>4. PICK s \in Seq(ListElements) : s = Seen(r)
  BY SeenIsSeq
<1>5. Len(s) = n /\ \A i \in 1 .. n : s[i] = r.values[i - 1]
  BY <1>1, <1>4, SeenIsSeq
<1>6. Append(s, e) = [i \in 1 .. n + 1 |-> IF i <= n THEN s[i] ELSE e]
  <2>1. PICK t : t = Append(s, e)
    OBVIOUS
  <2>2. t \in Seq(ListElements) /\ Len(t) = n + 1
    BY <1>4, <1>5, <2>1
  <2>3. DOMAIN t = 1 .. n + 1 /\ t = [i \in DOMAIN t |-> t[i]]
    BY <1>1, <2>2
  <2>4. ASSUME NEW i \in 1 .. n + 1
        PROVE  t[i] = IF i <= n THEN s[i] ELSE e
    <3>1. CASE i <= n
      BY <1>1, <1>4, <1>5, <2>1, <3>1
    <3>2. CASE i = n + 1
      BY <1>1, <1>4, <1>5, <2>1, <3>2
    <3> QED BY <1>1, <3>1, <3>2
  <2> QED BY <2>1, <2>3, <2>4, Zenon
<1>7. ASSUME NEW i \in 1 .. n + 1
      PROVE  w.values[i - 1] = IF i <= n THEN s[i] ELSE e
  <2>1. i - 1 \in 0 .. n /\ (i - 1 < n <=> i <= n)
    BY <1>1
  <2>2. CASE i <= n
    <3>1. s[i] = r.values[i - 1]
      BY <1>1, <1>5, <2>2
    <3> QED BY <1>3, <2>1, <2>2, <3>1
  <2>3. CASE ~ i <= n
    BY <1>3, <2>1, <2>3
  <2> QED BY <2>2, <2>3
<1>8. Seen(w) = [i \in 1 .. n + 1 |-> w.values[i - 1]]
  BY <1>3 DEF Seen
<1> QED BY <1>2, <1>4, <1>6, <1>7, <1>8

\* An insertion into the array is one into the sequence.
LEMMA SeenInserted ==
  ASSUME NEW r, IsArray(r), NEW e \in ListElements, NEW at \in 0 .. r.count
  PROVE  Seen(InsertedInto(r, at, e)) = Sequence!InsertAt(Seen(r), at + 1, e)
<1>1. PICK n \in Nat : n = r.count
  BY DEF IsArray
<1>2. PICK w : w = InsertedInto(r, at, e)
  OBVIOUS
<1>3. /\ w.count = n + 1
      /\ \A i \in 0 .. n : w.values[i] =
           IF i < at THEN r.values[i] ELSE IF i = at THEN e ELSE r.values[i - 1]
  BY <1>1, <1>2, InsertFacts
<1>4. PICK s \in Seq(ListElements) : s = Seen(r)
  BY SeenIsSeq
<1>5. Len(s) = n /\ \A i \in 1 .. n : s[i] = r.values[i - 1]
  BY <1>1, <1>4, SeenIsSeq
<1>6. PICK place \in 1 .. n + 1 : place = at + 1
  BY <1>1
<1>7. IsInserted(s, n, place, e, Sequence!InsertAt(s, place, e))
  <2>1. IsSeqOf(ListElements, n, s)
    BY <1>4, <1>5 DEF IsSeqOf
  <2> QED BY <1>1, <1>6, <2>1, InsertedSeqFacts
<1>8. ASSUME NEW i \in 1 .. n + 1
      PROVE  w.values[i - 1] = IF i < place THEN s[i] ELSE IF i = place THEN e ELSE s[i - 1]
  <2>1. i - 1 \in 0 .. n
    OBVIOUS
  <2>2. CASE i < place
    BY <1>3, <1>5, <1>6, <2>1, <2>2
  <2>3. CASE i = place
    BY <1>3, <1>6, <2>1, <2>3
  <2>4. CASE i > place
    <3>1. i - 1 \in 1 .. n /\ ~ i - 1 < at /\ i - 1 # at
      BY <1>1, <1>6, <2>4
    <3> QED BY <1>3, <1>5, <2>1, <2>4, <3>1
  <2> QED BY <1>6, <2>2, <2>3, <2>4
<1>9. Seen(w) = [i \in 1 .. n + 1 |-> w.values[i - 1]]
  BY <1>3 DEF Seen
<1> QED BY <1>2, <1>4, <1>6, <1>7, <1>8, <1>9 DEF IsInserted

\* An element that leaves the array leaves the sequence.
LEMMA SeenWithout ==
  ASSUME NEW r, IsArray(r), NEW at \in 0 .. r.count - 1
  PROVE  Seen(WithoutAt(r, at)) = Sequence!RemoveAt(Seen(r), at + 1)
<1>1. PICK n \in Nat : n = r.count
  BY DEF IsArray
<1>2. PICK w : w = WithoutAt(r, at)
  OBVIOUS
<1>3. /\ w.count = n - 1
      /\ \A i \in 0 .. n - 2 : w.values[i] = IF i < at THEN r.values[i] ELSE r.values[i + 1]
  <2>1. 0 < r.count /\ at \in 0 .. r.count
    BY <1>1
  <2> QED BY <1>1, <1>2, <2>1, DownFacts
<1>4. PICK s \in Seq(ListElements) : s = Seen(r)
  BY SeenIsSeq
<1>5. Len(s) = n /\ \A i \in 1 .. n : s[i] = r.values[i - 1]
  BY <1>1, <1>4, SeenIsSeq
<1>6. PICK place \in 1 .. n : place = at + 1
  BY <1>1
<1>7. IsRemoved(s, n, place, Sequence!RemoveAt(s, place))
  <2>1. IsSeqOf(ListElements, n, s)
    BY <1>4, <1>5 DEF IsSeqOf
  <2> QED BY <1>1, <1>6, <2>1, RemovedSeqFacts
<1>8. ASSUME NEW i \in 1 .. n - 1
      PROVE  w.values[i - 1] = IF i < place THEN s[i] ELSE s[i + 1]
  <2>1. i - 1 \in 0 .. n - 2 /\ i \in 1 .. n /\ i + 1 \in 1 .. n
    BY <1>1
  <2>2. (i + 1) - 1 = i /\ (i - 1) + 1 = i /\ (i < place <=> i - 1 < at)
    BY <1>1, <1>6
  <2>3. s[i + 1] = r.values[i]
    BY <1>5, <2>1, <2>2
  <2> QED BY <1>3, <1>5, <2>1, <2>2, <2>3
<1>9. Seen(w) = [i \in 1 .. n - 1 |-> w.values[i - 1]]
  BY <1>3 DEF Seen
<1> QED BY <1>2, <1>4, <1>6, <1>7, <1>8, <1>9 DEF IsRemoved

\* The last one likewise.
LEMMA SeenLastOut ==
  ASSUME NEW r, IsArray(r), 0 < r.count
  PROVE  Seen(LastOut(r)) = Sequence!RemoveAt(Seen(r), r.count)
<1>1. PICK n \in Nat : n = r.count
  BY DEF IsArray
<1>2. PICK w : w = LastOut(r)
  OBVIOUS
<1>3. w.count = n - 1 /\ \A i \in 0 .. n - 2 : w.values[i] = r.values[i]
  BY <1>1, <1>2, LastFacts
<1>4. PICK s \in Seq(ListElements) : s = Seen(r)
  BY SeenIsSeq
<1>5. Len(s) = n /\ \A i \in 1 .. n : s[i] = r.values[i - 1]
  BY <1>1, <1>4, SeenIsSeq
<1>6. IsRemoved(s, n, n, Sequence!RemoveAt(s, n))
  <2>1. n \in 1 .. n
    BY <1>1
  <2>2. IsSeqOf(ListElements, n, s)
    BY <1>4, <1>5 DEF IsSeqOf
  <2> QED BY <1>1, <2>1, <2>2, RemovedSeqFacts
<1>7. ASSUME NEW i \in 1 .. n - 1
      PROVE  w.values[i - 1] = IF i < n THEN s[i] ELSE s[i + 1]
  <2>1. i - 1 \in 0 .. n - 2 /\ i \in 1 .. n /\ i < n
    BY <1>1
  <2> QED BY <1>3, <1>5, <2>1
<1>8. Seen(w) = [i \in 1 .. n - 1 |-> w.values[i - 1]]
  BY <1>3 DEF Seen
<1> QED BY <1>1, <1>2, <1>4, <1>6, <1>7, <1>8 DEF IsRemoved

\* An element assigned in the array is replaced in the sequence.
LEMMA SeenAssigned ==
  ASSUME NEW r, IsArray(r), NEW e \in ListElements, NEW at \in 0 .. r.count - 1
  PROVE  Seen(Assigned(r, at, e)) = Sequence!ReplaceAt(Seen(r), at + 1, e)
<1>1. PICK n \in Nat : n = r.count
  BY DEF IsArray
<1>2. PICK w : w = Assigned(r, at, e)
  OBVIOUS
<1>3. w.count = n /\ \A i \in 0 .. n - 1 : w.values[i] = IF i = at THEN e ELSE r.values[i]
  <2>1. /\ w.count = r.count
        /\ \A i \in 0 .. r.count - 1 : w.values[i] = IF i = at THEN e ELSE r.values[i]
    BY <1>2, AssignFacts
  <2> QED BY <1>1, <2>1
<1>4. PICK s : s = Seen(r)
  OBVIOUS
<1>5. s = [i \in 1 .. n |-> r.values[i - 1]]
  BY <1>1, <1>4 DEF Seen
<1>6. PICK place \in 1 .. n : place = at + 1
  BY <1>1
<1>7. Sequence!ReplaceAt(s, place, e) = [i \in 1 .. n |-> IF i = place THEN e ELSE s[i]]
  BY <1>5 DEF Sequence!ReplaceAt
<1>8. ASSUME NEW i \in 1 .. n
      PROVE  w.values[i - 1] = IF i = place THEN e ELSE s[i]
  <2>1. i - 1 \in 0 .. n - 1 /\ (i = place <=> i - 1 = at)
    BY <1>1, <1>6
  <2> QED BY <1>3, <1>5, <2>1
<1>9. Seen(w) = [i \in 1 .. n |-> w.values[i - 1]]
  BY <1>3 DEF Seen
<1> QED BY <1>2, <1>4, <1>6, <1>7, <1>8, <1>9

\* An array turned around shows the sequence turned around.
LEMMA SeenReversed ==
  ASSUME NEW r, IsArray(r)
  PROVE  Seen(Reversed(r)) = Sequence!Reverse(Seen(r))
<1>1. PICK n \in Nat : n = r.count
  BY DEF IsArray
<1>2. PICK w : w = Reversed(r)
  OBVIOUS
<1>3. w.count = n /\ \A i \in 0 .. n - 1 : w.values[i] = r.values[n - 1 - i]
  BY <1>1, <1>2, ReversedFacts
<1>4. PICK s \in Seq(ListElements) : s = Seen(r)
  BY SeenIsSeq
<1>5. Len(s) = n /\ \A i \in 1 .. n : s[i] = r.values[i - 1]
  BY <1>1, <1>4, SeenIsSeq
<1>6. Sequence!Reverse(s) = [i \in 1 .. n |-> s[(n - i) + 1]]
  BY <1>5 DEF Sequence!Reverse
<1>7. ASSUME NEW i \in 1 .. n
      PROVE  w.values[i - 1] = s[(n - i) + 1]
  <2>1. i - 1 \in 0 .. n - 1 /\ n - 1 - (i - 1) = n - i
    BY <1>1
  <2>2. PICK j \in 1 .. n : j = (n - i) + 1 /\ j - 1 = n - i
    BY <1>1
  <2>3. s[j] = r.values[n - i]
    BY <1>5, <2>2
  <2>4. w.values[i - 1] = r.values[n - i]
    BY <1>3, <2>1
  <2> QED BY <2>2, <2>3, <2>4
<1>8. Seen(w) = [i \in 1 .. n |-> w.values[i - 1]]
  BY <1>3 DEF Seen
<1> QED BY <1>2, <1>4, <1>6, <1>7, <1>8

----------------------------------------------------------------------------
\* What a step makes of the list, once its effect on the array is known.
LEMMA ItemsAre ==
  ListInv => /\ Items = Seen(list) /\ Items \in Seq(ListElements)
             /\ Count \in Nat /\ Len(Items) = Count /\ DOMAIN Items = 1 .. Count
             /\ \A i \in 1 .. Count : Items[i] = list.values[i - 1]
<1> SUFFICES ASSUME ListInv
             PROVE  /\ Items = Seen(list) /\ Items \in Seq(ListElements)
                    /\ Count \in Nat /\ Len(Items) = Count /\ DOMAIN Items = 1 .. Count
                    /\ \A i \in 1 .. Count : Items[i] = list.values[i - 1]
  OBVIOUS
<1>1. Items = Seen(list)
  BY DEF Items, Seen, Count
<1>2. IsArray(list) /\ list.count \in Nat
  BY DEF ListInv, IsArray
<1>3. /\ Seen(list) \in Seq(ListElements) /\ Len(Seen(list)) = list.count
      /\ \A i \in 1 .. list.count : Seen(list)[i] = list.values[i - 1]
  BY <1>2, SeenIsSeq
<1> QED BY <1>1, <1>2, <1>3 DEF Count

\* The same after a step.
LEMMA ItemsNext ==
  Items' = Seen(list')
  BY DEF Items, Seen, Count

\* An pos from the program and the position it means.
LEMMA Positions ==
  ASSUME ListInv, NEW pos \in Int
  PROVE  Slot(pos) \in Int /\ Sequence!Position(pos) = Slot(pos) + 1
  BY ItemsAre DEF Slot, Sequence!Position

\* The steps, one by one: each keeps the invariant and is a step of the sequence.
LEMMA PushStep ==
  ASSUME ListInv, NEW e \in ListElements, PushItem(e)
  PROVE  ListInv' /\ Sequence!Push(e)
<1>1. list' = WriteValueArray(list, e) /\ replied' = None /\ beyond' = FALSE
  BY DEF PushItem, Replies
<1>2. IsArray(list)
  BY DEF ListInv
<1>3. IsArray(list')
  BY <1>1, <1>2, PushFacts
<1>4. Items' = Append(Items, e)
  BY <1>1, <1>2, SeenPushed, ItemsAre, ItemsNext
<1> QED BY <1>1, <1>3, <1>4 DEF ListInv, Sequence!Push, Sequence!Is

\* A call that fails changes neither list nor sequence.
LEMMA FailStep ==
  ASSUME ListInv, ListFails
  PROVE  ListInv' /\ Sequence!Fails
<1>1. list' = list /\ replied' = Error /\ beyond' = FALSE
  BY DEF ListFails, Replies
<1>2. Items' = Items
  BY <1>1, ItemsNext, ItemsAre
<1> QED BY <1>1, <1>2 DEF ListInv, Sequence!Fails, Sequence!Is

\* insert(): a place out of range fails in both.
LEMMA InsertStep ==
  ASSUME ListInv, NEW e \in ListElements, NEW pos \in Int, InsertItem(e, pos)
  PROVE  ListInv' /\ Sequence!Insert(e, pos)
<1>1. PICK n \in Nat : n = Count /\ n = list.count /\ n = Len(Items)
  BY ItemsAre DEF Count
<1>2. PICK at \in Int : at = IF pos < 0 THEN n + pos + 1 ELSE pos
  OBVIOUS
<1>3. PICK place \in Int : place = at + 1
  OBVIOUS
<1>4. place = IF pos < 0 THEN Sequence!Position(pos) + 1 ELSE Sequence!Position(pos)
  BY <1>1, <1>2, <1>3 DEF Sequence!Position
<1>5. Sequence!Insert(e, pos) <=>
        IF place \in 1 .. n + 1 THEN Sequence!Is(Sequence!InsertAt(Items, place, e), None)
        ELSE Sequence!Fails
  BY <1>1, <1>4 DEF Sequence!Insert
<1>6. CASE at < 0 \/ at > n
  <2>1. ListFails
    BY <1>1, <1>2, <1>6 DEF InsertItem
  <2>2. ~ place \in 1 .. n + 1
    BY <1>3, <1>6
  <2> QED BY <1>5, <2>1, <2>2, FailStep
<1>7. CASE ~ (at < 0 \/ at > n)
  <2>1. list' = InsertedInto(list, at, e) /\ replied' = None /\ beyond' = FALSE
    BY <1>1, <1>2, <1>7 DEF InsertItem, InsertedInto, Replies
  <2>2. IsArray(list) /\ at \in 0 .. list.count /\ place \in 1 .. n + 1
    BY <1>1, <1>3, <1>7 DEF ListInv
  <2>3. IsArray(list')
    BY <2>1, <2>2, InsertFacts
  <2>4. Items' = Sequence!InsertAt(Items, place, e)
    BY <1>3, <2>1, <2>2, SeenInserted, ItemsAre, ItemsNext
  <2> QED BY <1>5, <2>1, <2>2, <2>3, <2>4 DEF ListInv, Sequence!Is
<1> QED BY <1>6, <1>7

\* pop(pos): the pos of the slot behind the last element is the exception.
LEMMA PopAtStep ==
  ASSUME ListInv, NEW pos \in Int, PopItemAt(pos)
  PROVE  ListInv' /\ (beyond' \/ Sequence!Pop(pos))
<1>1. PICK n \in Nat : n = Count /\ n = list.count /\ DOMAIN Items = 1 .. n
  BY ItemsAre DEF Count
<1>2. PICK at \in Int : at = Slot(pos) /\ Sequence!Position(pos) = at + 1
  BY Positions
<1>3. PICK place \in Int : place = at + 1
  OBVIOUS
<1>4. Sequence!Pop(pos) <=>
        IF place \in 1 .. n THEN Sequence!Is(Sequence!RemoveAt(Items, place), Items[place])
        ELSE Sequence!Fails
  BY <1>1, <1>2, <1>3 DEF Sequence!Pop
<1>5. IsArray(list) /\ list.capacity \in Nat /\ n <= list.capacity
  BY <1>1 DEF ListInv, IsArray
<1>6. CASE n = 0 \/ at < 0 \/ at > n
  <2>1. ListFails
    BY <1>1, <1>2, <1>6 DEF PopItemAt
  <2>2. ~ place \in 1 .. n
    BY <1>3, <1>6
  <2> QED BY <1>4, <2>1, <2>2, FailStep
<1>7. CASE ~ (n = 0 \/ at < 0 \/ at > n)
  <2>1. /\ list' = WithoutAt(list, at) /\ beyond' = (at = n)
        /\ replied' = IF at < list.capacity THEN list.values[at] ELSE Garbage
    BY <1>1, <1>2, <1>7 DEF PopItemAt, WithoutAt
  <2>2. 0 < list.count /\ at \in 0 .. list.count
    BY <1>1, <1>7
  <2>3. IsArray(list')
    BY <1>5, <2>1, <2>2, DownFacts
  <2>4. replied' \in ListElements \cup {Garbage}
    <3>1. CASE at < list.capacity
      <4>1. at \in 0 .. list.capacity - 1
        BY <1>5, <2>2, <3>1
      <4> QED BY <1>5, <2>1, <3>1, <4>1 DEF IsArray
    <3> QED BY <2>1, <3>1
  <2>5. ListInv'
    BY <2>1, <2>3, <2>4 DEF ListInv
  <2>6. CASE at = n
    BY <2>1, <2>5, <2>6
  <2>7. CASE at # n
    <3>1. at \in 0 .. list.count - 1 /\ place \in 1 .. n /\ place - 1 = at /\ at < list.capacity
      BY <1>1, <1>3, <1>5, <2>2, <2>7
    <3>2. Items' = Sequence!RemoveAt(Items, place)
      BY <1>3, <1>5, <2>1, <3>1, SeenWithout, ItemsAre, ItemsNext
    <3>3. replied' = Items[place]
      BY <1>1, <2>1, <3>1, ItemsAre
    <3> QED BY <1>4, <2>5, <3>1, <3>2, <3>3 DEF Sequence!Is
  <2> QED BY <2>6, <2>7
<1> QED BY <1>6, <1>7

\* pop() is pop(-1).
LEMMA PopStep ==
  ASSUME ListInv, PopItem
  PROVE  ListInv' /\ Sequence!Pop(-1)
<1>1. PICK n \in Nat : n = Count /\ n = list.count /\ DOMAIN Items = 1 .. n
  BY ItemsAre DEF Count
<1>2. Sequence!Position(-1) = n
  BY <1>1, Positions DEF Slot
<1>3. Sequence!Pop(-1) <=>
        IF n \in 1 .. n THEN Sequence!Is(Sequence!RemoveAt(Items, n), Items[n])
        ELSE Sequence!Fails
  BY <1>1, <1>2 DEF Sequence!Pop
<1>4. CASE n = 0
  <2>1. ListFails
    BY <1>1, <1>4 DEF PopItem
  <2>2. ~ n \in 1 .. n
    BY <1>4
  <2> QED BY <1>3, <2>1, <2>2, FailStep
<1>5. CASE n # 0
  <2>1. /\ list' = LastOut(list) /\ beyond' = FALSE
        /\ replied' = list.values[n - 1]
    BY <1>1, <1>5 DEF PopItem, LastOut, Replies
  <2>2. IsArray(list) /\ 0 < list.count /\ n \in 1 .. n /\ n - 1 \in 0 .. n - 1
    BY <1>1, <1>5 DEF ListInv
  <2>3. IsArray(list')
    BY <2>1, <2>2, LastFacts
  <2>4. replied' \in ListElements
    BY <1>1, <2>1, <2>2 DEF IsArray
  <2>5. Items' = Sequence!RemoveAt(Items, n)
    BY <1>1, <2>1, <2>2, SeenLastOut, ItemsAre, ItemsNext
  <2>6. replied' = Items[n]
    BY <1>1, <2>1, <2>2, ItemsAre
  <2> QED BY <1>3, <2>1, <2>2, <2>3, <2>4, <2>5, <2>6 DEF ListInv, Sequence!Is
<1> QED BY <1>4, <1>5

\* remove(): the loop stops at the first equal element.
LEMMA RemoveItemStep ==
  ASSUME ListInv, NEW e \in ListElements, RemoveItem(e)
  PROVE  ListInv' /\ Sequence!RemoveValue(e)
<1>1. PICK n \in Nat : /\ n = Count /\ n = list.count /\ Len(Items) = n
                       /\ \A i \in 1 .. n : Items[i] = list.values[i - 1]
  BY ItemsAre DEF Count
<1>2. PICK places : places = {i \in 0 .. n - 1 : list.values[i] = e}
  OBVIOUS
<1>3. CASE places = {}
  <2>1. ListFails
    BY <1>1, <1>2, <1>3 DEF RemoveItem
  <2>2. ASSUME NEW i \in 1 .. n, Items[i] = e
        PROVE  FALSE
    <3>1. i - 1 \in places
      BY <1>1, <1>2, <2>2
    <3> QED BY <1>3, <3>1
  <2>3. ~ Sequence!Contains(Items, e)
    BY <1>1, <2>2 DEF Sequence!Contains
  <2> QED BY <2>1, <2>3, FailStep DEF Sequence!RemoveValue
<1>4. CASE places # {}
  <2>1. places \subseteq Nat
    BY <1>2
  <2>2. PICK first \in places : \A j \in places : first <= j
    BY <1>4, <2>1, Least
  <2>3. first = CHOOSE i \in places : \A j \in places : i <= j
    <3>1. PICK m : m = CHOOSE i \in places : \A j \in places : i <= j
      OBVIOUS
    <3>2. m \in places /\ \A j \in places : m <= j
      BY <2>2, <3>1, Zenon
    <3> QED BY <2>1, <2>2, <3>1, <3>2
  <2>4. list' = WithoutAt(list, first) /\ replied' = None /\ beyond' = FALSE
    BY <1>1, <1>2, <1>4, <2>3 DEF RemoveItem, WithoutAt, Replies
  <2>5. IsArray(list) /\ first \in 0 .. list.count - 1 /\ 0 < list.count /\ first \in 0 .. list.count
    BY <1>1, <1>2, <2>2 DEF ListInv
  <2>6. IsArray(list')
    BY <2>4, <2>5, DownFacts
  <2>7. PICK at \in 1 .. n : at = first + 1 /\ Items[at] = e
    <3>1. first + 1 \in 1 .. n /\ (first + 1) - 1 = first
      BY <1>1, <2>5
    <3> QED BY <1>1, <1>2, <2>2, <3>1
  <2>8. ASSUME NEW i \in 1 .. n, Items[i] = e
        PROVE  at <= i
    <3>1. i - 1 \in places
      BY <1>1, <1>2, <2>8
    <3>2. first <= i - 1
      BY <2>2, <3>1
    <3> QED BY <2>5, <2>7, <3>2
  <2>9. /\ Sequence!Contains(Items, e)
        /\ Sequence!RemoveFirst(Items, e) = Sequence!RemoveAt(Items, at)
    BY <1>1, <2>7, <2>8, RemoveFirstFacts
  <2>10. Items' = Sequence!RemoveAt(Items, at)
    BY <2>4, <2>5, <2>7, SeenWithout, ItemsAre, ItemsNext
  <2> QED BY <2>4, <2>6, <2>9, <2>10 DEF ListInv, Sequence!RemoveValue, Sequence!Is
<1> QED BY <1>3, <1>4

\* reverse().
LEMMA ReverseStep ==
  ASSUME ListInv, ReverseList
  PROVE  ListInv' /\ Sequence!Turn
<1>1. list' = Reversed(list) /\ replied' = None /\ beyond' = FALSE
  BY DEF ReverseList, Reversed, Count, Replies
<1>2. IsArray(list)
  BY DEF ListInv
<1>3. IsArray(list')
  BY <1>1, <1>2, ReversedFacts
<1>4. Items' = Sequence!Reverse(Items)
  BY <1>1, <1>2, SeenReversed, ItemsAre, ItemsNext
<1> QED BY <1>1, <1>3, <1>4 DEF ListInv, Sequence!Turn, Sequence!Is

\* A subscript read.
LEMMA SubscriptStep ==
  ASSUME ListInv, NEW pos \in Int, SubscriptItem(pos)
  PROVE  ListInv' /\ Sequence!Get(pos)
<1>1. PICK n \in Nat : n = Count /\ n = list.count /\ DOMAIN Items = 1 .. n
  BY ItemsAre DEF Count
<1>2. PICK at \in Int : at = Slot(pos) /\ Sequence!Position(pos) = at + 1
  BY Positions
<1>3. PICK place \in Int : place = at + 1
  OBVIOUS
<1>4. Sequence!Get(pos) <=>
        IF place \in 1 .. n THEN Sequence!Is(Items, Items[place]) ELSE Sequence!Fails
  BY <1>1, <1>2, <1>3 DEF Sequence!Get
<1>5. CASE at < 0 \/ at >= n
  <2>1. ListFails
    BY <1>1, <1>2, <1>5 DEF SubscriptItem
  <2>2. ~ place \in 1 .. n
    BY <1>3, <1>5
  <2> QED BY <1>4, <2>1, <2>2, FailStep
<1>6. CASE ~ (at < 0 \/ at >= n)
  <2>1. list' = list /\ beyond' = FALSE /\ replied' = list.values[at]
    BY <1>1, <1>2, <1>6 DEF SubscriptItem, Replies
  <2>2. IsArray(list) /\ at \in 0 .. n - 1 /\ place \in 1 .. n /\ place - 1 = at
    BY <1>3, <1>6 DEF ListInv
  <2>3. replied' \in ListElements
    BY <1>1, <2>1, <2>2 DEF IsArray
  <2>4. replied' = Items[place]
    BY <1>1, <2>1, <2>2, ItemsAre
  <2>5. Items' = Items
    BY <2>1, ItemsAre, ItemsNext
  <2> QED BY <1>4, <2>1, <2>2, <2>3, <2>4, <2>5 DEF ListInv, Sequence!Is
<1> QED BY <1>5, <1>6

\* A subscript assigned.
LEMMA AssignItemStep ==
  ASSUME ListInv, NEW e \in ListElements, NEW pos \in Int, AssignItem(e, pos)
  PROVE  ListInv' /\ Sequence!Set(e, pos)
<1>1. PICK n \in Nat : n = Count /\ n = list.count /\ DOMAIN Items = 1 .. n
  BY ItemsAre DEF Count
<1>2. PICK at \in Int : at = Slot(pos) /\ Sequence!Position(pos) = at + 1
  BY Positions
<1>3. PICK place \in Int : place = at + 1
  OBVIOUS
<1>4. Sequence!Set(e, pos) <=>
        IF place \in 1 .. n THEN Sequence!Is(Sequence!ReplaceAt(Items, place, e), None)
        ELSE Sequence!Fails
  BY <1>1, <1>2, <1>3 DEF Sequence!Set
<1>5. CASE at < 0 \/ at >= n
  <2>1. ListFails
    BY <1>1, <1>2, <1>5 DEF AssignItem
  <2>2. ~ place \in 1 .. n
    BY <1>3, <1>5
  <2> QED BY <1>4, <2>1, <2>2, FailStep
<1>6. CASE ~ (at < 0 \/ at >= n)
  <2>1. list' = Assigned(list, at, e) /\ beyond' = FALSE /\ replied' = None
    BY <1>1, <1>2, <1>6 DEF AssignItem, Replies, Assigned
  <2>2. IsArray(list) /\ at \in 0 .. list.count - 1 /\ place \in 1 .. n
    BY <1>1, <1>3, <1>6 DEF ListInv
  <2>3. IsArray(list')
    BY <2>1, <2>2, AssignFacts
  <2>4. Items' = Sequence!ReplaceAt(Items, place, e)
    BY <1>3, <2>1, <2>2, SeenAssigned, ItemsAre, ItemsNext
  <2> QED BY <1>4, <2>1, <2>2, <2>3, <2>4 DEF ListInv, Sequence!Is
<1> QED BY <1>5, <1>6

----------------------------------------------------------------------------
\* The empty list.
LEMMA ListInitHolds ==
  ListInit => ListInv /\ Sequence!Init
<1> SUFFICES ASSUME ListInit PROVE ListInv /\ Sequence!Init
  OBVIOUS
<1>1. /\ list = [capacity |-> 0, count |-> 0, values |-> [i \in {} |-> Garbage]]
      /\ replied = None /\ beyond = FALSE
  BY DEF ListInit, NewList
<1>2. IsArray(list)
  <2>1. [i \in {} |-> Garbage] \in [0 .. 0 - 1 -> ListElements \cup {Garbage}]
    OBVIOUS
  <2> QED BY <1>1, <2>1 DEF IsArray
<1>3. ListInv
  BY <1>1, <1>2 DEF ListInv
<1>4. Items \in Seq(ListElements) /\ Len(Items) = 0
  BY <1>1, <1>3, ItemsAre DEF Count
<1>5. Items = <<>>
  BY <1>4
<1> QED BY <1>1, <1>3, <1>5 DEF Sequence!Init

\* Every step keeps the invariant, and is a step of the sequence unless it looks
\* behind the last element.
LEMMA StepIsSequence ==
  ListInv /\ [ListNext]_listVars => ListInv' /\ (UNCHANGED listVars \/ beyond' \/ Sequence!Next)
<1> SUFFICES ASSUME ListInv, [ListNext]_listVars
             PROVE  ListInv' /\ (UNCHANGED listVars \/ beyond' \/ Sequence!Next)
  OBVIOUS
<1>1. PICK n \in Nat : n = Count /\ n = Len(Items)
  BY ItemsAre
<1>2. Sequence!Indices = -n - 2 .. n + 1
  BY <1>1 DEF Sequence!Indices
<1>3. CASE \E e \in ListElements : PushItem(e) \/ RemoveItem(e)
  BY <1>3, PushStep, RemoveItemStep DEF Sequence!Next
<1>4. CASE PopItem
  <2>1. -1 \in Sequence!Indices
    BY <1>2
  <2> QED BY <1>4, <2>1, PopStep DEF Sequence!Next
<1>5. CASE ReverseList
  BY <1>5, ReverseStep DEF Sequence!Next
<1>6. ASSUME NEW pos \in -Count - 1 .. Count,
             PopItemAt(pos) \/ SubscriptItem(pos) \/ \E e \in ListElements : AssignItem(e, pos)
      PROVE  ListInv' /\ (beyond' \/ Sequence!Next)
  <2>1. pos \in Int /\ pos \in Sequence!Indices
    BY <1>1, <1>2
  <2>2. CASE PopItemAt(pos)
    BY <2>1, <2>2, PopAtStep DEF Sequence!Next
  <2>3. CASE SubscriptItem(pos)
    BY <2>1, <2>3, SubscriptStep DEF Sequence!Next
  <2>4. CASE \E e \in ListElements : AssignItem(e, pos)
    BY <2>1, <2>4, AssignItemStep DEF Sequence!Next
  <2> QED BY <1>6, <2>2, <2>3, <2>4
<1>7. ASSUME NEW pos \in -Count - 2 .. Count + 1, NEW e \in ListElements, InsertItem(e, pos)
      PROVE  ListInv' /\ Sequence!Next
  <2>1. pos \in Int /\ pos \in Sequence!Indices
    BY <1>1, <1>2
  <2> QED BY <1>7, <2>1, InsertStep DEF Sequence!Next
<1>8. CASE UNCHANGED listVars
  BY <1>8 DEF listVars, ListInv
<1> QED BY <1>3, <1>4, <1>5, <1>6, <1>7, <1>8 DEF ListNext

\* The inductive invariant holds in every state.
THEOREM ListInvariance == ListSpec => []ListInv
<1>1. ListInit => ListInv
  BY ListInitHolds
<1>2. ListInv /\ [ListNext]_listVars => ListInv'
  BY StepIsSequence
<1> QED BY <1>1, <1>2, PTL DEF ListSpec

\* The invariant gives every field its type.
LEMMA ListInvIsTyped == ListInv => ListTypeOK
BY DEF ListInv, IsArray, ListTypeOK

\* count stays within capacity, and slots hold elements or have not been written.
THEOREM ListTypeCorrect == ListSpec => []ListTypeOK
BY ListInvIsTyped, ListInvariance, PTL

\* What a program finds in a list has been put there: no operation, not even the
\* pop of the slot behind the last, leaves an unwritten slot among the elements.
THEOREM ElementsWritten == ListSpec => [](Items \in Seq(ListElements))
<1>1. ListInv => Items \in Seq(ListElements)
  BY ItemsAre
<1> QED BY <1>1, ListInvariance, PTL

\* A list is a sequence, but for the call that takes an element from behind the
\* last.
THEOREM SequenceImplemented == ListSpec => ListIsSequence
<1>1. ListInit => Sequence!Init
  BY ListInitHolds
<1>2. ListInv /\ [ListNext]_listVars =>
        [UNCHANGED listVars \/ beyond' \/ Sequence!Next]_<<Items, replied>>
  BY StepIsSequence
<1> QED BY <1>1, <1>2, ListInvariance, PTL DEF ListSpec, ListIsSequence

----------------------------------------------------------------------------
(***************************************************************************)
(* All of them.                                                            *)
(***************************************************************************)

\* A behaviour is that of one container, and what the others have does not change.
LEMMA ContainersSteps ==
  /\ [Next]_vars => [DictNext]_dictVars
  /\ [Next]_vars => [SetNext]_setVars
  /\ [Next]_vars => [QueueNext]_queueVars
  /\ [Next]_vars => [ListNext]_listVars
BY DEF Next, vars

\* Whichever container is used, all of them are as their types say.
THEOREM ContainersTypeCorrect == Spec => []TypeOK
<1>1. Init => DictInv /\ SetInv /\ QueueInv /\ ListInv
  BY DictInitHolds, SetInitHolds, QueueInitHolds, ListInitHolds DEF Init
<1>2. DictInv /\ [Next]_vars => DictInv'
  BY ContainersSteps, DictInductive
<1>3. SetInv /\ [Next]_vars => SetInv'
  BY ContainersSteps, SetInductive
<1>4. QueueInv /\ [Next]_vars => QueueInv'
  BY ContainersSteps, QueueInductive
<1>5. ListInv /\ [Next]_vars => ListInv'
  BY ContainersSteps, StepIsSequence
<1>6. DictInv /\ SetInv /\ QueueInv /\ ListInv => TypeOK
  BY DictInvIsTyped, SetInvIsTyped, QueueInvIsTyped, ListInvIsTyped DEF TypeOK
<1> QED BY <1>1, <1>2, <1>3, <1>4, <1>5, <1>6, PTL DEF Spec
=============================================================================
