---------------------------- MODULE TableProofs ----------------------------
(***************************************************************************)
(* Proofs about Table, for any keys, values and hash function and tables   *)
(* up to the size an int can count: probes end, no entry is lost, and the  *)
(* table is a map, under every interleaving of calls, growths and the      *)
(* collections inside them.                                                *)
(***************************************************************************)
EXTENDS Table, ProbingProofs

\* The slots of the array that adjustCapacity fills, if it does.
FreshCapacity == IF pc = "move" THEN NewCapacity ELSE 0

\* Every entry of either array is where a probe for its key ends.
Order == Settled(entries, capacity) /\ Settled(fresh, FreshCapacity)

\* The entries that adjustCapacity has moved.
Done == {i \in Live(entries) : i < moved}

Copied == pc = "move" => /\ Held(fresh) = {entries[i] : i \in Done}
                         /\ count = Cardinality(Done)

\* There is room for what is still to be stored, or a growth will make it.
Planned ==
  /\ IsFiniteSet(todo) /\ Cardinality(todo) <= 2
  /\ pc = "ready" /\ todo # {} =>
       4 * (count + Cardinality(todo)) <= 3 * capacity \/ NewCapacity <= MaxCapacity
  /\ pc # "ready" => NewCapacity <= MaxCapacity

IInv == TypeOK /\ LoadBounded /\ Order /\ Copied /\ Planned

----------------------------------------------------------------------------
(* The sizes of tables. *)

\* A table that grows within the bound has one of these sizes again, which leaves
\* room for two more entries than the old one could have.
LEMMA GrowthFacts ==
  ASSUME NEW cap \in {0} \cup {2 ^ n : n \in 3 .. 30}
  PROVE  /\ cap \in Nat /\ GrowCapacity(cap) \in Nat \ {0}
         /\ 3 * cap + 8 <= 3 * GrowCapacity(cap)
         /\ GrowCapacity(cap) <= MaxCapacity => GrowCapacity(cap) \in {2 ^ n : n \in 3 .. 30}
<1>1. /\ cap \in Nat /\ GrowCapacity(cap) \in Nat \ {0}
      /\ 3 * cap + 8 <= 3 * GrowCapacity(cap)
      /\ GrowCapacity(cap) <= 2 ^ 30 => GrowCapacity(cap) \in {2 ^ n : n \in 3 .. 30}
  BY SizeGrows
<1>2. GrowCapacity(cap) <= MaxCapacity => GrowCapacity(cap) <= 2 ^ 30
  <2>1. PICK top \in Nat : top = 2 ^ 30
    BY SMT
  <2>2. MaxCapacity \in Nat /\ MaxCapacity <= top
    BY <2>1, TableAssumption
  <2> QED BY <1>1, <2>1, <2>2
<1> QED BY <1>1, <1>2

----------------------------------------------------------------------------
(* What the invariant says of an array. *)

\* Both arrays are tables; one that has slots has a gap.
LEMMA ArrayFacts ==
  ASSUME IInv
  PROVE  /\ capacity \in Nat /\ NewCapacity \in Nat \ {0}
         /\ IsTable(entries, capacity) /\ Settled(entries, capacity)
         /\ capacity # 0 => HasGap(entries)
         /\ capacity = 0 => Live(entries) = {}
         /\ pc = "move" => /\ IsTable(fresh, NewCapacity) /\ Settled(fresh, NewCapacity)
                           /\ HasGap(fresh)
<1>1. capacity \in Nat /\ NewCapacity \in Nat \ {0}
  BY GrowthFacts DEF IInv, TypeOK, NewCapacity
<1>2. IsTable(entries, capacity) /\ Settled(entries, capacity)
  BY <1>1 DEF IInv, TypeOK, Order, IsTable
<1>3. capacity # 0 => HasGap(entries)
  BY <1>1, <1>2, GapFacts DEF IInv, LoadBounded
<1>4. capacity = 0 => Live(entries) = {}
  BY <1>1 DEF IInv, TypeOK, Live, Slots
<1>5. ASSUME pc = "move"
      PROVE  /\ IsTable(fresh, NewCapacity) /\ Settled(fresh, NewCapacity)
             /\ HasGap(fresh)
  <2>1. IsTable(fresh, NewCapacity) /\ Settled(fresh, NewCapacity)
    BY <1>1, <1>5 DEF IInv, TypeOK, Order, FreshCapacity, IsTable
  <2>2. 4 * Cardinality(Occupied(fresh)) <= 3 * NewCapacity
    BY <1>1, <1>5, <2>1, GapFacts DEF IInv, TypeOK, LoadBounded
  <2> QED BY <1>1, <2>1, <2>2, GapFacts
<1> QED BY <1>1, <1>2, <1>3, <1>4, <1>5

\* A lookup between two steps of a growth finds what the table holds.
LEMMA LookupFacts ==
  ASSUME IInv, pc # "move", NEW k \in Keys
  PROVE  /\ IsLive(Lookup(k)) => /\ capacity # 0 /\ count # 0
                                 /\ Find(entries, capacity, k) \in Live(entries)
                                 /\ Lookup(k) = entries[Find(entries, capacity, k)]
                                 /\ Lookup(k).key = k
         /\ ~ IsLive(Lookup(k)) => \A e \in Held(entries) : e.key # k
<1>1. CASE count = 0
  <2>1. Lookup(k) = Empty /\ ~ IsLive(Empty)
    BY <1>1 DEF Lookup, IsLive
  <2>2. Cardinality(Occupied(entries)) = 0
    BY <1>1, ArrayFacts, GapFacts DEF IInv, LoadBounded
  <2>3. Held(entries) = {}
    BY <2>2, ArrayFacts, GapFacts DEF Held
  <2> QED BY <2>1, <2>3
<1>2. CASE count # 0
  <2>1. capacity # 0
    BY <1>2, ArrayFacts DEF IInv, TypeOK, LoadBounded
  <2>2. Lookup(k) = entries[Find(entries, capacity, k)]
    BY <1>2 DEF Lookup
  <2>3. /\ Find(entries, capacity, k) \in Slots(capacity)
        /\ IsLive(Lookup(k)) => Lookup(k).key = k
        /\ ~ IsLive(Lookup(k)) => \A i \in Slots(capacity) : ~ HasKey(entries, i, k)
    BY <2>1, <2>2, ArrayFacts, FindFacts
  <2>4. DOMAIN entries = Slots(capacity)
    BY DEF IInv, TypeOK
  <2> QED BY <1>2, <2>1, <2>2, <2>3, <2>4 DEF Live, Held, HasKey
<1> QED BY <1>1, <1>2

----------------------------------------------------------------------------
(* Steps. *)

\* A new table is in order.
LEMMA InitHolds == Init => IInv
<1> SUFFICES ASSUME Init PROVE IInv
  OBVIOUS
<1>1. /\ entries = Blank(0) /\ fresh = Blank(0) /\ capacity = 0 /\ count = 0
      /\ pc = "ready" /\ todo = {} /\ moved = 0 /\ ret = NotFound
  BY DEF Init
<1>2. /\ IsTable(Blank(0), 0) /\ Settled(Blank(0), 0) /\ Occupied(Blank(0)) = {}
  BY BlankFacts
<1>3. TypeOK
  BY <1>1, <1>2 DEF TypeOK, IsTable
<1>4. LoadBounded
  BY <1>1, <1>2, FS_EmptySet DEF LoadBounded
<1>5. Order
  BY <1>1, <1>2 DEF Order, FreshCapacity
<1>6. Copied /\ Planned
  BY <1>1, FS_EmptySet DEF Copied, Planned
<1> QED BY <1>3, <1>4, <1>5, <1>6 DEF IInv

\* tableGet, and deletions of keys that are not there, change no more than the answer.
LEMMA AnswerStep ==
  ASSUME IInv, ret' \in Values \cup BOOLEAN \cup {NotFound},
         UNCHANGED <<entries, capacity, count, pc, todo, fresh, moved>>
  PROVE  IInv'
<1>1. TypeOK'
  BY DEF IInv, TypeOK, NewCapacity
<1>2. LoadBounded' /\ Order' /\ Copied' /\ Planned'
  BY DEF IInv, LoadBounded, Order, FreshCapacity, Copied, Done, Planned, NewCapacity
<1> QED BY <1>1, <1>2 DEF IInv

\* A call plans to store what there is room for, now or after one growth.
LEMMA StartStep ==
  ASSUME IInv, NEW bindings \in SUBSET Entry, IsFiniteSet(bindings),
         Cardinality(bindings) <= 2, Start(bindings)
  PROVE  IInv'
<1>1. pc = "ready" /\ UNCHANGED <<entries, capacity, count, pc, fresh, moved, ret>>
  BY DEF Start, Idle
<1>2. TypeOK'
  BY <1>1 DEF IInv, TypeOK, Start, NewCapacity
<1>3. LoadBounded' /\ Order' /\ Copied'
  BY <1>1 DEF IInv, LoadBounded, Order, FreshCapacity, Copied, Done, NewCapacity
<1>4. Planned'
  BY <1>1 DEF Start, Planned, NewCapacity
<1> QED BY <1>2, <1>3, <1>4 DEF IInv

\* A growth begins only where the bound allows it.
LEMMA GrowStep ==
  ASSUME IInv, Grow
  PROVE  IInv'
<1>1. /\ pc = "ready" /\ todo # {} /\ pc' = "alloc"
      /\ UNCHANGED <<entries, capacity, count, todo, fresh, moved, ret>>
      /\ 4 * (count + 1) > 3 * capacity
  BY DEF Grow, MustGrow, Full
<1>2. TypeOK'
  BY <1>1 DEF IInv, TypeOK, NewCapacity
<1>3. LoadBounded' /\ Order' /\ Copied'
  BY <1>1 DEF IInv, LoadBounded, Order, FreshCapacity, Copied, Done, NewCapacity
<1>4. Planned'
  <2>1. Cardinality(todo) \in Nat /\ Cardinality(todo) # 0
    BY <1>1, FS_CardinalityType, FS_EmptySet DEF IInv, Planned
  <2>2. count \in Nat /\ capacity \in Nat
    BY ArrayFacts DEF IInv, TypeOK
  <2>3. NewCapacity <= MaxCapacity
    BY <1>1, <2>1, <2>2 DEF IInv, Planned
  <2> QED BY <1>1, <2>3 DEF IInv, Planned, NewCapacity
<1> QED BY <1>2, <1>3, <1>4 DEF IInv

\* The new array is empty, and nothing has been moved.
LEMMA AllocateStep ==
  ASSUME IInv, Allocate
  PROVE  IInv'
<1>1. /\ pc = "alloc" /\ pc' = "move" /\ fresh' = Blank(NewCapacity) /\ moved' = 0
      /\ count' = 0 /\ UNCHANGED <<entries, capacity, todo, ret>>
  BY DEF Allocate
<1>2. /\ NewCapacity' = NewCapacity /\ NewCapacity \in Nat \ {0} /\ capacity \in Nat
  BY <1>1, ArrayFacts DEF NewCapacity
<1>3. /\ IsTable(fresh', NewCapacity) /\ Settled(fresh', NewCapacity)
      /\ Held(fresh') = {} /\ Occupied(fresh') = {}
  BY <1>1, <1>2, BlankFacts
<1>4. TypeOK'
  BY <1>1, <1>2, <1>3 DEF IInv, TypeOK, IsTable
<1>5. LoadBounded'
  BY <1>1, <1>2, <1>3, FS_EmptySet DEF IInv, LoadBounded
<1>6. Order'
  BY <1>1, <1>2, <1>3 DEF IInv, Order, FreshCapacity
<1>7. Copied'
  <2>1. Done' = {}
    BY <1>1 DEF Done, Live, IInv, TypeOK, Slots
  <2> QED BY <1>1, <1>3, <2>1, FS_EmptySet DEF Copied
<1>8. Planned'
  BY <1>1, <1>2 DEF IInv, Planned
<1> QED BY <1>4, <1>5, <1>6, <1>7, <1>8 DEF IInv

\* The entries moved are some of the occupied slots.
LEMMA DoneFacts ==
  ASSUME IInv, NEW some \in SUBSET Live(entries)
  PROVE  /\ IsFiniteSet(some) /\ Cardinality(some) \in Nat
         /\ Cardinality(some) <= Cardinality(Occupied(entries))
         /\ 4 * Cardinality(some) <= 3 * capacity
<1>1. some \in SUBSET Occupied(entries)
  BY DEF Live, Occupied, IsLive
<1>2. IsFiniteSet(Occupied(entries)) /\ Cardinality(Occupied(entries)) \in Nat
  BY ArrayFacts, GapFacts
<1>3. IsFiniteSet(some) /\ Cardinality(some) \in Nat /\ Cardinality(some) <= Cardinality(Occupied(entries))
  BY <1>1, <1>2, FS_Subset, FS_CardinalityType
<1> QED BY <1>2, <1>3, ArrayFacts DEF IInv, LoadBounded

\* An entry is moved to where a probe in the new array ends, and none is lost there.
LEMMA MoveStep ==
  ASSUME IInv, Move
  PROVE  IInv'
<1> DEFINE c == entries[moved]
<1>1. /\ pc = "move" /\ moved < capacity /\ moved' = moved + 1
      /\ UNCHANGED <<entries, capacity, pc, todo, ret>>
  BY DEF Move
<1>2. /\ NewCapacity' = NewCapacity /\ NewCapacity \in Nat \ {0} /\ capacity \in Nat
      /\ moved \in Slots(capacity) /\ moved' \in 0 .. capacity
      /\ entries \in [Slots(capacity) -> Content]
      /\ count \in Nat /\ count = Cardinality(Done)
      /\ Held(fresh) = {entries[i] : i \in Done}
  BY <1>1, ArrayFacts DEF NewCapacity, IInv, TypeOK, Slots, Copied
<1>3. IsTable(fresh, NewCapacity) /\ Settled(fresh, NewCapacity) /\ HasGap(fresh)
  BY <1>1, ArrayFacts
<1>4. CASE ~ IsLive(c)
  <2>1. fresh' = fresh /\ count' = count
    BY <1>4 DEF Move
  <2>2. Done' = Done
    BY <1>1, <1>2, <1>4 DEF Done, Live, Slots
  <2>3. TypeOK'
    BY <1>1, <1>2, <2>1 DEF IInv, TypeOK
  <2>4. LoadBounded' /\ Order'
    BY <1>1, <1>2, <2>1 DEF IInv, LoadBounded, Order, FreshCapacity
  <2>5. Copied' /\ Planned'
    BY <1>1, <1>2, <2>1, <2>2 DEF IInv, Copied, Planned
  <2> QED BY <2>3, <2>4, <2>5 DEF IInv
<1>5. CASE IsLive(c)
  <2>1. /\ fresh' = [fresh EXCEPT ![Find(fresh, NewCapacity, c.key)] = c]
        /\ count' = count + 1
    BY <1>5 DEF Move, Landing
  <2>2. c \in Entry /\ moved \in Live(entries)
    BY <1>2, <1>5, LiveIsEntry DEF Live
  <2>3. /\ IsTable(fresh', NewCapacity) /\ Settled(fresh', NewCapacity)
        /\ Held(fresh') = {f \in Held(fresh) : f.key # c.key} \cup {c}
        /\ Occupied(fresh') = Occupied(fresh) \cup {Find(fresh, NewCapacity, c.key)}
    <3>1. fresh' = StoredIn(fresh, NewCapacity, c)
      BY <2>1 DEF StoredIn
    <3> QED BY <1>3, <2>2, <3>1, StoreFacts DEF With
  <2>4. Done' = Done \cup {moved} /\ moved \notin Done /\ Done' \in SUBSET Live(entries)
    BY <1>1, <1>2, <2>2 DEF Done, Live, Slots
  <2>5. Cardinality(Done') = count + 1
    BY <1>2, <2>4, DoneFacts, FS_AddElement DEF Done
  <2>6. \A i \in Done : entries[i].key # c.key
    <3>1. HasGap(entries)
      BY <1>1, <1>2, ArrayFacts DEF Slots
    <3>2. \A i \in Done : i \in Live(entries) /\ i # moved
      BY <2>4
    <3> QED BY <2>2, <3>1, <3>2, ArrayFacts, KeysAreUnique
  <2>7. Copied'
    <3>1. Held(fresh') = {entries[i] : i \in Done'}
      BY <1>2, <2>3, <2>4, <2>6
    <3> QED BY <1>1, <2>1, <2>5, <3>1 DEF Copied
  <2>8. TypeOK'
    BY <1>1, <1>2, <2>1, <2>3 DEF IInv, TypeOK, IsTable
  <2>9. LoadBounded'
    <3>1. Cardinality(Occupied(fresh')) <= count'
      <4>1. Cardinality(Occupied(fresh)) <= count
        BY <1>1 DEF IInv, LoadBounded
      <4>2. IsFiniteSet(Occupied(fresh)) /\ Cardinality(Occupied(fresh)) \in Nat
        BY <1>3, GapFacts
      <4>3. Cardinality(Occupied(fresh')) <= Cardinality(Occupied(fresh)) + 1
        <5>1. PICK x : Occupied(fresh') = Occupied(fresh) \cup {x}
          BY <2>3
        <5>2. Cardinality(Occupied(fresh) \cup {x}) =
                IF x \in Occupied(fresh) THEN Cardinality(Occupied(fresh))
                                         ELSE Cardinality(Occupied(fresh)) + 1
          BY <4>2, FS_AddElement
        <5> QED BY <4>2, <5>1, <5>2
      <4>4. Cardinality(Occupied(fresh')) \in Nat
        BY <2>3, GapFacts
      <4> QED BY <1>2, <2>1, <4>1, <4>2, <4>3, <4>4
    <3>2. 4 * count' <= 3 * capacity
      BY <2>1, <2>4, <2>5, DoneFacts
    <3>3. 3 * capacity <= 3 * NewCapacity
      BY <1>2, GrowthFacts DEF IInv, TypeOK, NewCapacity
    <3>4. 4 * count' <= 3 * NewCapacity
      BY <1>2, <2>1, <3>2, <3>3
    <3> QED BY <1>1, <1>2, <3>1, <3>4 DEF IInv, LoadBounded
  <2>10. Order'
    BY <1>1, <1>2, <2>3 DEF IInv, Order, FreshCapacity
  <2>11. Planned'
    BY <1>1, <1>2 DEF IInv, Planned
  <2> QED BY <2>7, <2>8, <2>9, <2>10, <2>11 DEF IInv
<1> QED BY <1>4, <1>5

\* When all entries are moved the new array takes the place of the old one, and has
\* room for what is to be stored.
LEMMA InstallStep ==
  ASSUME IInv, Install
  PROVE  IInv' /\ Held(entries') = Held(entries)
<1>1. /\ pc = "move" /\ moved = capacity /\ entries' = fresh /\ capacity' = NewCapacity
      /\ pc' = "ready" /\ fresh' = Blank(0) /\ moved' = 0
      /\ UNCHANGED <<count, todo, ret>>
  BY DEF Install
<1>2. /\ NewCapacity \in Nat \ {0} /\ capacity \in Nat
      /\ entries \in [Slots(capacity) -> Content]
      /\ count \in Nat /\ count = Cardinality(Done)
      /\ Held(fresh) = {entries[i] : i \in Done}
      /\ IsTable(fresh, NewCapacity) /\ Settled(fresh, NewCapacity)
      /\ NewCapacity <= MaxCapacity
  BY <1>1, ArrayFacts DEF IInv, TypeOK, Copied, Planned
<1>3. Done = Live(entries)
  BY <1>1, <1>2 DEF Done, Live, Slots
<1>4. Held(entries') = Held(entries)
  BY <1>1, <1>2, <1>3 DEF Held
<1>5. 4 * count <= 3 * capacity
  BY <1>2, <1>3, DoneFacts
<1>6. /\ capacity' \in {2 ^ n : n \in 3 .. 30}
      /\ 3 * capacity + 8 <= 3 * NewCapacity
  BY <1>1, <1>2, GrowthFacts DEF IInv, TypeOK, NewCapacity
<1>7. /\ IsTable(Blank(0), 0) /\ Settled(Blank(0), 0)
  BY BlankFacts
<1>8. TypeOK'
  BY <1>1, <1>2, <1>6, <1>7 DEF IInv, TypeOK, IsTable
<1>9. LoadBounded'
  <2>1. /\ Cardinality(Occupied(fresh)) <= count /\ 4 * count <= 3 * NewCapacity
        /\ Cardinality(Occupied(fresh)) \in Nat
    BY <1>1, <1>2, GapFacts DEF IInv, LoadBounded
  <2>2. 4 * Cardinality(Occupied(fresh)) <= 3 * NewCapacity
    BY <1>2, <2>1
  <2> QED BY <1>1, <2>1, <2>2 DEF LoadBounded
<1>10. Order'
  BY <1>1, <1>2, <1>7 DEF Order, FreshCapacity
<1>11. Copied'
  BY <1>1 DEF Copied
<1>12. Planned'
  <2>1. IsFiniteSet(todo) /\ Cardinality(todo) \in Nat /\ Cardinality(todo) <= 2
    BY FS_CardinalityType DEF IInv, Planned
  <2>2. 4 * (count + Cardinality(todo)) <= 3 * NewCapacity
    BY <1>2, <1>5, <1>6, <2>1
  <2> QED BY <1>1, <2>1, <2>2 DEF Planned
<1> QED BY <1>4, <1>8, <1>9, <1>10, <1>11, <1>12 DEF IInv

\* tableSet stores a binding in a slot there is room for.
LEMMA StoreStep ==
  ASSUME IInv, Store
  PROVE  /\ IInv'
         /\ \E b \in Entry : /\ Held(entries') = With(Held(entries), b)
                             /\ ret' = (\A e \in Held(entries) : e.key # b.key)
<1>1. /\ pc = "ready" /\ 4 * (count + 1) <= 3 * capacity
      /\ count \in Nat /\ capacity \in Nat
      /\ UNCHANGED <<capacity, pc, fresh, moved>>
  <2>1. count \in Nat /\ capacity \in Nat
    BY ArrayFacts DEF IInv, TypeOK
  <2> QED BY <2>1 DEF Store, MustGrow, Full
<1>2. PICK b \in todo :
        LET i     == Find(entries, capacity, b.key)
            isNew == ~ IsLive(entries[i])
        IN /\ entries' = [entries EXCEPT ![i] = b]
           /\ count' = IF isNew THEN count + 1 ELSE count
           /\ ret' = isNew
           /\ todo' = todo \ {b}
  BY DEF Store
<1> DEFINE at == Find(entries, capacity, b.key)
<1>3. b \in Entry /\ b.key \in Keys
  BY DEF IInv, TypeOK, Entry
<1>4. IsTable(entries, capacity) /\ HasGap(entries) /\ Settled(entries, capacity)
  BY <1>1, ArrayFacts
<1>5. entries' = StoredIn(entries, capacity, b)
  BY <1>2 DEF StoredIn
<1>6. /\ IsTable(entries', capacity) /\ Settled(entries', capacity)
      /\ Held(entries') = With(Held(entries), b)
      /\ Occupied(entries') = Occupied(entries) \cup {at}
  BY <1>3, <1>4, <1>5, StoreFacts
<1>7. /\ at \in Slots(capacity) /\ DOMAIN entries = Slots(capacity)
      /\ IsLive(entries[at]) => entries[at].key = b.key
      /\ ~ IsLive(entries[at]) => \A i \in Slots(capacity) : ~ HasKey(entries, i, b.key)
  BY <1>3, <1>4, FindFacts DEF IsTable
<1>8. ret' = (\A e \in Held(entries) : e.key # b.key)
  BY <1>2, <1>7 DEF Held, Live, HasKey
<1>9. count' \in Nat /\ count' <= count + 1 /\ 4 * count' <= 3 * capacity
  BY <1>1, <1>2
<1>10. TypeOK'
  <2>1. ret' \in BOOLEAN
    BY <1>2
  <2> QED BY <1>1, <1>2, <1>6, <1>9, <2>1 DEF IInv, TypeOK, IsTable, NewCapacity
<1>11. LoadBounded'
  <2>1. /\ Cardinality(Occupied(entries)) <= count
        /\ IsFiniteSet(Occupied(entries)) /\ Cardinality(Occupied(entries)) \in Nat
        /\ Cardinality(Occupied(entries')) \in Nat
    BY <1>1, <1>4, <1>6, GapFacts DEF IInv, LoadBounded
  <2>2. Cardinality(Occupied(entries')) <= count'
    <3>1. Cardinality(Occupied(entries) \cup {at}) =
            IF at \in Occupied(entries) THEN Cardinality(Occupied(entries))
                                       ELSE Cardinality(Occupied(entries)) + 1
      BY <2>1, FS_AddElement
    <3>2. CASE IsLive(entries[at])
      <4>1. at \in Occupied(entries)
        BY <1>7, <3>2 DEF Occupied, IsLive
      <4> QED BY <1>2, <1>6, <2>1, <3>1, <3>2, <4>1
    <3>3. CASE ~ IsLive(entries[at])
      <4>1. count' = count + 1
        BY <1>2, <3>3
      <4>2. Cardinality(Occupied(entries')) <= Cardinality(Occupied(entries)) + 1
        BY <1>6, <2>1, <3>1
      <4> QED BY <1>1, <2>1, <4>1, <4>2
    <3> QED BY <3>2, <3>3
  <2>3. 4 * Cardinality(Occupied(entries')) <= 3 * capacity
    BY <1>1, <1>9, <2>1, <2>2
  <2> QED BY <1>1, <1>9, <2>2, <2>3 DEF LoadBounded
<1>12. Order' /\ Copied'
  BY <1>1, <1>6 DEF IInv, Order, FreshCapacity, Copied, NewCapacity
<1>13. Planned'
  <2>1. /\ IsFiniteSet(todo') /\ Cardinality(todo') = Cardinality(todo) - 1
        /\ Cardinality(todo) \in Nat /\ Cardinality(todo') \in Nat
    BY <1>2, FS_RemoveElement, FS_CardinalityType DEF IInv, Planned
  <2>2. 4 * (count + Cardinality(todo)) <= 3 * capacity =>
          4 * (count' + Cardinality(todo')) <= 3 * capacity
    BY <1>1, <1>9, <2>1
  <2>3. Cardinality(todo') <= 2
    BY <2>1 DEF IInv, Planned
  <2> QED BY <1>1, <2>1, <2>2, <2>3 DEF IInv, Planned, NewCapacity
<1> QED BY <1>3, <1>6, <1>8, <1>10, <1>11, <1>12, <1>13 DEF IInv

\* Entries become tombstones, which count as much as they did.
LEMMA EraseStep ==
  ASSUME IInv, pc # "move", NEW gone \in SUBSET Live(entries), entries' = Erase(gone),
         ret' \in Values \cup BOOLEAN \cup {NotFound},
         UNCHANGED <<capacity, count, pc, todo, fresh, moved>>
  PROVE  /\ IInv'
         /\ Held(entries') = {entries[i] : i \in Live(entries) \ gone}
<1>1. /\ IsTable(entries', capacity) /\ Settled(entries', capacity)
      /\ Live(entries') = Live(entries) \ gone
      /\ \A i \in Live(entries') : entries'[i] = entries[i]
      /\ Occupied(entries') = Occupied(entries)
  BY ArrayFacts, EraseFacts DEF Erase
<1>2. Held(entries') = {entries[i] : i \in Live(entries) \ gone}
  BY <1>1 DEF Held
<1>3. TypeOK'
  BY <1>1 DEF IInv, TypeOK, IsTable, NewCapacity
<1>4. LoadBounded' /\ Order' /\ Copied' /\ Planned'
  BY <1>1 DEF IInv, LoadBounded, Order, FreshCapacity, Copied, Planned, NewCapacity
<1> QED BY <1>2, <1>3, <1>4 DEF IInv

\* The slots at which probes for keys of the table end are those of their entries.
LEMMA FoundSlots ==
  ASSUME IInv, NEW white \in SUBSET {entries[i].key : i \in Live(entries)}
  PROVE  {Find(entries, capacity, k) : k \in white} =
           {i \in Live(entries) : entries[i].key \in white}
<1>1. CASE capacity = 0
  BY <1>1, ArrayFacts
<1>2. CASE capacity # 0
  BY <1>2, ArrayFacts, FindsEntry
<1> QED BY <1>1, <1>2

\* A collection takes away the keys it did not mark and no others.
LEMMA WhiteStep ==
  ASSUME IInv, NEW white \in SUBSET {entries[i].key : i \in Live(entries)},
         TableRemoveWhite(white)
  PROVE  /\ IInv'
         /\ Held(entries') = WithoutKeys(Held(entries), white)
<1> DEFINE gone == {i \in Live(entries) : entries[i].key \in white}
<1>1. /\ pc # "move" /\ entries' = Erase(gone)
      /\ UNCHANGED <<capacity, count, pc, todo, fresh, moved, ret>>
  BY FoundSlots DEF TableRemoveWhite, Idle
<1>2. ret' \in Values \cup BOOLEAN \cup {NotFound}
  BY <1>1 DEF IInv, TypeOK
<1>3. IInv' /\ Held(entries') = {entries[i] : i \in Live(entries) \ gone}
  BY <1>1, <1>2, EraseStep
<1> QED BY <1>3 DEF Held, WithoutKeys

\* tableDelete takes away one key, and says whether it was there.
LEMMA DeleteStep ==
  ASSUME IInv, NEW k \in Keys, TableDelete(k)
  PROVE  /\ IInv'
         /\ Held(entries') = WithoutKeys(Held(entries), {k})
         /\ ret' = (\E e \in Held(entries) : e.key = k)
<1>1. /\ pc # "move" /\ ret' = IsLive(Lookup(k)) /\ ret' \in BOOLEAN
      /\ UNCHANGED <<capacity, count, pc, todo, fresh, moved>>
  BY DEF TableDelete, Idle, IsLive
<1>2. CASE IsLive(Lookup(k))
  <2> DEFINE at == Find(entries, capacity, k)
  <2>1. at \in Live(entries) /\ entries[at].key = k /\ capacity # 0
    BY <1>1, <1>2, LookupFacts
  <2>2. entries' = Erase({at})
    BY <1>2 DEF TableDelete
  <2>3. IInv' /\ Held(entries') = {entries[i] : i \in Live(entries) \ {at}}
    BY <1>1, <2>1, <2>2, EraseStep
  <2>4. \A i \in Live(entries) : entries[i].key = k => i = at
    BY <2>1, ArrayFacts, KeysAreUnique
  <2> QED BY <1>1, <1>2, <2>1, <2>3, <2>4 DEF Held, WithoutKeys
<1>3. CASE ~ IsLive(Lookup(k))
  <2>1. entries' = entries
    BY <1>3 DEF TableDelete
  <2>2. \A e \in Held(entries) : e.key # k
    BY <1>1, <1>3, LookupFacts
  <2>3. IInv'
    BY <1>1, <2>1, AnswerStep
  <2> QED BY <1>1, <1>3, <2>1, <2>2, <2>3 DEF Held, WithoutKeys
<1> QED BY <1>2, <1>3

\* What tableSet and tableAddAll are given is a binding or two.
LEMMA BindingsGiven ==
  ASSUME NEW k \in Keys, NEW l \in Keys, NEW from \in [{k, l} -> Values]
  PROVE  LET given == {[key |-> j, value |-> from[j]] : j \in DOMAIN from}
         IN given \in SUBSET Entry /\ IsFiniteSet(given) /\ Cardinality(given) <= 2
<1> DEFINE given == {[key |-> j, value |-> from[j]] : j \in DOMAIN from}
<1> DEFINE a == [key |-> k, value |-> from[k]]
           b == [key |-> l, value |-> from[l]]
<1>2. given = {a} \cup {b} /\ given \in SUBSET Entry
  BY DEF Entry
<1>3. IsFiniteSet({a}) /\ Cardinality({a}) = 1
  BY FS_Singleton
<1>4. /\ IsFiniteSet({a} \cup {b})
      /\ Cardinality({a} \cup {b}) = IF b \in {a} THEN Cardinality({a}) ELSE Cardinality({a}) + 1
  BY <1>3, FS_AddElement
<1>5. Cardinality({a} \cup {b}) <= 2
  <2> HIDE DEF a, b
  <2> QED BY <1>3, <1>4
<1> QED BY <1>2, <1>4, <1>5

\* Calls of tableSet and tableAddAll.
LEMMA CallStep ==
  ASSUME IInv,
         \/ \E k \in Keys, v \in Values : TableSet(k, v)
         \/ \E k, l \in Keys : \E from \in [{k, l} -> Values] : TableAddAll(from)
  PROVE  IInv' /\ UNCHANGED <<entries, ret>>
<1>1. CASE \E k \in Keys, v \in Values : TableSet(k, v)
  <2>1. PICK k \in Keys, v \in Values : TableSet(k, v)
    BY <1>1
  <2> DEFINE given == {[key |-> k, value |-> v]}
  <2>2. given \in SUBSET Entry /\ IsFiniteSet(given) /\ Cardinality(given) <= 2
    <3>1. given \in SUBSET Entry
      BY DEF Entry
    <3>2. IsFiniteSet(given) /\ Cardinality(given) = 1
      BY FS_Singleton, Zenon
    <3> HIDE DEF given
    <3> QED BY <3>1, <3>2
  <2>3. Start(given)
    BY <2>1 DEF TableSet
  <2> HIDE DEF given
  <2>4. IInv'
    BY <2>2, <2>3, StartStep
  <2> QED BY <2>3, <2>4 DEF Start
<1>2. CASE \E k, l \in Keys : \E from \in [{k, l} -> Values] : TableAddAll(from)
  <2>1. PICK k \in Keys, l \in Keys : \E from \in [{k, l} -> Values] : TableAddAll(from)
    BY <1>2
  <2>2. PICK from \in [{k, l} -> Values] : TableAddAll(from)
    BY <2>1
  <2> DEFINE given == {[key |-> j, value |-> from[j]] : j \in DOMAIN from}
  <2>3. given \in SUBSET Entry /\ IsFiniteSet(given) /\ Cardinality(given) <= 2
    BY BindingsGiven
  <2>4. Start(given)
    BY <2>2 DEF TableAddAll
  <2> HIDE DEF given
  <2>5. IInv'
    BY <2>3, <2>4, StartStep
  <2> QED BY <2>4, <2>5 DEF Start
<1> QED BY <1>1, <1>2

\* tableGet answers the value bound, or that there is none.
LEMMA GetStep ==
  ASSUME IInv, NEW k \in Keys, TableGet(k)
  PROVE  /\ IInv' /\ UNCHANGED entries
         /\ \A e \in Held(entries) : e.key = k => ret' = e.value
         /\ (\A e \in Held(entries) : e.key # k) => ret' = NotFound
<1>1. /\ pc = "ready" /\ UNCHANGED <<entries, capacity, count, pc, todo, fresh, moved>>
      /\ ret' = IF IsLive(Lookup(k)) THEN Lookup(k).value ELSE NotFound
  BY DEF TableGet, Idle
<1>2. CASE IsLive(Lookup(k))
  <2> DEFINE at == Find(entries, capacity, k)
  <2>1. /\ at \in Live(entries) /\ Lookup(k) = entries[at] /\ Lookup(k).key = k
        /\ capacity # 0
    BY <1>1, <1>2, LookupFacts
  <2>2. Lookup(k) \in Held(entries)
    BY <2>1 DEF Held
  <2>3. Functional(Held(entries)) /\ Held(entries) \subseteq Entry
    BY <2>1, ArrayFacts, HeldIsFunctional
  <2>4. ret' = Lookup(k).value
    BY <1>1, <1>2
  <2>5. ret' \in Values
    BY <2>2, <2>3, <2>4 DEF Entry
  <2>6. IInv'
    BY <1>1, <2>5, AnswerStep
  <2> QED BY <1>1, <2>1, <2>2, <2>3, <2>4, <2>6 DEF Functional
<1>3. CASE ~ IsLive(Lookup(k))
  <2>1. ret' = NotFound /\ \A e \in Held(entries) : e.key # k
    BY <1>1, <1>3, LookupFacts
  <2> QED BY <1>1, <2>1, AnswerStep
<1> QED BY <1>2, <1>3

\* The invariant is inductive.
LEMMA Inductive == IInv /\ [Next]_vars => IInv'
<1> SUFFICES ASSUME IInv, [Next]_vars PROVE IInv'
  OBVIOUS
<1>1. ASSUME NEW k \in Keys, TableGet(k) PROVE IInv'
  BY <1>1, GetStep
<1>2. ASSUME NEW k \in Keys, TableDelete(k) PROVE IInv'
  BY <1>2, DeleteStep
<1>3. CASE \E k \in Keys, v \in Values : TableSet(k, v)
  BY <1>3, CallStep
<1>4. CASE \E k, l \in Keys : \E from \in [{k, l} -> Values] : TableAddAll(from)
  BY <1>4, CallStep
<1>5. ASSUME NEW white \in SUBSET {entries[i].key : i \in Live(entries)},
             TableRemoveWhite(white)
      PROVE  IInv'
  BY <1>5, WhiteStep
<1>6. CASE Step
  BY <1>6, GrowStep, AllocateStep, MoveStep, InstallStep, StoreStep DEF Step
<1>7. CASE UNCHANGED vars
  <2>1. ret' \in Values \cup BOOLEAN \cup {NotFound}
    BY <1>7 DEF vars, IInv, TypeOK
  <2> QED BY <1>7, <2>1, AnswerStep DEF vars
<1> QED BY <1>1, <1>2, <1>3, <1>4, <1>5, <1>6, <1>7 DEF Next

----------------------------------------------------------------------------
(* Theorems. *)

\* The invariant that the theorems below rest on holds in every reachable state.
THEOREM Invariance == Spec => []IInv
  BY InitHolds, Inductive, PTL DEF Spec

\* The table's array always has the size its mask needs, and the scratch state of
\* adjustCapacity is there only while it runs.
THEOREM TypeCorrect == Spec => []TypeOK
<1>1. IInv => TypeOK
  BY DEF IInv
<1> QED BY <1>1, Invariance, PTL

\* Whatever is stored, deleted and collected, also inside a growth, a quarter of the
\* slots is empty: every probe ends.
THEOREM ProbesEnd == Spec => []LoadBounded
<1>1. IInv => LoadBounded
  BY DEF IInv
<1> QED BY <1>1, Invariance, PTL

\* No deletion, reuse of a tombstone or growth puts an entry out of a probe's reach.
THEOREM NothingLost == Spec => []Reachable
<1>1. ASSUME IInv PROVE Reachable
  <2>1. \A i \in Live(entries) : Find(entries, capacity, entries[i].key) = i
    <3>1. CASE capacity = 0
      BY <3>1, <1>1, ArrayFacts
    <3>2. CASE capacity # 0
      BY <3>2, <1>1, ArrayFacts, FindsEntry
    <3> QED BY <3>1, <3>2
  <2>2. \A i \in Live(fresh) : Find(fresh, NewCapacity, fresh[i].key) = i
    <3>1. CASE pc = "move"
      BY <3>1, <1>1, ArrayFacts, FindsEntry
    <3>2. CASE pc # "move"
      <4>1. DOMAIN fresh = {}
        BY <1>1, <3>2 DEF IInv, TypeOK, Slots
      <4> QED BY <4>1 DEF Live
    <3> QED BY <3>1, <3>2
  <2> QED BY <2>1, <2>2 DEF Reachable
<1> QED BY <1>1, Invariance, PTL

\* What a table holds is a function from keys to values.
LEMMA MapFacts ==
  IInv => /\ Functional(Held(entries))
          /\ DOMAIN Bindings(entries) = {e.key : e \in Held(entries)}
          /\ DOMAIN Bindings(entries) \subseteq Keys
          /\ \A e \in Held(entries) : Bindings(entries)[e.key] = e.value
<1> SUFFICES ASSUME IInv
             PROVE  Functional(Held(entries)) /\ Held(entries) \subseteq Entry
  BY BindingsFacts DEF Entry
<1>1. CASE capacity = 0
  BY <1>1, ArrayFacts DEF Held, Functional
<1>2. CASE capacity # 0
  BY <1>2, ArrayFacts, HeldIsFunctional
<1> QED BY <1>1, <1>2

\* Each call does to the table's bindings what MapSpec says of it, and a step of a
\* growth changes none.
LEMMA StepIsMapStep ==
  IInv /\ IInv' /\ [Next]_vars => [Abstract!Next]_<<Bindings(entries), ret>>
<1> IInv => Functional(Held(entries))
  BY MapFacts
<1>1. IInv' => Functional(Held(entries))'
  BY PTL
<1> SUFFICES ASSUME IInv, IInv', [Next]_vars
             PROVE  [Abstract!Next]_<<Bindings(entries), ret>>
  OBVIOUS
<1>2. /\ Functional(Held(entries)) /\ Functional(Held(entries'))
      /\ DOMAIN Bindings(entries) = {e.key : e \in Held(entries)}
      /\ DOMAIN Bindings(entries) \subseteq Keys
      /\ \A e \in Held(entries) : Bindings(entries)[e.key] = e.value
  BY <1>1, MapFacts
<1>3. ASSUME NEW k \in Keys, TableGet(k) PROVE Abstract!Get(k)
  <2>1. /\ UNCHANGED entries
        /\ \A e \in Held(entries) : e.key = k => ret' = e.value
        /\ (\A e \in Held(entries) : e.key # k) => ret' = NotFound
    BY <1>3, GetStep
  <2>2. CASE k \in DOMAIN Bindings(entries)
    BY <1>2, <2>1, <2>2 DEF Abstract!Get
  <2>3. CASE k \notin DOMAIN Bindings(entries)
    BY <1>2, <2>1, <2>3 DEF Abstract!Get
  <2> QED BY <2>2, <2>3
<1>4. ASSUME NEW k \in Keys, TableDelete(k) PROVE Abstract!Remove(k)
  <2>1. /\ Held(entries') = WithoutKeys(Held(entries), {k})
        /\ ret' = (\E e \in Held(entries) : e.key = k)
    BY <1>4, DeleteStep
  <2>2. Bindings(entries') = MapWithout(Bindings(entries), {k})
    BY <1>2, <2>1, RemovalUnbinds
  <2>3. k \in DOMAIN Bindings(entries) <=> \E e \in Held(entries) : e.key = k
    BY <1>2
  <2>4. ret' = (k \in DOMAIN Bindings(entries))
    <3>1. CASE k \in DOMAIN Bindings(entries)
      BY <2>1, <2>3, <3>1
    <3>2. CASE k \notin DOMAIN Bindings(entries)
      <4>1. (\E e \in Held(entries) : e.key = k) = FALSE
        BY <2>3, <3>2
      <4>2. ret' = FALSE
        BY <2>1, <4>1
      <4>3. (k \in DOMAIN Bindings(entries)) = FALSE
        BY <3>2
      <4> QED BY <4>2, <4>3, Zenon
    <3> QED BY <3>1, <3>2
  <2> QED BY <2>2, <2>4 DEF Abstract!Remove, Abstract!Without, MapWithout
<1>5. ASSUME NEW white \in SUBSET {entries[i].key : i \in Live(entries)},
             TableRemoveWhite(white)
      PROVE  Abstract!Purge(white) /\ white \in SUBSET Keys
  <2>1. Held(entries') = WithoutKeys(Held(entries), white) /\ ret' = ret
    BY <1>5, WhiteStep DEF TableRemoveWhite
  <2>2. Bindings(entries') = MapWithout(Bindings(entries), white)
    BY <1>2, <2>1, RemovalUnbinds
  <2>3. white \in SUBSET Keys
    BY <1>2 DEF Held
  <2> QED BY <2>1, <2>2, <2>3 DEF Abstract!Purge, Abstract!Without, MapWithout
<1>6. ASSUME Store PROVE \E k \in Keys, v \in Values : Abstract!Put(k, v)
  <2>1. PICK b \in Entry : /\ Held(entries') = With(Held(entries), b)
                           /\ ret' = (\A e \in Held(entries) : e.key # b.key)
    BY <1>6, StoreStep
  <2>2. Bindings(entries') = [j \in DOMAIN Bindings(entries) \cup {b.key} |->
                                IF j = b.key THEN b.value ELSE Bindings(entries)[j]]
    BY <1>2, <2>1, StoreBinds, ZenonT(30)
  <2>3. ret' = (b.key \notin DOMAIN Bindings(entries))
    BY <1>2, <2>1
  <2>4. Abstract!Put(b.key, b.value)
    BY <2>2, <2>3 DEF Abstract!Put
  <2>5. b.key \in Keys /\ b.value \in Values
    BY DEF Entry
  <2> QED BY <2>4, <2>5
<1>7. ASSUME Install PROVE UNCHANGED <<Bindings(entries), ret>>
  <2>1. Held(entries') = Held(entries) /\ ret' = ret
    BY <1>7, InstallStep DEF Install
  <2>2. Bindings(entries') = Bindings(entries)
    BY <1>2, <2>1, SameBindings
  <2> QED BY <2>1, <2>2
<1>8. ASSUME \/ \E k \in Keys, v \in Values : TableSet(k, v)
             \/ \E k, l \in Keys : \E from \in [{k, l} -> Values] : TableAddAll(from)
             \/ Grow \/ Allocate \/ Move
             \/ UNCHANGED vars
      PROVE  UNCHANGED <<Bindings(entries), ret>>
  <2>1. UNCHANGED <<entries, ret>>
    BY <1>8, CallStep DEF Grow, Allocate, Move, vars
  <2> QED BY <2>1
<1> QED BY <1>3, <1>4, <1>5, <1>6, <1>7, <1>8 DEF Next, Step, Abstract!Next

\* The table behaves as a map, whatever the order of calls, steps of growths and
\* collections.
THEOREM TableIsMap == Spec => ImplementsMap
<1>1. Init => Abstract!Init
  <2> SUFFICES ASSUME Init PROVE Abstract!Init
    OBVIOUS
  <2>1. entries = Blank(0) /\ ret = NotFound
    BY DEF Init
  <2>2. Bindings(entries) = [j \in {} |-> NotFound]
    BY <2>1, BlankFacts DEF Bindings
  <2> QED BY <2>1, <2>2 DEF Abstract!Init
<1> QED BY <1>1, StepIsMapStep, Invariance, PTL DEF Spec, ImplementsMap, Abstract!Spec
============================================================================
