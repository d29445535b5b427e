--------------------------- MODULE ProbingProofs ---------------------------
(***************************************************************************)
(* What a probe returns, for tables of any size and any hash function, and *)
(* what storing and erasing entries does to a table in which every entry   *)
(* can be probed to; how tables' sizes grow and shrink; and what a loop    *)
(* over the slots computes.  TableProofs and ContainersProofs rest on      *)
(* these facts.                                                            *)
(***************************************************************************)
EXTENDS Probing, TLAPS, FiniteSetTheorems

\* The entries a table holds, wherever its slots are.
Held(table) == {table[i] : i \in Live(table)}

HasKey(table, i, k) == IsLive(table[i]) /\ table[i].key = k

\* No entry is behind a gap: on the way to it a probe meets neither an empty slot
\* nor another entry with its key.
Settled(table, cap) ==
  \A k \in Keys : \A d \in Slots(cap) :
    HasKey(table, Probe(k, d, cap), k) => \A c \in Slots(d) : ~ Stops(table, cap, k, c)

IsTable(table, cap) == cap \in Nat /\ table \in [Slots(cap) -> Content]

HasGap(table) == \E i \in DOMAIN table : table[i] = Empty

----------------------------------------------------------------------------
(* Natural numbers. *)

\* A set of natural numbers that is not empty has a least element: its initial
\* segments are finite sets, ordered by inclusion.
LEMMA Least ==
  ASSUME NEW S, S \subseteq Nat, S # {}
  PROVE  \E n \in S : \A m \in S : n <= m
<1>1. PICK top \in S : TRUE
  OBVIOUS
<1> DEFINE Below == {n \in S : n <= top}
           Segments == {0 .. n : n \in Below}
<1>2. IsFiniteSet(0 .. top)
  BY <1>1, FS_Interval
<1>3. IsWellFoundedOn(StrictSubsetOrdering(0 .. top), SUBSET (0 .. top))
  BY <1>2, FS_StrictSubsetOrderingWellFounded, FS_FiniteSubsetsOfFinite
<1>4. Segments \subseteq SUBSET (0 .. top) /\ Segments # {}
  BY <1>1
<1>5. PICK s \in Segments : \A t \in Segments : <<t, s>> \notin StrictSubsetOrdering(0 .. top)
  <2> HIDE DEF Segments
  <2> QED BY <1>3, <1>4, WFMin
<1>6. PICK n \in Below : s = 0 .. n
  BY <1>5
<1>7. \A m \in Below : n <= m
  <2> SUFFICES ASSUME NEW m \in Below, m < n PROVE FALSE
    BY <1>1, <1>6
  <2>1. 0 .. m \in Segments /\ 0 .. m \subseteq 0 .. n /\ n \notin 0 .. m /\ n \in 0 .. n
    BY <1>6
  <2>2. <<0 .. m, s>> \in StrictSubsetOrdering(0 .. top)
    BY <1>4, <1>6, <2>1 DEF StrictSubsetOrdering
  <2> QED BY <1>5, <2>1, <2>2
<1> QED BY <1>1, <1>6, <1>7

----------------------------------------------------------------------------
(* Loops. *)

\* Induction up to a bound, for a set of numbers.
LEMMA UpTo ==
  ASSUME NEW top \in Nat, NEW S, 0 \in S,
         \A n \in 1 .. top : n - 1 \in S => n \in S
  PROVE  0 .. top \subseteq S
<1> DEFINE Rest == (0 .. top) \ S
<1> SUFFICES ASSUME Rest # {} PROVE FALSE
  OBVIOUS
<1>1. PICK n \in Rest : \A m \in Rest : n <= m
  <2>1. Rest \subseteq Nat
    OBVIOUS
  <2> HIDE DEF Rest
  <2> QED BY <2>1, Least
<1>2. n \in 1 .. top
  BY <1>1
<1>3. n - 1 \in S
  BY <1>1, <1>2
<1> QED BY <1>1, <1>2, <1>3

\* The stages of a loop that begins with start: turn[n][s] is what turn n makes of s,
\* and may[n] the set of what stage n may be.
IsRun(f, top, start, turn, may) ==
  /\ f = [n \in 0 .. top |-> IF n = 0 THEN start ELSE turn[n][f[n - 1]]]
  /\ \A n \in 0 .. top : f[n] \in may[n]

\* One more turn.
LEMMA OneMore ==
  ASSUME NEW m \in Nat, m # 0, NEW may, NEW start, NEW turn,
         NEW f, IsRun(f, m - 1, start, turn, may),
         \A s \in may[m - 1] : turn[m][s] \in may[m]
  PROVE  \E g : IsRun(g, m, start, turn, may)
<1>1. /\ DOMAIN f = 0 .. m - 1
      /\ \A n \in 0 .. m - 1 : /\ f[n] = IF n = 0 THEN start ELSE turn[n][f[n - 1]]
                               /\ f[n] \in may[n]
  BY DEF IsRun
<1>2. m - 1 \in 0 .. m - 1
  OBVIOUS
<1>3. turn[m][f[m - 1]] \in may[m]
  BY <1>1, <1>2
<1> DEFINE g == [n \in 0 .. m |-> IF n = m THEN turn[m][f[m - 1]] ELSE f[n]]
<1>4. \A n \in 0 .. m - 1 : g[n] = f[n]
  <2> SUFFICES ASSUME NEW n \in 0 .. m - 1 PROVE g[n] = f[n]
    OBVIOUS
  <2>1. n \in 0 .. m /\ n # m
    OBVIOUS
  <2> QED BY <2>1
<1>5. g[m] = turn[m][f[m - 1]]
  OBVIOUS
<1>6. DOMAIN g = 0 .. m /\ g = [n \in 0 .. m |-> g[n]]
  OBVIOUS
<1> HIDE DEF g
<1>7. \A n \in 0 .. m : n \in 0 .. m - 1 \/ n = m
  OBVIOUS
<1>8. \A n \in 0 .. m : g[n] \in may[n]
  BY <1>1, <1>3, <1>4, <1>5, <1>7
<1>9. ASSUME NEW n \in 0 .. m
      PROVE  g[n] = IF n = 0 THEN start ELSE turn[n][g[n - 1]]
  <2>1. CASE n = m
    <3>1. g[m - 1] = f[m - 1]
      BY <1>2, <1>4
    <3> QED BY <1>5, <2>1, <3>1
  <2>2. CASE n # m
    <3>1. n \in 0 .. m - 1
      BY <1>7, <2>2
    <3>2. n # 0 => n - 1 \in 0 .. m - 1
      OBVIOUS
    <3>3. n # 0 => g[n - 1] = f[n - 1]
      BY <1>4, <3>2
    <3> QED BY <1>1, <1>4, <3>1, <3>3
  <2> QED BY <2>1, <2>2
<1>10. g = [n \in 0 .. m |-> IF n = 0 THEN start ELSE turn[n][g[n - 1]]]
  BY <1>6, <1>9, Zenon
<1>11. IsRun(g, m, start, turn, may)
  BY <1>8, <1>10 DEF IsRun
<1> QED BY <1>11

\* If turn n takes what stage n - 1 may be to what stage n may be, there are stages.
LEMMA Loop ==
  ASSUME NEW top \in Nat, NEW may, NEW start \in may[0], NEW turn,
         \A n \in 1 .. top : \A s \in may[n - 1] : turn[n][s] \in may[n]
  PROVE  \E f : IsRun(f, top, start, turn, may)
<1> DEFINE S == {m \in 0 .. top : \E f : IsRun(f, m, start, turn, may)}
<1>1. 0 \in S
  <2> DEFINE f == [n \in 0 .. 0 |-> IF n = 0 THEN start ELSE turn[n][start]]
  <2>1. f[0] = start
    OBVIOUS
  <2>2. \A n \in 0 .. 0 : n = 0
    OBVIOUS
  <2>3. f = [n \in 0 .. 0 |-> IF n = 0 THEN start ELSE turn[n][f[n - 1]]]
    BY <2>2
  <2>4. \A n \in 0 .. 0 : f[n] \in may[n]
    BY <2>1, <2>2
  <2>5. IsRun(f, 0, start, turn, may)
    BY <2>3, <2>4 DEF IsRun
  <2> QED BY <2>5
<1>2. ASSUME NEW m \in 1 .. top, m - 1 \in S
      PROVE  m \in S
  <2>1. PICK f : IsRun(f, m - 1, start, turn, may)
    BY <1>2
  <2>2. m \in Nat /\ m # 0 /\ \A s \in may[m - 1] : turn[m][s] \in may[m]
    OBVIOUS
  <2>3. \E g : IsRun(g, m, start, turn, may)
    BY <2>1, <2>2, OneMore
  <2> QED BY <2>3
<1>3. top \in S
  <2> HIDE DEF S
  <2>1. 0 .. top \subseteq S
    BY <1>1, <1>2, UpTo
  <2> QED BY <2>1
<1> QED BY <1>3

\* And what holds of the stages that may be holds of any that are.
LEMMA LoopStays ==
  ASSUME NEW top \in Nat, NEW may, NEW start \in may[0], NEW f,
         f[0] = start,
         \A n \in 1 .. top : f[n - 1] \in may[n - 1] => f[n] \in may[n]
  PROVE  \A n \in 0 .. top : f[n] \in may[n]
<1> DEFINE S == {n \in 0 .. top : f[n] \in may[n]}
<1>1. 0 \in S
  OBVIOUS
<1>2. \A n \in 1 .. top : n - 1 \in S => n \in S
  OBVIOUS
<1>3. 0 .. top \subseteq S
  <2> HIDE DEF S
  <2> QED BY <1>1, <1>2, UpTo
<1> QED BY <1>3

----------------------------------------------------------------------------
(* The sizes of tables. *)

Power(n) == 2 ^ n

Sizes ==
  {8, 16, 32, 64, 128, 256, 512, 1024, 2048, 4096, 8192, 16384, 32768, 65536,
   131072, 262144, 524288, 1048576, 2097152, 4194304, 8388608, 16777216,
   33554432, 67108864, 134217728, 268435456, 536870912, 1073741824}

\* The powers of two that a table's size can be, written out.
LEMMA SizesArePowers == {2 ^ n : n \in 3 .. 30} = Sizes
<1>1. /\ Power(3) = 8 /\ Power(4) = 16 /\ Power(5) = 32 /\ Power(6) = 64
      /\ Power(7) = 128 /\ Power(8) = 256 /\ Power(9) = 512
      /\ Power(10) = 1024 /\ Power(11) = 2048 /\ Power(12) = 4096
      /\ Power(13) = 8192 /\ Power(14) = 16384 /\ Power(15) = 32768
      /\ Power(16) = 65536 /\ Power(17) = 131072 /\ Power(18) = 262144
      /\ Power(19) = 524288 /\ Power(20) = 1048576 /\ Power(21) = 2097152
      /\ Power(22) = 4194304 /\ Power(23) = 8388608 /\ Power(24) = 16777216
      /\ Power(25) = 33554432 /\ Power(26) = 67108864
      /\ Power(27) = 134217728 /\ Power(28) = 268435456
      /\ Power(29) = 536870912 /\ Power(30) = 1073741824
  BY SMT DEF Power
<1>2. \A n \in 3 .. 30 : Power(n) \in Sizes
  BY <1>1, SMTT(30) DEF Sizes
<1>3. \A size \in Sizes : \E n \in 3 .. 30 : size = Power(n)
  BY <1>1, SMTT(30) DEF Sizes
<1> QED BY <1>2, <1>3 DEF Power

\* GROW_CAPACITY gives such a size again, up to 2^30, with room for two more
\* entries than the old size could have.
LEMMA SizeGrows ==
  ASSUME NEW cap \in {0} \cup {2 ^ n : n \in 3 .. 30}
  PROVE  /\ cap \in Nat /\ cap <= 2 ^ 30 /\ GrowCapacity(cap) \in Nat \ {0}
         /\ 3 * cap + 8 <= 3 * GrowCapacity(cap)
         /\ GrowCapacity(cap) <= 2 ^ 30 => GrowCapacity(cap) \in {2 ^ n : n \in 3 .. 30}
<1>1. cap = 0 \/ cap \in Sizes
  BY SizesArePowers
<1>2. \A size \in Sizes : /\ size \in Nat /\ size >= 8 /\ size <= 1073741824
                          /\ size < 1073741824 => 2 * size \in Sizes
  BY SMT DEF Sizes
<1>3. 2 ^ 30 = 1073741824 /\ 8 \in Sizes
  BY SMT DEF Sizes
<1>4. CASE cap = 0
  BY <1>3, <1>4, SizesArePowers DEF GrowCapacity
<1>5. CASE cap \in Sizes
  <2>1. cap \in Nat /\ cap >= 8 /\ cap <= 1073741824 /\ (cap < 1073741824 => 2 * cap \in Sizes)
    BY <1>2, <1>5
  <2>2. GrowCapacity(cap) = 2 * cap
    BY <2>1 DEF GrowCapacity
  <2>3. GrowCapacity(cap) <= 2 ^ 30 => GrowCapacity(cap) \in Sizes
    BY <1>3, <2>1, <2>2
  <2> QED BY <1>3, <2>1, <2>2, <2>3, SizesArePowers
<1> QED BY <1>1, <1>4, <1>5

\* So does SHRINK_CAPACITY, and at most halves it.
LEMMA SizeShrinks ==
  ASSUME NEW cap \in {2 ^ n : n \in 3 .. 30}
  PROVE  /\ ShrinkCapacity(cap) \in {2 ^ n : n \in 3 .. 30}
         /\ ShrinkCapacity(cap) \in Nat \ {0} /\ cap <= 2 * ShrinkCapacity(cap)
<1>1. cap \in Sizes
  BY SizesArePowers
<1>2. \A size \in Sizes : /\ size \in Nat /\ size >= 8
                          /\ size # 8 => size >= 16 /\ \E half \in Sizes : size = 2 * half
  BY SMTT(30) DEF Sizes
<1>3. CASE cap = 8
  <2>1. ShrinkCapacity(cap) = 8 /\ 8 \in Sizes
    BY <1>3 DEF ShrinkCapacity, Sizes
  <2> QED BY <1>3, <2>1, SizesArePowers
<1>4. CASE cap # 8
  <2>1. PICK half \in Sizes : cap = 2 * half
    BY <1>1, <1>2, <1>4
  <2>2. half \in Nat /\ half >= 8 /\ cap >= 16 /\ cap \in Nat
    BY <1>1, <1>2, <1>4, <2>1
  <2>3. ShrinkCapacity(cap) = half
    BY <2>1, <2>2 DEF ShrinkCapacity
  <2> QED BY <2>1, <2>2, <2>3, SizesArePowers
<1> QED BY <1>3, <1>4

\* Between two sizes there is room for a growth.
LEMMA SizesApart ==
  ASSUME NEW small \in {0} \cup {2 ^ n : n \in 3 .. 30},
         NEW large \in {0} \cup {2 ^ n : n \in 3 .. 30}, small < large
  PROVE  GrowCapacity(small) <= large
<1>1. small \in {0} \cup Sizes /\ large \in {0} \cup Sizes
  BY SizesArePowers
<1> QED BY <1>1, SMTT(60) DEF Sizes, GrowCapacity

----------------------------------------------------------------------------
(* The order of the probes. *)

\* hash & (capacity - 1) is a slot.
LEMMA HomeIsSlot ==
  ASSUME NEW k \in Keys, NEW cap \in Nat \ {0}
  PROVE  Home(k, cap) \in Slots(cap)
<1>1. Hash[k] \in Nat
  BY ProbingAssumption
<1> QED BY <1>1, SMT DEF Home, Slots

\* A probe of as many slots as there are sees each of them once.
LEMMA ProbeVisitsAll ==
  ASSUME NEW k \in Keys, NEW cap \in Nat \ {0}
  PROVE  /\ \A d \in Slots(cap) : Probe(k, d, cap) \in Slots(cap)
         /\ \A d, e \in Slots(cap) : Probe(k, d, cap) = Probe(k, e, cap) => d = e
         /\ \A i \in Slots(cap) : \E d \in Slots(cap) : Probe(k, d, cap) = i
<1>1. Home(k, cap) \in 0 .. cap - 1
  BY HomeIsSlot DEF Slots
<1>2. \A d \in Slots(cap) : Probe(k, d, cap) \in Slots(cap)
  BY <1>1 DEF Slots, Probe
<1>3. \A d, e \in Slots(cap) : Probe(k, d, cap) = Probe(k, e, cap) => d = e
  BY <1>1 DEF Slots, Probe
<1>4. ASSUME NEW i \in Slots(cap)
      PROVE  \E d \in Slots(cap) : Probe(k, d, cap) = i
  <2>1. CASE i >= Home(k, cap)
    <3>1. i - Home(k, cap) \in Slots(cap) /\ Probe(k, i - Home(k, cap), cap) = i
      BY <1>1, <2>1 DEF Slots, Probe
    <3> QED BY <3>1
  <2>2. CASE i < Home(k, cap)
    <3>1. /\ i - Home(k, cap) + cap \in Slots(cap)
          /\ Probe(k, i - Home(k, cap) + cap, cap) = i
      BY <1>1, <2>2 DEF Slots, Probe
    <3> QED BY <3>1
  <2> QED BY <1>1, <2>1, <2>2 DEF Slots
<1> QED BY <1>2, <1>3, <1>4

\* With a gap in the table the for (;;) of findEntry ends, where it should.
LEMMA ProbeStops ==
  ASSUME NEW table, NEW cap, NEW k \in Keys, IsTable(table, cap), HasGap(table)
  PROVE  /\ cap \in Nat \ {0}
         /\ StopAt(table, cap, k) \in Slots(cap)
         /\ Stops(table, cap, k, StopAt(table, cap, k))
         /\ \A c \in Slots(StopAt(table, cap, k)) : ~ Stops(table, cap, k, c)
<1>1. PICK i \in Slots(cap) : table[i] = Empty
  BY DEF IsTable, HasGap
<1>2. cap \in Nat \ {0}
  BY <1>1 DEF IsTable, Slots
<1>3. PICK e \in Slots(cap) : Probe(k, e, cap) = i
  BY <1>1, <1>2, ProbeVisitsAll
<1> DEFINE Ends == {d \in Slots(cap) : Stops(table, cap, k, d)}
<1>4. e \in Ends /\ Ends \subseteq Nat
  BY <1>1, <1>2, <1>3 DEF Stops, Slots
<1>5. PICK d \in Ends : \A c \in Ends : d <= c
  <2> HIDE DEF Ends
  <2> QED BY <1>4, Least
<1>6. \A c \in Slots(d) : ~ Stops(table, cap, k, c)
  BY <1>2, <1>5 DEF Slots
<1>7. \E x \in Slots(cap) : Stops(table, cap, k, x) /\ \A c \in Slots(x) : ~ Stops(table, cap, k, c)
  BY <1>5, <1>6
<1> QED BY <1>2, <1>7 DEF StopAt

\* The first tombstone on the way, if there is one, is at or before the end.
LEMMA GraveBeforeStop ==
  ASSUME NEW table, NEW cap, NEW k, NEW stop \in Nat
  PROVE  /\ FirstGrave(table, cap, k, stop) \in 0 .. stop
         /\ \/ FirstGrave(table, cap, k, stop) = stop
            \/ IsGrave(table, cap, k, FirstGrave(table, cap, k, stop))
<1> DEFINE Graves == {d \in 0 .. stop : d = stop \/ IsGrave(table, cap, k, d)}
<1>1. stop \in Graves /\ Graves \subseteq Nat
  OBVIOUS
<1>2. PICK d \in Graves : \A c \in Graves : d <= c
  <2> HIDE DEF Graves
  <2> QED BY <1>1, Least
<1>3. \A c \in Slots(d) : ~ IsGrave(table, cap, k, c)
  BY <1>2 DEF Slots
<1>4. \E x \in 0 .. stop : /\ x = stop \/ IsGrave(table, cap, k, x)
                           /\ \A c \in Slots(x) : ~ IsGrave(table, cap, k, c)
  BY <1>2, <1>3
<1> QED BY <1>4 DEF FirstGrave

----------------------------------------------------------------------------
(* findEntry. *)

\* Contents that are neither empty nor a tombstone are entries.
LEMMA LiveIsEntry ==
  ASSUME NEW c \in Content, IsLive(c)
  PROVE  c \in Entry /\ c.key \in Keys /\ c.value \in Values
  BY DEF Content, IsLive, Entry

\* A probe for a key returns its entry if the table has it, or else a slot to put
\* it in; every slot it passed on the way holds something.
LEMMA FindFacts ==
  ASSUME NEW table, NEW cap, NEW k \in Keys, IsTable(table, cap), HasGap(table),
         Settled(table, cap)
  PROVE  /\ Find(table, cap, k) \in Slots(cap)
         /\ IsLive(table[Find(table, cap, k)]) => table[Find(table, cap, k)].key = k
         /\ ~ IsLive(table[Find(table, cap, k)]) => \A i \in Slots(cap) : ~ HasKey(table, i, k)
         /\ \E d \in Slots(cap) : /\ Find(table, cap, k) = Probe(k, d, cap)
                                  /\ \A c \in Slots(d) : ~ Stops(table, cap, k, c)
<1> DEFINE stop == StopAt(table, cap, k)
           grave == FirstGrave(table, cap, k, stop)
<1>1. /\ cap \in Nat \ {0}
      /\ stop \in Slots(cap)
      /\ Stops(table, cap, k, stop)
      /\ \A c \in Slots(stop) : ~ Stops(table, cap, k, c)
  BY ProbeStops
<1>2. stop \in Nat
  BY <1>1 DEF Slots
<1>3. grave \in 0 .. stop /\ (grave = stop \/ IsGrave(table, cap, k, grave))
  BY <1>2, GraveBeforeStop
<1>4. grave \in Slots(cap) /\ \A c \in Slots(grave) : c \in Slots(stop)
  BY <1>1, <1>2, <1>3 DEF Slots
<1>5. Tombstone # Empty /\ ~ IsLive(Empty) /\ ~ IsLive(Tombstone)
  BY ProbingAssumption DEF IsLive
<1> HIDE DEF stop, grave
<1>6. CASE table[Probe(k, stop, cap)] = Empty
  <2>1. Find(table, cap, k) = Probe(k, grave, cap)
    BY <1>6 DEF Find, stop, grave
  <2>2. ~ IsLive(table[Probe(k, grave, cap)])
    BY <1>3, <1>5, <1>6 DEF IsGrave
  <2>3. ASSUME NEW i \in Slots(cap), HasKey(table, i, k)
        PROVE  FALSE
    <3>1. PICK d \in Slots(cap) : Probe(k, d, cap) = i
      BY <1>1, ProbeVisitsAll
    <3>2. Stops(table, cap, k, d)
      BY <2>3, <3>1 DEF Stops, HasKey
    <3>3. \A c \in Slots(d) : ~ Stops(table, cap, k, c)
      BY <2>3, <3>1 DEF Settled
    <3>4. d = stop
      BY <1>1, <1>2, <3>2, <3>3 DEF Slots
    <3> QED BY <1>5, <1>6, <2>3, <3>1, <3>4 DEF HasKey
  <2> QED BY <1>1, <1>4, <2>1, <2>2, <2>3, ProbeVisitsAll
<1>7. CASE table[Probe(k, stop, cap)] # Empty
  <2>1. Find(table, cap, k) = Probe(k, stop, cap)
    BY <1>7 DEF Find, stop
  <2>2. HasKey(table, Probe(k, stop, cap), k)
    BY <1>1, <1>7 DEF Stops, HasKey
  <2> QED BY <1>1, <2>1, <2>2, ProbeVisitsAll DEF HasKey
<1> QED BY <1>6, <1>7

\* A probe for the key of an entry ends at that entry.
LEMMA FindsEntry ==
  ASSUME NEW table, NEW cap, IsTable(table, cap), HasGap(table), Settled(table, cap),
         NEW i \in Live(table)
  PROVE  Find(table, cap, table[i].key) = i
<1> DEFINE k == table[i].key
<1>1. i \in Slots(cap) /\ k \in Keys /\ HasKey(table, i, k)
  BY LiveIsEntry DEF IsTable, Live, HasKey
<1>2. cap \in Nat \ {0}
  BY <1>1, ProbeStops
<1>3. PICK d \in Slots(cap) : Probe(k, d, cap) = i
  BY <1>1, <1>2, ProbeVisitsAll
<1>4. PICK e \in Slots(cap) : /\ Find(table, cap, k) = Probe(k, e, cap)
                              /\ \A c \in Slots(e) : ~ Stops(table, cap, k, c)
  BY <1>1, FindFacts
<1>5. HasKey(table, Probe(k, e, cap), k)
  BY <1>1, <1>4, FindFacts DEF HasKey
<1>6. Stops(table, cap, k, d) /\ Stops(table, cap, k, e)
  BY <1>1, <1>3, <1>5 DEF Stops, HasKey
<1>7. \A c \in Slots(d) : ~ Stops(table, cap, k, c)
  BY <1>1, <1>3 DEF Settled
<1>8. d = e
  BY <1>2, <1>4, <1>6, <1>7 DEF Slots
<1> QED BY <1>3, <1>4, <1>8

\* So no key has two entries.
LEMMA KeysAreUnique ==
  ASSUME NEW table, NEW cap, IsTable(table, cap), HasGap(table), Settled(table, cap),
         NEW i \in Live(table), NEW j \in Live(table), table[i].key = table[j].key
  PROVE  i = j
  BY FindsEntry

----------------------------------------------------------------------------
(* Changes to a table. *)

\* A new array holds nothing.
LEMMA BlankFacts ==
  ASSUME NEW cap \in Nat
  PROVE  /\ IsTable(Blank(cap), cap)
         /\ Live(Blank(cap)) = {} /\ Held(Blank(cap)) = {} /\ Occupied(Blank(cap)) = {}
         /\ Settled(Blank(cap), cap)
<1>1. /\ DOMAIN Blank(cap) = Slots(cap)
      /\ \A i \in Slots(cap) : Blank(cap)[i] = Empty /\ ~ IsLive(Blank(cap)[i])
  BY DEF Blank, IsLive
<1>2. IsTable(Blank(cap), cap)
  BY DEF IsTable, Blank, Content
<1>3. Live(Blank(cap)) = {} /\ Held(Blank(cap)) = {} /\ Occupied(Blank(cap)) = {}
  BY <1>1 DEF Live, Held, Occupied
<1>4. Settled(Blank(cap), cap)
  <2> SUFFICES ASSUME NEW k \in Keys, NEW d \in Slots(cap),
                      HasKey(Blank(cap), Probe(k, d, cap), k)
               PROVE  FALSE
    BY DEF Settled
  <2>1. cap \in Nat \ {0}
    BY DEF Slots
  <2>2. Probe(k, d, cap) \in Slots(cap)
    BY <2>1, ProbeVisitsAll
  <2> QED BY <1>1, <2>2 DEF HasKey
<1> QED BY <1>2, <1>3, <1>4

\* A table after an entry is stored where the probe for its key ended.
StoredIn(table, cap, e) == [table EXCEPT ![Find(table, cap, e.key)] = e]

\* What it holds then.
With(held, e) == {f \in held : f.key # e.key} \cup {e}

\* The entry replaces the one with its key, if there was one, and every other entry
\* can still be probed to.
LEMMA StoreFacts ==
  ASSUME NEW table, NEW cap, IsTable(table, cap), HasGap(table), Settled(table, cap),
         NEW e \in Entry
  PROVE  /\ IsTable(StoredIn(table, cap, e), cap)
         /\ Settled(StoredIn(table, cap, e), cap)
         /\ Held(StoredIn(table, cap, e)) = With(Held(table), e)
         /\ Occupied(StoredIn(table, cap, e)) = Occupied(table) \cup {Find(table, cap, e.key)}
<1> DEFINE after == StoredIn(table, cap, e)
<1> DEFINE at == Find(table, cap, e.key)
<1>1. /\ e.key \in Keys /\ e.value \in Values /\ e \in Content /\ IsLive(e) /\ e # Empty
  BY ProbingAssumption DEF Entry, Content, IsLive
<1>2. /\ at \in Slots(cap)
      /\ IsLive(table[at]) => table[at].key = e.key
      /\ ~ IsLive(table[at]) => \A i \in Slots(cap) : ~ HasKey(table, i, e.key)
      /\ \E d \in Slots(cap) : at = Probe(e.key, d, cap)
                               /\ \A c \in Slots(d) : ~ Stops(table, cap, e.key, c)
  BY <1>1, FindFacts
<1>3. cap \in Nat \ {0}
  BY <1>2 DEF IsTable, Slots
<1>4. /\ DOMAIN table = Slots(cap) /\ DOMAIN after = Slots(cap)
      /\ after[at] = e
      /\ \A i \in Slots(cap) : i # at => after[i] = table[i]
  BY <1>2 DEF IsTable, StoredIn
<1>5. IsTable(after, cap)
  BY <1>1, <1>2 DEF IsTable, StoredIn
<1> HIDE DEF at, after
<1>6. \A i \in Slots(cap) : HasKey(table, i, e.key) => i = at
  <2> SUFFICES ASSUME NEW i \in Slots(cap), HasKey(table, i, e.key)
               PROVE  i = at
    OBVIOUS
  <2>1. IsLive(table[at]) /\ table[at].key = e.key
    BY <1>2
  <2>2. i \in Live(table) /\ at \in Live(table) /\ table[i].key = table[at].key
    BY <1>2, <1>4, <2>1 DEF Live, HasKey
  <2> QED BY <2>2, KeysAreUnique
<1>7. Settled(after, cap)
  <2> SUFFICES ASSUME NEW k \in Keys, NEW d \in Slots(cap),
                      HasKey(after, Probe(k, d, cap), k), NEW c \in Slots(d),
                      Stops(after, cap, k, c)
               PROVE  FALSE
    BY DEF Settled
  <2>1. /\ c \in Slots(cap) /\ Probe(k, c, cap) \in Slots(cap) /\ Probe(k, d, cap) \in Slots(cap)
        /\ Probe(k, c, cap) # Probe(k, d, cap)
    <3>1. c \in Slots(cap) /\ c # d
      BY <1>3 DEF Slots
    <3> QED BY <1>3, <3>1, ProbeVisitsAll
  <2>2. CASE k = e.key
    <3>1. Probe(k, d, cap) = at
      BY <1>4, <1>6, <2>1, <2>2 DEF HasKey
    <3>2. Probe(k, c, cap) # at
      BY <2>1, <3>1
    <3>3. Stops(table, cap, k, c)
      BY <1>4, <2>1, <3>2 DEF Stops
    <3>4. PICK x \in Slots(cap) : /\ at = Probe(k, x, cap)
                                  /\ \A y \in Slots(x) : ~ Stops(table, cap, k, y)
      BY <1>2, <2>2
    <3>5. x = d
      BY <1>3, <3>1, <3>4, ProbeVisitsAll
    <3> QED BY <3>3, <3>4, <3>5
  <2>3. CASE k # e.key
    <3>1. Probe(k, d, cap) # at
      BY <1>4, <2>3 DEF HasKey
    <3>2. HasKey(table, Probe(k, d, cap), k)
      BY <1>4, <2>1, <3>1 DEF HasKey
    <3>3. ~ Stops(table, cap, k, c)
      BY <3>2 DEF Settled
    <3>4. Probe(k, c, cap) # at
      BY <1>1, <1>4, <2>3 DEF Stops
    <3> QED BY <1>4, <2>1, <3>3, <3>4 DEF Stops
  <2> QED BY <2>2, <2>3
<1>8. Held(after) = {f \in Held(table) : f.key # e.key} \cup {e}
  <2>1. ASSUME NEW i \in Live(after)
        PROVE  after[i] \in {f \in Held(table) : f.key # e.key} \cup {e}
    <3>1. CASE i = at
      BY <1>4, <3>1
    <3>2. CASE i # at
      <4>1. i \in Live(table) /\ after[i] = table[i]
        BY <1>4, <3>2 DEF Live
      <4>2. table[i].key # e.key
        BY <1>4, <1>6, <3>2, <4>1 DEF Live, HasKey
      <4> QED BY <4>1, <4>2 DEF Held
    <3> QED BY <3>1, <3>2
  <2>2. ASSUME NEW i \in Live(table), table[i].key # e.key
        PROVE  table[i] \in Held(after)
    <3>1. i # at
      BY <1>2, <2>2 DEF Live
    <3>2. i \in Live(after) /\ after[i] = table[i]
      BY <1>4, <3>1 DEF Live
    <3> QED BY <3>2 DEF Held
  <2>3. e \in Held(after)
    <3>1. at \in Live(after)
      BY <1>1, <1>2, <1>4 DEF Live
    <3> QED BY <1>4, <3>1 DEF Held
  <2> QED BY <2>1, <2>2, <2>3 DEF Held
<1>9. Occupied(after) = Occupied(table) \cup {at}
  BY <1>1, <1>2, <1>4 DEF Occupied
<1> QED BY <1>5, <1>7, <1>8, <1>9 DEF at, after, With

\* A slot stored into is live, as are those that were.
LEMMA StoreLives ==
  ASSUME NEW table, NEW cap, IsTable(table, cap), HasGap(table), Settled(table, cap),
         NEW e \in Entry
  PROVE  Live(StoredIn(table, cap, e)) = Live(table) \cup {Find(table, cap, e.key)}
<1>1. e.key \in Keys /\ IsLive(e)
  BY ProbingAssumption DEF Entry, IsLive
<1>2. Find(table, cap, e.key) \in Slots(cap) /\ DOMAIN table = Slots(cap)
  BY <1>1, FindFacts DEF IsTable
<1> QED BY <1>1, <1>2 DEF Live, StoredIn

\* Tombstones in the place of entries: the others can still be probed to.
LEMMA EraseFacts ==
  ASSUME NEW table, NEW cap, IsTable(table, cap), Settled(table, cap),
         NEW gone \in SUBSET Live(table), NEW after,
         after = [i \in DOMAIN table |-> IF i \in gone THEN Tombstone ELSE table[i]]
  PROVE  /\ IsTable(after, cap)
         /\ Settled(after, cap)
         /\ Live(after) = Live(table) \ gone
         /\ \A i \in Live(after) : after[i] = table[i]
         /\ Occupied(after) = Occupied(table)
<1>1. /\ DOMAIN table = Slots(cap) /\ DOMAIN after = Slots(cap)
      /\ \A i \in Slots(cap) : after[i] = IF i \in gone THEN Tombstone ELSE table[i]
  BY DEF IsTable
<1>2. Tombstone # Empty /\ ~ IsLive(Tombstone) /\ ~ IsLive(Empty)
  BY ProbingAssumption DEF IsLive
<1>3. IsTable(after, cap)
  BY DEF IsTable, Content
<1>4. Live(after) = Live(table) \ gone /\ \A i \in Live(after) : after[i] = table[i]
  BY <1>1, <1>2 DEF Live
<1>5. Occupied(after) = Occupied(table)
  <2>1. \A i \in gone : i \in Slots(cap) /\ table[i] # Empty
    BY <1>1, <1>2 DEF Live
  <2> QED BY <1>1, <1>2, <2>1 DEF Occupied
<1>6. Settled(after, cap)
  <2> SUFFICES ASSUME NEW k \in Keys, NEW d \in Slots(cap),
                      HasKey(after, Probe(k, d, cap), k), NEW c \in Slots(d)
               PROVE  ~ Stops(after, cap, k, c)
    BY DEF Settled
  <2>1. cap \in Nat \ {0} /\ c \in Slots(cap)
    BY DEF IsTable, Slots
  <2>2. Probe(k, d, cap) \in Slots(cap) /\ Probe(k, c, cap) \in Slots(cap)
    BY <2>1, ProbeVisitsAll
  <2>3. HasKey(table, Probe(k, d, cap), k)
    BY <1>1, <1>2, <2>2 DEF HasKey
  <2>4. ~ Stops(table, cap, k, c)
    BY <2>3 DEF Settled
  <2> QED BY <1>1, <1>2, <2>2, <2>4 DEF Stops
<1> QED BY <1>3, <1>4, <1>5, <1>6

----------------------------------------------------------------------------
(* The map that a table is. *)

\* Two entries of a set never differ in their values only.
Functional(held) == \A e, f \in held : e.key = f.key => e = f

\* The entries of a table are a function from keys to values.
LEMMA HeldIsFunctional ==
  ASSUME NEW table, NEW cap, IsTable(table, cap), HasGap(table), Settled(table, cap)
  PROVE  Functional(Held(table)) /\ Held(table) \subseteq Entry
<1>1. \A i \in Live(table) : table[i] \in Entry
  BY LiveIsEntry DEF Live, IsTable
<1>2. \A i, j \in Live(table) : table[i].key = table[j].key => i = j
  BY KeysAreUnique
<1> QED BY <1>1, <1>2 DEF Held, Functional

\* Which map a table is depends on what it holds only, not on where.
LEMMA BindingsFacts ==
  ASSUME NEW table, Functional(Held(table))
  PROVE  /\ Bindings(table) = [k \in {e.key : e \in Held(table)} |-> Bindings(table)[k]]
         /\ \A e \in Held(table) : Bindings(table)[e.key] = e.value
<1>1. DOMAIN Bindings(table) = {e.key : e \in Held(table)}
  BY DEF Bindings, Held
<1>2. ASSUME NEW e \in Held(table)
      PROVE  Bindings(table)[e.key] = e.value
  <2> DEFINE i == CHOOSE j \in Live(table) : table[j].key = e.key
  <2>1. i \in Live(table) /\ table[i].key = e.key
    BY DEF Held
  <2>2. table[i] = e
    BY <2>1 DEF Functional, Held
  <2>3. Bindings(table)[e.key] = table[i].value
    BY <2>1 DEF Bindings
  <2> QED BY <2>2, <2>3
<1>3. Bindings(table) = [k \in DOMAIN Bindings(table) |-> Bindings(table)[k]]
  BY DEF Bindings
<1> QED BY <1>1, <1>2, <1>3

\* Tables that hold the same entries are the same map.
LEMMA SameBindings ==
  ASSUME NEW s, NEW t, Functional(Held(s)), Held(s) = Held(t)
  PROVE  Bindings(s) = Bindings(t)
<1>1. /\ Bindings(s) = [k \in {e.key : e \in Held(s)} |-> Bindings(s)[k]]
      /\ Bindings(t) = [k \in {e.key : e \in Held(s)} |-> Bindings(t)[k]]
      /\ \A e \in Held(s) : Bindings(s)[e.key] = e.value /\ Bindings(t)[e.key] = e.value
  BY BindingsFacts
<1>2. \A k \in {e.key : e \in Held(s)} : Bindings(s)[k] = Bindings(t)[k]
  BY <1>1
<1> QED BY <1>1, <1>2, Zenon

\* An entry stored binds its key; the other bindings stay.
LEMMA StoreBinds ==
  ASSUME NEW s, NEW t, Functional(Held(s)), Functional(Held(t)), NEW e \in Entry,
         Held(t) = With(Held(s), e)
  PROVE  Bindings(t) = [j \in DOMAIN Bindings(s) \cup {e.key} |->
                          IF j = e.key THEN e.value ELSE Bindings(s)[j]]
<1> DEFINE keys == DOMAIN Bindings(s) \cup {e.key}
<1>1. /\ DOMAIN Bindings(s) = {f.key : f \in Held(s)}
      /\ \A f \in Held(s) : Bindings(s)[f.key] = f.value
      /\ Bindings(t) = [k \in {f.key : f \in Held(t)} |-> Bindings(t)[k]]
      /\ \A f \in Held(t) : Bindings(t)[f.key] = f.value
  BY BindingsFacts
<1>2. {f.key : f \in Held(t)} = keys
  BY <1>1 DEF With
<1>3. \A j \in keys : Bindings(t)[j] = IF j = e.key THEN e.value ELSE Bindings(s)[j]
  BY <1>1 DEF With
<1>4. Bindings(t) = [j \in keys |-> Bindings(t)[j]]
  BY <1>1, <1>2
<1> QED BY <1>3, <1>4, Zenon

WithoutKeys(held, gone) == {e \in held : e.key \notin gone}

MapWithout(map, gone) == [j \in DOMAIN map \ gone |-> map[j]]

\* Entries removed take their bindings with them.
LEMMA RemovalUnbinds ==
  ASSUME NEW s, NEW t, Functional(Held(s)), Functional(Held(t)), NEW gone,
         Held(t) = WithoutKeys(Held(s), gone)
  PROVE  Bindings(t) = MapWithout(Bindings(s), gone)
<1> DEFINE keys == DOMAIN Bindings(s) \ gone
<1>1. /\ DOMAIN Bindings(s) = {f.key : f \in Held(s)}
      /\ \A f \in Held(s) : Bindings(s)[f.key] = f.value
      /\ Bindings(t) = [k \in {f.key : f \in Held(t)} |-> Bindings(t)[k]]
      /\ \A f \in Held(t) : Bindings(t)[f.key] = f.value
  BY BindingsFacts
<1>2. {f.key : f \in Held(t)} = keys
  BY <1>1 DEF WithoutKeys
<1>3. \A j \in keys : Bindings(t)[j] = Bindings(s)[j]
  BY <1>1 DEF WithoutKeys
<1>4. Bindings(t) = [j \in keys |-> Bindings(t)[j]]
  BY <1>1, <1>2
<1> QED BY <1>3, <1>4, Zenon DEF MapWithout

----------------------------------------------------------------------------
(* Load. *)

\* The occupied slots are a finite set, and if they are at most three quarters of a
\* table there is a gap.
LEMMA GapFacts ==
  ASSUME NEW table, NEW cap, IsTable(table, cap)
  PROVE  /\ IsFiniteSet(Occupied(table)) /\ Cardinality(Occupied(table)) \in Nat
         /\ cap > 0 /\ 4 * Cardinality(Occupied(table)) <= 3 * cap => HasGap(table)
         /\ Cardinality(Occupied(table)) = 0 => Live(table) = {}
<1>1. IsFiniteSet(Slots(cap)) /\ Cardinality(Slots(cap)) = cap
  BY FS_Interval DEF IsTable, Slots
<1>2. Occupied(table) \in SUBSET Slots(cap)
  BY DEF Occupied, IsTable
<1>3. IsFiniteSet(Occupied(table)) /\ Cardinality(Occupied(table)) \in Nat
  BY <1>1, <1>2, FS_Subset, FS_CardinalityType
<1>4. ASSUME cap > 0, 4 * Cardinality(Occupied(table)) <= 3 * cap, ~ HasGap(table)
      PROVE  FALSE
  <2>1. Occupied(table) = Slots(cap)
    BY <1>4 DEF Occupied, HasGap, IsTable
  <2> QED BY <1>1, <1>4, <2>1 DEF IsTable
<1>5. ASSUME Cardinality(Occupied(table)) = 0
      PROVE  Live(table) = {}
  <2>1. Occupied(table) = {}
    BY <1>3, <1>5, FS_EmptySet
  <2> QED BY <2>1 DEF Occupied, Live, IsLive
<1> QED BY <1>3, <1>4, <1>5

\* The live slots of a table are finitely many, and none if it has no slots.
LEMMA LiveFacts ==
  ASSUME NEW table, NEW cap, IsTable(table, cap)
  PROVE  /\ IsFiniteSet(Live(table)) /\ Cardinality(Live(table)) \in Nat
         /\ Cardinality(Live(table)) <= Cardinality(Occupied(table))
         /\ cap = 0 => Live(table) = {}
<1>1. Live(table) \subseteq Occupied(table)
  BY DEF Live, Occupied, IsLive
<1>2. IsFiniteSet(Occupied(table)) /\ Cardinality(Occupied(table)) \in Nat
  BY GapFacts
<1>3. cap = 0 => Live(table) = {}
  BY DEF IsTable, Live, Slots
<1> QED BY <1>1, <1>2, <1>3, FS_Subset, FS_CardinalityType
============================================================================
