----------------------------- MODULE CallsProofs ----------------------------
(***************************************************************************)
(* Proofs about Calls, for stacks, frames, closures and captures without   *)
(* bounds: how frames and callbacks nest, and that upvalues implement      *)
(* lexical scoping.                                                        *)
(***************************************************************************)
EXTENDS Calls, SequenceTheorems, FiniteSetTheorems, WellFoundedInduction, TLAPS

Slots == Value \cup {Callee}

----------------------------------------------------------------------------
(* Sequences. *)

\* The first n elements.
LEMMA PrefixFacts ==
  ASSUME NEW S, NEW s \in Seq(S), NEW n \in 0 .. Len(s)
  PROVE  /\ SubSeq(s, 1, n) \in Seq(S) /\ Len(SubSeq(s, 1, n)) = n
         /\ \A i \in 1 .. n : SubSeq(s, 1, n)[i] = s[i]
  BY Len(s) \in Nat

\* The last element, and what comes before it.
LEMMA TopFacts ==
  ASSUME NEW S, NEW s \in Seq(S), s # <<>>
  PROVE  /\ Len(s) \in Nat \ {0} /\ Top(s) = s[Len(s)] /\ Top(s) \in S
         /\ Front(s) \in Seq(S) /\ Len(Front(s)) = Len(s) - 1
         /\ \A i \in 1 .. Len(s) - 1 : Front(s)[i] = s[i]
<1>1. Len(s) \in Nat \ {0}
  BY EmptySeq
<1>2. Top(s) = s[Len(s)] /\ Top(s) \in S
  BY <1>1, ElementOfSeq DEF Top
<1>3. Front(s) = SubSeq(s, 1, Len(s) - 1)
  BY DEF Front
<1>4. Len(s) - 1 \in 0 .. Len(s)
  BY <1>1
<1>5. /\ SubSeq(s, 1, Len(s) - 1) \in Seq(S) /\ Len(SubSeq(s, 1, Len(s) - 1)) = Len(s) - 1
      /\ \A i \in 1 .. Len(s) - 1 : SubSeq(s, 1, Len(s) - 1)[i] = s[i]
  BY <1>4, PrefixFacts
<1> QED BY <1>1, <1>2, <1>3, <1>5

\* A callee and its arguments on the stack.
LEMMA CalledFacts ==
  ASSUME NEW s \in Seq(Slots), NEW args \in Arguments
  PROVE  /\ s \o <<Callee>> \o args \in Seq(Slots)
         /\ Len(s \o <<Callee>> \o args) \in Nat
         /\ Len(s \o <<Callee>> \o args) > Len(s)
         /\ \A i \in 1 .. Len(s) : (s \o <<Callee>> \o args)[i] = s[i]
<1>0. \A v \in Slots : <<v>> \in Seq(Slots)
  OBVIOUS
<1>1. args \in Seq(Slots) /\ <<Callee>> \in Seq(Slots)
  <2>1. <<Callee>> \in Seq(Slots)
    BY <1>0 DEF Slots
  <2>2. CASE args = <<>>
    BY <2>1, <2>2
  <2>3. CASE args # <<>>
    <3>1. PICK v \in Value : args = <<v>>
      BY <2>3 DEF Arguments
    <3> QED BY <1>0, <2>1, <3>1 DEF Slots
  <2> QED BY <2>2, <2>3
<1>2. PICK t \in Seq(Slots) : t = s \o <<Callee>>
  BY <1>1, ConcatProperties
<1>3. Len(t) = Len(s) + 1 /\ \A i \in 1 .. Len(s) : t[i] = s[i]
  BY <1>1, <1>2, ConcatProperties
<1>4. /\ t \o args \in Seq(Slots) /\ Len(t \o args) = Len(t) + Len(args)
      /\ \A i \in 1 .. Len(t) : (t \o args)[i] = t[i]
  BY <1>1, ConcatProperties
<1>5. Len(args) \in Nat /\ Len(s) \in Nat
  BY <1>1
<1> QED BY <1>2, <1>3, <1>4, <1>5

\* A set of natural numbers that is not empty has a least element.
LEMMA LeastNumber ==
  ASSUME NEW S, S \subseteq Nat, S # {}
  PROVE  \E n \in S : \A m \in S : n <= m
<1>1. PICK top \in S : TRUE
  OBVIOUS
<1> DEFINE low == {n \in S : n <= top}
           cuts == {0 .. n : n \in low}
           order == StrictSubsetOrdering(0 .. top)
<1>2. IsWellFoundedOn(order, SUBSET (0 .. top))
  <2>1. IsFiniteSet(0 .. top)
    BY <1>1, FS_Interval
  <2> QED BY <2>1, FS_StrictSubsetOrderingWellFounded, FS_FiniteSubsetsOfFinite
<1>3. cuts \subseteq SUBSET (0 .. top) /\ cuts # {}
  BY <1>1
<1>4. PICK s \in cuts : \A t \in cuts : <<t, s>> \notin order
  <2> HIDE DEF cuts, order
  <2> QED BY <1>2, <1>3, WFMin
<1>5. PICK n \in low : s = 0 .. n
  BY <1>4
<1>6. ASSUME NEW m \in low, m < n
      PROVE  FALSE
  <2>1. 0 .. m \in cuts /\ 0 .. m \subseteq 0 .. n /\ n \notin 0 .. m /\ n \in 0 .. n
    BY <1>1, <1>6
  <2>2. <<0 .. m, s>> \in order
    BY <1>3, <1>5, <2>1 DEF StrictSubsetOrdering
  <2> QED BY <1>4, <2>1, <2>2
<1> QED BY <1>1, <1>5, <1>6

\* Where a falling sequence goes below a bound.
LEMMA FallingCut ==
  ASSUME NEW vals \in Seq(Nat), \A k, m \in DOMAIN vals : k < m => vals[k] > vals[m],
         NEW last \in Nat
  PROVE  \E n \in 0 .. Len(vals) : \A k \in DOMAIN vals : vals[k] >= last <=> k <= n
<1> DEFINE below == {k \in DOMAIN vals : vals[k] < last}
<1>0. below \subseteq Nat /\ DOMAIN vals = 1 .. Len(vals) /\ Len(vals) \in Nat
  OBVIOUS
<1>1. CASE below = {}
  <2>1. \A k \in DOMAIN vals : vals[k] >= last /\ k <= Len(vals)
    BY <1>0, <1>1
  <2> HIDE DEF below
  <2>2. Len(vals) \in 0 .. Len(vals)
    BY <1>0
  <2> QED BY <2>1, <2>2
<1>2. CASE below # {}
  <2>1. PICK n \in below : \A m \in below : n <= m
    <3> HIDE DEF below
    <3> QED BY <1>0, <1>2, LeastNumber
  <2>2. n \in 1 .. Len(vals) /\ vals[n] < last
    BY <1>0
  <2>3. ASSUME NEW k \in DOMAIN vals
        PROVE  vals[k] >= last <=> k <= n - 1
    BY <1>0, <2>1, <2>2, SMTT(20)
  <2>4. n - 1 \in 0 .. Len(vals)
    BY <1>0, <2>2
  <2> HIDE DEF below
  <2> QED BY <2>3, <2>4
<1> QED BY <1>1, <1>2

----------------------------------------------------------------------------
(* How frames and native functions nest: fs are frames, ns natives, and len *)
(* is the length of the stack.                                              *)

Frame == [closure : Int, slots : Nat]
Native == [base : Nat, breakFrame : Nat, stackTop : Nat]

\* Each function's part of the stack starts within its caller's, and what lies
\* above a frame that callFunction made up is a function's.
FramesIn(fs, len) ==
  /\ Len(fs) = 0 => len = 0
  /\ Len(fs) > 0 => /\ fs[1].slots = 1 /\ fs[1].closure # Synthetic
                    /\ fs[Len(fs)].closure # Synthetic
  /\ \A k \in 1 .. Len(fs) :
       IF fs[k].closure = Synthetic THEN fs[k].slots = 0 /\ fs[k + 1].closure # Synthetic
       ELSE fs[k].slots > 0
  /\ \A k, m \in 1 .. Len(fs) :
       k < m /\ fs[k].closure # Synthetic /\ fs[m].closure # Synthetic =>
         fs[k].slots < fs[m].slots
  /\ \A k \in 1 .. Len(fs) : fs[k].slots <= len

\* A native function that waits in callFunction,
Waits(n, fs) ==
  /\ n.breakFrame > 1 /\ n.breakFrame < Len(fs)
  /\ fs[n.breakFrame].closure = Synthetic
  /\ fs[n.breakFrame - 1].slots <= n.base /\ n.base + 2 <= n.stackTop
  /\ n.stackTop + 1 = fs[n.breakFrame + 1].slots

\* and one that runs.
Runs(n, fs, len) ==
  /\ Len(fs) > 0 /\ n.breakFrame = 0
  /\ fs[Len(fs)].slots <= n.base /\ n.base + 2 <= len

NoneRuns(ns) == Len(ns) > 0 => ns[Len(ns)].breakFrame # 0

NativesIn(fs, ns, len) ==
  /\ \A k \in 1 .. Len(ns) : \/ Waits(ns[k], fs)
                             \/ k = Len(ns) /\ Runs(ns[k], fs, len)
  /\ \A k, m \in 1 .. Len(ns) :
       k < m /\ ns[m].breakFrame # 0 => ns[k].breakFrame < ns[m].breakFrame
  /\ \A j \in 1 .. Len(fs) : fs[j].closure = Synthetic =>
       \E k \in 1 .. Len(ns) : ns[k].breakFrame = j

\* What the lemmas below assume.
Nested(fs, ns, len) ==
  /\ fs \in Seq(Frame) /\ ns \in Seq(Native) /\ len \in Nat
  /\ FramesIn(fs, len) /\ NativesIn(fs, ns, len)

\* What is used of nesting, with frames and natives by their places.
LEMMA NestedFacts ==
  ASSUME NEW fs, NEW ns, NEW len, Nested(fs, ns, len)
  PROVE  /\ fs \in Seq(Frame) /\ ns \in Seq(Native)
         /\ len \in Nat /\ Len(fs) \in Nat /\ Len(ns) \in Nat
         /\ \A k \in 1 .. Len(fs) : fs[k].slots \in Nat /\ fs[k].slots <= len
         /\ \A k \in 1 .. Len(fs) : fs[k].closure = Synthetic =>
              fs[k].slots = 0 /\ k < Len(fs) /\ k > 1 /\ fs[k + 1].closure # Synthetic
         /\ \A k \in 1 .. Len(fs) : fs[k].closure # Synthetic => fs[k].slots > 0
         /\ \A k, m \in 1 .. Len(fs) :
              k < m /\ fs[k].closure # Synthetic /\ fs[m].closure # Synthetic =>
                fs[k].slots < fs[m].slots
         /\ \A k \in 1 .. Len(ns) :
              ns[k].base \in Nat /\ ns[k].breakFrame \in Nat /\ ns[k].stackTop \in Nat
<1>1. /\ fs \in Seq(Frame) /\ ns \in Seq(Native)
      /\ len \in Nat /\ Len(fs) \in Nat /\ Len(ns) \in Nat
  BY DEF Nested
<1>2. \A k \in 1 .. Len(fs) : fs[k].slots \in Nat
  <2>1. \A k \in 1 .. Len(fs) : fs[k] \in Frame
    BY <1>1, ElementOfSeq
  <2>2. \A f \in Frame : f.slots \in Nat
    BY DEF Frame
  <2> QED BY <2>1, <2>2
<1>3. \A k \in 1 .. Len(fs) : fs[k].slots <= len
  BY DEF Nested, FramesIn
<1>4. ASSUME NEW k \in 1 .. Len(fs), fs[k].closure = Synthetic
      PROVE  fs[k].slots = 0 /\ k < Len(fs) /\ k > 1 /\ fs[k + 1].closure # Synthetic
  <2>1. Len(fs) > 0
    BY <1>1
  <2>2. k # 1 /\ k # Len(fs)
    BY <1>4, <2>1 DEF Nested, FramesIn
  <2>3. fs[k].slots = 0 /\ fs[k + 1].closure # Synthetic
    BY <1>4 DEF Nested, FramesIn
  <2> QED BY <1>1, <2>2, <2>3
<1>5. \A k \in 1 .. Len(fs) : fs[k].closure # Synthetic => fs[k].slots > 0
  BY DEF Nested, FramesIn
<1>6. \A k, m \in 1 .. Len(fs) :
        k < m /\ fs[k].closure # Synthetic /\ fs[m].closure # Synthetic =>
          fs[k].slots < fs[m].slots
  BY DEF Nested, FramesIn
<1>7. \A k \in 1 .. Len(ns) :
        ns[k].base \in Nat /\ ns[k].breakFrame \in Nat /\ ns[k].stackTop \in Nat
  <2>1. \A k \in 1 .. Len(ns) : ns[k] \in Native
    BY <1>1, ElementOfSeq
  <2>2. \A n \in Native : n.base \in Nat /\ n.breakFrame \in Nat /\ n.stackTop \in Nat
    BY DEF Native
  <2> QED BY <2>1, <2>2
<1> QED BY <1>1, <1>2, <1>3, <1>4, <1>5, <1>6, <1>7

\* The last frame is a function's and starts highest.
LEMMA TopFrameFacts ==
  ASSUME NEW fs, NEW ns, NEW len, Nested(fs, ns, len), Len(fs) > 0
  PROVE  /\ fs[1].slots = 1 /\ fs[1].closure # Synthetic /\ fs[Len(fs)].closure # Synthetic
         /\ fs[Len(fs)].slots > 0
         /\ \A k \in 1 .. Len(fs) : fs[k].slots <= fs[Len(fs)].slots
<1>1. fs[1].slots = 1 /\ fs[1].closure # Synthetic /\ fs[Len(fs)].closure # Synthetic
  BY DEF Nested, FramesIn
<1>2. Len(fs) \in 1 .. Len(fs)
  BY NestedFacts
<1>3. fs[Len(fs)].slots > 0 /\ fs[Len(fs)].slots \in Nat
  BY <1>1, <1>2, NestedFacts
<1>4. ASSUME NEW k \in 1 .. Len(fs)
      PROVE  fs[k].slots <= fs[Len(fs)].slots
  <2>1. CASE fs[k].closure = Synthetic
    BY <1>3, <2>1, NestedFacts
  <2>2. CASE fs[k].closure # Synthetic /\ k < Len(fs)
    <3>1. fs[k].slots < fs[Len(fs)].slots
      BY <1>1, <1>2, <2>2, NestedFacts
    <3>2. fs[k].slots \in Nat
      BY NestedFacts
    <3> QED BY <1>3, <3>1, <3>2
  <2>3. CASE k = Len(fs)
    BY <1>3, <2>3
  <2> QED BY <1>2, <2>1, <2>2, <2>3
<1> QED BY <1>1, <1>3, <1>4

\* The native functions that wait do so in order.
LEMMA NativeFacts ==
  ASSUME NEW fs, NEW ns, NEW len, Nested(fs, ns, len)
  PROVE  /\ \A k \in 1 .. Len(ns) : ns[k].breakFrame # 0 => Waits(ns[k], fs)
         /\ \A k \in 1 .. Len(ns) : k < Len(ns) => ns[k].breakFrame # 0
         /\ \A k \in 1 .. Len(ns) : ns[k].breakFrame = 0 => k = Len(ns) /\ Runs(ns[k], fs, len)
         /\ \A k, m \in 1 .. Len(ns) :
              k < m /\ ns[m].breakFrame # 0 => ns[k].breakFrame < ns[m].breakFrame
         /\ \A j \in 1 .. Len(fs) : fs[j].closure = Synthetic =>
              \E k \in 1 .. Len(ns) : ns[k].breakFrame = j
<1>1. /\ \A k \in 1 .. Len(ns) : \/ Waits(ns[k], fs)
                                 \/ k = Len(ns) /\ Runs(ns[k], fs, len)
      /\ \A k, m \in 1 .. Len(ns) :
           k < m /\ ns[m].breakFrame # 0 => ns[k].breakFrame < ns[m].breakFrame
      /\ \A j \in 1 .. Len(fs) : fs[j].closure = Synthetic =>
           \E k \in 1 .. Len(ns) : ns[k].breakFrame = j
  BY DEF Nested, NativesIn
<1>2. \A k \in 1 .. Len(ns) : /\ Waits(ns[k], fs) => ns[k].breakFrame # 0
                              /\ Runs(ns[k], fs, len) => ns[k].breakFrame = 0
  BY DEF Waits, Runs
<1>3. \A k \in 1 .. Len(ns) : k < Len(ns) => k # Len(ns)
  BY NestedFacts
<1> QED BY <1>1, <1>2, <1>3

\* The values of the running function come and go.
LEMMA NestedLength ==
  ASSUME NEW fs, NEW ns, NEW len, Nested(fs, ns, len), Len(fs) > 0, NoneRuns(ns),
         NEW len2 \in Nat, len2 >= fs[Len(fs)].slots
  PROVE  Nested(fs, ns, len2)
<1>1. ASSUME NEW k \in 1 .. Len(fs)
      PROVE  fs[k].slots <= len2
  <2>1. fs[k].slots <= fs[Len(fs)].slots /\ fs[k].slots \in Nat /\ fs[Len(fs)].slots \in Nat
    BY NestedFacts, TopFrameFacts
  <2> QED BY <2>1
<1>2. FramesIn(fs, len2)
  BY <1>1, NestedFacts, TopFrameFacts DEF FramesIn
<1>3. \A k \in 1 .. Len(ns) : Waits(ns[k], fs)
  <2> SUFFICES ASSUME NEW k \in 1 .. Len(ns) PROVE Waits(ns[k], fs)
    OBVIOUS
  <2>1. ns[k].breakFrame # 0
    BY NativeFacts, NestedFacts DEF NoneRuns
  <2> QED BY <2>1, NativeFacts
<1>4. NativesIn(fs, ns, len2)
  BY <1>3, NativeFacts DEF NativesIn
<1> QED BY <1>2, <1>4, NestedFacts DEF Nested

\* A native function waits, too, if the frames next to its own are the same.
LEMMA StillWaits ==
  ASSUME NEW n \in Native, NEW fs, NEW fs2, Waits(n, fs), Len(fs) \in Nat, Len(fs2) \in Nat,
         n.breakFrame < Len(fs2),
         \A k \in 1 .. Len(fs) : k <= Len(fs2) => fs2[k] = fs[k]
  PROVE  Waits(n, fs2)
<1>1. n.breakFrame \in Nat
  BY DEF Native
<1>2. PICK b \in Nat : b = n.breakFrame
  BY <1>1
<1>3. b > 1 /\ b < Len(fs) /\ b < Len(fs2)
  BY <1>2 DEF Waits
<1>4. fs2[b - 1] = fs[b - 1] /\ fs2[b] = fs[b] /\ fs2[b + 1] = fs[b + 1]
  BY <1>3
<1> QED BY <1>2, <1>3, <1>4 DEF Waits

\* call() adds a frame.
LEMMA NestedCall ==
  ASSUME NEW fs, NEW ns, NEW len, Nested(fs, ns, len), Len(fs) > 0, NoneRuns(ns),
         NEW len2 \in Nat, len2 > len, NEW f \in Frame, f.closure # Synthetic, f.slots = len + 1
  PROVE  Nested(Append(fs, f), ns, len2)
<1> DEFINE fs2 == Append(fs, f)
<1>1. /\ fs \in Seq(Frame) /\ ns \in Seq(Native) /\ len \in Nat /\ Len(fs) \in Nat
      /\ Len(ns) \in Nat /\ \A k \in 1 .. Len(fs) : fs[k].slots \in Nat /\ fs[k].slots <= len
  BY NestedFacts
<1>2. /\ fs2 \in Seq(Frame) /\ Len(fs2) = Len(fs) + 1 /\ fs2[Len(fs) + 1] = f
      /\ \A k \in 1 .. Len(fs) : fs2[k] = fs[k]
  BY <1>1, AppendProperties
<1> HIDE DEF fs2
<1>3. FramesIn(fs2, len2)
  <2>1. /\ fs2[1].slots = 1 /\ fs2[1].closure # Synthetic
        /\ fs2[Len(fs2)].closure # Synthetic /\ Len(fs2) > 0
    BY <1>1, <1>2, TopFrameFacts
  <2>2. ASSUME NEW k \in 1 .. Len(fs2)
        PROVE  /\ fs2[k].slots <= len2
               /\ IF fs2[k].closure = Synthetic
                  THEN fs2[k].slots = 0 /\ fs2[k + 1].closure # Synthetic
                  ELSE fs2[k].slots > 0
    <3>1. CASE k = Len(fs2)
      BY <1>1, <1>2, <3>1
    <3>2. CASE k < Len(fs2) /\ fs[k].closure = Synthetic
      <4>1. k \in 1 .. Len(fs)
        BY <1>1, <1>2, <3>2
      <4>2. fs[k].slots = 0 /\ k < Len(fs) /\ fs[k + 1].closure # Synthetic
        BY <3>2, <4>1, NestedFacts
      <4>3. k + 1 \in 1 .. Len(fs)
        BY <1>1, <4>1, <4>2
      <4> QED BY <1>1, <1>2, <3>2, <4>1, <4>2, <4>3
    <3>3. CASE k < Len(fs2) /\ fs[k].closure # Synthetic
      <4>1. k \in 1 .. Len(fs)
        BY <1>1, <1>2, <3>3
      <4>2. fs[k].slots > 0
        BY <3>3, <4>1, NestedFacts
      <4> QED BY <1>1, <1>2, <3>3, <4>1, <4>2
    <3> QED BY <1>1, <1>2, <3>1, <3>2, <3>3
  <2>3. ASSUME NEW k \in 1 .. Len(fs2), NEW m \in 1 .. Len(fs2), k < m,
               fs2[k].closure # Synthetic, fs2[m].closure # Synthetic
        PROVE  fs2[k].slots < fs2[m].slots
    <3>1. k \in 1 .. Len(fs)
      BY <1>1, <1>2, <2>3
    <3>2. CASE m = Len(fs2)
      BY <1>1, <1>2, <3>1, <3>2
    <3>3. CASE m # Len(fs2)
      <4>1. m \in 1 .. Len(fs)
        BY <1>1, <1>2, <3>3
      <4> QED BY <1>2, <2>3, <3>1, <4>1, NestedFacts
    <3> QED BY <3>2, <3>3
  <2> QED BY <2>1, <2>2, <2>3 DEF FramesIn
<1>4. NativesIn(fs2, ns, len2)
  <2>1. ASSUME NEW k \in 1 .. Len(ns)
        PROVE  Waits(ns[k], fs2)
    <3>1. ns[k] \in Native /\ ns[k].breakFrame \in Nat
      BY <1>1, NestedFacts, ElementOfSeq
    <3>2. ns[k].breakFrame # 0
      BY NativeFacts, NestedFacts DEF NoneRuns
    <3>3. Waits(ns[k], fs)
      BY <3>2, NativeFacts
    <3>4. ns[k].breakFrame < Len(fs2)
      BY <1>1, <1>2, <3>1, <3>3 DEF Waits
    <3> QED BY <1>1, <1>2, <3>1, <3>3, <3>4, StillWaits
  <2>2. ASSUME NEW j \in 1 .. Len(fs2), fs2[j].closure = Synthetic
        PROVE  \E k \in 1 .. Len(ns) : ns[k].breakFrame = j
    <3>1. j \in 1 .. Len(fs) /\ fs[j].closure = Synthetic
      BY <1>1, <1>2, <2>2
    <3> QED BY <3>1, NativeFacts
  <2> QED BY <2>1, <2>2, NativeFacts DEF NativesIn
<1> QED BY <1>1, <1>2, <1>3, <1>4 DEF Nested, fs2

\* A native function is called.
LEMMA NestedNative ==
  ASSUME NEW fs, NEW ns, NEW len, Nested(fs, ns, len), Len(fs) > 0, NoneRuns(ns),
         NEW n \in Native, n.base = len, n.breakFrame = 0
  PROVE  Nested(fs, Append(ns, n), len + 2)
<1> DEFINE ns2 == Append(ns, n)
<1>1. /\ fs \in Seq(Frame) /\ ns \in Seq(Native) /\ len \in Nat /\ Len(fs) \in Nat
      /\ Len(ns) \in Nat /\ Len(fs) \in 1 .. Len(fs)
      /\ fs[Len(fs)].slots \in Nat /\ fs[Len(fs)].slots <= len
  BY NestedFacts
<1>2. /\ ns2 \in Seq(Native) /\ Len(ns2) = Len(ns) + 1 /\ ns2[Len(ns) + 1] = n
      /\ \A k \in 1 .. Len(ns) : ns2[k] = ns[k]
  BY <1>1, AppendProperties
<1> HIDE DEF ns2
<1>3. len + 2 \in Nat /\ len + 2 >= fs[Len(fs)].slots
  BY <1>1
<1>4. FramesIn(fs, len + 2)
  BY <1>3, NestedLength DEF Nested
<1>5. NativesIn(fs, ns2, len + 2)
  <2>1. ASSUME NEW k \in 1 .. Len(ns2)
        PROVE  \/ Waits(ns2[k], fs)
               \/ k = Len(ns2) /\ Runs(ns2[k], fs, len + 2)
    <3>1. CASE k = Len(ns2)
      BY <1>1, <1>2, <3>1 DEF Runs
    <3>2. CASE k # Len(ns2)
      <4>1. k \in 1 .. Len(ns)
        BY <1>1, <1>2, <3>2
      <4>2. ns[k].breakFrame # 0
        BY <4>1, NativeFacts, NestedFacts DEF NoneRuns
      <4> QED BY <1>2, <4>1, <4>2, NativeFacts
    <3> QED BY <3>1, <3>2
  <2>2. ASSUME NEW k \in 1 .. Len(ns2), NEW m \in 1 .. Len(ns2), k < m, ns2[m].breakFrame # 0
        PROVE  ns2[k].breakFrame < ns2[m].breakFrame
    <3>1. m \in 1 .. Len(ns) /\ k \in 1 .. Len(ns)
      BY <1>1, <1>2, <2>2
    <3> QED BY <1>2, <2>2, <3>1, NativeFacts
  <2>3. ASSUME NEW j \in 1 .. Len(fs), fs[j].closure = Synthetic
        PROVE  \E k \in 1 .. Len(ns2) : ns2[k].breakFrame = j
    <3>1. PICK k \in 1 .. Len(ns) : ns[k].breakFrame = j
      BY <2>3, NativeFacts
    <3>2. k \in 1 .. Len(ns2)
      BY <1>1, <1>2
    <3> QED BY <1>2, <3>1, <3>2
  <2> QED BY <2>1, <2>2, <2>3 DEF NativesIn
<1> QED BY <1>1, <1>2, <1>3, <1>4, <1>5 DEF Nested, ns2

\* It returns.
LEMMA NestedNativeReturn ==
  ASSUME NEW fs, NEW ns, NEW len, Nested(fs, ns, len), Len(ns) > 0, ~ NoneRuns(ns)
  PROVE  /\ Nested(fs, Front(ns), ns[Len(ns)].base + 1)
         /\ NoneRuns(Front(ns)) /\ ns[Len(ns)].base + 2 <= len /\ Len(fs) > 0
         /\ fs[Len(fs)].slots <= ns[Len(ns)].base
<1> DEFINE ns2 == Front(ns)
           base == ns[Len(ns)].base
<1>1. /\ fs \in Seq(Frame) /\ ns \in Seq(Native) /\ len \in Nat /\ Len(fs) \in Nat
      /\ Len(ns) \in Nat /\ Len(ns) \in 1 .. Len(ns) /\ base \in Nat
  BY NestedFacts
<1>2. /\ ns2 \in Seq(Native) /\ Len(ns2) = Len(ns) - 1
      /\ \A k \in 1 .. Len(ns2) : ns2[k] = ns[k]
  <2>1. ns # <<>>
    BY <1>1
  <2>2. ns2 \in Seq(Native) /\ Len(ns2) = Len(ns) - 1 /\ \A k \in 1 .. Len(ns) - 1 : ns2[k] = ns[k]
    BY <1>1, <2>1, TopFacts
  <2> QED BY <2>2
<1> HIDE DEF ns2
<1>3. ns[Len(ns)].breakFrame = 0
  BY DEF NoneRuns
<1>4. Runs(ns[Len(ns)], fs, len)
  BY <1>1, <1>3, NativeFacts
<1>5. /\ Len(fs) > 0 /\ fs[Len(fs)].slots <= base /\ base + 2 <= len
  BY <1>4 DEF Runs
<1>6. \A k \in 1 .. Len(ns2) : /\ k \in 1 .. Len(ns) /\ k < Len(ns) /\ ns2[k] = ns[k]
                               /\ ns2[k].breakFrame # 0 /\ Waits(ns2[k], fs)
  <2> SUFFICES ASSUME NEW k \in 1 .. Len(ns2)
               PROVE  /\ k \in 1 .. Len(ns) /\ k < Len(ns) /\ ns2[k] = ns[k]
                      /\ ns2[k].breakFrame # 0 /\ Waits(ns2[k], fs)
    OBVIOUS
  <2>1. k \in 1 .. Len(ns) /\ k < Len(ns)
    BY <1>1, <1>2
  <2>2. ns[k].breakFrame # 0
    BY <2>1, NativeFacts
  <2>3. Waits(ns[k], fs)
    BY <2>1, <2>2, NativeFacts
  <2> QED BY <1>2, <2>1, <2>2, <2>3
<1>7. FramesIn(fs, base + 1)
  <2>1. ASSUME NEW k \in 1 .. Len(fs)
        PROVE  fs[k].slots <= base + 1
    <3>1. fs[k].slots \in Nat /\ fs[k].slots <= fs[Len(fs)].slots /\ fs[Len(fs)].slots \in Nat
      BY <1>5, NestedFacts, TopFrameFacts
    <3> QED BY <1>1, <1>5, <3>1
  <2> QED BY <1>5, <2>1, NestedFacts, TopFrameFacts DEF FramesIn
<1>8. NativesIn(fs, ns2, base + 1)
  <2>1. ASSUME NEW j \in 1 .. Len(fs), fs[j].closure = Synthetic
        PROVE  \E k \in 1 .. Len(ns2) : ns2[k].breakFrame = j
    <3>1. PICK k \in 1 .. Len(ns) : ns[k].breakFrame = j
      BY <2>1, NativeFacts
    <3>2. k \in 1 .. Len(ns2)
      BY <1>1, <1>2, <1>3, <3>1
    <3> QED BY <1>2, <3>1, <3>2
  <2>2. \A k, m \in 1 .. Len(ns2) : k < m /\ ns2[m].breakFrame # 0 =>
          ns2[k].breakFrame < ns2[m].breakFrame
    BY <1>6, NativeFacts
  <2> QED BY <1>6, <2>1, <2>2 DEF NativesIn
<1>9. NoneRuns(ns2)
  <2>1. Len(ns2) > 0 => Len(ns2) \in 1 .. Len(ns2)
    BY <1>1, <1>2
  <2> QED BY <1>6, <2>1 DEF NoneRuns
<1> QED BY <1>1, <1>2, <1>5, <1>7, <1>8, <1>9 DEF Nested, ns2

\* callFunction adds two frames.
LEMMA NestedCallback ==
  ASSUME NEW fs, NEW ns, NEW len, Nested(fs, ns, len), Len(ns) > 0, ~ NoneRuns(ns),
         NEW len2 \in Nat, len2 > len,
         NEW fs2 \in Seq(Frame), Len(fs2) = Len(fs) + 2,
         \A k \in 1 .. Len(fs) : fs2[k] = fs[k],
         fs2[Len(fs) + 1].closure = Synthetic, fs2[Len(fs) + 1].slots = 0,
         fs2[Len(fs) + 2].closure # Synthetic, fs2[Len(fs) + 2].slots = len + 1,
         NEW ns2 \in Seq(Native), Len(ns2) = Len(ns),
         \A k \in 1 .. Len(ns) : k < Len(ns) => ns2[k] = ns[k],
         ns2[Len(ns)].base = ns[Len(ns)].base, ns2[Len(ns)].breakFrame = Len(fs) + 1,
         ns2[Len(ns)].stackTop = len
  PROVE  Nested(fs2, ns2, len2)
<1>1. /\ fs \in Seq(Frame) /\ ns \in Seq(Native) /\ len \in Nat /\ Len(fs) \in Nat
      /\ Len(ns) \in Nat /\ Len(ns) \in 1 .. Len(ns) /\ ns[Len(ns)].base \in Nat
      /\ \A k \in 1 .. Len(fs) : fs[k].slots \in Nat /\ fs[k].slots <= len
  BY NestedFacts
<1>2. Runs(ns[Len(ns)], fs, len)
  BY <1>1, NativeFacts DEF NoneRuns
<1>3. /\ Len(fs) > 0 /\ fs[Len(fs)].slots <= ns[Len(ns)].base /\ ns[Len(ns)].base + 2 <= len
      /\ Len(fs) \in 1 .. Len(fs)
  BY <1>1, <1>2 DEF Runs
<1>4. FramesIn(fs2, len2)
  <2>0. \A k \in 1 .. Len(fs2) : /\ k \in 1 .. Len(fs) \/ k = Len(fs) + 1 \/ k = Len(fs) + 2
                                 /\ k <= Len(fs) \/ k = Len(fs) + 1 \/ k = Len(fs) + 2
                                 /\ \A m \in 1 .. Len(fs2) : k < m /\ k = Len(fs) + 2 => FALSE
    <3>1. \A n \in Nat : \A k \in 1 .. n + 2 :
            /\ k \in 1 .. n \/ k = n + 1 \/ k = n + 2
            /\ k <= n \/ k = n + 1 \/ k = n + 2
            /\ \A m \in 1 .. n + 2 : k < m /\ k = n + 2 => FALSE
      OBVIOUS
    <3> QED BY <1>1, <3>1
  <2>1. /\ fs2[1].slots = 1 /\ fs2[1].closure # Synthetic
        /\ fs2[Len(fs2)].closure # Synthetic /\ Len(fs2) > 0
    BY <1>1, <1>3, TopFrameFacts, SMTT(20)
  <2>2. ASSUME NEW k \in 1 .. Len(fs2)
        PROVE  /\ fs2[k].slots <= len2
               /\ IF fs2[k].closure = Synthetic
                  THEN fs2[k].slots = 0 /\ fs2[k + 1].closure # Synthetic
                  ELSE fs2[k].slots > 0
    <3>1. CASE k = Len(fs) + 2
      BY <1>1, <3>1
    <3>2. CASE k = Len(fs) + 1
      <4>1. k + 1 = Len(fs) + 2
        BY <1>1, <3>2
      <4> QED BY <1>1, <3>2, <4>1
    <3>3. CASE k <= Len(fs) /\ fs[k].closure = Synthetic
      <4>1. k \in 1 .. Len(fs)
        BY <1>1, <3>3
      <4>2. fs[k].slots = 0 /\ k < Len(fs) /\ fs[k + 1].closure # Synthetic
        BY <3>3, <4>1, NestedFacts
      <4>3. k + 1 \in 1 .. Len(fs)
        BY <1>1, <4>1, <4>2
      <4> QED BY <1>1, <3>3, <4>1, <4>2, <4>3
    <3>4. CASE k <= Len(fs) /\ fs[k].closure # Synthetic
      <4>1. k \in 1 .. Len(fs)
        BY <1>1, <3>4
      <4>2. fs[k].slots > 0
        BY <3>4, <4>1, NestedFacts
      <4> QED BY <1>1, <3>4, <4>1, <4>2
    <3>5. k <= Len(fs) \/ k = Len(fs) + 1 \/ k = Len(fs) + 2
      BY <2>0
    <3> QED BY <3>1, <3>2, <3>3, <3>4, <3>5
  <2>3. ASSUME NEW k \in 1 .. Len(fs2), NEW m \in 1 .. Len(fs2), k < m,
               fs2[k].closure # Synthetic, fs2[m].closure # Synthetic
        PROVE  fs2[k].slots < fs2[m].slots
    <3>1. k # Len(fs) + 1 /\ m # Len(fs) + 1
      BY <2>3
    <3>2. k \in 1 .. Len(fs)
      BY <2>0, <2>3, <3>1
    <3>3. CASE m = Len(fs) + 2
      BY <1>1, <3>2, <3>3, SMTT(20)
    <3>4. CASE m # Len(fs) + 2
      <4>1. m \in 1 .. Len(fs)
        BY <2>0, <3>1, <3>4
      <4>2. fs[k].slots < fs[m].slots
        BY <2>3, <3>2, <4>1, NestedFacts
      <4> QED BY <3>2, <4>1, <4>2
    <3> QED BY <3>3, <3>4
  <2> QED BY <2>1, <2>2, <2>3 DEF FramesIn
<1>5. ASSUME NEW k \in 1 .. Len(ns), k < Len(ns)
      PROVE  /\ ns2[k] = ns[k] /\ ns[k].breakFrame \in Nat /\ ns[k].breakFrame < Len(fs)
             /\ ns[k].breakFrame # 0 /\ Waits(ns2[k], fs2)
  <2>1. ns[k] \in Native /\ ns[k].breakFrame \in Nat
    BY <1>1, NestedFacts, ElementOfSeq
  <2>2. Waits(ns[k], fs) /\ ns[k].breakFrame # 0
    BY <1>5, NativeFacts
  <2>3. ns[k].breakFrame < Len(fs) /\ ns[k].breakFrame < Len(fs2)
    BY <1>1, <2>1, <2>2 DEF Waits
  <2>4. Waits(ns[k], fs2)
    BY <1>1, <2>1, <2>2, <2>3, StillWaits
  <2> QED BY <1>5, <2>1, <2>2, <2>3, <2>4
<1>6. Waits(ns2[Len(ns)], fs2)
  <2>1. /\ (Len(fs) + 1) - 1 = Len(fs) /\ (Len(fs) + 1) + 1 = Len(fs) + 2
        /\ Len(fs) + 1 < Len(fs2) /\ Len(fs) + 1 > 1
    BY <1>1, <1>3
  <2>2. fs2[Len(fs)].slots <= ns[Len(ns)].base /\ len < fs2[Len(fs) + 2].slots
    BY <1>1, <1>3
  <2> QED BY <1>1, <1>3, <2>1, <2>2 DEF Waits
<1>7. NativesIn(fs2, ns2, len2)
  <2>1. ASSUME NEW k \in 1 .. Len(ns2)
        PROVE  Waits(ns2[k], fs2)
    BY <1>1, <1>5, <1>6
  <2>2. ASSUME NEW k \in 1 .. Len(ns2), NEW m \in 1 .. Len(ns2), k < m
        PROVE  ns2[k].breakFrame < ns2[m].breakFrame
    <3>1. CASE m = Len(ns)
      BY <1>1, <1>5, <2>2, <3>1
    <3>2. CASE m # Len(ns)
      <4>1. m < Len(ns) /\ k < Len(ns)
        BY <1>1, <2>2, <3>2
      <4> QED BY <1>5, <2>2, <4>1, NativeFacts
    <3> QED BY <3>1, <3>2
  <2>3. ASSUME NEW j \in 1 .. Len(fs2), fs2[j].closure = Synthetic
        PROVE  \E k \in 1 .. Len(ns2) : ns2[k].breakFrame = j
    <3>1. CASE j = Len(fs) + 1
      BY <1>1, <3>1
    <3>2. CASE j # Len(fs) + 1
      <4>1. j \in 1 .. Len(fs)
        BY <1>1, <2>3, <3>2
      <4>2. PICK k \in 1 .. Len(ns) : ns[k].breakFrame = j
        BY <2>3, <4>1, NativeFacts
      <4>3. k # Len(ns)
        BY <1>1, <4>1, <4>2 DEF NoneRuns
      <4> QED BY <1>1, <1>5, <4>2, <4>3
    <3> QED BY <3>1, <3>2
  <2> QED BY <2>1, <2>2, <2>3 DEF NativesIn
<1> QED BY <1>4, <1>7 DEF Nested

\* The frames up to a function's.
LEMMA FramesPrefix ==
  ASSUME NEW fs, NEW ns, NEW len, Nested(fs, ns, len), NEW p \in 1 .. Len(fs),
         fs[p].closure # Synthetic, NEW len2 \in Nat, fs[p].slots <= len2
  PROVE  /\ SubSeq(fs, 1, p) \in Seq(Frame) /\ Len(SubSeq(fs, 1, p)) = p
         /\ \A k \in 1 .. p : SubSeq(fs, 1, p)[k] = fs[k]
         /\ FramesIn(SubSeq(fs, 1, p), len2)
<1> DEFINE fs2 == SubSeq(fs, 1, p)
<1>1. fs \in Seq(Frame) /\ Len(fs) \in Nat /\ Len(fs) > 0 /\ p \in 0 .. Len(fs) /\ fs[p].slots \in Nat
  BY NestedFacts
<1>2. fs2 \in Seq(Frame) /\ Len(fs2) = p /\ \A k \in 1 .. p : fs2[k] = fs[k]
  BY <1>1, PrefixFacts
<1> HIDE DEF fs2
<1>3. fs2[1].slots = 1 /\ fs2[1].closure # Synthetic /\ fs2[p].closure # Synthetic
  BY <1>1, <1>2, TopFrameFacts
<1>4. ASSUME NEW k \in 1 .. p
      PROVE  /\ fs2[k].slots <= len2
             /\ IF fs2[k].closure = Synthetic
                THEN fs2[k].slots = 0 /\ fs2[k + 1].closure # Synthetic
                ELSE fs2[k].slots > 0
  <2>1. k \in 1 .. Len(fs)
    BY <1>1
  <2>2. CASE fs[k].closure = Synthetic
    <3>1. k + 1 \in 1 .. p
      BY <1>1, <2>2
    <3>2. fs[k].slots = 0 /\ fs[k + 1].closure # Synthetic
      BY <2>1, <2>2, NestedFacts
    <3>3. fs2[k] = fs[k] /\ fs2[k + 1] = fs[k + 1]
      BY <1>2, <3>1
    <3> QED BY <2>2, <3>2, <3>3
  <2>3. CASE fs[k].closure # Synthetic /\ k # p
    <3>1. fs[k].slots < fs[p].slots /\ fs[k].slots \in Nat /\ fs[k].slots > 0
      BY <1>1, <2>1, <2>3, NestedFacts
    <3> QED BY <1>1, <1>2, <2>3, <3>1
  <2>4. CASE fs[k].closure # Synthetic /\ k = p
    BY <1>1, <1>2, <2>1, <2>4, NestedFacts
  <2> QED BY <2>2, <2>3, <2>4
<1>5. ASSUME NEW k \in 1 .. p, NEW m \in 1 .. p, k < m,
             fs2[k].closure # Synthetic, fs2[m].closure # Synthetic
      PROVE  fs2[k].slots < fs2[m].slots
  BY <1>1, <1>2, <1>5, NestedFacts
<1>6. FramesIn(fs2, len2)
  BY <1>1, <1>2, <1>3, <1>4, <1>5 DEF FramesIn
<1> QED BY <1>2, <1>6 DEF fs2

\* A function returns to the frame below.
LEMMA NestedReturn ==
  ASSUME NEW fs, NEW ns, NEW len, Nested(fs, ns, len), Len(fs) > 1, NoneRuns(ns),
         Len(ns) > 0 => ns[Len(ns)].breakFrame # Len(fs) - 1
  PROVE  /\ Nested(Front(fs), ns, fs[Len(fs)].slots)
         /\ fs[Len(fs)].slots \in 1 .. len
<1> DEFINE fs2 == Front(fs)
           p == Len(fs) - 1
           len2 == fs[Len(fs)].slots
<1>1. /\ fs \in Seq(Frame) /\ ns \in Seq(Native) /\ len \in Nat /\ Len(fs) \in Nat
      /\ Len(ns) \in Nat /\ p \in 1 .. Len(fs) /\ Len(fs) \in 1 .. Len(fs) /\ p + 1 = Len(fs)
      /\ \A k \in 1 .. Len(fs) : fs[k].slots \in Nat
      /\ len2 \in Nat /\ len2 <= len /\ len2 > 0
  BY NestedFacts, TopFrameFacts
<1>2. \A k \in 1 .. Len(ns) : ns[k].breakFrame # 0 /\ Waits(ns[k], fs)
  <2> SUFFICES ASSUME NEW k \in 1 .. Len(ns) PROVE ns[k].breakFrame # 0 /\ Waits(ns[k], fs)
    OBVIOUS
  <2>1. ns[k].breakFrame # 0
    BY NativeFacts, NestedFacts DEF NoneRuns
  <2> QED BY <2>1, NativeFacts
<1>3. ASSUME NEW k \in 1 .. Len(ns)
      PROVE  ns[k].breakFrame < p
  <2>1. Len(ns) \in 1 .. Len(ns) /\ ns[Len(ns)].breakFrame \in Nat /\ ns[k].breakFrame \in Nat
    BY <1>1, NestedFacts
  <2>2. ns[Len(ns)].breakFrame < Len(fs)
    BY <1>2, <2>1 DEF Waits
  <2>3. ns[Len(ns)].breakFrame < p
    BY <1>1, <2>1, <2>2
  <2>4. CASE k = Len(ns)
    BY <2>3, <2>4
  <2>5. CASE k # Len(ns)
    <3>1. ns[k].breakFrame < ns[Len(ns)].breakFrame
      BY <1>1, <1>2, <2>1, <2>5, NativeFacts
    <3> QED BY <1>1, <2>1, <2>3, <3>1
  <2> QED BY <2>4, <2>5
<1>4. fs[p].closure # Synthetic
  <2> SUFFICES ASSUME fs[p].closure = Synthetic PROVE FALSE
    OBVIOUS
  <2>1. PICK k \in 1 .. Len(ns) : ns[k].breakFrame = p
    BY <1>1, NativeFacts, SMTT(20)
  <2> QED BY <1>1, <1>3, <2>1
<1>5. fs[p].slots <= len2
  BY <1>1, TopFrameFacts, SMTT(20)
<1>6. /\ fs2 \in Seq(Frame) /\ Len(fs2) = p /\ \A k \in 1 .. p : fs2[k] = fs[k]
      /\ FramesIn(fs2, len2)
  BY <1>1, <1>4, <1>5, FramesPrefix DEF Front
<1> HIDE DEF fs2
<1>7. NativesIn(fs2, ns, len2)
  <2>1. ASSUME NEW k \in 1 .. Len(ns)
        PROVE  Waits(ns[k], fs2)
    <3>1. ns[k] \in Native /\ ns[k].breakFrame < Len(fs2)
      BY <1>1, <1>3, <1>6, ElementOfSeq
    <3>2. \A j \in 1 .. Len(fs) : j <= Len(fs2) => fs2[j] = fs[j]
      BY <1>1, <1>6
    <3>3. Len(fs2) \in Nat /\ Waits(ns[k], fs)
      BY <1>1, <1>2, <1>6
    <3> QED BY <1>1, <3>1, <3>2, <3>3, StillWaits
  <2>2. \A j \in 1 .. Len(fs2) : fs2[j].closure = Synthetic =>
          \E k \in 1 .. Len(ns) : ns[k].breakFrame = j
    BY <1>1, <1>6, NativeFacts, SMTT(20)
  <2> QED BY <2>1, <2>2, NativeFacts DEF NativesIn
<1> QED BY <1>1, <1>6, <1>7 DEF Nested, fs2

\* The last function returns to no frame: then no native function waits.
LEMMA NestedScript ==
  ASSUME NEW fs, NEW ns, NEW len, Nested(fs, ns, len), Len(fs) = 1, NoneRuns(ns)
  PROVE  Nested(<<>>, ns, 0) /\ ns = <<>> /\ fs[1].slots = 1
<1>1. Len(ns) \in Nat /\ ns \in Seq(Native) /\ fs[1].slots = 1
  BY NestedFacts, TopFrameFacts
<1>2. ns = <<>>
  <2> SUFFICES ASSUME Len(ns) # 0 PROVE FALSE
    BY <1>1, EmptySeq
  <2>1. Len(ns) \in 1 .. Len(ns) /\ Len(ns) > 0
    BY <1>1
  <2>2. ns[Len(ns)].breakFrame # 0 /\ ns[Len(ns)].breakFrame \in Nat
    BY <2>1, NestedFacts DEF NoneRuns
  <2>3. Waits(ns[Len(ns)], fs)
    BY <2>1, <2>2, NativeFacts
  <2> QED BY <2>2, <2>3 DEF Waits
<1>3. <<>> \in Seq(Frame) /\ Len(<<>>) = 0
  BY EmptySeq
<1>4. FramesIn(<<>>, 0) /\ NativesIn(<<>>, <<>>, 0)
  BY <1>3 DEF FramesIn, NativesIn
<1> QED BY <1>1, <1>2, <1>3, <1>4 DEF Nested

\* The called back function returns, and callFunction with it.
LEMMA NestedCallbackReturn ==
  ASSUME NEW fs, NEW ns, NEW len, Nested(fs, ns, len), Len(ns) > 0,
         ns[Len(ns)].breakFrame = Len(fs) - 1, Len(fs) > 1,
         NEW ns2 \in Seq(Native), Len(ns2) = Len(ns),
         \A k \in 1 .. Len(ns) : k < Len(ns) => ns2[k] = ns[k],
         ns2[Len(ns)].base = ns[Len(ns)].base, ns2[Len(ns)].breakFrame = 0
  PROVE  /\ Nested(SubSeq(fs, 1, Len(fs) - 2), ns2, ns[Len(ns)].stackTop)
         /\ ns[Len(ns)].base + 2 <= ns[Len(ns)].stackTop
         /\ ns[Len(ns)].stackTop + 1 = fs[Len(fs)].slots
         /\ ns[Len(ns)].stackTop \in 0 .. len
<1> DEFINE p == Len(fs) - 2
           fs2 == SubSeq(fs, 1, p)
           n == ns[Len(ns)]
           len2 == n.stackTop
<1>1. /\ fs \in Seq(Frame) /\ ns \in Seq(Native) /\ len \in Nat /\ Len(fs) \in Nat
      /\ Len(ns) \in Nat /\ Len(ns) \in 1 .. Len(ns)
      /\ n.base \in Nat /\ len2 \in Nat /\ n.breakFrame \in Nat
      /\ \A k \in 1 .. Len(fs) : fs[k].slots \in Nat /\ fs[k].slots <= len
  BY NestedFacts
<1>2. Waits(n, fs)
  BY <1>1, NativeFacts
<1>3. /\ p \in 1 .. Len(fs) /\ p + 1 \in 1 .. Len(fs) /\ p + 2 = Len(fs) /\ n.breakFrame = p + 1
      /\ Len(fs) \in 1 .. Len(fs)
  BY <1>1, <1>2 DEF Waits
<1>4. /\ fs[p + 1].closure = Synthetic /\ fs[p].slots <= n.base /\ n.base + 2 <= len2
      /\ len2 + 1 = fs[Len(fs)].slots
  <2>1. (p + 1) - 1 = p /\ (p + 1) + 1 = Len(fs)
    BY <1>1, <1>3
  <2> QED BY <1>2, <1>3, <2>1 DEF Waits
<1> HIDE DEF n, p
<1>5. fs[p].closure # Synthetic
  BY <1>1, <1>3, <1>4, NestedFacts
<1>6. fs[p].slots <= len2 /\ len2 \in 0 .. len
  BY <1>1, <1>3, <1>4, SMTT(20)
<1>7. /\ fs2 \in Seq(Frame) /\ Len(fs2) = p /\ \A k \in 1 .. p : fs2[k] = fs[k]
      /\ FramesIn(fs2, len2)
  BY <1>1, <1>3, <1>5, <1>6, FramesPrefix
<1> HIDE DEF fs2
<1>8. Runs(ns2[Len(ns)], fs2, len2)
  BY <1>1, <1>3, <1>4, <1>7 DEF Runs, n
<1>9. ASSUME NEW k \in 1 .. Len(ns), k < Len(ns)
      PROVE  ns2[k] = ns[k] /\ ns[k].breakFrame # 0 /\ Waits(ns2[k], fs2)
  <2>1. ns[k] \in Native /\ ns[k].breakFrame \in Nat
    BY <1>1, NestedFacts, ElementOfSeq
  <2>2. Waits(ns[k], fs) /\ ns[k].breakFrame # 0
    BY <1>9, NativeFacts
  <2>3. ns[k].breakFrame < p + 1
    <3>1. ns[Len(ns)].breakFrame # 0 /\ ns[Len(ns)].breakFrame = p + 1
      <4>1. p + 1 # 0
        BY <1>1, <1>3
      <4>2. ns[Len(ns)].breakFrame = p + 1
        BY <1>3 DEF n
      <4> QED BY <4>1, <4>2
    <3>2. ns[k].breakFrame < ns[Len(ns)].breakFrame
      BY <1>1, <1>9, <3>1, NativeFacts
    <3> QED BY <3>1, <3>2
  <2>4. ns[k].breakFrame # p
    <3> SUFFICES ASSUME ns[k].breakFrame = p PROVE FALSE
      OBVIOUS
    <3> QED BY <1>5, <2>2 DEF Waits
  <2>5. ns[k].breakFrame < Len(fs2)
    BY <1>1, <1>3, <1>7, <2>1, <2>3, <2>4
  <2>6. \A j \in 1 .. Len(fs) : j <= Len(fs2) => fs2[j] = fs[j]
    BY <1>1, <1>3, <1>7
  <2>7. Waits(ns[k], fs2)
    <3>1. Len(fs2) \in Nat
      BY <1>1, <1>3, <1>7
    <3> QED BY <1>1, <2>1, <2>2, <2>5, <2>6, <3>1, StillWaits
  <2> QED BY <1>9, <2>2, <2>7
<1>10. NativesIn(fs2, ns2, len2)
  <2>1. ASSUME NEW k \in 1 .. Len(ns2)
        PROVE  \/ Waits(ns2[k], fs2)
               \/ k = Len(ns2) /\ Runs(ns2[k], fs2, len2)
    BY <1>1, <1>8, <1>9
  <2>2. ASSUME NEW k \in 1 .. Len(ns2), NEW m \in 1 .. Len(ns2), k < m, ns2[m].breakFrame # 0
        PROVE  ns2[k].breakFrame < ns2[m].breakFrame
    <3>1. m < Len(ns) /\ k < Len(ns)
      BY <1>1, <2>2
    <3> QED BY <1>9, <2>2, <3>1, NativeFacts
  <2>3. ASSUME NEW j \in 1 .. Len(fs2), fs2[j].closure = Synthetic
        PROVE  \E k \in 1 .. Len(ns2) : ns2[k].breakFrame = j
    <3>1. j \in 1 .. Len(fs) /\ fs[j].closure = Synthetic /\ j # p + 1
      BY <1>1, <1>3, <1>7, <2>3
    <3>2. PICK k \in 1 .. Len(ns) : ns[k].breakFrame = j
      BY <3>1, NativeFacts
    <3>3. k # Len(ns)
      BY <1>3, <3>1, <3>2 DEF n
    <3> QED BY <1>1, <1>9, <3>2, <3>3, SMTT(20)
  <2> QED BY <2>1, <2>2, <2>3 DEF NativesIn
<1> QED BY <1>1, <1>4, <1>6, <1>7, <1>10 DEF Nested, fs2, p, n

----------------------------------------------------------------------------
(* The list of open upvalues. *)

Upvalue == [value : Nat, closed : Slots]

\* OpenSorted, of a list open of upvalues upvs, while len slots are in use.
OpenIn(open, upvs, len) ==
  /\ \A k, m \in 1 .. Len(open) : k < m => upvs[open[k]].value > upvs[open[m]].value
  /\ \A u \in 1 .. Len(upvs) :
       upvs[u].value # Self <=> \E k \in 1 .. Len(open) : open[k] = u
  /\ \A u \in 1 .. Len(upvs) : upvs[u].value <= len

Listed(open, upvs, len) ==
  /\ upvs \in Seq(Upvalue) /\ open \in Seq(1 .. Len(upvs)) /\ len \in Nat
  /\ OpenIn(open, upvs, len)

\* What is used of the list of open upvalues.
LEMMA ListedFacts ==
  ASSUME NEW open, NEW upvs, NEW len, Listed(open, upvs, len)
  PROVE  /\ Len(open) \in Nat /\ Len(upvs) \in Nat /\ len \in Nat
         /\ \A k \in 1 .. Len(open) : open[k] \in 1 .. Len(upvs)
         /\ \A u \in 1 .. Len(upvs) :
              /\ upvs[u] \in Upvalue /\ upvs[u].value \in 0 .. len /\ upvs[u].closed \in Slots
              /\ upvs[u].value \in Nat /\ upvs[u].value <= len
         /\ \A k \in 1 .. Len(open) : upvs[open[k]].value \in 1 .. len
         /\ \A k, m \in 1 .. Len(open) : k < m => upvs[open[k]].value > upvs[open[m]].value
<1>1. Len(open) \in Nat /\ Len(upvs) \in Nat /\ len \in Nat
  BY DEF Listed
<1>2. \A k \in 1 .. Len(open) : open[k] \in 1 .. Len(upvs)
  BY ElementOfSeq DEF Listed
<1>3. \A u \in 1 .. Len(upvs) : upvs[u] \in Upvalue
  BY ElementOfSeq DEF Listed
<1>4. \A u \in 1 .. Len(upvs) : upvs[u].value \in Nat /\ upvs[u].closed \in Slots
  BY <1>3 DEF Upvalue
<1>5. \A u \in 1 .. Len(upvs) : upvs[u].value <= len
  BY DEF Listed, OpenIn
<1>6. \A u \in 1 .. Len(upvs) : upvs[u].value \in 0 .. len
  BY <1>1, <1>4, <1>5
<1>7. \A k \in 1 .. Len(open) : upvs[open[k]].value # 0
  BY <1>2 DEF Listed, OpenIn, Self
<1>8. \A k \in 1 .. Len(open) : upvs[open[k]].value \in 1 .. len
  BY <1>1, <1>2, <1>6, <1>7
<1>9. \A k, m \in 1 .. Len(open) : k < m => upvs[open[k]].value > upvs[open[m]].value
  BY DEF Listed, OpenIn
<1> QED BY <1>1, <1>2, <1>3, <1>4, <1>5, <1>6, <1>8, <1>9

\* The list is cut in two by a slot.
LEMMA ListedCut ==
  ASSUME NEW open, NEW upvs, NEW len, Listed(open, upvs, len), NEW last \in Nat
  PROVE  \E n \in 0 .. Len(open) :
           \A k \in 1 .. Len(open) : upvs[open[k]].value >= last <=> k <= n
<1> DEFINE vals == [k \in 1 .. Len(open) |-> upvs[open[k]].value]
<1>1. Len(open) \in Nat /\ \A k \in 1 .. Len(open) : upvs[open[k]].value \in Nat
  BY ListedFacts
<1>2. vals \in Seq(Nat) /\ Len(vals) = Len(open) /\ DOMAIN vals = 1 .. Len(open)
  BY <1>1
<1>3. \A k \in 1 .. Len(open) : vals[k] = upvs[open[k]].value
  OBVIOUS
<1>4. \A k, m \in 1 .. Len(open) : k < m => upvs[open[k]].value > upvs[open[m]].value
  BY ListedFacts
<1> HIDE DEF vals
<1>5. \A k, m \in DOMAIN vals : k < m => vals[k] > vals[m]
  BY <1>2, <1>3, <1>4
<1>6. PICK n \in 0 .. Len(vals) : \A k \in DOMAIN vals : vals[k] >= last <=> k <= n
  BY <1>2, <1>5, FallingCut
<1> QED BY <1>2, <1>3, <1>6

\* closeUpvalues takes the open upvalues from last upwards off the list.
LEMMA CloseListed ==
  ASSUME NEW open, NEW upvs, NEW len, Listed(open, upvs, len), NEW last \in Nat \ {0},
         NEW n \in 0 .. Len(open),
         \A k \in 1 .. Len(open) : upvs[open[k]].value >= last <=> k <= n,
         NEW upvs2, Len(upvs2) = Len(upvs), upvs2 \in Seq(Upvalue),
         \A u \in 1 .. Len(upvs) : IF upvs[u].value >= last THEN upvs2[u].value = Self
                                   ELSE upvs2[u] = upvs[u],
         NEW len2 \in Nat, len2 >= last - 1
  PROVE  Listed(SubSeq(open, n + 1, Len(open)), upvs2, len2)
<1> DEFINE open2 == SubSeq(open, n + 1, Len(open))
<1>1. /\ Len(open) \in Nat /\ Len(upvs) \in Nat
      /\ \A k \in 1 .. Len(open) : open[k] \in 1 .. Len(upvs)
      /\ \A u \in 1 .. Len(upvs) : upvs[u].value \in Nat
  BY ListedFacts
<1>2. /\ open2 \in Seq(1 .. Len(upvs)) /\ Len(open2) = Len(open) - n
      /\ \A k \in 1 .. Len(open) - n : open2[k] = open[k + n]
  <2>1. n + 1 \in Int /\ Len(open) \in Int /\ \A i \in n + 1 .. Len(open) : open[i] \in 1 .. Len(upvs)
    BY <1>1
  <2>2. /\ open2 \in Seq(1 .. Len(upvs))
        /\ Len(open2) = IF n + 1 <= Len(open) THEN Len(open) - (n + 1) + 1 ELSE 0
        /\ \A k \in 1 .. Len(open) - (n + 1) + 1 : open2[k] = open[n + 1 + k - 1]
    BY <1>1, <2>1, SubSeqProperties
  <2>3. /\ Len(open) - (n + 1) + 1 = Len(open) - n /\ ~ (n + 1 <= Len(open)) => Len(open) - n = 0
        /\ \A k \in 1 .. Len(open) - n : n + 1 + k - 1 = k + n
    BY <1>1
  <2> QED BY <1>1, <2>2, <2>3
<1> HIDE DEF open2
<1>3. ASSUME NEW k \in 1 .. Len(open2)
      PROVE  /\ k + n \in 1 .. Len(open) /\ open2[k] = open[k + n]
             /\ upvs2[open2[k]] = upvs[open[k + n]] /\ upvs[open[k + n]].value < last
  <2>1. k + n \in 1 .. Len(open) /\ open2[k] = open[k + n] /\ ~ (k + n <= n)
    BY <1>1, <1>2, SMTT(20)
  <2>2. open[k + n] \in 1 .. Len(upvs) /\ ~ (upvs[open[k + n]].value >= last)
    BY <1>1, <2>1
  <2> QED BY <1>1, <2>1, <2>2
<1>4. ASSUME NEW u \in 1 .. Len(upvs)
      PROVE  /\ upvs2[u].value # Self <=> \E k \in 1 .. Len(open2) : open2[k] = u
             /\ upvs2[u].value <= len2
  <2>1. CASE upvs[u].value >= last
    <3>1. upvs2[u].value = 0
      BY <2>1 DEF Self
    <3>2. ASSUME NEW k \in 1 .. Len(open2), open2[k] = u
          PROVE  FALSE
      <4>1. upvs[u].value < last /\ upvs[u].value \in Nat
        BY <1>1, <1>3, <3>2
      <4> QED BY <2>1, <4>1
    <3> QED BY <3>1, <3>2 DEF Self
  <2>2. CASE ~ (upvs[u].value >= last)
    <3>1. upvs2[u] = upvs[u] /\ upvs[u].value \in Nat /\ upvs[u].value < last
      BY <1>1, <2>2
    <3>2. ASSUME upvs[u].value # Self
          PROVE  \E k \in 1 .. Len(open2) : open2[k] = u
      <4>1. PICK m \in 1 .. Len(open) : open[m] = u
        BY <3>2 DEF Listed, OpenIn
      <4>2. ~ (m <= n)
        BY <2>2, <4>1
      <4>3. PICK k \in 1 .. Len(open2) : k + n = m
        <5>1. m - n \in 1 .. Len(open2) /\ (m - n) + n = m
          BY <1>1, <1>2, <4>2
        <5> QED BY <5>1
      <4> QED BY <1>3, <4>1, <4>3
    <3>3. ASSUME NEW k \in 1 .. Len(open2), open2[k] = u
          PROVE  upvs[u].value # Self
      <4>1. k + n \in 1 .. Len(open) /\ open[k + n] = u
        BY <1>3, <3>3
      <4>2. upvs[open[k + n]].value \in 1 .. len
        BY <4>1, ListedFacts
      <4> QED BY <4>1, <4>2 DEF Self
    <3>4. upvs2[u].value <= len2
      BY <3>1
    <3> QED BY <3>1, <3>2, <3>3, <3>4
  <2> QED BY <2>1, <2>2
<1>5. ASSUME NEW k \in 1 .. Len(open2), NEW m \in 1 .. Len(open2), k < m
      PROVE  upvs2[open2[k]].value > upvs2[open2[m]].value
  <2>1. k + n < m + n
    BY <1>1, <1>2, <1>5
  <2>2. upvs[open[k + n]].value > upvs[open[m + n]].value
    BY <1>3, <2>1, ListedFacts
  <2> QED BY <1>3, <2>2
<1> QED BY <1>2, <1>4, <1>5 DEF Listed, OpenIn, open2

\* An element put in at place k.
Inserted(s, e, k) == SubSeq(s, 1, k - 1) \o <<e>> \o SubSeq(s, k, Len(s))

\* An element inserted moves those behind it one on.
LEMMA InsertedFacts ==
  ASSUME NEW T, NEW s \in Seq(T), NEW e \in T, NEW k \in 1 .. Len(s) + 1,
         NEW t, t = Inserted(s, e, k)
  PROVE  /\ t \in Seq(T) /\ Len(t) = Len(s) + 1 /\ t[k] = e
         /\ \A j \in 1 .. k - 1 : t[j] = s[j]
         /\ \A j \in k .. Len(s) : t[j + 1] = s[j]
<1> DEFINE a == SubSeq(s, 1, k - 1)
           b == SubSeq(s, k, Len(s))
<1>1. Len(s) \in Nat /\ k - 1 \in 0 .. Len(s) /\ k \in Nat \ {0}
  OBVIOUS
<1>2. a \in Seq(T) /\ Len(a) = k - 1 /\ \A j \in 1 .. k - 1 : a[j] = s[j]
  BY <1>1, PrefixFacts
<1>3. b \in Seq(T) /\ Len(b) = Len(s) - k + 1 /\ \A j \in 1 .. Len(s) - k + 1 : b[j] = s[k + j - 1]
  <2>1. k \in Int /\ Len(s) \in Int /\ \A j \in k .. Len(s) : s[j] \in T
    BY <1>1
  <2>2. /\ b \in Seq(T) /\ Len(b) = IF k <= Len(s) THEN Len(s) - k + 1 ELSE 0
        /\ \A j \in 1 .. Len(s) - k + 1 : b[j] = s[k + j - 1]
    BY <2>1, SubSeqProperties
  <2>3. ~ (k <= Len(s)) => Len(s) - k + 1 = 0
    BY <1>1
  <2> QED BY <2>2, <2>3
<1> HIDE DEF a, b
<1>4. PICK one : one = <<e>>
  OBVIOUS
<1>5. one \in Seq(T) /\ Len(one) = 1 /\ one[1] = e
  BY <1>4
<1>6. PICK c : c = a \o one
  OBVIOUS
<1>7. /\ c \in Seq(T) /\ Len(c) = Len(a) + Len(one)
      /\ \A j \in 1 .. Len(a) + Len(one) : c[j] = IF j <= Len(a) THEN a[j] ELSE one[j - Len(a)]
  BY <1>2, <1>5, <1>6, ConcatProperties
<1>8. Len(c) = k /\ c[k] = e /\ \A j \in 1 .. k - 1 : c[j] = s[j]
  <2>1. k \in 1 .. Len(a) + Len(one) /\ ~ (k <= Len(a)) /\ k - Len(a) = 1 /\ Len(a) + Len(one) = k
    BY <1>1, <1>2, <1>5
  <2>2. \A j \in 1 .. k - 1 : j \in 1 .. Len(a) + Len(one) /\ j <= Len(a)
    BY <1>1, <1>2, <1>5
  <2>3. c[k] = one[1] /\ \A j \in 1 .. k - 1 : c[j] = a[j]
    BY <1>7, <2>1, <2>2
  <2> QED BY <1>2, <1>5, <1>7, <2>1, <2>3
<1>9. t = c \o b
  BY <1>4, <1>6 DEF a, b, Inserted
<1>10. /\ t \in Seq(T) /\ Len(t) = Len(c) + Len(b)
       /\ \A j \in 1 .. Len(c) + Len(b) : t[j] = IF j <= Len(c) THEN c[j] ELSE b[j - Len(c)]
  <2>1. c \in Seq(T) /\ b \in Seq(T)
    BY <1>3, <1>7
  <2>2. /\ c \o b \in Seq(T) /\ Len(c \o b) = Len(c) + Len(b)
        /\ \A j \in 1 .. Len(c) + Len(b) :
             (c \o b)[j] = IF j <= Len(c) THEN c[j] ELSE b[j - Len(c)]
    BY <2>1, ConcatProperties
  <2> QED BY <1>9, <2>2
<1>11. Len(t) = Len(s) + 1 /\ t[k] = e /\ \A j \in 1 .. k - 1 : t[j] = s[j]
  <2>1. \A j \in 1 .. k : j \in 1 .. Len(c) + Len(b) /\ j <= Len(c)
    BY <1>1, <1>3, <1>8
  <2>2. \A j \in 1 .. k : t[j] = c[j]
    BY <1>10, <2>1
  <2>3. k \in 1 .. k /\ \A j \in 1 .. k - 1 : j \in 1 .. k
    BY <1>1
  <2>4. Len(c) + Len(b) = Len(s) + 1
    BY <1>1, <1>3, <1>8
  <2> QED BY <1>8, <1>10, <2>2, <2>3, <2>4
<1>12. ASSUME NEW j \in k .. Len(s)
       PROVE  t[j + 1] = s[j]
  <2>1. /\ j + 1 \in 1 .. Len(c) + Len(b) /\ ~ (j + 1 <= Len(c))
        /\ (j + 1) - Len(c) \in 1 .. Len(s) - k + 1 /\ k + ((j + 1) - Len(c)) - 1 = j
    BY <1>1, <1>3, <1>8
  <2>2. t[j + 1] = b[(j + 1) - Len(c)]
    BY <1>10, <2>1
  <2>3. b[(j + 1) - Len(c)] = s[k + ((j + 1) - Len(c)) - 1]
    BY <1>3, <2>1
  <2> QED BY <2>1, <2>2, <2>3
<1> QED BY <1>10, <1>11, <1>12

\* captureUpvalue puts a new upvalue where the slots above its own end.
LEMMA CaptureListed ==
  ASSUME NEW open, NEW upvs, NEW len, Listed(open, upvs, len), NEW local \in 1 .. len,
         NEW k \in 1 .. Len(open) + 1,
         k <= Len(open) => upvs[open[k]].value < local,
         \A m \in 1 .. k - 1 : upvs[open[m]].value > local
  PROVE  Listed(Inserted(open, Len(upvs) + 1, k),
                Append(upvs, [value |-> local, closed |-> Callee]), len)
<1> DEFINE new == Len(upvs) + 1
           open2 == Inserted(open, new, k)
           upvs2 == Append(upvs, [value |-> local, closed |-> Callee])
<1>1. /\ Len(open) \in Nat /\ Len(upvs) \in Nat /\ len \in Nat /\ upvs \in Seq(Upvalue)
      /\ \A j \in 1 .. Len(open) : open[j] \in 1 .. Len(upvs)
      /\ \A u \in 1 .. Len(upvs) : upvs[u].value \in Nat /\ upvs[u].value <= len
  BY ListedFacts DEF Listed
<1>2. [value |-> local, closed |-> Callee] \in Upvalue
  BY <1>1 DEF Upvalue, Slots
<1>3. /\ upvs2 \in Seq(Upvalue) /\ Len(upvs2) = new
      /\ upvs2[new] = [value |-> local, closed |-> Callee]
      /\ \A u \in 1 .. Len(upvs) : upvs2[u] = upvs[u]
  BY <1>1, <1>2, AppendProperties
<1> HIDE DEF open2
<1>4. upvs2[new].value = local /\ new \notin 1 .. Len(upvs) /\ new \in 1 .. new
  BY <1>1, <1>3
<1> HIDE DEF new
<1>5. open \in Seq(1 .. new)
  <2>1. 1 .. Len(upvs) \subseteq 1 .. new
    BY <1>1 DEF new
  <2> QED BY <2>1, SeqMonotonic DEF Listed
<1>6. /\ open2 \in Seq(1 .. new) /\ Len(open2) = Len(open) + 1 /\ open2[k] = new
      /\ \A j \in 1 .. k - 1 : open2[j] = open[j]
      /\ \A j \in k .. Len(open) : open2[j + 1] = open[j]
  <2>1. open2 = Inserted(open, new, k)
    BY DEF open2
  <2>2. PICK T : T = 1 .. new
    OBVIOUS
  <2>3. open \in Seq(T) /\ new \in T /\ k \in 1 .. Len(open) + 1
    BY <1>4, <1>5, <2>2
  <2>4. /\ open2 \in Seq(T) /\ Len(open2) = Len(open) + 1 /\ open2[k] = new
        /\ \A j \in 1 .. k - 1 : open2[j] = open[j]
        /\ \A j \in k .. Len(open) : open2[j + 1] = open[j]
    BY <2>1, <2>3, InsertedFacts, SMTT(20)
  <2> QED BY <2>2, <2>4
<1> HIDE DEF upvs2
<1>7. \A j \in 1 .. Len(open2) : j < k \/ j = k \/ \E i \in k .. Len(open) : j = i + 1
  <2> SUFFICES ASSUME NEW j \in 1 .. Len(open2), j > k PROVE \E i \in k .. Len(open) : j = i + 1
    BY <1>1
  <2>1. j - 1 \in k .. Len(open) /\ j = (j - 1) + 1
    BY <1>1, <1>6
  <2> QED BY <2>1
\* The old part of the list is as it was,
<1>8. ASSUME NEW i \in 1 .. Len(open)
      PROVE  upvs2[open[i]] = upvs[open[i]] /\ upvs[open[i]].value \in Nat
  BY <1>1, <1>3
\* and what follows the new upvalue is lower.
<1>9. ASSUME NEW i \in k .. Len(open)
      PROVE  upvs[open[i]].value < local
  <2>1. k \in 1 .. Len(open) /\ i \in 1 .. Len(open) /\ upvs[open[k]].value < local
    BY <1>1
  <2>2. CASE i = k
    BY <2>1, <2>2
  <2>3. CASE i # k
    <3>1. upvs[open[k]].value > upvs[open[i]].value
      BY <1>1, <2>1, <2>3, ListedFacts
    <3> QED BY <1>1, <1>8, <2>1, <3>1, SMTT(20)
  <2> QED BY <2>2, <2>3
<1>10. ASSUME NEW i \in 1 .. Len(open2), NEW j \in 1 .. Len(open2), i < j
       PROVE  upvs2[open2[i]].value > upvs2[open2[j]].value
  <2>1. CASE j < k
    <3>1. i \in 1 .. Len(open) /\ j \in 1 .. Len(open) /\ open2[i] = open[i] /\ open2[j] = open[j]
      BY <1>1, <1>6, <1>10, <2>1
    <3>2. upvs[open[i]].value > upvs[open[j]].value
      BY <1>10, <3>1, ListedFacts
    <3> QED BY <1>8, <3>1, <3>2
  <2>2. CASE j = k
    <3>1. i \in 1 .. Len(open) /\ i \in 1 .. k - 1 /\ open2[i] = open[i]
      BY <1>1, <1>6, <1>10, <2>2
    <3> QED BY <1>4, <1>6, <1>8, <2>2, <3>1
  <2>3. ASSUME NEW b \in k .. Len(open), j = b + 1
        PROVE  upvs2[open2[i]].value > upvs2[open2[j]].value
    <3>1. b \in 1 .. Len(open) /\ open2[j] = open[b]
      BY <1>1, <1>6, <2>3
    <3>2. upvs2[open2[j]].value = upvs[open[b]].value /\ upvs[open[b]].value < local
      BY <1>8, <1>9, <3>1
    <3>3. CASE i < k
      <4>1. i \in 1 .. Len(open) /\ i \in 1 .. k - 1 /\ open2[i] = open[i]
        <5>1. i \in 1 .. Len(open) /\ i \in 1 .. k - 1
          BY <1>1, <3>3
        <5> QED BY <1>6, <5>1
      <4>2. upvs2[open2[i]].value > local /\ upvs2[open2[i]].value \in Nat
        BY <1>8, <4>1
      <4>3. local \in Nat /\ upvs[open[b]].value \in Nat
        BY <1>1, <1>8, <3>1
      <4> QED BY <3>2, <4>2, <4>3, SMTT(20)
    <3>4. CASE i = k
      BY <1>4, <1>6, <3>2, <3>4
    <3>5. ASSUME NEW a \in k .. Len(open), i = a + 1
          PROVE  upvs2[open2[i]].value > upvs2[open2[j]].value
      <4>1. a \in 1 .. Len(open) /\ a < b /\ open2[i] = open[a]
        BY <1>1, <1>6, <1>10, <2>3, <3>5
      <4>2. upvs[open[a]].value > upvs[open[b]].value
        BY <3>1, <4>1, ListedFacts
      <4> QED BY <1>8, <3>2, <4>1, <4>2
    <3> QED BY <1>7, <3>3, <3>4, <3>5
  <2> QED BY <1>7, <2>1, <2>2, <2>3
<1>11. ASSUME NEW u \in 1 .. Len(upvs2)
       PROVE  /\ upvs2[u].value # Self <=> \E j \in 1 .. Len(open2) : open2[j] = u
              /\ upvs2[u].value <= len
  <2>1. CASE u = new
    <3>1. k \in 1 .. Len(open2)
      BY <1>1, <1>6
    <3> QED BY <1>1, <1>4, <1>6, <2>1, <3>1 DEF Self
  <2>2. CASE u # new
    <3>1. u \in 1 .. Len(upvs) /\ upvs2[u] = upvs[u]
      BY <1>1, <1>3, <2>2 DEF new
    <3>2. ASSUME NEW i \in 1 .. Len(open), open[i] = u
          PROVE  \E j \in 1 .. Len(open2) : open2[j] = u
      <4>1. CASE i < k
        <5>1. i \in 1 .. k - 1 /\ i \in 1 .. Len(open2)
          BY <1>1, <1>6, <4>1
        <5> QED BY <1>6, <3>2, <5>1
      <4>2. CASE ~ (i < k)
        <5>1. i \in k .. Len(open) /\ i + 1 \in 1 .. Len(open2)
          BY <1>1, <1>6, <4>2
        <5> QED BY <1>6, <3>2, <5>1
      <4> QED BY <4>1, <4>2
    <3>3. ASSUME NEW j \in 1 .. Len(open2), open2[j] = u
          PROVE  \E i \in 1 .. Len(open) : open[i] = u
      <4>1. CASE j < k
        <5>1. j \in 1 .. k - 1 /\ j \in 1 .. Len(open)
          BY <1>1, <4>1
        <5> QED BY <1>6, <3>3, <5>1
      <4>2. CASE j = k
        BY <1>6, <2>2, <3>3, <4>2
      <4>3. ASSUME NEW i \in k .. Len(open), j = i + 1
            PROVE  \E m \in 1 .. Len(open) : open[m] = u
        <5>1. i \in 1 .. Len(open)
          BY <1>1
        <5> QED BY <1>6, <3>3, <4>3, <5>1
      <4> QED BY <1>7, <4>1, <4>2, <4>3
    <3>4. upvs[u].value # Self <=> \E i \in 1 .. Len(open) : open[i] = u
      BY <3>1 DEF Listed, OpenIn
    <3> QED BY <1>1, <3>1, <3>2, <3>3, <3>4
  <2> QED BY <2>1, <2>2
<1>12. Listed(open2, upvs2, len)
  BY <1>1, <1>3, <1>6, <1>10, <1>11 DEF Listed, OpenIn
<1> QED BY <1>12 DEF new, open2, upvs2

\* Slots above every open upvalue come and go,
LEMMA ListedLength ==
  ASSUME NEW open, NEW upvs, NEW len, Listed(open, upvs, len), NEW len2 \in Nat,
         \A u \in 1 .. Len(upvs) : upvs[u].value <= len2
  PROVE  Listed(open, upvs, len2)
  BY DEF Listed, OpenIn

\* and a closed upvalue's own value is no part of the list.
LEMMA ListedClosed ==
  ASSUME NEW open, NEW upvs, NEW len, Listed(open, upvs, len),
         NEW upvs2 \in Seq(Upvalue), Len(upvs2) = Len(upvs),
         \A u \in 1 .. Len(upvs) : upvs2[u].value = upvs[u].value
  PROVE  Listed(open, upvs2, len)
<1>1. \A k \in 1 .. Len(open) : open[k] \in 1 .. Len(upvs)
  BY ListedFacts
<1> QED BY <1>1 DEF Listed, OpenIn

\* What closeUpvalues does to the list and to the upvalues.
LEMMA ClosingFacts ==
  ASSUME Listed(openUpvalues, upvalues, Len(stack)), stack \in Seq(Slots),
         NEW last \in Nat \ {0}, CloseUpvalues(last),
         NEW len2 \in Nat, len2 >= last - 1
  PROVE  /\ Listed(openUpvalues', upvalues', len2)
         /\ Len(upvalues') = Len(upvalues)
         /\ \A u \in 1 .. Len(upvalues) :
              upvalues'[u].value = Self \/ upvalues'[u] = upvalues[u]
         /\ \A u \in 1 .. Len(upvalues) :
              IF upvalues[u].value >= last
              THEN upvalues'[u].value = Self /\ upvalues'[u].closed = stack[upvalues[u].value]
              ELSE upvalues'[u] = upvalues[u]
<1>1. /\ Len(openUpvalues) \in Nat /\ Len(upvalues) \in Nat /\ upvalues \in Seq(Upvalue)
      /\ openUpvalues \in Seq(1 .. Len(upvalues))
      /\ \A k \in 1 .. Len(openUpvalues) : openUpvalues[k] \in 1 .. Len(upvalues)
      /\ \A u \in 1 .. Len(upvalues) :
           upvalues[u] \in Upvalue /\ upvalues[u].value \in 0 .. Len(stack)
  BY ListedFacts DEF Listed
<1>2. PICK n \in 0 .. Len(openUpvalues) :
        \A k \in 1 .. Len(openUpvalues) : upvalues[openUpvalues[k]].value >= last <=> k <= n
  BY ListedCut
<1>3. Closing(last) = 1 .. n
  <2>1. DOMAIN openUpvalues = 1 .. Len(openUpvalues)
    BY <1>1
  <2>2. ASSUME NEW k \in 1 .. Len(openUpvalues)
        PROVE  k \in Closing(last) <=> k \in 1 .. n
    <3>1. \A m \in 1 .. k : m \in 1 .. Len(openUpvalues)
      BY <1>1
    <3>2. k \in 1 .. k
      BY <1>1
    <3>3. k <= n => \A m \in 1 .. k : m <= n
      BY <1>1, <1>2
    <3>4. k \in Closing(last) <=> \A m \in 1 .. k : upvalues[openUpvalues[m]].value >= last
      BY <2>1 DEF Closing
    <3>5. k \in 1 .. n <=> k <= n
      BY <1>1, <1>2
    <3> QED BY <1>2, <3>1, <3>2, <3>3, <3>4, <3>5
  <2>3. Closing(last) \subseteq 1 .. Len(openUpvalues) /\ 1 .. n \subseteq 1 .. Len(openUpvalues)
    BY <1>1, <1>2, <2>1 DEF Closing
  <2> QED BY <2>2, <2>3
<1>4. Cardinality(Closing(last)) = n
  <2>1. Cardinality(1 .. n) = IF 1 > n THEN 0 ELSE n - 1 + 1
    BY <1>2, FS_Interval
  <2> QED BY <1>2, <1>3, <2>1
<1> DEFINE closed == {openUpvalues[k] : k \in 1 .. n}
<1>5. /\ upvalues' = [u \in DOMAIN upvalues |->
                        IF u \in closed
                        THEN [value |-> Self, closed |-> stack[upvalues[u].value]]
                        ELSE upvalues[u]]
      /\ openUpvalues' = SubSeq(openUpvalues, n + 1, Len(openUpvalues))
  BY <1>4 DEF CloseUpvalues
<1>6. ASSUME NEW u \in 1 .. Len(upvalues)
      PROVE  u \in closed <=> upvalues[u].value >= last
  <2>1. ASSUME u \in closed
        PROVE  upvalues[u].value >= last
    <3>1. PICK k \in 1 .. n : u = openUpvalues[k]
      BY <2>1
    <3>2. k \in 1 .. Len(openUpvalues) /\ k <= n
      BY <1>1, <1>2
    <3> QED BY <1>2, <3>1, <3>2
  <2>2. ASSUME upvalues[u].value >= last
        PROVE  u \in closed
    <3>1. upvalues[u].value # Self
      BY <1>1, <2>2 DEF Self
    <3>2. PICK k \in 1 .. Len(openUpvalues) : openUpvalues[k] = u
      BY <3>1 DEF Listed, OpenIn
    <3>3. k <= n
      BY <1>2, <2>2, <3>2
    <3>4. k \in 1 .. n
      BY <1>1, <1>2, <3>3
    <3> QED BY <3>2, <3>4
  <2> QED BY <2>1, <2>2
<1> HIDE DEF closed
<1>7. DOMAIN upvalues = 1 .. Len(upvalues)
  BY <1>1
<1>8. \A u \in 1 .. Len(upvalues) :
        /\ upvalues[u].value >= last => /\ upvalues'[u].value = Self
                                        /\ upvalues'[u].closed = stack[upvalues[u].value]
                                        /\ upvalues'[u] \in Upvalue
        /\ ~ (upvalues[u].value >= last) => upvalues'[u] = upvalues[u]
  <2> TAKE u \in 1 .. Len(upvalues)
  <2>1. upvalues'[u] = IF u \in closed
                       THEN [value |-> Self, closed |-> stack[upvalues[u].value]]
                       ELSE upvalues[u]
    BY <1>5, <1>7
  <2>2. ASSUME upvalues[u].value >= last
        PROVE  stack[upvalues[u].value] \in Slots
    <3>1. upvalues[u].value \in 1 .. Len(stack)
      BY <1>1, <2>2
    <3> QED BY <3>1, ElementOfSeq
  <2> QED BY <1>6, <2>1, <2>2 DEF Self, Upvalue
<1>9. upvalues' \in Seq(Upvalue) /\ Len(upvalues') = Len(upvalues)
  <2>1. upvalues' \in [1 .. Len(upvalues) -> Upvalue]
    BY <1>1, <1>5, <1>7, <1>8
  <2>2. PICK len \in Nat : len = Len(upvalues)
    BY <1>1
  <2>3. PICK upvs : upvs = upvalues'
    OBVIOUS
  <2>4. upvs \in [1 .. len -> Upvalue]
    BY <2>1, <2>2, <2>3
  <2>5. upvs \in Seq(Upvalue) /\ Len(upvs) = len
    BY <2>2, <2>4
  <2> QED BY <2>2, <2>3, <2>5
<1>10. \A u \in 1 .. Len(upvalues) : IF upvalues[u].value >= last THEN upvalues'[u].value = Self
                                     ELSE upvalues'[u] = upvalues[u]
  BY <1>8
<1>11. Listed(SubSeq(openUpvalues, n + 1, Len(openUpvalues)), upvalues', len2)
  BY <1>2, <1>9, <1>10, CloseListed
<1> QED BY <1>5, <1>8, <1>9, <1>11

\* captureUpvalue finds the slot's upvalue or makes it.
LEMMA PlaceFacts ==
  ASSUME Listed(openUpvalues, upvalues, Len(stack)), NEW local \in 1 .. Len(stack)
  PROVE  /\ Place(local) \in 1 .. Len(openUpvalues) + 1
         /\ Place(local) <= Len(openUpvalues) =>
              upvalues[openUpvalues[Place(local)]].value <= local
         /\ \A m \in 1 .. Place(local) - 1 : upvalues[openUpvalues[m]].value > local
<1>1. /\ Len(openUpvalues) \in Nat /\ Len(stack) \in Nat
      /\ \A k \in 1 .. Len(openUpvalues) : openUpvalues[k] \in 1 .. Len(upvalues)
      /\ \A u \in 1 .. Len(upvalues) : upvalues[u].value \in Nat
  BY ListedFacts
<1>2. PICK n \in 0 .. Len(openUpvalues) :
        \A k \in 1 .. Len(openUpvalues) :
          upvalues[openUpvalues[k]].value >= local + 1 <=> k <= n
  <2>1. PICK last \in Nat : last = local + 1
    BY <1>1
  <2> QED BY <2>1, ListedCut
<1>3. \E k \in 1 .. Len(openUpvalues) + 1 :
        /\ k <= Len(openUpvalues) => upvalues[openUpvalues[k]].value <= local
        /\ \A m \in 1 .. k - 1 : upvalues[openUpvalues[m]].value > local
  <2>1. n + 1 \in 1 .. Len(openUpvalues) + 1
    BY <1>1, <1>2
  <2>2. ASSUME n + 1 <= Len(openUpvalues)
        PROVE  upvalues[openUpvalues[n + 1]].value <= local
    <3>1. n + 1 \in 1 .. Len(openUpvalues) /\ ~ (n + 1 <= n)
      BY <1>1, <1>2, <2>2
    <3>2. ~ (upvalues[openUpvalues[n + 1]].value >= local + 1)
      BY <1>2, <3>1
    <3>3. upvalues[openUpvalues[n + 1]].value \in Nat
      BY <1>1, <3>1
    <3> QED BY <1>1, <3>2, <3>3
  <2>3. ASSUME NEW m \in 1 .. (n + 1) - 1
        PROVE  upvalues[openUpvalues[m]].value > local
    <3>1. m \in 1 .. Len(openUpvalues) /\ m <= n
      BY <1>1, <1>2
    <3>2. upvalues[openUpvalues[m]].value >= local + 1
      BY <1>2, <3>1
    <3>3. upvalues[openUpvalues[m]].value \in Nat
      BY <1>1, <3>1
    <3> QED BY <1>1, <3>2, <3>3
  <2> QED BY <2>1, <2>2, <2>3
<1> QED BY <1>3 DEF Place

----------------------------------------------------------------------------
(* The inductive invariant. *)

\* No open upvalue points to the callee and the argument of a native function,
\* or to what lies above them and below the frames of its callbacks.
OutsideNatives(upvs, ns, len) ==
  \A u \in 1 .. Len(upvs), k \in 1 .. Len(ns) :
    \/ upvs[u].value <= ns[k].base
    \/ (IF ns[k].breakFrame = 0 THEN len ELSE ns[k].stackTop) < upvs[u].value

\* Only a running function creates a closure.
CapturesInFrame ==
  capturing => Len(frames) > 0 /\ NoneRuns(natives) /\ Len(closures) > 0

IInv == /\ TypeOK /\ CapturesInFrame
        /\ Nested(frames, natives, Len(stack))
        /\ Listed(openUpvalues, upvalues, Len(stack))
        /\ OutsideNatives(upvalues, natives, Len(stack))

\* Which functions a frame can have, and which upvalues a closure.
Typed(fs, cs, n) ==
  /\ fs \in Seq([closure : {Script, Synthetic} \cup 1 .. Len(cs), slots : Nat])
  /\ cs \in Seq(Seq(1 .. n))

\* TypeOK, from sequences.
LEMMA TypedOK ==
  ASSUME stack \in Seq(Slots), natives \in Seq(Native), capturing \in BOOLEAN,
         openUpvalues \in Seq(1 .. Len(upvalues)), upvalues \in Seq(Upvalue),
         Typed(frames, closures, Len(upvalues))
  PROVE  TypeOK
<1>1. DOMAIN upvalues = 1 .. Len(upvalues) /\ DOMAIN closures = 1 .. Len(closures)
  BY LenProperties DEF Typed
<1> QED BY <1>1 DEF TypeOK, Typed, Slots, Native, Upvalue

\* What the invariant says of each variable.
LEMMA StateFacts ==
  ASSUME IInv
  PROVE  /\ stack \in Seq(Slots) /\ Len(stack) \in Nat
         /\ frames \in Seq(Frame) /\ Len(frames) \in Nat
         /\ natives \in Seq(Native) /\ Len(natives) \in Nat
         /\ closures \in Seq(Seq(1 .. Len(upvalues))) /\ Len(closures) \in Nat
         /\ upvalues \in Seq(Upvalue) /\ Len(upvalues) \in Nat
         /\ openUpvalues \in Seq(1 .. Len(upvalues)) /\ Len(openUpvalues) \in Nat
         /\ capturing \in BOOLEAN /\ Typed(frames, closures, Len(upvalues))
         /\ CapturesInFrame
         /\ Nested(frames, natives, Len(stack)) /\ Listed(openUpvalues, upvalues, Len(stack))
         /\ OutsideNatives(upvalues, natives, Len(stack))
         /\ InNative <=> ~ NoneRuns(natives)
         /\ Interpreting <=> Len(frames) > 0 /\ NoneRuns(natives) /\ ~ capturing
<1>1. TypeOK
  BY DEF IInv
<1>2. DOMAIN upvalues = 1 .. Len(upvalues) /\ DOMAIN closures = 1 .. Len(closures)
  BY <1>1, LenProperties DEF TypeOK
<1>3. /\ stack \in Seq(Slots) /\ natives \in Seq(Native) /\ upvalues \in Seq(Upvalue)
      /\ openUpvalues \in Seq(1 .. Len(upvalues)) /\ capturing \in BOOLEAN
      /\ Typed(frames, closures, Len(upvalues))
  BY <1>1, <1>2 DEF TypeOK, Typed, Slots, Native, Upvalue
<1>4. Nested(frames, natives, Len(stack)) /\ frames \in Seq(Frame)
  BY DEF IInv, Nested
<1>5. (frames = <<>> <=> Len(frames) = 0) /\ (natives = <<>> <=> Len(natives) = 0)
  BY <1>3, <1>4, EmptySeq
<1>6. Len(frames) \in Nat /\ Len(natives) \in Nat
  BY <1>3, <1>4
<1>7. InNative <=> ~ NoneRuns(natives)
  BY <1>5, <1>6 DEF InNative, NoneRuns, Top
<1>8. Interpreting <=> Len(frames) > 0 /\ NoneRuns(natives) /\ ~ capturing
  BY <1>5, <1>6, <1>7 DEF Interpreting
<1>9. closures \in Seq(Seq(1 .. Len(upvalues)))
  BY <1>3 DEF Typed
<1> QED BY <1>3, <1>4, <1>6, <1>7, <1>8, <1>9 DEF IInv

\* What an action has to establish.
Parts ==
  /\ stack \in Seq(Slots) /\ natives \in Seq(Native) /\ capturing \in BOOLEAN
  /\ openUpvalues \in Seq(1 .. Len(upvalues)) /\ upvalues \in Seq(Upvalue)
  /\ Typed(frames, closures, Len(upvalues)) /\ CapturesInFrame
  /\ Nested(frames, natives, Len(stack)) /\ Listed(openUpvalues, upvalues, Len(stack))
  /\ OutsideNatives(upvalues, natives, Len(stack))

\* The invariant, from its parts.
LEMMA PartsSuffice == Parts => IInv
  BY TypedOK DEF IInv, Parts

\* While none runs, natives do not care how much of the stack is in use.
LEMMA OutsideLength ==
  ASSUME NEW upvs, NEW ns, NEW len, OutsideNatives(upvs, ns, len), NEW len2,
         NEW fs, Nested(fs, ns, len), NoneRuns(ns)
  PROVE  OutsideNatives(upvs, ns, len2)
<1>1. ASSUME NEW k \in 1 .. Len(ns)
      PROVE  ns[k].breakFrame # 0
  <2>1. ns[k].breakFrame = 0 => k = Len(ns)
    BY NativeFacts
  <2>2. Len(ns) \in Nat
    BY NestedFacts
  <2> QED BY <2>1, <2>2 DEF NoneRuns
<1> QED BY <1>1 DEF OutsideNatives

\* Upvalues that are closed or as they were stay where they are.
LEMMA OutsideClosed ==
  ASSUME NEW upvs, NEW ns, NEW len, OutsideNatives(upvs, ns, len), NEW upvs2,
         NEW fs, Nested(fs, ns, len), Len(upvs2) = Len(upvs),
         \A u \in 1 .. Len(upvs) :
           upvs2[u].value = Self \/ upvs2[u].value = upvs[u].value
  PROVE  OutsideNatives(upvs2, ns, len)
<1>1. ASSUME NEW k \in 1 .. Len(ns)
      PROVE  Self <= ns[k].base
  BY NestedFacts DEF Self
<1> QED BY <1>1 DEF OutsideNatives

\* The pieces that Push, Call and the ends of scopes share: the stack changes
\* above the running function's frame, and the upvalues keep to what is left.
LEMMA StackChanges ==
  ASSUME IInv, Len(frames) > 0, NoneRuns(natives),
         stack' \in Seq(Slots), Len(stack') >= frames[Len(frames)].slots,
         \A u \in 1 .. Len(upvalues) : upvalues[u].value <= Len(stack'),
         UNCHANGED <<frames, natives, upvalues, openUpvalues>>
  PROVE  /\ Nested(frames', natives', Len(stack'))
         /\ Listed(openUpvalues', upvalues', Len(stack'))
         /\ OutsideNatives(upvalues', natives', Len(stack'))
<1>1. Len(stack') \in Nat
  OBVIOUS
<1>2. Nested(frames, natives, Len(stack'))
  BY <1>1, StateFacts, NestedLength
<1>3. Listed(openUpvalues, upvalues, Len(stack'))
  BY <1>1, StateFacts, ListedLength
<1>4. OutsideNatives(upvalues, natives, Len(stack'))
  BY StateFacts, OutsideLength
<1> QED BY <1>2, <1>3, <1>4

----------------------------------------------------------------------------
(* Every action preserves the invariant. *)

\* A local is a slot above the callee of the running function.
LEMMA LocalFacts ==
  ASSUME IInv, Len(frames) > 0
  PROVE  /\ Locals = frames[Len(frames)].slots + 1 .. Len(stack)
         /\ frames[Len(frames)].slots \in Nat /\ frames[Len(frames)].slots <= Len(stack)
         /\ Locals \subseteq 1 .. Len(stack)
<1>1. Len(frames) \in 1 .. Len(frames) /\ frames # <<>>
  BY StateFacts, EmptySeq
<1>2. frames[Len(frames)].slots \in Nat /\ frames[Len(frames)].slots <= Len(stack)
  BY <1>1, StateFacts, NestedFacts
<1>3. Locals = frames[Len(frames)].slots + 1 .. Len(stack)
  BY <1>1 DEF Locals, Top
<1> QED BY <1>2, <1>3, StateFacts

\* The script begins with its own frame and an empty list.
LEMMA InterpretInv == ASSUME IInv, Interpret PROVE IInv'
<1>1. /\ stack' = <<Callee>> /\ frames' = <<[closure |-> Script, slots |-> 1]>>
      /\ UNCHANGED <<natives, closures, upvalues, openUpvalues, capturing>>
      /\ Len(frames) = 0
  BY DEF Interpret
<1>2. stack' \in Seq(Slots) /\ Len(stack') = 1
  BY <1>1 DEF Slots
<1> DEFINE f == [closure |-> Script, slots |-> 1]
<1>3. f \in Frame /\ f.closure = Script /\ f.slots = 1
  BY DEF Frame, Script
<1>4. frames' = Append(<<>>, f) /\ f \in [closure : {Script, Synthetic} \cup 1 .. Len(closures), slots : Nat]
  BY <1>1
<1>5. Typed(frames', closures', Len(upvalues'))
  BY <1>1, <1>4, StateFacts DEF Typed
<1> HIDE DEF f
\* No frame is left, so no native function is.
<1>6. frames = <<>> /\ Len(stack) = 0 /\ natives = <<>>
  <2>1. frames = <<>> /\ Len(stack) = 0
    BY <1>1, StateFacts, EmptySeq DEF Nested, FramesIn
  <2>2. ASSUME NEW k \in 1 .. Len(natives)
        PROVE  FALSE
    <3>1. Waits(natives[k], frames) \/ Runs(natives[k], frames, Len(stack))
      BY StateFacts DEF Nested, NativesIn
    <3>2. natives[k].breakFrame \in Nat
      BY StateFacts, NestedFacts
    <3> QED BY <1>1, <3>1, <3>2 DEF Waits, Runs
  <2> QED BY <2>1, <2>2, StateFacts, EmptySeq
<1>7. NoneRuns(natives) /\ Nested(<<>>, natives, 0)
  BY <1>6, StateFacts DEF NoneRuns
<1>8. Nested(frames', natives', Len(stack'))
  <2>1. PICK g : g = frames'
    OBVIOUS
  <2>2. g \in Seq(Frame) /\ Len(g) = 1 /\ g[1] = f
    BY <1>3, <1>4, <2>1
  <2>3. FramesIn(g, 1)
    BY <1>3, <2>2 DEF FramesIn, Script, Synthetic
  <2>4. NativesIn(g, <<>>, 1)
    BY <1>3, <2>2 DEF NativesIn, Script, Synthetic
  <2> QED BY <1>1, <1>2, <1>6, <2>1, <2>2, <2>3, <2>4 DEF Nested
<1>9. Listed(openUpvalues', upvalues', Len(stack'))
  <2>1. \A u \in 1 .. Len(upvalues) : upvalues[u].value <= 1
    BY <1>6, StateFacts, ListedFacts
  <2>2. Listed(openUpvalues, upvalues, 1)
    BY <2>1, StateFacts, ListedLength
  <2> QED BY <1>1, <1>2, <2>2
<1>10. OutsideNatives(upvalues', natives', Len(stack'))
  BY <1>1, <1>6 DEF OutsideNatives
<1>11. CapturesInFrame'
  BY <1>1, StateFacts DEF CapturesInFrame
<1>12. Parts'
  BY <1>1, <1>2, <1>5, <1>8, <1>9, <1>10, <1>11, StateFacts DEF Parts
<1> QED BY <1>12, PartsSuffice, PTL

\* A value pushed is above what natives and upvalues speak of.
LEMMA PushInv == ASSUME IInv, NEW v \in Value, Push(v) PROVE IInv'
<1>1. /\ stack' = Append(stack, v) /\ Len(frames) > 0 /\ NoneRuns(natives) /\ ~ capturing
      /\ UNCHANGED <<frames, natives, closures, upvalues, openUpvalues, capturing>>
  BY StateFacts DEF Push
<1>2. v \in Slots
  BY DEF Slots
<1>3. stack' \in Seq(Slots) /\ Len(stack') = Len(stack) + 1
  BY <1>1, <1>2, StateFacts, AppendProperties
<1>4. frames[Len(frames)].slots \in Nat /\ frames[Len(frames)].slots <= Len(stack)
  BY <1>1, LocalFacts
<1>5. Len(stack') >= frames[Len(frames)].slots
  BY <1>3, <1>4, StateFacts
<1>6. \A u \in 1 .. Len(upvalues) : upvalues[u].value <= Len(stack')
  BY <1>3, StateFacts, ListedFacts, SMTT(20)
<1>7. /\ Nested(frames', natives', Len(stack')) /\ Listed(openUpvalues', upvalues', Len(stack'))
      /\ OutsideNatives(upvalues', natives', Len(stack'))
  BY <1>1, <1>3, <1>5, <1>6, StackChanges
<1>8. Parts'
  BY <1>1, <1>3, <1>7, StateFacts DEF Parts, CapturesInFrame
<1> QED BY <1>8, PartsSuffice, PTL

\* An assignment to a local changes a slot and no shape.
LEMMA SetLocalInv == ASSUME IInv, NEW v \in Value, NEW i \in Locals, SetLocal(i, v) PROVE IInv'
<1>1. /\ stack' = [stack EXCEPT ![i] = v] /\ Len(frames) > 0
      /\ UNCHANGED <<frames, natives, closures, upvalues, openUpvalues, capturing>>
  BY StateFacts DEF SetLocal
<1>2. v \in Slots
  BY DEF Slots
<1>3. stack' \in Seq(Slots) /\ Len(stack') = Len(stack)
  <2>1. i \in 1 .. Len(stack)
    BY <1>1, LocalFacts
  <2> QED BY <1>1, <1>2, <2>1, StateFacts, ExceptSeq
<1>4. Parts'
  BY <1>1, <1>3, StateFacts DEF Parts, CapturesInFrame
<1> QED BY <1>4, PartsSuffice, PTL

\* What the running function has captured are upvalues.
LEMMA CapturedFacts ==
  ASSUME IInv
  PROVE  Captured \in Seq(1 .. Len(upvalues))
<1>1. CASE frames = <<>> \/ Top(frames).closure \in {Script, Synthetic}
  <2>1. Captured = <<>>
    BY <1>1 DEF Captured
  <2> QED BY <2>1, EmptySeq
<1>2. CASE ~ (frames = <<>> \/ Top(frames).closure \in {Script, Synthetic})
  <2>1. Captured = closures[Top(frames).closure]
    BY <1>2 DEF Captured
  <2>2. PICK S : S = [closure : {Script, Synthetic} \cup 1 .. Len(closures), slots : Nat]
    OBVIOUS
  <2>3. frames \in Seq(S)
    BY <2>2, StateFacts DEF Typed
  <2>4. Top(frames) \in S
    BY <1>2, <2>3, TopFacts
  <2>5. Top(frames).closure \in 1 .. Len(closures)
    BY <1>2, <2>2, <2>4
  <2> QED BY <2>1, <2>5, StateFacts, ElementOfSeq
<1> QED BY <1>1, <1>2

\* An assignment through an upvalue changes one value.
LEMMA SetUpvalueInv ==
  ASSUME IInv, NEW v \in Value, NEW j \in DOMAIN Captured, SetUpvalue(Captured[j], v)
  PROVE  IInv'
<1> DEFINE u == Captured[j]
<1>1. u \in 1 .. Len(upvalues)
  BY CapturedFacts, LenProperties, ElementOfSeq
<1>2. /\ IF upvalues[u].value = Self
         THEN /\ upvalues' = [upvalues EXCEPT ![u].closed = v]
              /\ UNCHANGED stack
         ELSE /\ stack' = [stack EXCEPT ![upvalues[u].value] = v]
              /\ UNCHANGED upvalues
      /\ UNCHANGED <<frames, natives, closures, openUpvalues, capturing>>
  BY DEF SetUpvalue
<1> HIDE DEF u
<1>3. v \in Slots
  BY DEF Slots
<1>4. upvalues[u].value \in 0 .. Len(stack) /\ upvalues[u] \in Upvalue
  BY <1>1, StateFacts, ListedFacts
<1>5. stack' \in Seq(Slots) /\ Len(stack') = Len(stack)
  <2>1. CASE upvalues[u].value = Self
    BY <1>2, <2>1, StateFacts
  <2>2. CASE upvalues[u].value # Self
    <3>1. upvalues[u].value \in 1 .. Len(stack)
      BY <1>4, <2>2, StateFacts DEF Self
    <3>2. stack' = [stack EXCEPT ![upvalues[u].value] = v]
      BY <1>2, <2>2
    <3> QED BY <1>3, <3>1, <3>2, StateFacts, ExceptSeq
  <2> QED BY <2>1, <2>2
<1>6. /\ upvalues' \in Seq(Upvalue) /\ Len(upvalues') = Len(upvalues)
      /\ \A w \in 1 .. Len(upvalues) : upvalues'[w].value = upvalues[w].value
  <2>1. CASE upvalues[u].value = Self
    <3>1. PICK e : e = [upvalues[u] EXCEPT !.closed = v]
      OBVIOUS
    <3>2. e \in Upvalue /\ e.value = upvalues[u].value
      BY <1>3, <1>4, <3>1 DEF Upvalue
    <3>3. upvalues' = [upvalues EXCEPT ![u] = e]
      BY <1>2, <2>1, <3>1
    <3> QED BY <1>1, <3>2, <3>3, StateFacts, ExceptSeq
  <2>2. CASE upvalues[u].value # Self
    BY <1>2, <2>2, StateFacts
  <2> QED BY <2>1, <2>2
<1>7. Listed(openUpvalues, upvalues', Len(stack))
  BY <1>6, StateFacts, ListedClosed
<1>8. OutsideNatives(upvalues', natives, Len(stack))
  BY <1>6, StateFacts DEF OutsideNatives
<1>9. Parts'
  BY <1>2, <1>5, <1>6, <1>7, <1>8, StateFacts DEF Parts, CapturesInFrame
<1> QED BY <1>9, PartsSuffice, PTL

\* A closure begins without captures.
LEMMA NewClosureInv == ASSUME IInv, NewClosure PROVE IInv'
<1>1. /\ stack' = Append(stack, Callee) /\ Len(frames) > 0 /\ NoneRuns(natives)
      /\ closures' = Append(closures, <<>>) /\ capturing' = TRUE
      /\ UNCHANGED <<frames, natives, upvalues, openUpvalues>>
  BY StateFacts DEF NewClosure
<1>2. stack' \in Seq(Slots) /\ Len(stack') = Len(stack) + 1
  <2>1. Callee \in Slots
    BY DEF Slots
  <2> QED BY <1>1, <2>1, StateFacts, AppendProperties
<1>3. Len(stack') >= frames[Len(frames)].slots
  BY <1>1, <1>2, StateFacts, LocalFacts
<1>4. \A u \in 1 .. Len(upvalues) : upvalues[u].value <= Len(stack')
  BY <1>2, StateFacts, ListedFacts
<1>5. /\ Nested(frames', natives', Len(stack')) /\ Listed(openUpvalues', upvalues', Len(stack'))
      /\ OutsideNatives(upvalues', natives', Len(stack'))
  BY <1>1, <1>2, <1>3, <1>4, StackChanges
<1>6. Len(closures') = Len(closures) + 1 /\ closures' \in Seq(Seq(1 .. Len(upvalues)))
  <2>1. PICK S : S = Seq(1 .. Len(upvalues))
    OBVIOUS
  <2>2. closures \in Seq(S) /\ <<>> \in S
    BY <2>1, StateFacts, EmptySeq
  <2> QED BY <1>1, <2>1, <2>2, AppendProperties
<1>7. frames \in Seq([closure : {Script, Synthetic} \cup 1 .. Len(closures'), slots : Nat])
  <2>1. /\ [closure : {Script, Synthetic} \cup 1 .. Len(closures), slots : Nat]
             \subseteq [closure : {Script, Synthetic} \cup 1 .. Len(closures'), slots : Nat]
        /\ frames \in Seq([closure : {Script, Synthetic} \cup 1 .. Len(closures), slots : Nat])
    BY <1>6, StateFacts DEF Typed
  <2> QED BY <2>1, SeqMonotonic
<1>8. CapturesInFrame'
  BY <1>1, <1>6, StateFacts DEF CapturesInFrame
<1>9. Parts'
  BY <1>1, <1>2, <1>5, <1>6, <1>7, <1>8, StateFacts DEF Parts, Typed
<1> QED BY <1>9, PartsSuffice, PTL

\* A capture is one more upvalue of the closure being made.
LEMMA AddedCapture ==
  ASSUME IInv, Len(closures) > 0, NEW n \in Nat, Len(upvalues) <= n, NEW u \in 1 .. n,
         AddCapture(u), UNCHANGED frames
  PROVE  Typed(frames', closures', n) /\ Len(closures') = Len(closures)
<1>1. PICK S : S = Seq(1 .. n)
  OBVIOUS
<1>2. closures \in Seq(S)
  <2>1. ASSUME NEW c \in Seq(1 .. Len(upvalues))
        PROVE  c \in S
    <3>1. 1 .. Len(upvalues) \subseteq 1 .. n
      BY StateFacts
    <3> QED BY <1>1, <3>1, SeqMonotonic
  <2>2. PICK R : R = Seq(1 .. Len(upvalues))
    OBVIOUS
  <2>3. R \subseteq S /\ closures \in Seq(R)
    BY <2>1, <2>2, StateFacts
  <2> QED BY <2>3, SeqMonotonic
<1>3. Len(closures) \in 1 .. Len(closures)
  BY StateFacts
<1>4. PICK e : e = Append(closures[Len(closures)], u)
  OBVIOUS
<1>5. e \in S
  BY <1>1, <1>2, <1>3, <1>4, ElementOfSeq, AppendProperties
<1>6. closures' = [closures EXCEPT ![Len(closures)] = e]
  BY <1>4 DEF AddCapture
<1>7. closures' \in Seq(S) /\ Len(closures') = Len(closures)
  BY <1>2, <1>3, <1>5, <1>6, ExceptSeq
<1> QED BY <1>1, <1>7, StateFacts DEF Typed

\* captureUpvalue finds the open upvalue of a slot or puts one in its place.
LEMMA CaptureLocalInv ==
  ASSUME IInv, NEW local \in Locals, CaptureLocal(local)
  PROVE  IInv'
<1> DEFINE k == Place(local)
           new == Len(upvalues) + 1
<1>1. /\ Len(frames) > 0 /\ NoneRuns(natives) /\ Len(closures) > 0
      /\ UNCHANGED <<stack, frames, natives, capturing>>
      /\ IF IsOpen(local, k)
         THEN AddCapture(openUpvalues[k]) /\ UNCHANGED <<upvalues, openUpvalues>>
         ELSE /\ AddCapture(new)
              /\ upvalues' = Append(upvalues, [value |-> local, closed |-> Callee])
              /\ openUpvalues' = Inserted(openUpvalues, new, k)
  BY StateFacts DEF CaptureLocal, MayCapture, CapturesInFrame, Inserted
<1>2. local \in 1 .. Len(stack)
  BY <1>1, LocalFacts
<1>3. /\ k \in 1 .. Len(openUpvalues) + 1
      /\ k <= Len(openUpvalues) => upvalues[openUpvalues[k]].value <= local
      /\ \A m \in 1 .. k - 1 : upvalues[openUpvalues[m]].value > local
  BY <1>2, StateFacts, PlaceFacts
<1> HIDE DEF k
<1>4. CASE IsOpen(local, k)
  <2>1. k \in 1 .. Len(openUpvalues)
    BY <1>3, <1>4, StateFacts DEF IsOpen
  <2>2. openUpvalues[k] \in 1 .. Len(upvalues)
    BY <2>1, StateFacts, ElementOfSeq
  <2>3. AddCapture(openUpvalues[k]) /\ UNCHANGED <<upvalues, openUpvalues>>
    BY <1>1, <1>4
  <2>4. Typed(frames', closures', Len(upvalues)) /\ Len(closures') = Len(closures)
    <3>1. PICK n \in Nat : n = Len(upvalues)
      BY StateFacts
    <3>2. openUpvalues[k] \in 1 .. n /\ Len(upvalues) <= n /\ UNCHANGED frames
      BY <1>1, <2>2, <3>1
    <3>3. Typed(frames', closures', n) /\ Len(closures') = Len(closures)
      BY <1>1, <2>3, <3>2, AddedCapture
    <3> QED BY <3>1, <3>3
  <2>5. Parts'
    BY <1>1, <2>3, <2>4, StateFacts DEF Parts, CapturesInFrame
  <2> QED BY <2>5, PartsSuffice, PTL
<1>5. CASE ~ IsOpen(local, k)
  <2>1. /\ AddCapture(new) /\ upvalues' = Append(upvalues, [value |-> local, closed |-> Callee])
        /\ openUpvalues' = Inserted(openUpvalues, new, k)
    BY <1>1, <1>5
  <2>2. k <= Len(openUpvalues) => upvalues[openUpvalues[k]].value < local
    <3> SUFFICES ASSUME k <= Len(openUpvalues)
                 PROVE  upvalues[openUpvalues[k]].value < local
      OBVIOUS
    <3>1. k \in 1 .. Len(openUpvalues)
      BY <1>3, StateFacts
    <3>2. upvalues[openUpvalues[k]].value \in Nat
      BY <3>1, StateFacts, ListedFacts
    <3>3. upvalues[openUpvalues[k]].value # local
      BY <1>5 DEF IsOpen
    <3>4. upvalues[openUpvalues[k]].value <= local
      BY <1>3
    <3>5. local \in Nat
      BY <1>2, StateFacts
    <3> QED BY <3>2, <3>3, <3>4, <3>5
  <2>3. Listed(openUpvalues', upvalues', Len(stack))
    BY <1>2, <1>3, <2>1, <2>2, StateFacts, CaptureListed
  <2>4. PICK e : e = [value |-> local, closed |-> Callee]
    OBVIOUS
  <2>5. e \in Upvalue /\ e.value = local
    BY <1>2, <2>4, StateFacts DEF Upvalue, Slots
  <2>6. /\ upvalues' \in Seq(Upvalue) /\ Len(upvalues') = new /\ upvalues'[new].value = local
        /\ \A u \in 1 .. Len(upvalues) : upvalues'[u] = upvalues[u]
    BY <2>1, <2>4, <2>5, StateFacts, AppendProperties
  <2>7. Typed(frames', closures', new) /\ Len(closures') = Len(closures)
    <3>1. PICK n \in Nat : n = new
      BY StateFacts
    <3>2. Len(upvalues) <= n /\ n \in 1 .. n /\ AddCapture(n)
      BY <2>1, <3>1, StateFacts
    <3>3. Typed(frames', closures', n) /\ Len(closures') = Len(closures)
      BY <1>1, <3>2, StateFacts, AddedCapture
    <3> QED BY <3>1, <3>3
  \* The frame of a callback, and so its locals, lie above the native's stack.
  <2>8. ASSUME NEW j \in 1 .. Len(natives)
        PROVE  natives[j].breakFrame # 0 /\ natives[j].stackTop < local
    <3>1. natives[j].breakFrame # 0 /\ natives[j].breakFrame \in Nat
          /\ natives[j].stackTop \in Nat
      <4>1. natives[j].breakFrame = 0 => j = Len(natives)
        BY StateFacts, NativeFacts
      <4> QED BY <1>1, <4>1, StateFacts, NestedFacts DEF NoneRuns
    <3>2. Waits(natives[j], frames)
      BY <3>1, StateFacts, NativeFacts
    <3>3. /\ natives[j].breakFrame + 1 \in 1 .. Len(frames)
          /\ frames[natives[j].breakFrame + 1].slots = natives[j].stackTop + 1
      <4>1. PICK b \in Nat : b = natives[j].breakFrame
        BY <3>1
      <4>2. b < Len(frames) /\ frames[b + 1].slots = natives[j].stackTop + 1
        BY <3>2, <4>1 DEF Waits
      <4> QED BY <4>1, <4>2, StateFacts
    <3>4. frames[natives[j].breakFrame + 1].slots <= frames[Len(frames)].slots
      BY <1>1, <3>3, StateFacts, TopFrameFacts
    <3>5. /\ local > frames[Len(frames)].slots /\ frames[Len(frames)].slots \in Nat
          /\ local \in Nat
      BY <1>1, <1>2, StateFacts, LocalFacts
    <3> QED BY <3>1, <3>3, <3>4, <3>5
  <2>9. OutsideNatives(upvalues', natives, Len(stack))
    <3> SUFFICES ASSUME NEW u \in 1 .. Len(upvalues'), NEW j \in 1 .. Len(natives)
                 PROVE  \/ upvalues'[u].value <= natives[j].base
                        \/ (IF natives[j].breakFrame = 0 THEN Len(stack)
                            ELSE natives[j].stackTop) < upvalues'[u].value
      BY DEF OutsideNatives
    <3>1. CASE u = new
      BY <2>6, <2>8, <3>1
    <3>2. CASE u # new
      <4>1. u \in 1 .. Len(upvalues)
        BY <2>6, <3>2, StateFacts
      <4> QED BY <2>6, <4>1, StateFacts DEF OutsideNatives
    <3> QED BY <3>1, <3>2
  <2>10. openUpvalues' \in Seq(1 .. Len(upvalues'))
    BY <2>3 DEF Listed
  <2>11. Parts'
    BY <1>1, <2>3, <2>6, <2>7, <2>9, <2>10, StateFacts DEF Parts, CapturesInFrame
  <2> QED BY <2>11, PartsSuffice, PTL
<1> QED BY <1>4, <1>5

\* A capture of the enclosing function's upvalue shares it.
LEMMA CaptureUpvalueInv ==
  ASSUME IInv, NEW j \in DOMAIN Captured, CaptureUpvalue(Captured[j])
  PROVE  IInv'
<1>1. Captured[j] \in 1 .. Len(upvalues)
  BY CapturedFacts, LenProperties, ElementOfSeq
<1>2. /\ AddCapture(Captured[j]) /\ Len(closures) > 0
      /\ UNCHANGED <<stack, frames, natives, upvalues, openUpvalues, capturing>>
  BY StateFacts DEF CaptureUpvalue, MayCapture, CapturesInFrame
<1>3. Typed(frames', closures', Len(upvalues)) /\ Len(closures') = Len(closures)
  <2>1. PICK n \in Nat : n = Len(upvalues)
    BY StateFacts
  <2>2. Captured[j] \in 1 .. n /\ Len(upvalues) <= n /\ UNCHANGED frames
    BY <1>1, <1>2, <2>1
  <2>3. Typed(frames', closures', n) /\ Len(closures') = Len(closures)
    BY <1>2, <2>2, AddedCapture
  <2> QED BY <2>1, <2>3
<1>4. Parts'
  BY <1>2, <1>3, StateFacts DEF Parts, CapturesInFrame
<1> QED BY <1>4, PartsSuffice, PTL

\* CLOSURE ends.
LEMMA ClosureDoneInv == ASSUME IInv, ClosureDone PROVE IInv'
<1>1. Parts'
  BY StateFacts DEF ClosureDone, Parts, CapturesInFrame
<1> QED BY <1>1, PartsSuffice, PTL

\* A POP drops a slot that no upvalue is open for.
LEMMA EndScopeInv == ASSUME IInv, EndScope PROVE IInv'
<1>1. /\ Len(frames) > 0 /\ NoneRuns(natives) /\ ~ capturing
      /\ Locals # {} /\ stack' = Front(stack) /\ ~ IsCaptured(Len(stack))
      /\ UNCHANGED <<frames, natives, closures, upvalues, openUpvalues, capturing>>
  BY StateFacts DEF EndScope
<1>2. /\ frames[Len(frames)].slots \in Nat /\ frames[Len(frames)].slots + 1 <= Len(stack)
      /\ stack # <<>>
  BY <1>1, StateFacts, LocalFacts, EmptySeq
<1>3. stack' \in Seq(Slots) /\ Len(stack') = Len(stack) - 1
  <2>1. stack \in Seq(Slots)
    BY StateFacts
  <2>2. Front(stack) \in Seq(Slots) /\ Len(Front(stack)) = Len(stack) - 1
    BY <1>2, <2>1, TopFacts
  <2> QED BY <1>1, <2>2
<1>4. Len(stack') >= frames[Len(frames)].slots
  BY <1>2, <1>3, StateFacts
<1>5. ASSUME NEW u \in 1 .. Len(upvalues)
      PROVE  upvalues[u].value <= Len(stack')
  <2>1. upvalues[u].value \in 0 .. Len(stack)
    BY StateFacts, ListedFacts
  <2>2. upvalues[u].value # Len(stack)
    BY <1>1, StateFacts, LenProperties DEF IsCaptured
  <2> QED BY <1>3, <2>1, <2>2, StateFacts, SMTT(20)
<1>6. /\ Nested(frames', natives', Len(stack')) /\ Listed(openUpvalues', upvalues', Len(stack'))
      /\ OutsideNatives(upvalues', natives', Len(stack'))
  BY <1>1, <1>3, <1>4, <1>5, StackChanges
<1>7. Parts'
  BY <1>1, <1>3, <1>6, StateFacts DEF Parts, CapturesInFrame
<1> QED BY <1>7, PartsSuffice, PTL

\* CLOSE_UPVALUE closes the upvalue of the slot it drops.
LEMMA EndCapturedScopeInv == ASSUME IInv, EndCapturedScope PROVE IInv'
<1>1. /\ Len(frames) > 0 /\ NoneRuns(natives) /\ ~ capturing
      /\ Locals # {} /\ stack' = Front(stack) /\ CloseUpvalues(Len(stack))
      /\ UNCHANGED <<frames, natives, closures, capturing>>
  BY StateFacts DEF EndCapturedScope
<1>2. /\ frames[Len(frames)].slots \in Nat /\ frames[Len(frames)].slots + 1 <= Len(stack)
      /\ stack # <<>> /\ Len(stack) \in Nat \ {0}
  BY <1>1, StateFacts, LocalFacts, EmptySeq
<1>3. stack' \in Seq(Slots) /\ Len(stack') = Len(stack) - 1 /\ Len(stack') \in Nat
  <2>1. stack \in Seq(Slots)
    BY StateFacts
  <2>2. Front(stack) \in Seq(Slots) /\ Len(Front(stack)) = Len(stack) - 1
    BY <1>2, <2>1, TopFacts
  <2> QED BY <1>1, <1>2, <2>2
<1>4. Len(stack') >= frames[Len(frames)].slots
  BY <1>2, <1>3, StateFacts
<1>5. /\ Listed(openUpvalues', upvalues', Len(stack')) /\ Len(upvalues') = Len(upvalues)
      /\ \A u \in 1 .. Len(upvalues) :
           upvalues'[u].value = Self \/ upvalues'[u] = upvalues[u]
  BY <1>1, <1>2, <1>3, StateFacts, ClosingFacts
<1>6. Nested(frames, natives, Len(stack'))
  BY <1>1, <1>3, <1>4, StateFacts, NestedLength
<1>7. OutsideNatives(upvalues', natives, Len(stack'))
  <2>1. OutsideNatives(upvalues', natives, Len(stack))
    BY <1>5, StateFacts, OutsideClosed
  <2> QED BY <1>1, <2>1, StateFacts, OutsideLength
<1>8. upvalues' \in Seq(Upvalue) /\ openUpvalues' \in Seq(1 .. Len(upvalues'))
  BY <1>5 DEF Listed
<1>9. Parts'
  BY <1>1, <1>3, <1>5, <1>6, <1>7, <1>8, StateFacts DEF Parts, CapturesInFrame
<1> QED BY <1>9, PartsSuffice, PTL

\* A frame more, above the others.
LEMMA CallInv ==
  ASSUME IInv, NEW c \in Callable, NEW args \in Arguments, Call(c, args)
  PROVE  IInv'
<1> DEFINE f == [closure |-> c, slots |-> Len(stack) + 1]
           S == [closure : {Script, Synthetic} \cup 1 .. Len(closures), slots : Nat]
<1>1. /\ Len(frames) > 0 /\ NoneRuns(natives) /\ ~ capturing
      /\ stack' = stack \o <<Callee>> \o args /\ frames' = Append(frames, f)
      /\ UNCHANGED <<natives, closures, upvalues, openUpvalues, capturing>>
  BY StateFacts DEF Call
<1>2. stack' \in Seq(Slots) /\ Len(stack') \in Nat /\ Len(stack') > Len(stack)
  BY <1>1, StateFacts, CalledFacts
<1>3. c \in {Script} \cup 1 .. Len(closures) /\ c # Synthetic
  BY StateFacts, LenProperties DEF Callable, Script, Synthetic
<1>4. f \in S /\ f \in Frame /\ f.closure # Synthetic /\ f.slots = Len(stack) + 1
  BY <1>3, StateFacts DEF Frame, Script
<1> HIDE DEF f
<1>5. Nested(frames', natives, Len(stack'))
  BY <1>1, <1>2, <1>4, StateFacts, NestedCall
<1>6. Typed(frames', closures, Len(upvalues))
  <2>1. frames \in Seq(S) /\ closures \in Seq(Seq(1 .. Len(upvalues)))
    BY StateFacts DEF Typed
  <2> HIDE DEF S
  <2>2. frames' \in Seq(S)
    BY <1>1, <1>4, <2>1, AppendProperties
  <2> QED BY <2>1, <2>2 DEF Typed, S
<1>7. Listed(openUpvalues, upvalues, Len(stack'))
  <2>1. \A u \in 1 .. Len(upvalues) : upvalues[u].value <= Len(stack')
    BY <1>2, StateFacts, ListedFacts
  <2> QED BY <1>2, <2>1, StateFacts, ListedLength
<1>8. OutsideNatives(upvalues, natives, Len(stack'))
  BY <1>1, StateFacts, OutsideLength
<1>9. Parts'
  BY <1>1, <1>2, <1>5, <1>6, <1>7, <1>8, StateFacts DEF Parts, CapturesInFrame
<1> QED BY <1>9, PartsSuffice, PTL

\* A native function more, above what is captured.
LEMMA CallNativeInv == ASSUME IInv, CallNative PROVE IInv'
<1> DEFINE n == [base |-> Len(stack), breakFrame |-> 0, stackTop |-> 0]
<1>1. /\ Len(frames) > 0 /\ NoneRuns(natives) /\ ~ capturing
      /\ stack' = stack \o <<Callee, Callee>> /\ natives' = Append(natives, n)
      /\ UNCHANGED <<frames, closures, upvalues, openUpvalues, capturing>>
  BY StateFacts DEF CallNative
<1>2. stack' \in Seq(Slots) /\ Len(stack') = Len(stack) + 2
  <2>1. PICK two : two = <<Callee, Callee>>
    OBVIOUS
  <2>2. two \in Seq(Slots) /\ Len(two) = 2
    BY <2>1 DEF Slots
  <2> QED BY <1>1, <2>1, <2>2, StateFacts, ConcatProperties
<1>3. n \in Native /\ n.base = Len(stack) /\ n.breakFrame = 0
  BY StateFacts DEF Native
<1> HIDE DEF n
<1>4. /\ natives' \in Seq(Native) /\ Len(natives') = Len(natives) + 1
      /\ natives'[Len(natives) + 1] = n
      /\ \A k \in 1 .. Len(natives) : natives'[k] = natives[k]
  BY <1>1, <1>3, StateFacts, AppendProperties
<1>5. Nested(frames, natives', Len(stack) + 2)
  BY <1>1, <1>3, StateFacts, NestedNative
<1>6. Listed(openUpvalues, upvalues, Len(stack'))
  <2>1. \A u \in 1 .. Len(upvalues) : upvalues[u].value <= Len(stack') /\ Len(stack') \in Nat
    BY <1>2, StateFacts, ListedFacts, SMTT(20)
  <2>2. Len(stack') \in Nat
    BY <1>2
  <2> QED BY <2>1, <2>2, StateFacts, ListedLength
<1>7. OutsideNatives(upvalues, natives', Len(stack'))
  <2>1. OutsideNatives(upvalues, natives, Len(stack'))
    BY <1>1, StateFacts, OutsideLength
  <2> SUFFICES ASSUME NEW u \in 1 .. Len(upvalues), NEW k \in 1 .. Len(natives')
               PROVE  \/ upvalues[u].value <= natives'[k].base
                      \/ (IF natives'[k].breakFrame = 0 THEN Len(stack')
                          ELSE natives'[k].stackTop) < upvalues[u].value
    BY DEF OutsideNatives
  <2>2. CASE k = Len(natives) + 1
    BY <1>3, <1>4, <2>2, StateFacts, ListedFacts
  <2>3. CASE k # Len(natives) + 1
    <3>1. k \in 1 .. Len(natives)
      BY <1>4, <2>3, StateFacts
    <3> QED BY <1>4, <2>1, <3>1 DEF OutsideNatives
  <2> QED BY <2>2, <2>3
<1>8. Parts'
  BY <1>1, <1>2, <1>4, <1>5, <1>6, <1>7, StateFacts DEF Parts, CapturesInFrame
<1> QED BY <1>8, PartsSuffice, PTL

\* Two frames more.
LEMMA TwoMore ==
  ASSUME NEW S, NEW s \in Seq(S), NEW e \in S, NEW f \in S
  PROVE  /\ s \o <<e, f>> \in Seq(S) /\ Len(s \o <<e, f>>) = Len(s) + 2
         /\ \A k \in 1 .. Len(s) : (s \o <<e, f>>)[k] = s[k]
         /\ (s \o <<e, f>>)[Len(s) + 1] = e /\ (s \o <<e, f>>)[Len(s) + 2] = f
<1>1. PICK two : two = <<e, f>>
  OBVIOUS
<1>2. two \in Seq(S) /\ Len(two) = 2 /\ two[1] = e /\ two[2] = f
  BY <1>1
<1>3. /\ s \o two \in Seq(S) /\ Len(s \o two) = Len(s) + Len(two)
      /\ \A i \in 1 .. Len(s) + Len(two) :
           (s \o two)[i] = IF i <= Len(s) THEN s[i] ELSE two[i - Len(s)]
  BY <1>2, ConcatProperties
<1>4. PICK n \in Nat : n = Len(s)
  OBVIOUS
<1>5. /\ \A i \in 1 .. n + 2 : (s \o two)[i] = IF i <= n THEN s[i] ELSE two[i - n]
  BY <1>2, <1>3, <1>4
<1>6. (s \o two)[n + 1] = two[1] /\ (s \o two)[n + 2] = two[2]
  <2>1. /\ n + 1 \in 1 .. n + 2 /\ ~ (n + 1 <= n) /\ (n + 1) - n = 1
        /\ n + 2 \in 1 .. n + 2 /\ ~ (n + 2 <= n) /\ (n + 2) - n = 2
    OBVIOUS
  <2> QED BY <1>5, <2>1
<1> QED BY <1>1, <1>2, <1>3, <1>4, <1>5, <1>6

\* callFunction puts two frames on those that wait.
LEMMA CallFunctionInv ==
  ASSUME IInv, NEW c \in Callable, NEW args \in Arguments, CallFunction(c, args)
  PROVE  IInv'
<1> DEFINE e == [closure |-> Synthetic, slots |-> 0]
           f == [closure |-> c, slots |-> Len(stack) + 1]
           S == [closure : {Script, Synthetic} \cup 1 .. Len(closures), slots : Nat]
           last == Len(natives)
<1>1. /\ ~ NoneRuns(natives)
      /\ natives' = [natives EXCEPT ![last].breakFrame = Len(frames) + 1,
                                    ![last].stackTop = Len(stack)]
      /\ frames' = frames \o <<e, f>>
      /\ stack' = stack \o <<Callee>> \o args
      /\ UNCHANGED <<closures, upvalues, openUpvalues, capturing>>
  BY StateFacts DEF CallFunction
<1>2. last \in 1 .. Len(natives) /\ Len(natives) > 0 /\ natives[last] \in Native
  BY <1>1, StateFacts, ElementOfSeq DEF NoneRuns
<1>3. stack' \in Seq(Slots) /\ Len(stack') \in Nat /\ Len(stack') > Len(stack)
  BY <1>1, StateFacts, CalledFacts
<1>4. c \in {Script} \cup 1 .. Len(closures) /\ c # Synthetic
  BY StateFacts, LenProperties DEF Callable, Script, Synthetic
<1>5. /\ e \in S /\ e \in Frame /\ e.closure = Synthetic /\ e.slots = 0
      /\ f \in S /\ f \in Frame /\ f.closure # Synthetic /\ f.slots = Len(stack) + 1
  BY <1>4, StateFacts DEF Frame, Script, Synthetic
<1> HIDE DEF e, f, S, last
<1>6. /\ frames' \in Seq(Frame) /\ Len(frames') = Len(frames) + 2
      /\ \A k \in 1 .. Len(frames) : frames'[k] = frames[k]
      /\ frames'[Len(frames) + 1] = e /\ frames'[Len(frames) + 2] = f
  <2>1. PICK T : T = Frame
    OBVIOUS
  <2>2. frames \in Seq(T) /\ e \in T /\ f \in T
    BY <1>5, <2>1, StateFacts
  <2>3. /\ frames \o <<e, f>> \in Seq(T) /\ Len(frames \o <<e, f>>) = Len(frames) + 2
        /\ \A k \in 1 .. Len(frames) : (frames \o <<e, f>>)[k] = frames[k]
        /\ (frames \o <<e, f>>)[Len(frames) + 1] = e
        /\ (frames \o <<e, f>>)[Len(frames) + 2] = f
    BY <2>2, TwoMore
  <2> QED BY <1>1, <2>1, <2>3
<1>7. Typed(frames', closures, Len(upvalues))
  <2>1. frames \in Seq(S) /\ closures \in Seq(Seq(1 .. Len(upvalues)))
    BY StateFacts DEF Typed, S
  <2>2. frames' \in Seq(S)
    BY <1>1, <1>5, <2>1, TwoMore
  <2> QED BY <2>1, <2>2 DEF Typed, S
<1>8. PICK n : n = [natives[last] EXCEPT !.breakFrame = Len(frames) + 1, !.stackTop = Len(stack)]
  OBVIOUS
<1>9. /\ n \in Native /\ n.base = natives[last].base /\ n.breakFrame = Len(frames) + 1
      /\ n.stackTop = Len(stack)
  <2>1. PICK r : r = natives[last]
    OBVIOUS
  <2>2. r \in Native /\ Len(frames) + 1 \in Nat /\ Len(stack) \in Nat
    BY <1>2, <2>1, StateFacts
  <2>3. n = [r EXCEPT !.breakFrame = Len(frames) + 1, !.stackTop = Len(stack)]
    BY <1>8, <2>1
  <2> QED BY <2>1, <2>2, <2>3 DEF Native
<1>10. natives' = [natives EXCEPT ![last] = n]
  BY <1>1, <1>2, <1>8, StateFacts
<1>11. /\ natives' \in Seq(Native) /\ Len(natives') = Len(natives)
       /\ \A k \in 1 .. Len(natives) : natives'[k] = IF k = last THEN n ELSE natives[k]
  BY <1>2, <1>9, <1>10, StateFacts, ExceptSeq
<1>12. Nested(frames', natives', Len(stack'))
  <2>1. PICK fs2 : fs2 = frames'
    OBVIOUS
  <2>2. PICK ns2 : ns2 = natives'
    OBVIOUS
  <2>3. PICK len2 : len2 = Len(stack')
    OBVIOUS
  <2>4. /\ len2 \in Nat /\ len2 > Len(stack)
        /\ fs2 \in Seq(Frame) /\ Len(fs2) = Len(frames) + 2
        /\ \A k \in 1 .. Len(frames) : fs2[k] = frames[k]
        /\ fs2[Len(frames) + 1].closure = Synthetic /\ fs2[Len(frames) + 1].slots = 0
        /\ fs2[Len(frames) + 2].closure # Synthetic
        /\ fs2[Len(frames) + 2].slots = Len(stack) + 1
    BY <1>3, <1>5, <1>6, <2>1, <2>3
  <2>5. /\ ns2 \in Seq(Native) /\ Len(ns2) = Len(natives)
        /\ \A k \in 1 .. Len(natives) : k < Len(natives) => ns2[k] = natives[k]
        /\ ns2[Len(natives)].base = natives[Len(natives)].base
        /\ ns2[Len(natives)].breakFrame = Len(frames) + 1
        /\ ns2[Len(natives)].stackTop = Len(stack)
    BY <1>2, <1>9, <1>11, <2>2, StateFacts DEF last
  <2>6. Nested(fs2, ns2, len2)
    <3>1. Nested(frames, natives, Len(stack)) /\ Len(natives) > 0 /\ ~ NoneRuns(natives)
      BY <1>1, <1>2, StateFacts
    <3>2. PICK fs : fs = frames
      OBVIOUS
    <3>3. PICK ns : ns = natives
      OBVIOUS
    <3>4. PICK len : len = Len(stack)
      OBVIOUS
    <3>5. Nested(fs, ns, len) /\ Len(ns) > 0 /\ ~ NoneRuns(ns)
      BY <3>1, <3>2, <3>3, <3>4
    <3>6. /\ len2 \in Nat /\ len2 > len
          /\ fs2 \in Seq(Frame) /\ Len(fs2) = Len(fs) + 2
          /\ \A k \in 1 .. Len(fs) : fs2[k] = fs[k]
          /\ fs2[Len(fs) + 1].closure = Synthetic /\ fs2[Len(fs) + 1].slots = 0
          /\ fs2[Len(fs) + 2].closure # Synthetic
          /\ fs2[Len(fs) + 2].slots = len + 1
      BY <2>4, <3>2, <3>4
    <3>7. /\ ns2 \in Seq(Native) /\ Len(ns2) = Len(ns)
          /\ \A k \in 1 .. Len(ns) : k < Len(ns) => ns2[k] = ns[k]
          /\ ns2[Len(ns)].base = ns[Len(ns)].base
          /\ ns2[Len(ns)].breakFrame = Len(fs) + 1
          /\ ns2[Len(ns)].stackTop = len
      BY <2>5, <3>2, <3>3, <3>4
    <3> QED BY <3>5, <3>6, <3>7, NestedCallback
  <2> QED BY <2>1, <2>2, <2>3, <2>6
<1>13. Listed(openUpvalues, upvalues, Len(stack'))
  <2>1. \A u \in 1 .. Len(upvalues) : upvalues[u].value <= Len(stack')
    BY <1>3, StateFacts, ListedFacts
  <2> QED BY <1>3, <2>1, StateFacts, ListedLength
<1>14. OutsideNatives(upvalues, natives', Len(stack'))
  <2> SUFFICES ASSUME NEW u \in 1 .. Len(upvalues), NEW k \in 1 .. Len(natives)
               PROVE  \/ upvalues[u].value <= natives'[k].base
                      \/ (IF natives'[k].breakFrame = 0 THEN Len(stack')
                          ELSE natives'[k].stackTop) < upvalues[u].value
    BY <1>11 DEF OutsideNatives
  <2>1. \/ upvalues[u].value <= natives[k].base
        \/ (IF natives[k].breakFrame = 0 THEN Len(stack)
            ELSE natives[k].stackTop) < upvalues[u].value
    BY StateFacts DEF OutsideNatives
  <2>2. CASE k = last
    <3>1. upvalues[u].value \in Nat /\ upvalues[u].value <= Len(stack)
      BY StateFacts, ListedFacts
    <3>2. natives[k].breakFrame = 0
      BY <1>1, <2>2 DEF NoneRuns, last
    <3>3. natives'[k].base = natives[k].base
      BY <1>9, <1>11, <2>2
    <3> QED BY <2>1, <3>1, <3>2, <3>3, StateFacts
  <2>3. CASE k # last
    <3>1. natives[k].breakFrame # 0 /\ natives'[k] = natives[k]
      BY <1>11, <2>3, StateFacts, NativeFacts, SMTT(20) DEF last
    <3> QED BY <2>1, <3>1
  <2> QED BY <2>2, <2>3
<1>15. capturing' = FALSE
  BY <1>1, StateFacts DEF CapturesInFrame
<1>16. Parts'
  BY <1>1, <1>3, <1>7, <1>11, <1>12, <1>13, <1>14, <1>15, StateFacts DEF Parts, CapturesInFrame
<1> QED BY <1>16, PartsSuffice, PTL

\* A native function returns only when its callbacks have.
LEMMA NativeReturnInv == ASSUME IInv, NEW v \in Value, NativeReturn(v) PROVE IInv'
<1> DEFINE base == natives[Len(natives)].base
<1>1. /\ ~ NoneRuns(natives) /\ Len(natives) > 0 /\ natives # <<>>
      /\ Len(natives) \in 1 .. Len(natives)
      /\ UNCHANGED <<frames, closures, upvalues, openUpvalues, capturing>>
      /\ stack' = Append(SubSeq(stack, 1, base), v) /\ natives' = Front(natives)
  <2>1. ~ NoneRuns(natives)
    BY StateFacts DEF NativeReturn
  <2>2. Len(natives) > 0 /\ natives # <<>> /\ Len(natives) \in 1 .. Len(natives)
    BY <2>1, StateFacts, EmptySeq DEF NoneRuns
  <2> QED BY <2>1, <2>2 DEF NativeReturn, Top
<1>2. /\ Nested(frames, Front(natives), base + 1) /\ NoneRuns(Front(natives))
      /\ base + 2 <= Len(stack) /\ base \in Nat
  BY <1>1, StateFacts, NestedNativeReturn, NestedFacts
<1>3. stack' \in Seq(Slots) /\ Len(stack') = base + 1
  <2>1. base \in 0 .. Len(stack)
    BY <1>2, StateFacts
  <2>2. PICK s : s = SubSeq(stack, 1, base)
    OBVIOUS
  <2>3. s \in Seq(Slots) /\ Len(s) = base
    BY <2>1, <2>2, StateFacts, PrefixFacts
  <2> QED BY <1>1, <2>2, <2>3, AppendProperties DEF Slots
<1>4. /\ natives' \in Seq(Native) /\ Len(natives') = Len(natives) - 1
      /\ \A k \in 1 .. Len(natives) - 1 : natives'[k] = natives[k]
  BY <1>1, StateFacts, TopFacts
<1>5. natives[Len(natives)].breakFrame = 0
  BY <1>1 DEF NoneRuns
<1> HIDE DEF base
<1>6. Listed(openUpvalues, upvalues, base + 1)
  <2>1. ASSUME NEW u \in 1 .. Len(upvalues)
        PROVE  upvalues[u].value <= base + 1
    <3>1. upvalues[u].value \in Nat /\ upvalues[u].value <= Len(stack)
      BY StateFacts, ListedFacts
    <3>2. upvalues[u].value <= base \/ Len(stack) < upvalues[u].value
      BY <1>1, <1>5, StateFacts DEF OutsideNatives, base
    <3>3. base \in Nat /\ Len(stack) \in Nat
      BY <1>2, StateFacts
    <3> QED BY <3>1, <3>2, <3>3
  <2>2. base + 1 \in Nat
    BY <1>2
  <2> QED BY <2>1, <2>2, StateFacts, ListedLength
<1>7. OutsideNatives(upvalues, natives', Len(stack'))
  <2> SUFFICES ASSUME NEW u \in 1 .. Len(upvalues), NEW k \in 1 .. Len(natives')
               PROVE  \/ upvalues[u].value <= natives'[k].base
                      \/ (IF natives'[k].breakFrame = 0 THEN Len(stack')
                          ELSE natives'[k].stackTop) < upvalues[u].value
    BY DEF OutsideNatives
  <2>1. k \in 1 .. Len(natives) /\ k # Len(natives) /\ natives'[k] = natives[k]
    BY <1>4, StateFacts, SMTT(20)
  <2>2. natives[k].breakFrame # 0
    BY <2>1, StateFacts, NativeFacts
  <2> QED BY <2>1, <2>2, StateFacts DEF OutsideNatives
<1>8. capturing' = FALSE
  BY <1>1, StateFacts DEF CapturesInFrame
<1>9. Nested(frames', natives', Len(stack')) /\ Listed(openUpvalues', upvalues', Len(stack'))
  BY <1>1, <1>2, <1>3, <1>6
<1>10. Parts'
  BY <1>1, <1>3, <1>4, <1>7, <1>8, <1>9, StateFacts DEF Parts, CapturesInFrame
<1> QED BY <1>10, PartsSuffice, PTL

\* RETURN takes the locals of the function that ends off the list, and puts
\* the stack back to where the caller's part ends.
LEMMA ReturnParts ==
  ASSUME IInv, Len(frames) > 0, CloseUpvalues(frames[Len(frames)].slots),
         UNCHANGED <<closures, capturing>>, ~ capturing,
         stack' \in Seq(Slots), Len(stack') >= frames[Len(frames)].slots - 1,
         natives' \in Seq(Native), Nested(frames', natives', Len(stack')),
         \E n \in 0 .. Len(frames) : frames' = SubSeq(frames, 1, n),
         Len(natives') = Len(natives),
         \A k \in 1 .. Len(natives) :
           /\ natives[k].breakFrame # 0 /\ natives'[k].base = natives[k].base
           /\ IF natives'[k].breakFrame = 0 THEN Len(stack') = natives[k].stackTop
              ELSE natives'[k] = natives[k]
  PROVE  IInv'
<1> DEFINE slots == frames[Len(frames)].slots
<1>1. slots \in Nat \ {0} /\ Len(stack') \in Nat
  BY StateFacts, TopFrameFacts, LocalFacts
<1>2. /\ Listed(openUpvalues', upvalues', Len(stack')) /\ Len(upvalues') = Len(upvalues)
      /\ \A u \in 1 .. Len(upvalues) :
           upvalues'[u].value = Self \/ upvalues'[u] = upvalues[u]
  <2>1. PICK last : last = slots
    OBVIOUS
  <2>2. PICK len2 : len2 = Len(stack')
    OBVIOUS
  <2>3. last \in Nat \ {0} /\ CloseUpvalues(last) /\ len2 \in Nat /\ len2 >= last - 1
    BY <1>1, <2>1, <2>2
  <2>4. /\ Listed(openUpvalues', upvalues', len2) /\ Len(upvalues') = Len(upvalues)
        /\ \A u \in 1 .. Len(upvalues) :
             upvalues'[u].value = Self \/ upvalues'[u] = upvalues[u]
    BY <2>3, StateFacts, ClosingFacts
  <2> QED BY <2>2, <2>4
<1>3. upvalues' \in Seq(Upvalue) /\ openUpvalues' \in Seq(1 .. Len(upvalues'))
  BY <1>2 DEF Listed
<1>4. Typed(frames', closures', Len(upvalues'))
  <2>1. PICK n \in 0 .. Len(frames) : frames' = SubSeq(frames, 1, n)
    OBVIOUS
  <2>2. PICK S : S = [closure : {Script, Synthetic} \cup 1 .. Len(closures), slots : Nat]
    OBVIOUS
  <2>3. frames \in Seq(S) /\ closures \in Seq(Seq(1 .. Len(upvalues)))
    BY <2>2, StateFacts DEF Typed
  <2>4. frames' \in Seq(S)
    BY <2>1, <2>3, PrefixFacts
  <2> QED BY <1>2, <2>2, <2>3, <2>4 DEF Typed
<1>5. OutsideNatives(upvalues', natives', Len(stack'))
  <2> SUFFICES ASSUME NEW u \in 1 .. Len(upvalues), NEW k \in 1 .. Len(natives)
               PROVE  \/ upvalues'[u].value <= natives'[k].base
                      \/ (IF natives'[k].breakFrame = 0 THEN Len(stack')
                          ELSE natives'[k].stackTop) < upvalues'[u].value
    BY <1>2 DEF OutsideNatives
  <2>1. natives[k].base \in Nat /\ natives'[k].base = natives[k].base
    BY StateFacts, NestedFacts
  <2>2. CASE upvalues'[u].value = Self
    BY <2>1, <2>2 DEF Self
  <2>3. CASE upvalues'[u] = upvalues[u]
    <3>1. upvalues[u].value <= natives[k].base \/ natives[k].stackTop < upvalues[u].value
      BY StateFacts DEF OutsideNatives
    <3> QED BY <2>1, <2>3, <3>1
  <2> QED BY <1>2, <2>2, <2>3
<1>6. Parts'
  BY <1>2, <1>3, <1>4, <1>5, StateFacts DEF Parts, CapturesInFrame
<1> QED BY <1>6, PartsSuffice, PTL

\* A return closes what points into its frame, then cuts the stack.
LEMMA ReturnInv == ASSUME IInv, NEW v \in Value, Return(v) PROVE IInv'
<1> DEFINE slots == frames[Len(frames)].slots
           n == Len(frames) - 1
           top == natives[Len(natives)]
<1>1. /\ Len(frames) > 0 /\ NoneRuns(natives) /\ ~ capturing
      /\ Len(frames) \in Nat /\ n \in Nat /\ Top(frames) = frames[Len(frames)]
      /\ CloseUpvalues(slots) /\ UNCHANGED <<closures, capturing>>
  BY StateFacts DEF Return, Top
<1>2. LeavesRun(n) <=> Len(natives) > 0 /\ top.breakFrame = n
  BY StateFacts, EmptySeq DEF LeavesRun, Top
<1>3. LeavesRun(n) => n # 0
  BY <1>1, <1>2 DEF NoneRuns
<1>4. /\ LeavesRun(n) => /\ stack' = SubSeq(stack, 1, top.stackTop)
                         /\ frames' = SubSeq(frames, 1, n - 1)
                         /\ natives' = [natives EXCEPT ![Len(natives)].breakFrame = 0]
      /\ (~ LeavesRun(n) /\ n = 0) => stack' = <<>> /\ frames' = <<>> /\ UNCHANGED natives
      /\ (~ LeavesRun(n) /\ n # 0) => /\ stack' = Append(SubSeq(stack, 1, slots - 1), v)
                                      /\ frames' = Front(frames) /\ UNCHANGED natives
  BY <1>1, <1>3 DEF Return, Top
<1>5. /\ slots \in Nat /\ slots <= Len(stack) /\ slots > 0 /\ Len(stack) \in Nat
      /\ Len(natives) \in Nat
      /\ \A k \in 1 .. Len(natives) : natives[k].breakFrame # 0
  <2>1. slots \in Nat /\ slots <= Len(stack) /\ slots > 0
    BY <1>1, StateFacts, LocalFacts, TopFrameFacts
  <2>2. ASSUME NEW k \in 1 .. Len(natives)
        PROVE  natives[k].breakFrame # 0
    <3>1. natives[k].breakFrame = 0 => k = Len(natives)
      BY StateFacts, NativeFacts
    <3> QED BY <1>1, <3>1, StateFacts DEF NoneRuns
  <2> QED BY <2>1, <2>2, StateFacts
<1> HIDE DEF slots
\* The rest of callFunction: back to the native function that called it.
<1>6. CASE LeavesRun(n)
  <2>1. /\ Len(natives) > 0 /\ Len(natives) \in 1 .. Len(natives) /\ top \in Native
        /\ Len(frames) > 1
        /\ top.breakFrame = Len(frames) - 1
    BY <1>1, <1>2, <1>3, <1>5, <1>6, StateFacts, ElementOfSeq
  <2>2. PICK e : e = [top EXCEPT !.breakFrame = 0]
    OBVIOUS
  <2>3. /\ e \in Native /\ e.base = top.base /\ e.breakFrame = 0
        /\ natives' = [natives EXCEPT ![Len(natives)] = e]
    <3>1. e \in Native /\ e.base = top.base /\ e.breakFrame = 0
      <4>1. PICK r \in Native : r = top
        BY <2>1
      <4>2. e = [r EXCEPT !.breakFrame = 0]
        BY <2>2, <4>1
      <4>3. e \in Native /\ e.base = r.base /\ e.breakFrame = 0
        BY <4>2 DEF Native
      <4> QED BY <4>1, <4>3
    <3>2. natives' = [natives EXCEPT ![Len(natives)] = e]
      BY <1>4, <1>6, <2>1, <2>2, StateFacts
    <3> QED BY <3>1, <3>2
  <2>4. /\ natives' \in Seq(Native) /\ Len(natives') = Len(natives)
        /\ \A k \in 1 .. Len(natives) : natives'[k] = IF k = Len(natives) THEN e ELSE natives[k]
    BY <2>1, <2>3, StateFacts, ExceptSeq
  <2>5. /\ Nested(SubSeq(frames, 1, Len(frames) - 2), natives', top.stackTop)
        /\ top.stackTop + 1 = slots /\ top.stackTop \in 0 .. Len(stack)
    <3>1. PICK ns2 : ns2 = natives'
      OBVIOUS
    <3>2. /\ ns2 \in Seq(Native) /\ Len(ns2) = Len(natives)
          /\ \A k \in 1 .. Len(natives) : k < Len(natives) => ns2[k] = natives[k]
          /\ ns2[Len(natives)].base = natives[Len(natives)].base
          /\ ns2[Len(natives)].breakFrame = 0
      <4>1. natives'[Len(natives)] = e
        BY <2>1, <2>4
      <4>2. ASSUME NEW k \in 1 .. Len(natives), k < Len(natives)
            PROVE  natives'[k] = natives[k]
        <5>1. k # Len(natives)
          BY <1>5, <4>2
        <5> QED BY <2>4, <5>1
      <4> QED BY <2>3, <2>4, <3>1, <4>1, <4>2
    <3>3. /\ Nested(SubSeq(frames, 1, Len(frames) - 2), ns2, top.stackTop)
          /\ top.stackTop + 1 = frames[Len(frames)].slots /\ top.stackTop \in 0 .. Len(stack)
      BY <2>1, <3>2, StateFacts, NestedCallbackReturn
    <3> QED BY <3>1, <3>3 DEF slots
  <2>6. /\ stack' = SubSeq(stack, 1, top.stackTop) /\ frames' = SubSeq(frames, 1, n - 1)
        /\ n - 1 = Len(frames) - 2 /\ n - 1 \in 0 .. Len(frames)
    BY <1>1, <1>4, <1>6, <2>1
  <2>7. stack' \in Seq(Slots) /\ Len(stack') = top.stackTop
    BY <2>5, <2>6, StateFacts, PrefixFacts
  <2>8. Nested(frames', natives', Len(stack')) /\ Len(stack') >= slots - 1
    BY <1>5, <2>5, <2>6, <2>7
  <2>9. ASSUME NEW k \in 1 .. Len(natives)
        PROVE  /\ natives[k].breakFrame # 0 /\ natives'[k].base = natives[k].base
               /\ IF natives'[k].breakFrame = 0 THEN Len(stack') = natives[k].stackTop
                  ELSE natives'[k] = natives[k]
    <3>1. CASE k = Len(natives)
      BY <1>5, <2>3, <2>4, <2>7, <3>1
    <3>2. CASE k # Len(natives)
      BY <1>5, <2>4, <3>2
    <3> QED BY <3>1, <3>2
  <2>10. \E i \in 0 .. Len(frames) : frames' = SubSeq(frames, 1, i)
    BY <2>6
  <2> QED BY <1>1, <2>4, <2>7, <2>8, <2>9, <2>10, ReturnParts DEF slots
\* The script is done.
<1>7. CASE ~ LeavesRun(n) /\ n = 0
  <2>1. stack' = <<>> /\ frames' = <<>> /\ UNCHANGED natives /\ Len(frames) = 1
    BY <1>1, <1>4, <1>7
  <2>2. stack' \in Seq(Slots) /\ Len(stack') = 0
    BY <2>1, EmptySeq
  <2>3. Nested(frames', natives', Len(stack')) /\ natives = <<>> /\ slots = 1
    BY <1>1, <2>1, <2>2, StateFacts, NestedScript DEF slots
  <2>4. Len(stack') >= slots - 1 /\ Len(natives) = 0
    BY <2>2, <2>3
  <2>5. \E i \in 0 .. Len(frames) : frames' = SubSeq(frames, 1, i)
    <3>1. SubSeq(frames, 1, 0) = <<>>
      <4>1. SubSeq(frames, 1, 0) \in Seq(Frame) /\ Len(SubSeq(frames, 1, 0)) = 0
        BY <1>1, StateFacts, PrefixFacts
      <4> QED BY <4>1, EmptySeq
    <3> QED BY <1>1, <2>1, <3>1
  <2> QED BY <1>1, <2>1, <2>2, <2>3, <2>4, <2>5, StateFacts, ReturnParts DEF slots
\* Back to the caller.
<1>8. CASE ~ LeavesRun(n) /\ n # 0
  <2>1. /\ stack' = Append(SubSeq(stack, 1, slots - 1), v) /\ frames' = Front(frames)
        /\ UNCHANGED natives /\ Len(frames) > 1
    <3>1. Len(frames) > 1
      <4>1. PICK len \in Nat : len = Len(frames)
        BY <1>1
      <4>2. len > 0 /\ len - 1 # 0
        BY <1>1, <1>8, <4>1
      <4> QED BY <4>1, <4>2
    <3> QED BY <1>4, <1>8, <3>1
  <2>2. stack' \in Seq(Slots) /\ Len(stack') = slots
    <3>1. slots - 1 \in 0 .. Len(stack) /\ v \in Slots
      BY <1>5 DEF Slots
    <3>2. PICK s : s = SubSeq(stack, 1, slots - 1)
      OBVIOUS
    <3>3. s \in Seq(Slots) /\ Len(s) = slots - 1
      BY <3>1, <3>2, StateFacts, PrefixFacts
    <3>4. stack' \in Seq(Slots) /\ Len(stack') = (slots - 1) + 1
      BY <2>1, <3>1, <3>2, <3>3, AppendProperties
    <3> QED BY <1>5, <3>4
  <2>3. Nested(frames', natives', Len(stack'))
    <3>1. Len(natives) > 0 => natives[Len(natives)].breakFrame # Len(frames) - 1
      BY <1>2, <1>8
    <3>2. Nested(Front(frames), natives, frames[Len(frames)].slots)
      BY <1>1, <2>1, <3>1, StateFacts, NestedReturn
    <3> QED BY <2>1, <2>2, <3>2 DEF slots
  <2>4. \E i \in 0 .. Len(frames) : frames' = SubSeq(frames, 1, i)
    <3>1. Len(frames) - 1 \in 0 .. Len(frames)
      BY <1>1
    <3>2. frames' = SubSeq(frames, 1, Len(frames) - 1)
      BY <2>1 DEF Front
    <3> QED BY <3>1, <3>2
  <2>5. Len(stack') >= slots - 1
    BY <1>5, <2>2
  <2> QED BY <1>1, <1>5, <2>1, <2>2, <2>3, <2>4, <2>5, StateFacts, ReturnParts DEF slots
<1> QED BY <1>6, <1>7, <1>8

----------------------------------------------------------------------------
\* The strengthening holds in every state that calls, returns, callbacks and
\* captures reach: frames and natives nest, the open upvalues are listed, and
\* none points to the part of the stack that a native function's return drops.
THEOREM Invariance == Spec => []IInv
<1>1. Init => IInv
  <2> SUFFICES ASSUME Init PROVE IInv
    OBVIOUS
  <2>1. stack = <<>> /\ frames = <<>> /\ natives = <<>> /\ closures = <<>> /\ upvalues = <<>>
        /\ openUpvalues = <<>> /\ capturing = FALSE
    BY DEF Init
  <2>2. Nested(<<>>, <<>>, 0)
    BY DEF Nested, FramesIn, NativesIn
  <2>3. Listed(<<>>, <<>>, 0)
    BY DEF Listed, OpenIn
  <2>4. Typed(<<>>, <<>>, 0)
    BY DEF Typed
  <2>5. /\ stack \in Seq(Slots) /\ Len(stack) = 0 /\ natives \in Seq(Native)
        /\ upvalues \in Seq(Upvalue) /\ Len(upvalues) = 0
        /\ openUpvalues \in Seq(1 .. Len(upvalues)) /\ capturing \in BOOLEAN
    BY <2>1, EmptySeq
  <2>6. CapturesInFrame /\ OutsideNatives(upvalues, natives, Len(stack))
    BY <2>1, <2>5 DEF CapturesInFrame, OutsideNatives
  <2>7. /\ Nested(frames, natives, Len(stack)) /\ Listed(openUpvalues, upvalues, Len(stack))
        /\ Typed(frames, closures, Len(upvalues))
    BY <2>1, <2>2, <2>3, <2>4, <2>5
  <2>8. Parts
    BY <2>5, <2>6, <2>7 DEF Parts
  <2> QED BY <2>8, PartsSuffice
<1>2. IInv /\ [Next]_vars => IInv'
  <2> SUFFICES ASSUME IInv, [Next]_vars PROVE IInv'
    OBVIOUS
  <2>1. CASE Interpret
    BY <2>1, InterpretInv
  <2>2. ASSUME NEW v \in Value, Push(v) PROVE IInv'
    BY <2>2, PushInv
  <2>3. ASSUME NEW v \in Value, NEW i \in Locals, SetLocal(i, v) PROVE IInv'
    BY <2>3, SetLocalInv
  <2>4. ASSUME NEW v \in Value, NEW j \in DOMAIN Captured, SetUpvalue(Captured[j], v) PROVE IInv'
    BY <2>4, SetUpvalueInv
  <2>5. ASSUME NEW v \in Value, NativeReturn(v) PROVE IInv'
    BY <2>5, NativeReturnInv
  <2>6. ASSUME NEW v \in Value, Return(v) PROVE IInv'
    BY <2>6, ReturnInv
  <2>7. CASE NewClosure
    BY <2>7, NewClosureInv
  <2>8. CASE ClosureDone
    BY <2>8, ClosureDoneInv
  <2>9. ASSUME NEW i \in Locals, CaptureLocal(i) PROVE IInv'
    BY <2>9, CaptureLocalInv
  <2>10. ASSUME NEW j \in DOMAIN Captured, CaptureUpvalue(Captured[j]) PROVE IInv'
    BY <2>10, CaptureUpvalueInv
  <2>11. CASE EndCapturedScope
    BY <2>11, EndCapturedScopeInv
  <2>12. CASE EndScope
    BY <2>12, EndScopeInv
  <2>13. ASSUME NEW c \in Callable, NEW args \in Arguments, Call(c, args) PROVE IInv'
    BY <2>13, CallInv
  <2>14. ASSUME NEW c \in Callable, NEW args \in Arguments, CallFunction(c, args) PROVE IInv'
    BY <2>14, CallFunctionInv
  <2>15. CASE CallNative
    BY <2>15, CallNativeInv
  <2>16. CASE UNCHANGED vars
    <3>1. Parts'
      BY <2>16, StateFacts DEF Parts, CapturesInFrame, vars
    <3> QED BY <3>1, PartsSuffice, PTL
  <2> QED BY <2>1, <2>2, <2>3, <2>4, <2>5, <2>6, <2>7, <2>8, <2>9, <2>10, <2>11, <2>12,
             <2>13, <2>14, <2>15, <2>16 DEF Next
<1> QED BY <1>1, <1>2, PTL DEF Spec

\* Every variable keeps its type, however calls, callbacks and captures mix.
THEOREM TypeCorrect == Spec => []TypeOK
<1>1. IInv => TypeOK
  BY DEF IInv
<1> QED BY <1>1, Invariance, PTL

\* The open upvalues stay sorted, one for a slot that is in use: what
\* closeUpvalues and captureUpvalue rely on when they stop early.
THEOREM UpvaluesSorted == Spec => []OpenSorted
<1>1. IInv => OpenSorted
  <2> SUFFICES ASSUME IInv PROVE OpenSorted
    OBVIOUS
  <2>1. DOMAIN openUpvalues = 1 .. Len(openUpvalues) /\ DOMAIN upvalues = 1 .. Len(upvalues)
    BY StateFacts, LenProperties
  <2>2. OpenIn(openUpvalues, upvalues, Len(stack))
    BY StateFacts DEF Listed
  <2> QED BY <2>1, <2>2 DEF OpenSorted, OpenIn
<1> QED BY <1>1, Invariance, PTL

\* However natives, callbacks and calls nest, the frame that callFunction made
\* up belongs to the native that waits for it and is never the one that runs.
THEOREM CallsNest == Spec => []FramesNested
<1>1. IInv => FramesNested
  <2> SUFFICES ASSUME IInv PROVE FramesNested
    OBVIOUS
  <2>1. /\ DOMAIN frames = 1 .. Len(frames) /\ DOMAIN natives = 1 .. Len(natives)
        /\ Len(frames) \in Nat /\ Len(natives) \in Nat
        /\ Nested(frames, natives, Len(stack))
    BY StateFacts, LenProperties
  <2>2. {k \in DOMAIN frames : frames[k].closure = Synthetic}
          = {natives[k].breakFrame : k \in DOMAIN natives} \ {0}
    <3>1. ASSUME NEW k \in 1 .. Len(frames), frames[k].closure = Synthetic
          PROVE  k \in {natives[j].breakFrame : j \in 1 .. Len(natives)} \ {0}
      <4>1. PICK j \in 1 .. Len(natives) : natives[j].breakFrame = k
        BY <2>1, <3>1, NativeFacts
      <4> QED BY <2>1, <4>1
    <3>2. ASSUME NEW j \in 1 .. Len(natives), natives[j].breakFrame # 0
          PROVE  /\ natives[j].breakFrame \in 1 .. Len(frames)
                 /\ frames[natives[j].breakFrame].closure = Synthetic
      <4>1. Waits(natives[j], frames) /\ natives[j].breakFrame \in Nat
        BY <2>1, <3>2, NativeFacts, NestedFacts
      <4> QED BY <2>1, <4>1 DEF Waits
    <3> QED BY <2>1, <3>1, <3>2
  <2>3. frames # <<>> => Top(frames).closure # Synthetic
    <3>1. frames # <<>> => Len(frames) > 0
      BY StateFacts, EmptySeq
    <3> QED BY <2>1, <3>1, TopFrameFacts DEF Top
  <2>4. \A k \in 1 .. Len(natives) - 1 : natives[k].breakFrame \notin {0, Len(frames)}
    <3> SUFFICES ASSUME NEW k \in 1 .. Len(natives) - 1
                 PROVE  natives[k].breakFrame \notin {0, Len(frames)}
      OBVIOUS
    <3>1. k \in 1 .. Len(natives) /\ k < Len(natives)
      BY <2>1
    <3>2. natives[k].breakFrame # 0 /\ Waits(natives[k], frames) /\ natives[k].breakFrame \in Nat
      BY <2>1, <3>1, NativeFacts, NestedFacts
    <3> QED BY <2>1, <3>2 DEF Waits
  <2>5. \A k, m \in {j \in DOMAIN frames : frames[j].closure # Synthetic} :
          k < m => frames[k].slots < frames[m].slots
    BY <2>1, NestedFacts
  <2>6. \A k \in DOMAIN frames : frames[k].slots <= Len(stack)
    BY <2>1, NestedFacts
  <2> QED BY <2>2, <2>3, <2>4, <2>5, <2>6 DEF FramesNested
<1> QED BY <1>1, Invariance, PTL
----------------------------------------------------------------------------
(* Lexical scoping.  The names, the places of their variables and what      *)
(* they see are described by tables, so that the steps of LexicalSpec can   *)
(* be shown from how the tables of two states compare.                      *)

Local(i) == <<"local", i>>
InClosure(c, j) == <<"captured", c, j>>
Slot(i) == <<"slot", i>>
Closed(u) == <<"upvalue", u>>

\* Locals and captures are different names.
LEMMA NamesDiffer ==
  /\ \A i, j : Local(i) = Local(j) => i = j
  /\ \A c, j, d, k : InClosure(c, j) = InClosure(d, k) => c = d /\ j = k
  /\ \A i, c, j : Local(i) # InClosure(c, j)
  /\ \A i : Local(i)[1] = "local" /\ Local(i)[2] = i
  /\ \A c, j : InClosure(c, j)[1] # "local"
<1>1. \A i : Local(i)[1] = "local" /\ Local(i)[2] = i
  BY DEF Local
<1>2. \A c, j : /\ InClosure(c, j)[1] = "captured" /\ InClosure(c, j)[2] = c
                /\ InClosure(c, j)[3] = j
  BY DEF InClosure
<1>3. "captured" # "local"
  OBVIOUS
<1> QED BY <1>1, <1>2, <1>3

\* Slots and closed upvalues are different places.
LEMMA PlacesDiffer ==
  /\ \A i, j : Slot(i) = Slot(j) => i = j
  /\ \A u, w : Closed(u) = Closed(w) => u = w
  /\ \A i, u : Slot(i) # Closed(u)
  /\ \A i : Slot(i)[1] = "slot" /\ Slot(i)[2] = i
  /\ \A u : Closed(u)[1] # "slot" /\ Closed(u)[2] = u
<1>1. \A i : Slot(i)[1] = "slot" /\ Slot(i)[2] = i
  BY DEF Slot
<1>2. \A u : Closed(u)[1] = "upvalue" /\ Closed(u)[2] = u
  BY DEF Closed
<1>3. "slot" # "upvalue"
  OBVIOUS
<1> QED BY <1>1, <1>2, <1>3

\* The steps of LexicalSpec, as relations of tables.
Same(names, loc) == [n \in names |-> {m \in names : loc[m] = loc[n]}]

Remaining(names, kept, same) == [n \in names |-> IF n \in kept THEN same[n] \cap kept ELSE {n}]

With(S, x) == S \cup {x}

Joined(names, all, same) == [m \in names |-> IF m \in all THEN all ELSE same[m]]

\* Two names are one variable if they have one place.
LEMMA SameVariable ==
  ASSUME NEW names, NEW loc, NEW n \in names
  PROVE  \A m \in names : m \in Same(names, loc)[n] <=> loc[m] = loc[n]
<1>1. Same(names, loc)[n] = {m \in names : loc[m] = loc[n]}
  BY DEF Same
<1> QED BY <1>1

\* Names kept remain one variable or two; new ones are variables of their own.
LEMMA RescopeTables ==
  ASSUME NEW names, NEW loc, NEW names2, NEW loc2, NEW kept,
         kept \subseteq names, kept \subseteq names2,
         \A n, m \in kept : loc2[n] = loc2[m] <=> loc[n] = loc[m],
         \A n \in names2 \ kept, m \in names2 : loc2[n] = loc2[m] => n = m
  PROVE  Same(names2, loc2) = Remaining(names2, kept, Same(names, loc))
<1>1. ASSUME NEW n \in names2
      PROVE  {m \in names2 : loc2[m] = loc2[n]}
               = IF n \in kept THEN Same(names, loc)[n] \cap kept ELSE {n}
  <2>1. CASE n \in kept
    <3>1. Same(names, loc)[n] = {m \in names : loc[m] = loc[n]}
      BY <2>1 DEF Same
    <3>2. \A m \in names2 : loc2[m] = loc2[n] <=> m \in kept /\ loc[m] = loc[n]
      BY <2>1
    <3>3. {m \in names2 : loc2[m] = loc2[n]} = Same(names, loc)[n] \cap kept
      BY <3>1, <3>2
    <3> QED BY <2>1, <3>3
  <2>2. CASE n \notin kept
    <3>1. \A m \in names2 : loc2[m] = loc2[n] <=> m = n
      BY <2>2
    <3> QED BY <2>2, <3>1
  <2> QED BY <2>1, <2>2
<1> QED BY <1>1 DEF Same, Remaining

\* A name that gets the place of another joins its variable.
LEMMA CaptureTables ==
  ASSUME NEW names, NEW loc, NEW names2, NEW loc2, NEW new, NEW n \in names,
         new \notin names, names2 = With(names, new),
         \A m \in names : loc2[m] = loc[m], loc2[new] = loc[n]
  PROVE  Same(names2, loc2) = Joined(names2, With(Same(names, loc)[n], new), Same(names, loc))
<1> DEFINE all == With(Same(names, loc)[n], new)
<1>0. /\ \A x : x \in all <=> x \in Same(names, loc)[n] \/ x = new
      /\ \A x : x \in names2 <=> x \in names \/ x = new
  BY DEF With
<1> HIDE DEF all
<1>1. \A m \in names : Same(names, loc)[m] = {x \in names : loc[x] = loc[m]}
  BY DEF Same
<1>2. ASSUME NEW m \in names2
      PROVE  {x \in names2 : loc2[x] = loc2[m]} = IF m \in all THEN all ELSE Same(names, loc)[m]
  <2>1. CASE m = new
    <3>1. \A x \in names2 : loc2[x] = loc2[m] <=> x = new \/ (x \in names /\ loc[x] = loc[n])
      BY <1>0, <2>1
    <3>2. {x \in names2 : loc2[x] = loc2[m]} = all
      BY <1>0, <1>1, <3>1
    <3> QED BY <1>0, <2>1, <3>2
  <2>2. CASE m \in names /\ loc[m] = loc[n]
    <3>1. \A x \in names2 : loc2[x] = loc2[m] <=> x = new \/ (x \in names /\ loc[x] = loc[n])
      BY <1>0, <2>2
    <3>2. {x \in names2 : loc2[x] = loc2[m]} = all
      BY <1>0, <1>1, <3>1
    <3>3. m \in Same(names, loc)[n]
      BY <1>0, <1>1, <2>2
    <3> QED BY <1>0, <3>2, <3>3
  <2>3. CASE m \in names /\ loc[m] # loc[n]
    <3>1. \A x \in names2 : loc2[x] = loc2[m] <=> x \in names /\ loc[x] = loc[m]
      BY <1>0, <2>3
    <3>2. {x \in names2 : loc2[x] = loc2[m]} = Same(names, loc)[m]
      BY <1>0, <1>1, <2>3, <3>1
    <3>3. m \notin all
      BY <1>0, <1>1, <2>3
    <3> QED BY <1>0, <3>2, <3>3
  <2> QED BY <1>0, <2>1, <2>2, <2>3
<1> QED BY <1>2 DEF Same, Joined, all

\* The tables of a state.
Places == [n \in Names |-> Location(n)]

\* Which names there are,
NamesTold ==
  /\ \A i : Local(i) \in Names <=> i \in 1 .. Len(stack)
  /\ \A c, j : InClosure(c, j) \in Names <=> c \in 1 .. Len(closures) /\ j \in 1 .. Len(closures[c])
  /\ \A n \in Names : \/ \E i \in 1 .. Len(stack) : n = Local(i)
                      \/ \E c \in 1 .. Len(closures) :
                           \E j \in 1 .. Len(closures[c]) : n = InClosure(c, j)

\* where the variables are and what they hold.
PlacesTold ==
  /\ DOMAIN Places = Names /\ DOMAIN Values = Names
  /\ Aliases = Same(Names, Places)
  /\ \A i \in 1 .. Len(stack) : Places[Local(i)] = Slot(i) /\ Values[Local(i)] = stack[i]
  /\ \A c \in 1 .. Len(closures) : \A j \in 1 .. Len(closures[c]) :
       LET u == closures[c][j]
       IN /\ u \in 1 .. Len(upvalues) /\ upvalues[u].value \in 0 .. Len(stack)
          /\ upvalues[u].value = Self => /\ Places[InClosure(c, j)] = Closed(u)
                                         /\ Values[InClosure(c, j)] = upvalues[u].closed
          /\ upvalues[u].value # Self =>
               /\ Places[InClosure(c, j)] = Slot(upvalues[u].value)
               /\ Values[InClosure(c, j)] = stack[upvalues[u].value]

\* No two upvalues are open for one slot.
OneForSlot ==
  \A u, w \in 1 .. Len(upvalues) :
    upvalues[u].value = upvalues[w].value /\ upvalues[u].value # Self => u = w

LengthsTold == Len(stack) \in Nat /\ Len(closures) \in Nat

\* The tables of a state, from the invariant: their lengths,
LEMMA LengthsAreTold == IInv => LengthsTold
  BY StateFacts DEF LengthsTold

\* the names,
LEMMA NamesAreTold == IInv => NamesTold
<1> SUFFICES ASSUME IInv PROVE NamesTold
  OBVIOUS
<1>1. DOMAIN stack = 1 .. Len(stack) /\ DOMAIN closures = 1 .. Len(closures)
  BY StateFacts, LenProperties
<1>2. ASSUME NEW c \in 1 .. Len(closures)
      PROVE  DOMAIN closures[c] = 1 .. Len(closures[c])
  <2>1. closures[c] \in Seq(1 .. Len(upvalues))
    BY StateFacts, ElementOfSeq
  <2> QED BY <2>1, LenProperties
<1>3. \A n : n \in Names <=> \/ \E i \in 1 .. Len(stack) : n = Local(i)
                             \/ \E c \in 1 .. Len(closures) :
                                  \E j \in 1 .. Len(closures[c]) : n = InClosure(c, j)
  BY <1>1, <1>2 DEF Names, Local, InClosure
<1>4. \A i : Local(i) \in Names <=> i \in 1 .. Len(stack)
  BY <1>3, NamesDiffer
<1>5. \A c, j : InClosure(c, j) \in Names <=> c \in 1 .. Len(closures) /\ j \in 1 .. Len(closures[c])
  BY <1>3, NamesDiffer
<1> QED BY <1>3, <1>4, <1>5 DEF NamesTold

\* their places and values,
LEMMA PlacesAreTold == IInv => PlacesTold
<1> SUFFICES ASSUME IInv PROVE PlacesTold
  OBVIOUS
<1>1. NamesTold
  BY NamesAreTold
<1>2. DOMAIN Places = Names /\ DOMAIN Values = Names
  BY DEF Places, Values
<1>3. Aliases = Same(Names, Places)
  <2>1. \A n \in Names : Places[n] = Location(n)
    BY DEF Places
  <2>2. \A n \in Names :
          {m \in Names : Location(m) = Location(n)} = {m \in Names : Places[m] = Places[n]}
    BY <2>1
  <2> QED BY <2>2 DEF Aliases, Same
<1>4. ASSUME NEW i \in 1 .. Len(stack)
      PROVE  Places[Local(i)] = Slot(i) /\ Values[Local(i)] = stack[i]
  <2>1. Local(i) \in Names
    BY <1>1 DEF NamesTold
  <2>2. Location(Local(i)) = Slot(i)
    BY NamesDiffer DEF Location, Slot
  <2>3. Sees(Local(i)) = stack[i]
    BY <2>2, PlacesDiffer DEF Sees
  <2> QED BY <2>1, <2>2, <2>3 DEF Places, Values
<1>5. ASSUME NEW c \in 1 .. Len(closures), NEW j \in 1 .. Len(closures[c])
      PROVE  LET u == closures[c][j]
             IN /\ u \in 1 .. Len(upvalues) /\ upvalues[u].value \in 0 .. Len(stack)
                /\ upvalues[u].value = Self => /\ Places[InClosure(c, j)] = Closed(u)
                                               /\ Values[InClosure(c, j)] = upvalues[u].closed
                /\ upvalues[u].value # Self =>
                     /\ Places[InClosure(c, j)] = Slot(upvalues[u].value)
                     /\ Values[InClosure(c, j)] = stack[upvalues[u].value]
  <2>1. PICK n : n = InClosure(c, j)
    OBVIOUS
  <2>2. PICK u : u = closures[c][j]
    OBVIOUS
  <2>3. n \in Names /\ n[1] # "local"
    BY <1>1, <2>1, NamesDiffer DEF NamesTold
  <2>4. u \in 1 .. Len(upvalues) /\ UpvalueOf(n) = u
    <3>1. closures[c] \in Seq(1 .. Len(upvalues))
      BY StateFacts, ElementOfSeq
    <3>2. u \in 1 .. Len(upvalues)
      BY <2>2, <3>1, ElementOfSeq
    <3>3. n[2] = c /\ n[3] = j
      BY <2>1 DEF InClosure
    <3> QED BY <2>2, <3>2, <3>3 DEF UpvalueOf
  <2>5. upvalues[u].value \in 0 .. Len(stack)
    BY <2>4, StateFacts, ListedFacts
  <2>6. Places[n] = Location(n) /\ Values[n] = Sees(n)
    BY <2>3 DEF Places, Values
  <2>7. ASSUME upvalues[u].value = Self
        PROVE  Places[n] = Closed(u) /\ Values[n] = upvalues[u].closed
    <3>1. Location(n) = Closed(u)
      BY <2>3, <2>4, <2>7 DEF Location, Closed
    <3>2. Sees(n) = upvalues[u].closed
      BY <3>1, PlacesDiffer DEF Sees
    <3> QED BY <2>6, <3>1, <3>2
  <2>8. ASSUME upvalues[u].value # Self
        PROVE  Places[n] = Slot(upvalues[u].value) /\ Values[n] = stack[upvalues[u].value]
    <3>1. Location(n) = Slot(upvalues[u].value)
      BY <2>3, <2>4, <2>8 DEF Location, Slot
    <3>2. Sees(n) = stack[upvalues[u].value]
      BY <3>1, PlacesDiffer DEF Sees
    <3> QED BY <2>6, <3>1, <3>2
  <2> QED BY <2>1, <2>2, <2>4, <2>5, <2>7, <2>8
<1> QED BY <1>2, <1>3, <1>4, <1>5 DEF PlacesTold

\* and that two open upvalues never share a slot.
LEMMA OneUpvalueForSlot == IInv => OneForSlot
<1> SUFFICES ASSUME IInv, NEW u \in 1 .. Len(upvalues), NEW w \in 1 .. Len(upvalues),
                    upvalues[u].value = upvalues[w].value, upvalues[u].value # Self
             PROVE  u = w
  BY DEF OneForSlot
<1>1. PICK k \in 1 .. Len(openUpvalues) : openUpvalues[k] = u
  BY StateFacts DEF Listed, OpenIn
<1>2. PICK m \in 1 .. Len(openUpvalues) : openUpvalues[m] = w
  BY StateFacts DEF Listed, OpenIn
<1>3. upvalues[u].value \in Nat
  BY StateFacts, ListedFacts
<1>4. ~ (k < m) /\ ~ (m < k)
  <2>1. /\ k < m => upvalues[u].value > upvalues[w].value
        /\ m < k => upvalues[w].value > upvalues[u].value
    BY <1>1, <1>2, StateFacts, ListedFacts
  <2>2. PICK x \in Nat : x = upvalues[u].value /\ x = upvalues[w].value
    BY <1>3
  <2> QED BY <2>1, <2>2
<1>5. k \in Nat /\ m \in Nat
  BY StateFacts
<1>6. k = m
  BY <1>4, <1>5
<1> QED BY <1>1, <1>2, <1>6

\* There are finitely many names, and as many locals among them as slots.
LEMMA FiniteTable ==
  ASSUME NEW S, IsFiniteSet(S), NEW f, DOMAIN f = S, NEW T, T = {f[x] : x \in S},
         f = [x \in S |-> f[x]]
  PROVE  IsFiniteSet(T)
<1>1. f \in [S -> T]
  OBVIOUS
<1>2. f \in Surjection(S, T)
  BY <1>1 DEF Surjection
<1> QED BY <1>2, FS_Surjection

\* There are finitely many names, at least as many as slots in use.
LEMMA NamesCount ==
  ASSUME IInv
  PROVE  IsFiniteSet(Names) /\ Cardinality(Names) \in Nat /\ Len(stack) <= Cardinality(Names)
<1>1. DOMAIN stack = 1 .. Len(stack) /\ DOMAIN closures = 1 .. Len(closures)
  BY StateFacts, LenProperties
<1> DEFINE L == {Local(i) : i \in 1 .. Len(stack)}
           f == [i \in 1 .. Len(stack) |-> Local(i)]
<1>2. IsFiniteSet(1 .. Len(stack)) /\ Cardinality(1 .. Len(stack)) = Len(stack)
  <2>1. PICK len \in Nat : len = Len(stack)
    BY StateFacts
  <2>2. Cardinality(1 .. len) = IF 1 > len THEN 0 ELSE len - 1 + 1
    BY FS_Interval
  <2>3. IsFiniteSet(1 .. len)
    BY FS_Interval
  <2> QED BY <2>1, <2>2, <2>3
<1>3. f \in Bijection(1 .. Len(stack), L)
  <2>1. f \in [1 .. Len(stack) -> L]
    OBVIOUS
  <2>2. f \in Injection(1 .. Len(stack), L)
    BY <2>1, NamesDiffer DEF Injection, IsInjective
  <2>3. f \in Surjection(1 .. Len(stack), L)
    BY <2>1 DEF Surjection
  <2> QED BY <2>2, <2>3 DEF Bijection
<1>4. IsFiniteSet(L) /\ Cardinality(L) = Len(stack)
  <2>1. ExistsBijection(1 .. Len(stack), L)
    BY <1>3 DEF ExistsBijection
  <2> HIDE DEF L
  <2> QED BY <1>2, <2>1, FS_Bijection
<1> DEFINE In(c) == {<<"captured", c, j>> : j \in DOMAIN closures[c]}
           C == {In(c) : c \in DOMAIN closures}
<1>5. ASSUME NEW c \in 1 .. Len(closures)
      PROVE  IsFiniteSet(In(c))
  <2>1. PICK n \in Nat : DOMAIN closures[c] = 1 .. n
    <3>1. closures[c] \in Seq(1 .. Len(upvalues))
      BY StateFacts, ElementOfSeq
    <3> QED BY <3>1, LenProperties
  <2> DEFINE g == [j \in 1 .. n |-> <<"captured", c, j>>]
  <2>2. DOMAIN g = 1 .. n /\ In(c) = {g[j] : j \in 1 .. n} /\ g = [j \in 1 .. n |-> g[j]]
    BY <2>1
  <2>3. IsFiniteSet(1 .. n)
    BY FS_Interval
  <2> HIDE DEF g, In
  <2> QED BY <2>2, <2>3, FiniteTable
<1> HIDE DEF In
<1>6. IsFiniteSet(C)
  <2>1. PICK n \in Nat : DOMAIN closures = 1 .. n
    BY <1>1, StateFacts
  <2> DEFINE g == [c \in 1 .. n |-> In(c)]
  <2>2. DOMAIN g = 1 .. n /\ C = {g[c] : c \in 1 .. n} /\ g = [c \in 1 .. n |-> g[c]]
    BY <2>1
  <2>3. IsFiniteSet(1 .. n)
    BY FS_Interval
  <2> HIDE DEF g, C
  <2> QED BY <2>2, <2>3, FiniteTable
<1>7. \A T \in C : IsFiniteSet(T)
  BY <1>1, <1>5
<1> HIDE DEF C
<1>8. IsFiniteSet(UNION C)
  BY <1>6, <1>7, FS_UNION
<1>9. Names = L \cup UNION C
  BY <1>1 DEF Names, C, In, Local
<1> HIDE DEF L
<1>10. IsFiniteSet(Names)
  BY <1>4, <1>8, <1>9, FS_Union
<1>11. Cardinality(L) <= Cardinality(Names)
  <2>1. L \in SUBSET Names
    BY <1>9
  <2> QED BY <1>10, <2>1, FS_Subset
<1> QED BY <1>4, <1>10, <1>11, FS_CardinalityType

\* Calls, returns and scopes: the variables of the slots above the k-th go out
\* of scope, those that closures share keep their values, and locals come.
Rescoped(k) ==
  /\ k \in 0 .. Len(stack) /\ k <= Len(stack') /\ \A i \in 1 .. k : stack'[i] = stack[i]
  /\ Len(closures) <= Len(closures')
  /\ \A c \in 1 .. Len(closures) : closures'[c] = closures[c]
  /\ \A c \in 1 .. Len(closures') : c > Len(closures) => closures'[c] = <<>>
  /\ Len(upvalues') = Len(upvalues)
  /\ \A u \in 1 .. Len(upvalues) :
       IF upvalues[u].value > k
       THEN upvalues'[u].value = Self /\ upvalues'[u].closed = stack[upvalues[u].value]
       ELSE upvalues'[u] = upvalues[u]

\* A step that cuts the stack at a length, closes what points above it and pushes
\* is a Rescope.
LEMMA RescopeStep ==
  ASSUME IInv, IInv', NEW k \in Nat, Rescoped(k)
  PROVE  Lexical!Rescope
<1> DEFINE kept == {n \in Names : n[1] = "local" => n[2] <= k}
<1>1. /\ NamesTold /\ PlacesTold /\ OneForSlot /\ NamesTold' /\ PlacesTold'
  BY NamesAreTold, PlacesAreTold, OneUpvalueForSlot, PTL
<1>2. /\ Len(stack) \in Nat /\ Len(stack') \in Nat /\ Len(closures) \in Nat
      /\ Len(closures') \in Nat /\ k <= Len(stack) /\ k <= Len(stack')
  <2>1. LengthsTold /\ LengthsTold'
    BY LengthsAreTold, PTL
  <2> QED BY <2>1 DEF LengthsTold, Rescoped
\* What stays in scope.
<1>3. /\ \A i : Local(i) \in kept <=> i \in 1 .. k
      /\ \A c, j : InClosure(c, j) \in kept <=> InClosure(c, j) \in Names
      /\ \A n \in kept : \/ \E i \in 1 .. k : n = Local(i)
                         \/ \E c \in 1 .. Len(closures) :
                              \E j \in 1 .. Len(closures[c]) : n = InClosure(c, j)
  <2>1. \A i : Local(i) \in kept <=> i \in 1 .. k
    <3>1. \A i : Local(i) \in Names <=> i \in 1 .. Len(stack)
      BY <1>1 DEF NamesTold
    <3>2. \A i : Local(i) \in kept <=> Local(i) \in Names /\ i <= k
      BY NamesDiffer
    <3>3. \A i : i \in 1 .. Len(stack) /\ i <= k <=> i \in 1 .. k
      BY <1>2
    <3> QED BY <3>1, <3>2, <3>3
  <2>2. \A c, j : InClosure(c, j) \in kept <=> InClosure(c, j) \in Names
    BY NamesDiffer
  <2>3. ASSUME NEW n \in kept
        PROVE  \/ \E i \in 1 .. k : n = Local(i)
               \/ \E c \in 1 .. Len(closures) : \E j \in 1 .. Len(closures[c]) : n = InClosure(c, j)
    <3>1. n \in Names
      OBVIOUS
    <3> QED BY <1>1, <2>1, <3>1 DEF NamesTold
  <2> QED BY <2>1, <2>2, <2>3
<1>4. kept \subseteq Names
  OBVIOUS
<1>5. kept = Lexical!Kept(k)
  BY <1>1 DEF Lexical!Kept, Lexical!Names, Lexical!IsLocal, PlacesTold
<1> HIDE DEF kept
<1>6. ASSUME NEW c \in 1 .. Len(closures)
      PROVE  c \in 1 .. Len(closures') /\ closures'[c] = closures[c]
  BY <1>2 DEF Rescoped
<1>7. kept \subseteq Names'
  <2> SUFFICES ASSUME NEW n \in kept PROVE n \in Names'
    OBVIOUS
  <2>1. ASSUME NEW i \in 1 .. k, n = Local(i) PROVE n \in Names'
    BY <1>1, <1>2, <2>1, SMTT(20) DEF NamesTold
  <2>2. ASSUME NEW c \in 1 .. Len(closures), NEW j \in 1 .. Len(closures[c]), n = InClosure(c, j)
        PROVE  n \in Names'
    BY <1>1, <1>6, <2>2 DEF NamesTold
  <2> QED BY <1>3, <2>1, <2>2
\* What is new.
<1>8. \A n \in Names' \ kept : \E i \in Nat : n = Local(i) /\ i > k /\ i \in 1 .. Len(stack')
  <2> SUFFICES ASSUME NEW n \in Names', n \notin kept
               PROVE  \E i \in Nat : n = Local(i) /\ i > k /\ i \in 1 .. Len(stack')
    OBVIOUS
  <2>1. ASSUME NEW i \in 1 .. Len(stack'), n = Local(i)
        PROVE  i \in Nat /\ i > k
    BY <1>2, <1>3, <2>1
  <2>2. ASSUME NEW c \in 1 .. Len(closures'), NEW j \in 1 .. Len(closures'[c]), n = InClosure(c, j)
        PROVE  FALSE
    <3>1. CASE c <= Len(closures)
      <4>1. c \in 1 .. Len(closures)
        BY <1>2, <3>1
      <4>2. n \in Names
        BY <1>1, <1>6, <2>2, <4>1 DEF NamesTold
      <4> QED BY <1>3, <2>2, <4>2
    <3>2. CASE c > Len(closures)
      <4>1. closures'[c] = <<>>
        BY <3>2 DEF Rescoped
      <4> QED BY <4>1, EmptySeq
    <3> QED BY <1>2, <3>1, <3>2
  <2> QED BY <1>1, <2>1, <2>2 DEF NamesTold
\* The variables that stay are where they were, or closed.
<1>9. ASSUME NEW n \in kept
      PROVE  /\ Values'[n] = Values[n]
             /\ \/ \E i \in 1 .. k : Places[n] = Slot(i) /\ Places'[n] = Slot(i)
                \/ \E u \in 1 .. Len(upvalues) :
                     upvalues[u].value = Self /\ Places[n] = Closed(u) /\ Places'[n] = Closed(u)
                \/ \E u \in 1 .. Len(upvalues) :
                     /\ upvalues[u].value > k /\ upvalues[u].value # Self
                     /\ Places[n] = Slot(upvalues[u].value) /\ Places'[n] = Closed(u)
  <2>1. ASSUME NEW i \in 1 .. k, n = Local(i)
        PROVE  /\ Values'[n] = Values[n]
               /\ Places[n] = Slot(i) /\ Places'[n] = Slot(i)
    <3>1. i \in 1 .. Len(stack) /\ i \in 1 .. Len(stack') /\ stack'[i] = stack[i]
      BY <1>2 DEF Rescoped
    <3> QED BY <1>1, <2>1, <3>1 DEF PlacesTold
  <2>2. ASSUME NEW c \in 1 .. Len(closures), NEW j \in 1 .. Len(closures[c]), n = InClosure(c, j)
        PROVE  /\ Values'[n] = Values[n]
               /\ \/ \E i \in 1 .. k : Places[n] = Slot(i) /\ Places'[n] = Slot(i)
                  \/ \E u \in 1 .. Len(upvalues) :
                       upvalues[u].value = Self /\ Places[n] = Closed(u) /\ Places'[n] = Closed(u)
                  \/ \E u \in 1 .. Len(upvalues) :
                       /\ upvalues[u].value > k /\ upvalues[u].value # Self
                       /\ Places[n] = Slot(upvalues[u].value) /\ Places'[n] = Closed(u)
    <3>1. PICK u : u = closures[c][j]
      OBVIOUS
    <3>2. /\ u \in 1 .. Len(upvalues) /\ upvalues[u].value \in 0 .. Len(stack)
          /\ upvalues[u].value = Self => /\ Places[n] = Closed(u)
                                         /\ Values[n] = upvalues[u].closed
          /\ upvalues[u].value # Self => /\ Places[n] = Slot(upvalues[u].value)
                                         /\ Values[n] = stack[upvalues[u].value]
      BY <1>1, <2>2, <3>1 DEF PlacesTold
    <3>3. /\ upvalues'[u].value = Self => /\ Places'[n] = Closed(u)
                                          /\ Values'[n] = upvalues'[u].closed
          /\ upvalues'[u].value # Self => /\ Places'[n] = Slot(upvalues'[u].value)
                                          /\ Values'[n] = stack'[upvalues'[u].value]
      <4>1. c \in 1 .. Len(closures') /\ j \in 1 .. Len(closures'[c]) /\ u = closures'[c][j]
        BY <1>6, <3>1
      <4> QED BY <1>1, <2>2, <4>1 DEF PlacesTold
    <3>4. CASE upvalues[u].value > k
      <4>1. upvalues'[u].value = Self /\ upvalues'[u].closed = stack[upvalues[u].value]
        BY <3>2, <3>4 DEF Rescoped
      <4>2. upvalues[u].value # Self
        BY <3>4 DEF Self
      <4> QED BY <3>2, <3>3, <3>4, <4>1, <4>2
    <3>5. CASE ~ (upvalues[u].value > k) /\ upvalues[u].value # Self
      <4>1. upvalues'[u] = upvalues[u]
        BY <3>2, <3>5 DEF Rescoped
      <4>2. upvalues[u].value \in 1 .. k
        BY <1>2, <3>2, <3>5 DEF Self
      <4>3. stack'[upvalues[u].value] = stack[upvalues[u].value]
        BY <4>2 DEF Rescoped
      <4> QED BY <3>2, <3>3, <3>5, <4>1, <4>2, <4>3
    <3>6. CASE ~ (upvalues[u].value > k) /\ upvalues[u].value = Self
      <4>1. upvalues'[u] = upvalues[u]
        BY <3>2, <3>6 DEF Rescoped
      <4> QED BY <3>2, <3>3, <3>6, <4>1
    <3> QED BY <3>4, <3>5, <3>6
  <2> QED BY <1>3, <2>1, <2>2
<1> DEFINE InSlot(n, i) == Places[n] = Slot(i) /\ Places'[n] = Slot(i)
           WasClosed(n, u) ==
             upvalues[u].value = Self /\ Places[n] = Closed(u) /\ Places'[n] = Closed(u)
           NowClosed(n, u) ==
             /\ upvalues[u].value > k /\ upvalues[u].value # Self
             /\ Places[n] = Slot(upvalues[u].value) /\ Places'[n] = Closed(u)
<1>10. ASSUME NEW n \in kept, NEW m \in kept
       PROVE  Places'[n] = Places'[m] <=> Places[n] = Places[m]
  <2>1. \/ \E i \in 1 .. k : InSlot(n, i)
        \/ \E u \in 1 .. Len(upvalues) : WasClosed(n, u)
        \/ \E u \in 1 .. Len(upvalues) : NowClosed(n, u)
    BY <1>9
  <2>2. \/ \E i \in 1 .. k : InSlot(m, i)
        \/ \E u \in 1 .. Len(upvalues) : WasClosed(m, u)
        \/ \E u \in 1 .. Len(upvalues) : NowClosed(m, u)
    BY <1>9
  <2>3. \A i \in 1 .. k : ~ (i > k)
    BY <1>2
  <2>4. CASE \E i \in 1 .. k : InSlot(n, i)
    BY <2>2, <2>3, <2>4, PlacesDiffer
  <2>5. CASE \E u \in 1 .. Len(upvalues) : WasClosed(n, u)
    <3>1. PICK u \in 1 .. Len(upvalues) : WasClosed(n, u)
      BY <2>5
    <3> QED BY <2>2, <3>1, PlacesDiffer
  <2>6. CASE \E u \in 1 .. Len(upvalues) : NowClosed(n, u)
    <3>1. PICK u \in 1 .. Len(upvalues) : NowClosed(n, u)
      BY <2>6
    <3>2. CASE \E i \in 1 .. k : InSlot(m, i)
      BY <2>3, <3>1, <3>2, PlacesDiffer
    <3>3. CASE \E w \in 1 .. Len(upvalues) : WasClosed(m, w)
      BY <3>1, <3>3, PlacesDiffer
    <3>4. CASE \E w \in 1 .. Len(upvalues) : NowClosed(m, w)
      <4>1. PICK w \in 1 .. Len(upvalues) : NowClosed(m, w)
        BY <3>4
      <4>2. upvalues[u].value = upvalues[w].value <=> u = w
        BY <1>1, <3>1, <4>1 DEF OneForSlot
      <4> QED BY <3>1, <4>1, <4>2, PlacesDiffer
    <3> QED BY <2>2, <3>2, <3>3, <3>4
  <2> QED BY <2>1, <2>4, <2>5, <2>6
<1>11. ASSUME NEW n \in Names' \ kept, NEW m \in Names', Places'[n] = Places'[m]
       PROVE  n = m
  <2>1. PICK i \in Nat : n = Local(i) /\ i > k /\ i \in 1 .. Len(stack')
    BY <1>8
  <2>2. Places'[n] = Slot(i)
    BY <1>1, <2>1 DEF PlacesTold
  <2>3. CASE m \in kept
    <3>1. \A j \in 1 .. k : ~ (j > k)
      BY <1>2
    <3>2. \/ \E j \in 1 .. k : Places'[m] = Slot(j)
          \/ \E u \in 1 .. Len(upvalues) : Places'[m] = Closed(u)
      BY <1>9, <2>3
    <3> QED BY <1>11, <2>1, <2>2, <3>1, <3>2, PlacesDiffer
  <2>4. CASE m \notin kept
    <3>1. PICK j \in Nat : m = Local(j) /\ j \in 1 .. Len(stack')
      BY <1>8, <2>4
    <3>2. Places'[m] = Slot(j)
      BY <1>1, <3>1 DEF PlacesTold
    <3> QED BY <1>11, <2>1, <2>2, <3>1, <3>2, PlacesDiffer
  <2> QED BY <2>3, <2>4
<1>12. Aliases' = [n \in Names' |-> IF n \in kept THEN Aliases[n] \cap kept ELSE {n}]
  <2>1. PICK names2 : names2 = Names'
    OBVIOUS
  <2>2. PICK places2 : places2 = Places'
    OBVIOUS
  <2>3. /\ kept \subseteq names2
        /\ \A n, m \in kept : places2[n] = places2[m] <=> Places[n] = Places[m]
        /\ \A n \in names2 \ kept, m \in names2 : places2[n] = places2[m] => n = m
    BY <1>7, <1>10, <1>11, <2>1, <2>2
  <2>4. Same(names2, places2) = Remaining(names2, kept, Same(Names, Places))
    <3>1. PICK names : names = Names
      OBVIOUS
    <3>2. PICK places : places = Places
      OBVIOUS
    <3>3. /\ kept \subseteq names /\ kept \subseteq names2
          /\ \A n, m \in kept : places2[n] = places2[m] <=> places[n] = places[m]
          /\ \A n \in names2 \ kept, m \in names2 : places2[n] = places2[m] => n = m
      BY <1>4, <2>3, <3>1, <3>2
    <3>4. Same(names2, places2) = Remaining(names2, kept, Same(names, places))
      BY <3>3, RescopeTables
    <3> QED BY <3>1, <3>2, <3>4
  <2>5. Aliases = Same(Names, Places) /\ Aliases' = Same(names2, places2)
    BY <1>1, <2>1, <2>2 DEF PlacesTold
  <2> QED BY <2>1, <2>4, <2>5 DEF Remaining
<1>13. DOMAIN Values = Names /\ DOMAIN Values' = Names'
  BY <1>1 DEF PlacesTold
<1>14. k \in 0 .. Cardinality(Names)
  BY <1>2, NamesCount
<1>15. \A n \in Names' \ kept : n[1] = "local" /\ n[2] > k
  BY <1>8, NamesDiffer
<1>16. Lexical!Rescope
  <2>1. k \in 0 .. Lexical!Cardinality(Lexical!Names)
    <3>1. Lexical!Names = Names
      BY <1>13 DEF Lexical!Names
    <3>2. Lexical!Cardinality(Names) = Cardinality(Names)
      BY DEF Lexical!Cardinality, Cardinality
    <3> QED BY <1>14, <3>1, <3>2
  <2>2. /\ kept \subseteq DOMAIN Values'
        /\ \A n \in DOMAIN Values' \ kept : n[1] = "local" /\ n[2] > k
        /\ \A n \in kept : Values'[n] = Values[n]
        /\ Aliases' = [n \in DOMAIN Values' |->
                         IF n \in kept THEN Aliases[n] \cap kept ELSE {n}]
    BY <1>7, <1>9, <1>12, <1>13, <1>15
  <2> QED BY <1>5, <2>1, <2>2 DEF Lexical!Rescope, Lexical!IsLocal
<1> QED BY <1>16

\* An assignment to the variable that n names.
LEMMA AssignStep ==
  ASSUME IInv, IInv', NEW n \in Names, Names' = Names, Places' = Places,
         \A m \in Names : Values'[m] = IF Places[m] = Places[n] THEN Values'[n] ELSE Values[m]
  PROVE  Lexical!Assign
<1>1. PlacesTold /\ PlacesTold'
  BY PlacesAreTold, PTL
<1>2. /\ DOMAIN Values = Names /\ DOMAIN Values' = Names
      /\ Aliases = Same(Names, Places) /\ Aliases' = Same(Names, Places)
  BY <1>1 DEF PlacesTold
<1>3. \A m \in Names : m \in Aliases[n] <=> Places[m] = Places[n]
  <2>1. PICK names : names = Names
    OBVIOUS
  <2>2. PICK places : places = Places
    OBVIOUS
  <2>3. \A m \in names : m \in Same(names, places)[n] <=> places[m] = places[n]
    BY <2>1, SameVariable
  <2> QED BY <1>2, <2>1, <2>2, <2>3
<1>4. \A m \in Names : Values'[m] = IF m \in Aliases[n] THEN Values'[n] ELSE Values[m]
  BY <1>3
<1>5. Lexical!Names = Names
  BY <1>2 DEF Lexical!Names
<1> QED BY <1>2, <1>4, <1>5 DEF Lexical!Assign

\* A capture of the variable that n names, as j-th of closure c.
LEMMA CaptureStep ==
  ASSUME IInv, IInv', NEW n \in Names, NEW c, NEW j,
         InClosure(c, j) \notin Names, Names' = Names \cup {InClosure(c, j)},
         \A m \in Names : Places'[m] = Places[m] /\ Values'[m] = Values[m],
         Places'[InClosure(c, j)] = Places[n], Values'[InClosure(c, j)] = Values[n]
  PROVE  Lexical!Capture
<1>1. PlacesTold /\ PlacesTold'
  BY PlacesAreTold, PTL
<1>2. /\ DOMAIN Values = Names /\ DOMAIN Values' = Names'
      /\ Aliases = Same(Names, Places) /\ Aliases' = Same(Names', Places')
  BY <1>1 DEF PlacesTold
<1>3. PICK names : names = Names
  OBVIOUS
<1>4. PICK places : places = Places
  OBVIOUS
<1>5. PICK names2 : names2 = Names'
  OBVIOUS
<1>6. PICK places2 : places2 = Places'
  OBVIOUS
<1>7. PICK new : new = InClosure(c, j)
  OBVIOUS
<1>8. Same(names2, places2) = Joined(names2, With(Same(names, places)[n], new), Same(names, places))
  <2>1. /\ n \in names /\ new \notin names /\ names2 = With(names, new)
        /\ \A m \in names : places2[m] = places[m]
        /\ places2[new] = places[n]
    BY <1>3, <1>4, <1>5, <1>6, <1>7 DEF With
  <2> QED BY <2>1, CaptureTables
<1>9. /\ new \in DOMAIN Values' \ Names /\ new[1] # "local"
      /\ DOMAIN Values' = Names \cup {new}
      /\ \A m \in Names : Values'[m] = Values[m]
      /\ Values'[new] = Values[n]
  BY <1>2, <1>7, NamesDiffer
<1>10. Aliases' = [m \in DOMAIN Values' |->
                    IF m \in Aliases[n] \cup {new} THEN Aliases[n] \cup {new} ELSE Aliases[m]]
  BY <1>2, <1>3, <1>4, <1>5, <1>6, <1>8 DEF Joined, With
<1>11. Lexical!Names = Names
  BY <1>2 DEF Lexical!Names
<1> QED BY <1>9, <1>10, <1>11 DEF Lexical!Capture, Lexical!IsLocal

\* What a name sees depends on its place alone.
PlacesSee ==
  \A n \in Names :
    \/ \E i \in 1 .. Len(stack) : Places[n] = Slot(i) /\ Values[n] = stack[i]
    \/ \E u \in 1 .. Len(upvalues) : /\ upvalues[u].value = Self
                                     /\ Places[n] = Closed(u)
                                     /\ Values[n] = upvalues[u].closed

\* A name sees a slot or what a closed upvalue holds.
LEMMA PlacesSeen == IInv => PlacesSee
<1> SUFFICES ASSUME IInv, NEW n \in Names
             PROVE  \/ \E i \in 1 .. Len(stack) : Places[n] = Slot(i) /\ Values[n] = stack[i]
                    \/ \E u \in 1 .. Len(upvalues) : /\ upvalues[u].value = Self
                                                     /\ Places[n] = Closed(u)
                                                     /\ Values[n] = upvalues[u].closed
  BY DEF PlacesSee
<1>0. NamesTold /\ PlacesTold
  BY NamesAreTold, PlacesAreTold
<1>1. ASSUME NEW i \in 1 .. Len(stack), n = Local(i)
      PROVE  Places[n] = Slot(i) /\ Values[n] = stack[i]
  BY <1>0, <1>1 DEF PlacesTold
<1>2. ASSUME NEW c \in 1 .. Len(closures), NEW j \in 1 .. Len(closures[c]), n = InClosure(c, j)
      PROVE  \/ \E i \in 1 .. Len(stack) : Places[n] = Slot(i) /\ Values[n] = stack[i]
             \/ \E u \in 1 .. Len(upvalues) : /\ upvalues[u].value = Self
                                              /\ Places[n] = Closed(u)
                                              /\ Values[n] = upvalues[u].closed
  <2>1. PICK u : u = closures[c][j]
    OBVIOUS
  <2>2. /\ u \in 1 .. Len(upvalues) /\ upvalues[u].value \in 0 .. Len(stack)
        /\ upvalues[u].value = Self => /\ Places[n] = Closed(u)
                                       /\ Values[n] = upvalues[u].closed
        /\ upvalues[u].value # Self => /\ Places[n] = Slot(upvalues[u].value)
                                       /\ Values[n] = stack[upvalues[u].value]
    BY <1>0, <1>2, <2>1 DEF PlacesTold
  <2>3. upvalues[u].value # Self => upvalues[u].value \in 1 .. Len(stack)
    BY <2>2 DEF Self
  <2> QED BY <2>2, <2>3
<1> QED BY <1>0, <1>1, <1>2 DEF NamesTold

\* The places of the same names change only with the upvalues' slots.
LEMMA PlacesKept ==
  ASSUME Names' = Names, UNCHANGED closures,
         \A u : upvalues'[u].value = upvalues[u].value
  PROVE  Places' = Places
<1>1. ASSUME NEW n \in Names
      PROVE  Location(n)' = Location(n)
  BY DEF Location, UpvalueOf
<1> QED BY <1>1 DEF Places

\* A slot assigned is the variable of all names that see it, and of no other.
LEMMA StackAssigned ==
  ASSUME IInv, IInv', NEW i \in 1 .. Len(stack), NEW v, stack' = [stack EXCEPT ![i] = v],
         UNCHANGED <<closures, upvalues>>
  PROVE  Lexical!Assign
<1>1. NamesTold /\ PlacesTold /\ NamesTold' /\ PlacesTold'
  BY NamesAreTold, PlacesAreTold, PTL
<1>2. DOMAIN stack = 1 .. Len(stack)
  BY StateFacts, LenProperties
<1>3. DOMAIN stack' = DOMAIN stack /\ \A j \in 1 .. Len(stack) : stack'[j] = IF j = i THEN v ELSE stack[j]
  BY <1>2
<1>4. Names' = Names
  BY <1>3 DEF Names
<1>5. Places' = Places
  BY <1>4, PlacesKept
<1> DEFINE n == Local(i)
<1>6. n \in Names /\ Places[n] = Slot(i)
  BY <1>1 DEF NamesTold, PlacesTold
<1>7. ASSUME NEW m \in Names
      PROVE  Values'[m] = IF Places[m] = Slot(i) THEN v ELSE Values[m]
  <2>1. PlacesSee /\ PlacesSee'
    BY PlacesSeen, PTL
  <2>2. \/ \E j \in 1 .. Len(stack) : Places[m] = Slot(j) /\ Values[m] = stack[j]
        \/ \E u \in 1 .. Len(upvalues) : /\ Places[m] = Closed(u)
                                         /\ Values[m] = upvalues[u].closed
    BY <2>1 DEF PlacesSee
  <2>3. \/ \E j \in 1 .. Len(stack) : Places[m] = Slot(j) /\ Values'[m] = stack'[j]
        \/ \E u \in 1 .. Len(upvalues) : /\ Places[m] = Closed(u)
                                         /\ Values'[m] = upvalues[u].closed
    <3>1. Len(stack') = Len(stack)
      BY StateFacts
    <3> QED BY <1>4, <1>5, <2>1, <3>1 DEF PlacesSee
  <2> QED BY <1>3, <2>2, <2>3, PlacesDiffer
<1> HIDE DEF n
<1>8. Values'[n] = v
  BY <1>6, <1>7
<1> QED BY <1>4, <1>5, <1>6, <1>7, <1>8, AssignStep

\* A closed upvalue assigned likewise.
LEMMA UpvalueAssigned ==
  ASSUME IInv, IInv', NEW u \in 1 .. Len(upvalues), NEW v, upvalues[u].value = Self,
         upvalues' = [upvalues EXCEPT ![u].closed = v], UNCHANGED <<stack, closures>>,
         NEW n \in Names, Places[n] = Closed(u)
  PROVE  Lexical!Assign
<1>1. upvalues \in Seq(Upvalue) /\ DOMAIN upvalues = 1 .. Len(upvalues) /\ upvalues[u] \in Upvalue
  BY StateFacts, LenProperties, ElementOfSeq
<1>2. PICK e : e = [upvalues[u] EXCEPT !.closed = v]
  OBVIOUS
<1>3. e.value = Self /\ e.closed = v
  <2>1. PICK r \in Upvalue : r = upvalues[u]
    BY <1>1
  <2>2. e = [r EXCEPT !.closed = v]
    BY <1>2, <2>1
  <2> QED BY <2>1, <2>2 DEF Upvalue
<1>4. upvalues' = [upvalues EXCEPT ![u] = e]
  BY <1>2
<1>5. \A w : upvalues'[w] = IF w = u THEN e ELSE upvalues[w]
  BY <1>1, <1>4
<1>6. \A w : upvalues'[w].value = upvalues[w].value
  BY <1>3, <1>5
<1>7. Names' = Names
  BY DEF Names
<1>8. Places' = Places
  BY <1>6, <1>7, PlacesKept
<1>9. ASSUME NEW m \in Names
      PROVE  Values'[m] = IF Places[m] = Closed(u) THEN v ELSE Values[m]
  <2>1. PlacesSee /\ PlacesSee'
    BY PlacesSeen, PTL
  <2>2. \/ \E j \in 1 .. Len(stack) : Places[m] = Slot(j) /\ Values[m] = stack[j]
        \/ \E w \in 1 .. Len(upvalues) : /\ Places[m] = Closed(w)
                                         /\ Values[m] = upvalues[w].closed
    BY <2>1 DEF PlacesSee
  <2>3. \/ \E j \in 1 .. Len(stack) : Places[m] = Slot(j) /\ Values'[m] = stack[j]
        \/ \E w \in 1 .. Len(upvalues') : /\ Places[m] = Closed(w)
                                          /\ Values'[m] = upvalues'[w].closed
    BY <1>7, <1>8, <2>1 DEF PlacesSee
  <2> QED BY <1>3, <1>5, <2>2, <2>3, PlacesDiffer
<1>10. Values'[n] = v
  BY <1>9
<1> QED BY <1>7, <1>8, <1>9, <1>10, AssignStep

\* The upvalue w, where n's variable is, becomes one more of the last closure.
LEMMA UpvalueCaptured ==
  ASSUME IInv, IInv', NEW w \in Nat, AddCapture(w), Len(closures) > 0, UNCHANGED stack,
         \A u \in 1 .. Len(upvalues) : upvalues'[u] = upvalues[u],
         NEW n \in Names,
         IF upvalues'[w].value = Self THEN Places[n] = Closed(w) /\ w \in 1 .. Len(upvalues)
         ELSE Places[n] = Slot(upvalues'[w].value)
  PROVE  Lexical!Capture
<1> DEFINE c == Len(closures)
           j == Len(closures[c]) + 1
           new == InClosure(c, j)
<1>1. /\ NamesTold /\ PlacesTold /\ PlacesSee /\ NamesTold' /\ PlacesTold' /\ PlacesSee'
  BY NamesAreTold, PlacesAreTold, PlacesSeen, PTL
<1>2. c \in 1 .. Len(closures) /\ closures[c] \in Seq(1 .. Len(upvalues))
  BY StateFacts, ElementOfSeq, SMTT(20)
<1>3. PICK e : e = Append(closures[c], w)
  OBVIOUS
<1>4. /\ Len(closures[c]) \in Nat /\ Len(e) = j /\ e[j] = w
      /\ \A i \in 1 .. Len(closures[c]) : e[i] = closures[c][i]
  <2>1. closures[c] \in Seq(Nat)
    <3>1. 1 .. Len(upvalues) \subseteq Nat
      OBVIOUS
    <3> QED BY <1>2, <3>1, SeqMonotonic
  <2> QED BY <1>3, <2>1, AppendProperties
<1>5. closures' = [closures EXCEPT ![c] = e]
  BY <1>3 DEF AddCapture
<1>6. /\ Len(closures') = Len(closures) /\ closures'[c] = e
      /\ \A d \in 1 .. Len(closures) : d # c => closures'[d] = closures[d]
  BY <1>2, <1>5, StateFacts, SMTT(20)
<1> HIDE DEF c
<1>7. \A i : i \in 1 .. Len(e) <=> i \in 1 .. Len(closures[c]) \/ i = j
  BY <1>4
<1> HIDE DEF j
<1>8. /\ \A d, i : InClosure(d, i) \in Names' <=> InClosure(d, i) \in Names \/ (d = c /\ i = j)
      /\ InClosure(c, j) \notin Names
  <2>1. \A d, i : InClosure(d, i) \in Names' <=> d \in 1 .. Len(closures) /\ i \in 1 .. Len(closures'[d])
    BY <1>1, <1>6 DEF NamesTold
  <2>2. \A d, i : InClosure(d, i) \in Names <=> d \in 1 .. Len(closures) /\ i \in 1 .. Len(closures[d])
    BY <1>1 DEF NamesTold
  <2>3. j \notin 1 .. Len(closures[c])
    BY <1>4 DEF j
  <2>4. \A d, i : d # c => (InClosure(d, i) \in Names' <=> InClosure(d, i) \in Names)
    BY <1>6, <2>1, <2>2
  <2>5. \A i : InClosure(c, i) \in Names' <=> InClosure(c, i) \in Names \/ i = j
    BY <1>2, <1>6, <1>7, <2>1, <2>2
  <2> QED BY <2>2, <2>3, <2>4, <2>5
<1>9. \A i : Local(i) \in Names' <=> Local(i) \in Names
  BY <1>1 DEF NamesTold
<1>10. Names' = Names \cup {new}
  <2>1. ASSUME NEW m \in Names'
        PROVE  m \in Names \cup {new}
    <3>1. (\E i : m = Local(i)) \/ (\E d, i : m = InClosure(d, i))
      BY <1>1 DEF NamesTold
    <3> QED BY <1>8, <1>9, <3>1
  <2>2. ASSUME NEW m \in Names
        PROVE  m \in Names'
    <3>1. (\E i : m = Local(i)) \/ (\E d, i : m = InClosure(d, i))
      BY <1>1 DEF NamesTold
    <3> QED BY <1>8, <1>9, <3>1
  <2> QED BY <1>8, <2>1, <2>2
\* The old names are where they were,
<1>11. ASSUME NEW m \in Names
       PROVE  Places'[m] = Places[m] /\ Values'[m] = Values[m]
  <2>1. ASSUME NEW i \in 1 .. Len(stack), m = Local(i)
        PROVE  Places'[m] = Places[m] /\ Values'[m] = Values[m]
    BY <1>1, <2>1 DEF PlacesTold
  <2>2. ASSUME NEW d \in 1 .. Len(closures), NEW i \in 1 .. Len(closures[d]), m = InClosure(d, i)
        PROVE  Places'[m] = Places[m] /\ Values'[m] = Values[m]
    <3>1. PICK u : u = closures[d][i]
      OBVIOUS
    <3>2. d \in 1 .. Len(closures') /\ i \in 1 .. Len(closures'[d]) /\ closures'[d][i] = u
      BY <1>4, <1>6, <1>7, <3>1
    <3>3. /\ u \in 1 .. Len(upvalues)
          /\ upvalues[u].value = Self => /\ Places[m] = Closed(u)
                                         /\ Values[m] = upvalues[u].closed
          /\ upvalues[u].value # Self => /\ Places[m] = Slot(upvalues[u].value)
                                         /\ Values[m] = stack[upvalues[u].value]
      BY <1>1, <2>2, <3>1 DEF PlacesTold
    <3>4. /\ upvalues'[u].value = Self => /\ Places'[m] = Closed(u)
                                          /\ Values'[m] = upvalues'[u].closed
          /\ upvalues'[u].value # Self => /\ Places'[m] = Slot(upvalues'[u].value)
                                          /\ Values'[m] = stack'[upvalues'[u].value]
      BY <1>1, <2>2, <3>2 DEF PlacesTold
    <3> QED BY <3>3, <3>4
  <2> QED BY <1>1, <2>1, <2>2 DEF NamesTold
\* and the new one is where n is.
<1>12. Places'[new] = Places[n] /\ Values'[new] = Values[n]
  <2>1. c \in 1 .. Len(closures') /\ j \in 1 .. Len(closures'[c]) /\ closures'[c][j] = w
    BY <1>2, <1>4, <1>6, <1>7
  <2>2. /\ upvalues'[w].value = Self => /\ Places'[new] = Closed(w)
                                        /\ Values'[new] = upvalues'[w].closed
        /\ upvalues'[w].value # Self => /\ Places'[new] = Slot(upvalues'[w].value)
                                        /\ Values'[new] = stack'[upvalues'[w].value]
    BY <1>1, <2>1 DEF PlacesTold
  <2>3. \/ \E i \in 1 .. Len(stack) : Places[n] = Slot(i) /\ Values[n] = stack[i]
        \/ \E u \in 1 .. Len(upvalues) : Places[n] = Closed(u) /\ Values[n] = upvalues[u].closed
    BY <1>1 DEF PlacesSee
  <2> QED BY <2>2, <2>3, PlacesDiffer
<1> QED BY <1>8, <1>10, <1>11, <1>12, CaptureStep

\* The three ways in which locals come and go: no upvalue's slot is given up,
LEMMA ShortenStep ==
  ASSUME IInv, IInv', NEW k \in 0 .. Len(stack), k <= Len(stack'),
         \A i \in 1 .. k : stack'[i] = stack[i], UNCHANGED <<closures, upvalues>>,
         \A u \in 1 .. Len(upvalues) : upvalues[u].value <= k
  PROVE  Lexical!Rescope
<1>1. \A u \in 1 .. Len(upvalues) : ~ (upvalues[u].value > k)
  <2>1. ASSUME NEW u \in 1 .. Len(upvalues)
        PROVE  ~ (upvalues[u].value > k)
    <3>1. upvalues[u].value \in Nat /\ upvalues[u].value <= k /\ k \in Nat
      BY StateFacts, ListedFacts
    <3> QED BY <3>1
  <2> QED BY <2>1
<1>2. Len(closures) \in Nat /\ \A c \in 1 .. Len(closures) : ~ (c > Len(closures))
  BY StateFacts
<1>3. Rescoped(k)
  BY <1>1, <1>2 DEF Rescoped
<1> QED BY <1>3, RescopeStep, StateFacts

\* none is given up at all and the function being made is the last closure,
LEMMA ExtendStep ==
  ASSUME IInv, IInv', Len(stack) <= Len(stack'), UNCHANGED upvalues,
         \A i \in 1 .. Len(stack) : stack'[i] = stack[i],
         closures' = closures \/ closures' = Append(closures, <<>>)
  PROVE  Lexical!Rescope
<1>1. \A u \in 1 .. Len(upvalues) : upvalues[u].value <= Len(stack) /\ ~ (upvalues[u].value > Len(stack))
  <2>1. ASSUME NEW u \in 1 .. Len(upvalues)
        PROVE  upvalues[u].value <= Len(stack) /\ ~ (upvalues[u].value > Len(stack))
    <3>1. upvalues[u].value \in Nat /\ upvalues[u].value <= Len(stack) /\ Len(stack) \in Nat
      BY StateFacts, ListedFacts
    <3> QED BY <3>1
  <2> QED BY <2>1
<1>2. /\ Len(closures) <= Len(closures')
      /\ \A c \in 1 .. Len(closures) : closures'[c] = closures[c]
      /\ \A c \in 1 .. Len(closures') : c > Len(closures) => closures'[c] = <<>>
  <2>1. CASE closures' = closures
    BY <2>1, StateFacts
  <2>2. CASE closures' = Append(closures, <<>>)
    <3>1. PICK S : S = Seq(1 .. Len(upvalues))
      OBVIOUS
    <3>2. closures \in Seq(S) /\ <<>> \in S /\ Len(closures) \in Nat
      BY <3>1, StateFacts, EmptySeq
    <3>3. /\ Len(closures') = Len(closures) + 1 /\ closures'[Len(closures) + 1] = <<>>
          /\ \A c \in 1 .. Len(closures) : closures'[c] = closures[c]
      BY <2>2, <3>2, AppendProperties
    <3> QED BY <3>2, <3>3
  <2> QED BY <2>1, <2>2
<1>3. Len(stack) \in 0 .. Len(stack) /\ Len(stack) \in Nat
  BY StateFacts
<1>4. Rescoped(Len(stack))
  BY <1>1, <1>2, <1>3 DEF Rescoped
<1> QED BY <1>3, <1>4, RescopeStep

\* and the upvalues of the slots given up are closed.
LEMMA CloseStep ==
  ASSUME IInv, IInv', NEW last \in Nat \ {0}, last <= Len(stack), CloseUpvalues(last),
         UNCHANGED closures, last - 1 <= Len(stack'),
         \A i \in 1 .. last - 1 : stack'[i] = stack[i]
  PROVE  Lexical!Rescope
<1>1. Len(stack) \in Nat /\ Len(stack') \in Nat /\ stack \in Seq(Slots)
      /\ Listed(openUpvalues, upvalues, Len(stack))
  <2>1. LengthsTold /\ LengthsTold'
    BY LengthsAreTold, PTL
  <2> QED BY <2>1, StateFacts DEF LengthsTold
<1>2. PICK len2 \in Nat : len2 = Len(stack')
  BY <1>1
<1>3. /\ Len(upvalues') = Len(upvalues)
      /\ \A u \in 1 .. Len(upvalues) :
           IF upvalues[u].value >= last
           THEN upvalues'[u].value = Self /\ upvalues'[u].closed = stack[upvalues[u].value]
           ELSE upvalues'[u] = upvalues[u]
  <2>1. len2 >= last - 1
    BY <1>2
  <2> QED BY <1>1, <2>1, ClosingFacts
<1>4. PICK k \in Nat : k = last - 1
  OBVIOUS
<1>5. \A u \in 1 .. Len(upvalues) : upvalues[u].value >= last <=> upvalues[u].value > k
  <2>1. ASSUME NEW u \in 1 .. Len(upvalues)
        PROVE  upvalues[u].value >= last <=> upvalues[u].value > k
    <3>1. upvalues[u].value \in Nat
      BY StateFacts, ListedFacts
    <3> QED BY <1>4, <3>1
  <2> QED BY <2>1
<1>6. Len(closures) \in Nat /\ \A c \in 1 .. Len(closures) : ~ (c > Len(closures))
  BY StateFacts
<1>7. k \in 0 .. Len(stack) /\ k <= Len(stack') /\ \A i \in 1 .. k : stack'[i] = stack[i]
  BY <1>1, <1>4
<1>8. Rescoped(k)
  BY <1>3, <1>5, <1>6, <1>7 DEF Rescoped
<1> QED BY <1>8, RescopeStep
----------------------------------------------------------------------------
(* Every action is a step of LexicalSpec, or none. *)

\* The stack grows by one value.
LEMMA PushStep ==
  ASSUME IInv, IInv', NEW v \in Slots, stack' = Append(stack, v), UNCHANGED upvalues,
         closures' = closures \/ closures' = Append(closures, <<>>)
  PROVE  Lexical!Rescope
<1>1. Len(stack') = Len(stack) + 1 /\ \A i \in 1 .. Len(stack) : stack'[i] = stack[i]
  BY StateFacts, AppendProperties
<1>2. Len(stack) <= Len(stack')
  BY <1>1, StateFacts
<1> QED BY <1>1, <1>2, ExtendStep

\* The steps of Calls, one by one, as steps of LexicalSpec.
LEMMA InterpretStep == ASSUME IInv, IInv', Interpret PROVE Lexical!Rescope
<1>1. frames = <<>> /\ Len(stack) = 0 /\ UNCHANGED <<closures, upvalues>>
  BY StateFacts, EmptySeq DEF Interpret, Nested, FramesIn
<1>2. Len(stack') \in Nat
  <2>1. LengthsTold'
    BY LengthsAreTold, PTL
  <2> QED BY <2>1 DEF LengthsTold
<1>3. Len(stack) <= Len(stack') /\ \A i \in 1 .. Len(stack) : stack'[i] = stack[i]
  BY <1>1, <1>2
<1> QED BY <1>1, <1>3, ExtendStep

\* Arguments are new variables.
LEMMA CallStep ==
  ASSUME IInv, IInv', NEW args \in Arguments, stack' = stack \o <<Callee>> \o args,
         UNCHANGED <<closures, upvalues>>
  PROVE  Lexical!Rescope
<1>1. Len(stack') \in Nat /\ Len(stack') > Len(stack) /\ Len(stack) \in Nat
      /\ \A i \in 1 .. Len(stack) : stack'[i] = stack[i]
  BY StateFacts, CalledFacts
<1>2. Len(stack) <= Len(stack')
  BY <1>1
<1> QED BY <1>1, <1>2, ExtendStep

\* The callee and argument of a native are too.
LEMMA CallNativeStep == ASSUME IInv, IInv', CallNative PROVE Lexical!Rescope
<1>1. Callee \in Slots
  BY DEF Slots
<1>2. stack' = stack \o <<Callee, Callee>> /\ UNCHANGED <<closures, upvalues>>
  BY DEF CallNative
<1>3. Len(stack') = Len(stack) + 2 /\ \A i \in 1 .. Len(stack) : stack'[i] = stack[i]
  BY <1>1, <1>2, StateFacts, TwoMore
<1>4. Len(stack) <= Len(stack')
  BY <1>3, StateFacts
<1> QED BY <1>2, <1>3, <1>4, ExtendStep

\* The native's callee and argument are no variables of a closure.
LEMMA NativeReturnStep ==
  ASSUME IInv, IInv', NEW v \in Value, NativeReturn(v)
  PROVE  Lexical!Rescope
<1> DEFINE base == natives[Len(natives)].base
<1>1. /\ ~ NoneRuns(natives) /\ Len(natives) \in 1 .. Len(natives)
      /\ natives[Len(natives)].breakFrame = 0
      /\ UNCHANGED <<closures, upvalues>> /\ stack' = Append(SubSeq(stack, 1, base), v)
  BY StateFacts DEF NativeReturn, Top, NoneRuns
<1>2. base \in 0 .. Len(stack) /\ base \in Nat
  <2>1. base + 2 <= Len(stack) /\ base \in Nat
    BY <1>1, StateFacts, NestedNativeReturn, NestedFacts
  <2> QED BY <2>1, StateFacts
<1> HIDE DEF base
<1>3. Len(stack') = base + 1 /\ \A i \in 1 .. base : stack'[i] = stack[i]
  <2>1. PICK s : s = SubSeq(stack, 1, base)
    OBVIOUS
  <2>2. s \in Seq(Slots) /\ Len(s) = base /\ \A i \in 1 .. base : s[i] = stack[i]
    BY <1>2, <2>1, StateFacts, PrefixFacts
  <2>3. v \in Slots
    BY DEF Slots
  <2> QED BY <1>1, <2>1, <2>2, <2>3, AppendProperties
<1>4. ASSUME NEW u \in 1 .. Len(upvalues)
      PROVE  upvalues[u].value <= base
  <2>1. upvalues[u].value \in Nat /\ upvalues[u].value <= Len(stack) /\ Len(stack) \in Nat
    BY StateFacts, ListedFacts
  <2>2. upvalues[u].value <= base \/ Len(stack) < upvalues[u].value
    BY <1>1, StateFacts DEF OutsideNatives, base
  <2> QED BY <2>1, <2>2
<1>5. base <= Len(stack')
  BY <1>2, <1>3
<1> QED BY <1>1, <1>2, <1>3, <1>4, <1>5, ShortenStep

\* A local goes out of scope; nothing else can see it.
LEMMA EndScopeStep == ASSUME IInv, IInv', EndScope PROVE Lexical!Rescope
<1>1. /\ Len(frames) > 0 /\ Locals # {} /\ stack' = Front(stack)
      /\ ~ IsCaptured(Len(stack)) /\ UNCHANGED <<closures, upvalues>>
  BY StateFacts DEF EndScope
<1>2. stack # <<>>
  BY <1>1, StateFacts, LocalFacts, EmptySeq
<1>3. PICK k : k = Len(stack) - 1
  OBVIOUS
<1>4. /\ k \in 0 .. Len(stack) /\ Len(stack') = k /\ k <= Len(stack')
      /\ \A i \in 1 .. k : stack'[i] = stack[i]
  <2>1. /\ Len(stack) \in Nat \ {0} /\ Len(Front(stack)) = k
        /\ \A i \in 1 .. k : Front(stack)[i] = stack[i]
    BY <1>2, <1>3, StateFacts, TopFacts
  <2> QED BY <1>1, <1>3, <2>1
<1>5. ASSUME NEW u \in 1 .. Len(upvalues)
      PROVE  upvalues[u].value <= k
  <2>1. upvalues[u].value \in 0 .. Len(stack)
    BY StateFacts, ListedFacts
  <2>2. upvalues[u].value # Len(stack)
    BY <1>1, StateFacts, LenProperties DEF IsCaptured
  <2> QED BY <1>3, <2>1, <2>2, StateFacts
<1> QED BY <1>1, <1>4, <1>5, ShortenStep

\* One that closures see goes on without its slot.
LEMMA EndCapturedScopeStep == ASSUME IInv, IInv', EndCapturedScope PROVE Lexical!Rescope
<1>1. /\ Len(frames) > 0 /\ Locals # {} /\ stack' = Front(stack)
      /\ CloseUpvalues(Len(stack)) /\ UNCHANGED closures
  BY StateFacts DEF EndCapturedScope
<1>2. stack # <<>>
  BY <1>1, StateFacts, LocalFacts, EmptySeq
<1>3. PICK last : last = Len(stack)
  OBVIOUS
<1>4. /\ last \in Nat \ {0} /\ Len(stack') = last - 1
      /\ \A i \in 1 .. last - 1 : stack'[i] = stack[i]
  BY <1>1, <1>2, <1>3, StateFacts, TopFacts
<1>5. last <= Len(stack) /\ last - 1 <= Len(stack') /\ CloseUpvalues(last)
  BY <1>1, <1>3, <1>4
<1> QED BY <1>1, <1>4, <1>5, CloseStep

\* All locals of a frame go out of scope at once.
LEMMA ReturnStep == ASSUME IInv, IInv', NEW v \in Value, Return(v) PROVE Lexical!Rescope
<1> DEFINE n == Len(frames) - 1
           top == natives[Len(natives)]
<1>1. PICK slots : slots = frames[Len(frames)].slots
  OBVIOUS
<1>2. /\ Len(frames) > 0 /\ NoneRuns(natives) /\ Len(frames) \in Nat /\ n \in Nat
      /\ CloseUpvalues(slots) /\ UNCHANGED closures
  BY <1>1, StateFacts DEF Return, Top
<1>3. LeavesRun(n) <=> Len(natives) > 0 /\ top.breakFrame = n
  BY StateFacts, EmptySeq DEF LeavesRun, Top
<1>4. LeavesRun(n) => n # 0
  BY <1>2, <1>3 DEF NoneRuns
<1>5. /\ LeavesRun(n) => stack' = SubSeq(stack, 1, top.stackTop)
      /\ (~ LeavesRun(n) /\ n = 0) => stack' = <<>>
      /\ (~ LeavesRun(n) /\ n # 0) => stack' = Append(SubSeq(stack, 1, slots - 1), v)
  BY <1>1, <1>4 DEF Return, Top
<1>6. slots \in Nat \ {0} /\ slots <= Len(stack) /\ Len(stack) \in Nat
  BY <1>1, <1>2, StateFacts, LocalFacts, TopFrameFacts
<1>7. slots - 1 <= Len(stack') /\ \A i \in 1 .. slots - 1 : stack'[i] = stack[i]
  <2>1. CASE LeavesRun(n)
    <3>1. top.stackTop + 1 = slots /\ top.stackTop \in Nat
      <4>1. Len(natives) \in 1 .. Len(natives) /\ top.breakFrame = n /\ top.breakFrame # 0
        <5>1. PICK m \in Nat : m = Len(natives)
          BY StateFacts
        <5>2. m > 0 /\ m \in 1 .. m
          BY <1>3, <2>1, <5>1
        <5> QED BY <1>3, <1>4, <2>1, <5>1, <5>2
      <4>2. Waits(top, frames) /\ top.stackTop \in Nat
        BY <4>1, StateFacts, NativeFacts, NestedFacts
      <4>3. n + 1 = Len(frames)
        BY <1>2
      <4> QED BY <1>1, <4>1, <4>2, <4>3 DEF Waits
    <3>2. PICK m \in Nat : m = top.stackTop
      BY <3>1
    <3>3. m \in 0 .. Len(stack) /\ m = slots - 1 /\ stack' = SubSeq(stack, 1, m)
      BY <1>5, <1>6, <2>1, <3>1, <3>2
    <3>4. Len(stack') = m /\ \A i \in 1 .. m : stack'[i] = stack[i]
      BY <3>3, StateFacts, PrefixFacts
    <3> QED BY <3>3, <3>4
  <2>2. CASE ~ LeavesRun(n) /\ n = 0
    <3>1. stack' = <<>> /\ Len(frames) = 1
      BY <1>2, <1>5, <2>2
    <3>2. slots = 1
      BY <1>1, <1>2, <3>1, StateFacts, NestedScript
    <3> QED BY <3>1, <3>2, EmptySeq
  <2>3. CASE ~ LeavesRun(n) /\ n # 0
    <3>1. PICK m : m = slots - 1
      OBVIOUS
    <3>2. PICK s : s = SubSeq(stack, 1, m)
      OBVIOUS
    <3>3. m \in 0 .. Len(stack) /\ v \in Slots /\ stack' = Append(s, v)
      BY <1>5, <1>6, <2>3, <3>1, <3>2 DEF Slots
    <3>4. s \in Seq(Slots) /\ Len(s) = m /\ \A i \in 1 .. m : s[i] = stack[i]
      BY <3>2, <3>3, StateFacts, PrefixFacts
    <3>5. Len(stack') = m + 1 /\ \A i \in 1 .. m : stack'[i] = s[i]
      BY <3>3, <3>4, AppendProperties
    <3> QED BY <3>1, <3>3, <3>4, <3>5
  <2> QED BY <2>1, <2>2, <2>3
<1> QED BY <1>2, <1>6, <1>7, CloseStep

\* An assignment to a local is seen through every capture of it.
LEMMA SetLocalStep ==
  ASSUME IInv, IInv', NEW v \in Value, NEW i \in Locals, SetLocal(i, v)
  PROVE  Lexical!Assign
<1>1. /\ stack' = [stack EXCEPT ![i] = v] /\ Len(frames) > 0
      /\ UNCHANGED <<closures, upvalues>>
  BY StateFacts DEF SetLocal
<1>2. i \in 1 .. Len(stack)
  BY <1>1, LocalFacts
<1> QED BY <1>1, <1>2, StackAssigned

\* The running function's captured variables have names.
LEMMA CapturedNamed ==
  ASSUME IInv, NEW j \in DOMAIN Captured
  PROVE  \E n \in Names :
           /\ Captured[j] \in 1 .. Len(upvalues)
           /\ Places[n] = IF upvalues[Captured[j]].value = Self THEN Closed(Captured[j])
                          ELSE Slot(upvalues[Captured[j]].value)
<1>1. frames # <<>> /\ Top(frames).closure \notin {Script, Synthetic}
  <2>1. Captured # <<>>
    BY LenProperties
  <2> QED BY <2>1 DEF Captured
<1>2. PICK c : c = Top(frames).closure
  OBVIOUS
<1>3. Captured = closures[c]
  BY <1>1, <1>2 DEF Captured
<1>4. c \in 1 .. Len(closures)
  <2>1. PICK S : S = [closure : {Script, Synthetic} \cup 1 .. Len(closures), slots : Nat]
    OBVIOUS
  <2>2. frames \in Seq(S)
    BY <2>1, StateFacts DEF Typed
  <2>3. Top(frames) \in S
    BY <1>1, <2>2, TopFacts
  <2> QED BY <1>1, <1>2, <2>1, <2>3
<1>5. j \in 1 .. Len(closures[c])
  BY <1>3, CapturedFacts, LenProperties
<1>6. PICK u : u = closures[c][j]
  OBVIOUS
<1>7. /\ u \in 1 .. Len(upvalues)
      /\ upvalues[u].value = Self => Places[InClosure(c, j)] = Closed(u)
      /\ upvalues[u].value # Self => Places[InClosure(c, j)] = Slot(upvalues[u].value)
  BY <1>4, <1>5, <1>6, PlacesAreTold DEF PlacesTold
<1>8. InClosure(c, j) \in Names
  BY <1>4, <1>5, NamesAreTold DEF NamesTold
<1> QED BY <1>3, <1>6, <1>7, <1>8

\* An assignment through a capture is seen in the local, while it is one.
LEMMA SetUpvalueStep ==
  ASSUME IInv, IInv', NEW v \in Value, NEW j \in DOMAIN Captured, SetUpvalue(Captured[j], v)
  PROVE  Lexical!Assign
<1>1. PICK u : u = Captured[j]
  OBVIOUS
<1>2. PICK n \in Names :
        /\ u \in 1 .. Len(upvalues)
        /\ Places[n] = IF upvalues[u].value = Self THEN Closed(u) ELSE Slot(upvalues[u].value)
  BY <1>1, CapturedNamed
<1>3. CASE upvalues[u].value = Self
  <2>1. upvalues' = [upvalues EXCEPT ![u].closed = v] /\ UNCHANGED <<stack, closures>>
    BY <1>1, <1>3 DEF SetUpvalue
  <2> QED BY <1>2, <1>3, <2>1, UpvalueAssigned
<1>4. CASE upvalues[u].value # Self
  <2>1. PICK i : i = upvalues[u].value
    OBVIOUS
  <2>2. stack' = [stack EXCEPT ![i] = v] /\ UNCHANGED <<closures, upvalues>>
    BY <1>1, <1>4, <2>1 DEF SetUpvalue
  <2>3. i \in 1 .. Len(stack)
    <3>1. i \in 0 .. Len(stack) /\ i # 0
      BY <1>2, <1>4, <2>1, StateFacts, ListedFacts DEF Self
    <3> QED BY <3>1, StateFacts
  <2> QED BY <2>2, <2>3, StackAssigned
<1> QED BY <1>3, <1>4

\* A capture of a capture sees the same variable.
LEMMA CaptureUpvalueStep ==
  ASSUME IInv, IInv', NEW j \in DOMAIN Captured, CaptureUpvalue(Captured[j])
  PROVE  Lexical!Capture
<1>1. PICK w : w = Captured[j]
  OBVIOUS
<1>2. PICK n \in Names :
        /\ w \in 1 .. Len(upvalues)
        /\ Places[n] = IF upvalues[w].value = Self THEN Closed(w) ELSE Slot(upvalues[w].value)
  BY <1>1, CapturedNamed
<1>3. AddCapture(w) /\ Len(closures) > 0 /\ UNCHANGED <<stack, upvalues>>
  BY <1>1, StateFacts DEF CaptureUpvalue, MayCapture, CapturesInFrame
<1>4. w \in Nat /\ \A u \in 1 .. Len(upvalues) : upvalues'[u] = upvalues[u]
  BY <1>2, <1>3
<1>5. IF upvalues'[w].value = Self THEN Places[n] = Closed(w) /\ w \in 1 .. Len(upvalues)
      ELSE Places[n] = Slot(upvalues'[w].value)
  BY <1>2, <1>3
<1> QED BY <1>3, <1>4, <1>5, UpvalueCaptured

\* A capture sees the variable of the local.
LEMMA CaptureLocalStep ==
  ASSUME IInv, IInv', NEW local \in Locals, CaptureLocal(local)
  PROVE  Lexical!Capture
<1>1. PICK k : k = Place(local)
  OBVIOUS
<1>2. PICK new : new = Len(upvalues) + 1
  OBVIOUS
<1>3. /\ Len(frames) > 0 /\ Len(closures) > 0 /\ UNCHANGED stack
      /\ IF IsOpen(local, k)
         THEN AddCapture(openUpvalues[k]) /\ UNCHANGED upvalues
         ELSE /\ AddCapture(new)
              /\ upvalues' = Append(upvalues, [value |-> local, closed |-> Callee])
  BY <1>1, <1>2, StateFacts DEF CaptureLocal, MayCapture, CapturesInFrame
<1>4. local \in 1 .. Len(stack) /\ local # Self
  BY <1>3, StateFacts, LocalFacts DEF Self
<1>5. PICK n \in Names : Places[n] = Slot(local)
  <2>1. Local(local) \in Names /\ Places[Local(local)] = Slot(local)
    BY <1>4, NamesAreTold, PlacesAreTold DEF NamesTold, PlacesTold
  <2> QED BY <2>1
<1>6. CASE IsOpen(local, k)
  <2>1. PICK w : w = openUpvalues[k]
    OBVIOUS
  <2>2. w \in 1 .. Len(upvalues) /\ upvalues[w].value = local
    <3>1. k \in 1 .. Len(openUpvalues)
      <4>1. k \in 1 .. Len(openUpvalues) + 1
        BY <1>1, <1>4, StateFacts, PlaceFacts
      <4>2. k <= Len(openUpvalues)
        BY <1>6 DEF IsOpen
      <4> QED BY <4>1, <4>2, StateFacts
    <3> QED BY <1>6, <2>1, <3>1, StateFacts, ElementOfSeq DEF IsOpen
  <2>3. AddCapture(w) /\ UNCHANGED upvalues
    BY <1>3, <1>6, <2>1
  <2>4. w \in Nat /\ \A u \in 1 .. Len(upvalues) : upvalues'[u] = upvalues[u]
    BY <2>2, <2>3
  <2>5. IF upvalues'[w].value = Self THEN Places[n] = Closed(w) /\ w \in 1 .. Len(upvalues)
        ELSE Places[n] = Slot(upvalues'[w].value)
    BY <1>4, <1>5, <2>2, <2>3
  <2> QED BY <1>3, <2>3, <2>4, <2>5, UpvalueCaptured
<1>7. CASE ~ IsOpen(local, k)
  <2>1. PICK e : e = [value |-> local, closed |-> Callee]
    OBVIOUS
  <2>2. e \in Upvalue /\ e.value = local
    BY <1>4, <2>1, StateFacts DEF Upvalue, Slots
  <2>3. AddCapture(new) /\ upvalues' = Append(upvalues, e)
    BY <1>3, <1>7, <2>1
  <2>4. /\ new \in Nat /\ upvalues'[new] = e
        /\ \A u \in 1 .. Len(upvalues) : upvalues'[u] = upvalues[u]
    BY <1>2, <2>2, <2>3, StateFacts, AppendProperties
  <2>5. IF upvalues'[new].value = Self THEN Places[n] = Closed(new) /\ new \in 1 .. Len(upvalues)
        ELSE Places[n] = Slot(upvalues'[new].value)
    BY <1>4, <1>5, <2>2, <2>4
  <2> QED BY <1>3, <2>3, <2>4, <2>5, UpvalueCaptured
<1> QED BY <1>6, <1>7

\* What is not in stack, closures and upvalues, no name sees.
LEMMA NothingSeen ==
  ASSUME UNCHANGED <<stack, closures, upvalues>>
  PROVE  Values' = Values /\ Aliases' = Aliases
  BY DEF Values, Aliases, Names, Sees, Location, UpvalueOf

\* Every step is one of LexicalSpec or changes nothing that a program can see.
LEMMA StepIsLexical ==
  ASSUME IInv, IInv', [Next]_vars
  PROVE  [Lexical!Assign \/ Lexical!Rescope \/ Lexical!Capture]_<<Values, Aliases>>
<1>0. Callee \in Slots /\ Value \subseteq Slots
  BY DEF Slots
<1>1. CASE Interpret
  BY <1>1, InterpretStep
<1>2. ASSUME NEW v \in Value, Push(v) PROVE Lexical!Rescope
  BY <1>0, <1>2, PushStep DEF Push
<1>3. ASSUME NEW v \in Value, NEW i \in Locals, SetLocal(i, v) PROVE Lexical!Assign
  BY <1>3, SetLocalStep
<1>4. ASSUME NEW v \in Value, NEW j \in DOMAIN Captured, SetUpvalue(Captured[j], v)
      PROVE  Lexical!Assign
  BY <1>4, SetUpvalueStep
<1>5. ASSUME NEW v \in Value, NativeReturn(v) PROVE Lexical!Rescope
  BY <1>5, NativeReturnStep
<1>6. ASSUME NEW v \in Value, Return(v) PROVE Lexical!Rescope
  BY <1>6, ReturnStep
<1>7. CASE NewClosure
  <2>1. Lexical!Rescope
    BY <1>0, <1>7, PushStep DEF NewClosure
  <2> QED BY <2>1
<1>8. CASE ClosureDone
  BY <1>8, NothingSeen DEF ClosureDone
<1>9. ASSUME NEW i \in Locals, CaptureLocal(i) PROVE Lexical!Capture
  BY <1>9, CaptureLocalStep
<1>10. ASSUME NEW j \in DOMAIN Captured, CaptureUpvalue(Captured[j]) PROVE Lexical!Capture
  BY <1>10, CaptureUpvalueStep
<1>11. CASE EndCapturedScope
  BY <1>11, EndCapturedScopeStep
<1>12. CASE EndScope
  BY <1>12, EndScopeStep
<1>13. ASSUME NEW c \in Callable, NEW args \in Arguments, Call(c, args) PROVE Lexical!Rescope
  BY <1>13, CallStep DEF Call
<1>14. ASSUME NEW c \in Callable, NEW args \in Arguments, CallFunction(c, args)
       PROVE  Lexical!Rescope
  BY <1>14, CallStep DEF CallFunction
<1>15. CASE CallNative
  BY <1>15, CallNativeStep
<1>16. CASE UNCHANGED vars
  BY <1>16, NothingSeen DEF vars
<1> QED BY <1>1, <1>2, <1>3, <1>4, <1>5, <1>6, <1>7, <1>8, <1>9, <1>10, <1>11, <1>12,
           <1>13, <1>14, <1>15, <1>16 DEF Next

\* vm.c, above captureUpvalue: "multiple closures closing over the same variable
\* actually see the same variable".  Through stack slots, open upvalues and
\* closed ones, locals and closures behave as lexical scoping has it.
THEOREM LexicalScoping == Spec => ImplementsLexical
<1>1. Init => Lexical!Init
  <2> SUFFICES ASSUME Init PROVE Lexical!Init
    OBVIOUS
  <2>1. Names = {}
    BY DEF Init, Names
  <2>2. DOMAIN Values = {} /\ DOMAIN Aliases = {}
    BY <2>1 DEF Values, Aliases
  <2> QED BY <2>2 DEF Lexical!Init, Lexical!Names
<1>2. IInv /\ IInv' /\ [Next]_vars =>
        [Lexical!Assign \/ Lexical!Rescope \/ Lexical!Capture]_<<Values, Aliases>>
  BY StepIsLexical
<1> QED BY <1>1, <1>2, Invariance, PTL DEF Spec, ImplementsLexical, Lexical!Spec
=============================================================================
