---------------------------- MODULE MemoryProofs ----------------------------
(***************************************************************************)
(* Proofs about Memory, for a heap of any size and any program: the state  *)
(* is well typed and no pointer dangles.                                   *)
(*                                                                         *)
(* The invariant that carries the induction says where a routine's C       *)
(* locals sit on the VM stack at every allocation point (Shape), that      *)
(* roots, pool and fields lead to allocated objects only (Closed), and     *)
(* what the colours mean while a collection runs (Colours): roots are      *)
(* dark, a dark object that is no longer gray refers to dark objects, and  *)
(* the pool holds dark strings once it has been pruned.                    *)
(***************************************************************************)
EXTENDS Memory, TLAPS, SequenceTheorems

Depth == Len(stack)

Shape ==
  /\ pc = "object" => caller = "newInstance" /\ Depth >= 1 /\ Top = arg
  /\ pc = "setClass" => caller = "newInstance"
  /\ caller = "newInstance" /\ pc \in {"find", "chars", "string"} =>
       Depth >= 2 /\ stack[Depth - 1] = arg /\ stack[Depth] = obj
  /\ caller = "newInstance" /\ pc \in {"intern", "setClass"} =>
       Depth >= 3 /\ stack[Depth - 2] = arg /\ stack[Depth - 1] = obj
  /\ pc \in {"intern", "result"} => Depth >= 1
  /\ pc = "field" => Depth >= 2

Closed ==
  /\ Roots \subseteq objects
  /\ strings \subseteq objects
  /\ \A o \in objects : refs[o] \subseteq objects
  /\ \A o \in Obj \ objects : refs[o] = {}

Colours ==
  /\ dark \subseteq objects
  /\ phase # "run" => Roots \subseteq dark
  /\ phase # "run" => \A o \in dark \ gray : refs[o] \subseteq dark
  /\ phase = "sweep" => strings \subseteq dark

IInv == TypeOK /\ Shape /\ Closed /\ Colours

----------------------------------------------------------------------------
(* The VM stack as a sequence. *)

\* push.
LEMMA AppendFacts ==
  ASSUME NEW s \in Seq(Obj), NEW o \in Obj
  PROVE  /\ Append(s, o) \in Seq(Obj)
         /\ Len(Append(s, o)) = Len(s) + 1
         /\ \A i \in 1 .. Len(s) : Append(s, o)[i] = s[i]
         /\ Append(s, o)[Len(s) + 1] = o
         /\ Elements(Append(s, o)) = Elements(s) \cup {o}
<1>1. /\ Append(s, o) \in Seq(Obj)
      /\ Len(Append(s, o)) = Len(s) + 1
      /\ \A i \in 1 .. Len(s) : Append(s, o)[i] = s[i]
      /\ Append(s, o)[Len(s) + 1] = o
  BY AppendProperties
<1>2. Len(s) \in Nat
  BY LenProperties
<1>3. 1 .. Len(s) + 1 = (1 .. Len(s)) \cup {Len(s) + 1}
  BY <1>2
<1>4. Elements(Append(s, o)) = Elements(s) \cup {o}
  BY <1>1, <1>2, <1>3 DEF Elements
<1> QED
  BY <1>1, <1>4

\* n calls of pop.
LEMMA PopFacts ==
  ASSUME NEW s \in Seq(Obj), NEW n \in 0 .. Len(s)
  PROVE  /\ Pop(s, n) \in Seq(Obj)
         /\ Len(Pop(s, n)) = Len(s) - n
         /\ \A i \in 1 .. Len(s) - n : Pop(s, n)[i] = s[i]
         /\ Elements(Pop(s, n)) \subseteq Elements(s)
<1>1. /\ Len(s) \in Nat
      /\ \A i \in 1 .. Len(s) : s[i] \in Obj
  BY LenProperties, ElementOfSeq
<1>2. Len(s) - n \in Nat
  BY <1>1
<1>3. /\ Pop(s, n) \in Seq(Obj)
      /\ Len(Pop(s, n)) = IF 1 <= Len(s) - n THEN Len(s) - n - 1 + 1 ELSE 0
      /\ \A i \in 1 .. Len(s) - n - 1 + 1 : Pop(s, n)[i] = s[1 + i - 1]
  <2>1. \A i \in 1 .. Len(s) - n : s[i] \in Obj
    BY <1>1
  <2> QED
    BY <1>2, <2>1, SubSeqProperties DEF Pop
<1>4. Len(Pop(s, n)) = Len(s) - n
  BY <1>2, <1>3
<1>5. \A i \in 1 .. Len(s) - n : Pop(s, n)[i] = s[i]
  BY <1>2, <1>3
<1>6. Elements(Pop(s, n)) \subseteq Elements(s)
  BY <1>1, <1>2, <1>4, <1>5 DEF Elements
<1> QED
  BY <1>3, <1>4, <1>5, <1>6

\* What is on the stack is an object of the heap's type, and a root.
LEMMA OnStack ==
  ASSUME TypeOK, NEW i \in 1 .. Depth
  PROVE  stack[i] \in Obj /\ stack[i] \in Roots
BY ElementOfSeq DEF TypeOK, Depth, Roots, Elements

\* The depth of the stack is a number.
LEMMA DepthNat == TypeOK => Depth \in Nat
BY LenProperties DEF TypeOK, Depth

----------------------------------------------------------------------------
(* The collector. *)

\* An empty heap.
LEMMA InitIInv == Init => IInv
<1> SUFFICES ASSUME Init PROVE IInv
  OBVIOUS
<1>1. <<>> \in Seq(Obj) /\ Len(<<>>) = 0
  BY EmptySeq
<1>2. Elements(<<>>) = {}
  BY <1>1 DEF Elements
<1>3. TypeOK
  BY <1>1 DEF Init, TypeOK, AllocationPoints
<1>4. Shape
  BY <1>1 DEF Init, Shape
<1>5. Closed
  BY <1>2 DEF Init, Closed, Roots
<1>6. Colours
  BY DEF Init, Colours
<1> QED
  BY <1>3, <1>4, <1>5, <1>6 DEF IInv

\* What the collector leaves alone keeps Shape.
LEMMA ShapeFramed ==
  Shape /\ UNCHANGED <<stack, routine>> => Shape'
BY DEF Shape, routine, Depth, Top

\* Each step of a collection keeps the invariant.
LEMMA CollectorStep ==
  ASSUME IInv, Collector
  PROVE  IInv'
<1> USE DEF IInv
<1>1. CASE Collect
  <2> USE <1>1 DEF Collect, Marked, heap, roots, routine
  <2>1. dark = {} /\ Roots \subseteq objects /\ objects \subseteq Obj
    BY DEF TypeOK, Closed
  <2>2. TypeOK'
    BY <2>1 DEF TypeOK
  <2>3. Shape'
    BY ShapeFramed
  <2>4. Closed'
    BY DEF Closed, Roots
  <2>5. Colours'
    BY <2>1 DEF Colours, Roots
  <2> QED
    BY <2>2, <2>3, <2>4, <2>5
<1>2. CASE Blacken
  <2> USE <1>2 DEF Blacken, heap, roots, routine
  <2>1. PICK o \in gray : /\ dark' = dark \cup Newly(o)
                         /\ gray' = (gray \ {o}) \cup Newly(o)
    OBVIOUS
  <2>2. o \in dark /\ o \in objects /\ refs[o] \subseteq objects /\ objects \subseteq Obj
    BY DEF TypeOK, Colours, Closed
  <2>3. TypeOK'
    BY <2>1, <2>2 DEF TypeOK, Newly
  <2>4. Shape'
    BY ShapeFramed
  <2>5. Closed'
    BY DEF Closed, Roots
  <2>6. \A x \in dark' \ gray' : refs[x] \subseteq dark'
    BY <2>1 DEF Colours, Newly
  <2>7. Colours'
    BY <2>1, <2>2, <2>6 DEF Colours, Roots, Newly
  <2> QED
    BY <2>3, <2>4, <2>5, <2>7
<1>3. CASE RemoveWhite
  <2> USE <1>3 DEF RemoveWhite, Pruned, heap, roots, routine
  <2>1. TypeOK'
    BY DEF TypeOK
  <2>2. Shape'
    BY ShapeFramed
  <2>3. Closed'
    BY DEF Closed, Roots
  <2>4. Colours'
    BY DEF Colours, Roots
  <2> QED
    BY <2>1, <2>2, <2>3, <2>4
<1>4. CASE Sweep
  <2> USE <1>4 DEF Sweep, Cleared, heap, roots, routine
  <2>1. /\ objects' = dark
        /\ gray = {}
        /\ \A o \in dark : refs'[o] = refs[o] /\ refs[o] \subseteq dark
    BY DEF TypeOK, Colours
  <2>2. TypeOK'
    BY <2>1 DEF TypeOK
  <2>3. Shape'
    BY ShapeFramed
  <2>4. Closed'
    BY <2>1 DEF Closed, Colours, Roots
  <2>5. Colours'
    BY DEF Colours
  <2> QED
    BY <2>2, <2>3, <2>4, <2>5
<1> QED
  BY <1>1, <1>2, <1>3, <1>4 DEF Collector

----------------------------------------------------------------------------
(* The program: routines and instructions run while nothing is marked. *)

\* Between collections there are no colours to keep.
LEMMA NothingMarked ==
  ASSUME IInv, phase = "run", UNCHANGED collector
  PROVE  Colours'
BY DEF IInv, TypeOK, Colours, collector

\* The routines, one step per allocation or lookup.
LEMMA RoutineStep ==
  ASSUME IInv, Routine
  PROVE  IInv'
<1> USE DEF IInv
<1>1. phase = "run" /\ UNCHANGED collector
  BY DEF Routine, AllocateObject, FindString, AllocateChars, AllocateString,
         InternString, SetClass, AllocateResult, StoreField
<1>2. Colours'
  BY <1>1, NothingMarked
<1>3. Depth \in Nat /\ stack \in Seq(Obj) /\ objects \subseteq Obj /\ Roots \subseteq objects
  BY DepthNat DEF TypeOK, Closed
<1>4. CASE AllocateObject
  <2> USE <1>4 DEF AllocateObject, Hold
  <2>1. PICK o \in Obj \ objects :
          /\ objects' = objects \cup {o}
          /\ refs' = [refs EXCEPT ![o] = {arg}]
          /\ obj' = o
          /\ stack' = Append(stack, o)
    OBVIOUS
  <2>2. caller = "newInstance" /\ Depth >= 1 /\ stack[Depth] = arg /\ arg \in Obj /\ arg \in objects
    BY <1>3, OnStack DEF Shape, Top, Depth
  <2>3. TypeOK'
    BY <1>1, <2>1, <2>2, <1>3, AppendFacts DEF TypeOK, collector, AllocationPoints
  <2>4. Shape'
    BY <2>1, <2>2, <1>3, AppendFacts DEF Shape, Depth
  <2>5. Closed'
    BY <2>1, <2>2, <1>3, AppendFacts DEF Closed, Roots, TypeOK
  <2> QED
    BY <1>2, <2>3, <2>4, <2>5
<1>5. CASE FindString
  <2> USE <1>5 DEF FindString
  <2>1. CASE Goto(IF caller = "takeString" THEN "string" ELSE "chars") /\ UNCHANGED stack
    <3>1. TypeOK'
      BY <1>1, <2>1 DEF TypeOK, collector, heap, AllocationPoints, Goto
    <3>2. Shape'
      BY <2>1 DEF Shape, Depth, Goto
    <3>3. Closed'
      BY <2>1 DEF Closed, Roots, heap
    <3> QED
      BY <1>2, <3>1, <3>2, <3>3
  <2>2. ASSUME NEW s \in Interned(want), stack' = Append(stack, s), Answer
        PROVE  IInv'
    <3>1. s \in Obj /\ s \in objects
      BY <1>3 DEF Interned, Closed
    <3>2. TypeOK'
      BY <1>1, <2>2, <3>1, <1>3, AppendFacts
         DEF TypeOK, collector, heap, AllocationPoints, Answer, Return, Call, Goto
    <3>3. Shape'
      BY <2>2, <3>1, <1>3, AppendFacts DEF Shape, Depth, Answer, Return, Call, Goto
    <3>4. Closed'
      BY <2>2, <3>1, <1>3, AppendFacts DEF Closed, Roots, heap
    <3> QED
      BY <1>2, <3>2, <3>3, <3>4
  <2> QED
    BY <2>1, <2>2
<1>6. CASE AllocateChars
  <2> USE <1>6 DEF AllocateChars, roots
  <2>1. TypeOK'
    BY <1>1 DEF TypeOK, collector, heap, AllocationPoints, Goto
  <2>2. Shape'
    BY DEF Shape, Depth, Goto
  <2>3. Closed'
    BY DEF Closed, Roots, heap
  <2> QED
    BY <1>2, <2>1, <2>2, <2>3
<1>7. CASE AllocateString
  <2> USE <1>7 DEF AllocateString
  <2>1. PICK o \in Obj \ objects : /\ objects' = objects \cup {o}
                                  /\ text' = [text EXCEPT ![o] = want]
                                  /\ stack' = Append(stack, o)
    OBVIOUS
  <2>2. TypeOK'
    BY <1>1, <1>3, <2>1, AppendFacts DEF TypeOK, collector, AllocationPoints, Goto
  <2>3. Shape'
    BY <1>3, <2>1, AppendFacts DEF Shape, Depth, Goto
  <2>4. Closed'
    <3>1. Roots' \subseteq objects' /\ strings' \subseteq objects'
      BY <1>3, <2>1, AppendFacts DEF Closed, Roots
    <3> QED
      BY <2>1, <3>1 DEF Closed
  <2> QED
    BY <1>2, <2>2, <2>3, <2>4
<1>8. CASE InternString
  <2> USE <1>8 DEF InternString, roots
  <2>1. Top \in Obj /\ Top \in objects
    BY <1>3, OnStack DEF Shape, Top, Depth
  <2>2. TypeOK'
    BY <1>1, <2>1
       DEF TypeOK, collector, heap, AllocationPoints, Answer, Return, Call, Goto
  <2>3. Shape'
    BY <1>3 DEF Shape, Depth, Answer, Return, Call, Goto
  <2>4. Closed'
    BY <2>1 DEF Closed, Roots, heap
  <2> QED
    BY <1>2, <2>2, <2>3, <2>4
<1>9. CASE SetClass
  <2> USE <1>9 DEF SetClass
  <2>1. caller = "newInstance" /\ Depth >= 3 /\ stack[Depth - 2] = arg /\ stack[Depth - 1] = obj
    BY DEF Shape
  <2>2. {arg, obj, Top} \subseteq Obj /\ {arg, obj, Top} \subseteq objects
    <3>1. {stack[Depth], stack[Depth - 1], stack[Depth - 2]} \subseteq Obj \cap objects
      BY <1>3, <2>1, OnStack
    <3> QED
      BY <2>1, <3>1 DEF Top, Depth
  <2>3. Pop(stack, 3) \in Seq(Obj) /\ Elements(Pop(stack, 3)) \subseteq Elements(stack)
    BY <1>3, <2>1, PopFacts DEF Depth
  <2>4. /\ stack' \in Seq(Obj)
        /\ Elements(stack') \subseteq Elements(stack) \cup {obj}
    BY <2>2, <2>3, AppendFacts
  <2>5. TypeOK'
    BY <1>1, <2>2, <2>4
       DEF TypeOK, collector, AllocationPoints, Return, Call
  <2>6. Shape'
    BY DEF Shape, Return, Call
  <2>7. Closed'
    BY <1>3, <2>2, <2>4 DEF Closed, Roots, TypeOK
  <2> QED
    BY <1>2, <2>5, <2>6, <2>7
<1>10. CASE AllocateResult
  <2> USE <1>10 DEF AllocateResult
  <2>1. PICK o \in Obj \ objects : /\ objects' = objects \cup {o}
                                  /\ refs' = [refs EXCEPT ![o] = {Top}]
                                  /\ stack' = Append(Pop(stack, 1), o)
    OBVIOUS
  <2>2. Depth >= 1 /\ Top \in Obj /\ Top \in objects
    BY <1>3, OnStack DEF Shape, Top, Depth
  <2>3. Pop(stack, 1) \in Seq(Obj) /\ Elements(Pop(stack, 1)) \subseteq Elements(stack)
    BY <1>3, <2>2, PopFacts DEF Depth
  <2>4. /\ stack' \in Seq(Obj)
        /\ Elements(stack') \subseteq Elements(stack) \cup {o}
    BY <2>1, <2>3, AppendFacts
  <2>5. TypeOK'
    BY <1>1, <2>1, <2>2, <2>4 DEF TypeOK, collector, AllocationPoints, Return, Call
  <2>6. Shape'
    BY DEF Shape, Return, Call
  <2>7. Closed'
    BY <1>3, <2>1, <2>2, <2>4 DEF Closed, Roots, TypeOK
  <2> QED
    BY <1>2, <2>5, <2>6, <2>7
<1>11. CASE StoreField
  <2> USE <1>11 DEF StoreField
  <2> DEFINE receiver == stack[Depth - 1]
  <2>1. PICK old : refs' = [refs EXCEPT ![receiver] = (@ \ old) \cup {Top}]
    BY DEF Depth
  <2>2. /\ Depth >= 2
        /\ {receiver, Top} \subseteq Obj /\ {receiver, Top} \subseteq objects
    BY <1>3, OnStack DEF Shape, Top, Depth
  <2>3. stack' \in Seq(Obj) /\ Elements(stack') \subseteq Elements(stack)
    BY <1>3, <2>2, PopFacts DEF Depth
  <2> HIDE DEF StoreField, receiver
  <2>4. TypeOK'
    <3>1. refs' \in [Obj -> SUBSET Obj]
      BY <2>1, <2>2 DEF TypeOK
    <3> QED
      BY <1>1, <2>3, <3>1 DEF StoreField, TypeOK, collector, AllocationPoints, Return, Call
  <2>5. Shape'
    BY DEF StoreField, Shape, Return, Call
  <2>6. Closed'
    BY <1>3, <2>1, <2>2, <2>3 DEF StoreField, Closed, Roots, TypeOK
  <2> QED
    BY <1>2, <2>4, <2>5, <2>6
<1> QED
  BY <1>4, <1>5, <1>6, <1>7, <1>8, <1>9, <1>10, <1>11 DEF Routine

\* Instructions start when no routine runs.
LEMMA InstructionStep ==
  ASSUME IInv, Instruction
  PROVE  IInv'
<1> USE DEF IInv
<1>1. phase = "run" /\ pc = "idle" /\ UNCHANGED <<collector, heap, strings>>
  BY DEF Instruction, NewInstance, CopyString, TakeString, NewResultSuccess, Load,
         Discard, DefineGlobal, SetField, DropGlobal, Ready, Call, collector, heap, roots
<1>2. Colours'
  BY <1>1, NothingMarked
<1>3. Depth \in Nat /\ stack \in Seq(Obj) /\ objects \subseteq Obj /\ Roots \subseteq objects
  BY DepthNat DEF TypeOK, Closed
<1>4. stack # <<>> => Depth >= 1 /\ Top \in Obj /\ Top \in objects
  <2>1. stack # <<>> => Depth >= 1
    BY <1>3, EmptySeq, LenProperties, SeqEqual DEF Depth
  <2> QED
    BY <1>3, <2>1, OnStack DEF Top, Depth
<1> DEFINE PushesLive == /\ stack' \in Seq(Obj)
                         /\ Elements(stack') \subseteq objects
                         /\ globals' \subseteq objects
<1>5. ASSUME PushesLive PROVE Closed'
  BY <1>1, <1>5 DEF Closed, Roots, heap
<1>6. ASSUME PushesLive, UNCHANGED routine PROVE IInv'
  <2>1. TypeOK'
    BY <1>1, <1>3, <1>6 DEF TypeOK, heap, collector, routine
  <2>2. Shape'
    BY <1>1, <1>6 DEF Shape, routine
  <2> QED
    BY <1>2, <1>5, <1>6, <2>1, <2>2
<1>7. Elements(stack) \subseteq objects /\ globals \subseteq objects
  BY <1>3 DEF Roots
<1>8. ASSUME NEW t \in Text, NewInstance(t) PROVE IInv'
  <2> USE <1>8 DEF NewInstance
  <2>1. PushesLive
    BY <1>3, <1>7 DEF roots
  <2>2. TypeOK'
    BY <1>1, <1>4, <2>1 DEF TypeOK, heap, roots, collector, Call, AllocationPoints
  <2>3. Shape'
    BY <1>4 DEF Shape, Call, Depth, Top, roots
  <2> QED
    BY <1>2, <1>5, <2>1, <2>2, <2>3
<1>9. ASSUME NEW t \in Text, NEW who \in {"push", "newResultError"}, CopyString(t, who)
      PROVE  IInv'
  <2> USE <1>9 DEF CopyString
  <2>1. PushesLive
    BY <1>3, <1>7 DEF roots
  <2>2. TypeOK'
    BY <1>1, <2>1 DEF TypeOK, heap, roots, collector, Call, AllocationPoints
  <2>3. Shape'
    BY DEF Shape, Call
  <2> QED
    BY <1>2, <1>5, <2>1, <2>2, <2>3
<1>10. ASSUME NEW t \in Text, TakeString(t) PROVE IInv'
  <2> USE <1>10 DEF TakeString
  <2>1. PushesLive
    BY <1>3, <1>7 DEF roots
  <2>2. TypeOK'
    BY <1>1, <2>1 DEF TypeOK, heap, roots, collector, Call, AllocationPoints
  <2>3. Shape'
    BY DEF Shape, Call
  <2> QED
    BY <1>2, <1>5, <2>1, <2>2, <2>3
<1>11. CASE NewResultSuccess
  <2> USE <1>11 DEF NewResultSuccess
  <2>1. PushesLive /\ Depth' >= 1
    BY <1>3, <1>4, <1>7, AppendFacts DEF Depth
  <2>2. TypeOK'
    BY <1>1, <2>1 DEF TypeOK, heap, collector, Call, AllocationPoints
  <2>3. Shape'
    BY <2>1 DEF Shape, Call
  <2> QED
    BY <1>2, <1>5, <2>1, <2>2, <2>3
<1>12. CASE SetField
  <2> USE <1>12 DEF SetField
  <2>1. PushesLive /\ Depth' >= 2
    BY <1>3, <1>7 DEF roots, Depth
  <2>2. TypeOK'
    BY <1>1, <2>1 DEF TypeOK, heap, roots, collector, Call, AllocationPoints
  <2>3. Shape'
    BY <2>1 DEF Shape, Call
  <2> QED
    BY <1>2, <1>5, <2>1, <2>2, <2>3
<1>13. CASE Load
  <2>1. PICK o \in globals \cup (IF stack = <<>> THEN {} ELSE refs[Top]) :
          stack' = Append(stack, o)
    BY <1>13 DEF Load
  <2>2. o \in objects
    BY <1>4, <1>7, <2>1 DEF Closed
  <2> QED
    BY <1>3, <1>6, <1>7, <1>13, <2>1, <2>2, AppendFacts DEF Load
<1>14. CASE Discard
  <2>1. stack' = Pop(stack, 1) /\ 1 \in 0 .. Len(stack)
    BY <1>3, <1>4, <1>14 DEF Discard, Depth
  <2> QED
    BY <1>3, <1>6, <1>7, <1>14, <2>1, PopFacts DEF Discard
<1>15. CASE DefineGlobal
  <2>1. /\ stack' = Pop(stack, 1) /\ 1 \in 0 .. Len(stack)
        /\ globals' = globals \cup {Top} /\ Top \in objects
    BY <1>3, <1>4, <1>15 DEF DefineGlobal, Depth
  <2> QED
    BY <1>3, <1>6, <1>7, <1>15, <2>1, PopFacts DEF DefineGlobal
<1>16. ASSUME NEW g \in globals, DropGlobal(g) PROVE IInv'
  BY <1>3, <1>6, <1>7, <1>16 DEF DropGlobal
<1> QED
  BY <1>8, <1>9, <1>10, <1>11, <1>12, <1>13, <1>14, <1>15, <1>16 DEF Instruction

----------------------------------------------------------------------------
\* Nothing happens to it when no variable changes.
LEMMA StutterIInv == IInv /\ UNCHANGED vars => IInv'
BY ShapeFramed
   DEF IInv, TypeOK, Closed, Colours, Roots, vars, heap, roots, collector, routine

\* The strengthening of NoDangling holds in every state: C routines find what they
\* pushed, pointers lead to live objects, and marking leaves nothing out.
THEOREM Invariance == Spec => []IInv
<1>1. Init => IInv
  BY InitIInv
<1>2. IInv /\ [Next]_vars => IInv'
  BY CollectorStep, RoutineStep, InstructionStep, StutterIInv DEF Next
<1> QED
  BY <1>1, <1>2, PTL DEF Spec

\* Every reachable state of a heap of any size is well typed: in particular
\* objects are dark only during a collection, and gray ones are dark.
THEOREM TypeCorrect == Spec => []TypeOK
<1>1. IInv => TypeOK
  BY DEF IInv
<1> QED
  BY <1>1, Invariance, PTL

\* The locals of the routines sit on the stack, so they are roots.
LEMMA LocalsOnStack == IInv => Locals \subseteq objects
<1> SUFFICES ASSUME IInv PROVE Locals \subseteq objects
  OBVIOUS
<1>1. TypeOK /\ Shape /\ Depth \in Nat /\ Roots \subseteq objects
  BY DepthNat DEF IInv, Closed
<1>2. \A i \in 1 .. Depth : stack[i] \in objects
  BY <1>1, OnStack
<1> QED
  BY <1>1, <1>2 DEF Shape, Locals, Top, Depth

\* No pointer dangles, at any allocation point of any routine and during every
\* collection, whatever the program and however large the heap.
THEOREM MemorySafe == Spec => []NoDangling
<1>1. IInv => NoDangling
  BY LocalsOnStack DEF IInv, Closed, NoDangling
<1> QED
  BY <1>1, Invariance, PTL

----------------------------------------------------------------------------
(* A collection frees all the garbage: while it marks, whatever is dark lies *)
(* in every set that holds the roots and is closed under references.         *)

IsClosed(S) == Roots \subseteq S /\ \A x \in S : refs[x] \subseteq S

Traced == phase # "run" => \A S \in SUBSET Obj : IsClosed(S) => dark \subseteq S

\* Each step marks only what a root leads to.
LEMMA TracedStep == IInv /\ Traced /\ [Next]_vars => Traced'
<1> SUFFICES ASSUME IInv, Traced, [Next]_vars, phase' # "run",
                    NEW S \in SUBSET Obj, IsClosed(S)'
             PROVE  dark' \subseteq S
  BY DEF Traced
<1>1. CASE Collect
  BY <1>1 DEF Collect, Marked, IInv, TypeOK, IsClosed, Roots, roots, heap
<1>2. CASE Blacken
  <2>1. dark \subseteq S /\ \A x \in S : refs[x] \subseteq S
    BY <1>2 DEF Blacken, Traced, IsClosed, Roots, roots, heap
  <2> QED
    BY <1>2, <2>1 DEF Blacken, Newly, IInv, TypeOK
<1>3. CASE RemoveWhite
  BY <1>3 DEF RemoveWhite, Traced, IsClosed, Roots, roots, heap
<1>4. CASE UNCHANGED vars
  BY <1>4 DEF Traced, IsClosed, Roots, vars, roots, heap, collector
<1>5. CASE Sweep \/ Routine \/ Instruction
  BY <1>5
     DEF Sweep, Routine, AllocateObject, FindString, AllocateChars, AllocateString,
         InternString, SetClass, AllocateResult, StoreField, Instruction, NewInstance,
         CopyString, TakeString, NewResultSuccess, Load, Discard, DefineGlobal,
         SetField, DropGlobal, Ready, collector
<1> QED
  BY <1>1, <1>2, <1>3, <1>4, <1>5 DEF Next, Collector

\* So in every state of a collection what is dark is reachable.
LEMMA TracedInvariant == Spec => []Traced
<1>1. Init => Traced
  BY DEF Init, Traced
<1> QED
  BY <1>1, TracedStep, Invariance, PTL DEF Spec

\* When the sweep ends, what is left is what the roots reach.
LEMMA SweepLeavesReachable ==
  ASSUME IInv, Traced, Sweep
  PROVE  objects' = Reachable'
<1>1. /\ objects' = dark /\ Roots' = Roots /\ Roots \subseteq dark /\ dark \subseteq Obj
      /\ \A x \in dark : refs[x] \subseteq dark /\ refs'[x] = refs[x]
  BY DEF IInv, TypeOK, Colours, Sweep, Roots, roots
<1>2. dark \subseteq Reachable'
  <2> SUFFICES ASSUME NEW S \in SUBSET Obj, Roots' \subseteq S,
                      \A x \in S : refs'[x] \subseteq S
               PROVE  dark \subseteq S
    BY <1>1 DEF Reachable
  <2>1. IsClosed(S \cap dark)
    BY <1>1 DEF IsClosed
  <2> QED
    BY <1>1, <2>1 DEF Traced, Sweep
<1>3. Reachable' \subseteq dark
  BY <1>1 DEF Reachable
<1> QED
  BY <1>1, <1>2, <1>3

\* Every collection, of any heap, frees exactly the objects the program cannot
\* reach any more.
THEOREM GarbageFreed == Spec => CollectsAllGarbage
<1>1. IInv /\ Traced /\ [Next]_vars =>
        (phase = "sweep" /\ phase' = "run" => objects' = Reachable')
  <2> SUFFICES ASSUME IInv, Traced, [Next]_vars, phase = "sweep", phase' = "run"
               PROVE  Sweep
    BY SweepLeavesReachable
  <2> QED
    BY DEF Next, Collector, Collect, Blacken, RemoveWhite, Routine, AllocateObject,
           FindString, AllocateChars, AllocateString, InternString, SetClass,
           AllocateResult, StoreField, Instruction, NewInstance, CopyString, TakeString,
           NewResultSuccess, Load, Discard, DefineGlobal, SetField, DropGlobal, Ready,
           vars, collector
<1> QED
  BY <1>1, Invariance, TracedInvariant, PTL DEF Spec, CollectsAllGarbage

----------------------------------------------------------------------------
(* Interning.  A string in the heap is in the pool, except for the one that   *)
(* is about to be inserted and the white ones a sweep is about to free; and   *)
(* while a routine is between its lookup and the insertion, the pool still    *)
(* lacks the content it looked for: a collection only takes strings away.     *)

Unique == \A s, t \in objects : text[s] # NoText /\ text[s] = text[t] => s = t

Pooled == \A s \in IF phase = "sweep" THEN dark ELSE objects :
            \/ text[s] = NoText
            \/ s \in strings
            \/ pc = "intern" /\ s = Top

Absent == pc = "string" \/ (pc = "chars" /\ caller # "takeString") =>
            \A s \in strings : text[s] # want

Textless == \A o \in Obj \ objects : text[o] = NoText

PoolInv == Unique /\ Pooled /\ Absent /\ Textless

\* Each step keeps the pool complete and free of duplicates.
LEMMA PoolStep == IInv /\ PoolInv /\ [Next]_vars => PoolInv'
<1> SUFFICES ASSUME IInv, PoolInv, [Next]_vars PROVE PoolInv'
  OBVIOUS
<1> USE DEF PoolInv
<1>1. /\ TypeOK /\ stack \in Seq(Obj) /\ objects \subseteq Obj
      /\ strings \subseteq objects /\ dark \subseteq objects
  BY DEF IInv, TypeOK, Closed, Colours
<1>2. CASE Collect \/ Blacken
  BY <1>1, <1>2 DEF Collect, Blacken, heap, roots, routine, Unique, Pooled, Absent, Textless, Top
<1>3. CASE RemoveWhite
  BY <1>1, <1>3 DEF RemoveWhite, Pruned, heap, roots, routine, Unique, Pooled, Absent, Textless, Top
<1>4. CASE Sweep
  <2>1. /\ objects' = dark /\ strings' = strings /\ strings \subseteq dark
        /\ \A o \in dark : text'[o] = text[o]
        /\ \A o \in Obj \ dark : text'[o] = NoText
        /\ UNCHANGED <<stack, routine>> /\ phase = "sweep" /\ phase' = "run"
    BY <1>1, <1>4 DEF Sweep, IInv, Colours, roots
  <2> QED
    BY <1>1, <2>1 DEF routine, Unique, Pooled, Absent, Textless, Top
<1>5. CASE UNCHANGED vars
  BY <1>5 DEF vars, heap, roots, collector, routine, Unique, Pooled, Absent, Textless, Top
<1>6. CASE Instruction
  <2>1. /\ phase = "run" /\ pc = "idle" /\ pc' \notin {"intern", "string"}
        /\ pc' = "chars" => caller' = "takeString"
        /\ UNCHANGED <<objects, text, strings, phase>>
    BY <1>6 DEF Instruction, NewInstance, CopyString, TakeString, NewResultSuccess, Load,
         Discard, DefineGlobal, SetField, DropGlobal, Ready, Call, collector, heap, roots, routine
  <2> QED
    BY <2>1 DEF Unique, Pooled, Absent, Textless
<1>7. CASE Routine
  <2>1. phase = "run" /\ phase' = "run"
    BY <1>7 DEF Routine, AllocateObject, FindString, AllocateChars, AllocateString,
         InternString, SetClass, AllocateResult, StoreField, collector
  <2>2. CASE AllocateObject \/ AllocateResult
    <3>1. PICK o \in Obj \ objects : objects' = objects \cup {o}
      BY <2>2 DEF AllocateObject, AllocateResult
    <3>2. /\ text[o] = NoText /\ UNCHANGED <<text, strings>>
          /\ pc \in {"object", "result"} /\ pc' \in {"find", "idle"}
      BY <2>2, <3>1 DEF AllocateObject, AllocateResult, Return, Call, Textless
    <3> QED
      BY <2>1, <3>1, <3>2 DEF Unique, Pooled, Absent, Textless
  <2>3. CASE FindString
    <3>1. /\ UNCHANGED <<objects, text, strings>> /\ pc = "find" /\ pc' # "intern"
          /\ \/ pc' \in {"setClass", "result", "idle"}
             \/ Interned(want) = {} /\ UNCHANGED want
             \/ pc' = "chars" /\ caller' = "takeString"
      BY <2>3 DEF FindString, Answer, Goto, Return, Call, heap
    <3> QED
      BY <2>1, <3>1 DEF Unique, Pooled, Absent, Textless, Interned
  <2>4. CASE AllocateChars
    <3>1. /\ UNCHANGED <<objects, text, strings, want>> /\ pc = "chars" /\ pc' # "intern"
          /\ pc' = "find" \/ (pc' = "string" /\ caller # "takeString")
      BY <2>4 DEF AllocateChars, Goto, heap, roots
    <3> QED
      BY <2>1, <3>1 DEF Unique, Pooled, Absent, Textless
  <2>5. CASE AllocateString
    <3>1. PICK o \in Obj \ objects : /\ objects' = objects \cup {o}
                                    /\ text' = [text EXCEPT ![o] = want]
                                    /\ stack' = Append(stack, o)
      BY <2>5 DEF AllocateString
    <3>2. /\ pc = "string" /\ pc' = "intern" /\ UNCHANGED strings
          /\ text'[o] = want /\ \A s \in Obj \ {o} : text'[s] = text[s]
      BY <2>5, <3>1, <1>1 DEF AllocateString, Goto, TypeOK
    <3>3. Top' = o
      BY <1>1, <3>1, AppendFacts DEF Top
    <3>4. \A s \in objects : text[s] # NoText => text[s] # want
      BY <2>1, <3>2 DEF Pooled, Absent
    <3> QED
      BY <1>1, <2>1, <3>1, <3>2, <3>3, <3>4 DEF Unique, Pooled, Absent, Textless
  <2>6. CASE InternString
    <3>1. /\ UNCHANGED <<objects, text>> /\ strings' = strings \cup {Top}
          /\ pc = "intern" /\ pc' \in {"setClass", "result", "idle"}
      BY <2>6 DEF InternString, Answer, Goto, Return, Call, heap
    <3> QED
      BY <2>1, <3>1 DEF Unique, Pooled, Absent, Textless
  <2>7. CASE SetClass \/ StoreField
    <3>1. /\ UNCHANGED <<objects, text, strings>>
          /\ pc \in {"setClass", "field"} /\ pc' = "idle"
      BY <2>7 DEF SetClass, StoreField, Return, Call
    <3> QED
      BY <2>1, <3>1 DEF Unique, Pooled, Absent, Textless
  <2> QED
    BY <1>7, <2>2, <2>3, <2>4, <2>5, <2>6, <2>7 DEF Routine
<1> QED
  BY <1>2, <1>3, <1>4, <1>5, <1>6, <1>7 DEF Next, Collector

\* So it is in every state.
LEMMA PoolInvariant == Spec => []PoolInv
<1>1. Init => PoolInv
  BY DEF Init, PoolInv, Unique, Pooled, Absent, Textless
<1> QED
  BY <1>1, PoolStep, Invariance, PTL DEF Spec

\* Two strings a program can reach are equal only when they are the same object,
\* so comparing pointers compares contents.
THEOREM StringsAreInterned == Spec => []StringsCanonical
<1>1. IInv /\ PoolInv => StringsCanonical
  <2> SUFFICES ASSUME IInv, PoolInv PROVE StringsCanonical
    OBVIOUS
  <2>1. Reachable \subseteq objects
    BY DEF IInv, TypeOK, Closed, Reachable
  <2> QED
    BY <2>1 DEF PoolInv, Unique, StringsCanonical
<1> QED
  BY <1>1, Invariance, PoolInvariant, PTL

============================================================================
