---------------------------- MODULE ScopesProofs ----------------------------
(***************************************************************************)
(* Proofs about Scopes: whatever constructs a program has and however they *)
(* are nested.                                                             *)
(***************************************************************************)
EXTENDS Scopes, TLAPS, FiniteSetTheorems, SequenceTheorems

(* Shapes. *)

JumpOps == {"JUMP", "JUMP_IF_FALSE", "COMPARE_JUMP"}

Instr ==
  [op : {"PUSH", "CALL", "OPEN_FILE"}, id : Nat]
    \cup [op : {"POP", "CLOSE_UPVALUE", "BREAK"}]
    \cup [op : JumpOps, to : Nat]
    \cup [op : {"GET_LOCAL", "SET_LOCAL"}, slot : Nat, means : Nat, id : Nat]
    \cup [op : {"GET_UPVALUE", "GET_MODULE", "SET_UPVALUE", "SET_MODULE"}, means : Nat, id : Nat]
    \cup [op : {"CLOSURE"}, upvalues : Seq(Upvalue), id : Nat]
    \cup [op : {"CLOSE_FILE"}, slot : Nat]
    \cup [op : {"RETURN"}, height : Nat]

LoopInfo == [start : Nat, end : Nat, body : Nat, scopeDepth : Nat]

Compiler == [type : {"top level", "function"}, scopeDepth : Nat, locals : Seq(Local),
             isFile : SUBSET Nat, loop : Seq(LoopInfo), upvalues : Seq(Upvalue),
             code : Seq(Instr)]

Entry == [kind : {"program", "block", "while", "for"}]
           \cup [kind : {"function"}, level : Nat, name : Name, argument : BOOLEAN,
                 constant : BOOLEAN, id : Nat]
           \cup [kind : {"then"}, elseJump : Nat]
           \cup [kind : {"rest"}, ends : SUBSET Nat]
           \cup [kind : {"case"}, compareJump : Nat, ends : SUBSET Nat]
           \cup [kind : {"with"}, slot : Nat]

\* Jumps stay within the code, breaks within loops, and there is a slot 0.
IsSound(c) ==
  /\ c \in Compiler /\ Len(c.locals) >= 1 /\ c.locals[1].depth = 0
  /\ \A i \in DOMAIN c.code :
       /\ c.code[i].op \in JumpOps => c.code[i].to <= Here(c)
       /\ c.code[i].op = "BREAK" => c.loop # <<>> /\ c.loop[1].body <= i
  /\ \A k \in DOMAIN c.loop :
       /\ c.loop[k].start <= Here(c) /\ c.loop[k].body <= Here(c)
       /\ c.loop[k].end # 0 =>
            c.loop[k].end \in DOMAIN c.code /\ c.code[c.loop[k].end].op = "JUMP_IF_FALSE"

\* Code grows, and what is a jump stays one.
Keeps(c, d) ==
  /\ Len(c.code) <= Len(d.code)
  /\ \A i \in DOMAIN c.code : c.code[i].op \in JumpOps => d.code[i].op = c.code[i].op

----------------------------------------------------------------------------
(* Numbers. *)

\* A set of natural numbers that is not empty has a least element.
LEMMA LeastNumber ==
  ASSUME NEW S, S \subseteq Nat, S # {}
  PROVE  \E n \in S : \A m \in S : n <= m
<1>1. PICK top \in S : TRUE
  OBVIOUS
<1> DEFINE Below == {n \in S : n <= top}
           Segments == {0 .. n : n \in Below}
<1>2. IsFiniteSet(0 .. top)
  BY <1>1, FS_Interval
<1>3. IsWellFoundedOn(StrictSubsetOrdering(0 .. top), SUBSET (0 .. top))
  BY <1>2, FS_StrictSubsetOrderingWellFounded, FS_FiniteSubsetsOfFinite
<1>4. Segments \subseteq SUBSET (0 .. top) /\ Segments # {}
  BY <1>1
<1>5. PICK s \in Segments : \A t \in Segments : <<t, s>> \notin StrictSubsetOrdering(0 .. top)
  <2> HIDE DEF Segments
  <2> QED BY <1>3, <1>4, WFMin
<1>6. PICK n \in Below : s = 0 .. n
  BY <1>5
<1>7. \A m \in Below : n <= m
  <2> SUFFICES ASSUME NEW m \in Below, m < n PROVE FALSE
    BY <1>1, <1>6
  <2>1. 0 .. m \in Segments /\ 0 .. m \subseteq 0 .. n /\ n \notin 0 .. m /\ n \in 0 .. n
    BY <1>6
  <2>2. <<0 .. m, s>> \in StrictSubsetOrdering(0 .. top)
    BY <1>4, <1>6, <2>1 DEF StrictSubsetOrdering
  <2> QED BY <1>5, <2>1, <2>2
<1> QED BY <1>1, <1>6, <1>7

\* Induction up to a bound, for a set of numbers.
LEMMA Upward ==
  ASSUME NEW top \in Nat, NEW S, 0 \in S, \A n \in 1 .. top : n - 1 \in S => n \in S
  PROVE  0 .. top \subseteq S
<1> DEFINE Rest == (0 .. top) \ S
<1> SUFFICES ASSUME Rest # {} PROVE FALSE
  OBVIOUS
<1>1. PICK n \in Rest : \A m \in Rest : n <= m
  <2>1. Rest \subseteq Nat
    OBVIOUS
  <2> HIDE DEF Rest
  <2> QED BY <2>1, LeastNumber
<1>2. n \in 1 .. top
  BY <1>1
<1>3. n - 1 \in 0 .. top /\ n - 1 \notin Rest
  BY <1>1, <1>2
<1> QED BY <1>1, <1>2, <1>3

\* The greatest of some numbers up to a bound.
LEMMA MaxFacts ==
  ASSUME NEW top \in Nat, NEW S, S \subseteq 0 .. top, S # {}
  PROVE  Max(S) \in S /\ \A m \in S : m <= Max(S)
<1> DEFINE T == {top - m : m \in S}
<1>1. T \subseteq Nat /\ T # {}
  OBVIOUS
<1>2. PICK n \in T : \A m \in T : n <= m
  <2> HIDE DEF T
  <2> QED BY <1>1, LeastNumber
<1>3. PICK x \in S : n = top - x
  BY <1>2
<1>4. \A m \in S : top - x <= top - m
  BY <1>2, <1>3
<1>5. \A m \in S : x >= m
  BY <1>4
<1>6. \E y \in S : \A m \in S : y >= m
  BY <1>5
<1>7. Max(S) \in S /\ \A m \in S : Max(S) >= m
  BY <1>6 DEF Max
<1> QED BY <1>7

\* The least of some numbers.
LEMMA MinFacts ==
  ASSUME NEW S, S \subseteq Nat, S # {}
  PROVE  Min(S) \in S /\ \A m \in S : Min(S) <= m
<1>1. \E x \in S : \A m \in S : x <= m
  BY LeastNumber
<1> QED BY <1>1 DEF Min

\* Positions in a sequence.
LEMMA Positions ==
  ASSUME NEW k \in Nat, k >= 1
  PROVE  /\ \A l \in 1 .. k : l \in 1 .. k - 1 \/ l = k
         /\ \A l \in 1 .. k - 1 : l \in 1 .. k /\ l # k
         /\ k \in 1 .. k /\ k - 1 \in Nat /\ k - 1 \in 0 .. k /\ (k - 1) + 1 = k
         /\ \A l \in 1 .. k + 1 : l \in 1 .. k - 1 \/ l = k \/ l = k + 1
         /\ \A i \in 2 .. k : i \in 1 .. k /\ i - 1 \in 1 .. k /\ i - 1 \in 1 .. k - 1
         /\ \A i \in 2 .. k + 1 : /\ i = k + 1 => i - 1 = k
                                 /\ i # k + 1 => i \in 2 .. k /\ i \in 1 .. k
                                 /\ i - 1 \in 1 .. k
         /\ \A i \in 2 .. k - 1 : i \in 2 .. k /\ i \in 1 .. k - 1 /\ i - 1 \in 1 .. k - 1
         /\ k # 1 => k - 1 >= 1 /\ k \in 2 .. k /\ k - 1 \in 1 .. k /\ k - 1 \in 1 .. k - 1
OBVIOUS

\* What is added twice is left out twice.
LEMMA Cancel == \A x, y, z \in Nat : x + z = y + z => x = y
OBVIOUS

----------------------------------------------------------------------------
(* Sequences. *)

\* The first n elements of a sequence.
LEMMA PrefixFacts ==
  ASSUME NEW S, NEW s \in Seq(S), NEW n \in 0 .. Len(s)
  PROVE  /\ SubSeq(s, 1, n) \in Seq(S) /\ Len(SubSeq(s, 1, n)) = n
         /\ DOMAIN SubSeq(s, 1, n) = 1 .. n
         /\ \A i \in 1 .. n : SubSeq(s, 1, n)[i] = s[i]
OBVIOUS

\* A sequence without its last element.
LEMMA FrontFacts ==
  ASSUME NEW S, NEW s \in Seq(S), Len(s) > 0
  PROVE  /\ Front(s) \in Seq(S) /\ Front(s) = SubSeq(s, 1, Len(s) - 1)
         /\ Len(Front(s)) = Len(s) - 1 /\ DOMAIN Front(s) = 1 .. Len(s) - 1
         /\ \A i \in 1 .. Len(s) - 1 : Front(s)[i] = s[i]
         /\ Last(s) = s[Len(s)] /\ Last(s) \in S
<1>1. Len(s) \in Nat /\ Len(s) - 1 \in 0 .. Len(s) /\ Len(s) \in DOMAIN s
  OBVIOUS
<1>2. Front(s) = SubSeq(s, 1, Len(s) - 1) /\ Last(s) = s[Len(s)] /\ s[Len(s)] \in S
  BY <1>1 DEF Front, Last
<1> DEFINE n == Len(s) - 1
<1>3. /\ SubSeq(s, 1, n) \in Seq(S) /\ Len(SubSeq(s, 1, n)) = n
      /\ DOMAIN SubSeq(s, 1, n) = 1 .. n /\ \A i \in 1 .. n : SubSeq(s, 1, n)[i] = s[i]
  BY <1>1, PrefixFacts
<1> QED BY <1>2, <1>3

\* One with another element.
LEMMA AppendFacts ==
  ASSUME NEW S, NEW s \in Seq(S), NEW e \in S
  PROVE  /\ Append(s, e) \in Seq(S) /\ Len(Append(s, e)) = Len(s) + 1
         /\ DOMAIN Append(s, e) = 1 .. Len(s) + 1
         /\ \A i \in 1 .. Len(s) : Append(s, e)[i] = s[i]
         /\ Append(s, e)[Len(s) + 1] = e
OBVIOUS

\* A sequence followed by one element is that element appended.
LEMMA AppendIs ==
  ASSUME NEW S, NEW s \in Seq(S), NEW e \in S
  PROVE  s \o <<e>> = Append(s, e)
OBVIOUS

----------------------------------------------------------------------------
(* Instructions. *)

\* The instructions that the compiler emits.
LEMMA Instructions ==
  /\ PopTop \in Instr /\ PopTop.op = "POP" /\ JumpIfFalse \in Instr
  /\ JumpIfFalse.op = "JUMP_IF_FALSE" /\ JumpIfFalse.to = 0
  /\ \A id \in Nat : Push(id) \in Instr /\ Push(id).op = "PUSH" /\ Push(id).id = id
  /\ \A to \in Nat : Jump(to) \in Instr /\ Jump(to).op = "JUMP" /\ Jump(to).to = to
  /\ \A slot \in Nat : /\ CloseFile(slot) \in Instr /\ CloseFile(slot).op = "CLOSE_FILE"
                       /\ CloseFile(slot).slot = slot
  /\ \A local : GiveUp(local) \in Instr /\ GiveUp(local).op \in {"POP", "CLOSE_UPVALUE"}
BY DEF Instr, PopTop, JumpIfFalse, Push, Jump, CloseFile, GiveUp, JumpOps

\* A jump has a target, and can be given another.
LEMMA JumpFacts ==
  ASSUME NEW I \in Instr, I.op \in JumpOps, NEW to \in Nat
  PROVE  /\ I.to \in Nat /\ I = [op |-> I.op, to |-> I.to]
         /\ [I EXCEPT !.to = to] \in Instr
         /\ [I EXCEPT !.to = to].op = I.op /\ [I EXCEPT !.to = to].to = to
<1>1. I \in [op : JumpOps, to : Nat]
  BY DEF Instr, JumpOps
<1> QED BY <1>1 DEF Instr

----------------------------------------------------------------------------
(* What the operations on a compiler keep. *)

\* The fields of a compiler.
LEMMA CompilerFacts ==
  ASSUME NEW c, IsSound(c)
  PROVE  /\ c.type \in {"top level", "function"} /\ c.scopeDepth \in Nat
         /\ c.locals \in Seq(Local) /\ c.isFile \in SUBSET Nat /\ c.loop \in Seq(LoopInfo)
         /\ c.upvalues \in Seq(Upvalue) /\ c.code \in Seq(Instr)
         /\ Len(c.code) \in Nat /\ Here(c) \in Nat /\ Here(c) = Len(c.code) + 1
         /\ Len(c.locals) \in Nat /\ Len(c.loop) \in Nat
         /\ DOMAIN c.code = 1 .. Len(c.code) /\ DOMAIN c.locals = 1 .. Len(c.locals)
         /\ DOMAIN c.loop = 1 .. Len(c.loop)
         /\ \A i \in DOMAIN c.code : c.code[i] \in Instr
         /\ \A i \in DOMAIN c.locals : c.locals[i] \in Local
         /\ \A k \in DOMAIN c.loop : c.loop[k] \in LoopInfo
<1>1. /\ c.locals \in Seq(Local) /\ c.isFile \in SUBSET Nat /\ c.loop \in Seq(LoopInfo)
      /\ c.upvalues \in Seq(Upvalue) /\ c.code \in Seq(Instr)
      /\ c.type \in {"top level", "function"} /\ c.scopeDepth \in Nat
  BY DEF IsSound, Compiler
<1> DEFINE code == c.code
           locals == c.locals
           loop == c.loop
<1>2. code \in Seq(Instr) /\ locals \in Seq(Local) /\ loop \in Seq(LoopInfo)
  BY <1>1
<1>3. /\ Len(code) \in Nat /\ Len(locals) \in Nat /\ Len(loop) \in Nat
      /\ DOMAIN code = 1 .. Len(code) /\ DOMAIN locals = 1 .. Len(locals)
      /\ DOMAIN loop = 1 .. Len(loop)
      /\ \A i \in DOMAIN code : code[i] \in Instr
      /\ \A i \in DOMAIN locals : locals[i] \in Local
      /\ \A k \in DOMAIN loop : loop[k] \in LoopInfo
  <2> HIDE DEF code, locals, loop
  <2> QED BY <1>2
<1>4. Here(c) = Len(c.code) + 1 /\ Here(c) \in Nat
  BY <1>3 DEF Here
<1> QED BY <1>1, <1>3, <1>4

\* Instructions are appended.
LEMMA EmitFacts ==
  ASSUME NEW c, IsSound(c), NEW new \in Seq(Instr),
         \A j \in DOMAIN new : /\ new[j].op \in JumpOps => new[j].to <= Here(c) + Len(new)
                               /\ new[j].op = "BREAK" => c.loop # <<>>,
         NEW d, d = Emit(c, new)
  PROVE  /\ IsSound(d) /\ Keeps(c, d)
         /\ d.scopeDepth = c.scopeDepth /\ d.locals = c.locals /\ d.loop = c.loop
         /\ d.type = c.type /\ d.isFile = c.isFile /\ d.upvalues = c.upvalues
         /\ d.code = c.code \o new /\ Here(d) = Here(c) + Len(new)
         /\ \A i \in 1 .. Len(c.code) : d.code[i] = c.code[i]
         /\ \A j \in 1 .. Len(new) : d.code[Len(c.code) + j] = new[j]
<1>1. /\ c \in Compiler /\ c.code \in Seq(Instr) /\ Len(c.code) \in Nat /\ Here(c) = Len(c.code) + 1
      /\ DOMAIN c.code = 1 .. Len(c.code) /\ Len(c.loop) \in Nat /\ c.loop \in Seq(LoopInfo)
      /\ DOMAIN c.loop = 1 .. Len(c.loop)
  BY CompilerFacts DEF IsSound
<1>0. Len(new) \in Nat /\ DOMAIN new = 1 .. Len(new)
  OBVIOUS
<1>2. c.code \o new \in Seq(Instr)
  BY <1>1
<1>3. d \in Compiler
  BY <1>0, <1>1, <1>2 DEF Emit, Compiler
<1>4. /\ d.scopeDepth = c.scopeDepth /\ d.locals = c.locals /\ d.loop = c.loop
      /\ d.type = c.type /\ d.isFile = c.isFile /\ d.upvalues = c.upvalues
      /\ d.code = c.code \o new
  BY <1>1 DEF Emit, Compiler
<1>5. Len(d.code) = Len(c.code) + Len(new) /\ DOMAIN d.code = 1 .. Len(d.code)
  BY <1>0, <1>1, <1>4
<1>6. \A i \in 1 .. Len(c.code) : d.code[i] = c.code[i]
  BY <1>0, <1>1, <1>4
<1>7. \A j \in 1 .. Len(new) : d.code[Len(c.code) + j] = new[j]
  BY <1>0, <1>1, <1>4
<1>8. Here(d) = Here(c) + Len(new)
  BY <1>0, <1>1, <1>5 DEF Here
<1>9. ASSUME NEW i \in DOMAIN d.code
      PROVE  /\ d.code[i].op \in JumpOps => d.code[i].to <= Here(d)
             /\ d.code[i].op = "BREAK" => d.loop # <<>> /\ d.loop[1].body <= i
  <2>1. CASE i <= Len(c.code)
    <3>1. i \in DOMAIN c.code /\ d.code[i] = c.code[i]
      BY <1>0, <1>1, <1>5, <1>6, <2>1
    <3>2. c.code[i].op \in JumpOps => c.code[i].to \in Nat
      BY <3>1, CompilerFacts, JumpFacts
    <3>3. /\ c.code[i].op \in JumpOps => c.code[i].to <= Here(c)
          /\ c.code[i].op = "BREAK" => c.loop # <<>> /\ c.loop[1].body <= i
      BY <3>1 DEF IsSound
    <3>4. Here(c) \in Nat /\ Here(c) <= Here(d) /\ Here(d) \in Nat
      BY <1>0, <1>1, <1>8
    <3> QED BY <1>4, <3>1, <3>2, <3>3, <3>4
  <2>2. CASE ~ (i <= Len(c.code))
    <3>1. PICK j \in DOMAIN new : i = Len(c.code) + j /\ d.code[i] = new[j]
      <4>1. i - Len(c.code) \in 1 .. Len(new) /\ i = Len(c.code) + (i - Len(c.code))
        BY <1>0, <1>1, <1>5, <2>2
      <4> QED BY <1>0, <1>1, <1>7, <4>1
    <3>2. c.loop # <<>> => c.loop[1].body <= Len(c.code) + 1 /\ c.loop[1].body \in Nat
      <4> SUFFICES ASSUME c.loop # <<>> PROVE c.loop[1].body <= Len(c.code) + 1 /\ c.loop[1].body \in Nat
        OBVIOUS
      <4>1. 1 \in DOMAIN c.loop
        BY <1>1
      <4>2. c.loop[1] \in LoopInfo
        BY <1>0, <1>1, <4>1
      <4> QED BY <1>0, <1>1, <4>1, <4>2 DEF IsSound, LoopInfo
    <3>3. /\ new[j].op \in JumpOps => new[j].to <= Here(d)
          /\ new[j].op = "BREAK" => c.loop # <<>>
      BY <1>8
    <3>4. i >= Len(c.code) + 1
      BY <1>0, <1>1, <3>1
    <3>5. c.loop # <<>> => c.loop[1].body <= i
      BY <1>0, <1>1, <3>1, <3>2
    <3> QED BY <1>4, <3>1, <3>3, <3>5
  <2> QED BY <2>1, <2>2
<1>10. ASSUME NEW k \in DOMAIN d.loop
       PROVE  /\ d.loop[k].start <= Here(d) /\ d.loop[k].body <= Here(d)
              /\ d.loop[k].end # 0 =>
                   d.loop[k].end \in DOMAIN d.code /\ d.code[d.loop[k].end].op = "JUMP_IF_FALSE"
  <2>1. k \in DOMAIN c.loop /\ c.loop[k] \in LoopInfo
    BY <1>0, <1>1, <1>4
  <2>2. /\ c.loop[k].start <= Here(c) /\ c.loop[k].body <= Here(c)
        /\ c.loop[k].end # 0 =>
             c.loop[k].end \in DOMAIN c.code /\ c.code[c.loop[k].end].op = "JUMP_IF_FALSE"
    BY <2>1 DEF IsSound
  <2>3. c.loop[k].start \in Nat /\ c.loop[k].body \in Nat
    BY <2>1 DEF LoopInfo
  <2>4. Here(c) \in Nat /\ Here(c) <= Here(d) /\ Here(d) \in Nat
    BY <1>0, <1>1, <1>8
  <2>5. DOMAIN c.code \subseteq DOMAIN d.code
    BY <1>0, <1>1, <1>5
  <2>6. c.loop[k].start <= Here(d) /\ c.loop[k].body <= Here(d)
    BY <2>2, <2>3, <2>4
  <2>7. c.loop[k].end # 0 =>
          c.loop[k].end \in DOMAIN d.code /\ d.code[c.loop[k].end].op = "JUMP_IF_FALSE"
    BY <1>0, <1>1, <1>6, <2>2, <2>5
  <2> QED BY <1>4, <2>6, <2>7
<1>11. IsSound(d)
  BY <1>3, <1>4, <1>9, <1>10 DEF IsSound
<1>12. Keeps(c, d)
  BY <1>1, <1>5, <1>6 DEF Keeps
<1> QED BY <1>4, <1>6, <1>7, <1>8, <1>11, <1>12

\* One instruction is appended.
LEMMA EmitOneFacts ==
  ASSUME NEW c, IsSound(c), NEW I \in Instr, I.op \in JumpOps => I.to <= Here(c) + 1,
         I.op = "BREAK" => c.loop # <<>>, NEW d, d = Emit(c, <<I>>)
  PROVE  /\ IsSound(d) /\ Keeps(c, d)
         /\ d.scopeDepth = c.scopeDepth /\ d.locals = c.locals /\ d.loop = c.loop
         /\ d.type = c.type /\ d.isFile = c.isFile /\ d.upvalues = c.upvalues
         /\ Here(d) = Here(c) + 1 /\ Len(d.code) = Len(c.code) + 1
         /\ \A i \in 1 .. Len(c.code) : d.code[i] = c.code[i]
         /\ d.code[Here(c)] = I
<1>0. PICK new : new = <<I>>
  OBVIOUS
<1>1. new \in Seq(Instr) /\ Len(new) = 1 /\ DOMAIN new = {1} /\ new[1] = I
  BY <1>0
<1>2. Here(c) = Len(c.code) + 1 /\ Len(c.code) \in Nat
  BY CompilerFacts
<1>3. d = Emit(c, new)
  BY <1>0
<1>4. \A j \in DOMAIN new : /\ new[j].op \in JumpOps => new[j].to <= Here(c) + Len(new)
                            /\ new[j].op = "BREAK" => c.loop # <<>>
  BY <1>1
<1>5. /\ IsSound(d) /\ Keeps(c, d)
      /\ d.scopeDepth = c.scopeDepth /\ d.locals = c.locals /\ d.loop = c.loop
      /\ d.type = c.type /\ d.isFile = c.isFile /\ d.upvalues = c.upvalues
      /\ Here(d) = Here(c) + Len(new)
      /\ \A i \in 1 .. Len(c.code) : d.code[i] = c.code[i]
      /\ \A j \in 1 .. Len(new) : d.code[Len(c.code) + j] = new[j]
  <2>1. /\ d.scopeDepth = c.scopeDepth /\ d.locals = c.locals /\ d.loop = c.loop
        /\ d.type = c.type /\ d.isFile = c.isFile /\ d.upvalues = c.upvalues
    <3>1. c \in Compiler
      BY DEF IsSound
    <3> QED BY <1>3, <3>1 DEF Emit, Compiler
  <2>2. IsSound(d) /\ Keeps(c, d) /\ Here(d) = Here(c) + Len(new)
    BY <1>1, <1>3, <1>4, EmitFacts
  <2>3. /\ \A i \in 1 .. Len(c.code) : d.code[i] = c.code[i]
        /\ \A j \in 1 .. Len(new) : d.code[Len(c.code) + j] = new[j]
    BY <1>1, <1>3, <1>4, EmitFacts
  <2> QED BY <2>1, <2>2, <2>3
<1>6. d.code[Len(c.code) + 1] = new[1]
  BY <1>1, <1>5
<1>7. Len(d.code) = Len(c.code) + 1
  <2>1. Here(d) = Len(d.code) + 1 /\ Len(d.code) \in Nat
    BY <1>5, CompilerFacts
  <2> QED BY <1>1, <1>2, <1>5, <2>1
<1> QED BY <1>1, <1>2, <1>5, <1>6, <1>7

\* Code and loops stay.
LEMMA SameCode ==
  ASSUME NEW c, IsSound(c), NEW d \in Compiler, d.code = c.code, d.loop = c.loop,
         Len(d.locals) >= 1, d.locals[1].depth = 0
  PROVE  IsSound(d) /\ Keeps(c, d) /\ Here(d) = Here(c)
<1>1. Len(c.code) \in Nat
  BY CompilerFacts
<1> QED BY <1>1 DEF IsSound, Keeps, Here

\* A function over a code's positions is a code.
LEMMA CodeIs ==
  ASSUME NEW c, IsSound(c), NEW new, new = [i \in DOMAIN c.code |-> new[i]],
         \A i \in DOMAIN c.code : new[i] \in Instr
  PROVE  new \in Seq(Instr) /\ Len(new) = Len(c.code)
<1>1. DOMAIN c.code = 1 .. Len(c.code) /\ Len(c.code) \in Nat
  BY CompilerFacts
<1>2. new \in [1 .. Len(c.code) -> Instr]
  BY <1>1
<1> HIDE DEF IsSound
<1> QED BY <1>1, <1>2, SMT

\* Some instructions become jumps, or get other targets.
LEMMA RecodeFacts ==
  ASSUME NEW c, IsSound(c), NEW new \in Seq(Instr), Len(new) = Len(c.code),
         NEW d, d = [c EXCEPT !.code = new],
         \A i \in DOMAIN c.code :
           \/ new[i] = c.code[i]
           \/ /\ new[i] \in Instr /\ new[i].op \in JumpOps /\ new[i].to <= Here(c)
              /\ c.code[i].op \in JumpOps => new[i].op = c.code[i].op
  PROVE  /\ IsSound(d) /\ Keeps(c, d)
         /\ d.scopeDepth = c.scopeDepth /\ d.locals = c.locals /\ d.loop = c.loop
         /\ d.type = c.type /\ d.isFile = c.isFile /\ d.upvalues = c.upvalues
         /\ d.code = new /\ Here(d) = Here(c) /\ Len(new) = Len(c.code)
<1>1. /\ c \in Compiler /\ c.code \in Seq(Instr) /\ Len(c.code) \in Nat /\ Here(c) = Len(c.code) + 1
      /\ DOMAIN c.code = 1 .. Len(c.code) /\ \A i \in DOMAIN c.code : c.code[i] \in Instr
  BY CompilerFacts DEF IsSound
<1>2. DOMAIN new = DOMAIN c.code
  BY <1>1
<1>3. d \in Compiler
  BY <1>1, <1>2 DEF Compiler
<1>4. /\ d.scopeDepth = c.scopeDepth /\ d.locals = c.locals /\ d.loop = c.loop
      /\ d.type = c.type /\ d.isFile = c.isFile /\ d.upvalues = c.upvalues
      /\ d.code = new
  BY <1>1 DEF Compiler
<1>5. Here(d) = Here(c) /\ DOMAIN d.code = DOMAIN c.code
  BY <1>1, <1>2, <1>4 DEF Here
<1>6. ASSUME NEW i \in DOMAIN d.code
      PROVE  /\ d.code[i].op \in JumpOps => d.code[i].to <= Here(d)
             /\ d.code[i].op = "BREAK" => d.loop # <<>> /\ d.loop[1].body <= i
  BY <1>4, <1>5 DEF IsSound, JumpOps
<1>7. ASSUME NEW k \in DOMAIN d.loop
      PROVE  /\ d.loop[k].start <= Here(d) /\ d.loop[k].body <= Here(d)
             /\ d.loop[k].end # 0 =>
                  d.loop[k].end \in DOMAIN d.code /\ d.code[d.loop[k].end].op = "JUMP_IF_FALSE"
  <2>1. "JUMP_IF_FALSE" \in JumpOps
    BY DEF JumpOps
  <2>2. k \in DOMAIN c.loop /\ d.loop[k] = c.loop[k]
    BY <1>4
  <2>3. /\ c.loop[k].start <= Here(c) /\ c.loop[k].body <= Here(c)
        /\ c.loop[k].end # 0 =>
             c.loop[k].end \in DOMAIN c.code /\ c.code[c.loop[k].end].op = "JUMP_IF_FALSE"
    BY <2>2 DEF IsSound
  <2>4. \A i \in DOMAIN c.code :
          c.code[i].op = "JUMP_IF_FALSE" => d.code[i].op = "JUMP_IF_FALSE"
    BY <1>4, <2>1
  <2> QED BY <1>5, <2>2, <2>3, <2>4
<1>8. IsSound(d)
  BY <1>3, <1>4, <1>6, <1>7 DEF IsSound
<1>9. Keeps(c, d)
  <2>1. \A i \in DOMAIN c.code : c.code[i].op \in JumpOps => d.code[i].op = c.code[i].op
    BY <1>4
  <2>2. Len(c.code) <= Len(d.code)
    BY <1>1, <1>4
  <2> QED BY <2>1, <2>2 DEF Keeps
<1> QED BY <1>4, <1>5, <1>8, <1>9

\* A jump gets its target.
LEMMA PatchFacts ==
  ASSUME NEW c, IsSound(c), NEW p \in DOMAIN c.code, c.code[p].op \in JumpOps,
         NEW d, d = PatchJump(c, p)
  PROVE  /\ IsSound(d) /\ Keeps(c, d)
         /\ d.scopeDepth = c.scopeDepth /\ d.locals = c.locals /\ d.loop = c.loop
         /\ d.type = c.type /\ d.isFile = c.isFile /\ d.upvalues = c.upvalues
         /\ Here(d) = Here(c) /\ Len(d.code) = Len(c.code)
         /\ d.code[p].op = c.code[p].op /\ d.code[p].to = Here(c)
         /\ \A i \in DOMAIN c.code \ {p} : d.code[i] = c.code[i]
<1> DEFINE new == [c.code EXCEPT ![p].to = Here(c)]
<1>1. /\ c \in Compiler /\ c.code \in Seq(Instr) /\ Len(c.code) \in Nat /\ Here(c) \in Nat
      /\ DOMAIN c.code = 1 .. Len(c.code) /\ \A i \in DOMAIN c.code : c.code[i] \in Instr
  BY CompilerFacts DEF IsSound
<1>2. new = [i \in DOMAIN c.code |-> IF i = p THEN [c.code[p] EXCEPT !.to = Here(c)] ELSE c.code[i]]
  BY <1>1
<1>3. /\ [c.code[p] EXCEPT !.to = Here(c)] \in Instr
      /\ [c.code[p] EXCEPT !.to = Here(c)].op = c.code[p].op
      /\ [c.code[p] EXCEPT !.to = Here(c)].to = Here(c)
  BY <1>1, JumpFacts
<1>4. d = [c EXCEPT !.code = new]
  BY <1>1 DEF PatchJump
<1> HIDE DEF new
<1>5. new = [i \in DOMAIN c.code |-> new[i]]
  BY <1>2
<1>6. \A i \in DOMAIN c.code \ {p} : new[i] = c.code[i]
  BY <1>2
<1>7. new[p] = [c.code[p] EXCEPT !.to = Here(c)]
  BY <1>2
<1>8. \A i \in DOMAIN c.code :
        \/ new[i] = c.code[i]
        \/ /\ new[i] \in Instr /\ new[i].op \in JumpOps /\ new[i].to <= Here(c)
           /\ c.code[i].op \in JumpOps => new[i].op = c.code[i].op
  <2>1. Here(c) <= Here(c)
    BY <1>1
  <2> QED BY <1>3, <1>6, <1>7, <2>1
<1>9. new \in Seq(Instr) /\ Len(new) = Len(c.code)
  BY <1>1, <1>5, <1>8, CodeIs
<1>10. /\ IsSound(d) /\ Keeps(c, d)
       /\ d.scopeDepth = c.scopeDepth /\ d.locals = c.locals /\ d.loop = c.loop
       /\ d.type = c.type /\ d.isFile = c.isFile /\ d.upvalues = c.upvalues
       /\ d.code = new /\ Here(d) = Here(c)
  <2>1. Len(new) = Len(c.code) /\ new \in Seq(Instr)
    BY <1>9
  <2> QED BY <1>4, <1>8, <2>1, RecodeFacts, SMTT(30)
<1> QED BY <1>3, <1>6, <1>7, <1>9, <1>10

\* Jumps get their target.
LEMMA PatchAllFacts ==
  ASSUME NEW c, IsSound(c), NEW ends, \A p \in ends : p \in DOMAIN c.code /\ c.code[p].op = "JUMP",
         NEW d, d = PatchJumps(c, ends)
  PROVE  /\ IsSound(d) /\ Keeps(c, d)
         /\ d.scopeDepth = c.scopeDepth /\ d.locals = c.locals /\ d.loop = c.loop
         /\ d.type = c.type /\ d.isFile = c.isFile /\ d.upvalues = c.upvalues
         /\ Here(d) = Here(c) /\ Len(d.code) = Len(c.code)
         /\ \A i \in ends : d.code[i] = Jump(Here(c))
         /\ \A i \in DOMAIN c.code \ ends : d.code[i] = c.code[i]
<1> DEFINE new == [i \in DOMAIN c.code |-> IF i \in ends THEN Jump(Here(c)) ELSE c.code[i]]
<1>0. Here(c) \in Nat /\ c \in Compiler /\ \A i \in DOMAIN c.code : c.code[i] \in Instr
  BY CompilerFacts DEF IsSound
<1>1. /\ c \in Compiler /\ Here(c) \in Nat
      /\ Jump(Here(c)) \in Instr /\ Jump(Here(c)).op = "JUMP" /\ Jump(Here(c)).to = Here(c)
      /\ Here(c) <= Here(c) /\ \A i \in DOMAIN c.code : c.code[i] \in Instr
  BY <1>0, Instructions
<1>2. d = [c EXCEPT !.code = new]
  BY <1>1 DEF PatchJumps
<1>3. /\ new = [i \in DOMAIN c.code |-> new[i]]
      /\ \A i \in ends : new[i] = Jump(Here(c))
      /\ \A i \in DOMAIN c.code \ ends : new[i] = c.code[i]
  OBVIOUS
<1> HIDE DEF new
<1>4. \A i \in DOMAIN c.code :
        \/ new[i] = c.code[i]
        \/ /\ new[i] \in Instr /\ new[i].op \in JumpOps /\ new[i].to <= Here(c)
           /\ c.code[i].op \in JumpOps => new[i].op = c.code[i].op
  BY <1>1, <1>3 DEF JumpOps
<1>5. new \in Seq(Instr) /\ Len(new) = Len(c.code)
  BY <1>1, <1>3, <1>4, CodeIs
<1>6. /\ IsSound(d) /\ Keeps(c, d)
      /\ d.scopeDepth = c.scopeDepth /\ d.locals = c.locals /\ d.loop = c.loop
      /\ d.type = c.type /\ d.isFile = c.isFile /\ d.upvalues = c.upvalues
      /\ d.code = new /\ Here(d) = Here(c)
  BY <1>2, <1>4, <1>5, RecodeFacts
<1> QED BY <1>3, <1>5, <1>6

\* A loop ends: its breaks get their target.
LEMMA LoopEndFacts ==
  ASSUME NEW c, IsSound(c), c.loop # <<>>,
         NEW d, d = [PatchBreaks(c, Last(c.loop).body) EXCEPT !.loop = Front(@)]
  PROVE  /\ IsSound(d) /\ Keeps(c, d)
         /\ d.scopeDepth = c.scopeDepth /\ d.locals = c.locals
         /\ d.loop = SubSeq(c.loop, 1, Len(c.loop) - 1) /\ Len(d.loop) = Len(c.loop) - 1
         /\ d.type = c.type /\ d.isFile = c.isFile /\ d.upvalues = c.upvalues
         /\ Here(d) = Here(c) /\ Len(d.code) = Len(c.code)
         /\ \A i \in DOMAIN c.code :
              d.code[i] = IF i >= c.loop[Len(c.loop)].body /\ c.code[i].op = "BREAK"
                          THEN Jump(Here(c)) ELSE c.code[i]
<1> DEFINE body == c.loop[Len(c.loop)].body
           new == [i \in DOMAIN c.code |-> IF i >= body /\ c.code[i].op = "BREAK"
                                           THEN Jump(Here(c)) ELSE c.code[i]]
           e == [c EXCEPT !.code = new]
<1>1. /\ c \in Compiler /\ Here(c) \in Nat
      /\ Jump(Here(c)) \in Instr /\ Jump(Here(c)).op = "JUMP" /\ Jump(Here(c)).to = Here(c)
      /\ c.loop \in Seq(LoopInfo) /\ Len(c.loop) \in Nat /\ DOMAIN c.loop = 1 .. Len(c.loop)
      /\ \A k \in DOMAIN c.loop : c.loop[k] \in LoopInfo
  BY CompilerFacts, Instructions DEF IsSound
<1>2. e = PatchBreaks(c, Last(c.loop).body)
  BY <1>1 DEF PatchBreaks, Last
<1>3. /\ new = [i \in DOMAIN c.code |-> new[i]]
      /\ \A i \in DOMAIN c.code : i >= body /\ c.code[i].op = "BREAK" => new[i] = Jump(Here(c))
      /\ \A i \in DOMAIN c.code : ~ (i >= body /\ c.code[i].op = "BREAK") => new[i] = c.code[i]
  OBVIOUS
<1> HIDE DEF new
<1>4. \A i \in DOMAIN c.code :
        \/ new[i] = c.code[i]
        \/ /\ new[i] \in Instr /\ new[i].op \in JumpOps /\ new[i].to <= Here(c)
           /\ c.code[i].op \in JumpOps => new[i].op = c.code[i].op
  <2> SUFFICES ASSUME NEW i \in DOMAIN c.code
               PROVE  \/ new[i] = c.code[i]
                      \/ /\ new[i] \in Instr /\ new[i].op \in JumpOps /\ new[i].to <= Here(c)
                         /\ c.code[i].op \in JumpOps => new[i].op = c.code[i].op
    OBVIOUS
  <2>1. CASE i >= body /\ c.code[i].op = "BREAK"
    <3>1. Here(c) <= Here(c)
      BY <1>1
    <3> QED BY <1>1, <1>3, <2>1, <3>1 DEF JumpOps
  <2>2. CASE ~ (i >= body /\ c.code[i].op = "BREAK")
    BY <1>3, <2>2
  <2> QED BY <2>1, <2>2
<1>41. new \in Seq(Instr) /\ Len(new) = Len(c.code)
  <2>1. \A i \in DOMAIN c.code : c.code[i] \in Instr
    BY CompilerFacts
  <2>2. \A i \in DOMAIN c.code : new[i] \in Instr
    BY <1>4, <2>1
  <2> QED BY <1>3, <2>2, CodeIs
<1>5. /\ IsSound(e) /\ Keeps(c, e)
      /\ e.scopeDepth = c.scopeDepth /\ e.locals = c.locals /\ e.loop = c.loop
      /\ e.type = c.type /\ e.isFile = c.isFile /\ e.upvalues = c.upvalues
      /\ e.code = new /\ Here(e) = Here(c) /\ Len(new) = Len(c.code)
  BY <1>4, <1>41, RecodeFacts
<1> HIDE DEF e
<1>6. e \in Compiler /\ d = [e EXCEPT !.loop = Front(c.loop)]
  BY <1>2, <1>5 DEF IsSound, Compiler
<1>7. Len(c.loop) > 0
  BY <1>1
<1>8. /\ Front(c.loop) = SubSeq(c.loop, 1, Len(c.loop) - 1) /\ Front(c.loop) \in Seq(LoopInfo)
      /\ Len(Front(c.loop)) = Len(c.loop) - 1
      /\ \A k \in 1 .. Len(c.loop) - 1 : Front(c.loop)[k] = c.loop[k]
  BY <1>1, <1>7, FrontFacts
<1>9. /\ d \in Compiler /\ d.code = new /\ d.loop = Front(c.loop) /\ d.scopeDepth = c.scopeDepth
      /\ d.locals = c.locals /\ d.type = c.type /\ d.isFile = c.isFile /\ d.upvalues = c.upvalues
  BY <1>5, <1>6, <1>8 DEF Compiler
<1>10. Here(d) = Here(c) /\ DOMAIN new = DOMAIN c.code
  BY <1>3, <1>5, <1>9 DEF Here
<1>11. ASSUME NEW i \in DOMAIN d.code
       PROVE  /\ d.code[i].op \in JumpOps => d.code[i].to <= Here(d)
              /\ d.code[i].op = "BREAK" => d.loop # <<>> /\ d.loop[1].body <= i
  <2>1. d.code[i].op \in JumpOps => d.code[i].to <= Here(d)
    BY <1>5, <1>9, <1>10 DEF IsSound
  <2>2. ASSUME d.code[i].op = "BREAK" PROVE d.loop # <<>> /\ d.loop[1].body <= i
    <3>1. ~ (i >= body /\ c.code[i].op = "BREAK") /\ c.code[i].op = "BREAK"
      BY <1>1, <1>3, <1>9, <1>10, <2>2
    <3>2. c.loop[1].body <= i
      BY <1>9, <1>10, <3>1 DEF IsSound
    <3>3. Len(c.loop) # 1
      BY <3>1, <3>2
    <3>4. Len(d.loop) # 0 /\ d.loop[1] = c.loop[1]
      <4> DEFINE n == Len(c.loop)
                 m == Len(Front(c.loop))
      <4>1. n \in Nat /\ n > 0 /\ n # 1 /\ m = n - 1
        BY <1>1, <1>7, <1>8, <3>3
      <4>2. 1 \in 1 .. n - 1 /\ m # 0
        <5> HIDE DEF n, m
        <5> QED BY <4>1
      <4> QED BY <1>8, <1>9, <4>2
    <3>5. d.loop # <<>>
      BY <3>4
    <3> QED BY <3>2, <3>4, <3>5
  <2> QED BY <2>1, <2>2
<1>12. ASSUME NEW k \in DOMAIN d.loop
       PROVE  /\ d.loop[k].start <= Here(d) /\ d.loop[k].body <= Here(d)
              /\ d.loop[k].end # 0 =>
                   d.loop[k].end \in DOMAIN d.code /\ d.code[d.loop[k].end].op = "JUMP_IF_FALSE"
  <2>1. k \in DOMAIN c.loop /\ d.loop[k] = c.loop[k]
    <3>1. DOMAIN d.loop = 1 .. Len(c.loop) - 1
      BY <1>1, <1>7, <1>9, FrontFacts
    <3>2. k \in 1 .. Len(c.loop) /\ k \in 1 .. Len(c.loop) - 1
      BY <1>1, <3>1
    <3> QED BY <1>1, <1>8, <1>9, <3>2
  <2> QED BY <1>5, <1>9, <1>10, <2>1 DEF IsSound
<1>13. IsSound(d)
  BY <1>5, <1>9, <1>11, <1>12 DEF IsSound
<1>14. Keeps(c, d)
  BY <1>5, <1>9 DEF Keeps
<1> QED BY <1>3, <1>5, <1>8, <1>9, <1>10, <1>13, <1>14

----------------------------------------------------------------------------
(* Locals and scopes. *)

\* The locals that stay are the first ones, up to the last that is not deeper.
LEMMA StayingFacts ==
  ASSUME NEW c, IsSound(c), NEW depth \in Nat
  PROVE  /\ Staying(c, depth) \in 1 .. Len(c.locals)
         /\ c.locals[Staying(c, depth)].depth <= depth
         /\ \A i \in DOMAIN c.locals : i > Staying(c, depth) => ~ (c.locals[i].depth <= depth)
<1> DEFINE S == {i \in DOMAIN c.locals : c.locals[i].depth <= depth}
<1>1. DOMAIN c.locals = 1 .. Len(c.locals) /\ Len(c.locals) \in Nat
  BY CompilerFacts
<1>2. Len(c.locals) >= 1 /\ c.locals[1].depth = 0
  BY DEF IsSound
<1>3. 1 \in S
  BY <1>1, <1>2
<1>4. S \subseteq 0 .. Len(c.locals)
  BY <1>1
<1>5. Max(S) \in S /\ \A m \in S : m <= Max(S)
  <2> HIDE DEF S
  <2> QED BY <1>1, <1>3, <1>4, MaxFacts
<1>6. Staying(c, depth) = Max(S)
  BY DEF Staying
<1>7. Staying(c, depth) \in S /\ \A i \in S : i <= Staying(c, depth)
  BY <1>5, <1>6
<1> QED BY <1>1, <1>7

\* The instructions that give up locals take them off from the last one down.
LEMMA DiscardFacts ==
  ASSUME NEW c, IsSound(c), NEW depth \in Nat
  PROVE  /\ Discards(c, depth) \in Seq(Instr)
         /\ Len(Discards(c, depth)) = Len(c.locals) - Staying(c, depth)
         /\ \A j \in 1 .. Len(c.locals) - Staying(c, depth) :
              Discards(c, depth)[j] = GiveUp(c.locals[Len(c.locals) + 1 - j])
         /\ \A j \in DOMAIN Discards(c, depth) :
              Discards(c, depth)[j].op \in {"POP", "CLOSE_UPVALUE"}
<1> DEFINE n == Len(c.locals) - Staying(c, depth)
           s == [i \in 1 .. n |-> GiveUp(c.locals[Staying(c, depth) + i])]
           t == [j \in 1 .. n |-> GiveUp(c.locals[Len(c.locals) + 1 - j])]
<1>1. Staying(c, depth) \in 1 .. Len(c.locals) /\ Len(c.locals) \in Nat
  BY CompilerFacts, StayingFacts
<1>2. n \in Nat /\ Len(s) = n
  BY <1>1
<1>3. Discards(c, depth) = [j \in 1 .. n |-> s[(n - j) + 1]]
  BY <1>2 DEF Discards, Reverse
<1>4. ASSUME NEW j \in 1 .. n PROVE s[(n - j) + 1] = t[j]
  <2>1. (n - j) + 1 \in 1 .. n
    BY <1>2
  <2>2. s[(n - j) + 1] = GiveUp(c.locals[Staying(c, depth) + ((n - j) + 1)])
    BY <2>1
  <2>3. Staying(c, depth) + ((n - j) + 1) = Len(c.locals) + 1 - j
    BY <1>1
  <2> QED BY <2>2, <2>3
<1>5. Discards(c, depth) = t
  <2> HIDE DEF s
  <2> QED BY <1>3, <1>4
<1>6. /\ t \in Seq(Instr) /\ Len(t) = n /\ DOMAIN t = 1 .. n
      /\ \A j \in 1 .. n : t[j] = GiveUp(c.locals[Len(c.locals) + 1 - j])
      /\ \A j \in 1 .. n : t[j].op \in {"POP", "CLOSE_UPVALUE"}
  <2>1. \A j \in 1 .. n : t[j] = GiveUp(c.locals[Len(c.locals) + 1 - j])
    OBVIOUS
  <2>2. \A j \in 1 .. n : t[j] \in Instr /\ t[j].op \in {"POP", "CLOSE_UPVALUE"}
    BY <2>1, Instructions
  <2>3. t \in [1 .. n -> Instr]
    BY <2>2
  <2>4. DOMAIN t = 1 .. n
    OBVIOUS
  <2> HIDE DEF t, n
  <2>5. t \in Seq(Instr) /\ Len(t) = n
    BY <1>2, <2>3
  <2> QED BY <2>1, <2>2, <2>4, <2>5
<1> QED BY <1>5, <1>6

\* A scope begins.
LEMMA BeginScopeFacts ==
  ASSUME NEW c, IsSound(c), NEW d, d = BeginScope(c)
  PROVE  /\ IsSound(d) /\ Keeps(c, d) /\ Here(d) = Here(c)
         /\ d.scopeDepth = c.scopeDepth + 1 /\ d.locals = c.locals /\ d.loop = c.loop
         /\ d.type = c.type /\ d.isFile = c.isFile /\ d.upvalues = c.upvalues /\ d.code = c.code
<1>1. c \in Compiler /\ Len(c.locals) >= 1 /\ c.locals[1].depth = 0 /\ c.scopeDepth \in Nat
  BY CompilerFacts DEF IsSound
<1> DEFINE n == c.scopeDepth + 1
<1>2. n \in Nat /\ d = [c EXCEPT !.scopeDepth = n]
  BY <1>1 DEF BeginScope
<1> HIDE DEF n
<1>3. /\ d \in Compiler
      /\ d.scopeDepth = n /\ d.locals = c.locals /\ d.loop = c.loop
      /\ d.type = c.type /\ d.isFile = c.isFile /\ d.upvalues = c.upvalues /\ d.code = c.code
  BY <1>1, <1>2 DEF Compiler
<1> QED BY <1>1, <1>3, SameCode DEF n

\* A local more.
NewLocal(n, id) == [name |-> n, depth |-> -1, isUpvalue |-> FALSE, constant |-> FALSE, id |-> id]

\* addLocal adds one local that waits for its declaration and changes nothing else.
LEMMA AddLocalFacts ==
  ASSUME NEW c, IsSound(c), NEW n \in Name \cup {Super}, NEW id \in Nat,
         NEW d, d = AddLocal(c, n, id)
  PROVE  /\ IsSound(d) /\ Keeps(c, d) /\ Here(d) = Here(c)
         /\ d.scopeDepth = c.scopeDepth /\ d.loop = c.loop
         /\ d.locals = Append(c.locals, NewLocal(n, id)) /\ Len(d.locals) = Len(c.locals) + 1
         /\ \A i \in DOMAIN c.locals : d.locals[i] = c.locals[i]
         /\ d.locals[Len(c.locals) + 1] = NewLocal(n, id)
         /\ d.type = c.type /\ d.isFile = c.isFile /\ d.upvalues = c.upvalues /\ d.code = c.code
<1>1. /\ c \in Compiler /\ Len(c.locals) >= 1 /\ c.locals[1].depth = 0
      /\ c.locals \in Seq(Local) /\ Len(c.locals) \in Nat /\ DOMAIN c.locals = 1 .. Len(c.locals)
  BY CompilerFacts DEF IsSound
<1>2. NewLocal(n, id) \in Local
  BY DEF NewLocal, Local
<1>3. /\ Append(c.locals, NewLocal(n, id)) \in Seq(Local)
      /\ Len(Append(c.locals, NewLocal(n, id))) = Len(c.locals) + 1
      /\ \A i \in 1 .. Len(c.locals) : Append(c.locals, NewLocal(n, id))[i] = c.locals[i]
      /\ Append(c.locals, NewLocal(n, id))[Len(c.locals) + 1] = NewLocal(n, id)
  BY <1>1, <1>2, AppendFacts
<1>4. /\ d \in Compiler /\ d.locals = Append(c.locals, NewLocal(n, id))
      /\ d.scopeDepth = c.scopeDepth /\ d.loop = c.loop
      /\ d.type = c.type /\ d.isFile = c.isFile /\ d.upvalues = c.upvalues /\ d.code = c.code
  BY <1>1, <1>3 DEF AddLocal, NewLocal, Compiler
<1>5. Len(d.locals) >= 1 /\ d.locals[1].depth = 0
  BY <1>1, <1>3, <1>4
<1> QED BY <1>1, <1>3, <1>4, <1>5, SameCode

\* A scope ends.
LEMMA EndScopeFacts ==
  ASSUME NEW c, IsSound(c), c.scopeDepth # 0, NEW d, d = EndScope(c)
  PROVE  /\ c.scopeDepth - 1 \in Nat /\ IsSound(d) /\ Keeps(c, d)
         /\ Here(d) = Here(c) + Len(Discards(c, c.scopeDepth - 1))
         /\ Len(Discards(c, c.scopeDepth - 1)) \in Nat
         /\ d = [Emit(c, Discards(c, c.scopeDepth - 1)) EXCEPT
                   !.scopeDepth = c.scopeDepth - 1,
                   !.locals = SubSeq(c.locals, 1, Staying(c, c.scopeDepth - 1))]
         /\ d.scopeDepth = c.scopeDepth - 1 /\ d.loop = c.loop
         /\ d.locals = SubSeq(c.locals, 1, Staying(c, c.scopeDepth - 1))
         /\ Len(d.locals) = Staying(c, c.scopeDepth - 1)
         /\ \A i \in 1 .. Len(d.locals) : d.locals[i] = c.locals[i]
         /\ d.type = c.type /\ d.isFile = c.isFile /\ d.upvalues = c.upvalues
         /\ d.code = c.code \o Discards(c, c.scopeDepth - 1)
<1> DEFINE depth == c.scopeDepth - 1
           e == Emit(c, Discards(c, depth))
           n == Staying(c, depth)
           locals == SubSeq(c.locals, 1, n)
<1>0. c.scopeDepth \in Nat
  BY CompilerFacts
<1>1. /\ c \in Compiler /\ Len(c.locals) >= 1 /\ c.locals[1].depth = 0 /\ depth \in Nat
      /\ c.locals \in Seq(Local) /\ Len(c.locals) \in Nat /\ DOMAIN c.locals = 1 .. Len(c.locals)
  <2>1. c \in Compiler /\ Len(c.locals) >= 1 /\ c.locals[1].depth = 0
    BY DEF IsSound
  <2>2. depth \in Nat
    BY <1>0
  <2> QED BY <2>1, <2>2, CompilerFacts
<1> HIDE DEF depth
<1>2. /\ Discards(c, depth) \in Seq(Instr) /\ Len(Discards(c, depth)) \in Nat
      /\ \A j \in DOMAIN Discards(c, depth) : Discards(c, depth)[j].op \in {"POP", "CLOSE_UPVALUE"}
      /\ n \in 1 .. Len(c.locals)
  <2>1. n \in 1 .. Len(c.locals)
    BY <1>1, StayingFacts
  <2>2. /\ Discards(c, depth) \in Seq(Instr)
        /\ \A j \in DOMAIN Discards(c, depth) : Discards(c, depth)[j].op \in {"POP", "CLOSE_UPVALUE"}
    BY <1>1, DiscardFacts
  <2>3. Len(Discards(c, depth)) \in Nat
    BY <2>2
  <2> QED BY <2>1, <2>2, <2>3
<1>3. /\ IsSound(e) /\ Keeps(c, e) /\ Here(e) = Here(c) + Len(Discards(c, depth))
      /\ e.scopeDepth = c.scopeDepth /\ e.locals = c.locals /\ e.loop = c.loop
      /\ e.type = c.type /\ e.isFile = c.isFile /\ e.upvalues = c.upvalues
      /\ e.code = c.code \o Discards(c, depth)
  BY <1>2, EmitFacts DEF JumpOps
<1>4. /\ locals \in Seq(Local) /\ Len(locals) = n /\ \A i \in 1 .. n : locals[i] = c.locals[i]
  BY <1>1, <1>2, PrefixFacts
<1>5. locals[1].depth = 0 /\ Len(locals) >= 1
  BY <1>1, <1>2, <1>4
<1>6. d = [e EXCEPT !.scopeDepth = depth, !.locals = locals]
  BY <1>3 DEF EndScope, depth
<1> HIDE DEF e, locals, n
<1>7. /\ IsSound(d) /\ Keeps(e, d) /\ Here(d) = Here(e)
      /\ d.scopeDepth = depth /\ d.locals = locals /\ d.loop = e.loop
      /\ d.type = e.type /\ d.isFile = e.isFile /\ d.upvalues = e.upvalues /\ d.code = e.code
  <2>1. e \in Compiler
    BY <1>3 DEF IsSound
  <2>2. /\ d \in Compiler /\ d.scopeDepth = depth /\ d.locals = locals /\ d.loop = e.loop
        /\ d.type = e.type /\ d.isFile = e.isFile /\ d.upvalues = e.upvalues /\ d.code = e.code
    BY <1>1, <1>4, <1>6, <2>1 DEF Compiler
  <2> QED BY <1>3, <1>5, <2>2, SameCode
<1>8. Keeps(c, d)
  BY <1>3, <1>7 DEF Keeps
<1> QED BY <1>1, <1>2, <1>3, <1>4, <1>6, <1>7, <1>8 DEF depth, e, n, locals

\* A variable is defined: a local gets its depth, a global leaves the stack.
LEMMA DefineFacts ==
  ASSUME NEW c, IsSound(c), c.scopeDepth # 0 => Len(c.locals) >= 2, NEW constant \in BOOLEAN,
         NEW d, d = DefineVariable(c, constant)
  PROVE  /\ IsSound(d) /\ Keeps(c, d)
         /\ d.scopeDepth = c.scopeDepth /\ d.loop = c.loop /\ Len(d.locals) = Len(c.locals)
         /\ d.type = c.type /\ d.isFile = c.isFile /\ d.upvalues = c.upvalues
         /\ c.scopeDepth = 0 => d = Emit(c, <<PopTop>>)
         /\ c.scopeDepth # 0 =>
              /\ d.code = c.code
              /\ d.locals = [c.locals EXCEPT ![Len(c.locals)].depth = c.scopeDepth,
                                             ![Len(c.locals)].constant = constant]
              /\ \A i \in 1 .. Len(c.locals) - 1 : d.locals[i] = c.locals[i]
              /\ d.locals[Len(c.locals)] = [c.locals[Len(c.locals)] EXCEPT
                                              !.depth = c.scopeDepth, !.constant = constant]
<1>1. /\ c \in Compiler /\ c.locals[1].depth = 0 /\ c.scopeDepth \in Nat
      /\ c.locals \in Seq(Local) /\ Len(c.locals) \in Nat /\ DOMAIN c.locals = 1 .. Len(c.locals)
      /\ \A i \in DOMAIN c.locals : c.locals[i] \in Local
  BY CompilerFacts DEF IsSound
<1>2. CASE c.scopeDepth = 0
  <2>1. d = Emit(c, <<PopTop>>)
    BY <1>2 DEF DefineVariable
  <2>2. /\ PopTop \in Instr /\ PopTop.op \notin JumpOps /\ PopTop.op # "BREAK"
    BY Instructions DEF JumpOps
  <2>3. /\ IsSound(d) /\ Keeps(c, d)
        /\ d.scopeDepth = c.scopeDepth /\ d.locals = c.locals /\ d.loop = c.loop
        /\ d.type = c.type /\ d.isFile = c.isFile /\ d.upvalues = c.upvalues
    BY <2>1, <2>2, EmitOneFacts
  <2> QED BY <1>2, <2>1, <2>3
<1>3. CASE c.scopeDepth # 0
  <2> DEFINE n == Len(c.locals)
             one == [c.locals[n] EXCEPT !.depth = c.scopeDepth, !.constant = constant]
             locals == [i \in 1 .. n |-> IF i = n THEN one ELSE c.locals[i]]
  <2>1. n \in Nat /\ n >= 2 /\ c.locals[n] \in Local
    BY <1>1, <1>3
  <2>2. one \in Local
    BY <1>1, <2>1 DEF Local
  <2>3. locals = [c.locals EXCEPT ![n].depth = c.scopeDepth, ![n].constant = constant]
    BY <1>1, <2>1
  <2>4. d = [c EXCEPT !.locals = locals]
    BY <1>1, <1>3, <2>3 DEF DefineVariable, Compiler
  <2> HIDE DEF one
  <2>6. locals \in [1 .. n -> Local]
    BY <1>1, <2>2
  <2>7. locals[n] = one /\ \A i \in 1 .. n - 1 : locals[i] = c.locals[i]
    BY <2>1
  <2> HIDE DEF n, locals
  <2>8. locals \in Seq(Local) /\ Len(locals) = n
    BY <2>1, <2>6
  <2>9. locals[1].depth = 0 /\ Len(locals) >= 1
    BY <1>1, <2>1, <2>7, <2>8
  <2>10. /\ IsSound(d) /\ Keeps(c, d) /\ Here(d) = Here(c)
         /\ d.scopeDepth = c.scopeDepth /\ d.locals = locals /\ d.loop = c.loop
         /\ d.type = c.type /\ d.isFile = c.isFile /\ d.upvalues = c.upvalues /\ d.code = c.code
    <3>1. /\ d \in Compiler /\ d.scopeDepth = c.scopeDepth /\ d.locals = locals /\ d.loop = c.loop
          /\ d.type = c.type /\ d.isFile = c.isFile /\ d.upvalues = c.upvalues /\ d.code = c.code
      BY <1>1, <2>4, <2>8 DEF Compiler
    <3> QED BY <2>9, <3>1, SameCode
  <2> QED BY <1>3, <2>3, <2>7, <2>8, <2>10 DEF n, one
<1> QED BY <1>2, <1>3

\* A loop begins.
LEMMA BeginLoopFacts ==
  ASSUME NEW c, IsSound(c), NEW start \in Nat, start <= Here(c), NEW end \in Nat,
         end # 0 => end \in DOMAIN c.code /\ c.code[end].op = "JUMP_IF_FALSE",
         NEW d, d = BeginLoop(c, start, end)
  PROVE  /\ IsSound(d) /\ Keeps(c, d) /\ Here(d) = Here(c)
         /\ d.scopeDepth = c.scopeDepth /\ d.locals = c.locals
         /\ d.loop = Append(c.loop, [start |-> start, end |-> end, body |-> Here(c),
                                     scopeDepth |-> c.scopeDepth])
         /\ Len(d.loop) = Len(c.loop) + 1
         /\ \A k \in 1 .. Len(c.loop) : d.loop[k] = c.loop[k]
         /\ d.loop[Len(c.loop) + 1] = [start |-> start, end |-> end, body |-> Here(c),
                                       scopeDepth |-> c.scopeDepth]
         /\ d.type = c.type /\ d.isFile = c.isFile /\ d.upvalues = c.upvalues /\ d.code = c.code
<1> DEFINE one == [start |-> start, end |-> end, body |-> Here(c), scopeDepth |-> c.scopeDepth]
<1>1. /\ c \in Compiler /\ c.scopeDepth \in Nat /\ Here(c) \in Nat
      /\ c.loop \in Seq(LoopInfo) /\ Len(c.loop) \in Nat /\ DOMAIN c.loop = 1 .. Len(c.loop)
      /\ Len(c.locals) >= 1 /\ c.locals[1].depth = 0
  BY CompilerFacts DEF IsSound
<1>2. one \in LoopInfo
  BY <1>1 DEF LoopInfo
<1>3. /\ d.loop = Append(c.loop, one) /\ d.scopeDepth = c.scopeDepth /\ d.locals = c.locals
      /\ d.type = c.type /\ d.isFile = c.isFile /\ d.upvalues = c.upvalues /\ d.code = c.code
      /\ d = [c EXCEPT !.loop = Append(c.loop, one)]
  BY <1>1 DEF BeginLoop, Compiler
<1>4. /\ one.start = start /\ one.end = end /\ one.body = Here(c)
  OBVIOUS
<1> HIDE DEF one
<1>5. /\ Append(c.loop, one) \in Seq(LoopInfo) /\ Len(Append(c.loop, one)) = Len(c.loop) + 1
      /\ \A k \in 1 .. Len(c.loop) : Append(c.loop, one)[k] = c.loop[k]
      /\ Append(c.loop, one)[Len(c.loop) + 1] = one
      /\ DOMAIN Append(c.loop, one) = 1 .. Len(c.loop) + 1
  BY <1>1, <1>2, AppendFacts
<1>6. d \in Compiler
  BY <1>1, <1>3, <1>5 DEF Compiler
<1>7. Here(d) = Here(c) /\ Here(c) <= Here(c)
  BY <1>1, <1>3 DEF Here
<1>8. ASSUME NEW i \in DOMAIN d.code
      PROVE  /\ d.code[i].op \in JumpOps => d.code[i].to <= Here(d)
             /\ d.code[i].op = "BREAK" => d.loop # <<>> /\ d.loop[1].body <= i
  <2>1. /\ c.code[i].op \in JumpOps => c.code[i].to <= Here(c)
        /\ c.code[i].op = "BREAK" => c.loop # <<>> /\ c.loop[1].body <= i
    BY <1>3 DEF IsSound
  <2>2. ASSUME c.loop # <<>> PROVE d.loop # <<>> /\ d.loop[1] = c.loop[1]
    <3>1. 1 \in 1 .. Len(c.loop) /\ Len(c.loop) + 1 # 0
      BY <1>1, <2>2
    <3>2. d.loop[1] = c.loop[1] /\ Len(d.loop) # 0
      BY <1>3, <1>5, <3>1
    <3> QED BY <3>2
  <2> QED BY <1>3, <1>7, <2>1, <2>2
<1>9. ASSUME NEW k \in DOMAIN d.loop
      PROVE  /\ d.loop[k].start <= Here(d) /\ d.loop[k].body <= Here(d)
             /\ d.loop[k].end # 0 =>
                  d.loop[k].end \in DOMAIN d.code /\ d.code[d.loop[k].end].op = "JUMP_IF_FALSE"
  <2>1. CASE k \in 1 .. Len(c.loop)
    <3>1. d.loop[k] = c.loop[k] /\ k \in DOMAIN c.loop
      BY <1>1, <1>3, <1>5, <2>1
    <3> QED BY <1>3, <1>7, <3>1 DEF IsSound
  <2>2. CASE k = Len(c.loop) + 1
    <3>1. d.loop[k] = one
      BY <1>3, <1>5, <2>2
    <3> QED BY <1>3, <1>4, <1>7, <3>1
  <2>3. k \in 1 .. Len(c.loop) \/ k = Len(c.loop) + 1
    <3> DEFINE n == Len(c.loop)
    <3>0. DOMAIN d.loop = DOMAIN Append(c.loop, one)
      BY <1>3
    <3>1. n \in Nat /\ k \in 1 .. n + 1
      BY <1>1, <1>5, <3>0, Zenon
    <3>2. k \in 1 .. n \/ k = n + 1
      <4> HIDE DEF n
      <4> QED BY <3>1
    <3> QED BY <3>2
  <2> QED BY <2>1, <2>2, <2>3
<1>10. IsSound(d)
  BY <1>1, <1>3, <1>6, <1>8, <1>9 DEF IsSound
<1>11. Keeps(c, d)
  <2>1. Len(c.code) <= Len(c.code)
    <3>1. Len(c.code) \in Nat
      BY CompilerFacts
    <3> QED BY <3>1
  <2> QED BY <1>3, <2>1 DEF Keeps
<1> QED BY <1>3, <1>5, <1>7, <1>10, <1>11 DEF one

----------------------------------------------------------------------------
(* The productions being parsed, and the compilers they are parsed with. *)

\* Where an entry of open is: in which function, at what depth, in how many loops
\* of the function, and in how many scopes of the program.
Mark == [level : Nat, depth : Nat, loops : Nat, scopes : Nat]

ScopesOf(entry) == IF entry.kind = "for" THEN 2 ELSE 1

LoopsOf(entry) == IF entry.kind \in {"while", "for"} THEN 1 ELSE 0

Within(m, entry) ==
  IF entry.kind = "function"
  THEN [level |-> m.level + 1, depth |-> 1, loops |-> 0, scopes |-> m.scopes + 1]
  ELSE [level |-> m.level, depth |-> m.depth + ScopesOf(entry), loops |-> m.loops + LoopsOf(entry),
        scopes |-> m.scopes + ScopesOf(entry)]

\* What a mark within another is.
LEMMA WithinFacts ==
  ASSUME NEW m \in Mark, NEW entry
  PROVE  /\ Within(m, entry) \in Mark
         /\ entry.kind = "function" =>
              /\ Within(m, entry).level = m.level + 1 /\ Within(m, entry).depth = 1
              /\ Within(m, entry).loops = 0 /\ Within(m, entry).scopes = m.scopes + 1
         /\ entry.kind # "function" =>
              /\ Within(m, entry).level = m.level
              /\ Within(m, entry).depth = m.depth + ScopesOf(entry)
              /\ Within(m, entry).loops = m.loops + LoopsOf(entry)
              /\ Within(m, entry).scopes = m.scopes + ScopesOf(entry)
         /\ ScopesOf(entry) \in Nat /\ LoopsOf(entry) \in Nat
<1>1. m.level \in Nat /\ m.depth \in Nat /\ m.loops \in Nat /\ m.scopes \in Nat
  BY DEF Mark
<1>2. ScopesOf(entry) \in Nat /\ LoopsOf(entry) \in Nat
  BY DEF ScopesOf, LoopsOf
<1>3. CASE entry.kind = "function"
  BY <1>1, <1>2, <1>3 DEF Within, Mark
<1>4. CASE entry.kind # "function"
  BY <1>1, <1>2, <1>4 DEF Within, Mark
<1> QED BY <1>2, <1>3, <1>4

\* The jumps that an entry remembers are there.
EntryFits(c, entry) ==
  /\ entry.kind = "then" => entry.elseJump \in DOMAIN c.code
                            /\ c.code[entry.elseJump].op = "JUMP_IF_FALSE"
  /\ entry.kind = "case" => entry.compareJump \in DOMAIN c.code
                            /\ c.code[entry.compareJump].op = "COMPARE_JUMP"
  /\ entry.kind \in {"case", "rest"} =>
       \A p \in entry.ends : p \in DOMAIN c.code /\ c.code[p].op = "JUMP"

\* The compiler of the function that entry m is in, while it is in no entry within m.
CompilerFits(c, m) == c.scopeDepth = m.depth /\ Len(c.loop) = m.loops

\* Below a function's entry: a local waits for its value.
Waiting(c, entry) ==
  c.scopeDepth # 0 => /\ Len(c.locals) >= 2 /\ c.locals[Len(c.locals)].depth = -1
                      /\ c.locals[Len(c.locals)].name = entry.name
                      /\ c.locals[Len(c.locals)].id = entry.id

Parsed(ms, cs, o, e) ==
  /\ o \in Seq(Entry) /\ Len(o) >= 1 /\ e \in Seq([Name -> Nat])
  /\ cs \in Seq(Compiler) /\ \A l \in DOMAIN cs : IsSound(cs[l])
  /\ ms \in Seq(Mark) /\ Len(ms) = Len(o)
  /\ o[1].kind = "program" /\ \A i \in 2 .. Len(o) : o[i].kind # "program"
  /\ ms[1].level = 1 /\ ms[1].loops = 0 /\ ms[1].scopes = ms[1].depth
  /\ \A i \in 2 .. Len(o) : ms[i] = Within(ms[i - 1], o[i])
  /\ Len(cs) = ms[Len(o)].level /\ Len(e) = ms[Len(o)].scopes
  /\ CompilerFits(cs[Len(cs)], ms[Len(o)])
  /\ \A i \in 2 .. Len(o) : o[i].kind = "function" =>
       /\ o[i].level = ms[i - 1].level /\ CompilerFits(cs[ms[i - 1].level], ms[i - 1])
       /\ Waiting(cs[ms[i - 1].level], o[i])
  /\ \A i \in 2 .. Len(o) : EntryFits(cs[ms[i].level], o[i])

\* Marks go up.
LEMMA MarkFacts ==
  ASSUME NEW ms, NEW cs, NEW o, NEW e, Parsed(ms, cs, o, e)
  PROVE  /\ Len(o) \in Nat /\ Len(cs) \in Nat /\ Len(e) \in Nat /\ Len(cs) >= 1
         /\ DOMAIN cs = 1 .. Len(cs) /\ DOMAIN o = 1 .. Len(o)
         /\ \A i \in 1 .. Len(o) : ms[i] \in Mark /\ o[i] \in Entry /\ ms[i].level \in 1 .. Len(cs)
         /\ \A i \in 2 .. Len(o) : o[i].kind = "function" => ms[i - 1].level \in 1 .. Len(cs) - 1
<1>1. /\ Len(o) \in Nat /\ Len(cs) \in Nat /\ Len(e) \in Nat
      /\ DOMAIN cs = 1 .. Len(cs) /\ DOMAIN o = 1 .. Len(o)
      /\ \A i \in 1 .. Len(o) : ms[i] \in Mark /\ o[i] \in Entry
  BY DEF Parsed
<1>2. ASSUME NEW i \in 2 .. Len(o)
      PROVE  /\ i - 1 \in 1 .. Len(o) /\ ms[i].level \in Nat /\ ms[i - 1].level \in Nat
             /\ ms[i - 1].level <= ms[i].level
             /\ o[i].kind = "function" => ms[i].level = ms[i - 1].level + 1
  <2>1. i - 1 \in 1 .. Len(o) /\ i \in 1 .. Len(o)
    BY <1>1
  <2>2. ms[i] \in Mark /\ ms[i - 1] \in Mark
    BY <1>1, <2>1
  <2>3. ms[i].level \in Nat /\ ms[i - 1].level \in Nat
    BY <2>2 DEF Mark
  <2>4. ms[i] = Within(ms[i - 1], o[i])
    BY DEF Parsed
  <2>5. IF o[i].kind = "function" THEN ms[i].level = ms[i - 1].level + 1
        ELSE ms[i].level = ms[i - 1].level
    BY <2>4 DEF Within
  <2> QED BY <2>1, <2>3, <2>5
<1>3. Len(o) >= 1 /\ Len(cs) = ms[Len(o)].level /\ ms[1].level = 1
  BY DEF Parsed
<1> DEFINE Up == {n \in 0 .. Len(o) - 1 : ms[n + 1].level >= 1}
           Down == {n \in 0 .. Len(o) - 1 : ms[Len(o) - n].level <= Len(cs)}
<1>4. 0 .. Len(o) - 1 \subseteq Up
  <2>1. 0 \in Up
    BY <1>1, <1>3
  <2>2. ASSUME NEW n \in 1 .. Len(o) - 1, n - 1 \in Up PROVE n \in Up
    <3>1. n + 1 \in 2 .. Len(o) /\ (n + 1) - 1 = n /\ (n - 1) + 1 = n
      BY <1>1
    <3>2. ms[n].level >= 1
      BY <2>2, <3>1
    <3>3. ms[n].level \in Nat /\ ms[n + 1].level \in Nat /\ ms[n].level <= ms[n + 1].level
      BY <1>2, <3>1
    <3> QED BY <1>1, <2>2, <3>2, <3>3
  <2>3. Len(o) - 1 \in Nat
    BY <1>1, <1>3
  <2> HIDE DEF Up
  <2> QED BY <2>1, <2>2, <2>3, Upward
<1>5. 0 .. Len(o) - 1 \subseteq Down
  <2>1. 0 \in Down
    BY <1>1, <1>3
  <2>2. ASSUME NEW n \in 1 .. Len(o) - 1, n - 1 \in Down PROVE n \in Down
    <3> DEFINE i == Len(o) - (n - 1)
    <3>1. i \in 2 .. Len(o) /\ Len(o) - n = i - 1
      BY <1>1
    <3>2. ms[i].level <= Len(cs)
      BY <2>2
    <3> HIDE DEF i
    <3>3. ms[i].level \in Nat /\ ms[i - 1].level \in Nat /\ ms[i - 1].level <= ms[i].level
      BY <1>2, <3>1
    <3>4. ms[i - 1].level <= Len(cs)
      BY <1>1, <3>2, <3>3
    <3> QED BY <1>1, <2>2, <3>1, <3>4
  <2>3. Len(o) - 1 \in Nat
    BY <1>1, <1>3
  <2> HIDE DEF Down
  <2> QED BY <2>1, <2>2, <2>3, Upward
<1>6. ASSUME NEW i \in 1 .. Len(o) PROVE ms[i].level \in 1 .. Len(cs)
  <2>1. i - 1 \in 0 .. Len(o) - 1 /\ (i - 1) + 1 = i
        /\ Len(o) - i \in 0 .. Len(o) - 1 /\ Len(o) - (Len(o) - i) = i
    BY <1>1
  <2>2. i - 1 \in Up /\ Len(o) - i \in Down
    BY <1>4, <1>5, <2>1
  <2>3. ms[i].level >= 1 /\ ms[i].level <= Len(cs)
    BY <2>1, <2>2
  <2>4. ms[i].level \in Nat
    BY <1>1 DEF Mark
  <2> QED BY <1>1, <2>3, <2>4
<1>7. Len(cs) >= 1
  BY <1>1, <1>3, <1>6
<1>8. ASSUME NEW i \in 2 .. Len(o), o[i].kind = "function" PROVE ms[i - 1].level \in 1 .. Len(cs) - 1
  <2>1. i \in 1 .. Len(o) /\ i - 1 \in 1 .. Len(o)
    BY <1>1
  <2>2. ms[i].level \in 1 .. Len(cs) /\ ms[i - 1].level \in 1 .. Len(cs)
    BY <1>6, <2>1
  <2>3. ms[i].level = ms[i - 1].level + 1
    BY <1>2, <1>8
  <2> QED BY <1>1, <2>2, <2>3
<1> QED BY <1>1, <1>6, <1>7, <1>8

\* What a statement does to the compiler it is read with, and to those around it.
Like(c, d) ==
  /\ IsSound(d) /\ Keeps(c, d) /\ d.scopeDepth = c.scopeDepth /\ Len(d.loop) = Len(c.loop)
  /\ d.type = c.type

SameLocals(c, d) ==
  /\ Len(d.locals) = Len(c.locals)
  /\ \A i \in DOMAIN c.locals :
       /\ d.locals[i].name = c.locals[i].name /\ d.locals[i].depth = c.locals[i].depth
       /\ d.locals[i].constant = c.locals[i].constant /\ d.locals[i].id = c.locals[i].id

Beside(cs, ds) ==
  /\ ds \in Seq(Compiler) /\ Len(ds) = Len(cs)
  /\ \A l \in 1 .. Len(cs) - 1 : Like(cs[l], ds[l]) /\ SameLocals(cs[l], ds[l])

\* Jumps that an entry remembers are kept.
LEMMA EntryStays ==
  ASSUME NEW c, IsSound(c), NEW d, IsSound(d), Keeps(c, d), NEW entry, EntryFits(c, entry)
  PROVE  EntryFits(d, entry)
<1>1. /\ DOMAIN c.code = 1 .. Len(c.code) /\ Len(c.code) \in Nat
      /\ DOMAIN d.code = 1 .. Len(d.code) /\ Len(d.code) \in Nat
  BY CompilerFacts
<1>2. DOMAIN c.code \subseteq DOMAIN d.code
  BY <1>1 DEF Keeps
<1> QED BY <1>2 DEF EntryFits, Keeps, JumpOps

\* A compiler around others goes on to fit its mark and to wait.
LEMMA OuterStays ==
  ASSUME NEW c, NEW d, Like(c, d), NEW m, CompilerFits(c, m)
  PROVE  CompilerFits(d, m)
BY DEF Like, CompilerFits

\* A compiler that keeps its locals goes on waiting as before.
LEMMA WaitingStays ==
  ASSUME NEW c, IsSound(c), NEW d, Like(c, d), SameLocals(c, d), NEW entry, Waiting(c, entry)
  PROVE  Waiting(d, entry)
<1>1. DOMAIN c.locals = 1 .. Len(c.locals) /\ Len(c.locals) \in Nat
  BY CompilerFacts
<1>2. Len(c.locals) >= 2 => Len(c.locals) \in DOMAIN c.locals
  BY <1>1
<1> QED BY <1>2 DEF Waiting, Like, SameLocals

\* The parser stays in the entry it is in.
LEMMA Stays ==
  ASSUME NEW ms, NEW cs, NEW o, NEW e, Parsed(ms, cs, o, e),
         NEW ds, Beside(cs, ds), Like(cs[Len(cs)], ds[Len(cs)]),
         NEW f \in Seq([Name -> Nat]), Len(f) = Len(e)
  PROVE  Parsed(ms, ds, o, f)
<1>1. /\ Len(o) \in Nat /\ Len(cs) \in Nat /\ Len(e) \in Nat /\ Len(cs) >= 1
      /\ DOMAIN cs = 1 .. Len(cs) /\ DOMAIN o = 1 .. Len(o)
      /\ \A i \in 1 .. Len(o) : ms[i] \in Mark /\ o[i] \in Entry /\ ms[i].level \in 1 .. Len(cs)
      /\ \A i \in 2 .. Len(o) : o[i].kind = "function" => ms[i - 1].level \in 1 .. Len(cs) - 1
  BY MarkFacts
<1>2. /\ ds \in Seq(Compiler) /\ Len(ds) = Len(cs) /\ DOMAIN ds = 1 .. Len(cs)
      /\ \A l \in 1 .. Len(cs) : Like(cs[l], ds[l])
      /\ \A l \in 1 .. Len(cs) - 1 : SameLocals(cs[l], ds[l])
  BY <1>1 DEF Beside
<1>3. \A l \in 1 .. Len(cs) : IsSound(cs[l]) /\ IsSound(ds[l]) /\ Keeps(cs[l], ds[l])
  BY <1>1, <1>2 DEF Parsed, Like
<1>4. ASSUME NEW i \in 2 .. Len(o) PROVE EntryFits(ds[ms[i].level], o[i])
  <2>1. ms[i].level \in 1 .. Len(cs)
    BY <1>1
  <2>2. EntryFits(cs[ms[i].level], o[i])
    BY DEF Parsed
  <2> QED BY <1>3, <2>1, <2>2, EntryStays
<1>5. ASSUME NEW i \in 2 .. Len(o), o[i].kind = "function"
      PROVE  /\ o[i].level = ms[i - 1].level /\ CompilerFits(ds[ms[i - 1].level], ms[i - 1])
             /\ Waiting(ds[ms[i - 1].level], o[i])
  <2>1. /\ o[i].level = ms[i - 1].level /\ CompilerFits(cs[ms[i - 1].level], ms[i - 1])
        /\ Waiting(cs[ms[i - 1].level], o[i])
    BY <1>5 DEF Parsed
  <2>2. ms[i - 1].level \in 1 .. Len(cs) - 1 /\ ms[i - 1].level \in 1 .. Len(cs)
    BY <1>1, <1>5
  <2>3. /\ Like(cs[ms[i - 1].level], ds[ms[i - 1].level]) /\ IsSound(cs[ms[i - 1].level])
        /\ SameLocals(cs[ms[i - 1].level], ds[ms[i - 1].level])
    BY <1>2, <1>3, <2>2
  <2> QED BY <2>1, <2>3, OuterStays, WaitingStays
<1>6. CompilerFits(ds[Len(ds)], ms[Len(o)])
  <2>1. CompilerFits(cs[Len(cs)], ms[Len(o)])
    BY DEF Parsed
  <2>2. Like(cs[Len(cs)], ds[Len(cs)]) /\ Len(ds) = Len(cs)
    BY <1>2
  <2> QED BY <2>1, <2>2, OuterStays
<1>7. \A l \in DOMAIN ds : IsSound(ds[l])
  BY <1>2, <1>3
<1>8. /\ o \in Seq(Entry) /\ Len(o) >= 1 /\ ms \in Seq(Mark) /\ Len(ms) = Len(o)
      /\ o[1].kind = "program" /\ \A i \in 2 .. Len(o) : o[i].kind # "program"
      /\ ms[1].level = 1 /\ ms[1].loops = 0 /\ ms[1].scopes = ms[1].depth
      /\ \A i \in 2 .. Len(o) : ms[i] = Within(ms[i - 1], o[i])
      /\ Len(ds) = ms[Len(o)].level /\ Len(f) = ms[Len(o)].scopes
  BY <1>2 DEF Parsed
<1> QED BY <1>2, <1>4, <1>5, <1>6, <1>7, <1>8 DEF Parsed

\* The parser enters a part of a statement.
LEMMA Opens ==
  ASSUME NEW ms, NEW cs, NEW o, NEW e, Parsed(ms, cs, o, e),
         NEW entry \in Entry, entry.kind \notin {"program", "function"},
         NEW ds, Beside(cs, ds), NEW d, d = ds[Len(cs)],
         IsSound(d), Keeps(cs[Len(cs)], d), EntryFits(d, entry),
         d.scopeDepth = cs[Len(cs)].scopeDepth + ScopesOf(entry),
         Len(d.loop) = Len(cs[Len(cs)].loop) + LoopsOf(entry),
         NEW f \in Seq([Name -> Nat]), Len(f) = Len(e) + ScopesOf(entry)
  PROVE  Parsed(Append(ms, Within(ms[Len(o)], entry)), ds, Append(o, entry), f)
<1> DEFINE n == Len(o)
           m == Within(ms[n], entry)
           ns == Append(ms, m)
           p == Append(o, entry)
<1>1. /\ n \in Nat /\ Len(cs) \in Nat /\ Len(e) \in Nat /\ Len(cs) >= 1 /\ n >= 1
      /\ DOMAIN cs = 1 .. Len(cs) /\ DOMAIN o = 1 .. n
      /\ \A i \in 1 .. n : ms[i] \in Mark /\ o[i] \in Entry /\ ms[i].level \in 1 .. Len(cs)
      /\ \A i \in 2 .. n : o[i].kind = "function" => ms[i - 1].level \in 1 .. Len(cs) - 1
  BY MarkFacts DEF Parsed
<1>2. /\ ds \in Seq(Compiler) /\ Len(ds) = Len(cs) /\ DOMAIN ds = 1 .. Len(cs)
      /\ \A l \in 1 .. Len(cs) - 1 : Like(cs[l], ds[l]) /\ SameLocals(cs[l], ds[l])
  BY <1>1 DEF Beside
<1>3. \A l \in 1 .. Len(cs) : IsSound(cs[l]) /\ IsSound(ds[l]) /\ Keeps(cs[l], ds[l])
  <2>1. \A l \in 1 .. Len(cs) - 1 : IsSound(ds[l]) /\ Keeps(cs[l], ds[l])
    BY <1>2 DEF Like
  <2>2. \A l \in 1 .. Len(cs) : IsSound(cs[l])
    BY <1>1 DEF Parsed
  <2>3. IsSound(ds[Len(cs)]) /\ Keeps(cs[Len(cs)], ds[Len(cs)])
    OBVIOUS
  <2>4. \A l \in 1 .. Len(cs) : l \in 1 .. Len(cs) - 1 \/ l = Len(cs)
    <3>1. Len(cs) \in Nat /\ Len(cs) >= 1
      BY <1>1
    <3> QED BY <3>1, Positions
  <2> QED BY <2>1, <2>2, <2>3, <2>4
<1>4. /\ o \in Seq(Entry) /\ ms \in Seq(Mark) /\ Len(ms) = n
      /\ o[1].kind = "program" /\ \A i \in 2 .. n : o[i].kind # "program"
      /\ ms[1].level = 1 /\ ms[1].loops = 0 /\ ms[1].scopes = ms[1].depth
      /\ \A i \in 2 .. n : ms[i] = Within(ms[i - 1], o[i])
      /\ Len(cs) = ms[n].level /\ Len(e) = ms[n].scopes
      /\ CompilerFits(cs[Len(cs)], ms[n])
      /\ \A i \in 2 .. n : o[i].kind = "function" =>
           /\ o[i].level = ms[i - 1].level /\ CompilerFits(cs[ms[i - 1].level], ms[i - 1])
           /\ Waiting(cs[ms[i - 1].level], o[i])
      /\ \A i \in 2 .. n : EntryFits(cs[ms[i].level], o[i])
  BY DEF Parsed
<1>5. /\ m \in Mark /\ m.level = ms[n].level /\ m.depth = ms[n].depth + ScopesOf(entry)
      /\ m.loops = ms[n].loops + LoopsOf(entry) /\ m.scopes = ms[n].scopes + ScopesOf(entry)
  <2>1. ms[n] \in Mark
    BY <1>1
  <2> HIDE DEF n
  <2> QED BY <2>1, WithinFacts DEF m
<1>6. /\ ns \in Seq(Mark) /\ Len(ns) = n + 1 /\ \A i \in 1 .. n : ns[i] = ms[i]
      /\ ns[n + 1] = m
  <2> HIDE DEF m, n
  <2> QED BY <1>4, <1>5, AppendFacts
<1>7. /\ p \in Seq(Entry) /\ Len(p) = n + 1 /\ p[n + 1] = entry
      /\ \A i \in 1 .. n : p[i] = o[i]
  BY <1>4, AppendFacts
<1> HIDE DEF m, n, ns, p
<1>8. \A i \in 2 .. n + 1 : /\ i = n + 1 => i - 1 = n
                            /\ i # n + 1 => i \in 2 .. n /\ i \in 1 .. n
                            /\ i - 1 \in 1 .. n
  BY <1>1
<1>9. Len(p) >= 1 /\ ns[1] = ms[1] /\ p[1] = o[1]
  BY <1>1, <1>6, <1>7
<1>10. \A i \in 2 .. n + 1 : p[i].kind # "program"
  BY <1>4, <1>7, <1>8
<1>11. ASSUME NEW i \in 2 .. n + 1 PROVE ns[i] = Within(ns[i - 1], p[i])
  <2>1. CASE i = n + 1
    <3>1. i - 1 = n /\ n \in 1 .. n
      BY <1>8, <2>1
    <3> QED BY <1>6, <1>7, <2>1, <3>1 DEF m
  <2>2. CASE i # n + 1
    <3>1. i \in 2 .. n /\ i \in 1 .. n /\ i - 1 \in 1 .. n
      BY <1>8, <2>2
    <3> QED BY <1>4, <1>6, <1>7, <3>1
  <2> QED BY <2>1, <2>2
<1>12. Len(ds) = ns[n + 1].level /\ Len(f) = ns[n + 1].scopes
  BY <1>2, <1>4, <1>5, <1>6
<1>13. CompilerFits(ds[Len(ds)], ns[n + 1])
  BY <1>2, <1>4, <1>5, <1>6 DEF CompilerFits
<1>14. ASSUME NEW i \in 2 .. n + 1, p[i].kind = "function"
       PROVE  /\ p[i].level = ns[i - 1].level /\ CompilerFits(ds[ns[i - 1].level], ns[i - 1])
              /\ Waiting(ds[ns[i - 1].level], p[i])
  <2>1. i # n + 1
    BY <1>7, <1>14
  <2>2. i \in 2 .. n /\ i \in 1 .. n /\ i - 1 \in 1 .. n
    BY <1>8, <2>1
  <2>3. p[i] = o[i] /\ ns[i - 1] = ms[i - 1]
    BY <1>6, <1>7, <2>2
  <2>4. /\ o[i].level = ms[i - 1].level /\ CompilerFits(cs[ms[i - 1].level], ms[i - 1])
        /\ Waiting(cs[ms[i - 1].level], o[i])
    BY <1>4, <1>14, <2>2, <2>3
  <2>5. ms[i - 1].level \in 1 .. Len(cs) - 1 /\ ms[i - 1].level \in 1 .. Len(cs)
    BY <1>1, <1>14, <2>2, <2>3
  <2>6. /\ Like(cs[ms[i - 1].level], ds[ms[i - 1].level]) /\ IsSound(cs[ms[i - 1].level])
        /\ SameLocals(cs[ms[i - 1].level], ds[ms[i - 1].level])
    BY <1>2, <1>3, <2>5
  <2> QED BY <2>3, <2>4, <2>6, OuterStays, WaitingStays
<1>15. ASSUME NEW i \in 2 .. n + 1 PROVE EntryFits(ds[ns[i].level], p[i])
  <2>1. CASE i = n + 1
    BY <1>4, <1>5, <1>6, <1>7, <2>1
  <2>2. CASE i # n + 1
    <3>1. i \in 2 .. n /\ i \in 1 .. n
      BY <1>8, <2>2
    <3>2. ms[i].level \in 1 .. Len(cs) /\ EntryFits(cs[ms[i].level], o[i])
      BY <1>1, <1>4, <3>1
    <3>3. EntryFits(ds[ms[i].level], o[i])
      BY <1>3, <3>2, EntryStays
    <3> QED BY <1>6, <1>7, <3>1, <3>3
  <2> QED BY <2>1, <2>2
<1>16. \A l \in DOMAIN ds : IsSound(ds[l])
  BY <1>2, <1>3
<1>17. Parsed(ns, ds, p, f)
  BY <1>2, <1>4, <1>6, <1>7, <1>9, <1>10, <1>11, <1>12, <1>13, <1>14, <1>15, <1>16 DEF Parsed
<1> QED BY <1>17 DEF ns, p, m, n

\* The parser is out of its last entry.
LEMMA Closes ==
  ASSUME NEW ms, NEW cs, NEW o, NEW e, Parsed(ms, cs, o, e),
         o[Len(o)].kind \notin {"program", "function"},
         NEW ds, Beside(cs, ds), NEW d, d = ds[Len(cs)],
         IsSound(d), Keeps(cs[Len(cs)], d),
         cs[Len(cs)].scopeDepth = d.scopeDepth + ScopesOf(o[Len(o)]),
         Len(cs[Len(cs)].loop) = Len(d.loop) + LoopsOf(o[Len(o)]),
         NEW f \in Seq([Name -> Nat]), Len(e) = Len(f) + ScopesOf(o[Len(o)])
  PROVE  Len(o) >= 2 /\ Parsed(SubSeq(ms, 1, Len(o) - 1), ds, SubSeq(o, 1, Len(o) - 1), f)
<1> DEFINE n == Len(o) - 1
           ns == SubSeq(ms, 1, n)
           p == SubSeq(o, 1, n)
<1>1. /\ Len(o) \in Nat /\ Len(cs) \in Nat /\ Len(e) \in Nat /\ Len(cs) >= 1 /\ Len(o) >= 1
      /\ DOMAIN cs = 1 .. Len(cs)
      /\ \A i \in 1 .. Len(o) : ms[i] \in Mark /\ o[i] \in Entry /\ ms[i].level \in 1 .. Len(cs)
      /\ \A i \in 2 .. Len(o) : o[i].kind = "function" => ms[i - 1].level \in 1 .. Len(cs) - 1
  BY MarkFacts DEF Parsed
<1>2. /\ ds \in Seq(Compiler) /\ Len(ds) = Len(cs) /\ DOMAIN ds = 1 .. Len(cs)
      /\ \A l \in 1 .. Len(cs) - 1 : Like(cs[l], ds[l]) /\ SameLocals(cs[l], ds[l])
  BY <1>1 DEF Beside
<1>3. \A l \in 1 .. Len(cs) : IsSound(cs[l]) /\ IsSound(ds[l]) /\ Keeps(cs[l], ds[l])
  <2>1. \A l \in 1 .. Len(cs) - 1 : IsSound(ds[l]) /\ Keeps(cs[l], ds[l])
    BY <1>2 DEF Like
  <2>2. \A l \in 1 .. Len(cs) : IsSound(cs[l])
    BY <1>1 DEF Parsed
  <2>3. IsSound(ds[Len(cs)]) /\ Keeps(cs[Len(cs)], ds[Len(cs)])
    OBVIOUS
  <2>4. \A l \in 1 .. Len(cs) : l \in 1 .. Len(cs) - 1 \/ l = Len(cs)
    <3>1. Len(cs) \in Nat /\ Len(cs) >= 1
      BY <1>1
    <3> QED BY <3>1, Positions
  <2> QED BY <2>1, <2>2, <2>3, <2>4
<1>4. /\ o \in Seq(Entry) /\ ms \in Seq(Mark) /\ Len(ms) = Len(o)
      /\ o[1].kind = "program" /\ \A i \in 2 .. Len(o) : o[i].kind # "program"
      /\ ms[1].level = 1 /\ ms[1].loops = 0 /\ ms[1].scopes = ms[1].depth
      /\ \A i \in 2 .. Len(o) : ms[i] = Within(ms[i - 1], o[i])
      /\ Len(cs) = ms[Len(o)].level /\ Len(e) = ms[Len(o)].scopes
      /\ CompilerFits(cs[Len(cs)], ms[Len(o)])
      /\ \A i \in 2 .. Len(o) : o[i].kind = "function" =>
           /\ o[i].level = ms[i - 1].level /\ CompilerFits(cs[ms[i - 1].level], ms[i - 1])
           /\ Waiting(cs[ms[i - 1].level], o[i])
      /\ \A i \in 2 .. Len(o) : EntryFits(cs[ms[i].level], o[i])
  BY DEF Parsed
<1>5. Len(o) # 1
  BY <1>4
<1>6. /\ n \in Nat /\ n >= 1 /\ n \in 0 .. Len(o) /\ Len(o) \in 2 .. Len(o) /\ Len(o) - 1 = n
      /\ n \in 1 .. Len(o) /\ Len(o) = n + 1
      /\ \A i \in 2 .. n : i \in 2 .. Len(o) /\ i \in 1 .. n /\ i - 1 \in 1 .. n
      /\ \A i \in 1 .. n : i \in 1 .. Len(o)
  <2>1. Len(o) \in Nat /\ Len(o) >= 1 /\ Len(o) # 1
    BY <1>1, <1>5
  <2> QED BY <2>1, Positions
<1>7. /\ ns \in Seq(Mark) /\ Len(ns) = n /\ \A i \in 1 .. n : ns[i] = ms[i]
  <2> HIDE DEF n
  <2> QED BY <1>4, <1>6, PrefixFacts
<1>8. /\ p \in Seq(Entry) /\ Len(p) = n /\ \A i \in 1 .. n : p[i] = o[i]
  <2> HIDE DEF n
  <2> QED BY <1>4, <1>6, PrefixFacts
<1> HIDE DEF n, ns, p
<1>9. Len(p) >= 1 /\ ns[1] = ms[1] /\ p[1] = o[1]
  BY <1>6, <1>7, <1>8
<1>10. \A i \in 2 .. n : p[i].kind # "program" /\ ns[i] = Within(ns[i - 1], p[i])
  BY <1>4, <1>6, <1>7, <1>8
<1>11. /\ ms[Len(o)].level = ms[n].level /\ ms[Len(o)].depth = ms[n].depth + ScopesOf(o[Len(o)])
       /\ ms[Len(o)].loops = ms[n].loops + LoopsOf(o[Len(o)])
       /\ ms[Len(o)].scopes = ms[n].scopes + ScopesOf(o[Len(o)])
  <2>1. ms[Len(o)] = Within(ms[n], o[Len(o)])
    BY <1>4, <1>6
  <2> QED BY <2>1 DEF Within
<1>12. ScopesOf(o[Len(o)]) \in Nat /\ LoopsOf(o[Len(o)]) \in Nat
  BY DEF ScopesOf, LoopsOf
<1>13. ms[n].depth \in Nat /\ ms[n].loops \in Nat /\ ms[n].scopes \in Nat
  BY <1>1, <1>6 DEF Mark
<1>14. Len(ds) = ns[n].level /\ Len(f) = ns[n].scopes
  <2>1. ns[n] = ms[n]
    BY <1>6, <1>7
  <2>2. Len(f) + ScopesOf(o[Len(o)]) = ms[n].scopes + ScopesOf(o[Len(o)]) /\ Len(f) \in Nat
    BY <1>4, <1>11
  <2>3. Len(f) = ms[n].scopes
    BY <1>12, <1>13, <2>2
  <2> QED BY <1>2, <1>4, <1>11, <2>1, <2>3
<1>15. CompilerFits(ds[Len(ds)], ns[n])
  <2>1. ns[n] = ms[n] /\ ds[Len(ds)] = d
    BY <1>2, <1>6, <1>7
  <2>2. d.scopeDepth \in Nat /\ Len(d.loop) \in Nat
    BY CompilerFacts
  <2>3. /\ d.scopeDepth + ScopesOf(o[Len(o)]) = ms[n].depth + ScopesOf(o[Len(o)])
        /\ Len(d.loop) + LoopsOf(o[Len(o)]) = ms[n].loops + LoopsOf(o[Len(o)])
    BY <1>4, <1>11 DEF CompilerFits
  <2>5. d.scopeDepth = ms[n].depth /\ Len(d.loop) = ms[n].loops
    <3>1. /\ d.scopeDepth \in Nat /\ ms[n].depth \in Nat /\ ScopesOf(o[Len(o)]) \in Nat
          /\ d.scopeDepth + ScopesOf(o[Len(o)]) = ms[n].depth + ScopesOf(o[Len(o)])
      BY <1>12, <1>13, <2>2, <2>3
    <3>2. /\ Len(d.loop) \in Nat /\ ms[n].loops \in Nat /\ LoopsOf(o[Len(o)]) \in Nat
          /\ Len(d.loop) + LoopsOf(o[Len(o)]) = ms[n].loops + LoopsOf(o[Len(o)])
      BY <1>12, <1>13, <2>2, <2>3
    <3>3. d.scopeDepth = ms[n].depth
      BY <3>1, Cancel
    <3>4. Len(d.loop) = ms[n].loops
      BY <3>2, Cancel
    <3> QED BY <3>3, <3>4
  <2> QED BY <2>1, <2>5 DEF CompilerFits
<1>16. ASSUME NEW i \in 2 .. n, p[i].kind = "function"
       PROVE  /\ p[i].level = ns[i - 1].level /\ CompilerFits(ds[ns[i - 1].level], ns[i - 1])
              /\ Waiting(ds[ns[i - 1].level], p[i])
  <2>1. i \in 2 .. Len(o) /\ i \in 1 .. n /\ i - 1 \in 1 .. n
    BY <1>6
  <2>2. p[i] = o[i] /\ ns[i - 1] = ms[i - 1]
    BY <1>7, <1>8, <2>1
  <2>3. /\ o[i].level = ms[i - 1].level /\ CompilerFits(cs[ms[i - 1].level], ms[i - 1])
        /\ Waiting(cs[ms[i - 1].level], o[i])
    BY <1>4, <1>16, <2>1, <2>2
  <2>4. ms[i - 1].level \in 1 .. Len(cs) - 1 /\ ms[i - 1].level \in 1 .. Len(cs)
    BY <1>1, <1>16, <2>1, <2>2
  <2>5. /\ Like(cs[ms[i - 1].level], ds[ms[i - 1].level]) /\ IsSound(cs[ms[i - 1].level])
        /\ SameLocals(cs[ms[i - 1].level], ds[ms[i - 1].level])
    BY <1>2, <1>3, <2>4
  <2> QED BY <2>2, <2>3, <2>5, OuterStays, WaitingStays
<1>17. ASSUME NEW i \in 2 .. n PROVE EntryFits(ds[ns[i].level], p[i])
  <2>1. i \in 2 .. Len(o) /\ i \in 1 .. n /\ i \in 1 .. Len(o)
    BY <1>6
  <2>2. ms[i].level \in 1 .. Len(cs) /\ EntryFits(cs[ms[i].level], o[i])
    BY <1>1, <1>4, <2>1
  <2>3. EntryFits(ds[ms[i].level], o[i])
    BY <1>3, <2>2, EntryStays
  <2> QED BY <1>7, <1>8, <2>1, <2>3
<1>18. \A l \in DOMAIN ds : IsSound(ds[l])
  BY <1>2, <1>3
<1>19. Parsed(ns, ds, p, f)
  BY <1>2, <1>4, <1>7, <1>8, <1>9, <1>10, <1>14, <1>15, <1>16, <1>17, <1>18 DEF Parsed
<1> QED BY <1>6, <1>19 DEF ns, p, n

\* A function begins within a declaration.
LEMMA OpensFunction ==
  ASSUME NEW ms, NEW cs, NEW o, NEW e, Parsed(ms, cs, o, e),
         NEW entry \in Entry, entry.kind = "function", entry.level = Len(cs),
         NEW outer, IsSound(outer), Keeps(cs[Len(cs)], outer),
         CompilerFits(outer, ms[Len(o)]), Waiting(outer, entry),
         NEW inner, IsSound(inner), inner.scopeDepth = 1, inner.loop = <<>>,
         NEW ds, ds = Append(SubSeq(cs, 1, Len(cs) - 1), outer) \o <<inner>>,
         NEW f \in Seq([Name -> Nat]), Len(f) = Len(e) + 1
  PROVE  Parsed(Append(ms, Within(ms[Len(o)], entry)), ds, Append(o, entry), f)
<1> DEFINE n == Len(o)
           k == Len(cs)
           m == Within(ms[n], entry)
           ns == Append(ms, m)
           p == Append(o, entry)
<1>1. /\ n \in Nat /\ k \in Nat /\ Len(e) \in Nat /\ k >= 1 /\ n >= 1
      /\ DOMAIN cs = 1 .. k /\ DOMAIN o = 1 .. n
      /\ \A i \in 1 .. n : ms[i] \in Mark /\ o[i] \in Entry /\ ms[i].level \in 1 .. k
      /\ \A i \in 2 .. n : o[i].kind = "function" => ms[i - 1].level \in 1 .. k - 1
  BY MarkFacts DEF Parsed
<1>2. /\ ds \in Seq(Compiler) /\ Len(ds) = k + 1
      /\ \A l \in 1 .. k - 1 : ds[l] = cs[l]
      /\ ds[k] = outer /\ ds[k + 1] = inner
  <2>1. outer \in Compiler /\ inner \in Compiler /\ cs \in Seq(Compiler)
    BY DEF IsSound, Parsed
  <2>2. k - 1 \in 0 .. k /\ k - 1 + 1 = k /\ k \in Nat /\ k >= 1
    <3>1. k \in Nat /\ k >= 1
      BY <1>1
    <3> QED BY <3>1, Positions
  <2> DEFINE a == SubSeq(cs, 1, k - 1)
             b == Append(a, outer)
  <2>3. a \in Seq(Compiler) /\ Len(a) = k - 1 /\ \A l \in 1 .. k - 1 : a[l] = cs[l]
    <3>1. k - 1 \in 0 .. Len(cs)
      BY <2>2
    <3> HIDE DEF k
    <3> QED BY <2>1, <3>1, PrefixFacts
  <2> HIDE DEF a
  <2>4. b \in Seq(Compiler) /\ Len(b) = k /\ \A l \in 1 .. k - 1 : b[l] = cs[l] /\ b[k] = outer
    <3>1. b \in Seq(Compiler) /\ Len(b) = Len(a) + 1 /\ b[Len(a) + 1] = outer
          /\ \A l \in 1 .. Len(a) : b[l] = a[l]
      BY <2>1, <2>3, AppendFacts
    <3> QED BY <2>2, <2>3, <3>1
  <2>5. ds = b \o <<inner>>
    BY DEF a
  <2> HIDE DEF b, k
  <2>51. ds = Append(b, inner)
    BY <2>1, <2>4, <2>5, AppendIs
  <2>6. /\ ds \in Seq(Compiler) /\ Len(ds) = k + 1 /\ \A l \in 1 .. k : ds[l] = b[l]
        /\ ds[k + 1] = inner
    <3>1. b \in Seq(Compiler) /\ Len(b) = k
      BY <2>4
    <3>2. /\ ds \in Seq(Compiler) /\ Len(ds) = Len(b) + 1 /\ \A l \in 1 .. Len(b) : ds[l] = b[l]
          /\ ds[Len(b) + 1] = inner
      <4>1. /\ Append(b, inner) \in Seq(Compiler) /\ Len(Append(b, inner)) = Len(b) + 1
            /\ \A l \in 1 .. Len(b) : Append(b, inner)[l] = b[l]
            /\ Append(b, inner)[Len(b) + 1] = inner
        BY <2>1, <3>1, AppendFacts
      <4> QED BY <2>51, <4>1
    <3> QED BY <3>1, <3>2
  <2>7. \A l \in 1 .. k - 1 : l \in 1 .. k
    BY <1>1
  <2>8. k \in 1 .. k
    BY <1>1
  <2> QED BY <2>4, <2>6, <2>7, <2>8
<1>3. /\ \A l \in 1 .. k + 1 : IsSound(ds[l])
      /\ \A l \in 1 .. k : IsSound(cs[l]) /\ Keeps(cs[l], ds[l])
  <2>0. k \in Nat /\ k >= 1
    BY <1>1
  <2>1. \A l \in 1 .. k : IsSound(cs[l])
    BY <1>1 DEF Parsed
  <2>2. \A l \in 1 .. k - 1 : IsSound(ds[l])
    <3>1. \A l \in 1 .. k - 1 : l \in 1 .. k
      BY <2>0, Positions
    <3> QED BY <1>2, <2>1, <3>1
  <2>3. \A l \in 1 .. k : Keeps(cs[l], cs[l])
    <3> SUFFICES ASSUME NEW l \in 1 .. k PROVE Keeps(cs[l], cs[l])
      OBVIOUS
    <3>1. Len(cs[l].code) \in Nat
      BY <2>1, CompilerFacts
    <3> QED BY <3>1 DEF Keeps
  <2>4. \A l \in 1 .. k : l \in 1 .. k - 1 \/ l = k
    BY <2>0, Positions
  <2>5. \A l \in 1 .. k + 1 : l \in 1 .. k - 1 \/ l = k \/ l = k + 1
    BY <2>0, Positions
  <2> QED BY <1>2, <2>1, <2>2, <2>3, <2>4, <2>5
<1>4. /\ o \in Seq(Entry) /\ ms \in Seq(Mark) /\ Len(ms) = n
      /\ o[1].kind = "program" /\ \A i \in 2 .. n : o[i].kind # "program"
      /\ ms[1].level = 1 /\ ms[1].loops = 0 /\ ms[1].scopes = ms[1].depth
      /\ \A i \in 2 .. n : ms[i] = Within(ms[i - 1], o[i])
      /\ k = ms[n].level /\ Len(e) = ms[n].scopes
      /\ \A i \in 2 .. n : o[i].kind = "function" =>
           /\ o[i].level = ms[i - 1].level /\ CompilerFits(cs[ms[i - 1].level], ms[i - 1])
           /\ Waiting(cs[ms[i - 1].level], o[i])
      /\ \A i \in 2 .. n : EntryFits(cs[ms[i].level], o[i])
  BY DEF Parsed
<1>5. /\ m \in Mark /\ m.level = k + 1 /\ m.depth = 1 /\ m.loops = 0 /\ m.scopes = Len(e) + 1
  <2>0. n \in 1 .. n
    <3>1. n \in Nat /\ n >= 1
      BY <1>1
    <3> QED BY <3>1, Positions
  <2>1. ms[n] \in Mark
    BY <1>1, <2>0
  <2> HIDE DEF n, k
  <2> QED BY <1>4, <2>1, WithinFacts DEF m
<1>6. /\ ns \in Seq(Mark) /\ Len(ns) = n + 1 /\ \A i \in 1 .. n : ns[i] = ms[i]
      /\ ns[n + 1] = m
  <2> HIDE DEF m, n
  <2> QED BY <1>4, <1>5, AppendFacts
<1>7. /\ p \in Seq(Entry) /\ Len(p) = n + 1 /\ p[n + 1] = entry
      /\ \A i \in 1 .. n : p[i] = o[i]
  BY <1>4, AppendFacts
<1>71. /\ m = Within(ms[n], entry) /\ entry.level = k /\ CompilerFits(outer, ms[n])
       /\ Len(f) = Len(e) + 1
  OBVIOUS
<1> HIDE DEF m, n, ns, p, k
<1>8. \A i \in 2 .. n + 1 : /\ i = n + 1 => i - 1 = n
                            /\ i # n + 1 => i \in 2 .. n /\ i \in 1 .. n
                            /\ i - 1 \in 1 .. n
  <2>1. n \in Nat /\ n >= 1
    BY <1>1
  <2> QED BY <2>1, Positions
<1>9. Len(p) >= 1 /\ ns[1] = ms[1] /\ p[1] = o[1]
  BY <1>1, <1>6, <1>7
<1>10. \A i \in 2 .. n + 1 : p[i].kind # "program"
  BY <1>4, <1>7, <1>8
<1>11. ASSUME NEW i \in 2 .. n + 1 PROVE ns[i] = Within(ns[i - 1], p[i])
  <2>1. CASE i = n + 1
    <3>1. i - 1 = n /\ n \in 1 .. n
      BY <1>8, <2>1
    <3> QED BY <1>6, <1>7, <1>71, <2>1, <3>1
  <2>2. CASE i # n + 1
    <3>1. i \in 2 .. n /\ i \in 1 .. n /\ i - 1 \in 1 .. n
      BY <1>8, <2>2
    <3> QED BY <1>4, <1>6, <1>7, <3>1
  <2> QED BY <2>1, <2>2
<1>12. Len(ds) = ns[n + 1].level /\ Len(f) = ns[n + 1].scopes
  BY <1>2, <1>5, <1>6, <1>71
<1>13. CompilerFits(ds[Len(ds)], ns[n + 1])
  <2>1. Len(inner.loop) = 0
    OBVIOUS
  <2> QED BY <1>2, <1>5, <1>6, <2>1 DEF CompilerFits
<1>14. ASSUME NEW i \in 2 .. n + 1, p[i].kind = "function"
       PROVE  /\ p[i].level = ns[i - 1].level /\ CompilerFits(ds[ns[i - 1].level], ns[i - 1])
              /\ Waiting(ds[ns[i - 1].level], p[i])
  <2>1. CASE i = n + 1
    <3>1. i - 1 = n /\ n \in 1 .. n
      BY <1>8, <2>1
    <3>2. p[i] = entry /\ ns[i - 1] = ms[n] /\ ms[n].level = k /\ ds[k] = outer
      BY <1>2, <1>4, <1>6, <1>7, <2>1, <3>1
    <3> QED BY <1>71, <3>2
  <2>2. CASE i # n + 1
    <3>2. i \in 2 .. n /\ i \in 1 .. n /\ i - 1 \in 1 .. n
      BY <1>8, <2>2
    <3>3. p[i] = o[i] /\ ns[i - 1] = ms[i - 1]
      BY <1>6, <1>7, <3>2
    <3>4. /\ o[i].level = ms[i - 1].level /\ CompilerFits(cs[ms[i - 1].level], ms[i - 1])
          /\ Waiting(cs[ms[i - 1].level], o[i])
      BY <1>4, <1>14, <3>2, <3>3
    <3>5. ms[i - 1].level \in 1 .. k - 1
      BY <1>1, <1>14, <3>2, <3>3
    <3> QED BY <1>2, <3>3, <3>4, <3>5
  <2> QED BY <2>1, <2>2
<1>15. ASSUME NEW i \in 2 .. n + 1 PROVE EntryFits(ds[ns[i].level], p[i])
  <2>1. CASE i = n + 1
    <3>1. p[i].kind = "function"
      BY <1>7, <2>1
    <3> QED BY <3>1 DEF EntryFits
  <2>2. CASE i # n + 1
    <3>1. i \in 2 .. n /\ i \in 1 .. n
      BY <1>8, <2>2
    <3>2. ms[i].level \in 1 .. k /\ EntryFits(cs[ms[i].level], o[i])
      BY <1>1, <1>4, <3>1
    <3>3. EntryFits(ds[ms[i].level], o[i])
      <4>1. ms[i].level \in 1 .. k + 1
        BY <1>1, <3>2
      <4> QED BY <1>3, <3>2, <4>1, EntryStays
    <3> QED BY <1>6, <1>7, <3>1, <3>3
  <2> QED BY <2>1, <2>2
<1>16. \A l \in DOMAIN ds : IsSound(ds[l])
  <2>1. DOMAIN ds = 1 .. k + 1
    BY <1>2
  <2> QED BY <1>3, <2>1
<1>17. Parsed(ns, ds, p, f)
  BY <1>2, <1>4, <1>6, <1>7, <1>9, <1>10, <1>11, <1>12, <1>13, <1>14, <1>15, <1>16 DEF Parsed
<1> QED BY <1>17 DEF ns, p, m, n

\* A mark's level is at most that of a later one.
LEMMA LevelsRise ==
  ASSUME NEW ms, NEW cs, NEW o, NEW e, Parsed(ms, cs, o, e),
         NEW j \in 1 .. Len(o), NEW i \in 1 .. j
  PROVE  ms[i].level <= ms[j].level
<1> DEFINE S == {n \in 0 .. j - 1 : ms[j - n].level <= ms[j].level}
<1>1. /\ Len(o) \in Nat /\ \A k \in 1 .. Len(o) : ms[k].level \in Nat
      /\ \A k \in 2 .. Len(o) : ms[k] = Within(ms[k - 1], o[k])
  BY MarkFacts DEF Parsed, Mark
<1>2. \A k \in 2 .. Len(o) : ms[k - 1].level <= ms[k].level
  <2> SUFFICES ASSUME NEW k \in 2 .. Len(o) PROVE ms[k - 1].level <= ms[k].level
    OBVIOUS
  <2>1. k - 1 \in 1 .. Len(o) /\ k \in 1 .. Len(o)
    BY <1>1
  <2>2. ms[k - 1] \in Mark
    BY <2>1, MarkFacts
  <2>3. ms[k].level = ms[k - 1].level + 1 \/ ms[k].level = ms[k - 1].level
    <3>1. ms[k] = Within(ms[k - 1], o[k])
      BY <1>1, <2>1
    <3>2. \/ Within(ms[k - 1], o[k]).level = ms[k - 1].level + 1
          \/ Within(ms[k - 1], o[k]).level = ms[k - 1].level
      BY <2>2, WithinFacts
    <3> QED BY <3>1, <3>2
  <2> QED BY <1>1, <2>1, <2>3
<1>3. 0 \in S
  BY <1>1
<1>4. ASSUME NEW n \in 1 .. j - 1, n - 1 \in S PROVE n \in S
  <2> DEFINE k == j - (n - 1)
  <2>1. k \in 2 .. Len(o) /\ j - n = k - 1 /\ k \in 1 .. Len(o) /\ k - 1 \in 1 .. Len(o)
    BY <1>1
  <2>2. ms[k].level <= ms[j].level
    BY <1>4
  <2> HIDE DEF k
  <2>3. ms[k - 1].level <= ms[k].level /\ ms[k - 1].level \in Nat /\ ms[k].level \in Nat
    BY <1>1, <1>2, <2>1
  <2>4. ms[j].level \in Nat
    BY <1>1
  <2>5. ms[j - n].level <= ms[j].level
    BY <2>1, <2>2, <2>3, <2>4
  <2> QED BY <1>1, <2>5
<1>5. 0 .. j - 1 \subseteq S
  <2>1. j - 1 \in Nat
    BY <1>1
  <2> HIDE DEF S
  <2> QED BY <1>3, <1>4, <2>1, Upward
<1>6. j - i \in 0 .. j - 1 /\ j - (j - i) = i
  BY <1>1
<1> QED BY <1>5, <1>6

\* A function ends, and so does its declaration.
LEMMA ClosesFunction ==
  ASSUME NEW ms, NEW cs, NEW o, NEW e, Parsed(ms, cs, o, e), o[Len(o)].kind = "function",
         NEW outer, IsSound(outer), Keeps(cs[Len(cs) - 1], outer),
         outer.scopeDepth = cs[Len(cs) - 1].scopeDepth,
         Len(outer.loop) = Len(cs[Len(cs) - 1].loop),
         NEW ds, ds = Append(SubSeq(cs, 1, Len(cs) - 2), outer),
         NEW f \in Seq([Name -> Nat]), Len(e) = Len(f) + 1
  PROVE  Parsed(SubSeq(ms, 1, Len(o) - 1), ds, SubSeq(o, 1, Len(o) - 1), f)
<1> DEFINE n == Len(o) - 1
           k == Len(cs) - 1
           ns == SubSeq(ms, 1, n)
           p == SubSeq(o, 1, n)
<1>1. /\ Len(o) \in Nat /\ Len(cs) \in Nat /\ Len(e) \in Nat /\ Len(cs) >= 1 /\ Len(o) >= 1
      /\ DOMAIN cs = 1 .. Len(cs)
      /\ \A i \in 1 .. Len(o) : ms[i] \in Mark /\ o[i] \in Entry /\ ms[i].level \in 1 .. Len(cs)
      /\ \A i \in 2 .. Len(o) : o[i].kind = "function" => ms[i - 1].level \in 1 .. Len(cs) - 1
  BY MarkFacts DEF Parsed
<1>2. /\ o \in Seq(Entry) /\ ms \in Seq(Mark) /\ Len(ms) = Len(o) /\ cs \in Seq(Compiler)
      /\ o[1].kind = "program" /\ \A i \in 2 .. Len(o) : o[i].kind # "program"
      /\ ms[1].level = 1 /\ ms[1].loops = 0 /\ ms[1].scopes = ms[1].depth
      /\ \A i \in 2 .. Len(o) : ms[i] = Within(ms[i - 1], o[i])
      /\ Len(cs) = ms[Len(o)].level /\ Len(e) = ms[Len(o)].scopes
      /\ \A i \in 2 .. Len(o) : o[i].kind = "function" =>
           /\ o[i].level = ms[i - 1].level /\ CompilerFits(cs[ms[i - 1].level], ms[i - 1])
           /\ Waiting(cs[ms[i - 1].level], o[i])
      /\ \A i \in 2 .. Len(o) : EntryFits(cs[ms[i].level], o[i])
  BY DEF Parsed
<1>3. Len(o) # 1
  BY <1>2
<1>4. /\ n \in Nat /\ n >= 1 /\ n \in 0 .. Len(o) /\ Len(o) \in 2 .. Len(o) /\ Len(o) - 1 = n
      /\ n \in 1 .. Len(o) /\ Len(o) = n + 1 /\ n \in 1 .. n
      /\ \A i \in 2 .. n : i \in 2 .. Len(o) /\ i \in 1 .. n /\ i - 1 \in 1 .. n
      /\ \A i \in 1 .. n : i \in 1 .. Len(o)
  <2>1. Len(o) \in Nat /\ Len(o) >= 1 /\ Len(o) # 1
    BY <1>1, <1>3
  <2> QED BY <2>1, Positions
<1>5. /\ ms[Len(o)] = Within(ms[n], o[Len(o)])
      /\ ms[n].level \in Nat /\ ms[n].scopes \in Nat /\ ms[n].level >= 1 /\ ms[n] \in Mark
  <2>1. ms[Len(o)] = Within(ms[Len(o) - 1], o[Len(o)])
    BY <1>2, <1>4
  <2>2. ms[n] \in Mark /\ ms[n].level \in 1 .. Len(cs)
    BY <1>1, <1>4
  <2>3. ms[n].level \in Nat /\ ms[n].scopes \in Nat
    BY <2>2 DEF Mark
  <2> HIDE DEF n
  <2>4. ms[n].level >= 1
    BY <2>2
  <2> QED BY <2>1, <2>2, <2>3, <2>4 DEF n
<1>6. ms[Len(o)].level = ms[n].level + 1 /\ ms[Len(o)].scopes = ms[n].scopes + 1
  <2>1. ms[n] \in Mark
    BY <1>5
  <2> HIDE DEF n
  <2>2. /\ Within(ms[n], o[Len(o)]).level = ms[n].level + 1
        /\ Within(ms[n], o[Len(o)]).scopes = ms[n].scopes + 1
    BY <2>1, WithinFacts
  <2> QED BY <1>5, <2>2
<1>7. /\ k = ms[n].level /\ k \in Nat /\ k >= 1 /\ Len(cs) = k + 1 /\ Len(cs) - 2 = k - 1
      /\ k - 1 \in 0 .. Len(cs)
  <2>1. \A x, y \in Nat : y >= 1 /\ x = y + 1 => /\ x - 1 = y /\ x - 2 = y - 1 /\ y - 1 \in 0 .. x
    OBVIOUS
  <2>2. Len(cs) = ms[n].level + 1 /\ Len(cs) \in Nat
    BY <1>1, <1>2, <1>6
  <2>3. k = ms[n].level /\ Len(cs) - 2 = ms[n].level - 1 /\ ms[n].level - 1 \in 0 .. Len(cs)
    BY <1>5, <2>1, <2>2, Zenon
  <2> QED BY <1>5, <2>2, <2>3, Zenon
<1>8. /\ ns \in Seq(Mark) /\ Len(ns) = n /\ \A i \in 1 .. n : ns[i] = ms[i]
  <2> HIDE DEF n
  <2> QED BY <1>2, <1>4, PrefixFacts
<1>9. /\ p \in Seq(Entry) /\ Len(p) = n /\ \A i \in 1 .. n : p[i] = o[i]
  <2> HIDE DEF n
  <2> QED BY <1>2, <1>4, PrefixFacts
<1>10. /\ ds = Append(SubSeq(cs, 1, k - 1), outer) /\ Keeps(cs[k], outer)
       /\ outer.scopeDepth = cs[k].scopeDepth /\ Len(outer.loop) = Len(cs[k].loop)
  BY <1>7
<1>11. \A i \in 1 .. n : ms[i].level <= k
  BY <1>4, <1>7, LevelsRise
<1> HIDE DEF n, ns, p, k
<1>12. /\ ds \in Seq(Compiler) /\ Len(ds) = k /\ ds[k] = outer
       /\ \A l \in 1 .. k - 1 : ds[l] = cs[l]
  <2>1. outer \in Compiler
    BY DEF IsSound
  <2> DEFINE a == SubSeq(cs, 1, k - 1)
  <2>2. a \in Seq(Compiler) /\ Len(a) = k - 1 /\ \A l \in 1 .. k - 1 : a[l] = cs[l]
    <3>1. cs \in Seq(Compiler)
      BY <1>2
    <3>2. k - 1 \in 0 .. Len(cs)
      BY <1>7
    <3> QED BY <3>1, <3>2, PrefixFacts
  <2>3. ds = Append(a, outer)
    BY <1>10
  <2> HIDE DEF a
  <2>4. /\ ds \in Seq(Compiler) /\ Len(ds) = Len(a) + 1 /\ ds[Len(a) + 1] = outer
        /\ \A l \in 1 .. Len(a) : ds[l] = a[l]
    <3>1. a \in Seq(Compiler)
      BY <2>2
    <3>2. /\ Append(a, outer) \in Seq(Compiler) /\ Len(Append(a, outer)) = Len(a) + 1
          /\ \A l \in 1 .. Len(a) : Append(a, outer)[l] = a[l]
          /\ Append(a, outer)[Len(a) + 1] = outer
      BY <2>1, <3>1, AppendFacts
    <3> QED BY <2>3, <3>2
  <2>5. Len(a) + 1 = k
    <3>1. k \in Nat /\ Len(a) = k - 1
      BY <1>7, <2>2
    <3> QED BY <3>1
  <2>6. \A l \in 1 .. k - 1 : ds[l] = cs[l]
    BY <2>2, <2>4, Zenon
  <2> QED BY <2>4, <2>5, <2>6
<1>13. /\ \A l \in 1 .. k : IsSound(ds[l]) /\ IsSound(cs[l]) /\ Keeps(cs[l], ds[l])
  <2> SUFFICES ASSUME NEW l \in 1 .. k PROVE IsSound(ds[l]) /\ IsSound(cs[l]) /\ Keeps(cs[l], ds[l])
    OBVIOUS
  <2>0. k \in Nat /\ k >= 1 /\ Len(cs) = k + 1
    BY <1>7
  <2>1. IsSound(cs[l])
    <3>1. l \in 1 .. Len(cs)
      <4>1. l \in 1 .. k + 1
        BY <2>0
      <4> QED BY <2>0, <4>1
    <3> QED BY <1>1, <3>1 DEF Parsed
  <2>2. CASE l = k
    BY <1>10, <1>12, <2>1, <2>2
  <2>3. CASE l # k
    <3>1. l \in 1 .. k - 1
      BY <2>0, <2>3, Positions
    <3>2. ds[l] = cs[l]
      BY <1>12, <3>1
    <3>3. Len(cs[l].code) \in Nat
      BY <2>1, CompilerFacts
    <3>4. Keeps(cs[l], cs[l])
      BY <3>3 DEF Keeps
    <3> QED BY <2>1, <3>2, <3>4
  <2> QED BY <2>2, <2>3
<1>14. Len(p) >= 1 /\ ns[1] = ms[1] /\ p[1] = o[1] /\ ns[n] = ms[n]
  BY <1>4, <1>8, <1>9
<1>15. \A i \in 2 .. n : p[i].kind # "program" /\ ns[i] = Within(ns[i - 1], p[i])
  BY <1>2, <1>4, <1>8, <1>9
<1>16. Len(ds) = ns[n].level /\ Len(f) = ns[n].scopes
  <2>1. Len(f) + 1 = ms[n].scopes + 1 /\ Len(f) \in Nat
    <3>1. Len(f) \in Nat
      OBVIOUS
    <3>2. Len(e) = ms[n].scopes + 1
      BY <1>2, <1>6
    <3> QED BY <3>1, <3>2
  <2>2. Len(f) = ms[n].scopes
    BY <1>5, <2>1, Cancel
  <2> QED BY <1>7, <1>12, <1>14, <2>2
<1>17. CompilerFits(ds[Len(ds)], ns[n])
  <2>1. CompilerFits(cs[ms[n].level], ms[n])
    <3>1. Len(o) \in 2 .. Len(o) /\ Len(o) - 1 = n
      BY <1>4
    <3> QED BY <1>2, <3>1
  <2> QED BY <1>7, <1>10, <1>12, <1>14, <2>1 DEF CompilerFits
<1>18. ASSUME NEW i \in 2 .. n, p[i].kind = "function"
       PROVE  /\ p[i].level = ns[i - 1].level /\ CompilerFits(ds[ns[i - 1].level], ns[i - 1])
              /\ Waiting(ds[ns[i - 1].level], p[i])
  <2>1. i \in 2 .. Len(o) /\ i \in 1 .. n /\ i - 1 \in 1 .. n
    BY <1>4
  <2>2. p[i] = o[i] /\ ns[i - 1] = ms[i - 1] /\ ns[i] = ms[i]
    BY <1>8, <1>9, <2>1
  <2>3. /\ o[i].level = ms[i - 1].level /\ CompilerFits(cs[ms[i - 1].level], ms[i - 1])
        /\ Waiting(cs[ms[i - 1].level], o[i])
    BY <1>2, <1>18, <2>1, <2>2
  <2>4. ms[i - 1].level \in 1 .. k - 1
    <3>1. ms[i] = Within(ms[i - 1], o[i])
      BY <1>2, <2>1
    <3>2. ms[i].level = ms[i - 1].level + 1
      BY <1>18, <2>2, <3>1 DEF Within
    <3>3. ms[i].level <= k
      BY <1>11, <2>1
    <3>4. ms[i - 1].level \in Nat /\ ms[i - 1].level >= 1
      <4>1. i - 1 \in 1 .. Len(o)
        BY <1>4, <2>1
      <4>2. ms[i - 1].level \in 1 .. Len(cs)
        BY <1>1, <4>1
      <4> QED BY <4>2
    <3>5. k \in Nat /\ ms[i - 1].level + 1 <= k
      BY <1>7, <3>2, <3>3
    <3> QED BY <3>4, <3>5
  <2>5. ds[ms[i - 1].level] = cs[ms[i - 1].level]
    BY <1>12, <2>4
  <2> QED BY <2>2, <2>3, <2>5
<1>19. ASSUME NEW i \in 2 .. n PROVE EntryFits(ds[ns[i].level], p[i])
  <2>1. i \in 2 .. Len(o) /\ i \in 1 .. n /\ i \in 1 .. Len(o)
    BY <1>4
  <2>2. ms[i].level \in 1 .. Len(cs) /\ EntryFits(cs[ms[i].level], o[i])
    BY <1>1, <1>2, <2>1
  <2>3. ms[i].level \in 1 .. k
    BY <1>1, <1>7, <1>11, <2>1, <2>2
  <2>4. EntryFits(ds[ms[i].level], o[i])
    BY <1>13, <2>2, <2>3, EntryStays
  <2> QED BY <1>8, <1>9, <2>1, <2>4
<1>20. \A l \in DOMAIN ds : IsSound(ds[l])
  <2>1. DOMAIN ds = 1 .. k
    BY <1>12
  <2> QED BY <1>13, <2>1
<1>21. Parsed(ns, ds, p, f)
  BY <1>2, <1>8, <1>9, <1>12, <1>14, <1>15, <1>16, <1>17, <1>18, <1>19, <1>20 DEF Parsed
<1> QED BY <1>21 DEF ns, p, n

----------------------------------------------------------------------------
(* Names. *)

Compilers == /\ compilers \in Seq(Compiler) /\ Len(compilers) \in Nat /\ Len(compilers) >= 1
             /\ DOMAIN compilers = 1 .. Len(compilers)
             /\ \A l \in 1 .. Len(compilers) : IsSound(compilers[l])

\* resolveLocal finds a local of that name, and the last one.
LEMMA ResolveFacts ==
  ASSUME NEW c, IsSound(c), NEW n
  PROVE  /\ ResolveLocal(c, n) \in 0 .. Len(c.locals)
         /\ ResolveLocal(c, n) # 0 => /\ ResolveLocal(c, n) \in DOMAIN c.locals
                                      /\ c.locals[ResolveLocal(c, n)].name = n
         /\ \A i \in DOMAIN c.locals : c.locals[i].name = n => i <= ResolveLocal(c, n)
<1> DEFINE S == {0} \cup {i \in DOMAIN c.locals : c.locals[i].name = n}
<1>1. DOMAIN c.locals = 1 .. Len(c.locals) /\ Len(c.locals) \in Nat
  BY CompilerFacts
<1>2. S \subseteq 0 .. Len(c.locals) /\ S # {}
  BY <1>1
<1>3. Max(S) \in S /\ \A m \in S : m <= Max(S)
  <2> HIDE DEF S
  <2> QED BY <1>1, <1>2, MaxFacts
<1>4. ResolveLocal(c, n) = Max(S)
  BY DEF ResolveLocal
<1> QED BY <1>1, <1>3, <1>4

\* resolveUpvalue finds the innermost function with a local of that name.
LEMMA HomeFacts ==
  ASSUME Compilers, NEW n
  PROVE  /\ Home(n) \in 0 .. Len(compilers)
         /\ Home(n) # 0 => /\ Home(n) \in 1 .. Len(compilers)
                           /\ ResolveLocal(compilers[Home(n)], n) # 0
                           /\ ResolveLocal(compilers[Home(n)], n)
                                \in DOMAIN compilers[Home(n)].locals
         /\ \A l \in 1 .. Len(compilers) : ResolveLocal(compilers[l], n) # 0 => l <= Home(n)
<1> DEFINE S == {0} \cup {l \in DOMAIN compilers : ResolveLocal(compilers[l], n) # 0}
<1>1. DOMAIN compilers = 1 .. Len(compilers) /\ Len(compilers) \in Nat
  BY DEF Compilers
<1>2. S \subseteq 0 .. Len(compilers) /\ S # {}
  BY <1>1
<1>3. Max(S) \in S /\ \A m \in S : m <= Max(S)
  <2> HIDE DEF S
  <2> QED BY <1>1, <1>2, MaxFacts
<1>4. Home(n) = Max(S)
  BY DEF Home
<1>5. Home(n) # 0 => Home(n) \in 1 .. Len(compilers) /\ ResolveLocal(compilers[Home(n)], n) # 0
  BY <1>1, <1>3, <1>4
<1>6. Home(n) # 0 => ResolveLocal(compilers[Home(n)], n) \in DOMAIN compilers[Home(n)].locals
  BY <1>5, ResolveFacts DEF Compilers
<1> QED BY <1>1, <1>3, <1>4, <1>5, <1>6

\* addUpvalue finds the upvalue or puts it last.
LEMMA IndexFacts ==
  ASSUME NEW c, IsSound(c), NEW index, NEW isLocal
  PROVE  LET k == UpvalueIndex(c, index, isLocal)
         IN /\ k \in 1 .. Len(c.upvalues) + 1 /\ k \in Nat /\ Len(c.upvalues) \in Nat
            /\ DOMAIN c.upvalues = 1 .. Len(c.upvalues)
            /\ \A i \in DOMAIN c.upvalues : c.upvalues[i] \in Upvalue
            /\ k \in DOMAIN c.upvalues => /\ c.upvalues[k].index = index
                                          /\ c.upvalues[k].isLocal = isLocal
            /\ k \notin DOMAIN c.upvalues => k = Len(c.upvalues) + 1
<1> DEFINE N == Len(c.upvalues)
           S == {N + 1} \cup
                {i \in DOMAIN c.upvalues : c.upvalues[i].index = index
                                           /\ c.upvalues[i].isLocal = isLocal}
<1>1. /\ c.upvalues \in Seq(Upvalue)
  BY CompilerFacts
<1>2. /\ DOMAIN c.upvalues = 1 .. N /\ N \in Nat
      /\ \A i \in DOMAIN c.upvalues : c.upvalues[i] \in Upvalue
  <2> DEFINE u == c.upvalues
  <2>1. u \in Seq(Upvalue)
    BY <1>1
  <2>2. DOMAIN u = 1 .. Len(u) /\ Len(u) \in Nat /\ \A i \in DOMAIN u : u[i] \in Upvalue
    <3> HIDE DEF u
    <3> QED BY <2>1
  <2> QED BY <2>2
<1>3. S \subseteq Nat /\ S # {} /\ S \subseteq 1 .. N + 1
  BY <1>2
<1>4. Min(S) \in S
  <2> HIDE DEF S
  <2> QED BY <1>3, MinFacts
<1>5. UpvalueIndex(c, index, isLocal) = Min(S)
  BY DEF UpvalueIndex
<1> DEFINE k == UpvalueIndex(c, index, isLocal)
<1>6. k \in S
  BY <1>4, <1>5
<1> HIDE DEF k
<1>7. k \in 1 .. N + 1 /\ k \in Nat
  BY <1>3, <1>6
<1>8. k = N + 1 \/ (k \in DOMAIN c.upvalues /\ c.upvalues[k].index = index
                    /\ c.upvalues[k].isLocal = isLocal)
  BY <1>6
<1>9. N + 1 \notin DOMAIN c.upvalues
  BY <1>2
<1> QED BY <1>2, <1>7, <1>8, <1>9 DEF k

\* What each function knows the variable as, from the one with the local inward.
LEMMA FoundFacts ==
  ASSUME Compilers, NEW n, Home(n) # 0
  PROVE  LET home == Home(n)
             slot == ResolveLocal(compilers[home], n)
             found == Found(n)
         IN /\ DOMAIN found = home .. Len(compilers)
            /\ found[home] = [index |-> slot, constant |-> compilers[home].locals[slot].constant]
            /\ \A l \in home + 1 .. Len(compilers) :
                 found[l] = LET index == UpvalueIndex(compilers[l], found[l - 1].index, l = home + 1)
                            IN [index |-> index,
                                constant |-> IF index \in DOMAIN compilers[l].upvalues
                                             THEN compilers[l].upvalues[index].constant
                                             ELSE found[l - 1].constant]
            /\ \A l \in home .. Len(compilers) : found[l].index \in Nat /\ found[l].constant \in BOOLEAN
<1> DEFINE home == Home(n)
           top  == Len(compilers)
           slot == ResolveLocal(compilers[home], n)
           first == [index |-> slot, constant |-> compilers[home].locals[slot].constant]
           Further(l, prior) ==
             LET index == UpvalueIndex(compilers[l], prior.index, l = home + 1)
             IN [index |-> index,
                 constant |-> IF index \in DOMAIN compilers[l].upvalues
                              THEN compilers[l].upvalues[index].constant
                              ELSE prior.constant]
           Known == [index : Nat, constant : BOOLEAN]
           IsUpTo(f, j) ==
             f = [l \in home .. home + j |-> IF l = home THEN first ELSE Further(l, f[l - 1])]
           S == {j \in 0 .. top - home : \E f : IsUpTo(f, j)}
<1>1. home \in 1 .. top /\ top \in Nat /\ slot \in DOMAIN compilers[home].locals /\ home \in Nat
  BY HomeFacts DEF Compilers
<1>2. 0 \in S
  <2> DEFINE f == [l \in home .. home + 0 |-> first]
  <2>1. \A l \in home .. home + 0 : l = home
    BY <1>1
  <2>2. IsUpTo(f, 0)
    <3> HIDE DEF first, Further, home
    <3>1. f = [l \in home .. home + 0 |-> IF l = home THEN first ELSE Further(l, f[l - 1])]
      BY <2>1
    <3> QED BY <3>1
  <2> HIDE DEF IsUpTo
  <2> QED BY <1>1, <2>2
<1>3. ASSUME NEW j \in 1 .. top - home, j - 1 \in S PROVE j \in S
  <2>1. PICK f : IsUpTo(f, j - 1)
    BY <1>3
  <2> DEFINE last == Further(home + j, f[(home + j) - 1])
             g == [l \in home .. home + j |-> IF l = home + j THEN last ELSE f[l]]
  <2>2. IsUpTo(g, j)
    <3> HIDE DEF first, Further, home, last
    <3>1. \A l \in home .. home + (j - 1) :
            f[l] = IF l = home THEN first ELSE Further(l, f[l - 1])
      BY <2>1
    <3>2. ASSUME NEW l \in home .. home + j
          PROVE  g[l] = IF l = home THEN first ELSE Further(l, g[l - 1])
      <4>1. CASE l = home + j
        <5>1. (home + j) - 1 \in home .. home + j /\ (home + j) - 1 # home + j /\ l # home
          BY <1>1, <4>1
        <5>2. g[l] = last /\ g[l - 1] = f[(home + j) - 1]
          BY <4>1, <5>1
        <5> QED BY <4>1, <5>1, <5>2 DEF last
      <4>2. CASE l # home + j
        <5>1. l \in home .. home + (j - 1)
          BY <1>1, <4>2
        <5>2. g[l] = f[l]
          BY <4>2
        <5>3. l # home => l - 1 \in home .. home + j /\ l - 1 # home + j
          BY <1>1, <5>1
        <5>4. l # home => g[l - 1] = f[l - 1]
          BY <5>3
        <5> QED BY <3>1, <5>1, <5>2, <5>4
      <4> QED BY <4>1, <4>2
    <3> QED BY <3>2
  <2>3. j \in 0 .. top - home
    BY <1>1
  <2> HIDE DEF IsUpTo, g
  <2> QED BY <2>2, <2>3
<1>4. \E f : IsUpTo(f, top - home)
  <2>1. top - home \in Nat /\ top - home \in 0 .. top - home
    BY <1>1
  <2>2. 0 .. top - home \subseteq S
    <3> HIDE DEF S
    <3> QED BY <1>2, <1>3, <2>1, Upward
  <2> QED BY <2>1, <2>2
<1> DEFINE Is(f) == f = [l \in home .. top |-> IF l = home THEN first ELSE Further(l, f[l - 1])]
<1>5. \E f : Is(f)
  <2>1. home + (top - home) = top
    BY <1>1
  <2> QED BY <1>4, <2>1
<1>6. Is(Found(n))
  <2>1. Found(n) = CHOOSE f : Is(f)
    BY DEF Found
  <2> HIDE DEF Is
  <2> QED BY <1>5, <2>1
<1>7. /\ DOMAIN Found(n) = home .. top
      /\ \A l \in home .. top :
           Found(n)[l] = IF l = home THEN first ELSE Further(l, Found(n)[l - 1])
  <2> HIDE DEF first, Further, home, top
  <2> QED BY <1>6
<1>8. Found(n)[home] = first
  <2>1. home \in home .. top
    BY <1>1
  <2> HIDE DEF first, Further, home, top
  <2> QED BY <1>7, <2>1
<1>9. \A l \in home + 1 .. top : Found(n)[l] = Further(l, Found(n)[l - 1])
  <2>1. \A l \in home + 1 .. top : l \in home .. top /\ l # home
    BY <1>1
  <2> HIDE DEF first, Further, home, top
  <2> QED BY <1>7, <2>1
<1>10. first.index \in Nat /\ first.constant \in BOOLEAN
  <2>1. compilers[home].locals[slot] \in Local /\ slot \in Nat
    <3>1. IsSound(compilers[home])
      BY <1>1 DEF Compilers
    <3>2. DOMAIN compilers[home].locals = 1 .. Len(compilers[home].locals)
      BY <3>1, CompilerFacts
    <3>3. slot \in 1 .. Len(compilers[home].locals)
      BY <1>1, <3>2
    <3>4. compilers[home].locals[slot] \in Local
      BY <1>1, <3>1, CompilerFacts
    <3> QED BY <3>3, <3>4
  <2> QED BY <2>1 DEF Local
<1> DEFINE T == {j \in 0 .. top - home : Found(n)[home + j].index \in Nat
                                         /\ Found(n)[home + j].constant \in BOOLEAN}
<1>11. 0 .. top - home \subseteq T
  <2>1. top - home \in Nat
    BY <1>1
  <2>2. 0 \in T
    <3>1. home + 0 = home /\ 0 \in 0 .. top - home
      BY <1>1
    <3> HIDE DEF first
    <3> QED BY <1>8, <1>10, <3>1
  <2>3. ASSUME NEW j \in 1 .. top - home, j - 1 \in T PROVE j \in T
    <3> DEFINE l == home + j
    <3>1. l \in home + 1 .. top /\ l - 1 = home + (j - 1) /\ l \in 1 .. top /\ j \in 0 .. top - home
      BY <1>1
    <3>2. Found(n)[l - 1].constant \in BOOLEAN
      BY <2>3, <3>1
    <3> HIDE DEF l
    <3>3. Found(n)[l] = Further(l, Found(n)[l - 1])
      BY <1>9, <3>1
    <3> DEFINE index == UpvalueIndex(compilers[l], Found(n)[l - 1].index, l = home + 1)
    <3>4. index \in Nat /\ (index \in DOMAIN compilers[l].upvalues =>
                              compilers[l].upvalues[index].constant \in BOOLEAN)
      <4>1. IsSound(compilers[l])
        BY <3>1 DEF Compilers
      <4> QED BY <4>1, IndexFacts DEF Upvalue
    <3>5. /\ Found(n)[l].index = index
          /\ Found(n)[l].constant = IF index \in DOMAIN compilers[l].upvalues
                                    THEN compilers[l].upvalues[index].constant
                                    ELSE Found(n)[l - 1].constant
      BY <3>3
    <3>6. Found(n)[l].index \in Nat /\ Found(n)[l].constant \in BOOLEAN
      <4> HIDE DEF index, Further
      <4> QED BY <3>2, <3>4, <3>5
    <3> QED BY <3>1, <3>6 DEF l
  <2> HIDE DEF T
  <2> QED BY <2>1, <2>2, <2>3, Upward
<1>12. \A l \in home .. top : Found(n)[l].index \in Nat /\ Found(n)[l].constant \in BOOLEAN
  <2> SUFFICES ASSUME NEW l \in home .. top
               PROVE  Found(n)[l].index \in Nat /\ Found(n)[l].constant \in BOOLEAN
    OBVIOUS
  <2>1. l - home \in 0 .. top - home /\ home + (l - home) = l
    BY <1>1
  <2>2. l - home \in T
    BY <1>11, <2>1
  <2> QED BY <2>1, <2>2
<1> QED BY <1>7, <1>8, <1>9, <1>12

\* A compiler is like itself.
LEMMA Itself ==
  ASSUME NEW c, IsSound(c)
  PROVE  Keeps(c, c) /\ Like(c, c) /\ SameLocals(c, c)
<1>1. Len(c.code) \in Nat
  BY CompilerFacts
<1> QED BY <1>1 DEF Keeps, Like, SameLocals

\* A local is marked as captured.
LEMMA CapturedFacts ==
  ASSUME NEW c, IsSound(c), NEW slot \in DOMAIN c.locals, NEW d, d = Captured(c, slot)
  PROVE  /\ Like(c, d) /\ SameLocals(c, d) /\ Here(d) = Here(c)
         /\ d.code = c.code /\ d.upvalues = c.upvalues /\ d.isFile = c.isFile /\ d.loop = c.loop
         /\ d.locals[slot].isUpvalue
         /\ \A i \in DOMAIN c.locals \ {slot} : d.locals[i] = c.locals[i]
<1> DEFINE n == Len(c.locals)
           one == [c.locals[slot] EXCEPT !.isUpvalue = TRUE]
           locals == [i \in 1 .. n |-> IF i = slot THEN one ELSE c.locals[i]]
<1>1. /\ c \in Compiler /\ DOMAIN c.locals = 1 .. n /\ n \in Nat /\ n >= 1 /\ c.locals[1].depth = 0
      /\ \A i \in DOMAIN c.locals : c.locals[i] \in Local
  BY CompilerFacts DEF IsSound
<1>2. /\ one \in Local /\ one.isUpvalue /\ one.name = c.locals[slot].name
      /\ one.depth = c.locals[slot].depth /\ one.constant = c.locals[slot].constant
      /\ one.id = c.locals[slot].id
  <2>1. c.locals[slot] \in Local
    BY <1>1
  <2> QED BY <2>1 DEF Local
<1>3. locals = [c.locals EXCEPT ![slot].isUpvalue = TRUE]
  <2>1. c.locals \in Seq(Local)
    BY CompilerFacts
  <2>2. c.locals = [i \in 1 .. n |-> c.locals[i]]
    BY <1>1, <2>1
  <2> QED BY <1>1, <2>2
<1>4. d = [c EXCEPT !.locals = locals]
  BY <1>1, <1>3 DEF Captured, Compiler
<1> HIDE DEF one
<1>5. locals \in [1 .. n -> Local]
  BY <1>1, <1>2
<1>6. locals[slot] = one /\ \A i \in DOMAIN c.locals \ {slot} : locals[i] = c.locals[i]
  BY <1>1
<1> HIDE DEF locals, n
<1>7. locals \in Seq(Local) /\ Len(locals) = n /\ 1 \in DOMAIN c.locals
  BY <1>1, <1>5
<1>8. \A i \in DOMAIN c.locals :
        /\ locals[i].name = c.locals[i].name /\ locals[i].depth = c.locals[i].depth
        /\ locals[i].constant = c.locals[i].constant /\ locals[i].id = c.locals[i].id
  BY <1>2, <1>6
<1>9. /\ d \in Compiler /\ d.scopeDepth = c.scopeDepth /\ d.locals = locals /\ d.loop = c.loop
      /\ d.type = c.type /\ d.isFile = c.isFile /\ d.upvalues = c.upvalues /\ d.code = c.code
  BY <1>1, <1>4, <1>7 DEF Compiler
<1>10. IsSound(d) /\ Keeps(c, d) /\ Here(d) = Here(c)
  BY <1>1, <1>7, <1>8, <1>9, SameCode
<1> QED BY <1>2, <1>6, <1>7, <1>8, <1>9, <1>10 DEF Like, SameLocals, n

\* An upvalue is found or added.
LEMMA AddUpvalueFacts ==
  ASSUME NEW c, IsSound(c), NEW u \in Upvalue, NEW d, d = AddUpvalue(c, u)
  PROVE  /\ Like(c, d) /\ SameLocals(c, d) /\ Here(d) = Here(c) /\ d.locals = c.locals
         /\ d.code = c.code /\ d.isFile = c.isFile /\ d.loop = c.loop
         /\ UpvalueIndex(c, u.index, u.isLocal) \in DOMAIN c.upvalues => d = c
         /\ UpvalueIndex(c, u.index, u.isLocal) \notin DOMAIN c.upvalues =>
              d.upvalues = Append(c.upvalues, u)
<1>1. CASE UpvalueIndex(c, u.index, u.isLocal) \in DOMAIN c.upvalues
  <2>1. d = c
    BY <1>1 DEF AddUpvalue
  <2> QED BY <1>1, <2>1, Itself
<1>2. CASE UpvalueIndex(c, u.index, u.isLocal) \notin DOMAIN c.upvalues
  <2>1. c \in Compiler /\ Len(c.locals) >= 1 /\ c.locals[1].depth = 0
        /\ c.upvalues \in Seq(Upvalue)
    BY CompilerFacts DEF IsSound
  <2>2. d = [c EXCEPT !.upvalues = Append(c.upvalues, u)]
    BY <1>2, <2>1 DEF AddUpvalue, Compiler
  <2>3. Append(c.upvalues, u) \in Seq(Upvalue)
    BY <2>1, AppendFacts
  <2>4. /\ d \in Compiler /\ d.scopeDepth = c.scopeDepth /\ d.locals = c.locals /\ d.loop = c.loop
        /\ d.type = c.type /\ d.isFile = c.isFile /\ d.upvalues = Append(c.upvalues, u)
        /\ d.code = c.code
    BY <2>1, <2>2, <2>3 DEF Compiler
  <2>5. IsSound(d) /\ Keeps(c, d) /\ Here(d) = Here(c)
    BY <2>1, <2>4, SameCode
  <2>6. Like(c, d) /\ SameLocals(c, d)
    BY <2>4, <2>5 DEF Like, SameLocals
  <2> QED BY <1>2, <2>4, <2>5, <2>6
<1> QED BY <1>1, <1>2

\* A name is resolved: locals are marked, upvalues added, and no code emitted.
LEMMA ResolvedFacts ==
  ASSUME Compilers, NEW n, NEW means \in Nat, NEW ds, ds = Resolved(n, means)
  PROVE  /\ ds \in Seq(Compiler) /\ Len(ds) = Len(compilers)
         /\ \A l \in 1 .. Len(compilers) :
              /\ Like(compilers[l], ds[l]) /\ SameLocals(compilers[l], ds[l])
              /\ ds[l].code = compilers[l].code /\ ds[l].isFile = compilers[l].isFile
              /\ ds[l].loop = compilers[l].loop
<1>1. /\ compilers \in Seq(Compiler) /\ Len(compilers) \in Nat /\ Len(compilers) >= 1
      /\ DOMAIN compilers = 1 .. Len(compilers)
      /\ \A l \in 1 .. Len(compilers) : IsSound(compilers[l])
  BY DEF Compilers
<1>2. CASE Home(n) \in {0, Len(compilers)}
  <2>1. ds = compilers
    BY <1>2 DEF Resolved
  <2> QED BY <1>1, <2>1, Itself
<1>3. CASE Home(n) \notin {0, Len(compilers)}
  <2> DEFINE home == Home(n)
             found == Found(n)
             Outer(l) == [index |-> found[l - 1].index, isLocal |-> l = home + 1,
                          constant |-> found[l - 1].constant, id |-> means]
             One(l) == CASE l < home -> compilers[l]
                         [] l = home -> Captured(compilers[l], found[l].index)
                         [] l > home -> AddUpvalue(compilers[l], Outer(l))
  <2>1. home \in 1 .. Len(compilers) /\ home # Len(compilers)
    BY <1>3, HomeFacts
  <2>2. ds = [l \in DOMAIN compilers |-> One(l)]
    BY <1>3 DEF Resolved
  <2>3. ASSUME NEW l \in 1 .. Len(compilers)
        PROVE  /\ Like(compilers[l], One(l)) /\ SameLocals(compilers[l], One(l))
               /\ One(l).code = compilers[l].code /\ One(l).isFile = compilers[l].isFile
               /\ One(l).loop = compilers[l].loop
    <3>1. IsSound(compilers[l])
      BY <1>1
    <3>2. CASE l < home
      <4>1. One(l) = compilers[l]
        <5>1. ~ (l = home) /\ ~ (l > home)
          BY <2>1, <3>2
        <5> QED BY <3>2, <5>1
      <4> QED BY <3>1, <4>1, Itself
    <3>3. CASE l = home
      <4>1. One(l) = Captured(compilers[l], found[home].index)
        BY <2>1, <3>3
      <4>2. found[home].index \in DOMAIN compilers[l].locals
        <5>1. home # 0
          BY <1>3
        <5>2. ResolveLocal(compilers[home], n) \in DOMAIN compilers[home].locals
          BY <5>1, HomeFacts
        <5>3. found[home] = [index |-> ResolveLocal(compilers[home], n),
                             constant |-> compilers[home].locals[ResolveLocal(compilers[home], n)].constant]
          BY <5>1, FoundFacts
        <5>4. found[home].index = ResolveLocal(compilers[home], n)
          BY <5>3
        <5> QED BY <3>3, <5>2, <5>4
      <4> HIDE DEF One, found, home
      <4> QED BY <3>1, <4>1, <4>2, CapturedFacts
    <3>4. CASE l > home
      <4>1. One(l) = AddUpvalue(compilers[l], Outer(l))
        BY <2>1, <3>4
      <4>2. l - 1 \in home .. Len(compilers)
        BY <2>1, <3>4
      <4>3. found[l - 1].index \in Nat /\ found[l - 1].constant \in BOOLEAN
        BY <1>3, <4>2, FoundFacts
      <4>4. Outer(l) \in Upvalue
        BY <4>3 DEF Upvalue
      <4> HIDE DEF One, Outer
      <4> QED BY <3>1, <4>1, <4>4, AddUpvalueFacts
    <3> QED BY <2>1, <3>2, <3>3, <3>4
  <2> HIDE DEF One
  <2>4. \A l \in 1 .. Len(compilers) : ds[l] = One(l)
    BY <1>1, <2>2
  <2>5. \A l \in 1 .. Len(compilers) : ds[l] \in Compiler
    BY <2>3, <2>4 DEF Like, IsSound
  <2>6. ds \in [1 .. Len(compilers) -> Compiler]
    BY <1>1, <2>2, <2>4, <2>5
  <2>7. ds \in Seq(Compiler) /\ Len(ds) = Len(compilers)
    BY <1>1, <2>6
  <2> QED BY <2>3, <2>4, <2>7
<1> QED BY <1>2, <1>3

\* The instruction for a variable.
LEMMA VariableFacts ==
  ASSUME Compilers, NEW ops \in {Get, Set}, NEW n, NEW means \in Nat, NEW id \in Nat
  PROVE  /\ Variable(ops, n, means, id) \in Instr
         /\ Variable(ops, n, means, id).op \notin JumpOps \cup {"BREAK"}
<1>1. IsSound(C)
  BY DEF Compilers, C, Last
<1>2. ResolveLocal(C, n) \in Nat
  <2>1. ResolveLocal(C, n) \in 0 .. Len(C.locals)
    BY <1>1, ResolveFacts
  <2> QED BY <2>1
<1>3. CASE ops = Get
  <2>1. /\ ops.local = "GET_LOCAL" /\ ops.module = "GET_MODULE" /\ ops.upvalue = "GET_UPVALUE"
    BY <1>3 DEF Get
  <2> QED BY <1>2, <2>1 DEF Variable, Instr, JumpOps
<1>4. CASE ops = Set
  <2>1. /\ ops.local = "SET_LOCAL" /\ ops.module = "SET_MODULE" /\ ops.upvalue = "SET_UPVALUE"
    BY <1>4 DEF Set
  <2> QED BY <1>2, <2>1 DEF Variable, Instr, JumpOps
<1> QED BY <1>3, <1>4

\* The innermost compiler is replaced.
LEMMA UpdateFacts ==
  ASSUME NEW cs \in Seq(Compiler), Len(cs) >= 1, \A l \in 1 .. Len(cs) : IsSound(cs[l]),
         NEW c \in Compiler, NEW ds, ds = [cs EXCEPT ![Len(cs)] = c]
  PROVE  Beside(cs, ds) /\ ds[Len(cs)] = c /\ Len(ds) = Len(cs)
<1>1. Len(cs) \in Nat /\ Len(cs) \in 1 .. Len(cs) /\ DOMAIN cs = 1 .. Len(cs)
  OBVIOUS
<1>2. ds \in Seq(Compiler) /\ Len(ds) = Len(cs) /\ ds[Len(cs)] = c
  BY <1>1
<1>3. ASSUME NEW l \in 1 .. Len(cs) - 1 PROVE Like(cs[l], ds[l]) /\ SameLocals(cs[l], ds[l])
  <2>1. l \in 1 .. Len(cs) /\ l # Len(cs)
    BY <1>1, Positions
  <2>2. ds[l] = cs[l]
    BY <1>1, <2>1
  <2> QED BY <2>1, <2>2, Itself
<1> QED BY <1>2, <1>3 DEF Beside

----------------------------------------------------------------------------
(* What the constructs do to the compiler they are read with. *)

\* Keeping what was emitted, step after step.
LEMMA KeepsTrans ==
  ASSUME NEW b, IsSound(b), NEW c, IsSound(c), NEW d, IsSound(d), Keeps(b, c), Keeps(c, d)
  PROVE  Keeps(b, d)
<1>1. /\ DOMAIN b.code = 1 .. Len(b.code) /\ Len(b.code) \in Nat
      /\ DOMAIN c.code = 1 .. Len(c.code) /\ Len(c.code) \in Nat /\ Len(d.code) \in Nat
  BY CompilerFacts
<1>2. Len(b.code) <= Len(c.code) /\ Len(c.code) <= Len(d.code)
  BY DEF Keeps
<1>3. Len(b.code) <= Len(d.code) /\ DOMAIN b.code \subseteq DOMAIN c.code
  BY <1>1, <1>2
<1> QED BY <1>3 DEF Keeps

\* A compiler like one that is like another is like the other.
LEMMA LikeTrans ==
  ASSUME NEW b, IsSound(b), NEW c, NEW d, Like(b, c), Like(c, d)
  PROVE  Like(b, d)
<1>1. IsSound(c) /\ IsSound(d) /\ Keeps(b, c) /\ Keeps(c, d)
  BY DEF Like
<1>2. Keeps(b, d)
  BY <1>1, KeepsTrans
<1> QED BY <1>2 DEF Like

\* Instructions that neither jump nor break.
Plain(new) ==
  new \in Seq(Instr) /\ \A j \in DOMAIN new : new[j].op \notin JumpOps \cup {"BREAK"}

\* Plain instructions leave the compiler as it was but for its code.
LEMMA PlainEmit ==
  ASSUME NEW c, IsSound(c), NEW new, Plain(new), NEW d, d = Emit(c, new)
  PROVE  /\ Like(c, d) /\ d.locals = c.locals /\ d.loop = c.loop /\ d.isFile = c.isFile
         /\ d.upvalues = c.upvalues /\ d.code = c.code \o new /\ Here(d) = Here(c) + Len(new)
<1>1. new \in Seq(Instr)
  BY DEF Plain
<1>2. \A j \in DOMAIN new : /\ new[j].op \in JumpOps => new[j].to <= Here(c) + Len(new)
                            /\ new[j].op = "BREAK" => c.loop # <<>>
  BY DEF Plain
<1>3. /\ IsSound(d) /\ Keeps(c, d)
      /\ d.scopeDepth = c.scopeDepth /\ d.locals = c.locals /\ d.loop = c.loop
      /\ d.type = c.type /\ d.isFile = c.isFile /\ d.upvalues = c.upvalues
      /\ d.code = c.code \o new /\ Here(d) = Here(c) + Len(new)
  BY <1>1, <1>2, EmitFacts
<1> QED BY <1>3 DEF Like

\* One, two and three plain instructions in a row are plain.
LEMMA PlainSeqs ==
  ASSUME NEW I \in Instr, I.op \notin JumpOps \cup {"BREAK"}
  PROVE  /\ Plain(<<I>>) /\ Plain(<<>>)
         /\ \A J \in Instr : J.op \notin JumpOps \cup {"BREAK"} =>
              /\ Plain(<<I, J>>)
              /\ \A K \in Instr : K.op \notin JumpOps \cup {"BREAK"} => Plain(<<I, J, K>>)
<1>1. Plain(<<I>>) /\ Plain(<<>>)
  BY DEF Plain
<1>2. ASSUME NEW J \in Instr, J.op \notin JumpOps \cup {"BREAK"} PROVE Plain(<<I, J>>)
  BY <1>2 DEF Plain
<1>3. ASSUME NEW J \in Instr, J.op \notin JumpOps \cup {"BREAK"},
             NEW K \in Instr, K.op \notin JumpOps \cup {"BREAK"}
      PROVE  Plain(<<I, J, K>>)
  BY <1>3 DEF Plain
<1> QED BY <1>1, <1>2, <1>3

\* Plain instructions after plain ones.
LEMMA PlainConcat ==
  ASSUME NEW s, Plain(s), NEW t, Plain(t)
  PROVE  Plain(s \o t)
<1>1. s \in Seq(Instr) /\ t \in Seq(Instr)
  BY DEF Plain
<1>2. /\ s \o t \in Seq(Instr) /\ DOMAIN (s \o t) = 1 .. Len(s) + Len(t)
      /\ \A j \in 1 .. Len(s) + Len(t) : (s \o t)[j] = IF j <= Len(s) THEN s[j] ELSE t[j - Len(s)]
      /\ DOMAIN s = 1 .. Len(s) /\ DOMAIN t = 1 .. Len(t) /\ Len(s) \in Nat /\ Len(t) \in Nat
  BY <1>1
<1>3. ASSUME NEW j \in DOMAIN (s \o t) PROVE (s \o t)[j].op \notin JumpOps \cup {"BREAK"}
  <2>1. CASE j <= Len(s)
    <3>1. j \in DOMAIN s /\ (s \o t)[j] = s[j]
      BY <1>2, <2>1
    <3> QED BY <3>1 DEF Plain
  <2>2. CASE ~ (j <= Len(s))
    <3>1. j - Len(s) \in DOMAIN t /\ (s \o t)[j] = t[j - Len(s)]
      BY <1>2, <2>2
    <3> QED BY <3>1 DEF Plain
  <2> QED BY <2>1, <2>2
<1> QED BY <1>2, <1>3 DEF Plain

\* The instructions that declarations and expressions are made of are plain.
LEMMA PlainInstr ==
  /\ PopTop \in Instr /\ PopTop.op \notin JumpOps \cup {"BREAK"}
  /\ \A id \in Nat : /\ Push(id) \in Instr /\ Push(id).op \notin JumpOps \cup {"BREAK"}
                     /\ Plain(<<Push(id)>>) /\ Plain(<<Push(id), PopTop>>)
  /\ \A slot \in Nat : /\ CloseFile(slot) \in Instr
                       /\ CloseFile(slot).op \notin JumpOps \cup {"BREAK"}
  /\ Plain(<<PopTop>>) /\ Temp \in Nat
<1>1. /\ PopTop \in Instr /\ PopTop.op \notin JumpOps \cup {"BREAK"}
      /\ \A id \in Nat : Push(id) \in Instr /\ Push(id).op \notin JumpOps \cup {"BREAK"}
      /\ \A slot \in Nat : /\ CloseFile(slot) \in Instr
                           /\ CloseFile(slot).op \notin JumpOps \cup {"BREAK"}
  BY Instructions DEF JumpOps
<1> QED BY <1>1, PlainSeqs DEF Temp

\* A variable is declared.
LEMMA DeclareFacts ==
  ASSUME NEW c, IsSound(c), NEW n \in Name, NEW id \in Nat, NEW d, d = DeclareVariable(c, n, id)
  PROVE  /\ Like(c, d) /\ Here(d) = Here(c) /\ d.code = c.code /\ d.loop = c.loop
         /\ d.isFile = c.isFile /\ d.upvalues = c.upvalues
         /\ c.scopeDepth = 0 => d = c
         /\ c.scopeDepth # 0 =>
              /\ d = AddLocal(c, n, id) /\ Len(d.locals) = Len(c.locals) + 1 /\ Len(d.locals) >= 2
              /\ \A i \in DOMAIN c.locals : d.locals[i] = c.locals[i]
              /\ d.locals[Len(d.locals)] = NewLocal(n, id)
<1>1. CASE c.scopeDepth = 0
  <2>1. d = c
    BY <1>1 DEF DeclareVariable
  <2> QED BY <1>1, <2>1, Itself
<1>2. CASE c.scopeDepth # 0
  <2>1. d = AddLocal(c, n, id)
    BY <1>2 DEF DeclareVariable
  <2>2. /\ IsSound(d) /\ Keeps(c, d) /\ Here(d) = Here(c)
        /\ d.scopeDepth = c.scopeDepth /\ d.loop = c.loop
        /\ Len(d.locals) = Len(c.locals) + 1
        /\ \A i \in DOMAIN c.locals : d.locals[i] = c.locals[i]
        /\ d.locals[Len(c.locals) + 1] = NewLocal(n, id)
        /\ d.type = c.type /\ d.isFile = c.isFile /\ d.upvalues = c.upvalues /\ d.code = c.code
    BY <2>1, AddLocalFacts
  <2>3. Len(d.locals) >= 2
    <3>1. Len(c.locals) \in Nat /\ Len(c.locals) >= 1
      BY CompilerFacts DEF IsSound
    <3> QED BY <2>2, <3>1
  <2> QED BY <1>2, <2>1, <2>2, <2>3 DEF Like
<1> QED BY <1>1, <1>2

\* defineVariable leaves the scopes, the loops and the number of locals as they were.
LEMMA DefineLike ==
  ASSUME NEW c, IsSound(c), c.scopeDepth # 0 => Len(c.locals) >= 2, NEW constant \in BOOLEAN,
         NEW d, d = DefineVariable(c, constant)
  PROVE  Like(c, d)
<1>1. CASE c.scopeDepth = 0
  <2>1. d = Emit(c, <<PopTop>>)
    BY <1>1 DEF DefineVariable
  <2> QED BY <2>1, PlainInstr, PlainEmit
<1>2. CASE c.scopeDepth # 0
  <2>1. IsSound(d) /\ Keeps(c, d)
    BY DefineFacts
  <2>2. c \in Compiler
    BY DEF IsSound
  <2>3. d.scopeDepth = c.scopeDepth /\ d.loop = c.loop /\ d.type = c.type
    BY <1>2, <2>2 DEF DefineVariable, Compiler
  <2> QED BY <2>1, <2>3 DEF Like
<1> QED BY <1>1, <1>2

\* A declaration: code leaves the value that the declared variable is defined with.
LEMMA DeclarationLike ==
  ASSUME NEW c, IsSound(c), NEW n \in Name, NEW id \in Nat, NEW new, Plain(new),
         NEW constant \in BOOLEAN,
         NEW d, d = DefineVariable(Emit(DeclareVariable(c, n, id), new), constant)
  PROVE  Like(c, d)
<1> DEFINE declared == DeclareVariable(c, n, id)
           emitted  == Emit(declared, new)
<1>1. /\ Like(c, declared)
      /\ c.scopeDepth # 0 => Len(declared.locals) >= 2
  BY DeclareFacts
<1>2. d = DefineVariable(emitted, constant)
  OBVIOUS
<1> HIDE DEF declared
<1>3. IsSound(declared) /\ declared.scopeDepth = c.scopeDepth
  BY <1>1 DEF Like
<1>4. Like(declared, emitted) /\ emitted.locals = declared.locals
  BY <1>3, PlainEmit
<1> HIDE DEF emitted
<1>5. /\ IsSound(emitted) /\ emitted.scopeDepth = c.scopeDepth
      /\ emitted.scopeDepth # 0 => Len(emitted.locals) >= 2
  BY <1>1, <1>3, <1>4 DEF Like
<1>6. Like(emitted, d)
  BY <1>2, <1>5, DefineLike
<1> QED BY <1>1, <1>4, <1>6, LikeTrans

\* A class declaration: super stays the last local of its scope.
LEMMA ClassLike ==
  ASSUME NEW c, IsSound(c), NEW n \in Name, NEW id \in Nat,
         NEW declared, declared = Emit(DeclareVariable(c, n, id), <<Push(Temp)>>),
         NEW subclass,
         subclass = Emit(AddLocal(BeginScope(declared), Super, Temp), <<Push(id)>>),
         NEW d, d = DefineVariable(EndScope(subclass), FALSE)
  PROVE  Like(c, d)
<1>a. PICK first : first = DeclareVariable(c, n, id)
  OBVIOUS
<1>b. PICK scoped : scoped = BeginScope(declared)
  OBVIOUS
<1>c. PICK added : added = AddLocal(scoped, Super, Temp)
  OBVIOUS
<1>d. PICK ended : ended = EndScope(subclass)
  OBVIOUS
<1>1. Like(c, first)
  BY <1>a, DeclareFacts
<1>2. /\ declared = Emit(first, <<Push(Temp)>>) /\ scoped = BeginScope(declared)
      /\ added = AddLocal(scoped, Super, Temp) /\ subclass = Emit(added, <<Push(id)>>)
      /\ ended = EndScope(subclass) /\ d = DefineVariable(ended, FALSE) /\ Temp \in Nat
  BY <1>a, <1>b, <1>c, <1>d, PlainInstr
<1>3. IsSound(first)
  BY <1>1 DEF Like
<1>4. Like(first, declared)
  BY <1>2, <1>3, PlainEmit, PlainInstr
<1>5. IsSound(declared) /\ Like(c, declared)
  BY <1>1, <1>4, LikeTrans DEF Like
<1>6. /\ IsSound(scoped) /\ Keeps(declared, scoped)
      /\ scoped.scopeDepth = declared.scopeDepth + 1 /\ scoped.loop = declared.loop
      /\ scoped.type = declared.type
  BY <1>2, <1>5, BeginScopeFacts
<1>7. /\ IsSound(added) /\ Keeps(scoped, added)
      /\ added.scopeDepth = scoped.scopeDepth /\ added.loop = scoped.loop
      /\ added.type = scoped.type /\ Len(added.locals) = Len(scoped.locals) + 1
      /\ added.locals[Len(scoped.locals) + 1] = NewLocal(Super, Temp)
  <2>1. added = AddLocal(scoped, Super, Temp) /\ Super \in Name \cup {Super} /\ Temp \in Nat
    BY <1>2
  <2>2. IsSound(scoped)
    BY <1>6
  <2>3. IsSound(added) /\ Keeps(scoped, added)
    BY <2>1, <2>2, AddLocalFacts
  <2>4. scoped \in Compiler /\ scoped.locals \in Seq(Local) /\ NewLocal(Super, Temp) \in Local
    BY <2>1, <2>2, CompilerFacts DEF IsSound, NewLocal, Local
  <2>5. /\ added.scopeDepth = scoped.scopeDepth /\ added.loop = scoped.loop
        /\ added.type = scoped.type /\ added.locals = Append(scoped.locals, NewLocal(Super, Temp))
    BY <2>1, <2>4 DEF AddLocal, NewLocal, Compiler
  <2> QED BY <2>3, <2>4, <2>5, AppendFacts
<1>8. Like(added, subclass) /\ subclass.locals = added.locals /\ IsSound(subclass)
  <2>1. Plain(<<Push(id)>>)
    BY PlainInstr
  <2>2. Like(added, subclass) /\ subclass.locals = added.locals
    BY <1>2, <1>7, <2>1, PlainEmit
  <2> QED BY <2>2 DEF Like
<1>9. subclass.scopeDepth = declared.scopeDepth + 1 /\ declared.scopeDepth \in Nat
  BY <1>5, <1>6, <1>7, <1>8, CompilerFacts DEF Like
<1>10. /\ subclass.scopeDepth # 0 /\ subclass.scopeDepth - 1 = declared.scopeDepth
  BY <1>9
<1>11. /\ IsSound(ended) /\ Keeps(subclass, ended)
       /\ ended.scopeDepth = subclass.scopeDepth - 1 /\ ended.loop = subclass.loop
       /\ Len(ended.locals) = Staying(subclass, subclass.scopeDepth - 1)
       /\ ended.type = subclass.type
  BY <1>2, <1>8, <1>10, EndScopeFacts
<1>12. Len(ended.locals) >= 2
  <2> DEFINE k == Len(subclass.locals)
             s == Staying(subclass, declared.scopeDepth)
  <2>1. k = Len(scoped.locals) + 1 /\ Len(scoped.locals) \in Nat /\ Len(scoped.locals) >= 1
    BY <1>6, <1>7, <1>8, CompilerFacts DEF IsSound
  <2>2. k \in DOMAIN subclass.locals /\ subclass.locals[k].depth <= declared.scopeDepth
    <3>1. subclass.locals[k] = NewLocal(Super, Temp)
      BY <1>7, <1>8, <2>1
    <3>2. subclass.locals[k].depth = -1
      BY <3>1 DEF NewLocal
    <3>3. DOMAIN subclass.locals = 1 .. k /\ k \in Nat /\ k >= 1
      BY <1>8, CompilerFacts DEF IsSound
    <3>4. k \in 1 .. k
      BY <3>3, Positions
    <3> QED BY <1>9, <3>2, <3>3, <3>4
  <2>3. s \in 1 .. k /\ ~ (k > s)
    BY <1>8, <1>9, <2>2, StayingFacts
  <2>4. Len(ended.locals) = s
    BY <1>10, <1>11
  <2> HIDE DEF k, s
  <2> QED BY <2>1, <2>3, <2>4
<1>13. Like(ended, d)
  BY <1>2, <1>11, <1>12, DefineLike
<1>14. Like(declared, ended)
  <2>1. Keeps(declared, ended)
    BY <1>5, <1>6, <1>7, <1>8, <1>11, KeepsTrans DEF Like
  <2> QED BY <1>5, <1>6, <1>7, <1>8, <1>10, <1>11, <2>1 DEF Like
<1> QED BY <1>5, <1>13, <1>14, LikeTrans

----------------------------------------------------------------------------
(* What statements that do not nest do to the compiler. *)

\* Emitting twice is emitting at once.
LEMMA EmitTwice ==
  ASSUME NEW c, IsSound(c), NEW s \in Seq(Instr), NEW t \in Seq(Instr)
  PROVE  Emit(c, s \o t) = Emit(Emit(c, s), t)
<1>1. c \in Compiler /\ c.code \in Seq(Instr)
  BY CompilerFacts DEF IsSound
<1>2. (c.code \o s) \o t = c.code \o (s \o t)
  <2> DEFINE code == c.code
  <2>1. code \in Seq(Instr)
    BY <1>1
  <2> HIDE DEF code
  <2>2. (code \o s) \o t = code \o (s \o t)
    BY <2>1, ConcatAssociative
  <2> QED BY <2>2 DEF code
<1> DEFINE a == c.code \o s
           b == c.code \o (s \o t)
<1>3. Emit(c, s) = [c EXCEPT !.code = a] /\ Emit(c, s \o t) = [c EXCEPT !.code = b]
  BY <1>1 DEF Emit, Compiler
<1>4. Emit(c, s).code = a
  BY <1>1, <1>3 DEF Compiler
<1>5. Emit(Emit(c, s), t) = [Emit(c, s) EXCEPT !.code = a \o t]
  BY <1>4 DEF Emit
<1>6. b = a \o t
  BY <1>2
<1> HIDE DEF a, b
<1>7. [Emit(c, s) EXCEPT !.code = a \o t] = [c EXCEPT !.code = a \o t]
  BY <1>1, <1>3 DEF Compiler
<1> QED BY <1>3, <1>5, <1>6, <1>7

\* The instructions that give up locals are plain.
LEMMA DiscardsPlain ==
  ASSUME NEW c, IsSound(c), NEW depth \in Nat
  PROVE  Plain(Discards(c, depth))
BY DiscardFacts DEF Plain, JumpOps

\* closeFileHandles emits plain instructions.
LEMMA ClosingsPlain ==
  ASSUME NEW c, IsSound(c)
  PROVE  Plain(Closings(c))
<1> DEFINE top == Len(c.locals)
           Next1(n, s) == IF n \in FileHandles(c) THEN <<CloseFile(n)>> \o s ELSE s
           IsUpTo(f, j) == f = [n \in 0 .. j |-> IF n = 0 THEN <<>>
                                                 ELSE IF n \in FileHandles(c)
                                                 THEN <<CloseFile(n)>> \o f[n - 1] ELSE f[n - 1]]
           S == {j \in 0 .. top : \E f : IsUpTo(f, j) /\ \A i \in 0 .. j : Plain(f[i])}
<1>0. top \in Nat
  BY CompilerFacts
<1>1. 0 \in S
  <2> DEFINE f == [n \in 0 .. 0 |-> <<>>]
  <2>1. IsUpTo(f, 0)
    <3>1. f = [n \in 0 .. 0 |-> IF n = 0 THEN <<>>
                                ELSE IF n \in FileHandles(c)
                                THEN <<CloseFile(n)>> \o f[n - 1] ELSE f[n - 1]]
      OBVIOUS
    <3> QED BY <3>1
  <2>2. \A i \in 0 .. 0 : Plain(f[i])
    BY DEF Plain
  <2> HIDE DEF IsUpTo
  <2> QED BY <1>0, <2>1, <2>2
<1>2. ASSUME NEW j \in 1 .. top, j - 1 \in S PROVE j \in S
  <2>1. PICK f : IsUpTo(f, j - 1) /\ \A i \in 0 .. j - 1 : Plain(f[i])
    BY <1>2
  <2> DEFINE g == [n \in 0 .. j |-> IF n = j THEN Next1(j, f[j - 1]) ELSE f[n]]
  <2>2. \A n \in 0 .. j - 1 : f[n] = IF n = 0 THEN <<>>
                                     ELSE IF n \in FileHandles(c)
                                     THEN <<CloseFile(n)>> \o f[n - 1] ELSE f[n - 1]
    BY <2>1
  <2>3. ASSUME NEW n \in 0 .. j
        PROVE  g[n] = IF n = 0 THEN <<>>
                      ELSE IF n \in FileHandles(c)
                      THEN <<CloseFile(n)>> \o g[n - 1] ELSE g[n - 1]
    <3>1. CASE n = j
      <4>1. j - 1 \in 0 .. j /\ j - 1 # j /\ n # 0
        BY <3>1
      <4>2. g[n] = Next1(j, f[j - 1]) /\ g[n - 1] = f[j - 1]
        BY <3>1, <4>1
      <4> QED BY <3>1, <4>1, <4>2
    <3>2. CASE n # j
      <4>1. n \in 0 .. j - 1 /\ (n # 0 => n - 1 \in 0 .. j /\ n - 1 # j)
        BY <3>2
      <4>2. g[n] = f[n] /\ (n # 0 => g[n - 1] = f[n - 1])
        BY <3>2, <4>1
      <4> QED BY <2>2, <4>1, <4>2
    <3> QED BY <3>1, <3>2
  <2>4. ASSUME NEW i \in 0 .. j PROVE Plain(g[i])
    <3>1. CASE i = j
      <4>1. j - 1 \in 0 .. j - 1
        OBVIOUS
      <4>2. Plain(f[j - 1])
        BY <2>1, <4>1
      <4>3. Plain(<<CloseFile(j)>>)
        BY PlainInstr, PlainSeqs
      <4>4. Plain(<<CloseFile(j)>> \o f[j - 1])
        BY <4>2, <4>3, PlainConcat
      <4>5. g[i] = Next1(j, f[j - 1])
        BY <3>1
      <4> QED BY <4>2, <4>4, <4>5
    <3>2. CASE i # j
      <4>1. i \in 0 .. j - 1 /\ g[i] = f[i]
        BY <3>2
      <4> QED BY <2>1, <4>1
    <3> QED BY <3>1, <3>2
  <2>5. IsUpTo(g, j)
    <3> HIDE DEF Next1
    <3>1. g = [n \in 0 .. j |-> g[n]]
      OBVIOUS
    <3> HIDE DEF g
    <3> QED BY <2>3, <3>1
  <2>6. j \in 0 .. top
    BY <1>0
  <2> HIDE DEF IsUpTo, g
  <2> QED BY <2>4, <2>5, <2>6
<1>3. top \in S
  <2>1. 0 .. top \subseteq S
    <3> HIDE DEF S
    <3> QED BY <1>0, <1>1, <1>2, Upward
  <2>2. top \in 0 .. top
    BY <1>0
  <2> HIDE DEF S, top
  <2> QED BY <2>1, <2>2
<1> DEFINE Is(f) == IsUpTo(f, top)
<1>4. PICK f : Is(f) /\ \A i \in 0 .. top : Plain(f[i])
  BY <1>3
<1> DEFINE found == CHOOSE h : Is(h)
<1>5. Is(found)
  BY <1>4
<1>6. Closings(c) = found[top]
  BY DEF Closings
<1> DEFINE T == {j \in 0 .. top : Plain(found[j])}
<1>7. \A n \in 0 .. top : found[n] = IF n = 0 THEN <<>>
                                     ELSE IF n \in FileHandles(c)
                                     THEN <<CloseFile(n)>> \o found[n - 1] ELSE found[n - 1]
  <2> HIDE DEF found
  <2> QED BY <1>5
<1> HIDE DEF found, top
<1>8. 0 \in T
  <2>0. 0 \in 0 .. top
    BY <1>0
  <2>1. 0 \in 0 .. top /\ found[0] = <<>>
    BY <1>7, <2>0, Zenon
  <2>2. Plain(<<>>)
    BY PlainInstr, PlainSeqs
  <2> QED BY <2>1, <2>2
<1>9. ASSUME NEW j \in 1 .. top, j - 1 \in T PROVE j \in T
  <2>1. j \in 0 .. top /\ j # 0 /\ Plain(found[j - 1])
    BY <1>0, <1>9
  <2>2. Plain(<<CloseFile(j)>>)
    BY PlainInstr, PlainSeqs
  <2>3. Plain(<<CloseFile(j)>> \o found[j - 1])
    BY <2>1, <2>2, PlainConcat
  <2>4. found[j] = <<CloseFile(j)>> \o found[j - 1] \/ found[j] = found[j - 1]
    BY <1>7, <2>1
  <2> QED BY <2>1, <2>3, <2>4
<1>10. top \in T
  <2>1. 0 .. top \subseteq T
    <3> HIDE DEF T
    <3> QED BY <1>0, <1>8, <1>9, Upward
  <2> QED BY <1>0, <2>1
<1> QED BY <1>6, <1>10

\* A return statement.
LEMMA ReturnLike ==
  ASSUME NEW c, IsSound(c),
         NEW d, d = Emit(c, Closings(c) \o <<Push(Temp), [op |-> "RETURN", height |-> Undeclared]>>)
  PROVE  Like(c, d)
<1>1. [op |-> "RETURN", height |-> Undeclared] \in Instr
  BY DEF Instr, Undeclared
<1>2. Plain(<<Push(Temp), [op |-> "RETURN", height |-> Undeclared]>>)
  BY <1>1, PlainInstr, PlainSeqs DEF JumpOps
<1>3. Plain(Closings(c) \o <<Push(Temp), [op |-> "RETURN", height |-> Undeclared]>>)
  BY <1>2, ClosingsPlain, PlainConcat
<1> QED BY <1>3, PlainEmit

\* The innermost loop.
LEMMA LoopFacts ==
  ASSUME NEW c, IsSound(c), c.loop # <<>>
  PROVE  /\ Len(c.loop) \in DOMAIN c.loop /\ Last(c.loop) = c.loop[Len(c.loop)]
         /\ Last(c.loop) \in LoopInfo
         /\ Last(c.loop).start \in Nat /\ Last(c.loop).end \in Nat /\ Last(c.loop).body \in Nat
         /\ Last(c.loop).scopeDepth \in Nat
         /\ Last(c.loop).start <= Here(c) /\ Last(c.loop).body <= Here(c)
         /\ Last(c.loop).end # 0 =>
              /\ Last(c.loop).end \in DOMAIN c.code
              /\ c.code[Last(c.loop).end].op = "JUMP_IF_FALSE"
<1>1. /\ c.loop \in Seq(LoopInfo) /\ Len(c.loop) \in Nat /\ DOMAIN c.loop = 1 .. Len(c.loop)
      /\ \A k \in DOMAIN c.loop : c.loop[k] \in LoopInfo
  BY CompilerFacts
<1>2. Len(c.loop) \in DOMAIN c.loop
  <2>1. Len(c.loop) # 0
    BY <1>1
  <2>2. Len(c.loop) \in Nat /\ Len(c.loop) >= 1
    BY <1>1, <2>1
  <2> QED BY <1>1, <2>2, Positions
<1>3. Last(c.loop) = c.loop[Len(c.loop)]
  BY DEF Last
<1>4. Last(c.loop) \in LoopInfo
  BY <1>1, <1>2, <1>3
<1>5. /\ Last(c.loop).start \in Nat /\ Last(c.loop).end \in Nat /\ Last(c.loop).body \in Nat
      /\ Last(c.loop).scopeDepth \in Nat
  BY <1>4 DEF LoopInfo
<1>6. /\ Last(c.loop).start <= Here(c) /\ Last(c.loop).body <= Here(c)
      /\ Last(c.loop).end # 0 =>
           /\ Last(c.loop).end \in DOMAIN c.code
           /\ c.code[Last(c.loop).end].op = "JUMP_IF_FALSE"
  BY <1>2, <1>3 DEF IsSound
<1> QED BY <1>2, <1>3, <1>4, <1>5, <1>6

\* A break or continue gives up the locals of the loop's body, and jumps.
LEMMA LeavesLike ==
  ASSUME NEW c, IsSound(c), c.loop # <<>>,
         NEW I \in {[op |-> "BREAK"], Jump(Last(c.loop).start)},
         NEW d, d = Emit(c, Discards(c, Last(c.loop).scopeDepth) \o <<I>>)
  PROVE  Like(c, d)
<1>a. PICK s : s = Discards(c, Last(c.loop).scopeDepth)
  OBVIOUS
<1>b. PICK e : e = Emit(c, s)
  OBVIOUS
<1>1. Plain(s)
  BY <1>a, LoopFacts, DiscardsPlain
<1>2. /\ Like(c, e) /\ e.loop = c.loop /\ Here(e) = Here(c) + Len(s)
  BY <1>b, <1>1, PlainEmit
<1>3. s \in Seq(Instr) /\ Len(s) \in Nat
  BY <1>1 DEF Plain
<1>4. I \in Instr /\ (I.op \in JumpOps => I.to = Last(c.loop).start)
  BY LoopFacts, Instructions DEF Instr, JumpOps
<1>5. <<I>> \in Seq(Instr)
  BY <1>4
<1>6. d = Emit(e, <<I>>)
  BY <1>a, <1>b, <1>3, <1>5, EmitTwice
<1>7. IsSound(e)
  BY <1>2 DEF Like
<1>8. I.op \in JumpOps => I.to <= Here(e) + 1
  <2>1. Here(c) \in Nat /\ Here(e) \in Nat
    BY <1>7, CompilerFacts
  <2> QED BY <1>2, <1>3, <1>4, <2>1, LoopFacts
<1>9. I.op = "BREAK" => e.loop # <<>>
  BY <1>2
<1>10. /\ IsSound(d) /\ Keeps(e, d) /\ d.scopeDepth = e.scopeDepth /\ d.loop = e.loop
       /\ d.type = e.type
  BY <1>4, <1>6, <1>7, <1>8, <1>9, EmitOneFacts
<1>11. Like(e, d)
  BY <1>10 DEF Like
<1> QED BY <1>2, <1>11, LikeTrans

----------------------------------------------------------------------------
(* Constructs begin. *)

\* A construct begins or ends within the function: code is added.
Grows(c, d, scopes, loops) ==
  /\ IsSound(d) /\ Keeps(c, d) /\ d.type = c.type
  /\ d.scopeDepth = c.scopeDepth + scopes /\ Len(d.loop) = Len(c.loop) + loops

\* A condition is tested: its jump is the second instruction.
LEMMA ConditionFacts ==
  ASSUME NEW c, IsSound(c), NEW d, d = Emit(c, Condition)
  PROVE  /\ Like(c, d) /\ d.loop = c.loop /\ d.locals = c.locals /\ Here(d) = Here(c) + 3
         /\ Here(c) + 1 \in DOMAIN d.code /\ d.code[Here(c) + 1].op = "JUMP_IF_FALSE"
<1>1. /\ Condition \in Seq(Instr) /\ Len(Condition) = 3 /\ Condition[2] = JumpIfFalse
      /\ DOMAIN Condition = 1 .. 3
  <2>1. Push(Temp) \in Instr /\ JumpIfFalse \in Instr /\ PopTop \in Instr
    BY Instructions, PlainInstr
  <2> QED BY <2>1 DEF Condition
<1>2. Here(c) \in Nat /\ Here(c) = Len(c.code) + 1 /\ Len(c.code) \in Nat
  BY CompilerFacts
<1>3. \A j \in DOMAIN Condition : /\ Condition[j].op \in JumpOps => Condition[j].to = 0
                                  /\ Condition[j].op # "BREAK"
  <2>1. /\ Condition[1] = Push(Temp) /\ Condition[2] = JumpIfFalse /\ Condition[3] = PopTop
    BY DEF Condition
  <2>2. Push(Temp).op = "PUSH" /\ PopTop.op = "POP"
    BY Instructions, PlainInstr
  <2> QED BY <1>1, <2>1, <2>2, Instructions DEF JumpOps
<1>4. \A j \in DOMAIN Condition :
        /\ Condition[j].op \in JumpOps => Condition[j].to <= Here(c) + Len(Condition)
        /\ Condition[j].op = "BREAK" => c.loop # <<>>
  BY <1>1, <1>2, <1>3
<1>5. /\ IsSound(d) /\ Keeps(c, d)
      /\ d.scopeDepth = c.scopeDepth /\ d.locals = c.locals /\ d.loop = c.loop
      /\ d.type = c.type
      /\ Here(d) = Here(c) + Len(Condition)
      /\ \A j \in 1 .. Len(Condition) : d.code[Len(c.code) + j] = Condition[j]
  <2>a. PICK new : new = Condition
    OBVIOUS
  <2>1. d = Emit(c, new) /\ new \in Seq(Instr)
    BY <1>1, <2>a
  <2>2. \A j \in DOMAIN new : /\ new[j].op \in JumpOps => new[j].to <= Here(c) + Len(new)
                              /\ new[j].op = "BREAK" => c.loop # <<>>
    BY <1>4, <2>a
  <2>3. /\ IsSound(d) /\ Keeps(c, d) /\ Here(d) = Here(c) + Len(new)
        /\ \A j \in 1 .. Len(new) : d.code[Len(c.code) + j] = new[j]
    BY <2>1, <2>2, EmitFacts
  <2>4. /\ d.scopeDepth = c.scopeDepth /\ d.locals = c.locals /\ d.loop = c.loop
        /\ d.type = c.type
    <3>1. c \in Compiler
      BY DEF IsSound
    <3> QED BY <2>1, <3>1 DEF Emit, Compiler
  <2> QED BY <2>a, <2>3, <2>4
<1>6. d.code[Len(c.code) + 2] = JumpIfFalse
  BY <1>1, <1>5
<1>7. DOMAIN d.code = 1 .. Len(d.code) /\ Here(d) = Len(d.code) + 1 /\ Len(d.code) \in Nat
  BY <1>5, CompilerFacts
<1>8. Here(c) + 1 = Len(c.code) + 2 /\ Here(c) + 1 \in DOMAIN d.code
  BY <1>1, <1>2, <1>5, <1>7
<1> QED BY <1>1, <1>5, <1>6, <1>8, Instructions DEF Like

\* A block begins.
LEMMA BlockGrows ==
  ASSUME NEW b, IsSound(b), NEW c, Like(b, c), NEW d, d = BeginScope(c)
  PROVE  Grows(b, d, 1, 0) /\ d.code = c.code /\ Here(d) = Here(c)
<1>1. IsSound(c) /\ Keeps(b, c) /\ c.scopeDepth = b.scopeDepth /\ Len(c.loop) = Len(b.loop)
      /\ c.type = b.type
  BY DEF Like
<1>2. /\ IsSound(d) /\ Keeps(c, d) /\ Here(d) = Here(c) /\ d.scopeDepth = c.scopeDepth + 1
      /\ d.loop = c.loop /\ d.type = c.type /\ d.code = c.code
  BY <1>1, BeginScopeFacts
<1>3. Keeps(b, d)
  BY <1>1, <1>2, KeepsTrans
<1>4. Len(b.loop) + 0 = Len(b.loop)
  <2>1. Len(b.loop) \in Nat
    BY CompilerFacts
  <2> QED BY <2>1
<1> QED BY <1>1, <1>2, <1>3, <1>4 DEF Grows

\* A while-statement begins.
LEMMA WhileGrows ==
  ASSUME NEW c, IsSound(c),
         NEW d, d = BeginScope(BeginLoop(Emit(c, Condition), Here(c), Here(c) + 1))
  PROVE  Grows(c, d, 1, 1)
<1>a. PICK tested : tested = Emit(c, Condition)
  OBVIOUS
<1>b. PICK looped : looped = BeginLoop(tested, Here(c), Here(c) + 1)
  OBVIOUS
<1>1. /\ Like(c, tested) /\ tested.loop = c.loop /\ Here(tested) = Here(c) + 3
      /\ Here(c) + 1 \in DOMAIN tested.code /\ tested.code[Here(c) + 1].op = "JUMP_IF_FALSE"
  BY <1>a, ConditionFacts
<1>2. IsSound(tested) /\ Keeps(c, tested) /\ tested.scopeDepth = c.scopeDepth
      /\ tested.type = c.type
  BY <1>1 DEF Like
<1>3. Here(c) \in Nat /\ Here(c) + 1 \in Nat /\ Here(c) <= Here(tested)
  <2>1. Here(c) \in Nat
    BY CompilerFacts
  <2> QED BY <1>1, <2>1
<1>4. /\ IsSound(looped) /\ Keeps(tested, looped) /\ looped.scopeDepth = tested.scopeDepth
      /\ Len(looped.loop) = Len(tested.loop) + 1 /\ looped.type = tested.type
  <2>a. PICK start, end : start = Here(c) /\ end = Here(c) + 1
    OBVIOUS
  <2>1. /\ start \in Nat /\ start <= Here(tested) /\ end \in Nat
        /\ end \in DOMAIN tested.code /\ tested.code[end].op = "JUMP_IF_FALSE"
        /\ looped = BeginLoop(tested, start, end)
    BY <1>b, <1>1, <1>3, <2>a
  <2>2. IsSound(looped) /\ Keeps(tested, looped) /\ Len(looped.loop) = Len(tested.loop) + 1
    <3>1. end # 0 => end \in DOMAIN tested.code /\ tested.code[end].op = "JUMP_IF_FALSE"
      BY <2>1
    <3>2. IsSound(tested)
      BY <1>2
    <3>3. IsSound(looped)
      BY <2>1, <3>1, <3>2, BeginLoopFacts, Zenon
    <3>4. Keeps(tested, looped)
      BY <2>1, <3>1, <3>2, BeginLoopFacts, Zenon
    <3>5. Len(looped.loop) = Len(tested.loop) + 1
      <4>1. tested \in Compiler /\ tested.loop \in Seq(LoopInfo) /\ Here(tested) \in Nat
            /\ tested.scopeDepth \in Nat
        BY <3>2, CompilerFacts DEF IsSound
      <4> DEFINE one == [start |-> start, end |-> end, body |-> Here(tested),
                         scopeDepth |-> tested.scopeDepth]
      <4>2. looped.loop = Append(tested.loop, one)
        BY <2>1, <4>1 DEF BeginLoop, Compiler
      <4>3. one \in LoopInfo
        BY <2>1, <4>1 DEF LoopInfo
      <4> HIDE DEF one
      <4> QED BY <4>1, <4>2, <4>3, AppendFacts
    <3> QED BY <3>3, <3>4, <3>5
  <2>3. tested \in Compiler
    BY <1>2 DEF IsSound
  <2>4. looped.scopeDepth = tested.scopeDepth /\ looped.type = tested.type
    BY <2>1, <2>3 DEF BeginLoop, Compiler
  <2> QED BY <2>2, <2>4
<1>5. d = BeginScope(looped)
  BY <1>a, <1>b
<1>6. /\ IsSound(d) /\ Keeps(looped, d) /\ d.scopeDepth = looped.scopeDepth + 1
      /\ d.loop = looped.loop /\ d.type = looped.type
  BY <1>4, <1>5, BeginScopeFacts
<1>7. Keeps(c, looped)
  BY <1>2, <1>4, KeepsTrans
<1>8. Keeps(c, d)
  BY <1>4, <1>6, <1>7, KeepsTrans
<1> QED BY <1>1, <1>2, <1>4, <1>6, <1>8 DEF Grows

\* An if-statement begins.
LEMMA IfGrows ==
  ASSUME NEW c, IsSound(c), NEW d, d = BeginScope(Emit(c, Condition)),
         NEW entry, entry = [kind |-> "then", elseJump |-> Here(c) + 1]
  PROVE  Grows(c, d, 1, 0) /\ entry \in Entry /\ EntryFits(d, entry)
<1>a. PICK tested : tested = Emit(c, Condition)
  OBVIOUS
<1>1. /\ Like(c, tested)
      /\ Here(c) + 1 \in DOMAIN tested.code /\ tested.code[Here(c) + 1].op = "JUMP_IF_FALSE"
  BY <1>a, ConditionFacts
<1>2. Grows(c, d, 1, 0) /\ d.code = tested.code
  BY <1>a, <1>1, BlockGrows
<1>3. Here(c) + 1 \in Nat
  <2>1. Here(c) \in Nat
    BY CompilerFacts
  <2> QED BY <2>1
<1> QED BY <1>1, <1>2, <1>3 DEF Entry, EntryFits

\* A case is tested.
LEMMA CompareFacts ==
  ASSUME NEW c, IsSound(c), NEW d, d = Emit(c, CompareJump)
  PROVE  /\ Like(c, d) /\ d.loop = c.loop /\ d.locals = c.locals /\ Here(d) = Here(c) + 2
         /\ Here(c) + 1 \in DOMAIN d.code /\ d.code[Here(c) + 1].op = "COMPARE_JUMP"
         /\ \A i \in DOMAIN c.code : i \in DOMAIN d.code /\ d.code[i] = c.code[i]
<1>a. PICK J : J = [op |-> "COMPARE_JUMP", to |-> 0]
  OBVIOUS
<1>b. PICK e : e = Emit(c, <<Push(Temp)>>)
  OBVIOUS
<1>1. J \in Instr /\ J.op = "COMPARE_JUMP" /\ J.to = 0 /\ Push(Temp) \in Instr
  BY <1>a, PlainInstr DEF Instr, JumpOps
<1>2. d = Emit(e, <<J>>)
  <2>1. CompareJump = <<Push(Temp)>> \o <<J>>
    BY <1>1, <1>a DEF CompareJump
  <2>2. <<Push(Temp)>> \in Seq(Instr) /\ <<J>> \in Seq(Instr)
    BY <1>1
  <2> QED BY <1>b, <2>1, <2>2, EmitTwice
<1>3. /\ Like(c, e) /\ e.loop = c.loop /\ e.locals = c.locals
      /\ e.code = c.code \o <<Push(Temp)>> /\ Here(e) = Here(c) + 1
  <2>1. Plain(<<Push(Temp)>>) /\ Len(<<Push(Temp)>>) = 1
    BY PlainInstr
  <2>2. Here(e) = Here(c) + Len(<<Push(Temp)>>)
    BY <1>b, <2>1, PlainEmit
  <2> QED BY <1>b, <2>1, <2>2, PlainEmit
<1>4. IsSound(e) /\ Here(e) \in Nat /\ Here(c) \in Nat
  <2>1. IsSound(e)
    BY <1>3 DEF Like
  <2> QED BY <2>1, CompilerFacts
<1>5. /\ IsSound(d) /\ Keeps(e, d) /\ d.scopeDepth = e.scopeDepth /\ d.loop = e.loop
      /\ d.locals = e.locals /\ d.type = e.type /\ Here(d) = Here(e) + 1
      /\ Len(d.code) = Len(e.code) + 1
      /\ \A i \in 1 .. Len(e.code) : d.code[i] = e.code[i]
      /\ d.code[Here(e)] = J
  <2>1. J.op \in JumpOps => J.to <= Here(e) + 1
    BY <1>1, <1>4
  <2>2. J.op = "BREAK" => e.loop # <<>>
    BY <1>1
  <2>3. IsSound(e) /\ d = Emit(e, <<J>>) /\ J \in Instr
    BY <1>1, <1>2, <1>4
  <2>4. /\ IsSound(d) /\ Keeps(e, d) /\ Here(d) = Here(e) + 1 /\ Len(d.code) = Len(e.code) + 1
        /\ \A i \in 1 .. Len(e.code) : d.code[i] = e.code[i]
        /\ d.code[Here(e)] = J
    BY <2>1, <2>2, <2>3, EmitOneFacts
  <2>5. e \in Compiler
    BY <2>3 DEF IsSound
  <2>6. /\ d.scopeDepth = e.scopeDepth /\ d.loop = e.loop /\ d.locals = e.locals
        /\ d.type = e.type
    BY <2>3, <2>5 DEF Emit, Compiler
  <2> QED BY <2>4, <2>6
<1>6. Like(c, d)
  <2>1. Like(e, d)
    BY <1>5 DEF Like
  <2> QED BY <1>3, <2>1, LikeTrans
<1>7. /\ DOMAIN d.code = 1 .. Len(d.code) /\ Len(d.code) \in Nat /\ Here(d) = Len(d.code) + 1
      /\ DOMAIN c.code = 1 .. Len(c.code) /\ Len(c.code) \in Nat /\ Here(c) = Len(c.code) + 1
      /\ Len(e.code) \in Nat /\ Here(e) = Len(e.code) + 1 /\ DOMAIN e.code = 1 .. Len(e.code)
  BY <1>4, <1>5, CompilerFacts
<1>8. /\ Here(d) = Here(c) + 2 /\ Here(c) + 1 \in DOMAIN d.code
      /\ Len(e.code) = Len(c.code) + 1
  BY <1>3, <1>5, <1>7
<1>9. ASSUME NEW i \in DOMAIN c.code PROVE i \in DOMAIN d.code /\ d.code[i] = c.code[i]
  <2>1. i \in 1 .. Len(c.code) /\ i \in 1 .. Len(e.code) /\ i \in 1 .. Len(d.code)
    BY <1>5, <1>7, <1>8
  <2>2. e.code[i] = c.code[i]
    <3>1. \A k \in 1 .. Len(c.code) : e.code[k] = c.code[k]
      <4>1. Push(Temp).op = "PUSH"
        BY Instructions, PlainInstr
      <4>2. Push(Temp).op \notin JumpOps /\ Push(Temp).op # "BREAK"
        BY <4>1 DEF JumpOps
      <4> QED BY <1>b, <1>1, <4>2, EmitOneFacts
    <3> QED BY <2>1, <3>1
  <2> QED BY <1>5, <1>7, <2>1, <2>2
<1> QED BY <1>1, <1>3, <1>5, <1>6, <1>8, <1>9

\* A switch-statement begins.
LEMMA SwitchGrows ==
  ASSUME NEW c, IsSound(c), NEW d, d = BeginScope(Emit(c, <<Push(Temp)>> \o CompareJump)),
         NEW entry, entry = [kind |-> "case", compareJump |-> Here(c) + 2, ends |-> {}]
  PROVE  Grows(c, d, 1, 0) /\ entry \in Entry /\ EntryFits(d, entry)
<1>a. PICK e : e = Emit(c, <<Push(Temp)>>)
  OBVIOUS
<1>b. PICK tested : tested = Emit(e, CompareJump)
  OBVIOUS
<1>1. Like(c, e) /\ Here(e) = Here(c) + 1 /\ Here(c) \in Nat
  <2>1. Plain(<<Push(Temp)>>) /\ Len(<<Push(Temp)>>) = 1
    BY PlainInstr
  <2>2. Like(c, e) /\ Here(e) = Here(c) + Len(<<Push(Temp)>>)
    BY <1>a, <2>1, PlainEmit
  <2> QED BY <2>1, <2>2, CompilerFacts
<1>2. IsSound(e)
  BY <1>1 DEF Like
<1>3. /\ Like(e, tested) /\ Here(e) + 1 \in DOMAIN tested.code
      /\ tested.code[Here(e) + 1].op = "COMPARE_JUMP"
  BY <1>b, <1>2, CompareFacts
<1>4. Like(c, tested)
  BY <1>1, <1>3, LikeTrans
<1>5. Here(e) + 1 = Here(c) + 2 /\ Here(c) + 2 \in Nat
  BY <1>1
<1>6. d = BeginScope(tested)
  <2>1. <<Push(Temp)>> \in Seq(Instr) /\ CompareJump \in Seq(Instr)
    <3>1. Push(Temp) \in Instr /\ [op |-> "COMPARE_JUMP", to |-> 0] \in Instr
      BY PlainInstr DEF Instr, JumpOps
    <3> QED BY <3>1 DEF CompareJump
  <2> QED BY <1>a, <1>b, <2>1, EmitTwice
<1>7. Grows(c, d, 1, 0) /\ d.code = tested.code
  BY <1>4, <1>6, BlockGrows
<1> QED BY <1>3, <1>5, <1>7 DEF Entry, EntryFits

\* The initializer of a for-statement: a scope with a local.
LEMMA InitializerGrows ==
  ASSUME NEW b, IsSound(b), NEW n \in Name, NEW id \in Nat,
         NEW c, c = DefineVariable(Emit(AddLocal(BeginScope(b), n, id), <<Push(id)>>), FALSE)
  PROVE  Grows(b, c, 1, 0) /\ c.loop = b.loop
<1>a. PICK scoped : scoped = BeginScope(b)
  OBVIOUS
<1>b. PICK added : added = AddLocal(scoped, n, id)
  OBVIOUS
<1>c. PICK emitted : emitted = Emit(added, <<Push(id)>>)
  OBVIOUS
<1>1. /\ IsSound(scoped) /\ Keeps(b, scoped) /\ scoped.scopeDepth = b.scopeDepth + 1
      /\ scoped.loop = b.loop /\ scoped.type = b.type
  BY <1>a, BeginScopeFacts
<1>2. b.scopeDepth \in Nat /\ scoped.scopeDepth # 0 /\ Len(b.loop) \in Nat
  <2>1. b.scopeDepth \in Nat /\ Len(b.loop) \in Nat
    BY CompilerFacts
  <2> QED BY <1>1, <2>1
<1>3. /\ Like(scoped, added) /\ added.loop = scoped.loop /\ Len(added.locals) >= 2
  <2>1. added = DeclareVariable(scoped, n, id)
    BY <1>b, <1>2 DEF DeclareVariable
  <2> QED BY <1>1, <1>2, <2>1, DeclareFacts
<1>4. IsSound(added) /\ added.scopeDepth = scoped.scopeDepth
  BY <1>3 DEF Like
<1>5. Like(added, emitted) /\ emitted.loop = added.loop /\ emitted.locals = added.locals
  <2>1. Plain(<<Push(id)>>)
    BY PlainInstr
  <2> QED BY <1>c, <1>4, <2>1, PlainEmit
<1>6. IsSound(emitted) /\ Len(emitted.locals) >= 2 /\ emitted.scopeDepth # 0
  BY <1>2, <1>3, <1>4, <1>5 DEF Like
<1>7. c = DefineVariable(emitted, FALSE)
  BY <1>a, <1>b, <1>c
<1>8. Like(emitted, c)
  BY <1>6, <1>7, DefineLike
<1>9. c.loop = emitted.loop
  <2>1. emitted \in Compiler
    BY <1>6 DEF IsSound
  <2> QED BY <1>6, <1>7, <2>1 DEF DefineVariable, Compiler
<1>10. Like(scoped, c)
  <2>1. Like(scoped, emitted)
    BY <1>1, <1>3, <1>5, LikeTrans
  <2> QED BY <1>1, <1>8, <2>1, LikeTrans
<1>11. IsSound(c) /\ Keeps(scoped, c) /\ c.scopeDepth = scoped.scopeDepth /\ c.type = scoped.type
  BY <1>10 DEF Like
<1>12. Keeps(b, c)
  BY <1>1, <1>11, KeepsTrans
<1>13. c.loop = b.loop /\ Len(c.loop) = Len(b.loop) + 0
  <2>1. c.loop = b.loop
    BY <1>1, <1>3, <1>5, <1>9
  <2>2. Len(b.loop) = Len(b.loop) + 0
    BY <1>2
  <2> QED BY <2>1, <2>2
<1> QED BY <1>1, <1>11, <1>12, <1>13 DEF Grows

\* The increment of a for-statement: a jump over it, and one back to the condition.
LEMMA IncrementGrows ==
  ASSUME NEW c, IsSound(c), NEW back \in Nat, back <= Here(c),
         NEW d, d = PatchJump(Emit(c, <<Jump(0), Push(Temp), PopTop, Jump(back)>>), Here(c))
  PROVE  /\ IsSound(d) /\ Keeps(c, d) /\ d.type = c.type /\ d.scopeDepth = c.scopeDepth
         /\ d.loop = c.loop /\ Here(d) = Here(c) + 4
<1>a. PICK new : new = <<Jump(0), Push(Temp), PopTop, Jump(back)>>
  OBVIOUS
<1>b. PICK stepped : stepped = Emit(c, new)
  OBVIOUS
<1>1. Here(c) \in Nat /\ Here(c) = Len(c.code) + 1 /\ Len(c.code) \in Nat
  BY CompilerFacts
<1>2. /\ Jump(0) \in Instr /\ Push(Temp) \in Instr /\ PopTop \in Instr /\ Jump(back) \in Instr
      /\ Jump(0).op = "JUMP" /\ Jump(0).to = 0 /\ Jump(back).op = "JUMP" /\ Jump(back).to = back
      /\ Push(Temp).op = "PUSH" /\ PopTop.op = "POP"
  BY Instructions, PlainInstr
<1>3. /\ new \in Seq(Instr) /\ Len(new) = 4 /\ DOMAIN new = 1 .. 4
      /\ new[1] = Jump(0) /\ new[2] = Push(Temp) /\ new[3] = PopTop /\ new[4] = Jump(back)
  BY <1>a, <1>2
<1>4. \A j \in DOMAIN new : /\ new[j].op \in JumpOps => new[j].to <= Here(c) + Len(new)
                            /\ new[j].op = "BREAK" => c.loop # <<>>
  <2> SUFFICES ASSUME NEW j \in DOMAIN new
               PROVE  /\ new[j].op \in JumpOps => new[j].to <= Here(c) + Len(new)
                      /\ new[j].op # "BREAK"
    OBVIOUS
  <2>1. j \in {1, 2, 3, 4}
    BY <1>3
  <2>2. 0 <= Here(c) + 4 /\ back <= Here(c) + 4
    BY <1>1
  <2> QED BY <1>2, <1>3, <2>1, <2>2 DEF JumpOps
<1>5. /\ IsSound(stepped) /\ Keeps(c, stepped) /\ Here(stepped) = Here(c) + Len(new)
      /\ \A j \in 1 .. Len(new) : stepped.code[Len(c.code) + j] = new[j]
  <2>1. new \in Seq(Instr)
    BY <1>3
  <2> QED BY <1>b, <1>4, <2>1, EmitFacts
<1>6. /\ stepped.scopeDepth = c.scopeDepth /\ stepped.loop = c.loop /\ stepped.type = c.type
  <2>1. c \in Compiler
    BY DEF IsSound
  <2> QED BY <1>b, <2>1 DEF Emit, Compiler
<1>7. stepped.code[Here(c)] = Jump(0) /\ Here(stepped) = Here(c) + 4
  BY <1>1, <1>3, <1>5
<1>8. Here(c) \in DOMAIN stepped.code
  <2>1. /\ DOMAIN stepped.code = 1 .. Len(stepped.code) /\ Len(stepped.code) \in Nat
        /\ Here(stepped) = Len(stepped.code) + 1
    BY <1>5, CompilerFacts
  <2> QED BY <1>1, <1>7, <2>1
<1>9. stepped.code[Here(c)].op \in JumpOps
  BY <1>2, <1>7 DEF JumpOps
<1>10. d = PatchJump(stepped, Here(c))
  BY <1>a, <1>b
<1>c. PICK p : p = Here(c)
  OBVIOUS
<1>11. /\ IsSound(d) /\ Keeps(stepped, d) /\ Here(d) = Here(stepped)
       /\ d.scopeDepth = stepped.scopeDepth /\ d.loop = stepped.loop /\ d.type = stepped.type
  <2>1. p \in DOMAIN stepped.code /\ stepped.code[p].op \in JumpOps /\ d = PatchJump(stepped, p)
    BY <1>8, <1>9, <1>10, <1>c
  <2> QED BY <1>5, <2>1, PatchFacts
<1>12. Keeps(c, d)
  BY <1>5, <1>11, KeepsTrans
<1> QED BY <1>6, <1>7, <1>11, <1>12

\* A loop begins, and the block that is its body.
LEMMA LoopGrows ==
  ASSUME NEW c, IsSound(c), NEW start \in Nat, start <= Here(c), NEW end \in Nat,
         end # 0 => end \in DOMAIN c.code /\ c.code[end].op = "JUMP_IF_FALSE",
         NEW d, d = BeginScope(BeginLoop(c, start, end))
  PROVE  Grows(c, d, 1, 1)
<1>a. PICK looped : looped = BeginLoop(c, start, end)
  OBVIOUS
<1>1. IsSound(looped)
  BY <1>a, BeginLoopFacts, Zenon
<1>2. Keeps(c, looped)
  BY <1>a, BeginLoopFacts, Zenon
<1>3. c \in Compiler /\ c.loop \in Seq(LoopInfo) /\ Here(c) \in Nat /\ c.scopeDepth \in Nat
  BY CompilerFacts DEF IsSound
<1> DEFINE one == [start |-> start, end |-> end, body |-> Here(c), scopeDepth |-> c.scopeDepth]
<1>4. /\ looped.loop = Append(c.loop, one) /\ looped.scopeDepth = c.scopeDepth
      /\ looped.type = c.type
  BY <1>a, <1>3 DEF BeginLoop, Compiler
<1>5. one \in LoopInfo
  BY <1>3 DEF LoopInfo
<1> HIDE DEF one
<1>6. Len(looped.loop) = Len(c.loop) + 1
  BY <1>3, <1>4, <1>5, AppendFacts
<1>7. /\ IsSound(d) /\ Keeps(looped, d) /\ d.scopeDepth = looped.scopeDepth + 1
      /\ d.loop = looped.loop /\ d.type = looped.type
  BY <1>1, <1>a, BeginScopeFacts
<1>8. Keeps(c, d)
  BY <1>1, <1>2, <1>7, KeepsTrans
<1> QED BY <1>4, <1>6, <1>7, <1>8 DEF Grows

\* The condition of a for-statement, if it has one.
LEMMA TestedFacts ==
  ASSUME NEW c, IsSound(c), NEW condition \in BOOLEAN,
         NEW tested, tested = IF condition THEN Emit(c, Condition) ELSE c,
         NEW end, end = IF condition THEN Here(c) + 1 ELSE 0
  PROVE  /\ Like(c, tested) /\ tested.loop = c.loop
         /\ Here(c) \in Nat /\ Here(tested) \in Nat /\ Here(c) <= Here(tested) /\ end \in Nat
         /\ end # 0 => end \in DOMAIN tested.code /\ tested.code[end].op = "JUMP_IF_FALSE"
<1>1. Here(c) \in Nat
  BY CompilerFacts
<1>2. CASE condition
  <2>1. tested = Emit(c, Condition) /\ end = Here(c) + 1
    BY <1>2
  <2>2. /\ Like(c, tested) /\ tested.loop = c.loop /\ Here(tested) = Here(c) + 3
        /\ Here(c) + 1 \in DOMAIN tested.code /\ tested.code[Here(c) + 1].op = "JUMP_IF_FALSE"
    BY <2>1, ConditionFacts
  <2>3. Here(tested) \in Nat /\ Here(c) <= Here(tested) /\ end \in Nat
    BY <1>1, <2>1, <2>2
  <2> QED BY <1>1, <2>1, <2>2, <2>3
<1>3. CASE ~ condition
  <2>1. tested = c /\ end = 0
    BY <1>3
  <2>2. Here(tested) \in Nat /\ Here(c) <= Here(tested) /\ end \in Nat
    BY <1>1, <2>1
  <2> QED BY <1>1, <2>1, <2>2, Itself
<1> QED BY <1>2, <1>3

\* A jump that is kept is at the same place.
LEMMA KeptJump ==
  ASSUME NEW c, IsSound(c), NEW d, IsSound(d), Keeps(c, d), NEW p \in DOMAIN c.code,
         c.code[p].op \in JumpOps
  PROVE  p \in DOMAIN d.code /\ d.code[p].op = c.code[p].op
<1>1. /\ DOMAIN c.code = 1 .. Len(c.code) /\ Len(c.code) \in Nat
      /\ DOMAIN d.code = 1 .. Len(d.code) /\ Len(d.code) \in Nat
  BY CompilerFacts
<1>2. DOMAIN c.code \subseteq DOMAIN d.code
  BY <1>1 DEF Keeps
<1> QED BY <1>2 DEF Keeps

\* The loop of a for-statement.
LEMMA ForLoopGrows ==
  ASSUME NEW b, IsSound(b), NEW c, Grows(b, c, 1, 0), c.loop = b.loop,
         NEW tested, Like(c, tested), tested.loop = c.loop, Here(tested) \in Nat,
         NEW back \in Nat, back <= Here(tested),
         NEW end \in Nat,
         end # 0 => end \in DOMAIN tested.code /\ tested.code[end].op = "JUMP_IF_FALSE",
         NEW body,
         body = PatchJump(Emit(tested, <<Jump(0), Push(Temp), PopTop, Jump(back)>>), Here(tested)),
         NEW start, start = Here(tested) + 1,
         NEW d, d = BeginScope(BeginLoop(body, start, end))
  PROVE  Grows(b, d, 2, 1)
<1>2. IsSound(c)
  BY DEF Grows
<1>4. IsSound(tested)
  BY DEF Like
<1>5. /\ IsSound(body) /\ Keeps(tested, body) /\ body.type = tested.type
      /\ body.scopeDepth = tested.scopeDepth /\ body.loop = tested.loop
      /\ Here(body) = Here(tested) + 4
  BY <1>4, IncrementGrows
<1>6. start \in Nat /\ start <= Here(body)
  <2>1. \A h \in Nat : h + 1 \in Nat /\ h + 1 <= h + 4
    OBVIOUS
  <2> QED BY <1>5, <2>1, Zenon
<1>7. end # 0 => end \in DOMAIN body.code /\ body.code[end].op = "JUMP_IF_FALSE"
  <2> SUFFICES ASSUME end # 0 PROVE end \in DOMAIN body.code /\ body.code[end].op = "JUMP_IF_FALSE"
    OBVIOUS
  <2>1. end \in DOMAIN tested.code /\ tested.code[end].op = "JUMP_IF_FALSE"
    OBVIOUS
  <2>2. tested.code[end].op \in JumpOps
    BY <2>1 DEF JumpOps
  <2>3. end \in DOMAIN body.code /\ body.code[end].op = tested.code[end].op
    BY <1>4, <1>5, <2>1, <2>2, KeptJump
  <2> QED BY <2>1, <2>3
<1>9. Grows(body, d, 1, 1)
  BY <1>5, <1>6, <1>7, LoopGrows
<1>10. /\ Keeps(b, c) /\ Keeps(c, tested) /\ Keeps(body, d) /\ IsSound(d)
       /\ d.type = b.type
  BY <1>5, <1>9, Zenon DEF Grows, Like
<1>11. Keeps(b, d)
  <2>1. Keeps(b, tested)
    BY <1>2, <1>4, <1>10, KeepsTrans, Zenon
  <2>2. Keeps(b, body)
    BY <1>4, <1>5, <2>1, KeepsTrans, Zenon
  <2> QED BY <1>5, <1>10, <2>2, KeepsTrans, Zenon
<1>12. d.scopeDepth = (b.scopeDepth + 1) + 1 /\ Len(d.loop) = Len(b.loop) + 1
  BY <1>5, <1>9, Zenon DEF Grows, Like
<1>13. (b.scopeDepth + 1) + 1 = b.scopeDepth + 2
  <2>1. b.scopeDepth \in Nat
    BY CompilerFacts, Zenon
  <2>2. \A x \in Nat : (x + 1) + 1 = x + 2
    OBVIOUS
  <2> QED BY <2>1, <2>2, Zenon
<1> QED BY <1>10, <1>11, <1>12, <1>13, Zenon DEF Grows

\* A for-statement begins.
LEMMA ForGrows ==
  ASSUME NEW b, IsSound(b), NEW n \in Name, NEW id \in Nat, NEW condition \in BOOLEAN
  PROVE  LET c      == DefineVariable(Emit(AddLocal(BeginScope(b), n, id), <<Push(id)>>), FALSE)
             tested == IF condition THEN Emit(c, Condition) ELSE c
             body   == PatchJump(Emit(tested, <<Jump(0), Push(Temp), PopTop, Jump(Here(c))>>),
                                 Here(tested))
         IN Grows(b, BeginScope(BeginLoop(body, Here(tested) + 1,
                                          IF condition THEN Here(c) + 1 ELSE 0)), 2, 1)
<1>a. PICK c : c = DefineVariable(Emit(AddLocal(BeginScope(b), n, id), <<Push(id)>>), FALSE)
  OBVIOUS
<1>b. PICK tested : tested = IF condition THEN Emit(c, Condition) ELSE c
  OBVIOUS
<1>c. PICK end : end = IF condition THEN Here(c) + 1 ELSE 0
  OBVIOUS
<1>d. PICK back : back = Here(c)
  OBVIOUS
<1>e. PICK body : body = PatchJump(Emit(tested, <<Jump(0), Push(Temp), PopTop, Jump(back)>>),
                                   Here(tested))
  OBVIOUS
<1>1. Grows(b, c, 1, 0) /\ c.loop = b.loop
  BY <1>a, InitializerGrows
<1>2. IsSound(c)
  BY <1>1 DEF Grows
<1>3. /\ Like(c, tested) /\ tested.loop = c.loop
      /\ back \in Nat /\ Here(tested) \in Nat /\ back <= Here(tested) /\ end \in Nat
      /\ end # 0 => end \in DOMAIN tested.code /\ tested.code[end].op = "JUMP_IF_FALSE"
  BY <1>2, <1>b, <1>c, <1>d, TestedFacts
<1>f. PICK start, d : start = Here(tested) + 1 /\ d = BeginScope(BeginLoop(body, start, end))
  OBVIOUS
<1>4. Grows(b, d, 2, 1)
  BY <1>1, <1>3, <1>e, <1>f, ForLoopGrows
<1> QED BY <1>4, <1>a, <1>b, <1>c, <1>d, <1>e, <1>f, Zenon

\* A with-statement begins: a local in a new scope has the file.
LEMMA WithGrows ==
  ASSUME NEW b, IsSound(b), NEW n \in Name, NEW id \in Nat,
         NEW c, c = BeginScope(Emit(b, <<Push(Temp), Push(Temp), [op |-> "OPEN_FILE", id |-> id]>>)),
         NEW d, d = [c EXCEPT !.locals = Append(@, [name |-> n, depth |-> c.scopeDepth,
                                                    isUpvalue |-> FALSE, constant |-> TRUE,
                                                    id |-> id]),
                              !.isFile = @ \cup {Len(b.locals) + 1}]
  PROVE  Grows(b, d, 1, 0) /\ [kind |-> "with", slot |-> Len(b.locals) + 1] \in Entry
<1>a. PICK emitted : emitted = Emit(b, <<Push(Temp), Push(Temp), [op |-> "OPEN_FILE", id |-> id]>>)
  OBVIOUS
<1>b. PICK slot : slot = Len(b.locals) + 1
  OBVIOUS
<1>1. Like(b, emitted)
  <2>1. /\ [op |-> "OPEN_FILE", id |-> id] \in Instr
        /\ [op |-> "OPEN_FILE", id |-> id].op \notin JumpOps \cup {"BREAK"}
    BY DEF Instr, JumpOps
  <2>2. Push(Temp) \in Instr /\ Push(Temp).op \notin JumpOps \cup {"BREAK"}
    BY PlainInstr
  <2>3. Plain(<<Push(Temp), Push(Temp), [op |-> "OPEN_FILE", id |-> id]>>)
    BY <2>1, <2>2, PlainSeqs
  <2> QED BY <1>a, <2>3, PlainEmit
<1>2. c = BeginScope(emitted)
  BY <1>a
<1>3. Grows(b, c, 1, 0)
  BY <1>1, <1>2, BlockGrows
<1>4. /\ IsSound(c) /\ c \in Compiler /\ Len(c.locals) >= 1 /\ c.locals[1].depth = 0
      /\ c.locals \in Seq(Local) /\ c.isFile \in SUBSET Nat /\ c.scopeDepth \in Nat
      /\ Len(c.locals) \in Nat
  <2>1. IsSound(c)
    BY <1>3 DEF Grows
  <2> QED BY <2>1, CompilerFacts DEF IsSound
<1>5. slot \in Nat
  <2>1. Len(b.locals) \in Nat
    BY CompilerFacts
  <2> QED BY <1>b, <2>1
<1>c. PICK one : one = [name |-> n, depth |-> c.scopeDepth, isUpvalue |-> FALSE,
                        constant |-> TRUE, id |-> id]
  OBVIOUS
<1>6. one \in Local
  BY <1>4, <1>c DEF Local
<1>d. PICK locals, files : locals = Append(c.locals, one) /\ files = c.isFile \cup {slot}
  OBVIOUS
<1>7. /\ locals \in Seq(Local) /\ Len(locals) = Len(c.locals) + 1
      /\ \A i \in 1 .. Len(c.locals) : locals[i] = c.locals[i]
  BY <1>4, <1>6, <1>d, AppendFacts
<1>8. Len(locals) >= 1 /\ locals[1].depth = 0
  <2>1. 1 \in 1 .. Len(c.locals)
    BY <1>4
  <2>2. locals[1] = c.locals[1]
    BY <1>7, <2>1
  <2> QED BY <1>4, <1>7, <2>2
<1>9. d = [c EXCEPT !.locals = locals, !.isFile = files]
  BY <1>4, <1>b, <1>c, <1>d DEF Compiler
<1>10. files \in SUBSET Nat
  BY <1>4, <1>5, <1>d
<1>11. /\ d \in Compiler /\ d.code = c.code /\ d.loop = c.loop /\ d.locals = locals
       /\ d.scopeDepth = c.scopeDepth /\ d.type = c.type
  BY <1>4, <1>7, <1>9, <1>10 DEF Compiler
<1>12. IsSound(d) /\ Keeps(c, d)
  BY <1>4, <1>8, <1>11, SameCode
<1>13. Keeps(b, d)
  BY <1>3, <1>4, <1>12, KeepsTrans DEF Grows
<1>14. [kind |-> "with", slot |-> slot] \in Entry
  BY <1>5 DEF Entry
<1> QED BY <1>3, <1>11, <1>12, <1>13, <1>14, <1>b DEF Grows

----------------------------------------------------------------------------
(* Constructs end. *)

\* A construct ends: code is added, and scopes and loops are left.
Shrinks(c, d, scopes, loops) ==
  /\ IsSound(d) /\ Keeps(c, d) /\ d.type = c.type
  /\ c.scopeDepth = d.scopeDepth + scopes /\ Len(c.loop) = Len(d.loop) + loops

\* Code is added to what is left.
LEMMA ShrinksOn ==
  ASSUME NEW c, IsSound(c), NEW scopes, NEW loops, NEW d, Shrinks(c, d, scopes, loops),
         NEW e, Like(d, e)
  PROVE  Shrinks(c, e, scopes, loops)
<1>1. Keeps(c, e)
  BY KeepsTrans DEF Shrinks, Like
<1> QED BY <1>1 DEF Shrinks, Like

\* A block ends.
LEMMA BlockShrinks ==
  ASSUME NEW c, IsSound(c), c.scopeDepth # 0, NEW d, d = EndScope(c)
  PROVE  Shrinks(c, d, 1, 0) /\ d.loop = c.loop /\ d.type = c.type
<1>1. /\ IsSound(d) /\ Keeps(c, d) /\ d.scopeDepth = c.scopeDepth - 1
      /\ d.loop = c.loop /\ d.type = c.type
  BY EndScopeFacts
<1>2. c.scopeDepth \in Nat /\ Len(c.loop) \in Nat
  BY CompilerFacts
<1>3. c.scopeDepth = d.scopeDepth + 1 /\ Len(c.loop) = Len(c.loop) + 0
  <2>1. \A x \in Nat : x = (x - 1) + 1 /\ x = x + 0
    OBVIOUS
  <2> QED BY <1>1, <1>2, <2>1, Zenon
<1> QED BY <1>1, <1>3 DEF Shrinks

\* A with-statement ends.
LEMMA WithShrinks ==
  ASSUME NEW c, IsSound(c), c.scopeDepth # 0, NEW slot \in Nat,
         NEW d, d = EndScope(Emit(c, <<CloseFile(slot)>>))
  PROVE  Shrinks(c, d, 1, 0)
<1>a. PICK e : e = Emit(c, <<CloseFile(slot)>>)
  OBVIOUS
<1>1. Like(c, e)
  <2>1. Plain(<<CloseFile(slot)>>)
    BY PlainInstr, PlainSeqs
  <2> QED BY <1>a, <2>1, PlainEmit
<1>2. IsSound(e) /\ Keeps(c, e) /\ e.scopeDepth = c.scopeDepth /\ Len(e.loop) = Len(c.loop)
      /\ e.type = c.type
  BY <1>1 DEF Like
<1>3. Shrinks(e, d, 1, 0)
  BY <1>2, <1>a, BlockShrinks
<1>4. Keeps(c, d)
  BY <1>2, <1>3, KeepsTrans DEF Shrinks
<1> QED BY <1>2, <1>3, <1>4 DEF Shrinks

\* The jumps to what follows a construct.
Exits(c, ends) == \A q \in ends : q \in DOMAIN c.code /\ c.code[q].op = "JUMP"

\* A jump to what follows ends a block, and the jump over the block comes after it.
LEMMA JumpShrinks ==
  ASSUME NEW c, IsSound(c), c.scopeDepth # 0,
         NEW p \in DOMAIN c.code, c.code[p].op \in {"JUMP_IF_FALSE", "COMPARE_JUMP"},
         NEW ends, Exits(c, ends),
         NEW block, block = EndScope(c),
         NEW d, d = PatchJump(Emit(block, <<Jump(0)>>), p)
  PROVE  Shrinks(c, d, 1, 0) /\ Here(block) \in Nat /\ Exits(d, ends \cup {Here(block)})
<1>a. PICK e : e = Emit(block, <<Jump(0)>>)
  OBVIOUS
<1>1. Shrinks(c, block, 1, 0)
  BY BlockShrinks
<1>2. IsSound(block) /\ Keeps(c, block)
  BY <1>1 DEF Shrinks
<1>3. Jump(0) \in Instr /\ Jump(0).op = "JUMP" /\ Jump(0).to = 0
  BY Instructions
<1>4. Here(block) \in Nat /\ Here(block) = Len(block.code) + 1 /\ Len(block.code) \in Nat
  BY <1>2, CompilerFacts
<1>5. /\ IsSound(e) /\ Keeps(block, e) /\ Len(e.code) = Len(block.code) + 1
      /\ e.code[Here(block)] = Jump(0)
  <2>1. Jump(0).op \in JumpOps => Jump(0).to <= Here(block) + 1
    BY <1>3, <1>4
  <2>2. Jump(0).op # "BREAK"
    BY <1>3
  <2> QED BY <1>2, <1>3, <1>a, <2>1, <2>2, EmitOneFacts
<1>6. Like(block, e)
  <2>1. block \in Compiler
    BY <1>2 DEF IsSound
  <2> QED BY <1>5, <1>a, <2>1 DEF Like, Emit, Compiler
<1>7. Here(block) \in DOMAIN e.code
  <2>1. DOMAIN e.code = 1 .. Len(e.code) /\ Len(e.code) \in Nat
    BY <1>5, CompilerFacts
  <2> QED BY <1>4, <1>5, <2>1
<1>8. Shrinks(c, e, 1, 0)
  BY <1>1, <1>6, ShrinksOn
<1>9. Keeps(c, e)
  BY <1>8 DEF Shrinks
<1>10. /\ p \in DOMAIN e.code /\ e.code[p].op = c.code[p].op
  <2>1. c.code[p].op \in JumpOps
    BY DEF JumpOps
  <2> QED BY <1>5, <1>9, <2>1, KeptJump
<1>11. d = PatchJump(e, p) /\ e.code[p].op \in JumpOps
  BY <1>10, <1>a DEF JumpOps
<1>12. /\ IsSound(d) /\ Keeps(e, d) /\ d.scopeDepth = e.scopeDepth /\ d.loop = e.loop
       /\ d.type = e.type
  BY <1>5, <1>10, <1>11, PatchFacts
<1>13. Like(e, d)
  BY <1>12 DEF Like
<1>14. Shrinks(c, d, 1, 0)
  BY <1>8, <1>13, ShrinksOn
<1>15. ASSUME NEW q \in ends \cup {Here(block)} PROVE q \in DOMAIN d.code /\ d.code[q].op = "JUMP"
  <2>1. q \in DOMAIN e.code /\ e.code[q].op = "JUMP"
    <3>1. CASE q = Here(block)
      BY <1>3, <1>5, <1>7, <3>1
    <3>2. CASE q \in ends
      <4>1. q \in DOMAIN c.code /\ c.code[q].op = "JUMP" /\ c.code[q].op \in JumpOps
        BY <3>2 DEF Exits, JumpOps
      <4>2. q \in DOMAIN e.code /\ e.code[q].op = c.code[q].op
        BY <1>5, <1>9, <4>1, KeptJump
      <4> QED BY <4>1, <4>2
    <3> QED BY <3>1, <3>2
  <2>2. e.code[q].op \in JumpOps
    BY <2>1 DEF JumpOps
  <2>3. q \in DOMAIN d.code /\ d.code[q].op = e.code[q].op
    BY <1>5, <1>12, <2>1, <2>2, KeptJump
  <2> QED BY <2>1, <2>3
<1> QED BY <1>4, <1>14, <1>15 DEF Exits

\* The value of the condition is popped after the jump.
LEMMA PoppedShrinks ==
  ASSUME NEW c, IsSound(c), NEW d, Shrinks(c, d, 1, 0),
         NEW ends, Exits(d, ends),
         NEW e, e = Emit(d, <<PopTop>>)
  PROVE  Shrinks(c, e, 1, 0) /\ Exits(e, ends)
<1>1. IsSound(d)
  BY DEF Shrinks
<1>2. Like(d, e)
  BY <1>1, PlainInstr, PlainEmit
<1>3. Shrinks(c, e, 1, 0)
  BY <1>2, ShrinksOn
<1>4. IsSound(e) /\ Keeps(d, e)
  BY <1>2 DEF Like
<1>5. ASSUME NEW q \in ends PROVE q \in DOMAIN e.code /\ e.code[q].op = "JUMP"
  <2>1. q \in DOMAIN d.code /\ d.code[q].op = "JUMP" /\ d.code[q].op \in JumpOps
    BY DEF Exits, JumpOps
  <2> QED BY <1>1, <1>4, <2>1, KeptJump
<1> QED BY <1>3, <1>5 DEF Exits

\* Jumps to what follows get their target.
LEMMA PatchedShrinks ==
  ASSUME NEW c, IsSound(c), NEW d, Shrinks(c, d, 1, 0),
         NEW ends, Exits(d, ends),
         NEW e, e = PatchJumps(d, ends)
  PROVE  Shrinks(c, e, 1, 0)
<1>1. IsSound(d)
  BY DEF Shrinks
<1>2. /\ IsSound(e) /\ Keeps(d, e) /\ e.scopeDepth = d.scopeDepth /\ e.loop = d.loop
      /\ e.type = d.type
  BY <1>1, PatchAllFacts DEF Exits
<1>3. Like(d, e)
  BY <1>2 DEF Like
<1> QED BY <1>3, ShrinksOn

\* A loop ends.
LEMMA LoopShrinks ==
  ASSUME NEW c, IsSound(c), c.scopeDepth # 0, c.loop # <<>>, NEW d, d = EndLoop(c)
  PROVE  Shrinks(c, d, 1, 1)
<1>a. PICK loop : loop = Last(c.loop)
  OBVIOUS
<1>b. PICK block : block = EndScope(c)
  OBVIOUS
<1>c. PICK looped : looped = Emit(block, <<Jump(loop.start)>>)
  OBVIOUS
<1>d. PICK exited : exited = Exited(looped, loop.end)
  OBVIOUS
<1>1. d = [PatchBreaks(exited, loop.body) EXCEPT !.loop = Front(@)]
  BY <1>a, <1>b, <1>c, <1>d, Zenon DEF EndLoop
<1>2. /\ loop.start \in Nat /\ loop.end \in Nat /\ loop.body \in Nat
      /\ loop.start <= Here(c)
      /\ loop.end # 0 => loop.end \in DOMAIN c.code /\ c.code[loop.end].op = "JUMP_IF_FALSE"
  BY <1>a, LoopFacts
<1>3. Shrinks(c, block, 1, 0) /\ block.loop = c.loop
  BY <1>b, BlockShrinks
<1>4. IsSound(block) /\ Keeps(c, block)
  BY <1>3 DEF Shrinks
<1>5. /\ Jump(loop.start) \in Instr /\ Jump(loop.start).op = "JUMP"
      /\ Jump(loop.start).to = loop.start
  BY <1>2, Instructions
<1>6. loop.start <= Here(block) + 1
  <2>1. Here(c) \in Nat /\ Here(c) = Len(c.code) + 1 /\ Len(c.code) \in Nat
        /\ Here(block) \in Nat /\ Here(block) = Len(block.code) + 1 /\ Len(block.code) \in Nat
    BY <1>4, CompilerFacts
  <2>2. Len(c.code) <= Len(block.code)
    BY <1>4 DEF Keeps
  <2>3. \A x, y, z \in Nat : z <= x + 1 /\ x <= y => z <= (y + 1) + 1
    OBVIOUS
  <2> QED BY <1>2, <2>1, <2>2, <2>3
<1>7. Like(block, looped) /\ looped.loop = block.loop
  <2>a. PICK J : J = Jump(loop.start)
    OBVIOUS
  <2>1. /\ J \in Instr /\ looped = Emit(block, <<J>>)
        /\ J.op \in JumpOps => J.to <= Here(block) + 1
        /\ J.op = "BREAK" => block.loop # <<>>
    BY <1>5, <1>6, <1>c, <2>a
  <2>2. IsSound(looped) /\ Keeps(block, looped)
    BY <1>4, <2>1, EmitOneFacts
  <2>3. block \in Compiler
    BY <1>4 DEF IsSound
  <2> QED BY <2>1, <2>2, <2>3 DEF Like, Emit, Compiler
<1>8. IsSound(looped) /\ Keeps(block, looped)
  BY <1>7 DEF Like
<1>9. Like(looped, exited) /\ exited.loop = looped.loop
  <2>1. CASE loop.end = 0
    <3>1. exited = looped
      BY <1>d, <2>1 DEF Exited
    <3> QED BY <1>8, <3>1, Itself
  <2>2. CASE loop.end # 0
    <3>a. PICK p : p = loop.end
      OBVIOUS
    <3>b. PICK patched : patched = PatchJump(looped, p)
      OBVIOUS
    <3>1. p \in DOMAIN c.code /\ c.code[p].op = "JUMP_IF_FALSE" /\ c.code[p].op \in JumpOps
      BY <1>2, <2>2, <3>a DEF JumpOps
    <3>2. Keeps(c, looped)
      BY <1>4, <1>8, KeepsTrans
    <3>3. p \in DOMAIN looped.code /\ looped.code[p].op \in JumpOps
      BY <1>8, <3>1, <3>2, KeptJump
    <3>4. /\ IsSound(patched) /\ Keeps(looped, patched)
          /\ patched.scopeDepth = looped.scopeDepth /\ patched.loop = looped.loop
          /\ patched.type = looped.type
      BY <1>8, <3>3, <3>b, PatchFacts
    <3>5. Like(looped, patched)
      BY <3>4 DEF Like
    <3>6. exited = Emit(patched, <<PopTop>>)
      BY <1>d, <2>2, <3>a, <3>b DEF Exited
    <3>7. Like(patched, exited) /\ exited.loop = patched.loop
      BY <3>4, <3>6, PlainInstr, PlainEmit
    <3> QED BY <1>8, <3>4, <3>5, <3>7, LikeTrans
  <2> QED BY <2>1, <2>2
<1>10. IsSound(exited) /\ exited.loop = c.loop
  BY <1>3, <1>7, <1>9 DEF Like
<1>11. Shrinks(c, exited, 1, 0)
  BY <1>3, <1>4, <1>7, <1>8, <1>9, ShrinksOn
<1>12. /\ IsSound(d) /\ Keeps(exited, d) /\ d.scopeDepth = exited.scopeDepth
       /\ Len(d.loop) = Len(c.loop) - 1 /\ d.type = exited.type
  <2>1. exited.loop # <<>> /\ d = [PatchBreaks(exited, Last(exited.loop).body) EXCEPT !.loop = Front(@)]
    BY <1>1, <1>10, <1>a
  <2>2. /\ IsSound(d) /\ Keeps(exited, d) /\ d.scopeDepth = exited.scopeDepth
        /\ d.type = exited.type
    BY <1>10, <2>1, LoopEndFacts
  <2>3. Len(d.loop) = Len(exited.loop) - 1
    BY <1>10, <2>1, LoopEndFacts
  <2> QED BY <1>10, <2>2, <2>3
<1>13. Keeps(c, d)
  BY <1>10, <1>11, <1>12, KeepsTrans DEF Shrinks
<1>14. Len(c.loop) = Len(d.loop) + 1
  <2>1. Len(c.loop) \in Nat
    BY CompilerFacts
  <2> QED BY <1>12, <2>1
<1> QED BY <1>11, <1>12, <1>13, <1>14 DEF Shrinks

\* A for-statement ends: its loop, and the scope around it.
LEMMA ForShrinks ==
  ASSUME NEW c, IsSound(c), c.scopeDepth # 0, c.scopeDepth # 1, c.loop # <<>>,
         NEW d, d = EndScope(EndLoop(c))
  PROVE  Shrinks(c, d, 2, 1)
<1>a. PICK e : e = EndLoop(c)
  OBVIOUS
<1>1. Shrinks(c, e, 1, 1)
  BY <1>a, LoopShrinks
<1>2. IsSound(e) /\ Keeps(c, e) /\ c.scopeDepth = e.scopeDepth + 1 /\ Len(c.loop) = Len(e.loop) + 1
      /\ e.type = c.type
  BY <1>1 DEF Shrinks
<1>3. e.scopeDepth \in Nat
  BY <1>2, CompilerFacts
<1>4. e.scopeDepth # 0
  BY <1>2, <1>3
<1>5. Shrinks(e, d, 1, 0) /\ d.loop = e.loop
  BY <1>2, <1>4, <1>a, BlockShrinks
<1>6. IsSound(d) /\ Keeps(e, d) /\ e.scopeDepth = d.scopeDepth + 1 /\ d.type = e.type
  BY <1>5 DEF Shrinks
<1>7. Keeps(c, d)
  BY <1>2, <1>6, KeepsTrans
<1>8. c.scopeDepth = d.scopeDepth + 2
  <2>1. d.scopeDepth \in Nat
    BY <1>6, CompilerFacts
  <2> QED BY <1>2, <1>6, <2>1
<1> QED BY <1>2, <1>5, <1>6, <1>7, <1>8 DEF Shrinks

----------------------------------------------------------------------------
(* The invariant, and what it says. *)

Code == compilers[1].code

MachineType == [pc : Nat, stack : Seq(Nat), captured : SUBSET Nat, files : SUBSET Nat]

\* The finished code: it ends with RETURN, jumps stay within it, and none is a break.
Finished ==
  /\ compilers \in Seq(Compiler) /\ Len(compilers) = 1 /\ IsSound(compilers[1])
  /\ Len(Code) >= 1 /\ Code[Len(Code)].op = "RETURN"
  /\ \A i \in DOMAIN Code : /\ Code[i].op # "BREAK"
                            /\ Code[i].op \in JumpOps => Code[i].to <= Len(Code)
  /\ machine \in MachineType /\ machine.pc <= Len(Code)

\* The inductive invariant: the productions being parsed fit the compilers, and the
\* machine runs finished code.
CodeInv ==
  /\ produced \in Nat
  /\ open # <<>> => machine = NotStarted /\ \E ms : Parsed(ms, compilers, open, env)
  /\ open = <<>> => Finished

\* What the parser knows of the construct it is in.
LEMMA ParsedFacts ==
  ASSUME NEW ms, Parsed(ms, compilers, open, env)
  PROVE  /\ Compilers /\ IsSound(C) /\ C = compilers[Len(compilers)]
         /\ open \in Seq(Entry) /\ Len(open) \in Nat /\ Len(open) >= 1
         /\ Last(open) = open[Len(open)] /\ Last(open) \in Entry
         /\ env \in Seq([Name -> Nat]) /\ Len(env) \in Nat
         /\ Last(open).kind = "program" => Len(open) = 1
         /\ Last(open).kind # "program" => Len(open) \in 2 .. Len(open)
         /\ Last(open).kind # "program" => EntryFits(C, Last(open))
<1>1. /\ Len(open) \in Nat /\ Len(compilers) \in Nat /\ Len(env) \in Nat /\ Len(compilers) >= 1
      /\ DOMAIN compilers = 1 .. Len(compilers) /\ DOMAIN open = 1 .. Len(open)
      /\ \A i \in 1 .. Len(open) : open[i] \in Entry
  BY MarkFacts
<1>2. /\ compilers \in Seq(Compiler) /\ \A l \in DOMAIN compilers : IsSound(compilers[l])
      /\ open \in Seq(Entry) /\ Len(open) >= 1 /\ env \in Seq([Name -> Nat])
      /\ open[1].kind = "program" /\ \A i \in 2 .. Len(open) : open[i].kind # "program"
      /\ Len(compilers) = ms[Len(open)].level
      /\ \A i \in 2 .. Len(open) : EntryFits(compilers[ms[i].level], open[i])
  BY DEF Parsed
<1>3. C = compilers[Len(compilers)] /\ Last(open) = open[Len(open)]
  BY DEF C, Last
<1>4. Len(compilers) \in 1 .. Len(compilers) /\ Len(open) \in 1 .. Len(open)
  BY <1>1, <1>2, Positions
<1>5. Compilers
  BY <1>1, <1>2 DEF Compilers
<1>6. IsSound(C) /\ Last(open) \in Entry
  BY <1>1, <1>2, <1>3, <1>4
<1>7. Len(open) = 1 \/ Len(open) \in 2 .. Len(open)
  BY <1>1, <1>2, Positions
<1>8. Last(open).kind = "program" => Len(open) = 1
  BY <1>2, <1>3, <1>7
<1>9. Last(open).kind # "program" => Len(open) \in 2 .. Len(open)
  BY <1>2, <1>3, <1>7
<1>10. Last(open).kind # "program" => EntryFits(C, Last(open))
  BY <1>2, <1>3, <1>9
<1> QED BY <1>1, <1>2, <1>3, <1>5, <1>6, <1>8, <1>9, <1>10

\* Within a construct there are its scopes and loops.
LEMMA ConstructFacts ==
  ASSUME NEW ms, Parsed(ms, compilers, open, env),
         Last(open).kind \notin {"program", "function"}
  PROVE  /\ C.scopeDepth # 0
         /\ Last(open).kind = "for" => C.scopeDepth # 1 /\ Len(env) >= 2
         /\ Last(open).kind \in {"while", "for"} => C.loop # <<>>
         /\ Len(env) >= 1
<1>a. PICK n, m, entry : n = Len(open) /\ m = ms[Len(open) - 1] /\ entry = Last(open)
  OBVIOUS
<1>1. /\ n \in 2 .. n /\ n \in Nat /\ n >= 1 /\ C = compilers[Len(compilers)]
      /\ entry = open[n]
  BY <1>a, ParsedFacts
<1>2. n - 1 \in 1 .. n /\ n \in 1 .. n
  BY <1>1, Positions
<1>3. ms[n] = Within(m, entry) /\ m \in Mark /\ ms[n] \in Mark
  <2>1. ms[n] = Within(ms[n - 1], open[n])
    BY <1>1, <1>a DEF Parsed
  <2>2. ms[n - 1] \in Mark /\ ms[n] \in Mark
    BY <1>2, <1>a, MarkFacts
  <2> QED BY <1>1, <1>a, <2>1, <2>2
<1>4. /\ ms[n].depth = m.depth + ScopesOf(entry) /\ ms[n].loops = m.loops + LoopsOf(entry)
      /\ ms[n].scopes = m.scopes + ScopesOf(entry)
  BY <1>3, <1>a DEF Within
<1>5. C.scopeDepth = ms[n].depth /\ Len(C.loop) = ms[n].loops /\ Len(env) = ms[n].scopes
  BY <1>1, <1>a DEF Parsed, CompilerFits
<1>6. m.depth \in Nat /\ m.loops \in Nat /\ m.scopes \in Nat
  BY <1>3 DEF Mark
<1>7. ScopesOf(entry) \in {1, 2}
  BY DEF ScopesOf
<1>8. entry.kind \in {"while", "for"} => LoopsOf(entry) = 1
  BY DEF LoopsOf
<1>9. \A x \in Nat : /\ x + 1 # 0 /\ x + 2 # 0 /\ x + 2 # 1
                     /\ x + 2 >= 2 /\ x + 2 >= 1 /\ x + 1 >= 1
  OBVIOUS
<1>10. C.scopeDepth # 0 /\ Len(env) >= 1
  <2>1. CASE ScopesOf(entry) = 1
    BY <1>4, <1>5, <1>6, <1>9, <2>1
  <2>2. CASE ScopesOf(entry) = 2
    BY <1>4, <1>5, <1>6, <1>9, <2>2
  <2> QED BY <1>7, <2>1, <2>2
<1>11. entry.kind = "for" => C.scopeDepth # 1 /\ Len(env) >= 2
  <2> SUFFICES ASSUME entry.kind = "for" PROVE C.scopeDepth # 1 /\ Len(env) >= 2
    OBVIOUS
  <2>1. ScopesOf(entry) = 2
    BY DEF ScopesOf
  <2> QED BY <1>4, <1>5, <1>6, <1>9, <2>1
<1>12. entry.kind \in {"while", "for"} => C.loop # <<>>
  <2> SUFFICES ASSUME entry.kind \in {"while", "for"} PROVE C.loop # <<>>
    OBVIOUS
  <2>1. Len(C.loop) = m.loops + 1
    BY <1>4, <1>5, <1>8
  <2>2. Len(C.loop) # 0
    BY <1>6, <1>9, <2>1
  <2> QED BY <2>2
<1> QED BY <1>10, <1>11, <1>12, <1>a

\* The names of the program's scopes have declarations.
LEMMA EnvFacts ==
  ASSUME env \in Seq([Name -> Nat]), NEW n \in Name, NEW id \in Nat
  PROVE  /\ Meaning(n) \in Nat
         /\ Declared(n, id) \in Seq([Name -> Nat]) /\ Len(Declared(n, id)) = Len(env)
         /\ NoNames \in [Name -> Nat] /\ [NoNames EXCEPT ![n] = id] \in [Name -> Nat]
<1>1. Len(env) \in Nat /\ DOMAIN env = 1 .. Len(env) /\ \A i \in DOMAIN env : env[i] \in [Name -> Nat]
  OBVIOUS
<1>2. Meaning(n) \in Nat
  <2> DEFINE scopes == {i \in DOMAIN env : env[i][n] # Undeclared}
  <2>1. CASE scopes = {}
    BY <2>1 DEF Meaning, Undeclared
  <2>2. CASE scopes # {}
    <3>1. scopes \subseteq 0 .. Len(env)
      BY <1>1
    <3>2. Max(scopes) \in scopes
      <4> HIDE DEF scopes
      <4> QED BY <1>1, <2>2, <3>1, MaxFacts
    <3>3. env[Max(scopes)] \in [Name -> Nat]
      BY <1>1, <3>2
    <3>4. Meaning(n) = env[Max(scopes)][n]
      BY <2>2 DEF Meaning
    <3> HIDE DEF scopes
    <3> QED BY <3>3, <3>4
  <2> QED BY <2>1, <2>2
<1>3. Declared(n, id) \in Seq([Name -> Nat]) /\ Len(Declared(n, id)) = Len(env)
  <2>1. CASE env = <<>>
    BY <2>1 DEF Declared, IsGlobalScope
  <2>2. CASE env # <<>>
    <3> DEFINE k == Len(env)
    <3>1. k \in 1 .. k /\ env[k] \in [Name -> Nat]
      <4>1. k # 0
        BY <2>2
      <4>2. k \in Nat /\ k >= 1
        BY <1>1, <4>1
      <4>3. k \in 1 .. k
        <5> HIDE DEF k
        <5> QED BY <4>2
      <4> QED BY <1>1, <4>3
    <3>2. [env[k] EXCEPT ![n] = id] \in [Name -> Nat]
      BY <3>1
    <3>3. Declared(n, id) = [env EXCEPT ![k] = [env[k] EXCEPT ![n] = id]]
      BY <2>2 DEF Declared, IsGlobalScope
    <3> DEFINE one == [env[k] EXCEPT ![n] = id]
    <3>4. k \in 1 .. Len(env)
      BY <3>1
    <3> HIDE DEF k
    <3>5. one \in [Name -> Nat]
      BY <3>2
    <3> HIDE DEF one
    <3>6. [env EXCEPT ![k] = one] \in Seq([Name -> Nat]) /\ Len([env EXCEPT ![k] = one]) = Len(env)
      BY <3>4, <3>5, ExceptSeq
    <3> QED BY <3>3, <3>6 DEF one
  <2> QED BY <2>1, <2>2
<1> QED BY <1>2, <1>3 DEF NoNames, Undeclared

\* A declaration or statement is read, and the parser stays where it is.
LEMMA StepStays ==
  ASSUME CodeInv, open # <<>>, Beside(compilers, compilers'),
         Like(C, compilers'[Len(compilers)]),
         open' = open, env' \in Seq([Name -> Nat]), Len(env') = Len(env),
         produced' \in Nat, machine' = machine
  PROVE  CodeInv'
<1>1. PICK ms : Parsed(ms, compilers, open, env)
  BY DEF CodeInv
<1>2. C = compilers[Len(compilers)]
  BY <1>1, ParsedFacts
<1>3. Parsed(ms, compilers', open, env')
  BY <1>1, <1>2, Stays
<1>4. NotStarted' = NotStarted
  BY DEF NotStarted
<1> QED BY <1>3, <1>4 DEF CodeInv

\* It is read with the innermost compiler only.
LEMMA StepUpdates ==
  ASSUME CodeInv, open # <<>>, NEW c, Like(C, c), Update(c),
         open' = open, env' \in Seq([Name -> Nat]), Len(env') = Len(env),
         produced' \in Nat, machine' = machine
  PROVE  CodeInv'
<1>1. PICK ms : Parsed(ms, compilers, open, env)
  BY DEF CodeInv
<1>2. Compilers
  BY <1>1, ParsedFacts
<1>3. c \in Compiler
  BY DEF Like, IsSound
<1>4. Beside(compilers, compilers') /\ compilers'[Len(compilers)] = c
  BY <1>2, <1>3, UpdateFacts DEF Compilers, Update
<1> QED BY <1>4, StepStays

\* It is read after a name was resolved.
LEMMA StepResolves ==
  ASSUME CodeInv, open # <<>>, NEW n, NEW means \in Nat,
         NEW chain, chain = Resolved(n, means), NEW c, Like(chain[Len(chain)], c),
         compilers' = [chain EXCEPT ![Len(chain)] = c],
         open' = open, env' \in Seq([Name -> Nat]), Len(env') = Len(env),
         produced' \in Nat, machine' = machine
  PROVE  CodeInv'
<1>1. PICK ms : Parsed(ms, compilers, open, env)
  BY DEF CodeInv
<1>2. Compilers /\ IsSound(C) /\ C = compilers[Len(compilers)]
  BY <1>1, ParsedFacts
<1>3. /\ chain \in Seq(Compiler) /\ Len(chain) = Len(compilers)
      /\ \A l \in 1 .. Len(compilers) : Like(compilers[l], chain[l]) /\ SameLocals(compilers[l], chain[l])
  BY <1>2, ResolvedFacts
<1>4. Len(compilers) \in Nat /\ Len(compilers) >= 1 /\ Len(compilers) \in 1 .. Len(compilers)
  BY <1>2, Positions DEF Compilers
<1>5. c \in Compiler
  BY DEF Like, IsSound
<1>6. /\ compilers' \in Seq(Compiler) /\ Len(compilers') = Len(compilers)
      /\ compilers'[Len(compilers)] = c
      /\ \A l \in 1 .. Len(compilers) - 1 : compilers'[l] = chain[l]
  <2>1. \A l \in 1 .. Len(chain) : IsSound(chain[l])
    BY <1>3 DEF Like
  <2>2. DOMAIN chain = 1 .. Len(compilers)
    BY <1>3
  <2>3. compilers' \in Seq(Compiler) /\ Len(compilers') = Len(compilers)
        /\ compilers'[Len(compilers)] = c
    BY <1>3, <1>4, <1>5, <2>2
  <2>4. \A l \in 1 .. Len(compilers) - 1 : l \in 1 .. Len(compilers) /\ l # Len(compilers)
    BY <1>4, Positions
  <2>5. \A l \in 1 .. Len(compilers) - 1 : compilers'[l] = chain[l]
    BY <1>3, <2>2, <2>4
  <2> QED BY <2>3, <2>5
<1>7. Beside(compilers, compilers')
  <2>1. \A l \in 1 .. Len(compilers) - 1 : l \in 1 .. Len(compilers)
    BY <1>4, Positions
  <2> QED BY <1>3, <1>6, <2>1 DEF Beside
<1>8. Like(C, compilers'[Len(compilers)])
  BY <1>2, <1>3, <1>4, <1>6, LikeTrans
<1> QED BY <1>7, <1>8, StepStays

\* A construct begins.
LEMMA StepBegins ==
  ASSUME CodeInv, open # <<>>,
         NEW entry \in Entry, entry.kind \notin {"program", "function"},
         NEW d, Grows(C, d, ScopesOf(entry), LoopsOf(entry)), EntryFits(d, entry), Update(d),
         open' = Append(open, entry), env' \in Seq([Name -> Nat]),
         Len(env') = Len(env) + ScopesOf(entry),
         produced' \in Nat, machine' = machine
  PROVE  CodeInv'
<1>1. PICK ms : Parsed(ms, compilers, open, env)
  BY DEF CodeInv
<1>2. Compilers /\ C = compilers[Len(compilers)] /\ open \in Seq(Entry)
  BY <1>1, ParsedFacts
<1>3. d \in Compiler
  BY DEF Grows, IsSound
<1>4. Beside(compilers, compilers') /\ compilers'[Len(compilers)] = d
  BY <1>2, <1>3, UpdateFacts DEF Compilers, Update
<1>5. Parsed(Append(ms, Within(ms[Len(open)], entry)), compilers', Append(open, entry), env')
  <2>1. /\ IsSound(d) /\ Keeps(compilers[Len(compilers)], d)
        /\ d.scopeDepth = compilers[Len(compilers)].scopeDepth + ScopesOf(entry)
        /\ Len(d.loop) = Len(compilers[Len(compilers)].loop) + LoopsOf(entry)
    BY <1>2 DEF Grows
  <2> QED BY <1>1, <1>4, <2>1, Opens
<1>6. NotStarted' = NotStarted /\ Append(open, entry) # <<>>
  BY <1>2 DEF NotStarted
<1> QED BY <1>5, <1>6 DEF CodeInv

\* A construct ends.
LEMMA StepFinishes ==
  ASSUME CodeInv, open # <<>>, Last(open).kind \notin {"program", "function"},
         NEW d, Shrinks(C, d, ScopesOf(Last(open)), LoopsOf(Last(open))), Update(d),
         open' = Front(open), env' \in Seq([Name -> Nat]),
         Len(env) = Len(env') + ScopesOf(Last(open)),
         produced' \in Nat, machine' = machine
  PROVE  CodeInv'
<1>1. PICK ms : Parsed(ms, compilers, open, env)
  BY DEF CodeInv
<1>2. /\ Compilers /\ C = compilers[Len(compilers)] /\ Last(open) = open[Len(open)]
      /\ Len(open) \in Nat /\ Len(open) >= 1 /\ open \in Seq(Entry)
  BY <1>1, ParsedFacts
<1>3. d \in Compiler
  BY DEF Shrinks, IsSound
<1>4. Beside(compilers, compilers') /\ compilers'[Len(compilers)] = d
  BY <1>2, <1>3, UpdateFacts DEF Compilers, Update
<1>5. /\ Len(open) >= 2
      /\ Parsed(SubSeq(ms, 1, Len(open) - 1), compilers', SubSeq(open, 1, Len(open) - 1), env')
  <2>1. /\ IsSound(d) /\ Keeps(compilers[Len(compilers)], d)
        /\ compilers[Len(compilers)].scopeDepth = d.scopeDepth + ScopesOf(open[Len(open)])
        /\ Len(compilers[Len(compilers)].loop) = Len(d.loop) + LoopsOf(open[Len(open)])
    BY <1>2 DEF Shrinks
  <2> QED BY <1>1, <1>2, <1>4, <2>1, Closes
<1>6. open' = SubSeq(open, 1, Len(open) - 1)
  BY <1>2, FrontFacts
<1>7. open' # <<>>
  <2>1. Len(open') >= 1
    BY <1>5, <1>6 DEF Parsed
  <2> QED BY <2>1
<1>8. NotStarted' = NotStarted
  BY DEF NotStarted
<1> QED BY <1>5, <1>6, <1>7, <1>8 DEF CodeInv

\* A part of a construct ends and the next one begins.
LEMMA StepContinues ==
  ASSUME CodeInv, open # <<>>, Last(open).kind \in {"then", "case"},
         NEW c, Shrinks(C, c, 1, 0), NEW entry \in Entry, entry.kind \in {"case", "rest"},
         EntryFits(c, entry), Update(BeginScope(c)),
         open' = Append(Front(open), entry), env' = Append(Front(env), NoNames),
         produced' \in Nat, machine' = machine
  PROVE  CodeInv'
<1>1. PICK ms : Parsed(ms, compilers, open, env)
  BY DEF CodeInv
<1>2. /\ Compilers /\ C = compilers[Len(compilers)] /\ Last(open) = open[Len(open)]
      /\ Len(open) \in Nat /\ Len(open) >= 1 /\ open \in Seq(Entry)
      /\ env \in Seq([Name -> Nat]) /\ Len(env) \in Nat
  BY <1>1, ParsedFacts
<1>3. Len(env) >= 1
  BY <1>1, ConstructFacts
<1>a. PICK first : first = Front(env)
  OBVIOUS
<1>4. first \in Seq([Name -> Nat]) /\ Len(env) = Len(first) + 1
  <2>1. Len(env) > 0
    BY <1>2, <1>3
  <2>2. \A S : env \in Seq(S) => Front(env) \in Seq(S) /\ Len(Front(env)) = Len(env) - 1
    BY <2>1, FrontFacts
  <2>3. first \in Seq([Name -> Nat]) /\ Len(first) = Len(env) - 1
    BY <1>a, <1>2, <2>2
  <2> QED BY <1>2, <2>3
<1>5. env' \in Seq([Name -> Nat]) /\ Len(env') = Len(first) + 1
  <2>1. NoNames \in [Name -> Nat]
    BY DEF NoNames, Undeclared
  <2> QED BY <1>a, <1>4, <2>1, AppendFacts
<1>b. PICK between : between = [compilers EXCEPT ![Len(compilers)] = c]
  OBVIOUS
<1>6. c \in Compiler /\ IsSound(c)
  BY DEF Shrinks, IsSound
<1>7. Beside(compilers, between) /\ between[Len(compilers)] = c /\ Len(between) = Len(compilers)
  BY <1>b, <1>2, <1>6, UpdateFacts DEF Compilers
<1>c. PICK d : d = BeginScope(c)
  OBVIOUS
<1>8. Grows(c, d, 1, 0) /\ d.code = c.code
  BY <1>6, <1>c, BlockGrows, Itself
<1>9. d \in Compiler /\ IsSound(d) /\ Keeps(c, d) /\ EntryFits(d, entry)
  <2>1. d \in Compiler /\ IsSound(d) /\ Keeps(c, d)
    BY <1>8 DEF Grows, IsSound
  <2> QED BY <1>6, <2>1, EntryStays
<1>10. /\ Len(open) >= 2
       /\ Parsed(SubSeq(ms, 1, Len(open) - 1), between, SubSeq(open, 1, Len(open) - 1), first)
  <2>1. /\ Last(open).kind \notin {"program", "function"}
        /\ ScopesOf(Last(open)) = 1 /\ LoopsOf(Last(open)) = 0
    BY DEF ScopesOf, LoopsOf
  <2>2. /\ IsSound(c) /\ Keeps(compilers[Len(compilers)], c)
        /\ compilers[Len(compilers)].scopeDepth = c.scopeDepth + ScopesOf(open[Len(open)])
        /\ Len(compilers[Len(compilers)].loop) = Len(c.loop) + LoopsOf(open[Len(open)])
    BY <1>2, <2>1 DEF Shrinks
  <2> QED BY <1>1, <1>2, <1>4, <1>7, <2>1, <2>2, Closes
<1>d. PICK ns, o : ns = SubSeq(ms, 1, Len(open) - 1) /\ o = SubSeq(open, 1, Len(open) - 1)
  OBVIOUS
<1>11. Parsed(ns, between, o, first)
  BY <1>10, <1>d
<1>12. Beside(between, compilers') /\ compilers'[Len(between)] = d
  <2>1. /\ between \in Seq(Compiler) /\ Len(between) >= 1
        /\ \A l \in 1 .. Len(between) : IsSound(between[l])
    BY <1>11, MarkFacts DEF Parsed
  <2>2. compilers' = [between EXCEPT ![Len(between)] = d]
    <3>1. Len(compilers) \in Nat /\ Len(compilers) >= 1 /\ DOMAIN compilers = 1 .. Len(compilers)
      BY <1>2 DEF Compilers
    <3>2. compilers' = [compilers EXCEPT ![Len(compilers)] = d]
      BY <1>c DEF Update
    <3> QED BY <1>b, <1>7, <3>1, <3>2
  <2> QED BY <1>9, <2>1, <2>2, UpdateFacts
<1>13. Parsed(Append(ns, Within(ns[Len(o)], entry)), compilers', Append(o, entry), env')
  <2>1. ScopesOf(entry) = 1 /\ LoopsOf(entry) = 0 /\ entry.kind \notin {"program", "function"}
    BY DEF ScopesOf, LoopsOf
  <2>2. /\ IsSound(d) /\ Keeps(between[Len(between)], d)
        /\ d.scopeDepth = between[Len(between)].scopeDepth + ScopesOf(entry)
        /\ Len(d.loop) = Len(between[Len(between)].loop) + LoopsOf(entry)
    BY <1>7, <1>8, <2>1 DEF Grows
  <2> QED BY <1>5, <1>9, <1>11, <1>12, <2>1, <2>2, Opens
<1>14. open' = Append(o, entry) /\ open' # <<>>
  <2>1. Front(open) = o
    BY <1>2, <1>d, FrontFacts
  <2>2. o \in Seq(Entry)
    BY <1>11 DEF Parsed
  <2> QED BY <2>1, <2>2
<1>15. NotStarted' = NotStarted
  BY DEF NotStarted
<1> QED BY <1>13, <1>14, <1>15 DEF CodeInv

----------------------------------------------------------------------------
(* The parser's actions. *)

\* What holds whenever the parser reads a construct.
LEMMA ReadsFacts ==
  ASSUME CodeInv, NEW construct, Reads(construct)
  PROVE  /\ open # <<>> /\ produced \in Nat /\ New \in Nat /\ produced' \in Nat
         /\ machine' = machine /\ IsSound(C) /\ Compilers /\ C = compilers[Len(compilers)]
         /\ env \in Seq([Name -> Nat]) /\ \A n \in Name : Meaning(n) \in Nat
         /\ \A n \in Name : \A id \in Nat :
              Declared(n, id) \in Seq([Name -> Nat]) /\ Len(Declared(n, id)) = Len(env)
<1>1. open # <<>> /\ produced' = New /\ machine' = machine
  BY DEF Reads
<1>2. PICK ms : Parsed(ms, compilers, open, env)
  BY <1>1 DEF CodeInv
<1>3. IsSound(C) /\ Compilers /\ C = compilers[Len(compilers)] /\ env \in Seq([Name -> Nat])
  BY <1>2, ParsedFacts
<1>4. produced \in Nat /\ New \in Nat
  BY DEF CodeInv, New
<1>5. 0 \in Nat
  OBVIOUS
<1>6. \A n \in Name : Meaning(n) \in Nat
  BY <1>3, <1>5, EnvFacts
<1>7. \A n \in Name : \A id \in Nat :
        Declared(n, id) \in Seq([Name -> Nat]) /\ Len(Declared(n, id)) = Len(env)
  BY <1>3, EnvFacts
<1> QED BY <1>1, <1>3, <1>4, <1>6, <1>7

\* var n = literal;
LEMMA VarDeclarationKeeps ==
  ASSUME CodeInv, NEW n \in Name, NEW constant \in BOOLEAN, VarDeclaration(n, constant)
  PROVE  CodeInv'
<1>1. PICK construct : Reads(construct)
  BY DEF VarDeclaration
<1>2. PICK c : c = DefineVariable(Emit(DeclareVariable(C, n, New), <<Push(New)>>), constant)
  OBVIOUS
<1>3. Like(C, c)
  <2>1. New \in Nat /\ IsSound(C)
    BY <1>1, ReadsFacts
  <2>2. Plain(<<Push(New)>>)
    BY <2>1, PlainInstr
  <2> QED BY <1>2, <2>1, <2>2, DeclarationLike
<1>4. Update(c) /\ env' = Declared(n, New) /\ open' = open
  BY <1>2 DEF VarDeclaration
<1>5. env' \in Seq([Name -> Nat]) /\ Len(env') = Len(env)
  BY <1>1, <1>4, ReadsFacts
<1> QED BY <1>1, <1>3, <1>4, <1>5, ReadsFacts, StepUpdates

\* What the compilers are once the innermost has resolved a name.
LEMMA InnermostResolved ==
  ASSUME Compilers, NEW n, NEW means \in Nat, NEW chain, chain = Resolved(n, means)
  PROVE  /\ chain \in Seq(Compiler) /\ Len(chain) = Len(compilers)
         /\ Last(chain) = chain[Len(chain)] /\ Like(C, Last(chain)) /\ IsSound(Last(chain))
<1>1. /\ chain \in Seq(Compiler) /\ Len(chain) = Len(compilers)
      /\ \A l \in 1 .. Len(compilers) : Like(compilers[l], chain[l])
  BY ResolvedFacts
<1>2. Len(compilers) \in 1 .. Len(compilers)
  BY Positions DEF Compilers
<1>3. Last(chain) = chain[Len(chain)] /\ C = compilers[Len(compilers)]
  BY DEF Last, C
<1>4. Like(C, Last(chain))
  BY <1>1, <1>2, <1>3
<1> QED BY <1>1, <1>3, <1>4 DEF Like

\* var n = m;
LEMMA VarFromNameKeeps ==
  ASSUME CodeInv, NEW n \in Name, NEW m \in Name, VarFromName(n, m)
  PROVE  CodeInv'
<1>1. PICK construct : Reads(construct)
  BY DEF VarFromName
<1>2. PICK chain : chain = Resolved(m, Meaning(m))
  OBVIOUS
<1>3. PICK I : I = Variable(Get, m, Meaning(m), New)
  OBVIOUS
<1>4. PICK c : c = DefineVariable(Emit(DeclareVariable(Last(chain), n, New), <<I>>), FALSE)
  OBVIOUS
<1>5. compilers' = [chain EXCEPT ![Len(chain)] = c] /\ env' = Declared(n, New) /\ open' = open
  BY <1>2, <1>3, <1>4 DEF VarFromName
<1>6. /\ Compilers /\ IsSound(C) /\ New \in Nat /\ Meaning(m) \in Nat
      /\ env' \in Seq([Name -> Nat]) /\ Len(env') = Len(env)
  BY <1>1, <1>5, ReadsFacts
<1>7. Like(C, Last(chain)) /\ IsSound(Last(chain)) /\ Last(chain) = chain[Len(chain)]
  BY <1>2, <1>6, InnermostResolved
<1>8. Plain(<<I>>)
  <2>1. I \in Instr /\ I.op \notin JumpOps \cup {"BREAK"}
    BY <1>3, <1>6, VariableFacts
  <2> QED BY <2>1, PlainSeqs
<1>9. Like(Last(chain), c)
  BY <1>4, <1>6, <1>7, <1>8, DeclarationLike
<1>10. Like(chain[Len(chain)], c)
  BY <1>7, <1>9
<1> QED BY <1>1, <1>2, <1>5, <1>6, <1>10, ReadsFacts, StepResolves

\* An expression statement.
LEMMA MentionKeeps ==
  ASSUME CodeInv, NEW construct, Reads(construct), NEW m \in Name, NEW code, Plain(code),
         Mention(m, code)
  PROVE  CodeInv'
<1>1. PICK chain : chain = Resolved(m, Meaning(m))
  OBVIOUS
<1>2. /\ Compilers /\ IsSound(C) /\ Meaning(m) \in Nat /\ env \in Seq([Name -> Nat])
  BY ReadsFacts
<1>3. Like(C, Last(chain)) /\ IsSound(Last(chain)) /\ Last(chain) = chain[Len(chain)]
  BY <1>1, <1>2, InnermostResolved
<1>4. PICK c : c = Emit(chain[Len(chain)], code)
  OBVIOUS
<1>5. compilers' = [chain EXCEPT ![Len(chain)] = c] /\ env' = env /\ open' = open
  BY <1>1, <1>4 DEF Mention
<1>6. Like(chain[Len(chain)], c)
  BY <1>3, <1>4, PlainEmit
<1> QED BY <1>1, <1>2, <1>5, <1>6, ReadsFacts, StepResolves

\* m;
LEMMA UseKeeps ==
  ASSUME CodeInv, NEW m \in Name, Use(m)
  PROVE  CodeInv'
<1>1. Reads("use")
  BY DEF Use
<1>2. PICK I : I = Variable(Get, m, Meaning(m), Temp)
  OBVIOUS
<1>3. Compilers /\ Meaning(m) \in Nat /\ Temp \in Nat
  BY <1>1, ReadsFacts, PlainInstr
<1>4. I \in Instr /\ I.op \notin JumpOps \cup {"BREAK"}
  BY <1>2, <1>3, VariableFacts
<1>5. Plain(<<I, PopTop>>)
  BY <1>4, PlainInstr, PlainSeqs
<1>6. Mention(m, <<I, PopTop>>)
  BY <1>2 DEF Use
<1> QED BY <1>1, <1>5, <1>6, MentionKeeps

\* m = literal;
LEMMA AssignKeeps ==
  ASSUME CodeInv, NEW m \in Name, Assign(m)
  PROVE  CodeInv'
<1>1. Reads("assign")
  BY DEF Assign
<1>2. PICK I : I = Variable(Set, m, Meaning(m), Temp)
  OBVIOUS
<1>3. Compilers /\ Meaning(m) \in Nat /\ Temp \in Nat
  BY <1>1, ReadsFacts, PlainInstr
<1>4. I \in Instr /\ I.op \notin JumpOps \cup {"BREAK"}
  BY <1>2, <1>3, VariableFacts
<1>5. Plain(<<Push(Temp), I, PopTop>>)
  BY <1>3, <1>4, PlainInstr, PlainSeqs
<1>6. Mention(m, <<Push(Temp), I, PopTop>>)
  BY <1>2 DEF Assign
<1> QED BY <1>1, <1>5, <1>6, MentionKeeps

\* class n < superclass {}
LEMMA ClassDeclarationKeeps ==
  ASSUME CodeInv, NEW n \in Name, ClassDeclaration(n)
  PROVE  CodeInv'
<1>1. Reads("class")
  BY DEF ClassDeclaration
<1>2. PICK declared : declared = Emit(DeclareVariable(C, n, New), <<Push(Temp)>>)
  OBVIOUS
<1>3. PICK subclass :
        subclass = Emit(AddLocal(BeginScope(declared), Super, Temp), <<Push(New)>>)
  OBVIOUS
<1>4. PICK c : c = DefineVariable(EndScope(subclass), FALSE)
  OBVIOUS
<1>5. Update(c) /\ env' = Declared(n, New) /\ open' = open
  BY <1>2, <1>3, <1>4 DEF ClassDeclaration
<1>6. /\ IsSound(C) /\ New \in Nat
      /\ env' \in Seq([Name -> Nat]) /\ Len(env') = Len(env)
  BY <1>1, <1>5, ReadsFacts
<1>7. Like(C, c)
  BY <1>2, <1>3, <1>4, <1>6, ClassLike
<1> QED BY <1>1, <1>5, <1>6, <1>7, ReadsFacts, StepUpdates

\* return;
LEMMA ReturnStatementKeeps ==
  ASSUME CodeInv, ReturnStatement
  PROVE  CodeInv'
<1>1. Reads("return")
  BY DEF ReturnStatement
<1>2. PICK c : c = Emit(C, Closings(C) \o <<Push(Temp), [op |-> "RETURN", height |-> Undeclared]>>)
  OBVIOUS
<1>3. Update(c) /\ env' = env /\ open' = open
  BY <1>2 DEF ReturnStatement
<1>4. IsSound(C) /\ env \in Seq([Name -> Nat])
  BY <1>1, ReadsFacts
<1>5. Like(C, c)
  BY <1>2, <1>4, ReturnLike
<1> QED BY <1>1, <1>3, <1>4, <1>5, ReadsFacts, StepUpdates

\* break; or continue;
LEMMA LeavingKeeps ==
  ASSUME CodeInv, BreakStatement \/ ContinueStatement
  PROVE  CodeInv'
<1>1. PICK construct : Reads(construct)
  BY DEF BreakStatement, ContinueStatement
<1>2. PICK I \in {[op |-> "BREAK"], Jump(Last(C.loop).start)} :
        /\ Update(Emit(C, Discards(C, Last(C.loop).scopeDepth) \o <<I>>))
        /\ C.loop # <<>> /\ env' = env /\ open' = open
  BY DEF BreakStatement, ContinueStatement
<1>3. PICK c : c = Emit(C, Discards(C, Last(C.loop).scopeDepth) \o <<I>>)
  OBVIOUS
<1>4. IsSound(C) /\ env \in Seq([Name -> Nat])
  BY <1>1, ReadsFacts
<1>5. Like(C, c)
  BY <1>2, <1>3, <1>4, LeavesLike
<1> QED BY <1>1, <1>2, <1>3, <1>4, <1>5, ReadsFacts, StepUpdates

\* The scopes of the program, one more or one less.
LEMMA ScopesFacts ==
  ASSUME env \in Seq([Name -> Nat])
  PROVE  /\ \A e \in [Name -> Nat] :
              Append(env, e) \in Seq([Name -> Nat]) /\ Len(Append(env, e)) = Len(env) + 1
         /\ Len(env) >= 1 => Front(env) \in Seq([Name -> Nat]) /\ Len(env) = Len(Front(env)) + 1
         /\ Len(env) >= 2 => /\ SubSeq(env, 1, Len(env) - 2) \in Seq([Name -> Nat])
                             /\ Len(env) = Len(SubSeq(env, 1, Len(env) - 2)) + 2
<1>1. PICK S : S = [Name -> Nat]
  OBVIOUS
<1>2. env \in Seq(S) /\ Len(env) \in Nat
  BY <1>1
<1>3. \A e \in S : Append(env, e) \in Seq(S) /\ Len(Append(env, e)) = Len(env) + 1
  BY <1>2, AppendFacts
<1>4. Len(env) >= 1 => Front(env) \in Seq(S) /\ Len(env) = Len(Front(env)) + 1
  <2> SUFFICES ASSUME Len(env) >= 1 PROVE Front(env) \in Seq(S) /\ Len(env) = Len(Front(env)) + 1
    OBVIOUS
  <2>1. Len(env) > 0
    BY <1>2
  <2>2. Front(env) \in Seq(S) /\ Len(Front(env)) = Len(env) - 1
    BY <1>2, <2>1, FrontFacts
  <2> QED BY <1>2, <2>2
<1>5. Len(env) >= 2 => /\ SubSeq(env, 1, Len(env) - 2) \in Seq(S)
                       /\ Len(env) = Len(SubSeq(env, 1, Len(env) - 2)) + 2
  <2> SUFFICES ASSUME Len(env) >= 2
               PROVE  /\ SubSeq(env, 1, Len(env) - 2) \in Seq(S)
                      /\ Len(env) = Len(SubSeq(env, 1, Len(env) - 2)) + 2
    OBVIOUS
  <2>1. PICK n : n = Len(env) - 2
    OBVIOUS
  <2>2. n \in 0 .. Len(env) /\ Len(env) = n + 2
    BY <1>2, <2>1
  <2>3. SubSeq(env, 1, n) \in Seq(S) /\ Len(SubSeq(env, 1, n)) = n
    BY <1>2, <2>2, PrefixFacts
  <2> QED BY <2>1, <2>2, <2>3
<1> QED BY <1>1, <1>3, <1>4, <1>5

\* A construct with one scope begins.
LEMMA BeginsKeeps ==
  ASSUME CodeInv, NEW construct, Reads(construct), NEW c, NEW entry \in Entry,
         entry.kind \in {"block", "while", "then", "case"}, Begins(c, entry),
         NEW d, d = BeginScope(c), Grows(C, d, 1, LoopsOf(entry)), EntryFits(d, entry)
  PROVE  CodeInv'
<1>1. Update(d) /\ open' = Append(open, entry) /\ env' = Append(env, NoNames)
  BY DEF Begins
<1>2. ScopesOf(entry) = 1 /\ entry.kind \notin {"program", "function"}
  BY DEF ScopesOf
<1>3. env' \in Seq([Name -> Nat]) /\ Len(env') = Len(env) + 1
  <2>1. NoNames \in [Name -> Nat]
    BY DEF NoNames, Undeclared
  <2> QED BY <1>1, <2>1, ReadsFacts, ScopesFacts
<1> QED BY <1>1, <1>2, <1>3, ReadsFacts, StepBegins

\* {
LEMMA BlockKeeps ==
  ASSUME CodeInv, Block
  PROVE  CodeInv'
<1>1. PICK entry : entry = [kind |-> "block"]
  OBVIOUS
<1>2. Reads("block") /\ Begins(C, entry)
  BY <1>1 DEF Block
<1>3. PICK d : d = BeginScope(C)
  OBVIOUS
<1>4. Grows(C, d, 1, 0)
  BY <1>2, <1>3, ReadsFacts, Itself, BlockGrows
<1>5. entry \in Entry /\ entry.kind = "block" /\ LoopsOf(entry) = 0 /\ EntryFits(d, entry)
  BY <1>1 DEF Entry, LoopsOf, EntryFits
<1> QED BY <1>2, <1>3, <1>4, <1>5, BeginsKeeps

\* while (condition) {
LEMMA WhileStatementKeeps ==
  ASSUME CodeInv, WhileStatement
  PROVE  CodeInv'
<1>1. PICK entry : entry = [kind |-> "while"]
  OBVIOUS
<1>2. PICK c : c = BeginLoop(Emit(C, Condition), Here(C), Here(C) + 1)
  OBVIOUS
<1>3. Reads("while") /\ Begins(c, entry)
  BY <1>1, <1>2 DEF WhileStatement
<1>4. PICK d : d = BeginScope(c)
  OBVIOUS
<1>5. Grows(C, d, 1, 1)
  BY <1>2, <1>3, <1>4, ReadsFacts, WhileGrows
<1>6. entry \in Entry /\ entry.kind = "while" /\ LoopsOf(entry) = 1 /\ EntryFits(d, entry)
  BY <1>1 DEF Entry, LoopsOf, EntryFits
<1> QED BY <1>3, <1>4, <1>5, <1>6, BeginsKeeps

\* if (condition) {
LEMMA IfStatementKeeps ==
  ASSUME CodeInv, IfStatement
  PROVE  CodeInv'
<1>1. PICK entry : entry = [kind |-> "then", elseJump |-> Here(C) + 1]
  OBVIOUS
<1>2. Reads("if") /\ Begins(Emit(C, Condition), entry)
  BY <1>1 DEF IfStatement
<1>3. PICK d : d = BeginScope(Emit(C, Condition))
  OBVIOUS
<1>4. Grows(C, d, 1, 0) /\ entry \in Entry /\ EntryFits(d, entry)
  BY <1>1, <1>2, <1>3, ReadsFacts, IfGrows
<1>5. entry.kind = "then" /\ LoopsOf(entry) = 0
  BY <1>1 DEF LoopsOf
<1> QED BY <1>2, <1>3, <1>4, <1>5, BeginsKeeps

\* switch (value) { case value: {
LEMMA SwitchStatementKeeps ==
  ASSUME CodeInv, SwitchStatement
  PROVE  CodeInv'
<1>1. PICK entry : entry = [kind |-> "case", compareJump |-> Here(C) + 2, ends |-> {}]
  OBVIOUS
<1>2. Reads("switch") /\ Begins(Emit(C, <<Push(Temp)>> \o CompareJump), entry)
  BY <1>1 DEF SwitchStatement
<1>3. PICK d : d = BeginScope(Emit(C, <<Push(Temp)>> \o CompareJump))
  OBVIOUS
<1>4. Grows(C, d, 1, 0) /\ entry \in Entry /\ EntryFits(d, entry)
  BY <1>1, <1>2, <1>3, ReadsFacts, SwitchGrows
<1>5. entry.kind = "case" /\ LoopsOf(entry) = 0
  BY <1>1 DEF LoopsOf
<1> QED BY <1>2, <1>3, <1>4, <1>5, BeginsKeeps

\* for (var n = literal; condition; increment) {
LEMMA ForStatementKeeps ==
  ASSUME CodeInv, NEW n \in Name, NEW condition \in BOOLEAN, ForStatement(n, condition)
  PROVE  CodeInv'
<1>1. Reads("for")
  BY DEF ForStatement
<1>2. PICK entry : entry = [kind |-> "for"]
  OBVIOUS
<1>3. IsSound(C) /\ New \in Nat /\ env \in Seq([Name -> Nat])
  BY <1>1, ReadsFacts
<1>4. PICK d : Update(d) /\ Grows(C, d, 2, 1)
  BY <1>3, ForGrows DEF ForStatement
<1>5. entry \in Entry /\ entry.kind = "for" /\ EntryFits(d, entry)
      /\ ScopesOf(entry) = 2 /\ LoopsOf(entry) = 1
  BY <1>2 DEF Entry, EntryFits, ScopesOf, LoopsOf
<1>6. PICK e : e = [NoNames EXCEPT ![n] = New]
  OBVIOUS
<1>7. open' = Append(open, entry) /\ env' = env \o <<e, NoNames>>
  BY <1>2, <1>6 DEF ForStatement
<1>8. e \in [Name -> Nat] /\ NoNames \in [Name -> Nat]
  BY <1>3, <1>6, EnvFacts
<1>9. env' \in Seq([Name -> Nat]) /\ Len(env') = Len(env) + 2
  <2>1. PICK S : S = [Name -> Nat]
    OBVIOUS
  <2>2. env \in Seq(S) /\ <<e, NoNames>> \in Seq(S)
    BY <1>3, <1>8, <2>1
  <2>3. env \o <<e, NoNames>> \in Seq(S) /\ Len(env \o <<e, NoNames>>) = Len(env) + 2
    BY <2>2
  <2> QED BY <1>7, <2>1, <2>3
<1> QED BY <1>1, <1>4, <1>5, <1>7, <1>9, ReadsFacts, StepBegins

\* with (literal, literal) as n {
LEMMA WithStatementKeeps ==
  ASSUME CodeInv, NEW n \in Name, WithStatement(n)
  PROVE  CodeInv'
<1>1. Reads("with")
  BY DEF WithStatement
<1>2. IsSound(C) /\ New \in Nat /\ env \in Seq([Name -> Nat])
  BY <1>1, ReadsFacts
<1>3. PICK entry : entry = [kind |-> "with", slot |-> Len(C.locals) + 1]
  OBVIOUS
<1>4. PICK c : c = BeginScope(Emit(C, <<Push(Temp), Push(Temp), [op |-> "OPEN_FILE", id |-> New]>>))
  OBVIOUS
<1>5. PICK d : d = [c EXCEPT !.locals = Append(@, [name |-> n, depth |-> c.scopeDepth,
                                                   isUpvalue |-> FALSE, constant |-> TRUE,
                                                   id |-> New]),
                             !.isFile = @ \cup {Len(C.locals) + 1}]
  OBVIOUS
<1>6. /\ Update(d) /\ open' = Append(open, entry)
      /\ env' = Append(env, [NoNames EXCEPT ![n] = New])
  BY <1>3, <1>4, <1>5 DEF WithStatement
<1>7. Grows(C, d, 1, 0) /\ entry \in Entry
  BY <1>2, <1>3, <1>4, <1>5, WithGrows
<1>8. entry.kind = "with" /\ EntryFits(d, entry) /\ ScopesOf(entry) = 1 /\ LoopsOf(entry) = 0
  BY <1>3 DEF EntryFits, ScopesOf, LoopsOf
<1>9. env' \in Seq([Name -> Nat]) /\ Len(env') = Len(env) + 1
  BY <1>2, <1>6, EnvFacts, ScopesFacts
<1> QED BY <1>1, <1>6, <1>7, <1>8, <1>9, ReadsFacts, StepBegins

\* What holds whenever the parser reads the end of a construct.
LEMMA EndsFacts ==
  ASSUME CodeInv, NEW kind, kind \notin {"program", "function"}, Ends(kind)
  PROVE  /\ open # <<>> /\ Last(open).kind = kind /\ Last(open) \in Entry
         /\ produced \in Nat /\ IsSound(C) /\ C.scopeDepth # 0
         /\ EntryFits(C, Last(open))
         /\ kind = "for" => C.scopeDepth # 1 /\ Len(env) >= 2
         /\ kind \in {"while", "for"} => C.loop # <<>>
         /\ env \in Seq([Name -> Nat]) /\ Len(env) >= 1
<1>1. open # <<>> /\ Last(open).kind = kind
  BY DEF Ends
<1>2. PICK ms : Parsed(ms, compilers, open, env)
  BY <1>1 DEF CodeInv
<1>3. /\ Last(open) \in Entry /\ IsSound(C) /\ EntryFits(C, Last(open))
      /\ env \in Seq([Name -> Nat])
  BY <1>1, <1>2, ParsedFacts
<1>4. /\ C.scopeDepth # 0 /\ Len(env) >= 1
      /\ Last(open).kind = "for" => C.scopeDepth # 1 /\ Len(env) >= 2
      /\ Last(open).kind \in {"while", "for"} => C.loop # <<>>
  BY <1>1, <1>2, ConstructFacts
<1> QED BY <1>1, <1>3, <1>4 DEF CodeInv

\* A construct with one scope ends.
LEMMA FinishesKeeps ==
  ASSUME CodeInv, NEW kind, kind \notin {"program", "function", "for"}, Ends(kind),
         NEW d, Shrinks(C, d, 1, LoopsOf(Last(open))), Finishes(d)
  PROVE  CodeInv'
<1>1. /\ Update(d) /\ open' = Front(open) /\ env' = Front(env)
      /\ produced' = produced /\ machine' = machine
  BY DEF Finishes
<1>2. /\ open # <<>> /\ Last(open).kind = kind /\ produced' \in Nat
      /\ env \in Seq([Name -> Nat]) /\ Len(env) >= 1
  BY <1>1, EndsFacts
<1>3. ScopesOf(Last(open)) = 1 /\ Last(open).kind \notin {"program", "function"}
  BY <1>2 DEF ScopesOf
<1>4. env' \in Seq([Name -> Nat]) /\ Len(env) = Len(env') + 1
  BY <1>1, <1>2, ScopesFacts
<1> QED BY <1>1, <1>2, <1>3, <1>4, StepFinishes

\* The end of a block.
LEMMA EndBlockKeeps ==
  ASSUME CodeInv, EndBlock
  PROVE  CodeInv'
<1>1. PICK d : d = EndScope(C)
  OBVIOUS
<1>2. Ends("block") /\ Finishes(d)
  BY <1>1 DEF EndBlock
<1>3. IsSound(C) /\ C.scopeDepth # 0 /\ Last(open).kind = "block"
  BY <1>2, EndsFacts
<1>4. Shrinks(C, d, 1, 0) /\ LoopsOf(Last(open)) = 0
  BY <1>1, <1>3, BlockShrinks DEF LoopsOf
<1> QED BY <1>2, <1>4, FinishesKeeps

\* The end of a with-statement.
LEMMA EndWithKeeps ==
  ASSUME CodeInv, EndWith
  PROVE  CodeInv'
<1>1. PICK d : d = EndScope(Emit(C, <<CloseFile(Last(open).slot)>>))
  OBVIOUS
<1>2. Ends("with") /\ Finishes(d)
  BY <1>1 DEF EndWith
<1>3. /\ IsSound(C) /\ C.scopeDepth # 0 /\ Last(open).kind = "with" /\ Last(open) \in Entry
  BY <1>2, EndsFacts
<1>4. Last(open).slot \in Nat
  BY <1>3 DEF Entry
<1>5. Shrinks(C, d, 1, 0) /\ LoopsOf(Last(open)) = 0
  BY <1>1, <1>3, <1>4, WithShrinks DEF LoopsOf
<1> QED BY <1>2, <1>5, FinishesKeeps

\* The end of a while-loop.
LEMMA EndWhileKeeps ==
  ASSUME CodeInv, EndWhile
  PROVE  CodeInv'
<1>1. PICK d : d = EndLoop(C)
  OBVIOUS
<1>2. Ends("while") /\ Finishes(d)
  BY <1>1 DEF EndWhile
<1>3. IsSound(C) /\ C.scopeDepth # 0 /\ Last(open).kind = "while" /\ C.loop # <<>>
  BY <1>2, EndsFacts
<1>4. Shrinks(C, d, 1, 1) /\ LoopsOf(Last(open)) = 1
  BY <1>1, <1>3, LoopShrinks DEF LoopsOf
<1> QED BY <1>2, <1>4, FinishesKeeps

\* The end of a for-loop.
LEMMA EndForKeeps ==
  ASSUME CodeInv, EndFor
  PROVE  CodeInv'
<1>1. PICK d : d = EndScope(EndLoop(C))
  OBVIOUS
<1>2. /\ Ends("for") /\ Update(d) /\ open' = Front(open)
      /\ env' = SubSeq(env, 1, Len(env) - 2) /\ produced' = produced /\ machine' = machine
  BY <1>1 DEF EndFor
<1>3. /\ IsSound(C) /\ C.scopeDepth # 0 /\ C.scopeDepth # 1 /\ C.loop # <<>> /\ open # <<>>
      /\ Last(open).kind = "for" /\ env \in Seq([Name -> Nat]) /\ Len(env) >= 2
      /\ produced' \in Nat
  BY <1>2, EndsFacts
<1>4. Shrinks(C, d, 2, 1) /\ LoopsOf(Last(open)) = 1 /\ ScopesOf(Last(open)) = 2
  BY <1>1, <1>3, ForShrinks DEF LoopsOf, ScopesOf
<1>5. env' \in Seq([Name -> Nat]) /\ Len(env) = Len(env') + 2
  BY <1>2, <1>3, ScopesFacts
<1> QED BY <1>2, <1>3, <1>4, <1>5, StepFinishes

\* The end of an else or a default.
LEMMA EndRestKeeps ==
  ASSUME CodeInv, EndRest
  PROVE  CodeInv'
<1>1. PICK block : block = EndScope(C)
  OBVIOUS
<1>2. PICK d : d = PatchJumps(block, Last(open).ends)
  OBVIOUS
<1>3. Ends("rest") /\ Finishes(d)
  BY <1>1, <1>2 DEF EndRest
<1>4. /\ IsSound(C) /\ C.scopeDepth # 0 /\ Last(open).kind = "rest"
      /\ EntryFits(C, Last(open))
  BY <1>3, EndsFacts
<1>5. Shrinks(C, block, 1, 0)
  BY <1>1, <1>4, BlockShrinks
<1>6. Exits(block, Last(open).ends)
  <2>1. EntryFits(block, Last(open))
    <3>1. IsSound(block) /\ Keeps(C, block)
      BY <1>5 DEF Shrinks
    <3> QED BY <1>4, <3>1, EntryStays
  <2> QED BY <1>4, <2>1 DEF EntryFits, Exits
<1>7. Shrinks(C, d, 1, 0) /\ LoopsOf(Last(open)) = 0
  BY <1>2, <1>4, <1>5, <1>6, PatchedShrinks DEF LoopsOf
<1> QED BY <1>3, <1>7, FinishesKeeps

\* A jump over what follows is emitted, and the earlier jump comes here.
LEMMA PartEnds ==
  ASSUME CodeInv, NEW kind \in {"then", "case"}, Ends(kind),
         NEW p, p = IF kind = "then" THEN Last(open).elseJump ELSE Last(open).compareJump,
         NEW ends, ends = IF kind = "then" THEN {} ELSE Last(open).ends,
         NEW block, block = EndScope(C),
         NEW d, d = PatchJump(Emit(block, <<Jump(0)>>), p)
  PROVE  /\ Shrinks(C, d, 1, 0) /\ Here(block) \in Nat /\ ends \in SUBSET Nat /\ IsSound(C)
         /\ LoopsOf(Last(open)) = 0 /\ Exits(d, ends \cup {Here(block)})
<1>1. /\ IsSound(C) /\ C.scopeDepth # 0 /\ EntryFits(C, Last(open))
      /\ Last(open).kind = kind /\ Last(open) \in Entry
  BY EndsFacts
<1>2. p \in DOMAIN C.code /\ C.code[p].op \in {"JUMP_IF_FALSE", "COMPARE_JUMP"}
  BY <1>1 DEF EntryFits
<1>3. Exits(C, ends)
  BY <1>1 DEF EntryFits, Exits
<1>4. ends \in SUBSET Nat /\ LoopsOf(Last(open)) = 0
  BY <1>1 DEF Entry, LoopsOf
<1>5. Shrinks(C, d, 1, 0) /\ Here(block) \in Nat /\ Exits(d, ends \cup {Here(block)})
  BY <1>1, <1>2, <1>3, JumpShrinks
<1> QED BY <1>1, <1>4, <1>5

\* The code after a part ends: the value of the condition goes.
LEMMA PartPopped ==
  ASSUME NEW c, IsSound(c), NEW d, Shrinks(c, d, 1, 0),
         NEW ends, Exits(d, ends),
         ends \in SUBSET Nat,
         NEW e, e = Emit(d, <<PopTop>>),
         NEW entry, entry = [kind |-> "rest", ends |-> ends]
  PROVE  Shrinks(c, e, 1, 0) /\ entry \in Entry /\ EntryFits(e, entry) /\ entry.kind = "rest"
<1>1. Shrinks(c, e, 1, 0) /\ Exits(e, ends)
  BY PoppedShrinks
<1>2. entry \in Entry /\ entry.kind = "rest" /\ entry.ends = ends
  BY DEF Entry
<1> QED BY <1>1, <1>2 DEF EntryFits, Exits

\* Another part of a construct follows.
LEMMA ContinuesKeeps ==
  ASSUME CodeInv, NEW kind \in {"then", "case"}, Ends(kind), NEW c, Shrinks(C, c, 1, 0),
         NEW entry \in Entry, entry.kind \in {"case", "rest"}, EntryFits(c, entry),
         Continues(c, entry)
  PROVE  CodeInv'
<1>1. /\ Update(BeginScope(c)) /\ open' = Append(Front(open), entry)
      /\ env' = Append(Front(env), NoNames) /\ produced' = New /\ machine' = machine
  BY DEF Continues
<1>2. open # <<>> /\ Last(open).kind \in {"then", "case"} /\ produced \in Nat
  BY EndsFacts
<1>3. produced' \in Nat
  BY <1>1, <1>2 DEF New
<1> QED BY <1>1, <1>2, <1>3, StepContinues

\* The end of the block of an if.
LEMMA EndThenKeeps ==
  ASSUME CodeInv, NEW hasElse \in BOOLEAN, EndThen(hasElse)
  PROVE  CodeInv'
<1>1. PICK block : block = EndScope(C)
  OBVIOUS
<1>2. PICK d : d = PatchJump(Emit(block, <<Jump(0)>>), Last(open).elseJump)
  OBVIOUS
<1>3. PICK c : c = Emit(d, <<PopTop>>)
  OBVIOUS
<1>4. PICK entry : entry = [kind |-> "rest", ends |-> {Here(block)}]
  OBVIOUS
<1>5. /\ Ends("then")
      /\ IF hasElse THEN Continues(c, entry) ELSE Finishes(PatchJump(c, Here(block)))
  BY <1>1, <1>2, <1>3, <1>4 DEF EndThen
<1>6. /\ Shrinks(C, d, 1, 0) /\ Here(block) \in Nat /\ IsSound(C)
      /\ LoopsOf(Last(open)) = 0 /\ Exits(d, {Here(block)})
  <2>1. PICK ends : ends = {}
    OBVIOUS
  <2>2. /\ Shrinks(C, d, 1, 0) /\ Here(block) \in Nat /\ IsSound(C)
        /\ LoopsOf(Last(open)) = 0 /\ Exits(d, ends \cup {Here(block)})
    BY <1>1, <1>2, <1>5, <2>1, PartEnds
  <2>3. ends \cup {Here(block)} = {Here(block)}
    BY <2>1
  <2> QED BY <2>2, <2>3
<1>7. Shrinks(C, c, 1, 0) /\ entry \in Entry /\ EntryFits(c, entry) /\ entry.kind = "rest"
  BY <1>3, <1>4, <1>6, PartPopped
<1>8. CASE hasElse
  BY <1>5, <1>7, <1>8, ContinuesKeeps
<1>9. CASE ~ hasElse
  <2>1. PICK e : e = PatchJump(c, Here(block))
    OBVIOUS
  <2>2. /\ IsSound(c) /\ Here(block) \in DOMAIN c.code /\ c.code[Here(block)].op \in JumpOps
    BY <1>4, <1>7 DEF Shrinks, EntryFits, JumpOps
  <2>3. Like(c, e)
    BY <2>1, <2>2, PatchFacts DEF Like
  <2>4. Shrinks(C, e, 1, 0)
    BY <1>6, <1>7, <2>3, ShrinksOn
  <2> QED BY <1>5, <1>6, <1>9, <2>1, <2>4, FinishesKeeps
<1> QED BY <1>8, <1>9

\* The end of a case.
LEMMA EndCaseKeeps ==
  ASSUME CodeInv, NEW next \in {"case", "default", "end"}, EndCase(next)
  PROVE  CodeInv'
<1>1. PICK block : block = EndScope(C)
  OBVIOUS
<1>2. PICK ends : ends = Last(open).ends \cup {Here(block)}
  OBVIOUS
<1>3. PICK c : c = PatchJump(Emit(block, <<Jump(0)>>), Last(open).compareJump)
  OBVIOUS
<1>4. /\ Ends("case")
      /\ next = "end" => Finishes(PatchJumps(Emit(c, <<PopTop>>), ends))
      /\ next = "case" =>
           Continues(Emit(c, CompareJump), [kind |-> "case", compareJump |-> Here(c) + 1, ends |-> ends])
      /\ next = "default" => Continues(Emit(c, <<PopTop>>), [kind |-> "rest", ends |-> ends])
  BY <1>1, <1>2, <1>3 DEF EndCase
<1>5. /\ Shrinks(C, c, 1, 0) /\ ends \in SUBSET Nat /\ IsSound(C)
      /\ LoopsOf(Last(open)) = 0 /\ Exits(c, ends)
  <2>1. PICK before : before = Last(open).ends
    OBVIOUS
  <2>2. /\ Shrinks(C, c, 1, 0) /\ Here(block) \in Nat /\ before \in SUBSET Nat /\ IsSound(C)
        /\ LoopsOf(Last(open)) = 0 /\ Exits(c, before \cup {Here(block)})
    BY <1>1, <1>3, <1>4, <2>1, PartEnds
  <2>3. ends = before \cup {Here(block)} /\ ends \in SUBSET Nat
    BY <1>2, <2>1, <2>2
  <2> QED BY <2>2, <2>3
<1>6. PICK popped : popped = Emit(c, <<PopTop>>)
  OBVIOUS
<1>7. PICK rest : rest = [kind |-> "rest", ends |-> ends]
  OBVIOUS
<1>8. /\ Shrinks(C, popped, 1, 0) /\ Exits(popped, ends)
      /\ rest \in Entry /\ EntryFits(popped, rest) /\ rest.kind = "rest"
  <2>1. Shrinks(C, popped, 1, 0) /\ Exits(popped, ends)
    BY <1>5, <1>6, PoppedShrinks
  <2>2. rest \in Entry /\ EntryFits(popped, rest) /\ rest.kind = "rest"
    BY <1>5, <1>6, <1>7, PartPopped
  <2> QED BY <2>1, <2>2
<1>9. CASE next = "end"
  <2>1. PICK e : e = PatchJumps(popped, ends)
    OBVIOUS
  <2>2. Shrinks(C, e, 1, 0)
    BY <1>5, <1>8, <2>1, PatchedShrinks
  <2> QED BY <1>4, <1>5, <1>6, <1>9, <2>1, <2>2, FinishesKeeps
<1>10. CASE next = "default"
  BY <1>4, <1>6, <1>7, <1>8, <1>10, ContinuesKeeps
<1>11. CASE next = "case"
  <2>1. PICK e : e = Emit(c, CompareJump)
    OBVIOUS
  <2>2. PICK entry : entry = [kind |-> "case", compareJump |-> Here(c) + 1, ends |-> ends]
    OBVIOUS
  <2>3. IsSound(c) /\ Here(c) \in Nat
    BY <1>5, CompilerFacts DEF Shrinks
  <2>4. /\ Like(c, e) /\ Here(c) + 1 \in DOMAIN e.code /\ e.code[Here(c) + 1].op = "COMPARE_JUMP"
    BY <2>1, <2>3, CompareFacts
  <2>5. \A i \in DOMAIN c.code : i \in DOMAIN e.code /\ e.code[i] = c.code[i]
    BY <2>1, <2>3, CompareFacts
  <2>6. Shrinks(C, e, 1, 0)
    BY <1>5, <2>4, ShrinksOn
  <2>7. Exits(e, ends)
    BY <1>5, <2>5 DEF Exits
  <2>8. entry \in Entry
    <3>1. Here(c) + 1 \in Nat
      BY <2>3
    <3> QED BY <1>5, <2>2, <3>1 DEF Entry
  <2>9. entry.kind = "case" /\ entry.compareJump = Here(c) + 1 /\ entry.ends = ends
    BY <2>2
  <2>10. EntryFits(e, entry)
    BY <2>4, <2>7, <2>9 DEF EntryFits, Exits
  <2> QED BY <1>4, <1>11, <2>1, <2>2, <2>6, <2>8, <2>9, <2>10, ContinuesKeeps
<1> QED BY <1>9, <1>10, <1>11

\* A sequence of one element has at least one.
LEMMA Ones == \A x : x = 1 => x >= 1
OBVIOUS

\* A record of the fields of a compiler.
LEMMA RecordIs ==
  ASSUME NEW T, NEW L, NEW P, NEW U, NEW I, NEW type \in T, NEW depth \in Nat, NEW locals \in L,
         <<>> \in P, <<>> \in U, <<>> \in I
  PROVE  [type |-> type, scopeDepth |-> depth, locals |-> locals, isFile |-> {},
          loop |-> <<>>, upvalues |-> <<>>, code |-> <<>>]
           \in [type : T, scopeDepth : Nat, locals : L, isFile : SUBSET Nat,
                loop : P, upvalues : U, code : I]
OBVIOUS

\* The fields of a function's compiler, or a file's, as it starts.
LEMMA NewCompilerFields ==
  ASSUME NEW kind, NEW c, c = NewCompiler(kind)
  PROVE  /\ c.locals \in Seq(Local) /\ Len(c.locals) = 1 /\ c.locals[1].depth = 0
         /\ c.loop = <<>> /\ c.type = kind /\ c.code = <<>> /\ c.isFile = {}
         /\ c.upvalues = <<>> /\ c.scopeDepth = IF kind = "function" THEN 1 ELSE 0
         /\ c.scopeDepth \in Nat /\ DOMAIN c.code = {} /\ DOMAIN c.loop = {}
         /\ \A T : kind \in T =>
              c \in [type : T, scopeDepth : Nat, locals : Seq(Local), isFile : SUBSET Nat,
                    loop : Seq(LoopInfo), upvalues : Seq(Upvalue), code : Seq(Instr)]
<1>1. PICK zero : zero = [name |-> NoName, depth |-> 0, isUpvalue |-> FALSE,
                          constant |-> FALSE, id |-> Temp]
  OBVIOUS
<1>2. /\ c.locals = <<zero>> /\ c.loop = <<>> /\ c.type = kind /\ c.code = <<>>
      /\ c.scopeDepth = IF kind = "function" THEN 1 ELSE 0
      /\ c.isFile = {} /\ c.upvalues = <<>>
      /\ c = [type |-> kind, scopeDepth |-> c.scopeDepth, locals |-> c.locals, isFile |-> {},
              loop |-> <<>>, upvalues |-> <<>>, code |-> <<>>]
  BY <1>1 DEF NewCompiler
<1>3. zero \in Local /\ zero.depth = 0
  BY <1>1 DEF Local, Temp
<1>4. c.locals \in Seq(Local) /\ Len(c.locals) = 1 /\ c.locals[1].depth = 0
  BY <1>2, <1>3
<1>5. DOMAIN c.code = {} /\ DOMAIN c.loop = {} /\ c.scopeDepth \in Nat
  BY <1>2
<1>6. <<>> \in Seq(LoopInfo) /\ <<>> \in Seq(Upvalue) /\ <<>> \in Seq(Instr)
  OBVIOUS
<1>7. ASSUME NEW T, kind \in T
      PROVE  c \in [type : T, scopeDepth : Nat, locals : Seq(Local), isFile : SUBSET Nat,
                   loop : Seq(LoopInfo), upvalues : Seq(Upvalue), code : Seq(Instr)]
  <2>1. PICK locals, depth : locals = c.locals /\ depth = c.scopeDepth
    OBVIOUS
  <2>2. c = [type |-> kind, scopeDepth |-> depth, locals |-> locals, isFile |-> {},
             loop |-> <<>>, upvalues |-> <<>>, code |-> <<>>]
    BY <1>2, <2>1
  <2>3. locals \in Seq(Local) /\ depth \in Nat
    BY <1>4, <1>5, <2>1
  <2> QED BY <1>6, <1>7, <2>2, <2>3, RecordIs
<1> QED BY <1>2, <1>4, <1>5, <1>7

\* They start soundly.
LEMMA NewCompilerFacts ==
  ASSUME NEW kind \in {"top level", "function"}, NEW c, c = NewCompiler(kind)
  PROVE  IsSound(c) /\ c.loop = <<>> /\ c.scopeDepth = IF kind = "function" THEN 1 ELSE 0
<1>1. /\ c.locals \in Seq(Local) /\ Len(c.locals) = 1 /\ c.locals[1].depth = 0
      /\ c.loop = <<>> /\ c.scopeDepth = IF kind = "function" THEN 1 ELSE 0
      /\ c.scopeDepth \in Nat /\ DOMAIN c.code = {} /\ DOMAIN c.loop = {}
  BY NewCompilerFields
<1>2. c \in Compiler
  BY NewCompilerFields, Zenon DEF Compiler
<1>3. Len(c.locals) >= 1
  BY <1>1, Ones
<1> QED BY <1>1, <1>2, <1>3 DEF IsSound

\* A function's declaration begins with the local that waits for its value.
LEMMA CalleeFacts ==
  ASSUME NEW b, IsSound(b), NEW n \in Name, NEW id \in Nat, NEW argument \in BOOLEAN,
         NEW declared, declared = DeclareVariable(b, n, id),
         NEW callee, callee = IF argument THEN Emit(declared, <<Push(Temp)>>) ELSE declared,
         NEW entry, entry.name = n, entry.id = id
  PROVE  Like(b, callee) /\ callee.loop = b.loop /\ Waiting(callee, entry)
<1>1. /\ Like(b, declared) /\ declared.loop = b.loop
      /\ b.scopeDepth # 0 =>
           /\ Len(declared.locals) >= 2
           /\ declared.locals[Len(declared.locals)] = NewLocal(n, id)
  BY DeclareFacts
<1>2. IsSound(declared)
  BY <1>1 DEF Like
<1>3. /\ Like(declared, callee) /\ callee.locals = declared.locals /\ callee.loop = declared.loop
  <2>1. CASE argument
    <3>1. callee = Emit(declared, <<Push(Temp)>>)
      BY <2>1
    <3>2. Plain(<<Push(Temp)>>)
      BY PlainInstr
    <3> QED BY <1>2, <3>1, <3>2, PlainEmit
  <2>2. CASE ~ argument
    <3>1. callee = declared
      BY <2>2
    <3> QED BY <1>2, <3>1, Itself
  <2> QED BY <2>1, <2>2
<1>4. Like(b, callee)
  BY <1>1, <1>3, LikeTrans
<1>5. ASSUME callee.scopeDepth # 0 PROVE /\ Len(callee.locals) >= 2
                                         /\ callee.locals[Len(callee.locals)].depth = -1
                                         /\ callee.locals[Len(callee.locals)].name = n
                                         /\ callee.locals[Len(callee.locals)].id = id
  <2>1. b.scopeDepth # 0
    BY <1>4, <1>5 DEF Like
  <2>2. callee.locals[Len(callee.locals)] = NewLocal(n, id) /\ Len(callee.locals) >= 2
    BY <1>1, <1>3, <2>1
  <2> QED BY <2>2 DEF NewLocal
<1> QED BY <1>1, <1>3, <1>4, <1>5 DEF Waiting

\* def n() {
LEMMA BeginFunctionKeeps ==
  ASSUME CodeInv, NEW n \in Name, NEW argument \in BOOLEAN, NEW constant \in BOOLEAN,
         BeginFunction(n, argument, constant)
  PROVE  CodeInv'
<1>1. PICK construct : Reads(construct)
  BY DEF BeginFunction
<1>2. /\ IsSound(C) /\ New \in Nat /\ open # <<>> /\ produced' \in Nat /\ machine' = machine
      /\ env \in Seq([Name -> Nat]) /\ Compilers /\ C = compilers[Len(compilers)]
      /\ Declared(n, New) \in Seq([Name -> Nat]) /\ Len(Declared(n, New)) = Len(env)
  BY <1>1, ReadsFacts
<1>3. PICK ms : Parsed(ms, compilers, open, env)
  BY <1>2 DEF CodeInv
<1>4. PICK declared : declared = DeclareVariable(C, n, New)
  OBVIOUS
<1>5. PICK callee : callee = IF argument THEN Emit(declared, <<Push(Temp)>>) ELSE declared
  OBVIOUS
<1>6. PICK inner : inner = NewCompiler("function")
  OBVIOUS
<1>7. PICK entry : entry = [kind |-> "function", level |-> Len(compilers), name |-> n,
                            argument |-> argument, constant |-> constant, id |-> New]
  OBVIOUS
<1>8. /\ compilers' = Append(Front(compilers), callee) \o <<inner>>
      /\ open' = Append(open, entry) /\ env' = Append(Declared(n, New), NoNames)
  BY <1>4, <1>5, <1>6, <1>7 DEF BeginFunction
<1>9. /\ compilers \in Seq(Compiler) /\ Len(compilers) \in Nat /\ Len(compilers) >= 1
  BY <1>2 DEF Compilers
<1>10. /\ entry \in Entry /\ entry.kind = "function" /\ entry.level = Len(compilers)
       /\ entry.name = n /\ entry.id = New
  BY <1>2, <1>7, <1>9 DEF Entry
<1>11. Like(C, callee) /\ callee.loop = C.loop /\ Waiting(callee, entry)
  BY <1>2, <1>4, <1>5, <1>10, CalleeFacts
<1>12. IsSound(inner) /\ inner.scopeDepth = 1 /\ inner.loop = <<>>
  BY <1>6, NewCompilerFacts
<1>13. compilers' = Append(SubSeq(compilers, 1, Len(compilers) - 1), callee) \o <<inner>>
  <2>1. Len(compilers) > 0
    BY <1>9
  <2>2. Front(compilers) = SubSeq(compilers, 1, Len(compilers) - 1)
    BY <1>9, <2>1, FrontFacts
  <2> QED BY <1>8, <2>2
<1>14. env' \in Seq([Name -> Nat]) /\ Len(env') = Len(env) + 1
  <2>1. PICK e : e = Declared(n, New)
    OBVIOUS
  <2>2. NoNames \in [Name -> Nat]
    BY DEF NoNames, Undeclared
  <2>3. e \in Seq([Name -> Nat]) /\ Len(e) = Len(env) /\ env' = Append(e, NoNames)
    BY <1>2, <1>8, <2>1
  <2> QED BY <2>2, <2>3, AppendFacts
<1>15. IsSound(callee) /\ Keeps(compilers[Len(compilers)], callee) /\ CompilerFits(callee, ms[Len(open)])
  <2>1. CompilerFits(C, ms[Len(open)])
    BY <1>2, <1>3 DEF Parsed
  <2> QED BY <1>2, <1>11, <2>1, OuterStays DEF Like
<1>16. Parsed(Append(ms, Within(ms[Len(open)], entry)), compilers', Append(open, entry), env')
  BY <1>3, <1>10, <1>11, <1>12, <1>13, <1>14, <1>15, OpensFunction
<1>17. NotStarted' = NotStarted /\ Append(open, entry) # <<>>
  <2>1. open \in Seq(Entry)
    BY <1>3 DEF Parsed
  <2> QED BY <2>1 DEF NotStarted
<1> QED BY <1>2, <1>8, <1>16, <1>17 DEF CodeInv

\* Around a function is the one whose declaration it is the value of.
LEMMA AroundFacts ==
  ASSUME NEW ms, Parsed(ms, compilers, open, env), Last(open).kind = "function"
  PROVE  /\ Len(open) \in 2 .. Len(open) /\ Len(compilers) \in 2 .. Len(compilers)
         /\ IsSound(compilers[Len(compilers) - 1])
         /\ Waiting(compilers[Len(compilers) - 1], Last(open))
         /\ Len(env) \in Nat /\ Len(env) >= 1
<1>1. /\ Len(open) \in Nat /\ Len(open) >= 1 /\ Last(open) = open[Len(open)] /\ Compilers
      /\ Len(open) \in 2 .. Len(open) /\ Len(env) \in Nat
  BY ParsedFacts
<1>2. PICK n, k, m : n = Len(open) /\ k = Len(compilers) /\ m = ms[Len(open) - 1]
  OBVIOUS
<1>3. n \in 2 .. n /\ n - 1 \in 1 .. n /\ n \in 1 .. n
  BY <1>1, <1>2, Positions
<1>4. /\ m \in Mark /\ ms[n] = Within(m, open[n]) /\ k = ms[n].level /\ Len(env) = ms[n].scopes
      /\ Waiting(compilers[m.level], open[n])
  <2>1. m \in Mark
    BY <1>2, <1>3, MarkFacts
  <2>2. \A i \in 2 .. n : ms[i] = Within(ms[i - 1], open[i])
    BY <1>2 DEF Parsed
  <2>3. \A i \in 2 .. n : open[i].kind = "function" => Waiting(compilers[ms[i - 1].level], open[i])
    BY <1>2 DEF Parsed
  <2>4. k = ms[n].level /\ Len(env) = ms[n].scopes
    BY <1>2 DEF Parsed
  <2> QED BY <1>1, <1>2, <1>3, <2>1, <2>2, <2>3, <2>4
<1>5. open[n].kind = "function"
  BY <1>1, <1>2
<1>6. k = m.level + 1 /\ Len(env) = m.scopes + 1
  BY <1>4, <1>5, WithinFacts
<1>7. m.level \in Nat /\ m.scopes \in Nat
  BY <1>4 DEF Mark
<1>8. m.level \in 1 .. k - 1
  <2>1. \A i \in 2 .. n : open[i].kind = "function" => ms[i - 1].level \in 1 .. k - 1
    BY <1>2, MarkFacts
  <2> QED BY <1>2, <1>3, <1>5, <2>1
<1>9. k - 1 = m.level /\ k \in 2 .. k /\ m.level \in 1 .. k /\ Len(env) >= 1
  BY <1>6, <1>7, <1>8
<1>10. IsSound(compilers[m.level])
  BY <1>1, <1>2, <1>9 DEF Compilers
<1> QED BY <1>1, <1>2, <1>4, <1>9, <1>10

\* }, the end of a function.
LEMMA EndFunctionKeeps ==
  ASSUME CodeInv, EndFunction
  PROVE  CodeInv'
<1>1. Ends("function") /\ open # <<>> /\ Last(open).kind = "function"
  BY DEF EndFunction, Ends
<1>2. PICK ms : Parsed(ms, compilers, open, env)
  BY <1>1 DEF CodeInv
<1>3. PICK o : o = Last(open)
  OBVIOUS
<1>4. PICK outs : outs = compilers[Len(compilers) - 1]
  OBVIOUS
<1>5. PICK call : call = IF o.argument THEN <<[op |-> "CALL", id |-> o.id]>> ELSE <<>>
  OBVIOUS
<1>6. PICK closure : closure = [op |-> "CLOSURE", upvalues |-> C.upvalues,
                                id |-> IF o.argument THEN Temp ELSE o.id]
  OBVIOUS
<1>7. PICK emitted : emitted = Emit(outs, <<closure>> \o call)
  OBVIOUS
<1>8. PICK outer : outer = DefineVariable(emitted, o.constant)
  OBVIOUS
<1>9. /\ compilers' = Append(SubSeq(compilers, 1, Len(compilers) - 2), outer)
      /\ open' = Front(open) /\ env' = Front(env) /\ produced' = produced /\ machine' = machine
  BY <1>3, <1>4, <1>5, <1>6, <1>7, <1>8 DEF EndFunction
<1>10. /\ Len(open) \in 2 .. Len(open) /\ Len(compilers) \in 2 .. Len(compilers)
       /\ IsSound(outs) /\ Waiting(outs, o) /\ Len(env) \in Nat /\ Len(env) >= 1
  BY <1>1, <1>2, <1>3, <1>4, AroundFacts
<1>11. /\ IsSound(C) /\ o \in Entry /\ o.kind = "function" /\ o = open[Len(open)]
       /\ open \in Seq(Entry) /\ Len(open) \in Nat /\ Len(open) >= 1
       /\ env \in Seq([Name -> Nat])
  BY <1>1, <1>2, <1>3, ParsedFacts
<1>12. o.argument \in BOOLEAN /\ o.constant \in BOOLEAN /\ o.id \in Nat
  BY <1>11 DEF Entry
<1>13. closure \in Instr /\ closure.op = "CLOSURE"
  <2>1. C.upvalues \in Seq(Upvalue)
    BY <1>11, CompilerFacts
  <2>2. (IF o.argument THEN Temp ELSE o.id) \in Nat
    BY <1>12 DEF Temp
  <2> QED BY <1>6, <2>1, <2>2 DEF Instr
<1>14. Plain(<<closure>>)
  <2>1. closure.op \notin JumpOps \cup {"BREAK"}
    BY <1>13 DEF JumpOps
  <2> QED BY <1>13, <2>1, PlainSeqs
<1>15. Plain(call)
  <2>1. CASE o.argument
    <3>1. PICK I : I = [op |-> "CALL", id |-> o.id]
      OBVIOUS
    <3>2. I \in Instr /\ I.op \notin JumpOps \cup {"BREAK"}
      BY <1>12, <3>1 DEF Instr, JumpOps
    <3>3. Plain(<<I>>)
      BY <3>2, PlainSeqs
    <3> QED BY <1>5, <2>1, <3>1, <3>3
  <2>2. CASE ~ o.argument
    <3>1. Plain(<<>>)
      BY PlainInstr, PlainSeqs
    <3> QED BY <1>5, <2>2, <3>1
  <2> QED BY <2>1, <2>2
<1>16. Like(outs, emitted) /\ emitted.locals = outs.locals
  <2>1. Plain(<<closure>> \o call)
    BY <1>14, <1>15, PlainConcat
  <2> QED BY <1>7, <1>10, <2>1, PlainEmit
<1>17. IsSound(emitted) /\ emitted.scopeDepth = outs.scopeDepth
  BY <1>16 DEF Like
<1>18. emitted.scopeDepth # 0 => Len(emitted.locals) >= 2
  BY <1>10, <1>16, <1>17 DEF Waiting
<1>19. Like(emitted, outer)
  BY <1>8, <1>12, <1>17, <1>18, DefineLike
<1>20. Like(outs, outer)
  BY <1>10, <1>16, <1>19, LikeTrans
<1>21. env' \in Seq([Name -> Nat]) /\ Len(env) = Len(env') + 1
  BY <1>9, <1>10, <1>11, ScopesFacts
<1>22. Parsed(SubSeq(ms, 1, Len(open) - 1), compilers', SubSeq(open, 1, Len(open) - 1), env')
  <2>1. /\ IsSound(outer) /\ Keeps(compilers[Len(compilers) - 1], outer)
        /\ outer.scopeDepth = compilers[Len(compilers) - 1].scopeDepth
        /\ Len(outer.loop) = Len(compilers[Len(compilers) - 1].loop)
    BY <1>4, <1>20 DEF Like
  <2> QED BY <1>2, <1>9, <1>11, <1>21, <2>1, ClosesFunction
<1>23. open' = SubSeq(open, 1, Len(open) - 1) /\ open' # <<>>
  <2>1. Len(open) > 0
    BY <1>11
  <2>2. Front(open) = SubSeq(open, 1, Len(open) - 1)
    BY <1>11, <2>1, FrontFacts
  <2>3. Len(SubSeq(open, 1, Len(open) - 1)) >= 1
    BY <1>22 DEF Parsed
  <2> QED BY <1>9, <2>2, <2>3
<1>24. NotStarted' = NotStarted
  BY DEF NotStarted
<1>25. machine = NotStarted /\ produced \in Nat
  BY <1>1 DEF CodeInv
<1> QED BY <1>9, <1>22, <1>23, <1>24, <1>25 DEF CodeInv

----------------------------------------------------------------------------
(* The program's end, and the machine. *)

\* Two elements more.
LEMMA TwoMore ==
  ASSUME NEW S, NEW s \in Seq(S), NEW t \in Seq(S), Len(t) = 2
  PROVE  /\ Len(s \o t) = Len(s) + 2 /\ DOMAIN (s \o t) = 1 .. Len(s) + 2
         /\ \A i \in 1 .. Len(s) : (s \o t)[i] = s[i]
         /\ (s \o t)[Len(s) + 1] = t[1] /\ (s \o t)[Len(s) + 2] = t[2]
<1>1. /\ Len(s) \in Nat /\ Len(s \o t) = Len(s) + Len(t)
      /\ DOMAIN (s \o t) = 1 .. Len(s) + Len(t)
      /\ \A i \in 1 .. Len(s) + Len(t) : (s \o t)[i] = IF i <= Len(s) THEN s[i] ELSE t[i - Len(s)]
  <2>1. /\ s \o t \in Seq(S) /\ Len(s \o t) = Len(s) + Len(t)
        /\ \A i \in 1 .. Len(s) + Len(t) : (s \o t)[i] = IF i <= Len(s) THEN s[i] ELSE t[i - Len(s)]
    BY ConcatProperties
  <2>2. DOMAIN (s \o t) = 1 .. Len(s \o t) /\ Len(s) \in Nat
    BY <2>1
  <2> QED BY <2>1, <2>2
<1>2. PICK n : n = Len(s)
  OBVIOUS
<1>3. n \in Nat /\ DOMAIN (s \o t) = 1 .. n + 2 /\ Len(s \o t) = n + 2
  BY <1>1, <1>2
<1>4. /\ \A i \in 1 .. n : (s \o t)[i] = s[i]
      /\ (s \o t)[n + 1] = t[(n + 1) - n] /\ (s \o t)[n + 2] = t[(n + 2) - n]
  BY <1>1, <1>2, <1>3
<1>5. (n + 1) - n = 1 /\ (n + 2) - n = 2
  BY <1>3
<1> QED BY <1>2, <1>3, <1>4, <1>5

\* Code outside loops that ends with RETURN has no break, and jumps within itself.
LEMMA ProgramCode ==
  ASSUME NEW b, IsSound(b), b.loop = <<>>, NEW I \in Instr, I.op = "RETURN",
         NEW c, c = Emit(b, <<Push(Temp), I>>)
  PROVE  /\ IsSound(c) /\ Len(c.code) >= 1 /\ c.code[Len(c.code)].op = "RETURN"
         /\ \A i \in DOMAIN c.code : /\ c.code[i].op # "BREAK"
                                     /\ c.code[i].op \in JumpOps => c.code[i].to <= Len(c.code)
<1>1. PICK new : new = <<Push(Temp), I>>
  OBVIOUS
<1>2. Plain(new) /\ new \in Seq(Instr) /\ Len(new) = 2 /\ new[1] = Push(Temp) /\ new[2] = I
  <2>1. I.op \notin JumpOps \cup {"BREAK"}
    BY DEF JumpOps
  <2>2. Plain(<<Push(Temp), I>>)
    BY <2>1, PlainInstr, PlainSeqs
  <2> QED BY <1>1, <2>2 DEF Plain
<1>3. c = Emit(b, new)
  BY <1>1
<1>4. Like(b, c) /\ c.loop = b.loop /\ c.code = b.code \o new
  <2>1. Like(b, c)
    BY <1>2, <1>3, PlainEmit
  <2>2. b \in Compiler
    BY DEF IsSound
  <2> QED BY <1>3, <2>1, <2>2 DEF Emit, Compiler
<1>5. IsSound(c)
  BY <1>4 DEF Like
<1>6. PICK k, s, d : k = Len(b.code) /\ s = b.code /\ d = c.code
  OBVIOUS
<1>7. /\ k \in Nat /\ k = Len(s) /\ Here(b) = k + 1 /\ DOMAIN s = 1 .. k
      /\ s \in Seq(Instr) /\ \A i \in DOMAIN s : s[i] \in Instr
  BY <1>6, CompilerFacts
<1>8. d = s \o new
  BY <1>4, <1>6
<1>9. /\ Len(d) = k + 2 /\ DOMAIN d = 1 .. k + 2
      /\ \A i \in 1 .. k : d[i] = s[i]
      /\ d[k + 1] = Push(Temp) /\ d[k + 2] = I
  BY <1>2, <1>7, <1>8, TwoMore
<1>10. ASSUME NEW i \in DOMAIN d
       PROVE  d[i].op # "BREAK" /\ (d[i].op \in JumpOps => d[i].to <= Len(d))
  <2>1. d[i].op # "BREAK"
    BY <1>4, <1>5, <1>6 DEF IsSound
  <2>2. ASSUME d[i].op \in JumpOps PROVE d[i].to <= Len(d)
    <3>1. CASE i \in 1 .. k
      <4>1. i \in DOMAIN s /\ d[i] = s[i] /\ s[i] \in Instr
        BY <1>7, <1>9, <3>1
      <4>2. s[i].to <= k + 1
        BY <1>6, <1>7, <2>2, <4>1 DEF IsSound
      <4>3. s[i].to \in Nat
        BY <2>2, <4>1, JumpFacts
      <4>4. \A to \in Nat : to <= k + 1 => to <= k + 2
        BY <1>7
      <4> QED BY <1>9, <4>1, <4>2, <4>3, <4>4
    <3>2. CASE i \notin 1 .. k
      <4>1. i = k + 1 \/ i = k + 2
        BY <1>7, <1>9, <3>2
      <4>2. Push(Temp).op \notin JumpOps
        BY PlainInstr
      <4>3. I.op \notin JumpOps
        BY DEF JumpOps
      <4> QED BY <1>9, <2>2, <4>1, <4>2, <4>3
    <3> QED BY <3>1, <3>2
  <2> QED BY <2>1, <2>2
<1>11. Len(d) >= 1 /\ d[Len(d)].op = "RETURN"
  BY <1>7, <1>9
<1> QED BY <1>5, <1>6, <1>10, <1>11

\* The end of the program.
LEMMA EndProgramKeeps ==
  ASSUME CodeInv, EndProgram
  PROVE  CodeInv'
<1>1. Ends("program") /\ open # <<>> /\ Last(open).kind = "program"
  BY DEF EndProgram, Ends
<1>2. PICK ms : Parsed(ms, compilers, open, env)
  BY <1>1 DEF CodeInv
<1>3. PICK return : return = [op |-> "RETURN", height |-> Len(C.locals)]
  OBVIOUS
<1>4. PICK c : c = Emit(C, <<Push(Temp), return>>)
  OBVIOUS
<1>5. /\ Update(c) /\ open' = <<>> /\ produced' = produced
      /\ machine' = [NotStarted EXCEPT
                       !.pc = 1, !.stack = IF C.type = "function" THEN <<Temp, 1>> ELSE <<Temp>>]
  BY <1>3, <1>4 DEF EndProgram
<1>6. IsSound(C) /\ Compilers /\ C = compilers[Len(compilers)] /\ Len(open) = 1
  BY <1>1, <1>2, ParsedFacts
<1>7. Len(compilers) = 1 /\ C.loop = <<>>
  <2>1. ms[Len(open)].level = 1 /\ ms[Len(open)].loops = 0
    BY <1>2, <1>6 DEF Parsed
  <2>2. Len(compilers) = 1 /\ Len(C.loop) = 0
    BY <1>2, <1>6, <2>1 DEF Parsed, CompilerFits
  <2>3. C.loop \in Seq(LoopInfo)
    BY <1>6, CompilerFacts
  <2> QED BY <2>2, <2>3
<1>8. return \in Instr /\ return.op = "RETURN"
  <2>1. Len(C.locals) \in Nat
    BY <1>6, CompilerFacts
  <2> QED BY <1>3, <2>1 DEF Instr
<1>9. /\ IsSound(c) /\ Len(c.code) >= 1 /\ c.code[Len(c.code)].op = "RETURN"
      /\ \A i \in DOMAIN c.code : /\ c.code[i].op # "BREAK"
                                  /\ c.code[i].op \in JumpOps => c.code[i].to <= Len(c.code)
  <2>1. PICK b : b = C
    OBVIOUS
  <2>2. IsSound(b) /\ b.loop = <<>> /\ c = Emit(b, <<Push(Temp), return>>)
    BY <1>4, <1>6, <1>7, <2>1
  <2> QED BY <1>8, <2>2, ProgramCode
<1>11. compilers' \in Seq(Compiler) /\ Len(compilers') = 1 /\ compilers'[1] = c
  <2>1. compilers \in Seq(Compiler) /\ c \in Compiler
    BY <1>6, <1>9 DEF Compilers, IsSound
  <2>2. compilers' = [compilers EXCEPT ![1] = c]
    BY <1>5, <1>7 DEF Update
  <2> QED BY <1>7, <2>1, <2>2
<1>16. machine'.pc = 1 /\ machine' \in MachineType
  <2>1. <<Temp, 1>> \in Seq(Nat) /\ <<Temp>> \in Seq(Nat)
    BY DEF Temp
  <2>2. PICK stack \in Seq(Nat) : machine' = [NotStarted EXCEPT !.pc = 1, !.stack = stack]
    BY <1>5, <2>1
  <2>3. machine' = [pc |-> 1, stack |-> stack, captured |-> {}, files |-> {}]
    BY <2>2 DEF NotStarted
  <2> QED BY <2>3 DEF MachineType
<1>17. Finished'
  <2>1. Code' = c.code
    BY <1>11 DEF Code
  <2> QED BY <1>9, <1>11, <1>16, <2>1 DEF Finished
<1>18. produced' \in Nat
  BY <1>5 DEF CodeInv
<1> QED BY <1>5, <1>17, <1>18 DEF CodeInv

\* What the running machine finds.
LEMMA RunningFacts ==
  ASSUME CodeInv, NEW ops, Runs(ops)
  PROVE  /\ Finished /\ Running /\ Instruction = Code[machine.pc] /\ Instruction \in Instr
         /\ machine \in MachineType /\ machine.pc \in DOMAIN Code /\ machine.pc + 1 \in Nat
         /\ Instruction.op \in ops
         /\ Instruction.op # "RETURN" => machine.pc + 1 <= Len(Code)
         /\ Instruction.op \in JumpOps => Instruction.to \in Nat /\ Instruction.to <= Len(Code)
         /\ compilers' = compilers /\ open' = open /\ produced' = produced /\ open = <<>>
<1>1. Running /\ Instruction.op \in ops
      /\ compilers' = compilers /\ open' = open /\ produced' = produced /\ open = <<>>
  BY DEF Runs, Running
<1>2. Finished
  BY <1>1 DEF CodeInv
<1>3. Instruction = Code[machine.pc]
  BY DEF Instruction, Code
<1>4. machine \in MachineType /\ machine.pc <= Len(Code) /\ Code[Len(Code)].op = "RETURN"
  BY <1>2 DEF Finished
<1>5. DOMAIN Code = 1 .. Len(Code) /\ Len(Code) \in Nat /\ \A i \in DOMAIN Code : Code[i] \in Instr
  BY <1>2, CompilerFacts DEF Finished, Code
<1>6. PICK pc : pc = machine.pc
  OBVIOUS
<1>7. pc \in Nat /\ pc # 0 /\ pc <= Len(Code)
  BY <1>1, <1>4, <1>6 DEF MachineType, Running
<1>8. pc \in DOMAIN Code /\ pc + 1 \in Nat /\ (pc # Len(Code) => pc + 1 <= Len(Code))
  <2>1. PICK k : k = Len(Code)
    OBVIOUS
  <2>2. DOMAIN Code = 1 .. k /\ k \in Nat /\ pc <= k
    BY <1>5, <1>7, <2>1
  <2>3. pc \in 1 .. k /\ pc + 1 \in Nat /\ (pc # k => pc + 1 <= k)
    BY <1>7, <2>2
  <2> QED BY <2>1, <2>2, <2>3
<1>9. Instruction \in Instr /\ Instruction = Code[pc]
  BY <1>3, <1>5, <1>6, <1>8
<1>10. Instruction.op # "RETURN" => pc # Len(Code)
  BY <1>4, <1>9
<1>11. Instruction.op \in JumpOps => Instruction.to \in Nat /\ Instruction.to <= Len(Code)
  <2>1. Instruction.op \in JumpOps => Instruction.to <= Len(Code)
    BY <1>2, <1>8, <1>9 DEF Finished
  <2> QED BY <1>9, <2>1, JumpFacts
<1> QED BY <1>1, <1>2, <1>3, <1>4, <1>6, <1>8, <1>9, <1>10, <1>11

\* A step of the machine.
LEMMA StepRuns ==
  ASSUME CodeInv, NEW ops, Runs(ops), machine' \in MachineType, machine'.pc <= Len(Code)
  PROVE  CodeInv'
<1>1. /\ Finished /\ compilers' = compilers /\ open' = open /\ produced' = produced /\ open = <<>>
  BY RunningFacts
<1>2. Code' = Code
  BY <1>1 DEF Code
<1>3. Finished'
  BY <1>1, <1>2 DEF Finished
<1> QED BY <1>1, <1>3 DEF CodeInv

\* A stack that is cut is one.
LEMMA CutFacts ==
  ASSUME NEW s \in Seq(Nat), NEW k \in Int, k <= Len(s)
  PROVE  SubSeq(s, 1, k) \in Seq(Nat)
<1>1. CASE k >= 1
  BY <1>1
<1>2. CASE ~ (k >= 1)
  <2>1. SubSeq(s, 1, k) = <<>>
    BY <1>2
  <2> QED BY <2>1
<1> QED BY <1>1, <1>2

\* What the instructions do to the stack.
LEMMA StackFacts ==
  ASSUME machine \in MachineType
  PROVE  /\ machine.stack \in Seq(Nat) /\ machine.captured \subseteq Nat /\ machine.files \subseteq Nat
         /\ Front(machine.stack) \in Seq(Nat)
         /\ SubSeq(machine.stack, 1, Len(machine.stack) - 2) \in Seq(Nat)
         /\ \A id \in Nat :
              /\ Append(machine.stack, id) \in Seq(Nat)
              /\ Append(SubSeq(machine.stack, 1, Len(machine.stack) - 2), id) \in Seq(Nat)
<1>1. PICK s : s = machine.stack
  OBVIOUS
<1>2. s \in Seq(Nat) /\ machine.captured \subseteq Nat /\ machine.files \subseteq Nat
  BY <1>1 DEF MachineType
<1>3. Front(s) = SubSeq(s, 1, Len(s) - 1)
  BY DEF Front
<1>4. /\ Len(s) - 1 \in Int /\ Len(s) - 1 <= Len(s) /\ Len(s) - 2 \in Int /\ Len(s) - 2 <= Len(s)
  BY <1>2
<1>5. Front(s) \in Seq(Nat) /\ SubSeq(s, 1, Len(s) - 2) \in Seq(Nat)
  BY <1>2, <1>3, <1>4, CutFacts
<1>6. \A id \in Nat : Append(s, id) \in Seq(Nat) /\ Append(SubSeq(s, 1, Len(s) - 2), id) \in Seq(Nat)
  BY <1>2, <1>5, AppendFacts
<1> QED BY <1>1, <1>2, <1>5, <1>6

\* An instruction changes program counter and stack.
LEMMA StepGoes ==
  ASSUME CodeInv, NEW ops, Runs(ops), NEW pc \in Nat, pc <= Len(Code), NEW stack \in Seq(Nat),
         Goes(pc, stack)
  PROVE  CodeInv'
<1>1. machine \in MachineType
  BY RunningFacts
<1>2. machine' = [machine EXCEPT !.pc = pc, !.stack = stack]
  BY DEF Goes
<1>3. machine' \in MachineType /\ machine'.pc = pc
  BY <1>1, <1>2 DEF MachineType
<1> QED BY <1>3, StepRuns

\* An instruction changes the machine, and the next one follows.
LEMMA StepAdvances ==
  ASSUME CodeInv, NEW ops, Runs(ops), "RETURN" \notin ops, NEW stack \in Seq(Nat),
         NEW captured \in SUBSET Nat, NEW files \in SUBSET Nat,
         machine' = [pc |-> machine.pc + 1, stack |-> stack, captured |-> captured, files |-> files]
  PROVE  CodeInv'
<1>1. machine.pc + 1 \in Nat /\ machine.pc + 1 <= Len(Code)
  BY RunningFacts
<1>2. machine' \in MachineType /\ machine'.pc = machine.pc + 1
  BY <1>1 DEF MachineType
<1> QED BY <1>1, <1>2, StepRuns

\* The machine's record, with fields replaced.
LEMMA MachineIs ==
  ASSUME machine \in MachineType
  PROVE  machine = [pc |-> machine.pc, stack |-> machine.stack, captured |-> machine.captured,
                    files |-> machine.files]
BY DEF MachineType

\* PUSH, GET_LOCAL, GET_UPVALUE and GET_MODULE.
LEMMA PushesKeeps ==
  ASSUME CodeInv, Pushes
  PROVE  CodeInv'
<1>1. PICK ops : ops = {"PUSH", "GET_LOCAL", "GET_UPVALUE", "GET_MODULE"}
  OBVIOUS
<1>2. Runs(ops) /\ Goes(machine.pc + 1, Append(machine.stack, Instruction.id))
  BY <1>1 DEF Pushes
<1>3. /\ Instruction \in Instr /\ Instruction.op \in ops /\ machine \in MachineType
      /\ machine.pc + 1 \in Nat /\ machine.pc + 1 <= Len(Code)
  BY <1>1, <1>2, RunningFacts
<1>4. Instruction.id \in Nat
  BY <1>1, <1>3 DEF Instr, JumpOps
<1>5. Append(machine.stack, Instruction.id) \in Seq(Nat)
  BY <1>3, <1>4, StackFacts
<1> QED BY <1>2, <1>3, <1>5, StepGoes

\* SET_LOCAL, SET_UPVALUE, SET_MODULE, and POP.
LEMMA AssignsKeeps ==
  ASSUME CodeInv, Assigns \/ Pops
  PROVE  CodeInv'
<1>1. PICK ops, stack : /\ ops \in {{"SET_LOCAL", "SET_UPVALUE", "SET_MODULE"}, {"POP"}}
                        /\ stack \in {machine.stack, Front(machine.stack)}
                        /\ Runs(ops) /\ Goes(machine.pc + 1, stack)
  BY DEF Assigns, Pops
<1>2. Instruction.op \in ops /\ machine \in MachineType /\ machine.pc + 1 \in Nat
      /\ (Instruction.op # "RETURN" => machine.pc + 1 <= Len(Code))
  BY <1>1, RunningFacts
<1>3. Instruction.op # "RETURN"
  BY <1>1, <1>2
<1>4. stack \in Seq(Nat)
  BY <1>1, <1>2, StackFacts
<1> QED BY <1>1, <1>2, <1>3, <1>4, StepGoes

\* CLOSE_UPVALUE
LEMMA ClosesUpvalueKeeps ==
  ASSUME CodeInv, ClosesUpvalue
  PROVE  CodeInv'
<1>1. PICK ops : ops = {"CLOSE_UPVALUE"}
  OBVIOUS
<1>2. Runs(ops)
  BY <1>1 DEF ClosesUpvalue
<1>3. machine \in MachineType
  BY <1>2, RunningFacts
<1>4. PICK stack, captured : /\ stack = Front(machine.stack)
                             /\ captured = machine.captured \ {Len(machine.stack)}
  OBVIOUS
<1>5. machine' = [pc |-> machine.pc + 1, stack |-> stack, captured |-> captured,
                  files |-> machine.files]
  BY <1>3, <1>4, MachineIs DEF ClosesUpvalue
<1>6. stack \in Seq(Nat) /\ captured \in SUBSET Nat /\ machine.files \in SUBSET Nat
  BY <1>3, <1>4, StackFacts
<1>7. "RETURN" \notin ops
  BY <1>1
<1> QED BY <1>2, <1>5, <1>6, <1>7, StepAdvances

\* CLOSURE
LEMMA ClosureKeeps ==
  ASSUME CodeInv, Closure
  PROVE  CodeInv'
<1>1. PICK ops : ops = {"CLOSURE"}
  OBVIOUS
<1>2. Runs(ops)
  BY <1>1 DEF Closure
<1>3. machine \in MachineType /\ Instruction \in Instr /\ Instruction.op \in ops
  BY <1>2, RunningFacts
<1>4. Instruction.upvalues \in Seq(Upvalue) /\ Instruction.id \in Nat
  BY <1>1, <1>3 DEF Instr, JumpOps
<1>5. PICK stack, captured : /\ stack = Append(machine.stack, Instruction.id)
                             /\ captured = machine.captured \cup {u.index : u \in LocalUpvalues}
  OBVIOUS
<1>6. machine' = [pc |-> machine.pc + 1, stack |-> stack, captured |-> captured,
                  files |-> machine.files]
  BY <1>3, <1>5, MachineIs DEF Closure
<1>7. {u.index : u \in LocalUpvalues} \subseteq Nat
  <2>1. ASSUME NEW u \in LocalUpvalues PROVE u.index \in Nat
    <3>1. u \in Range(Instruction.upvalues)
      BY DEF LocalUpvalues
    <3>2. u \in Upvalue
      BY <1>4, <3>1 DEF Range
    <3> QED BY <3>2 DEF Upvalue
  <2> QED BY <2>1
<1>8. stack \in Seq(Nat) /\ captured \in SUBSET Nat /\ machine.files \in SUBSET Nat
  BY <1>3, <1>4, <1>5, <1>7, StackFacts
<1>9. "RETURN" \notin ops
  BY <1>1
<1> QED BY <1>2, <1>6, <1>8, <1>9, StepAdvances

\* CALL
LEMMA CallKeeps ==
  ASSUME CodeInv, Call
  PROVE  CodeInv'
<1>1. PICK ops : ops = {"CALL"}
  OBVIOUS
<1>2. Runs(ops)
  BY <1>1 DEF Call
<1>3. machine \in MachineType /\ Instruction \in Instr /\ Instruction.op \in ops
  BY <1>2, RunningFacts
<1>4. Instruction.id \in Nat
  BY <1>1, <1>3 DEF Instr, JumpOps
<1>5. (Len(machine.stack) - 1) - 1 = Len(machine.stack) - 2
  <2>1. Len(machine.stack) \in Nat
    BY <1>3 DEF MachineType
  <2> QED BY <2>1
<1>6. PICK stack, captured :
        /\ stack = Append(SubSeq(machine.stack, 1, Len(machine.stack) - 2), Instruction.id)
        /\ captured = {i \in machine.captured : i < Len(machine.stack) - 1}
  OBVIOUS
<1>7. machine' = [pc |-> machine.pc + 1, stack |-> stack, captured |-> captured,
                  files |-> machine.files]
  BY <1>3, <1>5, <1>6, MachineIs DEF Call
<1>8. stack \in Seq(Nat) /\ captured \in SUBSET Nat /\ machine.files \in SUBSET Nat
  BY <1>3, <1>4, <1>6, StackFacts
<1>9. "RETURN" \notin ops
  BY <1>1
<1> QED BY <1>2, <1>7, <1>8, <1>9, StepAdvances

\* A jump, or none.
LEMMA StepJumps ==
  ASSUME CodeInv, NEW op \in JumpOps, Runs({op}), NEW pc \in {machine.pc + 1, Instruction.to},
         NEW stack \in {machine.stack, Front(machine.stack),
                       SubSeq(machine.stack, 1, Len(machine.stack) - 2)},
         Goes(pc, stack)
  PROVE  CodeInv'
<1>1. PICK ops : ops = {op} /\ Runs(ops)
  OBVIOUS
<1>2. /\ Instruction.op \in ops /\ machine \in MachineType /\ machine.pc + 1 \in Nat
      /\ (Instruction.op # "RETURN" => machine.pc + 1 <= Len(Code))
      /\ (Instruction.op \in JumpOps => Instruction.to \in Nat /\ Instruction.to <= Len(Code))
  BY <1>1, RunningFacts
<1>3. Instruction.op # "RETURN" /\ Instruction.op \in JumpOps
  BY <1>1, <1>2 DEF JumpOps
<1>4. stack \in Seq(Nat)
  BY <1>2, StackFacts
<1>5. pc \in Nat /\ pc <= Len(Code)
  BY <1>2, <1>3
<1> QED BY <1>1, <1>4, <1>5, StepGoes

\* JUMP, JUMP_IF_FALSE and COMPARE_JUMP.
LEMMA JumpsKeeps ==
  ASSUME CodeInv, Jumps \/ JumpsIfFalse \/ Compares
  PROVE  CodeInv'
<1>0. "JUMP" \in JumpOps /\ "JUMP_IF_FALSE" \in JumpOps /\ "COMPARE_JUMP" \in JumpOps
  BY DEF JumpOps
<1>1. CASE Jumps
  <2>1. Runs({"JUMP"}) /\ Goes(Instruction.to, machine.stack)
    BY <1>1 DEF Jumps
  <2> QED BY <1>0, <2>1, StepJumps
<1>2. CASE JumpsIfFalse
  <2>1. PICK pc \in {machine.pc + 1, Instruction.to} :
          Runs({"JUMP_IF_FALSE"}) /\ Goes(pc, machine.stack)
    BY <1>2 DEF JumpsIfFalse
  <2> QED BY <1>0, <2>1, StepJumps
<1>3. CASE Compares
  <2>1. /\ Runs({"COMPARE_JUMP"})
        /\ \/ Goes(machine.pc + 1, SubSeq(machine.stack, 1, Len(machine.stack) - 2))
           \/ Goes(Instruction.to, Front(machine.stack))
    BY <1>3 DEF Compares
  <2>2. CASE Goes(machine.pc + 1, SubSeq(machine.stack, 1, Len(machine.stack) - 2))
    BY <1>0, <2>1, <2>2, StepJumps
  <2>3. CASE Goes(Instruction.to, Front(machine.stack))
    BY <1>0, <2>1, <2>3, StepJumps
  <2> QED BY <2>1, <2>2, <2>3
<1> QED BY <1>1, <1>2, <1>3

\* OPEN_FILE
LEMMA OpensFileKeeps ==
  ASSUME CodeInv, OpensFile
  PROVE  CodeInv'
<1>1. PICK ops : ops = {"OPEN_FILE"}
  OBVIOUS
<1>2. Runs(ops)
  BY <1>1 DEF OpensFile
<1>3. machine \in MachineType /\ Instruction \in Instr /\ Instruction.op \in ops
  BY <1>2, RunningFacts
<1>4. Instruction.id \in Nat
  BY <1>1, <1>3 DEF Instr, JumpOps
<1>5. PICK stack, files :
        /\ stack = Append(SubSeq(machine.stack, 1, Len(machine.stack) - 2), Instruction.id)
        /\ files = machine.files \cup {Instruction.id}
  OBVIOUS
<1>6. machine' = [pc |-> machine.pc + 1, stack |-> stack, captured |-> machine.captured,
                  files |-> files]
  BY <1>3, <1>5, MachineIs DEF OpensFile
<1>7. stack \in Seq(Nat) /\ machine.captured \in SUBSET Nat /\ files \in SUBSET Nat
  BY <1>3, <1>4, <1>5, StackFacts
<1>8. "RETURN" \notin ops
  BY <1>1
<1> QED BY <1>2, <1>6, <1>7, <1>8, StepAdvances

\* CLOSE_FILE
LEMMA ClosesFileKeeps ==
  ASSUME CodeInv, ClosesFile
  PROVE  CodeInv'
<1>1. PICK ops : ops = {"CLOSE_FILE"}
  OBVIOUS
<1>2. Runs(ops)
  BY <1>1 DEF ClosesFile
<1>3. machine \in MachineType
  BY <1>2, RunningFacts
<1>4. PICK files : files = machine.files \ {machine.stack[Instruction.slot]}
  OBVIOUS
<1>5. machine' = [pc |-> machine.pc + 1, stack |-> machine.stack, captured |-> machine.captured,
                  files |-> files]
  BY <1>3, <1>4, MachineIs DEF ClosesFile
<1>6. machine.stack \in Seq(Nat) /\ machine.captured \in SUBSET Nat /\ files \in SUBSET Nat
  BY <1>3, <1>4, StackFacts
<1>7. "RETURN" \notin ops
  BY <1>1
<1> QED BY <1>2, <1>5, <1>6, <1>7, StepAdvances

\* RETURN
LEMMA ReturnsKeeps ==
  ASSUME CodeInv, Returns
  PROVE  CodeInv'
<1>1. PICK ops : ops = {"RETURN"}
  OBVIOUS
<1>2. Runs(ops) /\ Goes(0, machine.stack)
  BY <1>1 DEF Returns
<1>3. machine \in MachineType /\ Finished
  BY <1>2, RunningFacts
<1>4. 0 <= Len(Code)
  <2>1. IsSound(compilers[1])
    BY <1>3 DEF Finished
  <2>2. Len(Code) \in Nat
    BY <2>1, CompilerFacts DEF Code
  <2> QED BY <2>2
<1>5. machine.stack \in Seq(Nat)
  BY <1>3, StackFacts
<1> QED BY <1>2, <1>4, <1>5, StepGoes

\* The machine keeps the invariant.
LEMMA MachineKeeps ==
  ASSUME CodeInv, Machine
  PROVE  CodeInv'
BY PushesKeeps, AssignsKeeps, ClosesUpvalueKeeps, ClosureKeeps, CallKeeps, JumpsKeeps,
   OpensFileKeeps, ClosesFileKeeps, ReturnsKeeps DEF Machine

\* The parser keeps it.
LEMMA ParserKeeps ==
  ASSUME CodeInv, Parser
  PROVE  CodeInv'
<1>1. ASSUME NEW n \in Name, Use(n) \/ Assign(n) \/ ClassDeclaration(n) \/ WithStatement(n)
      PROVE  CodeInv'
  BY <1>1, UseKeeps, AssignKeeps, ClassDeclarationKeeps, WithStatementKeeps
<1>2. ASSUME NEW n \in Name, NEW m \in Name, VarFromName(n, m)
      PROVE  CodeInv'
  BY <1>2, VarFromNameKeeps
<1>3. ASSUME NEW n \in Name, NEW b \in BOOLEAN, VarDeclaration(n, b) \/ ForStatement(n, b)
      PROVE  CodeInv'
  BY <1>3, VarDeclarationKeeps, ForStatementKeeps
<1>4. ASSUME NEW n \in Name, NEW a \in BOOLEAN, NEW b \in BOOLEAN, BeginFunction(n, a, b)
      PROVE  CodeInv'
  BY <1>4, BeginFunctionKeeps
<1>5. CASE EndFunction \/ ReturnStatement \/ BreakStatement \/ ContinueStatement
  BY <1>5, EndFunctionKeeps, ReturnStatementKeeps, LeavingKeeps
<1>6. CASE Block \/ WhileStatement \/ IfStatement \/ SwitchStatement
  BY <1>6, BlockKeeps, WhileStatementKeeps, IfStatementKeeps, SwitchStatementKeeps
<1>7. CASE EndBlock \/ EndWhile \/ EndFor \/ EndRest \/ EndWith \/ EndProgram
  BY <1>7, EndBlockKeeps, EndWhileKeeps, EndForKeeps, EndRestKeeps, EndWithKeeps, EndProgramKeeps
<1>8. ASSUME NEW b \in BOOLEAN, EndThen(b) PROVE CodeInv'
  BY <1>8, EndThenKeeps
<1>9. ASSUME NEW next \in {"case", "default", "end"}, EndCase(next) PROVE CodeInv'
  BY <1>9, EndCaseKeeps
<1> QED BY <1>1, <1>2, <1>3, <1>4, <1>5, <1>6, <1>7, <1>8, <1>9 DEF Parser

\* It holds at first.
LEMMA CodeStarts ==
  ASSUME Init
  PROVE  CodeInv
<1>1. PICK c, depth :
        /\ depth \in {0, 1} /\ IsSound(c) /\ c.loop = <<>> /\ c.scopeDepth = depth
        /\ compilers = <<c>> /\ env \in Seq([Name -> Nat]) /\ Len(env) = depth
  <2>1. CASE compilers = <<NewCompiler("top level")>> /\ env = <<>>
    <3>1. PICK c : c = NewCompiler("top level")
      OBVIOUS
    <3>2. IsSound(c) /\ c.loop = <<>> /\ c.scopeDepth = 0
      BY <3>1, NewCompilerFacts
    <3>3. compilers = <<c>> /\ env = <<>>
      BY <2>1, <3>1
    <3>4. env \in Seq([Name -> Nat]) /\ Len(env) = 0
      BY <3>3
    <3> QED BY <3>2, <3>3, <3>4
  <2>2. ASSUME NEW n \in Name,
               compilers = <<DefineVariable(AddLocal(NewCompiler("function"), n, 1), FALSE)>>,
               env = <<[NoNames EXCEPT ![n] = 1]>>
        PROVE  \E c, depth :
                 /\ depth \in {0, 1} /\ IsSound(c) /\ c.loop = <<>> /\ c.scopeDepth = depth
                 /\ compilers = <<c>> /\ env \in Seq([Name -> Nat]) /\ Len(env) = depth
    <3>1. PICK b : b = NewCompiler("function")
      OBVIOUS
    <3>2. IsSound(b) /\ b.loop = <<>> /\ b.scopeDepth = 1
      BY <3>1, NewCompilerFacts
    <3>3. PICK a : a = AddLocal(b, n, 1)
      OBVIOUS
    <3>4. DeclareVariable(b, n, 1) = a
      BY <3>2, <3>3 DEF DeclareVariable
    <3>5. Like(b, a) /\ a.loop = b.loop /\ Len(a.locals) >= 2
      BY <3>2, <3>4, DeclareFacts
    <3>6. IsSound(a) /\ a.scopeDepth = 1 /\ a.loop = <<>>
      BY <3>2, <3>5 DEF Like
    <3>7. PICK c : c = DefineVariable(a, FALSE)
      OBVIOUS
    <3>8. IsSound(c) /\ c.loop = <<>> /\ c.scopeDepth = 1
      <4>1. a.scopeDepth # 0 => Len(a.locals) >= 2
        BY <3>5
      <4>2. IsSound(c) /\ c.loop = a.loop /\ c.scopeDepth = a.scopeDepth
        BY <3>6, <3>7, <4>1, DefineFacts
      <4> QED BY <3>6, <4>2
    <3>9. [NoNames EXCEPT ![n] = 1] \in [Name -> Nat]
      BY DEF NoNames, Undeclared
    <3>10. env \in Seq([Name -> Nat]) /\ Len(env) = 1
      BY <2>2, <3>9
    <3> QED BY <2>2, <3>1, <3>3, <3>7, <3>8, <3>10
  <2>3. \/ compilers = <<NewCompiler("top level")>> /\ env = <<>>
        \/ \E n \in Name :
             /\ compilers = <<DefineVariable(AddLocal(NewCompiler("function"), n, 1), FALSE)>>
             /\ env = <<[NoNames EXCEPT ![n] = 1]>>
    BY DEF Init
  <2> QED BY <2>1, <2>2, <2>3
<1>2. PICK m : m = [level |-> 1, depth |-> depth, loops |-> 0, scopes |-> depth]
  OBVIOUS
<1>3. m \in Mark /\ m.level = 1 /\ m.loops = 0 /\ m.scopes = depth /\ m.depth = depth
  <2>1. depth \in Nat
    BY <1>1
  <2> QED BY <1>2, <2>1 DEF Mark
<1>4. PICK entry : entry = [kind |-> "program"]
  OBVIOUS
<1>5. entry \in Entry /\ entry.kind = "program" /\ open = <<entry>>
  BY <1>4 DEF Init, Entry
<1>6. PICK ms : ms = <<m>>
  OBVIOUS
<1>7. ms \in Seq(Mark) /\ Len(ms) = 1 /\ ms[1] = m
  BY <1>3, <1>6
<1>8. open \in Seq(Entry) /\ Len(open) = 1 /\ open[1] = entry /\ 2 .. Len(open) = {} /\ open # <<>>
  BY <1>5
<1>9. compilers \in Seq(Compiler) /\ Len(compilers) = 1 /\ compilers[1] = c /\ DOMAIN compilers = {1}
  <2>1. c \in Compiler
    BY <1>1 DEF IsSound
  <2> QED BY <1>1, <2>1
<1>10. CompilerFits(c, m)
  BY <1>1, <1>3 DEF CompilerFits
<1>11. Parsed(ms, compilers, open, env)
  <2>1. \A l \in DOMAIN compilers : IsSound(compilers[l])
    BY <1>1, <1>9
  <2>2. Len(open) >= 1 /\ Len(ms) = Len(open) /\ open[1].kind = "program"
    BY <1>5, <1>7, <1>8
  <2>3. /\ ms[1].level = 1 /\ ms[1].loops = 0 /\ ms[1].scopes = ms[1].depth
        /\ Len(compilers) = ms[Len(open)].level /\ Len(env) = ms[Len(open)].scopes
        /\ CompilerFits(compilers[Len(compilers)], ms[Len(open)])
    BY <1>1, <1>3, <1>7, <1>8, <1>9, <1>10
  <2> QED BY <1>1, <1>7, <1>8, <1>9, <2>1, <2>2, <2>3 DEF Parsed
<1>12. machine = NotStarted /\ produced \in Nat
  BY DEF Init
<1> QED BY <1>8, <1>11, <1>12 DEF CodeInv

\* The invariant, for every grammar and whatever the names.
THEOREM CodeInvariance == Spec => []CodeInv
<1>1. Init => CodeInv
  BY CodeStarts
<1>2. CodeInv /\ [Next]_vars => CodeInv'
  <2> SUFFICES ASSUME CodeInv, [Next]_vars PROVE CodeInv'
    OBVIOUS
  <2>1. CASE Next
    BY <2>1, ParserKeeps, MachineKeeps DEF Next
  <2>2. CASE UNCHANGED vars
    <3>1. /\ compilers' = compilers /\ open' = open /\ env' = env /\ produced' = produced
          /\ machine' = machine
      BY <2>2 DEF vars
    <3>2. Code' = Code /\ NotStarted' = NotStarted
      BY <3>1 DEF Code, NotStarted
    <3> QED BY <3>1, <3>2 DEF CodeInv, Finished
  <2> QED BY <2>1, <2>2
<1> QED BY <1>1, <1>2, PTL DEF Spec

\* The types of the compilers and of the machine.
THEOREM ScopesTypeCorrect == Spec => []TypeOK
<1>1. ASSUME CodeInv PROVE TypeOK
  <2>1. /\ \A l \in DOMAIN compilers : IsSound(compilers[l])
        /\ compilers \in Seq(Compiler) /\ Len(compilers) >= 1
        /\ machine = NotStarted \/ (machine \in MachineType /\ machine.pc <= Len(Code))
    <3>1. CASE open # <<>>
      <4>1. PICK ms : Parsed(ms, compilers, open, env)
        BY <1>1, <3>1 DEF CodeInv
      <4> QED BY <1>1, <3>1, <4>1, MarkFacts DEF CodeInv, Parsed
    <3>2. CASE open = <<>>
      <4>1. Finished
        BY <1>1, <3>2 DEF CodeInv
      <4>2. \A l \in DOMAIN compilers : l = 1
        BY <4>1 DEF Finished
      <4> QED BY <4>1, <4>2 DEF Finished
    <3> QED BY <3>1, <3>2
  <2>2. ASSUME NEW c \in Range(compilers)
        PROVE  /\ c.locals \in Seq(Local) /\ c.upvalues \in Seq(Upvalue)
               /\ c.scopeDepth \in Nat /\ c.isFile \subseteq Nat
    <3>1. IsSound(c)
      BY <2>1 DEF Range
    <3> QED BY <3>1, CompilerFacts
  <2>3. IsSound(compilers[1])
    BY <2>1
  <2>4. Len(Code) \in Nat
    BY <2>3, CompilerFacts DEF Code
  <2>5. /\ machine.pc \in 0 .. Len(Code)
        /\ machine.stack \in Seq(Nat) /\ machine.files \subseteq Nat /\ machine.captured \subseteq Nat
    <3>1. CASE machine = NotStarted
      BY <2>4, <3>1 DEF NotStarted
    <3>2. CASE machine \in MachineType /\ machine.pc <= Len(Code)
      BY <2>4, <3>2 DEF MachineType
    <3> QED BY <2>1, <3>1, <3>2
  <2> QED BY <2>2, <2>5 DEF TypeOK, Code
<1> QED BY <1>1, CodeInvariance, PTL

\* endLoop has turned every break into a jump, in whatever loops of whatever functions:
\* the machine never comes to an instruction that is not one.
THEOREM BreaksTurned == Spec => []BreaksJump
<1>1. ASSUME CodeInv PROVE BreaksJump
  <2> SUFFICES ASSUME Running PROVE Instruction.op # "BREAK"
    BY DEF BreaksJump
  <2>1. Finished
    BY <1>1 DEF CodeInv, Running
  <2>2. PICK pc : pc = machine.pc
    OBVIOUS
  <2>3. pc \in Nat /\ pc # 0 /\ pc <= Len(Code) /\ Len(Code) \in Nat /\ DOMAIN Code = 1 .. Len(Code)
    BY <2>1, <2>2, CompilerFacts DEF Finished, MachineType, Running, Code
  <2>4. pc \in DOMAIN Code
    BY <2>3
  <2> QED BY <2>1, <2>2, <2>4 DEF Finished, Instruction, Code
<1> QED BY <1>1, CodeInvariance, PTL

=============================================================================
