---------------------------- MODULE ImportsProofs ---------------------------
(***************************************************************************)
(* Proofs about Imports, for any set of files, any depth of calls and any  *)
(* order of imports: a file's code runs once, however files import each    *)
(* other, and an import binds the module it names.                         *)
(***************************************************************************)
EXTENDS Imports, SequenceTheorems, TLAPS

\* A module is being run by a frame of its own or has been run.
Loaded ==
  \A m \in modules : m \in executed \/ \E k \in DOMAIN frames : frames[k].body /\ frames[k].module = m

\* A file's frame is on that of the import that runs it; a function's is not on
\* an import, and imports nothing.
Nested ==
  \A k \in DOMAIN frames :
    /\ k = 1 => frames[k].body
    /\ k # 1 => frames[k - 1].importing = IF frames[k].body THEN frames[k].module ELSE None
    /\ ~ frames[k].body => frames[k].importing = None

\* The frame b is the last that runs the top-level code of a file.
IsFileFrame(b, fs) ==
  b \in DOMAIN fs /\ fs[b].body /\ \A k \in DOMAIN fs : k > b => ~ fs[k].body

\* The register holds the file that the import under way names or, between two
\* imports, the one whose code runs; the script's own place in it is not needed.
Register ==
  frames # <<>> =>
    IF frames[Last].importing # None THEN lastModule = frames[Last].importing
    ELSE \E b \in DOMAIN frames : IsFileFrame(b, frames) /\ (b = 1 \/ lastModule = frames[b].module)

IInv == /\ TypeOK /\ RunsOnce /\ Loaded
        /\ ~ LateImports => Nested /\ Register

----------------------------------------------------------------------------
(* Frames. *)

Frames(known) == [module : known, body : BOOLEAN, importing : Files \cup {None}]

\* Frames stay frames when more modules are known.
LEMMA MoreModules ==
  ASSUME NEW known, NEW more, known \subseteq more, NEW s \in Seq(Frames(known))
  PROVE  s \in Seq(Frames(more))
<1>1. Frames(known) \subseteq Frames(more)
  BY DEF Frames
<1> QED BY <1>1, SeqMonotonic

\* A frame is put on top of the others.
LEMMA Pushed ==
  ASSUME NEW S, NEW s \in Seq(S), NEW x \in S
  PROVE  /\ Append(s, x) \in Seq(S) /\ Append(s, x) # <<>>
         /\ Len(Append(s, x)) = Len(s) + 1 /\ DOMAIN Append(s, x) = 1 .. Len(s) + 1
         /\ Append(s, x)[Len(s) + 1] = x
         /\ \A k \in 1 .. Len(s) : Append(s, x)[k] = s[k]
  BY AppendProperties, LenProperties

\* The topmost frame is taken away.
LEMMA Popped ==
  ASSUME NEW S, NEW s \in Seq(S), s # <<>>
  PROVE  /\ SubSeq(s, 1, Len(s) - 1) \in Seq(S)
         /\ Len(SubSeq(s, 1, Len(s) - 1)) = Len(s) - 1
         /\ DOMAIN SubSeq(s, 1, Len(s) - 1) = 1 .. Len(s) - 1
         /\ \A k \in 1 .. Len(s) - 1 : SubSeq(s, 1, Len(s) - 1)[k] = s[k]
<1>1. Len(s) \in Nat \ {0} /\ \A k \in 1 .. Len(s) - 1 : s[k] \in S
  BY EmptySeq, ElementOfSeq
<1>2. /\ SubSeq(s, 1, Len(s) - 1) \in Seq(S)
      /\ Len(SubSeq(s, 1, Len(s) - 1)) = Len(s) - 1
      /\ \A k \in 1 .. Len(s) - 1 : SubSeq(s, 1, Len(s) - 1)[k] = s[k]
  <2> DEFINE n == Len(s) - 1
  <2>1. 1 \in Int /\ n \in Int /\ (\A k \in 1 .. n : s[k] \in S) /\ n \in Nat
    BY <1>1
  <2> HIDE DEF n
  <2>2. /\ SubSeq(s, 1, n) \in Seq(S)
        /\ Len(SubSeq(s, 1, n)) = IF 1 <= n THEN n - 1 + 1 ELSE 0
        /\ \A k \in 1 .. n - 1 + 1 : SubSeq(s, 1, n)[k] = s[1 + k - 1]
    BY <2>1, SubSeqProperties
  <2>3. Len(SubSeq(s, 1, n)) = n /\ \A k \in 1 .. n : SubSeq(s, 1, n)[k] = s[k]
    BY <2>1, <2>2
  <2> QED BY <2>2, <2>3 DEF n
<1> QED BY <1>2, LenProperties

Turn(fs, m) == [fs EXCEPT ![Len(fs)].importing = m]

\* The topmost frame turns to an import, or back from one.
LEMMA Turned ==
  ASSUME NEW known, NEW s \in Seq(Frames(known)), s # <<>>, NEW m \in Files \cup {None}
  PROVE  LET t == Turn(s, m)
         IN /\ t \in Seq(Frames(known)) /\ t # <<>> /\ Len(t) = Len(s) /\ DOMAIN t = DOMAIN s
            /\ \A k \in DOMAIN s : t[k].module = s[k].module /\ t[k].body = s[k].body
            /\ t[Len(s)].importing = m
            /\ \A k \in DOMAIN s : k # Len(s) => t[k] = s[k]
<1> DEFINE top == [s[Len(s)] EXCEPT !.importing = m]
           t == [s EXCEPT ![Len(s)] = top]
<1>1. Len(s) \in Nat \ {0} /\ DOMAIN s = 1 .. Len(s)
  BY EmptySeq, LenProperties
<1>2. s[Len(s)] \in Frames(known)
  BY <1>1, ElementOfSeq
<1>3. /\ top \in Frames(known) /\ top.importing = m
      /\ top.module = s[Len(s)].module /\ top.body = s[Len(s)].body
  BY <1>2 DEF Frames
<1> HIDE DEF top
<1>4. /\ t \in Seq(Frames(known)) /\ Len(t) = Len(s)
      /\ \A j \in 1 .. Len(s) : t[j] = IF j = Len(s) THEN top ELSE s[j]
  BY <1>1, <1>3, ExceptSeq
<1>5. t # <<>> /\ DOMAIN t = DOMAIN s
  BY <1>1, <1>4, LenProperties
<1> QED BY <1>1, <1>3, <1>4, <1>5 DEF top, Turn

----------------------------------------------------------------------------
(* Steps. *)

\* The script runs in the first frame.
LEMMA InitHolds == Init => IInv
<1> SUFFICES ASSUME Init PROVE IInv
  OBVIOUS
<1> DEFINE script == Frame(Main, TRUE)
<1>1. /\ modules = {Main} /\ lastModule = None /\ executed = {} /\ bound = None
      /\ frames = <<script>>
  BY DEF Init
<1>2. /\ script \in Frames(modules) /\ script.body /\ script.module = Main
      /\ script.importing = None
  BY <1>1 DEF Frame, Frames
<1>3. /\ frames \in Seq(Frames(modules)) /\ DOMAIN frames = {1} /\ Last = 1
      /\ frames[1] = script
  <2> HIDE DEF script
  <2> QED BY <1>1, <1>2 DEF Last
<1> HIDE DEF script
<1>4. TypeOK
  BY <1>1, <1>3 DEF TypeOK, Frames
<1>5. RunsOnce
  BY <1>1, <1>3 DEF RunsOnce
<1>6. Loaded
  BY <1>1, <1>2, <1>3 DEF Loaded
<1>7. Nested
  BY <1>2, <1>3 DEF Nested
<1>8. Register
  BY <1>2, <1>3 DEF Register, IsFileFrame
<1> QED BY <1>4, <1>5, <1>6, <1>7, <1>8 DEF IInv

\* What the invariant says of the frames.
LEMMA FrameFacts ==
  ASSUME IInv, frames # <<>>
  PROVE  /\ frames \in Seq(Frames(modules)) /\ Last \in Nat \ {0} /\ DOMAIN frames = 1 .. Last
         /\ \A k \in DOMAIN frames : /\ frames[k].module \in modules /\ frames[k].body \in BOOLEAN
                                     /\ frames[k].importing \in Files \cup {None}
<1>1. frames \in Seq(Frames(modules))
  BY DEF IInv, TypeOK, Frames
<1>2. Last \in Nat \ {0} /\ DOMAIN frames = 1 .. Last
  BY <1>1, EmptySeq, LenProperties DEF Last
<1>3. \A k \in DOMAIN frames : frames[k] \in Frames(modules)
  BY <1>1, <1>2, ElementOfSeq DEF Last
<1> QED BY <1>1, <1>2, <1>3 DEF Frames

\* An import runs a file that is not known yet, so no frame is the file's.
LEMMA ImportFileStep ==
  ASSUME IInv, NEW m \in Files, ImportFile(m)
  PROVE  IInv'
<1> DEFINE turned == Turn(frames, m)
           file == Frame(m, TRUE)
<1>1. /\ frames # <<>> /\ frames[Last].importing = None /\ m \notin modules
      /\ ~ LateImports => frames[Last].body
      /\ modules' = modules \cup {m} /\ lastModule' = m /\ bound' = None /\ executed' = executed
      /\ frames' = Append(turned, file)
  BY DEF ImportFile, Running, IsImported, Registered, Last, Turn
<1>2. /\ frames \in Seq(Frames(modules)) /\ Last \in Nat \ {0} /\ DOMAIN frames = 1 .. Last
      /\ \A k \in DOMAIN frames : frames[k].module \in modules
  BY <1>1, FrameFacts
<1>3. /\ turned \in Seq(Frames(modules)) /\ Len(turned) = Last
      /\ \A k \in 1 .. Last : turned[k].module = frames[k].module /\ turned[k].body = frames[k].body
      /\ \A k \in 1 .. Last : k # Last => turned[k] = frames[k]
      /\ turned[Last].importing = m
  <2>1. /\ turned \in Seq(Frames(modules)) /\ Len(turned) = Len(frames)
        /\ \A k \in DOMAIN frames : turned[k].module = frames[k].module /\ turned[k].body = frames[k].body
        /\ turned[Len(frames)].importing = m
        /\ \A k \in DOMAIN frames : k # Len(frames) => turned[k] = frames[k]
    BY <1>1, <1>2, Turned
  <2> QED BY <1>2, <2>1 DEF Last
<1> HIDE DEF turned
<1>4. /\ file.module = m /\ file.body /\ file.importing = None /\ file \in Frames(modules')
  BY <1>1 DEF Frame, Frames
<1> HIDE DEF file
<1>5. turned \in Seq(Frames(modules'))
  BY <1>1, <1>3, MoreModules
<1>6. /\ frames' \in Seq(Frames(modules')) /\ frames' # <<>> /\ Last' = Last + 1
      /\ DOMAIN frames' = 1 .. Last + 1 /\ frames'[Last + 1] = file
      /\ \A k \in 1 .. Last : frames'[k] = turned[k]
  BY <1>1, <1>3, <1>4, <1>5, Pushed DEF Last
<1>7. m # None
  BY ImportsAssumption
<1>8. TypeOK'
  BY <1>1, <1>6 DEF IInv, TypeOK, Frames
<1>9. RunsOnce'
  <2>1. executed \subseteq modules
    BY DEF IInv, TypeOK
  <2>2. ASSUME NEW k \in DOMAIN frames', NEW n \in DOMAIN frames', frames'[k].body, frames'[n].body,
               frames'[k].module = frames'[n].module
        PROVE  k = n
    BY <1>1, <1>2, <1>3, <1>4, <1>6, <2>2 DEF IInv, RunsOnce
  <2>3. ASSUME NEW k \in DOMAIN frames', frames'[k].body
        PROVE  frames'[k].module \notin executed
    BY <1>1, <1>2, <1>3, <1>4, <1>6, <2>1, <2>3 DEF IInv, RunsOnce
  <2> QED BY <1>1, <2>2, <2>3 DEF RunsOnce
<1>10. Loaded'
  <2> SUFFICES ASSUME NEW n \in modules', n \notin executed
               PROVE  \E k \in DOMAIN frames' : frames'[k].body /\ frames'[k].module = n
    BY <1>1 DEF Loaded
  <2>1. CASE n = m
    BY <1>2, <1>4, <1>6, <2>1
  <2>2. CASE n \in modules
    <3>1. PICK k \in DOMAIN frames : frames[k].body /\ frames[k].module = n
      BY <2>2 DEF IInv, Loaded
    <3> QED BY <1>2, <1>3, <1>6, <3>1
  <2> QED BY <1>1, <2>1, <2>2
<1>11. ASSUME ~ LateImports PROVE Nested' /\ Register'
  <2>1. Nested'
    BY <1>1, <1>2, <1>3, <1>4, <1>6, <1>7, <1>11 DEF IInv, Nested
  <2>2. IsFileFrame(Last + 1, frames')
    BY <1>2, <1>4, <1>6 DEF IsFileFrame
  <2>3. Register'
    BY <1>1, <1>2, <1>4, <1>6, <1>7, <2>2 DEF Register
  <2> QED BY <2>1, <2>3
<1> QED BY <1>8, <1>9, <1>10, <1>11 DEF IInv

\* Frames whose modules and code are the same: what depends on those only.
LEMMA SameCode ==
  ASSUME RunsOnce, Loaded, UNCHANGED <<modules, executed>>, DOMAIN frames' = DOMAIN frames,
         \A k \in DOMAIN frames : frames'[k].module = frames[k].module /\ frames'[k].body = frames[k].body
  PROVE  RunsOnce' /\ Loaded'
<1>1. RunsOnce'
  BY DEF RunsOnce
<1>2. Loaded'
  BY DEF Loaded
<1> QED BY <1>1, <1>2

\* A file that is known is found.
LEMMA ImportAgainStep ==
  ASSUME IInv, NEW m \in Files, ImportAgain(m)
  PROVE  IInv'
<1>1. /\ frames # <<>> /\ frames[Last].importing = None /\ m \in modules
      /\ ~ LateImports => frames[Last].body
      /\ lastModule' = m /\ bound' = None /\ UNCHANGED <<modules, executed>>
      /\ frames' = Turn(frames, m)
  BY DEF ImportAgain, Running, IsImported, Found, Last, Turn
<1>2. /\ frames \in Seq(Frames(modules)) /\ Last \in Nat \ {0} /\ DOMAIN frames = 1 .. Last
  BY <1>1, FrameFacts
<1>3. /\ frames' \in Seq(Frames(modules)) /\ frames' # <<>> /\ Last' = Last
      /\ DOMAIN frames' = DOMAIN frames
      /\ \A k \in DOMAIN frames : frames'[k].module = frames[k].module /\ frames'[k].body = frames[k].body
      /\ frames'[Last].importing = m
      /\ \A k \in DOMAIN frames : k # Last => frames'[k] = frames[k]
  BY <1>1, <1>2, Turned DEF Last
<1>4. m # None
  BY ImportsAssumption
<1>5. TypeOK'
  BY <1>1, <1>3 DEF IInv, TypeOK, Frames
<1>6. RunsOnce' /\ Loaded'
  BY <1>1, <1>3, SameCode DEF IInv
<1>7. ASSUME ~ LateImports PROVE Nested' /\ Register'
  <2>1. Nested'
    BY <1>1, <1>2, <1>3, <1>7 DEF IInv, Nested
  <2>2. Register'
    BY <1>1, <1>3, <1>4 DEF Register
  <2> QED BY <2>1, <2>2
<1> QED BY <1>5, <1>6, <1>7 DEF IInv

\* IMPORT_END leaves the register with the module whose code goes on.
LEMMA FinishImportStep ==
  ASSUME IInv, FinishImport
  PROVE  IInv'
<1>1. /\ frames # <<>> /\ frames[Last].importing # None /\ bound' \in {lastModule, None}
      /\ lastModule' = frames[Last].module /\ UNCHANGED <<modules, executed>>
      /\ frames' = Turn(frames, None)
  BY DEF FinishImport, Restored, Last, Turn
<1>2. /\ frames \in Seq(Frames(modules)) /\ Last \in Nat \ {0} /\ DOMAIN frames = 1 .. Last
      /\ \A k \in DOMAIN frames : frames[k].module \in modules /\ frames[k].body \in BOOLEAN
  BY <1>1, FrameFacts
<1>3. /\ frames' \in Seq(Frames(modules)) /\ frames' # <<>> /\ Last' = Last
      /\ DOMAIN frames' = DOMAIN frames
      /\ \A k \in DOMAIN frames : frames'[k].module = frames[k].module /\ frames'[k].body = frames[k].body
      /\ frames'[Last].importing = None
      /\ \A k \in DOMAIN frames : k # Last => frames'[k] = frames[k]
  BY <1>1, <1>2, Turned DEF Last
<1>4. TypeOK'
  BY <1>1, <1>2, <1>3 DEF IInv, TypeOK, Frames
<1>5. RunsOnce' /\ Loaded'
  BY <1>1, <1>3, SameCode DEF IInv
<1>6. ASSUME ~ LateImports PROVE Nested' /\ Register'
  <2>1. Nested'
    BY <1>2, <1>3, <1>6 DEF IInv, Nested
  <2>2. frames[Last].body
    BY <1>1, <1>2, <1>6 DEF IInv, Nested
  <2>3. IsFileFrame(Last, frames')
    BY <1>2, <1>3, <2>2 DEF IsFileFrame
  <2>4. Register'
    BY <1>1, <1>2, <1>3, <2>3 DEF Register
  <2> QED BY <2>1, <2>4
<1> QED BY <1>4, <1>5, <1>6 DEF IInv

\* A function's frame is not one that runs a file.
LEMMA CallStep ==
  ASSUME IInv, NEW m \in modules, CallFunctionOf(m)
  PROVE  IInv'
<1> DEFINE function == Frame(m, FALSE)
<1>1. /\ frames # <<>> /\ frames[Last].importing = None
      /\ UNCHANGED <<modules, lastModule, executed, bound>>
      /\ frames' = Append(frames, function)
  BY DEF CallFunctionOf, Running
<1>2. /\ frames \in Seq(Frames(modules)) /\ Last \in Nat \ {0} /\ DOMAIN frames = 1 .. Last
  BY <1>1, FrameFacts
<1>3. /\ ~ function.body /\ function.importing = None /\ function \in Frames(modules)
  BY DEF Frame, Frames
<1> HIDE DEF function
<1>4. /\ frames' \in Seq(Frames(modules)) /\ frames' # <<>> /\ Last' = Last + 1
      /\ DOMAIN frames' = 1 .. Last + 1 /\ frames'[Last + 1] = function
      /\ \A k \in 1 .. Last : frames'[k] = frames[k]
  BY <1>1, <1>2, <1>3, Pushed DEF Last
<1>5. TypeOK'
  BY <1>1, <1>4 DEF IInv, TypeOK, Frames
<1>6. RunsOnce'
  <2>1. \A k \in DOMAIN frames' : frames'[k].body => k \in DOMAIN frames /\ frames'[k] = frames[k]
    BY <1>2, <1>3, <1>4
  <2> QED BY <1>1, <2>1 DEF IInv, RunsOnce
<1>7. Loaded'
  BY <1>1, <1>2, <1>4 DEF IInv, Loaded
<1>8. ASSUME ~ LateImports PROVE Nested' /\ Register'
  <2>1. Nested'
    BY <1>1, <1>2, <1>3, <1>4, <1>8 DEF IInv, Nested
  <2>2. PICK b \in DOMAIN frames : IsFileFrame(b, frames) /\ (b = 1 \/ lastModule = frames[b].module)
    BY <1>1, <1>8 DEF IInv, Register
  <2>3. IsFileFrame(b, frames')
    BY <1>2, <1>3, <1>4, <2>2 DEF IsFileFrame
  <2>4. Register'
    BY <1>1, <1>2, <1>3, <1>4, <2>2, <2>3 DEF Register
  <2> QED BY <2>1, <2>4
<1> QED BY <1>5, <1>6, <1>7, <1>8 DEF IInv

\* When a file's code ends the register holds it for the import below.
LEMMA ReturnStep ==
  ASSUME IInv, Return
  PROVE  IInv'
<1>1. /\ frames # <<>> /\ frames[Last].importing = None
      /\ UNCHANGED <<modules, lastModule, bound>>
      /\ frames' = SubSeq(frames, 1, Len(frames) - 1)
      /\ executed' = IF frames[Last].body THEN executed \cup {frames[Last].module} ELSE executed
  BY DEF Return, Running, Last
<1>2. /\ frames \in Seq(Frames(modules)) /\ Last \in Nat \ {0} /\ DOMAIN frames = 1 .. Last
      /\ \A k \in DOMAIN frames : /\ frames[k].module \in modules /\ frames[k].body \in BOOLEAN
                                  /\ frames[k].importing \in Files \cup {None}
  BY <1>1, FrameFacts
<1>3. /\ frames' \in Seq(Frames(modules)) /\ Last' = Last - 1 /\ DOMAIN frames' = 1 .. Last - 1
      /\ \A k \in 1 .. Last - 1 : frames'[k] = frames[k]
  BY <1>1, <1>2, Popped DEF Last
<1>4. TypeOK'
  BY <1>1, <1>2, <1>3 DEF IInv, TypeOK, Frames
<1>5. RunsOnce'
  <2>1. \A k \in DOMAIN frames' : k \in DOMAIN frames /\ k # Last /\ frames'[k] = frames[k]
    BY <1>2, <1>3
  <2>2. ASSUME NEW k \in DOMAIN frames', frames'[k].body
        PROVE  frames'[k].module \notin executed'
    <3>1. CASE frames[Last].body
      BY <1>1, <1>2, <2>1, <2>2, <3>1 DEF IInv, RunsOnce
    <3>2. CASE ~ frames[Last].body
      BY <1>1, <2>1, <2>2, <3>2 DEF IInv, RunsOnce
    <3> QED BY <3>1, <3>2
  <2> QED BY <2>1, <2>2 DEF IInv, RunsOnce
<1>6. Loaded'
  <2> SUFFICES ASSUME NEW n \in modules, n \notin executed'
               PROVE  \E k \in DOMAIN frames' : frames'[k].body /\ frames'[k].module = n
    BY <1>1 DEF Loaded
  <2>1. PICK k \in DOMAIN frames : frames[k].body /\ frames[k].module = n
    BY <1>1 DEF IInv, Loaded
  <2>2. k # Last
    BY <1>1, <2>1
  <2> QED BY <1>2, <1>3, <2>1, <2>2
<1>7. ASSUME ~ LateImports PROVE Nested' /\ Register'
  <2>1. Nested'
    BY <1>2, <1>3, <1>7 DEF IInv, Nested
  <2>2. PICK b \in DOMAIN frames : IsFileFrame(b, frames) /\ (b = 1 \/ lastModule = frames[b].module)
    BY <1>1, <1>7 DEF IInv, Register
  <2>3. ASSUME frames' # <<>> PROVE Register'
    <3>1. Last # 1
      <4>1. Len(frames') # 0
        BY <1>3, <2>3, EmptySeq
      <4> QED BY <1>3, <4>1 DEF Last
    <3>2. /\ Last - 1 \in DOMAIN frames /\ frames'[Last'] = frames[Last - 1]
          /\ frames[Last - 1].importing = IF frames[Last].body THEN frames[Last].module ELSE None
      BY <1>2, <1>3, <1>7, <3>1 DEF IInv, Nested
    <3>3. CASE frames[Last].body
      <4>1. b = Last /\ lastModule = frames[Last].module
        BY <1>2, <2>2, <3>1, <3>3 DEF IsFileFrame
      <4>2. frames[Last].module # None
        BY <1>2, ImportsAssumption DEF IInv, TypeOK
      <4> QED BY <1>1, <3>2, <3>3, <4>1, <4>2 DEF Register
    <3>4. CASE ~ frames[Last].body
      <4>1. IsFileFrame(b, frames') /\ frames'[b] = frames[b]
        BY <1>2, <1>3, <2>2, <3>4 DEF IsFileFrame
      <4>2. frames'[Last'].importing = None /\ b \in DOMAIN frames'
        BY <3>2, <3>4, <4>1 DEF IsFileFrame
      <4> QED BY <1>1, <2>2, <4>1, <4>2 DEF Register
    <3> QED BY <3>3, <3>4
  <2> QED BY <2>1, <2>3 DEF Register
<1> QED BY <1>4, <1>5, <1>6, <1>7 DEF IInv

\* The invariant is inductive.
LEMMA Inductive == IInv /\ [Next]_vars => IInv'
<1> SUFFICES ASSUME IInv, [Next]_vars PROVE IInv'
  OBVIOUS
<1>1. CASE UNCHANGED vars
  BY <1>1 DEF vars, IInv, TypeOK, RunsOnce, Loaded, Nested, Register, Last
<1>2. CASE Next
  BY <1>2, ImportFileStep, ImportAgainStep, CallStep, FinishImportStep, ReturnStep DEF Next
<1> QED BY <1>1, <1>2

----------------------------------------------------------------------------
(* Theorems. *)

\* The invariant that the theorems below rest on holds in every reachable state.
THEOREM Invariance == Spec => []IInv
  BY InitHolds, Inductive, PTL DEF Spec

\* The register and the frames hold modules that the virtual machine knows.
THEOREM TypeCorrect == Spec => []TypeOK
<1>1. IInv => TypeOK
  BY DEF IInv
<1> QED BY <1>1, Invariance, PTL

\* However files import each other, the top-level code of each runs once.
THEOREM FilesRunOnce == Spec => []RunsOnce
<1>1. IInv => RunsOnce
  BY DEF IInv
<1> QED BY <1>1, Invariance, PTL

\* An import binds the module it names, if only top-level code imports.
THEOREM ImportsBind ==
  ASSUME ~ LateImports
  PROVE  Spec => BindsNamed
<1>1. IInv /\ [Next]_vars =>
        [bound' # bound => bound' \in {None, frames[Last].importing}]_vars
  <2> SUFFICES ASSUME IInv, Next, bound' # bound
               PROVE  bound' \in {None, frames[Last].importing}
    BY DEF vars
  <2>1. CASE FinishImport
    BY <2>1 DEF FinishImport, IInv, Register
  <2>2. CASE ~ FinishImport
    BY <2>2 DEF Next, ImportFile, ImportAgain, CallFunctionOf, Return
  <2> QED BY <2>1, <2>2
<1> QED BY <1>1, Invariance, PTL DEF Spec, BindsNamed

\* What an import binds has been run, or is being run by code that waits for it.
THEOREM BoundIsLoaded == Spec => NeverHalfLoaded
<1>1. IInv /\ [Next]_vars =>
        [bound' # bound => \/ bound' \in executed \cup {None}
                           \/ \E k \in DOMAIN frames : frames[k].body /\ frames[k].module = bound']_vars
  <2> SUFFICES ASSUME IInv, Next, bound' # bound
               PROVE  \/ bound' \in executed \cup {None}
                      \/ \E k \in DOMAIN frames : frames[k].body /\ frames[k].module = bound'
    BY DEF vars
  <2>1. bound' \in modules \cup {None}
    BY DEF Next, FinishImport, ImportFile, ImportAgain, CallFunctionOf, Return, IInv, TypeOK
  <2> QED BY <2>1 DEF IInv, Loaded
<1> QED BY <1>1, Invariance, PTL DEF Spec, NeverHalfLoaded
============================================================================
