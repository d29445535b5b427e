------------------------------- MODULE Scopes -------------------------------
(***************************************************************************)
(* The compiler, vm/compiler.c, as far as variables are concerned: scopes, *)
(* the locals it expects in the slots of the stack, the upvalues of nested *)
(* functions, and the jumps of the statements; and the run of the code it  *)
(* emits on the stack of vm/vm.c.                                          *)
(*                                                                         *)
(* The parser is a recursive descent: open holds the productions it is in. *)
(* Each action reads a construct or its end.  Bodies are blocks, and an    *)
(* expression is a literal, a name or a function.  Next to the compiler    *)
(* the model keeps what the program's text means: env maps each name in    *)
(* scope to its declaration, and instructions and stack slots carry the    *)
(* declaration they are meant for.                                         *)
(***************************************************************************)
EXTENDS Integers, FiniteSets, FiniteSetsExt, Sequences, SequencesExt

CONSTANTS Name,           \* the identifiers of a program
          NoName,         \* the name of slot 0
          Super,          \* the name super
          Grammars        \* bound: the constructs of a program, and how many it has

ASSUME ScopesAssumption ==
  /\ NoName \notin Name /\ Super \notin Name /\ NoName # Super
  /\ \A g \in Grammars : g.size \in Nat

VARIABLES
  compilers,  \* vm->compiler and its enclosing ones, outermost first
  open,       \* the productions being parsed, outermost first
  env,        \* the scopes of the program: the declaration of each name
  grammar,    \* the constructs this program may have, of Grammars
  produced,   \* how many constructs were read, which also numbers declarations
  reported,   \* what the compiler reported on the last declaration or name
  mistake,    \* what the language has to say about it
  constants,  \* vm->constants: the names of global constants
  fixed,      \* the declarations of local constants
  idioms,     \* what this program does that the compiler is known to get wrong
  machine     \* the run of the finished code

vars == <<compilers, open, env, grammar, produced, reported, mistake,
          constants, fixed, idioms, machine>>

Temp == 0      \* a value on the stack that is no variable
Undeclared == 0
NoError == "none"

----------------------------------------------------------------------------
(* The state of one function's compilation. *)

NewCompiler(type) ==
  [type |-> type, scopeDepth |-> IF type = "function" THEN 1 ELSE 0,
   locals |-> <<[name |-> NoName, depth |-> 0, isUpvalue |-> FALSE,
                 constant |-> FALSE, id |-> Temp]>>,
   isFile |-> {}, loop |-> <<>>, upvalues |-> <<>>, code |-> <<>>]

C == Last(compilers)

Emit(c, instructions) == [c EXCEPT !.code = @ \o instructions]

Here(c) == Len(c.code) + 1

PatchJump(c, offset) == [c EXCEPT !.code[offset].to = Here(c)]

Push(id) == [op |-> "PUSH", id |-> id]
PopTop == [op |-> "POP"]
Jump(to) == [op |-> "JUMP", to |-> to]
JumpIfFalse == [op |-> "JUMP_IF_FALSE", to |-> 0]

----------------------------------------------------------------------------
\* Plausible slips, used to show that the properties can fail.

\* resolveLocal finds the first local of that name.
BrokenResolveLocal(c, n) ==
  Min({i \in DOMAIN c.locals : c.locals[i].name = n} \cup
      IF \E i \in DOMAIN c.locals : c.locals[i].name = n THEN {} ELSE {0})

\* resolveUpvalue starts with the outermost function.
BrokenHome(n) ==
  IF \A l \in DOMAIN compilers : \A i \in DOMAIN compilers[l].locals :
       compilers[l].locals[i].name # n
  THEN 0
  ELSE Min({l \in DOMAIN compilers : \E i \in DOMAIN compilers[l].locals :
                                       compilers[l].locals[i].name = n})

\* resolveUpvalue does not mark the local.
BrokenCaptured(c, slot) == c

\* The search for a redeclaration does not stop below the innermost scope.
BrokenIsRedeclared(c, n) == \E i \in DOMAIN c.locals : c.locals[i].name = n

\* endLoop starts after the first instruction of the body.
BrokenPatchBreaks(c, body) ==
  [c EXCEPT !.code = [i \in DOMAIN @ |-> IF i > body /\ @[i].op = "BREAK"
                                         THEN Jump(Here(c)) ELSE @[i]]]

\* return closes the file of the innermost with-statement only.
BrokenFileHandles(c) ==
  LET files == c.isFile \cap DOMAIN c.locals IN IF files = {} THEN files ELSE {Max(files)}

\* The condition stays on the stack when a loop ends.
BrokenExited(c, end) == IF end = 0 THEN c ELSE PatchJump(c, end)

----------------------------------------------------------------------------
(* Locals and scopes. *)

AddLocal(c, n, id) ==
  [c EXCEPT !.locals = Append(@, [name |-> n, depth |-> -1, isUpvalue |-> FALSE,
                                  constant |-> FALSE, id |-> id])]

\* Within a scope declareVariable adds a local; elsewhere a name is global.
DeclareVariable(c, n, id) == IF c.scopeDepth = 0 THEN c ELSE AddLocal(c, n, id)

\* DEFINE_MODULE takes a global's value off the stack.
DefineVariable(c, constant) ==
  IF c.scopeDepth = 0 THEN Emit(c, <<PopTop>>)
  ELSE [c EXCEPT !.locals[Len(c.locals)].depth = c.scopeDepth,
                 !.locals[Len(c.locals)].constant = constant]

\* declareVariable's search, which stops below the innermost scope.
IsRedeclared(c, n) ==
  /\ c.scopeDepth > 0
  /\ \E i \in DOMAIN c.locals :
       /\ c.locals[i].name = n
       /\ \A j \in i .. Len(c.locals) :
            c.locals[j].depth = -1 \/ c.locals[j].depth >= c.scopeDepth

BeginScope(c) == [c EXCEPT !.scopeDepth = @ + 1]

\* The locals that stay when those deeper than depth are given up.
Staying(c, depth) == Max({i \in DOMAIN c.locals : c.locals[i].depth <= depth})

GiveUp(local) == IF local.isUpvalue THEN [op |-> "CLOSE_UPVALUE"] ELSE PopTop

Discards(c, depth) ==
  Reverse([i \in 1 .. Len(c.locals) - Staying(c, depth) |->
             GiveUp(c.locals[Staying(c, depth) + i])])

EndScope(c) ==
  LET depth == c.scopeDepth - 1
  IN [Emit(c, Discards(c, depth)) EXCEPT !.scopeDepth = depth,
                                         !.locals = SubSeq(@, 1, Staying(c, depth))]

----------------------------------------------------------------------------
(* Names. *)

\* resolveLocal: the last local of that name, or 0.
ResolveLocal(c, n) == Max({0} \cup {i \in DOMAIN c.locals : c.locals[i].name = n})

\* The innermost function with such a local, where resolveUpvalue ends up.
Home(n) == Max({0} \cup {l \in DOMAIN compilers : ResolveLocal(compilers[l], n) # 0})

\* Where addUpvalue finds or puts the upvalue.
UpvalueIndex(c, index, isLocal) ==
  Min({Len(c.upvalues) + 1} \cup
      {i \in DOMAIN c.upvalues : c.upvalues[i].index = index /\ c.upvalues[i].isLocal = isLocal})

AddUpvalue(c, upvalue) ==
  IF UpvalueIndex(c, upvalue.index, upvalue.isLocal) \in DOMAIN c.upvalues THEN c
  ELSE [c EXCEPT !.upvalues = Append(@, upvalue)]

Captured(c, slot) == [c EXCEPT !.locals[slot].isUpvalue = TRUE]

\* What each function from the one with the local inward knows it as.
Found(n) ==
  LET home == Home(n)
      slot == ResolveLocal(compilers[home], n)
      found[l \in home .. Len(compilers)] ==
        IF l = home
        THEN [index |-> slot, constant |-> compilers[l].locals[slot].constant]
        ELSE LET index == UpvalueIndex(compilers[l], found[l - 1].index, l = home + 1)
             IN [index |-> index,
                 constant |-> IF index \in DOMAIN compilers[l].upvalues
                              THEN compilers[l].upvalues[index].constant
                              ELSE found[l - 1].constant]
  IN found

\* The compilers once the innermost has resolved n, a variable of means.
Resolved(n, means) ==
  LET home    == Home(n)
      found   == Found(n)
      Outer(l) == [index |-> found[l - 1].index, isLocal |-> l = home + 1,
                   constant |-> found[l - 1].constant, id |-> means]
  IN IF home \in {0, Len(compilers)} THEN compilers
     ELSE [l \in DOMAIN compilers |->
             CASE l < home -> compilers[l]
               [] l = home -> Captured(compilers[l], found[l].index)
               [] l > home -> AddUpvalue(compilers[l], Outer(l))]

\* checkConst: a local's flag, or the one its upvalue has got, or vm->constants.
IsConstant(n) ==
  IF Home(n) = 0 THEN n \in constants ELSE Found(n)[Len(compilers)].constant

\* The instruction that reads or writes n and leaves a value for the declaration id.
Variable(ops, n, means, id) ==
  IF Home(n) = Len(compilers)
  THEN [op |-> ops.local, slot |-> ResolveLocal(C, n), means |-> means, id |-> id]
  ELSE [op |-> IF Home(n) = 0 THEN ops.module ELSE ops.upvalue, means |-> means, id |-> id]

Get == [local |-> "GET_LOCAL", upvalue |-> "GET_UPVALUE", module |-> "GET_MODULE"]
Set == [local |-> "SET_LOCAL", upvalue |-> "SET_UPVALUE", module |-> "SET_MODULE"]

\* resolveLocal's error: a local is read before it is defined.
ReadsOwnInitializer(c, n) ==
  ResolveLocal(c, n) # 0 /\ c.locals[ResolveLocal(c, n)].depth = -1

----------------------------------------------------------------------------
(* What the text of the program means. *)

NoNames == [n \in Name |-> Undeclared]

Meaning(n) ==
  LET scopes == {i \in DOMAIN env : env[i][n] # Undeclared}
  IN IF scopes = {} THEN Undeclared ELSE env[Max(scopes)][n]

IsGlobalScope == env = <<>>

Declared(n, id) == IF IsGlobalScope THEN env ELSE [env EXCEPT ![Len(env)][n] = id]

----------------------------------------------------------------------------
NotStarted == [pc |-> 0, stack |-> <<>>, captured |-> {}, files |-> {}]

\* A file, or the body of a function with one parameter.
Init ==
  /\ \/ compilers = <<NewCompiler("top level")>> /\ env = <<>>
     \/ \E n \in Name :
          /\ compilers = <<DefineVariable(AddLocal(NewCompiler("function"), n, 1), FALSE)>>
          /\ env = <<[NoNames EXCEPT ![n] = 1]>>
  /\ open = <<[kind |-> "program"]>>
  /\ grammar \in Grammars
  /\ produced = 1
  /\ reported = NoError /\ mistake = NoError
  /\ constants = {} /\ fixed = {} /\ idioms = {}
  /\ machine = NotStarted

New == produced + 1

\* The parser reads a construct.
Reads(construct) ==
  /\ open # <<>> /\ reported = NoError
  /\ construct \in grammar.constructs /\ produced <= grammar.size
  /\ produced' = New
  /\ UNCHANGED <<grammar, machine>>

Update(c) == compilers' = [compilers EXCEPT ![Len(compilers)] = c]

\* The name n is declared, and its initializer is m: what the compiler reports,
\* and what it should.
Judge(n, m) ==
  /\ reported' = IF IsRedeclared(C, n) THEN "redeclared"
              ELSE IF ReadsOwnInitializer(DeclareVariable(C, n, New), m) THEN "initializer"
              ELSE NoError
  /\ mistake' = IF IsGlobalScope THEN NoError
                 ELSE IF Last(env)[n] # Undeclared THEN "redeclared"
                 ELSE IF n = m THEN "initializer"
                 ELSE NoError

\* A with-statement's slot is used again: addLocal leaves isFile as it is.
ReusesFileSlot ==
  IF C.scopeDepth > 0 /\ Len(C.locals) + 1 \in C.isFile THEN {"file slot"} ELSE {}

\* Within a call's argument, a function names the variable the call initializes.
OwnArgument(m) ==
  IF /\ Home(m) \notin {0, Len(compilers)}
     /\ ReadsOwnInitializer(compilers[Home(m)], m)
     /\ \E o \in Range(open) : o.kind = "function" /\ o.level = Home(m) /\ o.argument
  THEN {"own argument"} ELSE {}

----------------------------------------------------------------------------
(* Declarations and expression statements. *)

\* defineVariable enters the name of a global constant in vm->constants.
DefinesConstant(c, n, isConstant) ==
  constants' = IF isConstant /\ c.scopeDepth = 0 THEN constants \cup {n} ELSE constants

\* The declaration of a local constant is read.
DeclaresConstant(isConstant) ==
  fixed' = IF isConstant /\ ~ IsGlobalScope THEN fixed \cup {New} ELSE fixed

\* var n = literal; or const n = literal;
VarDeclaration(n, constant) ==
  /\ Reads(IF constant THEN "const" ELSE "var")
  /\ Judge(n, NoName)
  /\ Update(DefineVariable(Emit(DeclareVariable(C, n, New), <<Push(New)>>), constant))
  /\ env' = Declared(n, New)
  /\ DefinesConstant(C, n, constant)
  /\ DeclaresConstant(constant)
  /\ idioms' = idioms \cup ReusesFileSlot
  /\ UNCHANGED open

\* var n = m;
VarFromName(n, m) ==
  /\ Reads("var from name")
  /\ Judge(n, m)
  /\ LET chain == Resolved(m, Meaning(m))
         c     == Emit(DeclareVariable(Last(chain), n, New),
                       <<Variable(Get, m, Meaning(m), New)>>)
     IN compilers' = [chain EXCEPT ![Len(chain)] = DefineVariable(c, FALSE)]
  /\ env' = Declared(n, New)
  /\ idioms' = idioms \cup ReusesFileSlot \cup OwnArgument(m)
  /\ UNCHANGED <<open, constants, fixed>>

\* An expression statement: m; or m = literal;
Mention(m, code) ==
  /\ LET chain == Resolved(m, Meaning(m))
     IN compilers' = [chain EXCEPT ![Len(chain)] = Emit(@, code)]
  /\ UNCHANGED <<open, env, constants, fixed>>

Use(m) ==
  /\ Reads("use")
  /\ reported' = IF ReadsOwnInitializer(C, m) THEN "initializer" ELSE NoError
  /\ mistake' = NoError
  /\ idioms' = idioms \cup OwnArgument(m)
  /\ Mention(m, <<Variable(Get, m, Meaning(m), Temp), PopTop>>)

\* A function that is the value of a local constant assigns to it.
OwnConstant(m) ==
  IF /\ Home(m) \notin {0, Len(compilers)}
     /\ ReadsOwnInitializer(compilers[Home(m)], m) /\ Meaning(m) \in fixed
  THEN {"own constant"} ELSE {}

Assign(m) ==
  /\ Reads("assign")
  /\ reported' = IF ReadsOwnInitializer(C, m) THEN "initializer"
              ELSE IF IsConstant(m) THEN "constant"
              ELSE NoError
  /\ mistake' = IF Meaning(m) \in fixed \/ (Meaning(m) = Undeclared /\ m \in constants)
                 THEN "constant" ELSE NoError
  /\ idioms' = idioms \cup OwnArgument(m) \cup OwnConstant(m)
  /\ Mention(m, <<Push(Temp), Variable(Set, m, Meaning(m), Temp), PopTop>>)

\* class n < superclass {}: a scope for super, whose local is never defined.
ClassDeclaration(n) ==
  /\ Reads("class")
  /\ Judge(n, NoName)
  /\ LET declared == Emit(DeclareVariable(C, n, New), <<Push(Temp)>>)
         subclass == Emit(AddLocal(BeginScope(declared), Super, Temp), <<Push(New)>>)
     IN Update(DefineVariable(EndScope(subclass), FALSE))
  /\ env' = Declared(n, New)
  /\ idioms' = idioms \cup ReusesFileSlot
                 \cup IF C.scopeDepth = 0 THEN {} ELSE {"local subclass"}
  /\ UNCHANGED <<open, constants, fixed>>

----------------------------------------------------------------------------
(* Functions. *)

\* def n() {, which is also var n = def () => {; with const; or as an argument in
\* var n = literal(def () => {.
BeginFunction(n, argument, constant) ==
  /\ Reads(IF argument THEN "argument" ELSE IF constant THEN "const function" ELSE "function")
  /\ Judge(n, NoName)
  /\ LET declared == DeclareVariable(C, n, New)
         callee   == IF argument THEN Emit(declared, <<Push(Temp)>>) ELSE declared
     IN compilers' = Append(Front(compilers), callee) \o <<NewCompiler("function")>>
  /\ open' = Append(open, [kind |-> "function", level |-> Len(compilers), name |-> n,
                           argument |-> argument, constant |-> constant, id |-> New])
  /\ env' = Append(Declared(n, New), NoNames)
  /\ DeclaresConstant(constant)
  /\ idioms' = idioms \cup ReusesFileSlot
  /\ UNCHANGED constants

\* The parser reads the end of a construct.
Ends(kind) ==
  /\ open # <<>> /\ reported = NoError
  /\ Last(open).kind = kind
  /\ UNCHANGED <<grammar, reported, mistake, fixed, idioms>>

\* endCompiler, and the rest of the declaration.
EndFunction ==
  /\ Ends("function")
  /\ LET o    == Last(open)
         outs == compilers[Len(compilers) - 1]
         call == IF o.argument THEN <<[op |-> "CALL", id |-> o.id]>> ELSE <<>>
         closure == [op |-> "CLOSURE", upvalues |-> C.upvalues,
                     id |-> IF o.argument THEN Temp ELSE o.id]
     IN /\ compilers' = Append(SubSeq(compilers, 1, Len(compilers) - 2),
                               DefineVariable(Emit(outs, <<closure>> \o call), o.constant))
        /\ DefinesConstant(outs, o.name, o.constant)
  /\ open' = Front(open)
  /\ env' = Front(env)
  /\ UNCHANGED <<produced, machine>>

\* resolveFileHandles
FileHandles(c) == c.isFile \cap DOMAIN c.locals

CloseFile(slot) == [op |-> "CLOSE_FILE", slot |-> slot]

\* closeFileHandles, from the last local down.
Closings(c) ==
  LET closing[n \in 0 .. Len(c.locals)] ==
        IF n = 0 THEN <<>>
        ELSE IF n \in FileHandles(c) THEN <<CloseFile(n)>> \o closing[n - 1]
        ELSE closing[n - 1]
  IN closing[Len(c.locals)]

\* return;
ReturnStatement ==
  /\ Reads("return")
  /\ C.type = "function"
  /\ Update(Emit(C, Closings(C) \o <<Push(Temp), [op |-> "RETURN", height |-> Undeclared]>>))
  /\ UNCHANGED <<open, env, reported, mistake, constants, fixed, idioms>>

----------------------------------------------------------------------------
(* Statements. *)

\* A construct begins with code, c, and a block.
Begins(c, entry) ==
  /\ Update(BeginScope(c))
  /\ open' = Append(open, entry)
  /\ env' = Append(env, NoNames)
  /\ UNCHANGED <<reported, mistake, constants, fixed, idioms>>

\* A block ends and the construct it is the last part of, leaving the code c.
Finishes(c) ==
  /\ Update(c)
  /\ open' = Front(open)
  /\ env' = Front(env)
  /\ UNCHANGED <<produced, constants, machine>>

\* The code c and another block of the construct follow.
Continues(c, entry) ==
  /\ produced <= grammar.size
  /\ produced' = New
  /\ Update(BeginScope(c))
  /\ open' = Append(Front(open), entry)
  /\ env' = Append(Front(env), NoNames)
  /\ UNCHANGED <<constants, machine>>

Block == /\ Reads("block")
         /\ Begins(C, [kind |-> "block"])

EndBlock == /\ Ends("block")
            /\ Finishes(EndScope(C))

BeginLoop(c, start, end) ==
  [c EXCEPT !.loop = Append(@, [start |-> start, end |-> end, body |-> Here(c),
                                scopeDepth |-> c.scopeDepth])]

Condition == <<Push(Temp), JumpIfFalse, PopTop>>

WhileStatement ==
  /\ Reads("while")
  /\ Begins(BeginLoop(Emit(C, Condition), Here(C), Here(C) + 1), [kind |-> "while"])

\* for (var n = literal; condition; increment) {
ForStatement(n, condition) ==
  /\ Reads("for")
  /\ LET c         == DefineVariable(Emit(AddLocal(BeginScope(C), n, New), <<Push(New)>>), FALSE)
         tested    == IF condition THEN Emit(c, Condition) ELSE c
         increment == Here(tested) + 1
         stepped   == Emit(tested, <<Jump(0), Push(Temp), PopTop, Jump(Here(c))>>)
         body      == PatchJump(stepped, Here(tested))
     IN /\ Update(BeginScope(BeginLoop(body, increment, IF condition THEN Here(c) + 1 ELSE 0)))
        /\ open' = Append(open, [kind |-> "for"])
        /\ env' = env \o <<[NoNames EXCEPT ![n] = New], NoNames>>
        /\ idioms' = idioms \cup ReusesFileSlot
  /\ reported' = IF IsRedeclared(BeginScope(C), n) THEN "redeclared" ELSE NoError
  /\ mistake' = NoError
  /\ UNCHANGED <<constants, fixed>>

\* endLoop patches the breaks it finds from the loop's body on.
PatchBreaks(c, body) ==
  [c EXCEPT !.code = [i \in DOMAIN @ |-> IF i >= body /\ @[i].op = "BREAK"
                                         THEN Jump(Here(c)) ELSE @[i]]]

\* A false condition leaves the loop here, and goes.
Exited(c, end) == IF end = 0 THEN c ELSE Emit(PatchJump(c, end), <<PopTop>>)

EndLoop(c) ==
  LET loop   == Last(c.loop)
      looped == Emit(EndScope(c), <<Jump(loop.start)>>)
  IN [PatchBreaks(Exited(looped, loop.end), loop.body) EXCEPT !.loop = Front(@)]

EndWhile == /\ Ends("while")
            /\ Finishes(EndLoop(C))

EndFor ==
  /\ Ends("for")
  /\ Update(EndScope(EndLoop(C)))
  /\ open' = Front(open)
  /\ env' = SubSeq(env, 1, Len(env) - 2)
  /\ UNCHANGED <<produced, constants, machine>>

\* The innermost construct that a break or continue leaves is a with-statement.
LeavesFile ==
  LET within == {i \in DOMAIN open : open[i].kind = "with"}
      loops  == {i \in DOMAIN open : open[i].kind \in {"while", "for"}}
  IN IF \E i \in within : \A j \in loops : j < i THEN {"left with"} ELSE {}

BreakStatement ==
  /\ Reads("break")
  /\ C.loop # <<>>
  /\ Update(Emit(C, Discards(C, Last(C.loop).scopeDepth) \o <<[op |-> "BREAK"]>>))
  /\ idioms' = idioms \cup LeavesFile
  /\ UNCHANGED <<open, env, reported, mistake, constants, fixed>>

ContinueStatement ==
  /\ Reads("continue")
  /\ C.loop # <<>>
  /\ Update(Emit(C, Discards(C, Last(C.loop).scopeDepth) \o <<Jump(Last(C.loop).start)>>))
  /\ idioms' = idioms \cup LeavesFile
  /\ UNCHANGED <<open, env, reported, mistake, constants, fixed>>

IfStatement ==
  /\ Reads("if")
  /\ Begins(Emit(C, Condition), [kind |-> "then", elseJump |-> Here(C) + 1])

\* if (...) {...}, without an else or up to its block.
EndThen(hasElse) ==
  /\ Ends("then")
  /\ LET block == EndScope(C)
         c     == Emit(PatchJump(Emit(block, <<Jump(0)>>), Last(open).elseJump), <<PopTop>>)
     IN IF hasElse
        THEN Continues(c, [kind |-> "rest", ends |-> {Here(block)}])
        ELSE Finishes(PatchJump(c, Here(block)))

CompareJump == <<Push(Temp), [op |-> "COMPARE_JUMP", to |-> 0]>>

SwitchStatement ==
  /\ Reads("switch")
  /\ Begins(Emit(C, <<Push(Temp)>> \o CompareJump),
            [kind |-> "case", compareJump |-> Here(C) + 2, ends |-> {}])

PatchJumps(c, offsets) ==
  [c EXCEPT !.code = [i \in DOMAIN @ |-> IF i \in offsets THEN Jump(Here(c)) ELSE @[i]]]

\* The end of a case: the last one, or another follows, or the default.
EndCase(next) ==
  /\ Ends("case")
  /\ LET block == EndScope(C)
         ends  == Last(open).ends \cup {Here(block)}
         c     == PatchJump(Emit(block, <<Jump(0)>>), Last(open).compareJump)
     IN CASE next = "end" -> Finishes(PatchJumps(Emit(c, <<PopTop>>), ends))
          [] next = "case" ->
               Continues(Emit(c, CompareJump),
                         [kind |-> "case", compareJump |-> Here(c) + 1, ends |-> ends])
          [] next = "default" ->
               Continues(Emit(c, <<PopTop>>), [kind |-> "rest", ends |-> ends])

\* The end of an else or a default.
EndRest == /\ Ends("rest")
           /\ Finishes(PatchJumps(EndScope(C), Last(open).ends))

\* with (literal, literal) as n {
WithStatement(n) ==
  /\ Reads("with")
  /\ LET c    == BeginScope(Emit(C, <<Push(Temp), Push(Temp), [op |-> "OPEN_FILE", id |-> New]>>))
         slot == Len(C.locals) + 1
     IN Update([c EXCEPT !.locals = Append(@, [name |-> n, depth |-> c.scopeDepth,
                                               isUpvalue |-> FALSE, constant |-> TRUE,
                                               id |-> New]),
                         !.isFile = @ \cup {slot}])
  /\ open' = Append(open, [kind |-> "with", slot |-> Len(C.locals) + 1])
  /\ env' = Append(env, [NoNames EXCEPT ![n] = New])
  /\ fixed' = fixed \cup {New}
  /\ UNCHANGED <<reported, mistake, constants, idioms>>

EndWith ==
  /\ Ends("with")
  /\ Finishes(EndScope(Emit(C, <<CloseFile(Last(open).slot)>>)))

\* A slip, as those above: endCompiler does not emit the return.
BrokenEndProgram ==
  /\ Ends("program")
  /\ open' = <<>>
  /\ machine' = [NotStarted EXCEPT
                   !.pc = 1,
                   !.stack = IF C.type = "function" THEN <<Temp, 1>> ELSE <<Temp>>]
  /\ UNCHANGED <<compilers, env, produced, constants>>

\* The end of the file or function, whose code now runs.
EndProgram ==
  /\ Ends("program")
  /\ Update(Emit(C, <<Push(Temp), [op |-> "RETURN", height |-> Len(C.locals)]>>))
  /\ open' = <<>>
  /\ machine' = [NotStarted EXCEPT
                   !.pc = 1,
                   !.stack = IF C.type = "function" THEN <<Temp, 1>> ELSE <<Temp>>]
  /\ UNCHANGED <<env, produced, constants>>

----------------------------------------------------------------------------
(* The machine. *)

Running == open = <<>> /\ machine.pc # 0

Instruction == compilers[1].code[machine.pc]

\* The next instruction is one of ops.
Runs(ops) ==
  /\ Running
  /\ Instruction.op \in ops
  /\ UNCHANGED <<compilers, open, env, grammar, produced, reported, mistake,
                 constants, fixed, idioms>>

Goes(pc, stack) == machine' = [machine EXCEPT !.pc = pc, !.stack = stack]

Pushes ==
  /\ Runs({"PUSH", "GET_LOCAL", "GET_UPVALUE", "GET_MODULE"})
  /\ Goes(machine.pc + 1, Append(machine.stack, Instruction.id))

\* An assignment leaves its value on the stack.
Assigns == /\ Runs({"SET_LOCAL", "SET_UPVALUE", "SET_MODULE"})
           /\ Goes(machine.pc + 1, machine.stack)

Pops == /\ Runs({"POP"})
        /\ Goes(machine.pc + 1, Front(machine.stack))

ClosesUpvalue ==
  /\ Runs({"CLOSE_UPVALUE"})
  /\ machine' = [machine EXCEPT !.pc = @ + 1, !.stack = Front(@),
                                !.captured = @ \ {Len(machine.stack)}]

LocalUpvalues == {u \in Range(Instruction.upvalues) : u.isLocal}

\* The closure is pushed before its variables are captured.
Closure ==
  /\ Runs({"CLOSURE"})
  /\ machine' = [machine EXCEPT !.pc = @ + 1, !.stack = Append(@, Instruction.id),
                                !.captured = @ \cup {u.index : u \in LocalUpvalues}]

\* A call with one argument: the callee's slot takes the result, and RETURN has
\* closed the upvalues of the slots from there on.
Call ==
  /\ Runs({"CALL"})
  /\ LET callee == Len(machine.stack) - 1
     IN machine' = [machine EXCEPT !.pc = @ + 1,
                                   !.stack = Append(SubSeq(@, 1, callee - 1), Instruction.id),
                                   !.captured = {i \in @ : i < callee}]

Jumps == /\ Runs({"JUMP"})
         /\ Goes(Instruction.to, machine.stack)

JumpsIfFalse == /\ Runs({"JUMP_IF_FALSE"})
                /\ \E pc \in {machine.pc + 1, Instruction.to} : Goes(pc, machine.stack)

\* COMPARE_JUMP pops the case and, if it matches, the subject.
Compares ==
  /\ Runs({"COMPARE_JUMP"})
  /\ \/ Goes(machine.pc + 1, SubSeq(machine.stack, 1, Len(machine.stack) - 2))
     \/ Goes(Instruction.to, Front(machine.stack))

OpensFile ==
  /\ Runs({"OPEN_FILE"})
  /\ machine' = [machine EXCEPT
                   !.pc = @ + 1,
                   !.stack = Append(SubSeq(@, 1, Len(@) - 2), Instruction.id),
                   !.files = @ \cup {Instruction.id}]

ClosesFile ==
  /\ Runs({"CLOSE_FILE"})
  /\ machine' = [machine EXCEPT !.pc = @ + 1, !.files = @ \ {machine.stack[Instruction.slot]}]

Returns == /\ Runs({"RETURN"})
           /\ Goes(0, machine.stack)

Machine == \/ Pushes \/ Assigns \/ Pops \/ ClosesUpvalue \/ Closure \/ Call \/ Jumps
           \/ JumpsIfFalse \/ Compares \/ OpensFile \/ ClosesFile \/ Returns

Parser ==
  \/ \E n \in Name : \/ Use(n) \/ Assign(n) \/ ClassDeclaration(n) \/ WithStatement(n)
                     \/ \E m \in Name : VarFromName(n, m)
                     \/ \E b \in BOOLEAN : VarDeclaration(n, b) \/ ForStatement(n, b)
                     \/ \E a, b \in BOOLEAN : ~ (a /\ b) /\ BeginFunction(n, a, b)
  \/ EndFunction \/ ReturnStatement \/ Block \/ EndBlock \/ WhileStatement \/ EndWhile \/ EndFor
  \/ BreakStatement \/ ContinueStatement \/ IfStatement \/ SwitchStatement \/ EndRest \/ EndWith
  \/ \E b \in BOOLEAN : EndThen(b)
  \/ \E next \in {"case", "default", "end"} : EndCase(next)
  \/ EndProgram

Next == Parser \/ Machine

Spec == Init /\ [][Next]_vars

----------------------------------------------------------------------------
Local == [name : Name \cup {NoName, Super}, depth : {-1} \cup Nat, isUpvalue : BOOLEAN,
          constant : BOOLEAN, id : Nat]

Upvalue == [index : Nat, isLocal : BOOLEAN, constant : BOOLEAN, id : Nat]

\* Every variable has its type.
TypeOK ==
  /\ \A c \in Range(compilers) :
       /\ c.locals \in Seq(Local) /\ c.upvalues \in Seq(Upvalue)
       /\ c.scopeDepth \in Nat /\ c.isFile \subseteq Nat
  /\ machine.pc \in 0 .. Len(compilers[1].code)
  /\ machine.stack \in Seq(Nat) /\ machine.files \subseteq Nat
  /\ machine.captured \subseteq Nat

\* On every path through the code, whatever scopes, loops, breaks, cases and
\* functions came before, a name finds in its slot the variable that it means
\* in the program's text, and a name compiled as global means no local.
NamesFound ==
  "local subclass" \notin idioms /\ Running =>
    CASE Instruction.op \in {Get.local, Set.local} ->
           machine.stack[Instruction.slot] = Instruction.means
      [] Instruction.op \in {Get.module, Set.module} -> Instruction.means = Undeclared
      [] OTHER -> TRUE

\* A closure gets the variables its function names: a local of the running
\* function from its slot, and a variable further out from the upvalue of the
\* enclosing function that has it, through which resolveUpvalue threads it.  The
\* exception: while a call computes the initial value of a local, the local's slot
\* holds the callee, and a function among the arguments captures that.
CapturesFound ==
  "local subclass" \notin idioms =>
    /\ Running /\ Instruction.op = "CLOSURE" /\ "own argument" \notin idioms =>
         LET pushed == Append(machine.stack, Instruction.id)
         IN \A u \in LocalUpvalues : pushed[u.index] = u.id
    /\ \A l \in 2 .. Len(compilers) : \A u \in Range(compilers[l].upvalues) :
         LET outer == compilers[l - 1]
         IN u.id = IF u.isLocal THEN outer.locals[u.index].id ELSE outer.upvalues[u.index].id

\* The captured variables are on the stack, and POP never takes one off, which would
\* leave an open upvalue above stackTop: also where a break or continue gives up locals
\* before the function that captures them is compiled.
CapturedAreClosed ==
  "local subclass" \notin idioms =>
    /\ machine.captured \subseteq DOMAIN machine.stack
    /\ Running /\ Instruction.op = "POP" => Len(machine.stack) \notin machine.captured

\* At the end of the code the stack holds what the compiler counts, on every path;
\* in a file that is the file's function and what subclasses left there.
EndsBalanced ==
  "local subclass" \notin idioms /\ Running /\ Instruction.op = "RETURN" =>
    Instruction.height \in {Undeclared, Len(machine.stack) - 1}

\* An error is reported exactly when the program redeclares a name in its scope,
\* reads a local in its own initializer, or assigns to a constant, at any depth of
\* functions.  The exception: a function that is a constant's own value is compiled
\* before the local is marked, and may assign to it.
ErrorsJust ==
  idioms \cap {"local subclass", "own constant"} = {} => reported = mistake

\* endLoop has turned every break into a jump.
BreaksJump == Running => Instruction.op # "BREAK"

\* docs/docs/files.md: "Dictu will handle closing the file for you and happens when
\* you leave the with scope automatically".  When the function or file ends no file
\* is open, and no slot is closed that is not an open file.
WithCloses ==
  Running => CASE Instruction.op = "CLOSE_FILE" ->
                    machine.stack[Instruction.slot] \in machine.files
               [] Instruction.op = "RETURN" -> machine.files = {}
               [] OTHER -> TRUE

\* So it is as long as no break or continue leaves a with-statement and no local is
\* declared in the slot that the file of an earlier one had.
WithClosesUnlessLeft ==
  idioms \cap {"left with", "file slot", "local subclass"} = {} => WithCloses
============================================================================
