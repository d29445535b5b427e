------------------------------- MODULE Calls --------------------------------
(***************************************************************************)
(* The virtual machine's calls, in vm/vm.c: the value stack, the call      *)
(* frames, the calls that native functions make back into the program      *)
(* (callFunction), and closures with their upvalues.                       *)
(*                                                                         *)
(* A closure holds pointers to upvalues.  While the variable's stack slot  *)
(* is in use its upvalue is open and points to the slot; when the slot is  *)
(* given up the upvalue is closed and holds the value itself.  The open    *)
(* ones are a list sorted by slot, so that two captures of one variable    *)
(* find the same upvalue.                                                  *)
(***************************************************************************)
EXTENDS Integers, FiniteSets, Sequences

CONSTANTS Value,        \* what a program computes with
          Callee,       \* a function where it is called: not assignable
          MaxStack,     \* bound: slots of the value stack
          MaxFrames,    \* bound: call frames
          MaxClosures,  \* bound: closures the program creates
          MaxCaptures   \* bound: upvalues of one closure

ASSUME CallsAssumption ==
  /\ Callee \notin Value
  /\ {MaxStack, MaxFrames, MaxClosures, MaxCaptures} \subseteq Nat

VARIABLES
  stack,         \* vm->stack up to stackTop
  frames,        \* vm->frames up to frameCount
  natives,       \* native functions running, outermost first
  closures,      \* closures[c]: the upvalues of the c-th closure created
  upvalues,      \* upvalues[u]: struct sUpvalue
  openUpvalues,  \* the list vm->openUpvalues
  capturing      \* the CLOSURE instruction is between two captures

vars == <<stack, frames, natives, closures, upvalues, openUpvalues, capturing>>

\* The closure of a frame without upvalues, and of callFunction's own frame.
Script == 0
Synthetic == -1

\* The value pointer of a closed upvalue points to its own field closed.
Self == 0

Top(s) == s[Len(s)]

Front(s) == SubSeq(s, 1, Len(s) - 1)

Locals == IF frames = <<>> THEN {} ELSE Top(frames).slots + 1 .. Len(stack)

\* The upvalues of the running function.
Captured == IF frames = <<>> \/ Top(frames).closure \in {Script, Synthetic} THEN <<>>
            ELSE closures[Top(frames).closure]

----------------------------------------------------------------------------
\* Plausible slips, used to show that the properties can fail.

\* A returning function closes the upvalues above its first local only.
BrokenClosing(last) ==
  {k \in DOMAIN openUpvalues :
     \A m \in 1 .. k : upvalues[openUpvalues[m]].value > last}

\* captureUpvalue puts every new upvalue at the head of the list.
BrokenPlace(local) == 1

\* captureUpvalue does not reuse an upvalue.
BrokenIsOpen(local, k) == FALSE

\* The closure takes the upvalue next to the one meant.
BrokenAddCapture(u) ==
  closures' = [closures EXCEPT ![Len(closures)] = Append(@, u + 1)]

\* run() compares with the wrong frame count and leaves callFunction late.
BrokenLeavesRun(n) == natives # <<>> /\ Top(natives).breakFrame = n + 1
----------------------------------------------------------------------------
(* Which C code is running: the interpreter loop, or a native function that *)
(* is not waiting in callFunction.                                          *)

InNative == natives # <<>> /\ Top(natives).breakFrame = 0

Interpreting == frames # <<>> /\ ~ InNative /\ ~ capturing

Init == /\ stack = <<>> /\ frames = <<>> /\ natives = <<>>
        /\ closures = <<>> /\ upvalues = <<>> /\ openUpvalues = <<>>
        /\ capturing = FALSE

\* dictuInterpret: a script, or the next line given to the REPL.
Interpret ==
  /\ frames = <<>>
  /\ stack' = <<Callee>>
  /\ frames' = <<[closure |-> Script, slots |-> 1]>>
  /\ UNCHANGED <<natives, closures, upvalues, openUpvalues, capturing>>

\* A declaration, or any instruction that leaves a value on the stack.
Push(v) ==
  /\ Interpreting /\ Len(stack) < MaxStack
  /\ stack' = Append(stack, v)
  /\ UNCHANGED <<frames, natives, closures, upvalues, openUpvalues, capturing>>

SetLocal(i, v) ==
  /\ Interpreting
  /\ stack' = [stack EXCEPT ![i] = v]
  /\ UNCHANGED <<frames, natives, closures, upvalues, openUpvalues, capturing>>

SetUpvalue(u, v) ==
  /\ Interpreting
  /\ IF upvalues[u].value = Self
     THEN /\ upvalues' = [upvalues EXCEPT ![u].closed = v]
          /\ UNCHANGED stack
     ELSE /\ stack' = [stack EXCEPT ![upvalues[u].value] = v]
          /\ UNCHANGED upvalues
  /\ UNCHANGED <<frames, natives, closures, openUpvalues, capturing>>

----------------------------------------------------------------------------
(* CLOSURE: newClosure, then one captureUpvalue for each upvalue. *)

NewClosure ==
  /\ Interpreting /\ Len(stack) < MaxStack /\ Len(closures) < MaxClosures
  /\ stack' = Append(stack, Callee)
  /\ closures' = Append(closures, <<>>)
  /\ capturing' = TRUE
  /\ UNCHANGED <<frames, natives, upvalues, openUpvalues>>

AddCapture(u) ==
  closures' = [closures EXCEPT ![Len(closures)] = Append(@, u)]

MayCapture == capturing /\ Len(closures[Len(closures)]) < MaxCaptures

\* Where the walk down the list stops: at the first slot not above local.
Place(local) ==
  CHOOSE k \in 1 .. Len(openUpvalues) + 1 :
    /\ k <= Len(openUpvalues) => upvalues[openUpvalues[k]].value <= local
    /\ \A m \in 1 .. k - 1 : upvalues[openUpvalues[m]].value > local

IsOpen(local, k) ==
  k <= Len(openUpvalues) /\ upvalues[openUpvalues[k]].value = local

\* captureUpvalue(frame->slots + index), local being that slot.
CaptureLocal(local) ==
  /\ MayCapture
  /\ LET k   == Place(local)
         new == Len(upvalues) + 1
     IN IF IsOpen(local, k)
        THEN /\ AddCapture(openUpvalues[k])
             /\ UNCHANGED <<upvalues, openUpvalues>>
        ELSE /\ AddCapture(new)
             /\ upvalues' = Append(upvalues, [value |-> local, closed |-> Callee])
             /\ openUpvalues' = SubSeq(openUpvalues, 1, k - 1) \o <<new>>
                                  \o SubSeq(openUpvalues, k, Len(openUpvalues))
  /\ UNCHANGED <<stack, frames, natives, capturing>>

\* A variable of a function further out: the running closure has its upvalue.
CaptureUpvalue(u) ==
  /\ MayCapture
  /\ AddCapture(u)
  /\ UNCHANGED <<stack, frames, natives, upvalues, openUpvalues, capturing>>

ClosureDone ==
  /\ capturing
  /\ capturing' = FALSE
  /\ UNCHANGED <<stack, frames, natives, closures, upvalues, openUpvalues>>

----------------------------------------------------------------------------
(* Locals go out of scope. *)

\* Positions in the list that closeUpvalues(last) takes off its head.
Closing(last) ==
  {k \in DOMAIN openUpvalues :
     \A m \in 1 .. k : upvalues[openUpvalues[m]].value >= last}

CloseUpvalues(last) ==
  LET n      == Cardinality(Closing(last))
      closed == {openUpvalues[k] : k \in 1 .. n}
  IN /\ upvalues' = [u \in DOMAIN upvalues |->
                       IF u \in closed
                       THEN [value |-> Self, closed |-> stack[upvalues[u].value]]
                       ELSE upvalues[u]]
     /\ openUpvalues' = SubSeq(openUpvalues, n + 1, Len(openUpvalues))

IsCaptured(i) == \E u \in DOMAIN upvalues : upvalues[u].value = i

\* endScope, break and continue emit CLOSE_UPVALUE for a local that some
\* function captures, whether or not one has yet,
EndCapturedScope ==
  /\ Interpreting /\ Locals # {}
  /\ CloseUpvalues(Len(stack))
  /\ stack' = Front(stack)
  /\ UNCHANGED <<frames, natives, closures, capturing>>

\* and POP for the others.
EndScope ==
  /\ Interpreting /\ Locals # {} /\ ~ IsCaptured(Len(stack))
  /\ stack' = Front(stack)
  /\ UNCHANGED <<frames, natives, closures, upvalues, openUpvalues, capturing>>

----------------------------------------------------------------------------
(* Calls and returns. *)

\* CALL: the callee and its arguments are pushed, then call() adds a frame.
Call(c, args) ==
  /\ Interpreting
  /\ Len(frames) < MaxFrames /\ Len(stack) + Len(args) < MaxStack
  /\ stack' = stack \o <<Callee>> \o args
  /\ frames' = Append(frames, [closure |-> c, slots |-> Len(stack) + 1])
  /\ UNCHANGED <<natives, closures, upvalues, openUpvalues, capturing>>

\* A native function is called with a callback as its argument.
CallNative ==
  /\ Interpreting
  /\ Len(stack) + 2 <= MaxStack
  /\ stack' = stack \o <<Callee, Callee>>
  /\ natives' = Append(natives, [base |-> Len(stack), breakFrame |-> 0, stackTop |-> 0])
  /\ UNCHANGED <<frames, closures, upvalues, openUpvalues, capturing>>

\* callFunction: a frame of its own, whose code is CALL and RETURN, and the CALL.
CallFunction(c, args) ==
  /\ InNative
  /\ Len(frames) + 2 <= MaxFrames /\ Len(stack) + Len(args) < MaxStack
  /\ natives' = [natives EXCEPT ![Len(natives)].breakFrame = Len(frames) + 1,
                                ![Len(natives)].stackTop = Len(stack)]
  /\ frames' = frames \o <<[closure |-> Synthetic, slots |-> 0],
                           [closure |-> c, slots |-> Len(stack) + 1]>>
  /\ stack' = stack \o <<Callee>> \o args
  /\ UNCHANGED <<closures, upvalues, openUpvalues, capturing>>

\* The native function is done: the callee and the argument give way to v.
NativeReturn(v) ==
  /\ InNative
  /\ stack' = Append(SubSeq(stack, 1, Top(natives).base), v)
  /\ natives' = Front(natives)
  /\ UNCHANGED <<frames, closures, upvalues, openUpvalues, capturing>>

\* RETURN ends run() when n frames remain.
LeavesRun(n) == natives # <<>> /\ Top(natives).breakFrame = n

\* RETURN, and the rest of callFunction if it ends run().
Return(v) ==
  LET slots == Top(frames).slots
      n     == Len(frames) - 1
  IN /\ Interpreting
     /\ CloseUpvalues(slots)
     /\ CASE LeavesRun(n) ->
               /\ stack' = SubSeq(stack, 1, Top(natives).stackTop)
               /\ frames' = SubSeq(frames, 1, n - 1)
               /\ natives' = [natives EXCEPT ![Len(natives)].breakFrame = 0]
          [] n = 0 -> \* the script is done; its scopes have ended
               /\ Len(stack) = 1
               /\ stack' = <<>>
               /\ frames' = <<>>
               /\ UNCHANGED natives
          [] OTHER ->
               /\ stack' = Append(SubSeq(stack, 1, slots - 1), v)
               /\ frames' = Front(frames)
               /\ UNCHANGED natives
     /\ UNCHANGED <<closures, capturing>>

----------------------------------------------------------------------------
Callable == {Script} \cup (DOMAIN closures \ (IF capturing THEN {Len(closures)} ELSE {}))

Arguments == {<<>>} \cup {<<v>> : v \in Value}

Next ==
  \/ Interpret
  \/ \E v \in Value : \/ Push(v)
                      \/ \E i \in Locals : SetLocal(i, v)
                      \/ \E j \in DOMAIN Captured : SetUpvalue(Captured[j], v)
                      \/ NativeReturn(v)
                      \/ Return(v)
  \/ NewClosure \/ ClosureDone
  \/ \E i \in Locals : CaptureLocal(i)
  \/ \E j \in DOMAIN Captured : CaptureUpvalue(Captured[j])
  \/ EndCapturedScope \/ EndScope
  \/ \E c \in Callable, args \in Arguments : Call(c, args) \/ CallFunction(c, args)
  \/ CallNative

Spec == Init /\ [][Next]_vars

----------------------------------------------------------------------------
\* Every variable has its type; slots lie on the stack.
TypeOK ==
  /\ stack \in Seq(Value \cup {Callee})
  /\ frames \in Seq([closure : {Script, Synthetic} \cup DOMAIN closures, slots : Nat])
  /\ natives \in Seq([base : Nat, breakFrame : Nat, stackTop : Nat])
  /\ closures \in Seq(Seq(DOMAIN upvalues))
  /\ upvalues \in Seq([value : Nat, closed : Value \cup {Callee}])
  /\ openUpvalues \in Seq(DOMAIN upvalues)
  /\ capturing \in BOOLEAN

\* The list of open upvalues is strictly sorted from the top of the stack down
\* and holds exactly the upvalues that point to a slot, one for a slot; every
\* such slot is in use.  closeUpvalues, which stops at the first slot below its
\* argument, and captureUpvalue, which stops at the first not above, need it.
OpenSorted ==
  /\ \A k, m \in DOMAIN openUpvalues :
       k < m => upvalues[openUpvalues[k]].value > upvalues[openUpvalues[m]].value
  /\ \A u \in DOMAIN upvalues :
       upvalues[u].value # Self <=> \E k \in DOMAIN openUpvalues : openUpvalues[k] = u
  /\ \A u \in DOMAIN upvalues : upvalues[u].value <= Len(stack)

\* However calls, natives and callbacks nest, the interpreter never runs the
\* frame that callFunction made up, whose slots are not set: every such frame
\* belongs to the native that waits for it, a function's frame lies above it,
\* and each frame starts where its caller's part of the stack ends.
FramesNested ==
  /\ {k \in DOMAIN frames : frames[k].closure = Synthetic}
       = {natives[k].breakFrame : k \in DOMAIN natives} \ {0}
  /\ frames # <<>> => Top(frames).closure # Synthetic
  /\ \A k \in 1 .. Len(natives) - 1 : natives[k].breakFrame \notin {0, Len(frames)}
  /\ \A k, m \in {j \in DOMAIN frames : frames[j].closure # Synthetic} :
       k < m => frames[k].slots < frames[m].slots
  /\ \A k \in DOMAIN frames : frames[k].slots <= Len(stack)

\* vm.c, above captureUpvalue: "multiple closures closing over the same variable
\* actually see the same variable".  Locals and closures behave as lexical
\* scoping has it, whatever slots and upvalues the variables are in.
Names == {<<"local", i>> : i \in DOMAIN stack}
           \cup UNION {{<<"captured", c, j>> : j \in DOMAIN closures[c]} : c \in DOMAIN closures}

UpvalueOf(n) == closures[n[2]][n[3]]

\* Where a variable is: a stack slot, or a closed upvalue.
Location(n) ==
  IF n[1] = "local" THEN <<"slot", n[2]>>
  ELSE IF upvalues[UpvalueOf(n)].value = Self THEN <<"upvalue", UpvalueOf(n)>>
  ELSE <<"slot", upvalues[UpvalueOf(n)].value>>

Sees(n) == IF Location(n)[1] = "slot" THEN stack[Location(n)[2]]
           ELSE upvalues[Location(n)[2]].closed

Values == [n \in Names |-> Sees(n)]

Aliases == [n \in Names |-> {m \in Names : Location(m) = Location(n)}]

Lexical == INSTANCE LexicalSpec WITH value <- Values, aliases <- Aliases
ImplementsLexical == Lexical!Spec
============================================================================
