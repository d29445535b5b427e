----------------------------- MODULE Arguments -----------------------------
(***************************************************************************)
(* How the VM hands arguments to a function: callValue, invoke and call    *)
(* lay them out on the stack, the code that beginFunction emits fills in   *)
(* the defaults and an instance's attributes, and OP_RETURN takes          *)
(* everything away again.                                                  *)
(*                                                                         *)
(* The values passed are named by their place, as the code never looks at  *)
(* them, and by the depth of their call, so that a value that strays from  *)
(* one frame into another is seen.  Every parameter of a constructor is    *)
(* one with "var": the others are attributes that nobody reads.  A default *)
(* is an expression of its own or the name of an earlier parameter.        *)
(***************************************************************************)
EXTENDS Integers, Sequences, FiniteSets

CONSTANTS Functions,     \* the program's functions
          MaxSurplus,    \* bound: arguments beyond all the parameters
          MaxFrames      \* bound: frames on the stack, the script's included

\* The default of an optional parameter that does not name another parameter.
Own == 0

\* What beginFunction accepts: no spread parameter next to optional ones.
IsFunction(f) ==
  /\ f.arity \in Nat /\ f.isVariadic \in BOOLEAN /\ f.defaults \in Seq(Nat)
  /\ \A i \in DOMAIN f.defaults : f.defaults[i] \in 0 .. i - 1
  /\ f.isVariadic => f.arity > 0 /\ f.defaults = <<>>

ASSUME ArgumentsAssumption ==
  /\ \A f \in Functions : IsFunction(f)
  /\ MaxSurplus \in Nat /\ MaxFrames \in Nat \ {0}

VARIABLES stack,      \* vm->stack up to stackTop; slot i of the code is stack[i + 1]
          frames,     \* vm->frames: the function, its slots, and what it was given
          refusal     \* the last call that ended in "expected %d argument(s) but got %d"

argumentsVars == <<stack, frames, refusal>>

ArityOptional(f) == Len(f.defaults)
Parameters(f) == f.arity + ArityOptional(f)

\* The ways a call reaches call(): a closure, a bound method, a method found by
\* name, a class with an init, and a list, dict, result or enum method in Dictu.
Ways == {"closure", "bound", "method", "class", "extension"}

Value(what, depth, i) == <<what, depth, i>>
List(values) == <<"list", values>>
Script == Value("script", 0, 0)
NoCall == [args |-> -1]

Top == frames[Len(frames)]

\* Value of slot i of a frame.
Slot(frame, i) == stack[frame.slots + i + 1]
Locals(frame) == SubSeq(stack, frame.slots + 1, Len(stack))
Peek(s, distance) == s[Len(s) - distance]
Drop(s, n) == SubSeq(s, 1, Len(s) - n)
LastOf(s, n) == SubSeq(s, Len(s) - n + 1, Len(s))
----------------------------------------------------------------------------
\* Plausible slips, used to show that the properties can fail.

\* The surplus is counted without the spread parameter itself.
BrokenGathered(f, s, args) ==
  IF args < f.arity THEN Append(s, List(<<>>))
  ELSE LET surplus == args - f.arity + 1
       IN Append(Drop(s, surplus), List(LastOf(s, surplus - 1)))

\* A call for an optional parameter takes the frame to start above it.
BrokenStart(s, args) == Len(s) - args

\* The arguments given are kept, but the first defaults are, not the last.
BrokenArranged(frame) ==
  LET f        == frame.function
      argCount == Len(Locals(frame)) - ArityOptional(f) - 1
      args     == SubSeq(Locals(frame), 2, argCount + 1)
  IN args \o SubSeq(Locals(frame), argCount + 2, Parameters(f) + 1)
----------------------------------------------------------------------------
(* callValue, invoke and call. *)

\* What the caller pushes: the callee or receiver, and its n arguments, the last
\* "spread" of them in a list that the call unpacks ("..."), or none if it is -1.
Pushed(way, n, spread) ==
  LET depth == Len(frames)
      callee == IF way \in {"method", "extension"} THEN "receiver" ELSE "callee"
      args   == [i \in 1 .. n |-> Value("argument", depth, i)]
  IN <<Value(callee, depth, 0)>> \o
     IF spread < 0 THEN args ELSE Append(Drop(args, spread), List(LastOf(args, spread)))

\* HANDLE_UNPACK
Unpacked(s, spread) == IF spread < 0 THEN s ELSE Drop(s, 1) \o Peek(s, 0)[2]

\* What callValue puts in the place of the callee, n values below the top.
Seated(way, s, n) ==
  CASE way = "bound" -> [s EXCEPT ![Len(s) - n] = Value("receiver", Len(frames), 0)]
    [] way = "class" -> [s EXCEPT ![Len(s) - n] = Value("receiver", Len(frames), 0)]
    [] OTHER -> s

\* invoke's loop for a method written in Dictu: the arguments move up by one slot
\* and the receiver becomes the first of them, as well.
Shifted(s, n) ==
  LET grown == Append(s, Peek(s, 0))
      low   == Len(s) - n
  IN [i \in DOMAIN grown |-> IF i > low THEN s[i - 1] ELSE s[i]]

\* call's test of the number of arguments.
Takes(f, args) ==
  IF args < f.arity THEN f.isVariadic /\ args + 1 = f.arity
  ELSE args <= Parameters(f) \/ f.isVariadic

\* call's list for the spread parameter: it takes the place of the arguments it
\* stands for, of which there may be none.
Gathered(f, s, args) ==
  IF args < f.arity THEN Append(s, List(<<>>))
  ELSE LET surplus == args - f.arity + 1
       IN Append(Drop(s, surplus), List(LastOf(s, surplus)))

Start(s, args) == Len(s) - args - 1

Frame(f, way, n, s, args) ==
  [function |-> f, way |-> way, given |-> n, slots |-> Start(s, args),
   pc |-> IF ArityOptional(f) > 0 THEN "defaults" ELSE "attributes",
   attributes |-> <<>>]

\* A call that is refused is a runtime error, and the next one is the first of
\* another script.
Refuse(f, way, args) ==
  /\ stack' = <<Script>>
  /\ frames' = SubSeq(frames, 1, 1)
  /\ refusal' = [function |-> f, way |-> way, args |-> args]

Call(f, way, n, spread) ==
  /\ Top.pc = "body" /\ Len(frames) < MaxFrames
  /\ LET unpacked == Unpacked(stack \o Pushed(way, n, spread), spread)
         seated   == Seated(way, unpacked, n)
         ready    == IF way = "extension" THEN Shifted(seated, n) ELSE seated
         args     == IF way = "extension" THEN n + 1 ELSE n
         gathered == IF f.isVariadic THEN Gathered(f, ready, args) ELSE ready
     IN IF Takes(f, args)
        THEN /\ stack' = gathered
             /\ frames' = Append(frames, Frame(f, way, n, gathered,
                                   IF f.isVariadic THEN f.arity ELSE args))
             /\ refusal' = NoCall
        ELSE Refuse(f, way, args)

\* callNativeMethod and natives in callValue: the result replaces what was pushed.
CallNative(n, spread) ==
  /\ Top.pc = "body"
  /\ LET unpacked == Unpacked(stack \o Pushed("method", n, spread), spread)
     IN stack' = Append(Drop(unpacked, n + 1), Value("result", Len(frames), 0))
  /\ refusal' = NoCall
  /\ UNCHANGED frames
----------------------------------------------------------------------------
(* The code at the start of a function that beginFunction emits. *)

\* The slots above the frame's parameters that hold defaults computed so far.
Computed(frame, args) == Len(Locals(frame)) - 1 - args

\* GET_LOCAL reads the slot the named parameter will have, whatever is there now.
Default(frame, i) ==
  LET f == frame.function
  IN IF f.defaults[i] = Own THEN Value("default", Len(frames), i)
     ELSE Slot(frame, f.arity + f.defaults[i])

\* How many arguments lie in the frame before its defaults are computed.
Received(frame) == IF frame.way = "extension" THEN frame.given + 1 ELSE frame.given

ComputeDefault ==
  /\ Top.pc = "defaults" /\ Computed(Top, Received(Top)) < ArityOptional(Top.function)
  /\ stack' = Append(stack, Default(Top, Computed(Top, Received(Top)) + 1))
  /\ UNCHANGED <<frames, refusal>>

\* The defaults of the last parameters stay, one for each argument not given.
Arranged(frame) ==
  LET f        == frame.function
      argCount == Len(Locals(frame)) - ArityOptional(f) - 1
      args     == SubSeq(Locals(frame), 2, argCount + 1)
  IN args \o LastOf(Locals(frame), Parameters(f) - argCount)

\* OP_DEFINE_OPTIONAL
DefineOptional ==
  /\ Top.pc = "defaults" /\ Computed(Top, Received(Top)) = ArityOptional(Top.function)
  /\ stack' = SubSeq(stack, 1, Top.slots + 1) \o Arranged(Top)
  /\ frames' = [frames EXCEPT ![Len(frames)].pc = "attributes"]
  /\ UNCHANGED refusal

\* OP_SET_INIT_ATTRIBUTES, in an init; other functions go on to their bodies.
SetInitAttributes ==
  /\ Top.pc = "attributes"
  /\ LET argCount == Parameters(Top.function)
     IN frames' = [frames EXCEPT ![Len(frames)] =
          [@ EXCEPT !.pc = "body",
                    !.attributes = IF Top.way # "class" THEN <<>>
                                   ELSE [i \in 1 .. argCount |-> Peek(stack, argCount - i)]]]
  /\ UNCHANGED <<stack, refusal>>
----------------------------------------------------------------------------
\* OP_RETURN.  An init returns the instance.
Return ==
  /\ Top.pc = "body" /\ Len(frames) > 1
  /\ LET result == IF Top.way = "class" THEN Slot(Top, 0) ELSE Value("result", Len(frames) - 1, 0)
     IN stack' = Append(SubSeq(stack, 1, Top.slots), result)
  /\ frames' = SubSeq(frames, 1, Len(frames) - 1)
  /\ refusal' = NoCall

\* What the body of a frame has on the stack besides its parameters.
Temporaries(frame) == Len(Locals(frame)) - 1 - Parameters(frame.function)

\* The statement is over: its value is discarded.
Discard == /\ Top.pc = "body" /\ Temporaries(Top) > 0
           /\ stack' = Drop(stack, 1)
           /\ UNCHANGED <<frames, refusal>>

Main == [function |-> [arity |-> 0, isVariadic |-> FALSE, defaults |-> <<>>],
         way |-> "closure", given |-> 0, slots |-> 0, pc |-> "body", attributes |-> <<>>]

ArgumentsInit == stack = <<Script>> /\ frames = <<Main>> /\ refusal = NoCall

\* One call at a time is in the making, above the value of the last.  A class's
\* init has no spread parameter, and the methods the VM adds to lists, dicts,
\* results and enums have one for the receiver.
ArgumentsNext ==
  \/ /\ Top.pc = "body" /\ Temporaries(Top) < 2
     /\ \E f \in Functions, way \in Ways :
          /\ way = "class" => ~ f.isVariadic
          /\ way = "extension" => f.arity > 0
          /\ \E n \in 0 .. Parameters(f) + MaxSurplus : \E spread \in -1 .. n :
               Call(f, way, n, spread)
  \/ \E n \in 0 .. 2 : \E spread \in -1 .. n :
        Temporaries(Top) = 0 /\ CallNative(n, spread)
  \/ ComputeDefault \/ DefineOptional \/ SetInitAttributes \/ Return \/ Discard

ArgumentsSpec == ArgumentsInit /\ [][ArgumentsNext]_argumentsVars
----------------------------------------------------------------------------
\* Every frame starts inside the stack, above the one below it, and has room for
\* what it was given.
ArgumentsTypeOK ==
  /\ stack # <<>> /\ stack[1] = Script
  /\ Len(frames) \in 1 .. MaxFrames
  /\ \A k \in DOMAIN frames :
       /\ frames[k].function \in Functions \cup {Main.function}
       /\ frames[k].way \in Ways
       /\ frames[k].pc \in {"defaults", "attributes", "body"}
       /\ frames[k].slots \in 0 .. Len(stack) - 1
       /\ k > 1 => frames[k - 1].slots < frames[k].slots
       /\ k < Len(frames) => frames[k].pc = "body"

----------------------------------------------------------------------------
(* What a caller may expect, without stack or shuffling. *)

\* The arguments of a call from depth as the function's parameters see them.
Given(way, n, depth) ==
  LET args == [i \in 1 .. n |-> Value("argument", depth, i)]
  IN IF way = "extension" THEN <<Value("receiver", depth, 0)>> \o args ELSE args

Accepts(f, n) ==
  IF f.isVariadic THEN n >= f.arity - 1 ELSE n \in f.arity .. Parameters(f)

\* The parameters' values: what was given, then the defaults, each computed from
\* the parameters before it; a spread parameter has the rest in a list.
Expected(f, given, depth) ==
  LET n == Len(given)
      bound[i \in 1 .. Parameters(f)] ==
        IF f.isVariadic /\ i = f.arity THEN List(SubSeq(given, i, n))
        ELSE IF i <= n THEN given[i]
        ELSE LET named == f.defaults[i - f.arity]
             IN IF named = Own THEN Value("default", depth + 1, i - f.arity)
                ELSE bound[f.arity + named]
  IN bound

\* A default that is needed names an optional parameter that was not given while
\* an earlier one was: that parameter's value is not in its slot yet.
NamesTooEarly(f, n) ==
  \E i \in DOMAIN f.defaults :
     /\ f.arity + i > n
     /\ f.arity < n /\ n < f.arity + f.defaults[i]

Callee(way, depth) ==
  Value(IF way = "closure" THEN "callee" ELSE "receiver", depth, 0)

\* The end of frame k's part of the stack.
End(k) == IF k < Len(frames) THEN frames[k + 1].slots ELSE Len(stack)

\* However it was called, with whatever number of arguments and of unpacked ones,
\* when a function's body runs, slot 0 is its receiver or callee, the slots
\* after it are its parameters with their values, and the attributes of a new
\* instance have these values too.  This stays so in every frame below, while
\* calls from it come, take defaults, return or are refused: a call leaves one
\* value and disturbs nothing.  And a call is refused only for a number of
\* arguments the function does not take.  The exception is a default that names
\* an optional parameter not given in a call that gives an earlier one.
ArgumentsBound ==
  /\ \A k \in 2 .. Len(frames) :
       LET frame    == frames[k]
           f        == frame.function
           given    == Given(frame.way, frame.given, k - 1)
           expected == Expected(f, given, k - 1)
           local    == SubSeq(stack, frame.slots + 1, End(k))
       IN frame.pc = "body" /\ ~ NamesTooEarly(f, Len(given)) =>
            /\ Accepts(f, Len(given))
            /\ Len(local) > Parameters(f)
            /\ local[1] = Callee(frame.way, k - 1)
            /\ SubSeq(local, 2, Parameters(f) + 1) = expected
            /\ frame.way = "class" => frame.attributes = expected
            /\ \A i \in Parameters(f) + 2 .. Len(local) :
                 local[i] \in {Value("result", k, 0), Value("receiver", k, 0)}
  /\ refusal # NoCall => ~ Accepts(refusal.function, refusal.args)
=============================================================================
