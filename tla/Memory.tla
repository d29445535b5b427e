------------------------------- MODULE Memory ------------------------------
(***************************************************************************)
(* The heap of the virtual machine: the mark-and-sweep collector of        *)
(* vm/memory.c, the pool of interned strings it prunes, and the routines   *)
(* of vm/object.c that allocate.                                           *)
(*                                                                         *)
(* reallocate may collect whenever it grows a block, so every allocation   *)
(* in the middle of a C routine is a point where the collector runs while  *)
(* the routine holds pointers in C locals that are not roots.  The         *)
(* routines survive because they push what they hold on the VM stack       *)
(* first.  Each allocation point is a value of pc here, and Collect may    *)
(* fire at any of them, any number of times: the thresholds that decide    *)
(* (bytesAllocated > nextGC, DEBUG_STRESS_GC) are abstracted.              *)
(***************************************************************************)
EXTENDS Integers, FiniteSets, Sequences

CONSTANTS Obj,       \* heap cells
          Text,      \* contents of strings
          NoText,    \* the "content" of objects that are not strings
          None,      \* a NULL pointer
          MaxStack,  \* bound: values on the VM stack between instructions
          MaxRoots,  \* bound: roots beside the stack
          MaxFields  \* bound: pointers in one object

ASSUME MemoryAssumption == /\ None \notin Obj
                           /\ NoText \notin Text
                           /\ {MaxStack, MaxRoots, MaxFields} \subseteq Nat

VARIABLES
  objects,   \* vm->objects: what is allocated
  refs,      \* refs[o]: pointers in o's fields, tables and arrays
  text,      \* text[o]: what a string holds
  stack,     \* vm->stack, the object values of it
  globals,   \* other roots: frames, open upvalues, module and method tables
  strings,   \* keys of vm->strings, which does not keep them alive
  phase,     \* "run", or the collector's "mark", "sweep"
  dark,      \* objects whose isDark is set
  gray,      \* the gray stack; the order it is popped in is immaterial
  pc,        \* where the running C routine is; "idle" between instructions
  caller,    \* who called copyString
  arg,       \* its argument, which the caller keeps on the stack
  obj,       \* its local: the object under construction
  want       \* the content copyString was called with

heap == <<objects, refs, text>>
roots == <<stack, globals>>
collector == <<phase, dark, gray>>
routine == <<pc, caller, arg, obj, want>>
vars == <<heap, roots, strings, collector, routine>>

Elements(s) == {s[i] : i \in 1 .. Len(s)}

Pop(s, n) == SubSeq(s, 1, Len(s) - n)

Top == stack[Len(stack)]

Roots == Elements(stack) \cup globals

Init == /\ objects = {} /\ refs = [o \in Obj |-> {}] /\ text = [o \in Obj |-> NoText]
        /\ stack = <<>> /\ globals = {} /\ strings = {}
        /\ phase = "run" /\ dark = {} /\ gray = {}
        /\ pc = "idle" /\ caller = "none" /\ arg = None /\ obj = None /\ want = NoText

----------------------------------------------------------------------------
\* Plausible slips, used to show that the properties can fail.

\* newInstance does not push the instance before it calls copyString.
BrokenHold(s, o) == s

\* tableRemoveWhite is not called: the pool keeps the strings that are freed.
BrokenPruned(pool) == pool

\* grayObject without its check of isDark.
BrokenNewly(o) == refs[o]

\* Survivors stay dark for the next collection.
BrokenCleared == objects'

\* copyString allocates without looking into the pool.
BrokenInterned(t) == {}

\* The pool is marked like the other tables, so no string is ever freed.
BrokenMarked == Roots \cup strings
----------------------------------------------------------------------------
(* The collector.  It runs to completion; the routine that allocated waits. *)

AllocationPoints == {"object", "chars", "string", "intern", "setClass", "result", "field"}

Marked == Roots

\* collectGarbage begins: every root is grayed.
Collect == /\ phase = "run" /\ pc \in AllocationPoints
           /\ phase' = "mark"
           /\ dark' = dark \cup Marked
           /\ gray' = Marked \ dark
           /\ UNCHANGED <<heap, roots, strings, routine>>

\* grayObject on every pointer in o does nothing to what is dark already.
Newly(o) == refs[o] \ dark

\* blackenObject on an object of the gray stack.
Blacken == /\ phase = "mark"
           /\ \E o \in gray :
                /\ dark' = dark \cup Newly(o)
                /\ gray' = (gray \ {o}) \cup Newly(o)
           /\ UNCHANGED <<heap, roots, strings, phase, routine>>

Pruned(pool) == pool \cap dark

\* Nothing is gray: white strings leave the pool, then the sweep begins.
RemoveWhite == /\ phase = "mark" /\ gray = {}
               /\ strings' = Pruned(strings)
               /\ phase' = "sweep"
               /\ UNCHANGED <<heap, roots, dark, gray, routine>>

Cleared == {}

\* The walk over the list of objects: what is white is freed, what is dark is
\* unmarked.  Nothing runs during the walk, so it is one step.
Sweep == /\ phase = "sweep"
         /\ objects' = objects \cap dark
         /\ refs' = [o \in Obj |-> IF o \in objects' THEN refs[o] ELSE {}]
         /\ text' = [o \in Obj |-> IF o \in objects' THEN text[o] ELSE NoText]
         /\ dark' = Cleared
         /\ phase' = "run"
         /\ UNCHANGED <<roots, strings, gray, routine>>

----------------------------------------------------------------------------
(* Allocation routines of object.c, one step per stretch of code between two *)
(* allocations.  What a routine returns, its caller pushes.                   *)

\* What a program can reach from the roots.
Reachable == {o \in Obj : \A S \in SUBSET Obj :
                (Roots \subseteq S /\ \A x \in S : refs[x] \subseteq S) => o \in S}

\* The interpreter may start an instruction that pushes up to n values.  Bound:
\* MaxStack.
Ready(n) == /\ phase = "run" /\ pc = "idle"
            /\ Len(stack) + n <= MaxStack

\* Bound: a collection always makes room for the n objects of a routine, so that
\* the finite heap of the model is never the reason a routine waits.
Room(n) == Cardinality(Reachable) + n <= Cardinality(Obj)

Hold(s, o) == Append(s, o)

Interned(t) == {s \in strings : text[s] = t}

Call(label, who, a, t) == /\ pc' = label /\ caller' = who /\ arg' = a /\ want' = t
                          /\ obj' = None

Return == Call("idle", "none", None, NoText)

Goto(label) == pc' = label /\ UNCHANGED <<caller, arg, obj, want>>

\* Every caller pushes the string it is answered, then goes on to its own next
\* allocation if it has one.
Answer == \/ caller = "newInstance" /\ Goto("setClass")
          \/ caller = "newResultError" /\ Goto("result")
          \/ caller \in {"push", "takeString"} /\ Return

\* newInstance(klass), called with klass on the stack; newClass, newModule and
\* defineNative have the same shape.
NewInstance(t) ==
  /\ Ready(2) /\ Room(2) /\ stack # <<>>
  /\ Call("object", "newInstance", Top, t)
  /\ UNCHANGED <<heap, roots, strings, collector>>

AllocateObject ==
  /\ phase = "run" /\ pc = "object"
  /\ \E o \in Obj \ objects :
       /\ objects' = objects \cup {o}
       /\ refs' = [refs EXCEPT ![o] = {arg}]
       /\ obj' = o
       /\ stack' = Hold(stack, o)
  /\ pc' = "find"
  /\ UNCHANGED <<text, globals, strings, collector, caller, arg, want>>

\* copyString, called for a string value or for the message of a Result.
CopyString(t, who) ==
  /\ Ready(1) /\ Room(2)
  /\ Call("find", who, None, t)
  /\ UNCHANGED <<heap, roots, strings, collector>>

\* The caller of takeString allocates the characters before the lookup.
TakeString(t) ==
  /\ Ready(1) /\ Room(1)
  /\ Call("chars", "takeString", None, t)
  /\ UNCHANGED <<heap, roots, strings, collector>>

FindString ==
  /\ phase = "run" /\ pc = "find"
  /\ \/ /\ Interned(want) = {}
        /\ Goto(IF caller = "takeString" THEN "string" ELSE "chars")
        /\ UNCHANGED stack
     \/ \E s \in Interned(want) : stack' = Append(stack, s) /\ Answer
  /\ UNCHANGED <<heap, globals, strings, collector>>

AllocateChars ==
  /\ phase = "run" /\ pc = "chars"
  /\ Goto(IF caller = "takeString" THEN "find" ELSE "string")
  /\ UNCHANGED <<heap, roots, strings, collector>>

AllocateString ==
  /\ phase = "run" /\ pc = "string"
  /\ \E o \in Obj \ objects :
       /\ objects' = objects \cup {o}
       /\ text' = [text EXCEPT ![o] = want]
       /\ stack' = Append(stack, o)
  /\ Goto("intern")
  /\ UNCHANGED <<refs, globals, strings, collector>>

\* tableSet on the pool, whose table may have grown first; then the string is
\* popped, returned, and pushed again by the caller.
InternString ==
  /\ phase = "run" /\ pc = "intern"
  /\ strings' = strings \cup {Top}
  /\ Answer
  /\ UNCHANGED <<heap, roots, collector>>

\* tableSet on the new object, the two pops, and callValue's store of it in the
\* place of the class.
SetClass ==
  /\ phase = "run" /\ pc = "setClass"
  /\ refs' = [refs EXCEPT ![obj] = @ \cup {Top, arg}]
  /\ stack' = Append(Pop(stack, 3), obj)
  /\ Return
  /\ UNCHANGED <<objects, text, globals, strings, collector>>

\* newResultSuccess pushes its argument, newResultError its message.
NewResultSuccess ==
  /\ Ready(1) /\ Room(1) /\ stack # <<>>
  /\ stack' = Append(stack, Top)
  /\ Call("result", "newResultSuccess", None, NoText)
  /\ UNCHANGED <<heap, globals, strings, collector>>

\* newResult, the pop of its value, and the caller's push of the Result.
AllocateResult ==
  /\ phase = "run" /\ pc = "result"
  /\ \E o \in Obj \ objects :
       /\ objects' = objects \cup {o}
       /\ refs' = [refs EXCEPT ![o] = {Top}]
       /\ stack' = Append(Pop(stack, 1), o)
  /\ Return
  /\ UNCHANGED <<text, globals, strings, collector>>

----------------------------------------------------------------------------
(* Instructions that move pointers. *)

\* Push a global, or a field of the object on top.
Load == /\ Ready(1)
        /\ \E o \in globals \cup (IF stack = <<>> THEN {} ELSE refs[Top]) :
             stack' = Append(stack, o)
        /\ UNCHANGED <<heap, globals, strings, collector, routine>>

Discard == /\ Ready(0) /\ stack # <<>>
           /\ stack' = Pop(stack, 1)
           /\ UNCHANGED <<heap, globals, strings, collector, routine>>

DefineGlobal == /\ Ready(0) /\ stack # <<>>
                /\ globals' = globals \cup {Top}
                /\ Cardinality(globals') <= MaxRoots
                /\ stack' = Pop(stack, 1)
                /\ UNCHANGED <<heap, strings, collector, routine>>

\* The last root that held g is overwritten.
DropGlobal(g) == /\ Ready(0)
                 /\ globals' = globals \ {g}
                 /\ UNCHANGED <<heap, stack, strings, collector, routine>>

\* receiver.field = value: tableSet may grow the receiver's table.
SetField == /\ Ready(0) /\ Len(stack) >= 2
            /\ text[stack[Len(stack) - 1]] = NoText
            /\ Call("field", "setField", None, NoText)
            /\ UNCHANGED <<heap, roots, strings, collector>>

\* The field is new, or held a pointer to old.
StoreField == /\ phase = "run" /\ pc = "field"
              /\ LET receiver == stack[Len(stack) - 1]
                 IN \E old \in {{}} \cup {{o} : o \in refs[receiver]} :
                      /\ refs' = [refs EXCEPT ![receiver] = (@ \ old) \cup {Top}]
                      /\ Cardinality(refs'[receiver]) <= MaxFields
              /\ stack' = Pop(stack, 2)
              /\ Return
              /\ UNCHANGED <<objects, text, globals, strings, collector>>

----------------------------------------------------------------------------
Collector == Collect \/ Blacken \/ RemoveWhite \/ Sweep

Routine == \/ AllocateObject \/ FindString \/ AllocateChars \/ AllocateString
           \/ InternString \/ SetClass \/ AllocateResult \/ StoreField

Instruction == \/ \E t \in Text : NewInstance(t)
               \/ \E t \in Text, who \in {"push", "newResultError"} : CopyString(t, who)
               \/ \E t \in Text : TakeString(t)
               \/ NewResultSuccess
               \/ Load \/ Discard \/ DefineGlobal \/ SetField
               \/ \E g \in globals : DropGlobal(g)

Next == Collector \/ Routine \/ Instruction

\* collectGarbage is a sequence of loops that nothing interrupts.
Spec == Init /\ [][Next]_vars /\ WF_vars(Blacken \/ RemoveWhite \/ Sweep)

----------------------------------------------------------------------------
TypeOK ==
  /\ objects \subseteq Obj /\ refs \in [Obj -> SUBSET Obj]
  /\ text \in [Obj -> Text \cup {NoText}]
  /\ stack \in Seq(Obj) /\ globals \subseteq Obj /\ strings \subseteq Obj
  /\ phase \in {"run", "mark", "sweep"}
  /\ gray \subseteq dark /\ dark \subseteq Obj
  /\ phase # "mark" => gray = {}
  /\ phase = "run" => dark = {}
  /\ pc \in AllocationPoints \cup {"idle", "find"}
  /\ caller \in {"none", "newInstance", "push", "takeString", "newResultSuccess",
                "newResultError", "setField"}
  /\ arg \in Obj \cup {None} /\ obj \in Obj \cup {None} /\ want \in Text \cup {NoText}

\* The pointers a C routine still uses: newInstance's argument, and the object
\* it builds from the moment it exists.
Locals == IF caller = "newInstance" /\ pc \in {"find", "chars", "string", "intern", "setClass"}
          THEN {arg, obj} ELSE IF pc = "object" THEN {arg} ELSE {}

\* No pointer the program can follow leads to freed memory: not from the stack
\* or another root, not from a C local of a routine in which the collector has
\* just run, not from a string in the pool, and not from any object.
NoDangling ==
  /\ Roots \subseteq objects
  /\ Locals \subseteq objects
  /\ strings \subseteq objects
  /\ \A o \in objects : refs[o] \subseteq objects

\* A collection frees exactly what is unreachable when it ends.
CollectsAllGarbage ==
  [][phase = "sweep" /\ phase' = "run" => objects' = Reachable']_vars

\* Equality of strings is equality of pointers (valuesEqual), so two strings a
\* program can reach never have the same content: the lookup before a string is
\* allocated and its insertion into the pool may be separated by a collection,
\* and a string leaves the pool only when it is freed.
StringsCanonical ==
  \A s, t \in {o \in Reachable : text[o] # NoText} : text[s] = text[t] => s = t

\* collectGarbage comes back.
CollectionEnds == phase # "run" ~> phase = "run"
============================================================================
