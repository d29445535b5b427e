# Dictu in TLA+

TLA+ models of the Dictu interpreter (`src/src/vm` and what it needs), the
configurations that check them with TLC, and theorems about them that TLAPS
proves for every value of the constants. Every definition that models code names
its lines in `PROJECT.json` ("map"). Paths below are relative to `src/src/vm`
unless they start with `src/`.

## The system

Dictu compiles a file in one pass to bytecode and runs it on a stack machine with
a mark-and-sweep collector. There is one thread. What makes it hard is not
parallelism but re-entrance: an allocation may run the collector in the middle of
a C routine, a native function may call back into the interpreter, an `import` runs
another file inside the importing one, and hash tables are rebuilt under the
operations that use them.

| Component | State | Operations | What must hold |
|---|---|---|---|
| Hash table (`table.c`): module variables, methods, attributes, string pool | `entries`, `capacity`, `count` | get, set, delete, add-all, remove-white, find-string | it is a map; probes end; no key is lost behind a gap |
| Collector (`memory.c`) | list of objects, dark bits, gray stack | mark, blacken, prune the pool, sweep | nothing reachable is freed, nothing unreachable survives, it ends |
| Allocation (`object.c`) | the VM stack as a place to root what C holds; the pool | `newInstance`, `copyString`, `takeString`, `newResult…` | what a routine holds survives; one object per string content |
| Dictionaries (`value.c`, `datatypes/dicts`) | `entries`, `capacityMask`, `count`, `activeCount` | get, exists, set, remove, copy, len, truthiness | it is a map; `len()` is its size |
| Sets (`value.c`, `datatypes/sets.c`) | `entries` with `deleted` flags, `count` | `set()`, add, remove, contains | it is a set; calls return |
| Lists (`datatypes/lists`, `value.c`) | `values`, `count`, `capacity` | push, insert, pop, remove, reverse, subscripts | it is a sequence; indices stay inside |
| Queue (`src/src/optionals/queue.c`) | ring buffer: `dq`, `front`, `rear`, `count`, `capacity` | push, pop, peek, grow, shrink, gray | first in, first out; the collector keeps what is stored |
| Calls (`vm.c`) | value stack, frames, nested `run()`s | CALL, RETURN, natives, `callFunction` | frames nest; a callback stops where it should |
| Arguments (`vm.c`, `compiler.c`) | the same stack and frames | `callValue`, `invoke`, `call`, DEFINE_OPTIONAL, SET_INIT_ATTRIBUTES | every parameter has its value, however the function was called |
| Closures (`vm.c`) | closures, upvalues, `openUpvalues` | CLOSURE, GET/SET_UPVALUE, CLOSE_UPVALUE | lexical scoping |
| Classes and instances (`vm.c`, `object.c`, `compiler.c`) | method, attribute, variable and constant tables; `privateVariables` | CLASS, SUBCLASS, USE, METHOD, END_CLASS, attribute access, invoke | a name finds the method or attribute that the text gives it |
| Imports (`vm.c`, `compiler.c`) | `modules`, `lastModule` | IMPORT…, IMPORT_END | an import binds the file it names; a file runs once |
| Compiler (`compiler.c`) | locals, scopes, upvalues, loops, chunk under construction | declarations, statements, jumps | names find their slots on every path; scopes and files are closed on every exit |
| Rest of the interpreter loop (`vm.c`) | stack | arithmetic, strings, slices, enums | stack effects |
| Scanner (`scanner.c`) | position | next token | – |
| Strings, numbers, enums, results, files (`datatypes`) | values | methods | – |
| Modules in C (`src/src/optionals`): Stack, Buffer, JSON, HTTP, Socket, Process, System, Path, Env, IO, Math, Datetime, Log, SQLite, FFI, … | per object | methods | – |
| Command line, REPL (`src/src/cli`) | – | run a file, a line | errors leave the machine usable |

Interactions: every component allocates through `reallocate`, which calls the
collector; the collector reads the roots (VM stack, frames, open upvalues, method
and module tables) and calls back into `table.c` to prune the string pool.
`vm.c` keeps variables in tables, dictionaries and sets are values on its
stack, and native functions (`natives.c`, `datatypes`, `optionals`) reach it again
through `callFunction`. The compiler and the machine share `vm->constants`, the
protocol of the IMPORT instructions, and above all an agreement nobody checks at
run time: which slot of the stack holds which local.

`PROJECT.json` lists every component with its status and, under "hazards", the
places where this code can go wrong in a way that is hard to test, with the
property that guards each, or the reason why none does yet.

## Modules

`MC…` modules give the constants of small instances, and symmetry.

**`Growth`** – the macros by which every array of the interpreter changes its size.

**`Probing`** – open addressing with linear probing and tombstones: `findEntry`,
`findDictEntry`. Operators only. A table is a
function from slots to contents; `Find` is where the C loop stops, and has no
value when the loop would not stop, so a run in which it could not would fail.

**`MapSpec`** – the abstract specification of a map: the bindings, the
last answer, `Get`, `Has`, `Put`, `Remove`, and `Purge` for what a collection drops.

**`Table`** – `table.c`. `tableSet` is a sequence of steps: `Start`, `Grow` (the
test of the load), `Allocate`, one `Move` per slot of the old array, `Install`,
`Store`. `TableRemoveWhite` is the collector's call and may come at the allocation.
`todo` holds the bindings a `tableSet` or `tableAddAll` has still to store.

**`Memory`** – `memory.c` with the allocation routines of `object.c`. A routine is a
sequence of steps, one per stretch between two allocations; `pc` names the
allocation it is at, and `Collect` may fire at each of them. The collector is
`Collect`, `Blacken` per object, `RemoveWhite`, `Sweep`. Instructions that move
pointers (`Load`, `Discard`, `DefineGlobal`, `DropGlobal`, `SetField`) stand for
the rest of the machine: `refs[o]` is the set of all pointers in `o`, whatever
its type; `globals` stands for the roots other than the stack. The thresholds
that decide whether an allocation collects are abstracted to "it may".

**`Dict`** – dictionaries. No operation on one calls back into the program, so each is
one step; a rehash is a recursive function over the slots, in their order, and so is a
copy.

**`ValueSet`** – sets. `findSetEntry` is one step per slot, because whether it ends is
the question. A removed value stays in its slot with `deleted` set. A rehash
into fewer slots than elements has no last step (`ShrinkEnds`).

**`FifoSpec`**, **`SequenceSpec`** – the abstract specifications of a queue and of a list: a
sequence and the last answer.

**`Queue`** – `optionals/queue.c`. `QueuePush` is the whole of `queuePush` with its growth,
in whose allocation a collection may come, after the capacity is set and before the
array is; `QueuePop` is the whole of `queuePop` with its shrink; `QueueCollect` is
a collection between two calls. Objects are numbered in the order they are
pushed, and the program keeps none of them, so what `grayQueue` does not mark is
freed. `bent` records the two situations the code does not allow for.

**`Lists`** – list methods and subscripts over one `ValueArray`. Slots behind the last
element keep what they held; `beyond` marks the one call that can see it.

**`MCContainers`** composes `Dict`, `ValueSet`, `Queue` and `Lists`: they share no state, so
a behaviour is that of one of them.

**`LexicalSpec`** – the abstract specification of variables: names, what each sees,
and which names are the same variable.

**`Calls`** – the value stack, frames, natives, closures and upvalues. `Call` and
`Return` are the instructions, with the pushes of callee and arguments;
`CallNative`, `CallFunction`, `NativeReturn` and the first case of `Return` are a
native function and its callbacks; `natives[k].breakFrame` is the argument of
the nested `run()`. A `CLOSURE` instruction is `NewClosure`, one
`CaptureLocal` or `CaptureUpvalue` per upvalue, `ClosureDone`. The stack in the
model is numbered from 1. What the compiler guarantees is a guard: a local that
a function captures is dropped by `CLOSE_UPVALUE`, never by `POP`.

**`Arguments`** – from the caller's push to the first instruction of the body. `Call` is
`callValue` or `invoke` with HANDLE_UNPACK, the seat of the receiver and `call`;
the four ways to call() besides a closure differ in what is at the callee's
place. `ComputeDefault` is the code of one default expression, `DefineOptional` and
`SetInitAttributes` are the instructions. `Expected` says what a caller may
expect, by recursion over the parameters and without a stack.

**`Classes`** – classes, traits, one instance. The compiler's and the machine's part of a
class member are one action (`DefineMethod`, `Use`, `DeclarePrivate`, `SetClassVar`),
since a class body compiles to straight code that runs once. A method remembers
which names were private when it was compiled (`knows`). `text` is the source
text, from which `Meaning` says what each name stands for without copied tables.

**`Scopes`** – `compiler.c` as a state machine that reads a program construct by
construct, and the run of the code it has emitted. `compilers` is the chain of
`Compiler` structs with locals, upvalues, loops and code; `open` is the C stack
of the recursive descent. The program read is arbitrary: `Reads` picks any
construct of the grammar at hand. `env` is the meaning of the text, kept
apart from the compiler: the declaration each name in scope stands for.
Instructions carry the declaration they are meant for (`means`, `id`), and so do
the machine's stack slots, so the machine shows whether the slot holds it. The
machine runs the outermost function; branches go both ways.
`idioms` records what a program does that the compiler is known to get wrong.

`Scopes` discharges what `Calls` assumes of the compiler: `CapturedAreClosed` says
that no captured local is dropped by POP.

**`MemoryProofs`**, **`ProbingProofs`**, **`TableProofs`**, **`CallsProofs`**, **`ScopesProofs`**
and **`ImportsProofs`** hold the theorems about the modules they are named after,
**`ContainersProofs`** those about `Dict`, `ValueSet`, `Queue` and `Lists`, **`InvokeProofs`** those
about `Classes` and `Arguments`; see below.

**`Imports`** – an import statement is `ImportFile` or `ImportAgain` (the IMPORT
instruction), the whole run of the file if it is new, and `FinishImport` (the
binding and IMPORT_END). `LateImports` says whether functions contain imports.

## Runs

| Run | Properties | Shows |
|---|---|---|
| `table` | `TypeOK` `LoadBounded` `Reachable` `ImplementsMap` | a table is a map and its probes end, whatever is collected during a growth |
| `memory` | `TypeOK` `NoDangling` `StringsCanonical` `CollectsAllGarbage` | a collection at any allocation of any routine is safe and complete |
| `memory_ends` | `CollectionEnds` | a collection ends on cyclic heaps |
| `containers` | `TypeOK` `DictLoadBounded` `LenIsSize` `DictIsMap` | a dictionary is a map, through growth, shrinking and copies |
| | `Membership` | a call on a set that returns has the right effect and answer |
| | `FifoUnlessBent` `StoredIsGrayed` `OnlyStoredIsGrayed` | a queue is first in, first out until it is full and wrapped; what a collection keeps of it |
| | `ListIsSequence` | a list is a sequence, but for an index one too far |
| `queue_order` | `QueueIsFifo` – violated | a queue that grows while wrapped loses its order |
| `set_hang` | `CallsReturn` – violated | a search in a set full of removed values does not return |
| `calls` | `TypeOK` `OpenSorted` `FramesNested` `ImplementsLexical` | the upvalue list and the frames stay in order through natives and callbacks; slots and upvalues implement lexical scoping |
| `invoke` | `TypeOK` `ArgumentsBound` | parameters have their values in every frame, however it was called |
| | `MethodsResolve` `Instantiable` `ReadsAgree` `ConstantsFixed` | names find what the text of the classes gives them; constants stay |
| `imports` | `TypeOK` `RunsOnce` `BindsNamed` `NeverHalfLoaded` | imports at top level bind what they name, in circles too |
| `imports_late` | `BindsNamed` – violated | an import in a function makes an outer import bind the wrong module |
| `scopes` | `TypeOK` `NamesFound` `CapturesFound` `CapturedAreClosed` `EndsBalanced` | the code finds every variable on every path and leaves the stack as counted |
| | `ErrorsJust` `BreaksJump` `WithClosesUnlessLeft` | errors are reported exactly when there are any; breaks and files |
| `scopes_with` | `WithCloses` – violated | a break out of a with-statement leaves the file open |

The four violated properties quote the documentation; "findings" in `PROJECT.json`
gives the code and the sentence. Each behaviour was reproduced with the
interpreter built from this source. For `set_hang`: fill a set with six values,
then remove and add distinct values until all eight slots have been used. For
`imports_late`: `c.du` is `def f() { import "d.du"; }`, `a.du` imports `c.du` and
calls `f()`, and in the script `import "a.du" as A` binds `c.du` to `A`. For
`queue_order`: push eight values, pop one, push two.

### What passing properties except

Some properties hold but for a case in which the code does something else than one
may expect; the property then names the case as narrowly as it can, so that it
still says that there is no other. The cases, all reproduced with the interpreter:

- `LenIsSize`: a dictionary emptied by `remove()` has length 0 and is truthy, as
  `isFalsey` asks `count` (`src/docs/docs/collections/dictionaries.md:85`).
- `Membership`: removing a value that was just removed succeeds
  (`src/docs/docs/collections/sets.md:111`).
- `ListIsSequence`: `pop(len)` passes the test of the index.
- `StoredIsGrayed`, `OnlyStoredIsGrayed`: a full and wrapped queue is marked only up to the
  end of its array, and an empty one that has gone round is marked whole.
- `ArgumentsBound`: a needed default names an optional parameter that was not
  given while an earlier one was (`def f(a=1, b=2, c=b)`, called as `f(9)`).
- `MethodsResolve`: `this.f()` does not look at private attributes, though `this.f` does.
- `ConstantsFixed`: a constant can be shadowed through a subclass.
- `NamesFound`, `ErrorsJust`, and with them `CapturesFound`, `CapturedAreClosed`,
  `EndsBalanced` and `WithClosesUnlessLeft`: a class with a superclass within a scope leaves
  a slot that the compiler counts in this scope and not after it (`super` has no
  depth), so that two ways through a branch or a loop leave different stacks. At the top
  level it only leaves a value on the stack, which `EndsBalanced` counts.
- `CapturesFound`: `var r = g(def () => r);` in a scope captures the callee's slot.
- `ErrorsJust`: a function that is a local constant's own value may assign to it.
- `WithClosesUnlessLeft`: a break or continue leaves the file open, and a local in the slot
  of an earlier file is closed as if it were one.

### Bounds

- `table`: three keys whose homes are the last slots of an array of 8, so
  that they collide, wrap around and part in an array of 16; `MaxCapacity` 16
  lets it grow twice (from nothing, and once with entries). Tombstones, their
  reuse and the second count of a reused tombstone all occur; they are what
  makes three keys enough to fill six slots of eight.
- `memory`: four objects, one string content, a stack of three values, one
  other root, two pointers per object. The longest routine (`newInstance`) needs
  a class, an instance and a string, and the fourth object is garbage or a
  second root's. `Room` and `Ready` keep the finite heap from blocking a
  routine for want of cells. `memory_ends` has three objects because symmetry
  is not sound for liveness.
- `containers`: dictionaries with four keys, two values and capacities 8 and 16:
  growth, shrinking and a copy with another layout than the original. Sets of
  six values, four of them in two collisions, and arrays of 8 and 16. Queues of no
  slots (`newWithSize(0.5)` makes one), of 8 and of 9, which grow to 16 and 18 and shrink
  again, the odd size for a front that is not aligned; three objects are enough to tell neighbours in the
  queue from each other. Lists of up to eight elements of two values: every
  movement of elements within an array; only the growth from nothing, so a
  growth that loses elements would show in the queue and not in the list.
  Values of dictionaries and elements of lists are only compared: symmetry is sound.
- `set_hang` has nine values, the number it takes to hang a set of
  eight slots, and starts from a set of six.
- `calls`: four stack slots, four frames (script, `callFunction`'s own, callback,
  and one it calls), two closures of two variables: two closures capture
  the same two locals in either order, one outlives them, and a callback has
  captures of its own.
- `invoke`: functions with up to three parameters, which are all combinations of
  required, optional (own or naming another) and spread ones that the code
  distinguishes; one argument too many; three frames. For classes: one name,
  as every table is keyed by the name and no operation relates two; three
  classes and three members, which give chains of three and a trait used by a class
  whose superclass has the method. Methods on one side and attributes and class
  variables on the other are explored apart (`About`).
- `imports`: three files and six frames: a circle of three and functions
  called in between; `imports_late` needs four frames.
- `scopes`: two names, nine grammars of four to five kinds of construct, and programs
  of four or five constructs: each grammar groups constructs that
  act on the same part of the compiler's state (captured locals and loops;
  functions three deep; initializers; constants; files and exits; a for's own scope;
  switch and if; subclasses). Nesting is as deep as a program of that size allows.

Growth bounds are guards (`Start`, `SubscriptAssign`, `AddSetItem`, `QueuePush`, `Call`, …) that
stop the program from starting what would exceed them; no bound cuts an
operation short.

### Fairness and deadlock

`Memory` assumes weak fairness of the collector's own loop steps: `collectGarbage`
runs to its end before anything else does. `ValueSet` assumes it of `ProbeNext` and
`FinishProbe`: the interpreter is one thread, and a loop that can take another turn
takes it. Programs are not assumed to do anything. Deadlock is checked except in
`Imports`, where a script ends by returning from its top-level code, in `Scopes`, where
the machine stops at the end of the code and the parser at an error, and in
`invoke`, where the classes that are allowed may all be declared and none of them
have instances.

## Proofs

TLAPS proves the following for every value of the constants: keys, hashes, sizes,
stacks, frames, closures, files and bounds are arbitrary, within the assumptions
below. Where a theorem states a property, TLC checks the same definition in the
run above, and the two together say that it holds in general and is not empty.

| Module | Theorem | States | Of |
|---|---|---|---|
| `MemoryProofs` | `MemorySafe` | `NoDangling` | the collector and the allocation routines |
| | `GarbageFreed` | `CollectsAllGarbage` | |
| | `StringsAreInterned` | `StringsCanonical` | |
| `ProbingProofs` | `FindFacts` | where `findEntry` and `findDictEntry` stop | any array that has a gap |
| `TableProofs` | `ProbesEnd` | `LoadBounded` | hash tables, with collections inside a growth |
| | `NothingLost` | `Reachable` | |
| | `TableIsMap` | `ImplementsMap`: refines `MapSpec` | |
| `ContainersProofs` | `ProbesEnd` | `DictLoadBounded` | dictionaries, with rehashes and copies |
| | `LengthCorrect` | `LenIsSize` | |
| | `DictionaryIsMap` | `DictIsMap`: refines `MapSpec` | |
| | `SetMembership` | `Membership` | sets, step by step |
| | `StoredAreMarked` | `StoredIsGrayed` | queues |
| | `MarkedAreStored` | `OnlyStoredIsGrayed` | |
| | `FifoImplemented` | `FifoUnlessBent`: refines `FifoSpec` | |
| | `ElementsWritten` | what is in a list was put there | lists |
| | `SequenceImplemented` | `ListIsSequence`: refines `SequenceSpec` | |
| | `ContainersTypeCorrect` | `TypeOK` | the four together |
| `CallsProofs` | `UpvaluesSorted` | `OpenSorted` | calls, natives, callbacks, closures |
| | `CallsNest` | `FramesNested` | |
| | `LexicalScoping` | `ImplementsLexical`: refines `LexicalSpec` | |
| `InvokeProofs` | `Resolution` | `MethodsResolve` | classes, traits and an instance |
| | `Promises` | `Instantiable` | |
| | `Agreement` | `ReadsAgree` | |
| | `Constancy` | `ConstantsFixed` | |
| | `ParametersBound` | `ArgumentsBound` | arguments, defaults, unpacking |
| | `InvokeTypeCorrect` | `TypeOK` | arguments and classes together |
| `ScopesProofs` | `BreaksTurned` | `BreaksJump` | the compiler and the code it emits |
| | `ScopesTypeCorrect` | `TypeOK` | |
| `ImportsProofs` | `FilesRunOnce` | `RunsOnce` | imports, late ones too |
| | `ImportsBind` | `BindsNamed` if `~ LateImports` | imports at top level |
| | `BoundIsLoaded` | `NeverHalfLoaded` | |

For each component there is also a theorem `Invariance`, that its inductive invariant
`IInv` always holds, and `TypeCorrect`; where modules are about several components, the
names say which: `SetInvariance` of `SetInv`, `ClassesTypeCorrect`.

### Assumptions

They are the named `ASSUME`s of the modules: null values are not members of the sets
they are null for, bounds are natural numbers, and hashes are natural numbers,
whatever they are; `Undefined` is no method. Two kinds say more. `TableAssumption`,
`DictAssumption` and `ValueSetAssumption` bound capacities by 2^30: the code keeps them
in an `int`, and the next doubling would overflow. The literals a set is made from
have at most 2^14 values, as `set(...)` takes them from the stack (`STACK_MAX`). Only `ImportsBind` has a hypothesis, `~ LateImports`; without it the run
`imports_late` shows the property violated.

### Memory

`NoDangling` is not inductive. What makes it so is

- `Shape`: at each `pc` the stack is deep enough for the pops that follow, and
  the routine's locals are where the routine pushed them. Since the stack is a
  root, a collection at that point keeps them;
- `Closed`: roots, the pool and every live object point to live objects only;
- `Colours`: during marking every root is dark and a dark object that is not
  gray points to dark objects only; when the sweep begins nothing is gray and
  the pool is dark. So what the sweep frees, nothing that stays points to.

`IInv` is their conjunction with `TypeOK`. `CollectorStep`, `RoutineStep` and
`InstructionStep` show that the three groups of actions preserve it, one step per
action and conjunct.

`GarbageFreed` needs the converse: `Traced` says that each dark object is reachable.
A closed set of objects that contains the roots then contains everything
dark (`SweepLeavesReachable`), so what survives is exactly what is reachable.

`StringsAreInterned` rests on `PoolInv`: a string object that lives and is finished
is in the pool, the pool has one string per content, and from the moment
`copyString` has found nothing until it inserts, the pool has none of the wanted
content. A collection in between can only take strings out of the pool.

### Hash tables and dictionaries

`ProbingProofs` is about arrays alone. An array is *settled* if a probe for each key it
holds ends at that key's slot. If a settled array has an empty slot, a probe for
any key ends: at its slot, or else at a slot where it may be stored (`FindFacts`).
Storing there and turning an entry into a tombstone keep the array settled, the
latter because a tombstone does not end a probe. Neither fact depends on the
hash function.

A table's `IInv` adds the counting: `count` is at least the number of slots that are
not empty (it counts a reused tombstone twice) and `4 * count <= 3 * capacity`, so a
quarter of the slots is empty (`ProbesEnd`). `Order` says that the array, and during a
growth the new array too, are settled; `Copied` says that the new array holds exactly the
entries moved so far, and that `count` is their number, since tombstones are not moved;
`Planned` that what is still to be stored has room, now or after the growth under
way. The map is read off the settled array, so a step of a growth changes nothing of it
and each call does to it what `MapSpec` says.

A dictionary moves all its entries in one step, by a recursive function over the slots.
What it computes is proved in `ProbingProofs` in a form that needs no induction rule:
the stages that have the wanted property are a set of numbers, the smallest stage
that is not in it would contradict the step (`Least`, `UpTo`), and the recursive function is
the one function that has these stages (`Loop`, `LoopStays`). `HoldsFirst` is what is true
after n slots: the new array is settled and holds the first n slots' entries and no
tombstone. `InOrder` is the invariant of a dictionary; it differs from a table's in its second
counter, `activeCount`, which is the number of entries, and that capacities shrink:
they stay powers of two, so that `hash & capacityMask` stays a remainder, and the smaller
array still has room (`SizeShrinks`).

### Sets

A set differs in what ends a probe: an empty slot, or the value itself, deleted or not.
So every value in the array, deleted ones too, is where a probe for it gets to
(`AreReached`), and since no call empties a slot, this stays. Between the calls
`SetInOrder` adds that `count` is at most the number of elements, and 0 only when there
are none: a repeated removal makes it too low, so a growth comes late and a shrink
early, but never a shrink to nothing. `SetInv` adds the probe under way: it has
passed no slot that would have stopped it (`Reaches`). A rehash and `set(...)` start
from arrays without deleted values (`IsFresh`), where `count` is right and the array
has gaps, so the same loop lemmas apply. The theorem is about calls that return;
whether they do is `CallsReturn`.

### Queues and lists

A queue is a ring if `rear` is the slot before the one that `front + count` would be, going
round. That is inductive until the queue is grown while it is full and wrapped, and what
`grayQueue` marks, and in what order values leave, follows from it. A shrink moves the
values to the front of a new array and keeps the ring.

A list's invariant (`IsArray`) is that the slots before `count` have been written, and
`count` is within the capacity. Each operation's loop is shown to be an operation on
sequences: `InsertAt`, `RemoveAt`, `Reverse` of the community modules. The exception in
`ListIsSequence` does not break the invariant: the pop of the slot behind the last element
answers what is there, but leaves no unwritten slot in the list.

### Calls and closures

`IInv` has four parts. `Nested`: the frames' slots rise, each frame that `callFunction` made
up has its callback's frame above it and one native that waits for it, and natives
wait in the order of their frames. `Listed`: the open upvalues are listed by
falling slots, one for a slot, all within the stack. `OutsideNatives`: no open
upvalue points to a native's callee and argument, which a native's return drops without
closing anything. `CapturesInFrame`: only a running function makes closures.

For `LexicalScoping` the state is described by two tables: which names there are, and the
place of each name's variable, a stack slot or a closed upvalue. Two names are the same
variable if they have the same place. `RescopeStep` then covers every step that
pushes or cuts the stack, provided that it closes exactly what points above the cut
(`FallingCut` says that stopping at the first lower slot does), `StackAssigned` and
`UpvalueAssigned` the assignments, and `CaptureTables` the captures.

### Classes

`Meaning` gives what the text says class by class, from the superclass's and the
traits' meaning; the code copies tables. `ClassesInv` says of each class that its tables are
what one such step makes of its body, as far as it has been read, and of the finished
tables of its superclass and traits. Nothing changes those any more, as classes are
declared in order and a class body is over when the next begins. Two functions that
take the same step everywhere are the same, so the tables are the meaning
(`Resolution`), and what is abstract in a table is abstract in the meaning
(`Promises`). `ChainOf` is the line of superclasses: `ClassAttribute`
takes the nearest class on it that has the attribute, and `IsLooked` relates
the instance's own tables to what was last written (`Agreement`).

### Arguments

`ArgumentsInv` says of each frame what the part of the stack between its slots and the
next frame's holds. While defaults are computed (`IsDefaulting`) these are the callee, the
arguments, and the defaults so far; once DEFINE_OPTIONAL has run (`IsReady`), the
parameters' expected values, and above them only what calls from the body
left (`Left`). `IsLaid` is the form of a stack with a callee and arguments on top, which the
pushes, HANDLE_UNPACK, the receiver's seat and the gathering of a variadic
function's list each keep. `Expected` is recursive over the parameters; the values computed
so far are its first ones, since a default reads only parameters before it.

### Imports

`Loaded` says that a known module has run or has a frame; it gives `RunsOnce` and
`NeverHalfLoaded` also with late imports. Without them, the frames of files are each on top of
the frame that imports them (`Nested`), and `lastModule` is the file that the import under way
names, or else the file whose code runs (`Register`). A function's frame cannot change
it, since it imports nothing, and this is what `imports_late` breaks.

### The compiler

Code is patched later, when productions that were read in between have added to it, so
the invariant is about what is still open. `CodeInv` says that there is a mark for each open
production (`Parsed`): which compiler it belongs to, and at what scope depth and with how
many loops and scopes of the text its body is read. A compiler around a function is as the mark of
that function's production left it, with the local waiting that the function is the value of, and each
jump that a production remembers is still there to be patched. `IsSound` is
about one compiler: its loops' places are in its code, jumps lead to places within the code
or just behind it, and a BREAK lies in the body of the outermost loop that is still
open, so that none is left when that loop ends. What a production does to its compiler is stated
with `Like` and `Keeps` once for all of them; functions within it only mark locals and add
upvalues. So the finished code has no BREAK and jumps within itself (`Finished`).

### What is only model-checked

- Liveness: `CollectionEnds` and `CallsReturn`. The backends installed with TLAPS do no
  reasoning about fairness and ENABLED.
- Of `Scopes`: `NamesFound`, `CapturesFound`, `CapturedAreClosed`, `EndsBalanced`, `ErrorsJust`
  and `WithClosesUnlessLeft`. They need a stronger invariant, which relates the compilers'
  locals to the scopes of the text and gives every place in the code the one stack
  that reaches it.

## Not modelled

The map covers a small share of the repository's lines, and cannot cover much more:
nine tenths of them are SQLite, and most of the rest are other vendored code
(linenoise, utf8, big integers, JSON), tables, wrappers of system and library
calls, and conversions of characters and numbers. Of the interpreter proper
the map covers the parts that keep state.

Left out: characters, number formats, printing and messages; the scanner and the
grammar of expressions; I/O and system calls; vendored libraries. Of the modelled
components:

- `Table`: the cached `psl` field is never read by the code. `tableFindString`
  compares characters where `findEntry` compares pointers; interning (`Memory`) is
  what makes the two agree.
- `Memory`: the compiler's roots while it compiles, and memory that is not an
  object; `DEBUG_STRESS_GC` is one of the schedules covered by "may collect".
- `Lists`: `sort` (its comparison truncates differences to int, hazard at
  `datatypes/lists/lists.c:334`), slices, copies and `join`, which read only or
  recurse over data. A list extended with itself never ends.
- `Queue`: the sizes `newWithSize` refuses. `peek()` on an empty queue answers
  whatever the slot holds; the Stack module's does too.
- `Calls`, `Arguments`: runtime errors end the program, as the script runner does. In
  the REPL `resetStack` forgets the open upvalues without closing them, and a closure
  kept in a global then reads a slot in other use (hazard at `vm.c:35`). The
  array of 255 values in DEFINE_OPTIONAL (hazard at `vm.c:1089`).
- `Classes`: static methods, annotations, operators and the methods every instance
  has. An abstract class with an annotation crashes the compiler
  (`compiler.c:2083`: the class is defined, and popped, before it is annotated).
- `Scopes`: bytes. Instructions are whole, so what `getArgCount` does not know
  (enums and class variables in a loop, hazard at `compiler.c:2216`) and what
  `foldBinary` mistakes for a constant (`compiler.c:507`) are out of sight. Errors end
  the compilation, where the code goes on to look for more; a `continue` outside of
  a loop then reads through a null pointer (`compiler.c:2451`).
- `Imports`: failed compilations and errors in imported files, after which the
  script runner exits and the REPL goes on with the module registered, and in
  the first case with the frames of the failed line (hazard at `vm.c:1718`).

## Plan

Done: all modules above.

Next, in this order:

1. Errors in `Calls`, `Arguments` and `Imports` for the REPL: what a failed line leaves.
2. Instructions as bytes in `Scopes`: `getArgCount` and `foldBinary`.
3. Static methods and annotations in `Classes`; the Stack module.

Theorems worth proving next: those of `Scopes`. For `BreaksJump`, every BREAK lies within a
loop that is still open; for `ErrorsJust`, locals and upvalues say what `env` says;
for the others, each instruction has a stack layout that its predecessors produce.
