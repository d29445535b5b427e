------------------------------ MODULE Imports -------------------------------
(***************************************************************************)
(* import statements: the IMPORT instructions of vm/vm.c, in the order     *)
(* importStatement and fromImportStatement of vm/compiler.c emit them.     *)
(*                                                                         *)
(* IMPORT leaves the module in the global register vm->lastModule, runs    *)
(* the file if it has not been imported before, and a later instruction    *)
(* binds a name to what the register holds then.  In between, the file's   *)
(* own code runs and imports other files through the same register;        *)
(* IMPORT_END is there to put it back.                                     *)
(***************************************************************************)
EXTENDS Naturals, Sequences, FiniteSets

CONSTANTS Files,       \* what can be imported
          Main,        \* the script
          None,        \* no module
          LateImports, \* whether functions contain import statements
          MaxFrames    \* bound: call frames

ASSUME ImportsAssumption == /\ Main \notin Files
                            /\ None \notin Files \cup {Main}
                            /\ LateImports \in BOOLEAN
                            /\ MaxFrames \in Nat \ {0}

VARIABLES modules,     \* vm->modules
          lastModule,  \* vm->lastModule
          frames,      \* the frames' modules; body: top-level code, not a function;
                       \* importing: the file named by the import under way
          executed,    \* the files whose top-level code has ended
          bound        \* the module the last import bound, if it did

vars == <<modules, lastModule, frames, executed, bound>>

Last == Len(frames)

Frame(m, isBody) == [module |-> m, body |-> isBody, importing |-> None]

----------------------------------------------------------------------------
\* Plausible slips, used to show that the properties can fail.

\* newModule does not enter the module into vm->modules.
BrokenRegistered(m) == modules

\* IMPORT_END is missing.
BrokenRestored == lastModule

\* A file that is found is taken for one that has been imported.
BrokenIsImported(m) == m \in Files

\* IMPORT sets the register only when it runs the file.
BrokenFound(m) == lastModule
----------------------------------------------------------------------------

Init == /\ modules = {Main}
        /\ lastModule = None
        /\ frames = <<Frame(Main, TRUE)>>
        /\ executed = {}
        /\ bound = None

Running == frames # <<>> /\ frames[Last].importing = None

Registered(m) == modules \cup {m}

IsImported(m) == m \in modules

Found(m) == m

\* IMPORT of a file for the first time: newModule, compile, and call() on its
\* top-level code.
ImportFile(m) ==
  /\ Running /\ ~ IsImported(m)
  /\ frames[Last].body \/ LateImports
  /\ Last < MaxFrames
  /\ modules' = Registered(m)
  /\ lastModule' = m
  /\ frames' = Append([frames EXCEPT ![Last].importing = m], Frame(m, TRUE))
  /\ bound' = None
  /\ UNCHANGED executed

\* IMPORT of a file again.
ImportAgain(m) ==
  /\ Running /\ IsImported(m)
  /\ frames[Last].body \/ LateImports
  /\ lastModule' = Found(m)
  /\ frames' = [frames EXCEPT ![Last].importing = m]
  /\ bound' = None
  /\ UNCHANGED <<modules, executed>>

Restored == frames[Last].module

\* What follows IMPORT: IMPORT_VARIABLE or IMPORT_FROM, unless the statement
\* binds nothing, and IMPORT_END.
FinishImport ==
  /\ frames # <<>> /\ frames[Last].importing # None
  /\ bound' \in {lastModule, None}
  /\ lastModule' = Restored
  /\ frames' = [frames EXCEPT ![Last].importing = None]
  /\ UNCHANGED <<modules, executed>>

\* A call of a function that module m has defined so far.
CallFunctionOf(m) ==
  /\ Running /\ Last < MaxFrames
  /\ frames' = Append(frames, Frame(m, FALSE))
  /\ UNCHANGED <<modules, lastModule, executed, bound>>

Return ==
  /\ Running
  /\ frames' = SubSeq(frames, 1, Last - 1)
  /\ executed' = IF frames[Last].body THEN executed \cup {frames[Last].module} ELSE executed
  /\ UNCHANGED <<modules, lastModule, bound>>

Next == \/ \E m \in Files : ImportFile(m) \/ ImportAgain(m)
        \/ \E m \in modules : CallFunctionOf(m)
        \/ FinishImport
        \/ Return

Spec == Init /\ [][Next]_vars

----------------------------------------------------------------------------
\* Every variable has its type; the register and the frames hold modules the
\* virtual machine knows.
TypeOK ==
  /\ modules \subseteq Files \cup {Main}
  /\ lastModule \in modules \cup {None}
  /\ frames \in Seq([module : modules, body : BOOLEAN, importing : Files \cup {None}])
  /\ executed \subseteq modules
  /\ bound \in modules \cup {None}

\* Files that import each other end: the top-level code of a file runs once, so
\* no file has two frames for it, and none that has ended.
RunsOnce ==
  /\ \A k, n \in DOMAIN frames :
       frames[k].body /\ frames[n].body /\ frames[k].module = frames[n].module => k = n
  /\ \A k \in DOMAIN frames : frames[k].body => frames[k].module \notin executed

\* docs/docs/modules.md: "This will import the module into the current namespace
\* under the SomeModule identifier."  The module an import binds is the one it
\* names, whatever the file imports, directly or in a circle, when it is run.  It
\* is so as long as only top-level code imports; after a function of another
\* module has imported something, IMPORT_END has left that module in the register.
BindsNamed ==
  [][ bound' # bound => bound' \in {None, frames[Last].importing} ]_vars

\* The module an import binds has all its variables, unless it is one whose own
\* top-level code is waiting for this import to end.
NeverHalfLoaded ==
  [][ bound' # bound => \/ bound' \in executed \cup {None}
                        \/ \E k \in DOMAIN frames : frames[k].body /\ frames[k].module = bound' ]_vars
============================================================================
