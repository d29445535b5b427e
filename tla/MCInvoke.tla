------------------------------ MODULE MCInvoke ------------------------------
(***************************************************************************)
(* Small instances of calls for TLC.  Finding a method and handing it its  *)
(* arguments share no state, so a behaviour is about one of them; and of   *)
(* classes, about their methods or about their attributes and variables.   *)
(***************************************************************************)
EXTENDS Arguments, Classes, TLC

VARIABLE kind  \* what this behaviour is about

vars == <<kind, argumentsVars, classesVars>>

F(arity, isVariadic, defaults) ==
  [arity |-> arity, isVariadic |-> isVariadic, defaults |-> defaults]

\* Defaults of their own, defaults that name an earlier parameter, spread ones.
MCFunctions ==
  {F(2, FALSE, <<>>), F(0, FALSE, <<0, 1>>), F(0, FALSE, <<0, 0, 2>>),
   F(1, FALSE, <<0, 1>>), F(1, TRUE, <<>>), F(2, TRUE, <<>>)}

\* What is stored in attributes and class variables is never looked at.
Alike == Permutations(Contents)

\* Of class bodies, what each kind of behaviour is about.
Members(k) == IF k = "methods" THEN {"public", "private", "abstract", "use"}
                               ELSE {"public", "attribute", "const", "var"}

About(k) ==
  /\ \A c \in DOMAIN text' : \A i \in DOMAIN text'[c] : text'[c][i].kind \in Members(k)
  /\ k = "methods" => \A c \in DOMAIN classes' : classes'[c].variables = Blank
  /\ k = "fields" => \A c \in DOMAIN classes' : classes'[c].type = "default"

Init == kind \in {"arguments", "methods", "fields"} /\ ArgumentsInit /\ ClassesInit

Next == \/ kind = "arguments" /\ ArgumentsNext /\ UNCHANGED <<kind, classesVars>>
        \/ kind # "arguments" /\ ClassesNext /\ About(kind) /\ UNCHANGED <<kind, argumentsVars>>

Spec == Init /\ [][Next]_vars

\* Every variable of both has its type.
TypeOK == ArgumentsTypeOK /\ ClassesTypeOK
=============================================================================
