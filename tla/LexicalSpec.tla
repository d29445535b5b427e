----------------------------- MODULE LexicalSpec ----------------------------
(***************************************************************************)
(* What local variables and closures promise a program: lexical scoping.   *)
(* A variable may have several names, the local it was declared as and a   *)
(* place in every closure that captures it.  All of them see every         *)
(* assignment to it, none sees an assignment to another variable, and      *)
(* those in closures outlive the local.                                    *)
(*                                                                         *)
(* A name is <<"local", i>>, the i-th of all locals that are in scope, or  *)
(* <<"captured", c, j>>, the j-th variable captured by closure c.          *)
(***************************************************************************)
EXTENDS Naturals, FiniteSets

VARIABLES value,    \* value[n]: what name n sees
          aliases   \* aliases[n]: the names of n's variable

Names == DOMAIN value

IsLocal(n) == n[1] = "local"

\* The names that remain when only the first k locals stay in scope.
Kept(k) == {n \in Names : IsLocal(n) => n[2] <= k}

Init == /\ Names = {}
        /\ DOMAIN aliases = {}

\* An assignment through any name of a variable.
Assign == /\ DOMAIN value' = Names
          /\ \E n \in Names :
               LET seen == aliases[n]
               IN \A m \in Names : value'[m] = IF m \in seen THEN value'[n] ELSE value[m]
          /\ aliases' = aliases

\* Scopes end and locals are declared: also what a call and a return do.
Rescope ==
  \E k \in 0 .. Cardinality(Names) :
    LET kept  == Kept(k)
        fresh == DOMAIN value' \ kept
    IN /\ kept \subseteq DOMAIN value'
       /\ \A n \in fresh : IsLocal(n) /\ n[2] > k
       /\ \A n \in kept : value'[n] = value[n]
       /\ aliases' = [n \in DOMAIN value' |->
                        IF n \in kept THEN aliases[n] \cap kept ELSE {n}]

\* A closure captures the variable that n names.
Capture ==
  \E new \in DOMAIN value' \ Names :
    /\ ~ IsLocal(new)
    /\ DOMAIN value' = Names \cup {new}
    /\ \A m \in Names : value'[m] = value[m]
    /\ \E n \in Names :
         LET all == aliases[n] \cup {new}
         IN /\ value'[new] = value[n]
            /\ aliases' = [m \in DOMAIN value' |-> IF m \in all THEN all ELSE aliases[m]]

Spec == Init /\ [][Assign \/ Rescope \/ Capture]_<<value, aliases>>
=============================================================================
