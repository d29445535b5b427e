---------------------------- MODULE MCContainers ----------------------------
(***************************************************************************)
(* Small instances of the containers for TLC.  Containers do not share     *)
(* state, so a behaviour is that of one of them.                           *)
(***************************************************************************)
EXTENDS Dict, ValueSet, Queue, Lists, TLC

CONSTANTS k1, k2, k3, k4

VARIABLE kind  \* the container this behaviour is about

vars == <<kind, dictVars, setVars, queueVars, listVars>>

\* k1, k2 and k3 start at the last slots of the smallest dictionary, where k1 and
\* k2 collide and wrap around into k4's home; in 16 slots k1 and k2 part.
MCHash == k1 :> 7 @@ k2 :> 15 @@ k3 :> 6 @@ k4 :> 16

\* With eight slots, 1 and 9 share a home, and so do 7 and 15.
MCMemberHash == [v \in Members |-> v]

MCLiterals == {<<>>}

\* What dictionaries and lists hold is only compared.
Alike == Permutations(Values) \cup Permutations(ListElements)

Init == /\ kind \in {"dict", "set", "queue", "list"}
        /\ DictInit /\ SetInit /\ QueueInit /\ ListInit
        /\ kind # "queue" => queue.capacity = DefaultCapacity

Next == \/ kind = "dict" /\ DictNext /\ UNCHANGED <<kind, setVars, queueVars, listVars>>
        \/ kind = "set" /\ SetNext /\ UNCHANGED <<kind, dictVars, queueVars, listVars>>
        \/ kind = "queue" /\ QueueNext /\ UNCHANGED <<kind, dictVars, setVars, listVars>>
        \/ kind = "list" /\ ListNext /\ UNCHANGED <<kind, dictVars, setVars, queueVars>>

Spec == Init /\ [][Next]_vars

\* Every variable of every container has its type.
TypeOK == DictTypeOK /\ SetTypeOK /\ QueueTypeOK /\ ListTypeOK
=============================================================================
