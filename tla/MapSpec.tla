------------------------------ MODULE MapSpec ------------------------------
(***************************************************************************)
(* What a hash container of the interpreter promises its callers: a finite *)
(* partial map from keys to values, and the result of the last call.  It   *)
(* says nothing of slots, tombstones, load factors or rehashing.  Table    *)
(* (vm/table.c) and Dict (vm/value.c) are shown to implement it.           *)
(***************************************************************************)
CONSTANTS Keys,     \* the keys callers use
          Values,   \* the values they store
          NotFound  \* what a lookup that finds nothing answers

VARIABLES map,      \* the bindings: a function whose domain is the keys present
          ret       \* the result of the last call

Without(gone) == [j \in DOMAIN map \ gone |-> map[j]]

Init == /\ map = [j \in {} |-> NotFound]
        /\ ret = NotFound

Get(k) == /\ ret' = IF k \in DOMAIN map THEN map[k] ELSE NotFound
          /\ UNCHANGED map

Has(k) == /\ ret' = (k \in DOMAIN map)
          /\ UNCHANGED map

Put(k, v) == /\ ret' = (k \notin DOMAIN map)
             /\ map' = [j \in DOMAIN map \cup {k} |-> IF j = k THEN v ELSE map[j]]

Remove(k) == /\ ret' = (k \in DOMAIN map)
             /\ map' = Without({k})

\* Bindings the collector drops because nothing else holds their keys.
Purge(gone) == /\ map' = Without(gone)
               /\ UNCHANGED ret

Next == \/ \E k \in Keys : Get(k) \/ Has(k) \/ Remove(k)
        \/ \E k \in Keys, v \in Values : Put(k, v)
        \/ \E gone \in SUBSET Keys : Purge(gone)

Spec == Init /\ [][Next]_<<map, ret>>
============================================================================
