------------------------------- MODULE Table -------------------------------
(***************************************************************************)
(* The string-keyed hash table of vm/table.c, which holds module values,   *)
(* methods, attributes and the pool of interned strings.                   *)
(*                                                                         *)
(* tableSet first makes room: adjustCapacity allocates a larger array and  *)
(* moves the entries one at a time.  The allocation may start a collection *)
(* that deletes entries of this very table (tableRemoveWhite on the string *)
(* pool), so the growth is a sequence of steps here, not one.              *)
(***************************************************************************)
EXTENDS Probing

CONSTANTS NotFound,     \* what a failed lookup answers
          MaxCapacity   \* bound: no table grows beyond this many slots

\* capacity is an int, which does not hold 2 * 2^30.
ASSUME TableAssumption == MaxCapacity \in 0 .. 2 ^ 30

VARIABLES entries, capacity, count,  \* struct Table
          pc,      \* "ready", or where adjustCapacity is: "alloc", "move"
          todo,    \* bindings tableSet or tableAddAll still has to store
          fresh,   \* the array adjustCapacity fills
          moved,   \* its loop index: slots of the old array done
          ret      \* the result of the last call

vars == <<entries, capacity, count, pc, todo, fresh, moved, ret>>

----------------------------------------------------------------------------
\* Plausible slips, used to show that the properties can fail.
\* A deletion clears the slot instead of leaving a tombstone.
BrokenErase(slots) ==
  [i \in DOMAIN entries |-> IF i \in slots THEN Empty ELSE entries[i]]

\* The array grows by half.
BrokenNewCapacity == IF capacity < 8 THEN 8 ELSE capacity + capacity \div 2

\* The array may fill up before it grows.
BrokenMustGrow(n) == n >= capacity

\* adjustCapacity copies an entry to the slot it had.
BrokenLanding(k) == moved

\* adjustCapacity forgets to set capacity.
BrokenInstall == /\ pc = "move" /\ moved = capacity
                 /\ entries' = fresh
                 /\ pc' = "ready"
                 /\ fresh' = Blank(0)
                 /\ moved' = 0
                 /\ UNCHANGED <<capacity, count, todo, ret>>
----------------------------------------------------------------------------

Init == /\ entries = Blank(0)
        /\ capacity = 0
        /\ count = 0
        /\ pc = "ready"
        /\ todo = {}
        /\ fresh = Blank(0)
        /\ moved = 0
        /\ ret = NotFound

NewCapacity == GrowCapacity(capacity)

Idle == pc = "ready" /\ todo = {}

MustGrow(n) == Full(n, capacity)

Erase(slots) ==
  [i \in DOMAIN entries |-> IF i \in slots THEN Tombstone ELSE entries[i]]

\* The content of the slot a probe for k returns; an empty table has no slots.
Lookup(k) == IF count = 0 THEN Empty ELSE entries[Find(entries, capacity, k)]

TableGet(k) ==
  /\ Idle
  /\ ret' = IF IsLive(Lookup(k)) THEN Lookup(k).value ELSE NotFound
  /\ UNCHANGED <<entries, capacity, count, pc, todo, fresh, moved>>

\* Calls to tableSet and tableAddAll, within the bound on growth.
Start(bindings) ==
  /\ Idle
  /\ \/ 4 * (count + Cardinality(bindings)) <= 3 * capacity
     \/ NewCapacity <= MaxCapacity
  /\ todo' = bindings
  /\ UNCHANGED <<entries, capacity, count, pc, fresh, moved, ret>>

TableSet(k, v) == Start({[key |-> k, value |-> v]})

\* from's bindings, one or two here, each through tableSet; the order is that of
\* from's slots.
TableAddAll(from) == Start({[key |-> k, value |-> from[k]] : k \in DOMAIN from})

\* tableSet's test and its call of adjustCapacity, up to the allocation.
Grow == /\ pc = "ready" /\ todo # {}
        /\ MustGrow(count)
        /\ pc' = "alloc"
        /\ UNCHANGED <<entries, capacity, count, todo, fresh, moved, ret>>

\* The allocation is done: the new array is blank and count starts again.
Allocate == /\ pc = "alloc"
            /\ pc' = "move"
            /\ fresh' = Blank(NewCapacity)
            /\ moved' = 0
            /\ count' = 0
            /\ UNCHANGED <<entries, capacity, todo, ret>>

\* Where adjustCapacity puts an entry.
Landing(k) == Find(fresh, NewCapacity, k)

\* One turn of adjustCapacity's loop.
Move == LET c == entries[moved]
        IN /\ pc = "move" /\ moved < capacity
           /\ IF IsLive(c)
              THEN /\ fresh' = [fresh EXCEPT ![Landing(c.key)] = c]
                   /\ count' = count + 1
              ELSE UNCHANGED <<fresh, count>>
           /\ moved' = moved + 1
           /\ UNCHANGED <<entries, capacity, pc, todo, ret>>

Install == /\ pc = "move" /\ moved = capacity
           /\ entries' = fresh
           /\ capacity' = NewCapacity
           /\ pc' = "ready"
           /\ fresh' = Blank(0)
           /\ moved' = 0
           /\ UNCHANGED <<count, todo, ret>>

\* The rest of tableSet, for one binding.  A reused tombstone counts again.
Store == /\ pc = "ready" /\ ~ MustGrow(count)
         /\ \E b \in todo :
              LET i     == Find(entries, capacity, b.key)
                  isNew == ~ IsLive(entries[i])
              IN /\ entries' = [entries EXCEPT ![i] = b]
                 /\ count' = IF isNew THEN count + 1 ELSE count
                 /\ ret' = isNew
                 /\ todo' = todo \ {b}
         /\ UNCHANGED <<capacity, pc, fresh, moved>>

\* A deletion leaves a tombstone and does not touch count.
TableDelete(k) ==
  /\ Idle
  /\ ret' = IsLive(Lookup(k))
  /\ entries' = IF IsLive(Lookup(k))
                THEN Erase({Find(entries, capacity, k)}) ELSE entries
  /\ UNCHANGED <<capacity, count, pc, todo, fresh, moved>>

\* A collection deletes the keys it did not mark, through tableDelete.  It runs
\* between calls or inside adjustCapacity's allocation; the key being stored is
\* on the VM's stack and therefore marked.
TableRemoveWhite(white) ==
  /\ pc = "alloc" \/ Idle
  /\ white \cap {b.key : b \in todo} = {}
  /\ entries' = Erase({Find(entries, capacity, k) : k \in white})
  /\ UNCHANGED <<capacity, count, pc, todo, fresh, moved, ret>>

Step == Grow \/ Allocate \/ Move \/ Install \/ Store

Next == \/ \E k \in Keys : TableGet(k) \/ TableDelete(k)
        \/ \E k \in Keys, v \in Values : TableSet(k, v)
        \/ \E k, l \in Keys : \E from \in [{k, l} -> Values] : TableAddAll(from)
        \/ \E white \in SUBSET {entries[i].key : i \in Live(entries)} :
             TableRemoveWhite(white)
        \/ Step

Spec == Init /\ [][Next]_vars

----------------------------------------------------------------------------
\* Every variable has its type: a table's array has capacity slots, a power of two
\* as indexing by hash & (capacity - 1) needs it, and the scratch state of
\* adjustCapacity is there only while it runs.
TypeOK ==
  /\ capacity \in {0} \cup {2 ^ n : n \in 3 .. 30}
  /\ entries \in [Slots(capacity) -> Content]
  /\ count \in Nat
  /\ pc \in {"ready", "alloc", "move"}
  /\ todo \subseteq Entry
  /\ moved \in 0 .. capacity
  /\ fresh \in [Slots(IF pc = "move" THEN NewCapacity ELSE 0) -> Content]
  /\ ret \in Values \cup BOOLEAN \cup {NotFound}

\* Probing ends: whatever the history of insertions, deletions, collections and
\* growths, count never falls below the number of slots that are not empty and
\* never exceeds three quarters of the slots, so an empty slot remains and the
\* for (;;) of findEntry and tableFindString ends for a key that is absent.  It
\* is why tableDelete must leave count alone and tableSet may count a reused
\* tombstone a second time.
LoadBounded ==
  /\ 4 * Cardinality(Occupied(entries)) <= 3 * capacity
  /\ pc # "move" => /\ Cardinality(Occupied(entries)) <= count
                    /\ 4 * count <= 3 * capacity
  /\ pc = "move" => /\ Cardinality(Occupied(fresh)) <= count
                    /\ 4 * count <= 3 * NewCapacity

\* No entry is lost behind a gap: probing for the key of any entry, in the old
\* array or the one being filled, ends at that very entry; no key has two.
Reachable ==
  /\ \A i \in Live(entries) : Find(entries, capacity, entries[i].key) = i
  /\ \A i \in Live(fresh) : Find(fresh, NewCapacity, fresh[i].key) = i

\* The table behaves as a map under every interleaving of calls, of the steps
\* of a growth and of the collections inside it: a lookup answers the last
\* binding stored, and growing or rehashing changes no binding.
Abstract == INSTANCE MapSpec WITH map <- Bindings(entries), ret <- ret
ImplementsMap == Abstract!Spec
============================================================================
