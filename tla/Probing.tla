------------------------------ MODULE Probing ------------------------------
(***************************************************************************)
(* Open addressing with linear probing, as the interpreter's tables and    *)
(* dictionaries do it.  A table is a function from its slots to contents:  *)
(* an entry, Empty, or the Tombstone a deletion leaves behind.  In the C   *)
(* code Empty is a NULL (EMPTY_VAL) key with a nil value and Tombstone the *)
(* same key with the value true; the two contents are all a probe looks    *)
(* at, so they are constants here.                                         *)
(***************************************************************************)
EXTENDS Growth, FiniteSets

CONSTANTS Keys, Values,
          Hash,      \* Hash[k]: the key's cached or computed 32-bit hash
          Empty, Tombstone

Entry == [key : Keys, value : Values]

ASSUME ProbingAssumption ==
  /\ Hash \in [Keys -> Nat]
  /\ Empty # Tombstone
  /\ Empty \notin Entry
  /\ Tombstone \notin Entry

Content == Entry \cup {Empty, Tombstone}

IsLive(c) == c \notin {Empty, Tombstone}

Slots(cap) == 0 .. cap - 1

Blank(cap) == [i \in Slots(cap) |-> Empty]

Live(table) == {i \in DOMAIN table : IsLive(table[i])}

\* Slots a probe cannot stop at as empty.
Occupied(table) == {i \in DOMAIN table : table[i] # Empty}

\* The d-th slot probed for k: hash & (cap - 1), then one step at a time with
\* wrap-around.  cap is a power of two, so the mask is a remainder.
Home(k, cap) == Hash[k] % cap

Probe(k, d, cap) == LET i == Home(k, cap) + d
                    IN IF i < cap THEN i ELSE i - cap

\* The probe ends at an empty slot or at the key's own entry.
Stops(table, cap, k, d) ==
  LET c == table[Probe(k, d, cap)]
  IN c = Empty \/ (IsLive(c) /\ c.key = k)

StopAt(table, cap, k) ==
  CHOOSE d \in Slots(cap) : /\ Stops(table, cap, k, d)
                            /\ \A c \in Slots(d) : ~ Stops(table, cap, k, c)

\* The first tombstone among the probes before stop, if any, else stop.
IsGrave(table, cap, k, d) == table[Probe(k, d, cap)] = Tombstone

FirstGrave(table, cap, k, stop) ==
  CHOOSE d \in 0 .. stop : /\ d = stop \/ IsGrave(table, cap, k, d)
                           /\ \A c \in Slots(d) : ~ IsGrave(table, cap, k, c)

\* The slot the probe returns: the key's entry, or else the first tombstone
\* passed on the way to an empty slot, or else that empty slot.  With no slot
\* to stop at the C loop never ends and Find has no meaning.
Find(table, cap, k) ==
  LET stop == StopAt(table, cap, k)
  IN IF table[Probe(k, stop, cap)] = Empty
     THEN Probe(k, FirstGrave(table, cap, k, stop), cap)
     ELSE Probe(k, stop, cap)

\* The bindings a table holds, wherever its slots are.
Bindings(table) ==
  [k \in {table[i].key : i \in Live(table)} |->
     table[CHOOSE i \in Live(table) : table[i].key = k].value]

\* count + 1 > capacity * 0.75, without fractions.
Full(count, cap) == 4 * (count + 1) > 3 * cap
============================================================================
