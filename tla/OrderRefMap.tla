---------------------------- MODULE OrderRefMap ----------------------------
(***************************************************************************)
(* OrderRefMap of luv_lob.hpp: order reference -> location in the book, a  *)
(* hash table with linear probing, tombstones, a bound on the probes of an *)
(* operation and a bound on the entries. Its methods are operators on the  *)
(* table, used by LimitOrderBook. Hash is a parameter: which references    *)
(* collide matters, not how they are mixed.                                *)
(***************************************************************************)
EXTENDS Integers, FiniteSetsExt

CONSTANTS Capacity,          \* kCapacity
          MaxProbeLength,    \* kMaxProbeLength
          MaxEntries,        \* kMaxEntries
          Refs,              \* order references: positive numbers
          Hash,              \* Refs -> 0 .. Capacity - 1
          NoLocation         \* what lookup returns for an unknown reference

ASSUME RefMapAssumption ==
    /\ Capacity \in Nat \ {0}
    /\ MaxProbeLength \in 1 .. Capacity
    /\ MaxEntries \in 0 .. Capacity
    /\ Refs \subseteq Nat \ {0}
    /\ Hash \in [Refs -> 0 .. Capacity - 1]

Indices == 0 .. Capacity - 1
EmptyKey == 0
Tombstone == -1
NoIndex == -1

EmptyMap ==
    [keys |-> [k \in Indices |-> EmptyKey], values |-> [k \in Indices |-> NoLocation], count |-> 0]

Probes == 0 .. MaxProbeLength - 1
At(ref, p) == (Hash[ref] + p) % Capacity

\* The probes at which a loop stops, and the tombstones it has passed by then.
Stops(m, ref) == {p \in Probes : m.keys[At(ref, p)] \in {EmptyKey, ref}}
Passed(m, ref) ==
    LET stops == Stops(m, ref)
    IN  {p \in Probes : m.keys[At(ref, p)] = Tombstone /\ \A s \in stops : p < s}

\* The index that holds a reference.
IndexOf(m, ref) ==
    LET stops == Stops(m, ref)
        k == At(ref, Min(stops))
    IN  IF stops /= {} /\ m.keys[k] = ref THEN k ELSE NoIndex

Known(m, ref) == IndexOf(m, ref) /= NoIndex
lookup(m, ref) ==
    LET k == IndexOf(m, ref) IN IF k /= NoIndex THEN m.values[k] ELSE NoLocation

\* Where insert may put a new reference: a tombstone, or the empty index.
Usable(m, ref) == Passed(m, ref) \cup Stops(m, ref)

\* insert returns true.
Insertable(m, ref) == Known(m, ref) \/ (Usable(m, ref) /= {} /\ m.count < MaxEntries)

Inserted(m, ref, loc) ==
    IF Known(m, ref) THEN [m EXCEPT !.values[IndexOf(m, ref)] = loc]
    ELSE LET k == At(ref, Min(Usable(m, ref)))
         IN  [keys |-> [m.keys EXCEPT ![k] = ref],
              values |-> [m.values EXCEPT ![k] = loc],
              count |-> m.count + 1]

\* can_insert: an empty index among the probes. Tombstones do not count.
can_insert(m, ref) ==
    /\ m.count < MaxEntries
    /\ Stops(m, ref) /= {}
    /\ ~Known(m, ref)

Vacated(m, k, key) ==
    [keys |-> [m.keys EXCEPT ![k] = key],
     values |-> [m.values EXCEPT ![k] = NoLocation],
     count |-> m.count - 1]

\* The bug of ending the probe chains that pass the index.
RemovedToEmpty(m, ref) ==
    IF Known(m, ref) THEN Vacated(m, IndexOf(m, ref), EmptyKey) ELSE m

\* The code leaves the value behind. No key leads to it any more, so the model
\* clears it: states that differ in it only are one state.
Removed(m, ref) ==
    IF Known(m, ref) THEN Vacated(m, IndexOf(m, ref), Tombstone) ELSE m

=============================================================================
