------------------------ MODULE ReconciliationLedger ------------------------
(***************************************************************************)
(* ReconciliationLedger of luv_safety.hpp: the gateway's table of open     *)
(* orders, an open-addressing hash table with linear probing. Its methods  *)
(* are operators on the table, so that ExecutionGateway can use them; the  *)
(* actions below drive the table alone.                                    *)
(*                                                                         *)
(* cancel() repairs the probe chain behind the entry it removes            *)
(* (reinsert_cluster); apply() clears the entry of a finished order and    *)
(* does not. Hash is a parameter: what the mixing computes does not        *)
(* matter, which orders collide does.                                      *)
(***************************************************************************)
EXTENDS Integers, FiniteSetsExt

CONSTANTS Capacity,     \* entries of the table (a power of two)
          OrderIds,     \* order identifiers: positive numbers
          Hash,         \* OrderIds -> 0 .. Capacity - 1
          MaxQty        \* bound: largest quantity of an order

ASSUME LedgerAssumption ==
    /\ Capacity \in Nat \ {0}
    /\ OrderIds \subseteq Nat \ {0}
    /\ Hash \in [OrderIds -> 0 .. Capacity - 1]
    /\ MaxQty \in Nat \ {0}

VARIABLE entries

SlotIndices == 0 .. Capacity - 1
Empty == [order_id |-> 0, remaining |-> 0]
EmptyTable == [s \in SlotIndices |-> Empty]

NoSlot == -1

\* The p-th slot probed for an order.
Probe(id, p) == (Hash[id] + p) % Capacity

\* The first slot of the probe sequence that holds the order or nothing.
find_or_empty(t, id) ==
    LET stops == {p \in SlotIndices : t[Probe(id, p)].order_id \in {0, id}}
    IN  IF stops = {} THEN NoSlot ELSE Probe(id, Min(stops))

find(t, id) ==
    LET s == find_or_empty(t, id)
    IN  IF s /= NoSlot /\ t[s].order_id = id THEN s ELSE NoSlot

contains(t, id) == find(t, id) /= NoSlot

\* The quantity the table shows for an order; 0 when find misses it.
Remaining(t, id) == IF contains(t, id) THEN t[find(t, id)].remaining ELSE 0

\* The bug of removing an entry without repairing the chain behind it.
LeaveCluster(t, removed) == t

\* Every entry from the slot after the removed one up to the next empty slot is
\* taken out and put back where its probe sequence now ends. The walk may pass
\* the removed slot again, once it has been refilled, but not twice.
reinsert_cluster(t, removed) ==
    LET walk[n \in 0 .. 2 * Capacity] ==
            IF n = 0 THEN [table |-> t, running |-> TRUE]
            ELSE LET before == walk[n - 1]
                     slot == (removed + n) % Capacity
                     displaced == before.table[slot]
                     cleared == [before.table EXCEPT ![slot] = Empty]
                 IN  IF before.running /\ displaced.order_id /= 0
                     THEN [before EXCEPT !.table =
                             [cleared EXCEPT ![find_or_empty(cleared, displaced.order_id)] =
                                displaced]]
                     ELSE [before EXCEPT !.running = FALSE]
    IN  walk[2 * Capacity].table

-----------------------------------------------------------------------------
(* The methods: a guard (the method returns true) and the table after it   *)

CanRegister(t, id) ==
    find_or_empty(t, id) /= NoSlot /\ t[find_or_empty(t, id)].order_id = 0

Registered(t, id, q) ==
    [t EXCEPT ![find_or_empty(t, id)] = [order_id |-> id, remaining |-> q]]

Replaced(t, id, q) == [t EXCEPT ![find(t, id)].remaining = q]

\* The bug of accepting a fill larger than what is open.
CanApplyAny(t, id, q) == contains(t, id)

CanApply(t, id, q) == contains(t, id) /\ q <= t[find(t, id)].remaining

\* The bug of keeping the entry of an order that ended with a remainder.
AppliedKeepingRemainder(t, id, q, terminal) ==
    LET s == find(t, id)
        left == t[s].remaining - q
    IN  [t EXCEPT ![s] = IF left = 0 THEN Empty ELSE [@ EXCEPT !.remaining = left]]

\* A finished order's entry is cleared in place.
Applied(t, id, q, terminal) ==
    LET s == find(t, id)
        left == t[s].remaining - q
    IN  [t EXCEPT ![s] = IF terminal \/ left = 0 THEN Empty ELSE [@ EXCEPT !.remaining = left]]

Cancelled(t, id) ==
    LET s == find(t, id)
    IN  reinsert_cluster([t EXCEPT ![s] = Empty], s)

-----------------------------------------------------------------------------
(* The table on its own                                                    *)

Init == entries = EmptyTable

register_order(id, q) == CanRegister(entries, id) /\ entries' = Registered(entries, id, q)

replace(id, q) == contains(entries, id) /\ entries' = Replaced(entries, id, q)

apply_partial(id, q) ==
    /\ CanApply(entries, id, q)
    /\ q /= Remaining(entries, id)
    /\ entries' = Applied(entries, id, q, FALSE)

cancel(id) == contains(entries, id) /\ entries' = Cancelled(entries, id)

\* Orders leave the table by cancel or reject. The other way out, the apply of a
\* final report, is taken in ExecutionGateway.
Next ==
    \E id \in OrderIds :
        \/ cancel(id)
        \/ \E q \in 1 .. MaxQty : register_order(id, q) \/ replace(id, q) \/ apply_partial(id, q)

Spec == Init /\ [][Next]_entries

-----------------------------------------------------------------------------
(* Properties                                                              *)

TypeOK == entries \in [SlotIndices -> [order_id : OrderIds \cup {0}, remaining : 0 .. MaxQty]]

Ledger == INSTANCE OpenOrders WITH
              remaining <- [id \in OrderIds |-> Remaining(entries, id)]

\* The table implements the map of open orders: find misses no open order, an
\* operation on one order loses, revives or changes no other one, and an order
\* can be registered once.
ImplementsOpenOrders == Ledger!OpenOrdersSpec

\* No entry is lost: every occupied entry is the one find returns for its order,
\* so no order occupies two entries and reinsert_cluster leaves none unreachable.
EveryEntryReachable ==
    \A s \in SlotIndices :
        entries[s].order_id /= 0 => find(entries, entries[s].order_id) = s

=============================================================================
