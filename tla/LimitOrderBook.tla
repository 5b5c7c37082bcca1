--------------------------- MODULE LimitOrderBook ---------------------------
(***************************************************************************)
(* LOBEngine of luv_lob.hpp for one symbol: two arrays of price levels,    *)
(* bids from the highest price and asks from the lowest, each level with   *)
(* an array of order slots threaded by a doubly linked list, and the       *)
(* OrderRefMap that says where an order is. The handlers shift whole       *)
(* levels and correct the map afterwards. Messages come from a feed that   *)
(* is not trusted: any message about any reference may arrive at any time. *)
(*                                                                         *)
(* Statistics, timestamps and trade messages, which change only counters,  *)
(* are left out, and so is the check of a message's own fields. Prices and *)
(* quantities are valid ones.                                              *)
(***************************************************************************)
EXTENDS OrderRefMap, Sequences, SequencesExt

CONSTANTS Prices, MaxQty,
          LevelsPerSide,        \* kLevelsPerSide
          MaxTotal,             \* largest total_qty: the bound of its integer type
          Limits                \* the limits to be explored, see limits

ASSUME BookAssumption ==
    /\ Prices \subseteq Nat \ {0}
    /\ {MaxQty, LevelsPerSide, MaxTotal} \subseteq Nat \ {0}
    /\ Limits \subseteq [orders_per_level : Nat \ {0}, prices : SUBSET Prices]

VARIABLES levels,      \* levels[side]: the active price levels
          map,         \* _order_map
          limits       \* kMaxOrdersPerLevel and the prices of the feed; it stays as it is

vars == <<levels, map, limits>>

Sides == {"bid", "ask"}
LevelSlots == 1 .. limits.orders_per_level
None == 0

FreeSlot == [order_id |-> None, qty |-> 0, active |-> FALSE, next_idx |-> None, prev_idx |-> None]

EmptyLevel(p) ==
    [price |-> p, total_qty |-> 0, order_count |-> 0, head_idx |-> None,
     orders |-> [j \in LevelSlots |-> FreeSlot]]

-----------------------------------------------------------------------------
(* Slots of a level                                                        *)

FreeSlots(l) == {j \in LevelSlots : ~l.orders[j].active}

\* The slot at the end of a level's list.
TailSlot(l) ==
    LET walk[j \in LevelSlots] ==
            IF l.orders[j].next_idx = None THEN j ELSE walk[l.orders[j].next_idx]
    IN  walk[l.head_idx]

\* The bug of linking a new order in front of the others.
link_first(l, j) ==
    IF l.head_idx = None
    THEN [l EXCEPT !.head_idx = j, !.orders[j].prev_idx = None, !.orders[j].next_idx = None]
    ELSE [l EXCEPT !.head_idx = j, !.orders[j].prev_idx = None,
                   !.orders[j].next_idx = l.head_idx, !.orders[l.head_idx].prev_idx = j]

link_slot(l, j) ==
    IF l.head_idx = None
    THEN [l EXCEPT !.head_idx = j, !.orders[j].prev_idx = None, !.orders[j].next_idx = None]
    ELSE [l EXCEPT !.orders[TailSlot(l)].next_idx = j,
                   !.orders[j].prev_idx = TailSlot(l), !.orders[j].next_idx = None]

\* The bug of leaving the successor's back link.
unlink_forward(l, j) ==
    LET before == l.orders[j].prev_idx
        after == l.orders[j].next_idx
    IN  [l EXCEPT !.head_idx = IF before = None THEN after ELSE @,
                  !.orders = [k \in LevelSlots |->
                                IF k = j THEN [@[j] EXCEPT !.next_idx = None, !.prev_idx = None]
                                ELSE [@[k] EXCEPT !.next_idx = IF k = before THEN after ELSE @]]]

unlink_slot(l, j) ==
    LET before == l.orders[j].prev_idx
        after == l.orders[j].next_idx
        linked(k, o) == [o EXCEPT !.next_idx = IF k = before THEN after ELSE @,
                                  !.prev_idx = IF k = after THEN before ELSE @]
    IN  [l EXCEPT !.head_idx = IF before = None THEN after ELSE @,
                  !.orders = [k \in LevelSlots |->
                                IF k = j THEN [@[j] EXCEPT !.next_idx = None, !.prev_idx = None]
                                ELSE linked(k, @[k])]]

deactivate_slot(l, j) ==
    [l EXCEPT !.orders[j].active = FALSE, !.orders[j].order_id = None, !.orders[j].qty = 0]

-----------------------------------------------------------------------------
(* Levels of a side: b is the pair [levels, map]                           *)

\* Price p stands before price q.
Better(side, p, q) == IF side = "bid" THEN p > q ELSE p < q

\* Binary search for a price; None when no level has it.
find_level(ls, side, p) ==
    LET search[r \in (1 .. Len(ls) + 1) \X (0 .. Len(ls))] ==
            LET low == r[1]
                high == r[2]
                mid == low + (high - low) \div 2
            IN  IF low > high THEN None
                ELSE IF ls[mid].price = p THEN mid
                ELSE IF Better(side, p, ls[mid].price) THEN search[<<low, mid - 1>>]
                ELSE search[<<mid + 1, high>>]
    IN  search[<<1, Len(ls)>>]

\* The bug of shifting levels and not correcting the map.
leave_locations(m, ls, side, first, last) == m

\* The map entries of the orders of levels first .. last are corrected.
refresh_level_locations(m, ls, side, first, last) ==
    LET moved == {w \in (first .. last) \X LevelSlots : ls[w[1]].orders[w[2]].active}
        of(k) == {w \in moved : /\ ls[w[1]].orders[w[2]].order_id = m.keys[k]
                                /\ IndexOf(m, m.keys[k]) = k}
    IN  [m EXCEPT !.values =
           [k \in Indices |->
              IF of(k) = {} THEN @[k]
              ELSE LET w == CHOOSE w \in of(k) : TRUE
                   IN  [side |-> side, level_idx |-> w[1], slot_idx |-> w[2]]]]

\* The bug of appending a new level at the end.
InsertAtEnd(ls, side, p) == Len(ls) + 1

InsertPosition(ls, side, p) ==
    Min({i \in DOMAIN ls : Better(side, p, ls[i].price)} \cup {Len(ls) + 1})

\* insert_level_impl, when the side has room for a level.
insert_level(b, side, p) ==
    LET ls == b.levels[side]
        i == InsertPosition(ls, side, p)
        shifted == InsertAt(ls, i, EmptyLevel(p))
    IN  [levels |-> [b.levels EXCEPT ![side] = shifted],
         map |-> refresh_level_locations(b.map, shifted, side, i + 1, Len(shifted))]

remove_level_if_empty(b, side, i) ==
    LET shifted == RemoveAt(b.levels[side], i)
    IN  IF b.levels[side][i].order_count > 0 THEN b
        ELSE [levels |-> [b.levels EXCEPT ![side] = shifted],
              map |-> refresh_level_locations(b.map, shifted, side, i, Len(shifted))]

-----------------------------------------------------------------------------
(* Parts of the handlers                                                   *)

\* The order leaves its level and the map, and an empty level is removed.
Deleted(b, ref) ==
    LET loc == lookup(b.map, ref)
        l == b.levels[loc.side][loc.level_idx]
        o == l.orders[loc.slot_idx]
        without == [deactivate_slot(unlink_slot(l, loc.slot_idx), loc.slot_idx)
                      EXCEPT !.total_qty = @ - Min({o.qty, @}), !.order_count = @ - 1]
    IN  remove_level_if_empty(
            [levels |-> [b.levels EXCEPT ![loc.side][loc.level_idx] = without],
             map |-> Removed(b.map, ref)],
            loc.side, loc.level_idx)

\* The order gets a slot of its price's level, which is found or inserted, and
\* everything is taken back when the total would overflow or the map refuses the
\* reference. An order that finds no room for its level, or none in it, is dropped.
Placed(b, ref, side, p, q) ==
    LET found == find_level(b.levels[side], side, p)
        roomy == found /= None \/ Len(b.levels[side]) < LevelsPerSide
        c == IF found /= None THEN b ELSE insert_level(b, side, p)
        i == IF found /= None THEN found ELSE InsertPosition(b.levels[side], side, p)
        l == c.levels[side][i]
        j == Min(FreeSlots(l))
        filled == [l EXCEPT !.orders[j].order_id = ref, !.orders[j].qty = q,
                            !.orders[j].active = TRUE]
        linked == [link_slot(filled, j) EXCEPT !.total_qty = @ + q, !.order_count = @ + 1]
        undone == deactivate_slot(unlink_slot(link_slot(filled, j), j), j)
        put(level) == [c.levels EXCEPT ![side][i] = level]
    IN  CASE ~roomy -> b
          [] roomy /\ FreeSlots(l) = {} -> c
          [] roomy /\ FreeSlots(l) /= {} ->
                IF l.total_qty + q <= MaxTotal /\ Insertable(c.map, ref)
                THEN [levels |-> put(linked),
                      map |-> Inserted(c.map, ref,
                                [side |-> side, level_idx |-> i, slot_idx |-> j])]
                ELSE remove_level_if_empty([levels |-> put(undone), map |-> c.map], side, i)

\* An execution or a partial cancel takes at most what the order has left.
Reduced(b, ref, q) ==
    LET loc == lookup(b.map, ref)
        o == b.levels[loc.side][loc.level_idx].orders[loc.slot_idx]
        delta == Min({q, o.qty})
        less == [b EXCEPT !.levels[loc.side][loc.level_idx].orders[loc.slot_idx].qty = @ - delta,
                          !.levels[loc.side][loc.level_idx].total_qty = @ - delta]
    IN  IF o.qty = delta THEN Deleted(less, ref) ELSE less

\* The map knows the order and the slot it names holds it.
valid_location(ref) ==
    LET loc == lookup(map, ref)
    IN  /\ loc /= NoLocation
        /\ loc.level_idx <= Len(levels[loc.side])
        /\ LET l == levels[loc.side][loc.level_idx]
           IN  /\ l.orders[loc.slot_idx].active
               /\ l.orders[loc.slot_idx].order_id = ref
               /\ l.orders[loc.slot_idx].qty >= 0
               /\ l.total_qty >= 0
               /\ l.order_count > 0

-----------------------------------------------------------------------------
(* The handlers. A message that is rejected changes nothing of the book.   *)

Init ==
    /\ levels = [side \in Sides |-> <<>>]
    /\ map = EmptyMap
    /\ limits \in Limits

Book == [levels |-> levels, map |-> map]

Becomes(b) == \E c \in {b} : levels' = c.levels /\ map' = c.map

Quantities == 1 .. MaxQty

on_add_order(ref, side) ==
    /\ ~Known(map, ref)
    /\ \E p \in limits.prices, q \in Quantities : Becomes(Placed(Book, ref, side, p, q))

on_order_executed(ref, q) == valid_location(ref) /\ Becomes(Reduced(Book, ref, q))

on_order_cancel(ref, q) == valid_location(ref) /\ Becomes(Reduced(Book, ref, q))

on_order_delete(ref) == valid_location(ref) /\ Becomes(Deleted(Book, ref))

on_order_replace(ref, new) ==
    /\ new /= ref
    /\ valid_location(ref)
    /\ can_insert(map, new)
    /\ \E p \in limits.prices, q \in Quantities :
           Becomes(Placed(Deleted(Book, ref), new, lookup(map, ref).side, p, q))

Next ==
    /\ UNCHANGED limits
    /\ \E ref \in Refs :
          \/ on_order_delete(ref)
          \/ \E q \in Quantities : on_order_executed(ref, q) \/ on_order_cancel(ref, q)
          \/ \E side \in Sides : on_add_order(ref, side)
          \/ \E new \in Refs : on_order_replace(ref, new)

Spec == Init /\ [][Next]_vars

-----------------------------------------------------------------------------
(* Properties                                                              *)

\* Levels stand from best to worst price, no price has two levels, and no level
\* without orders is left: the first level of each side is the best price.
LevelsSorted ==
    \A side \in Sides :
        /\ Len(levels[side]) <= LevelsPerSide
        /\ \A i \in DOMAIN levels[side] :
               /\ levels[side][i].order_count > 0
               /\ i > 1 => Better(side, levels[side][i - 1].price, levels[side][i].price)

\* The list of a level from its head, as slots.
ListOf(l) ==
    LET from[j \in {None} \cup LevelSlots] ==
            IF j = None THEN <<>> ELSE <<j>> \o from[l.orders[j].next_idx]
    IN  from[l.head_idx]

\* The totals of a level are those of its orders, and its list visits each of
\* them once, in both directions.
LevelsConsistent ==
    \A side \in Sides : \A i \in DOMAIN levels[side] :
        LET l == levels[side][i]
            active == LevelSlots \ FreeSlots(l)
            list == ListOf(l)
        IN  /\ l.total_qty = MapThenSumSet(LAMBDA j : l.orders[j].qty, active)
            /\ l.order_count = Cardinality(active)
            /\ Range(list) = active
            /\ Len(list) = Cardinality(active)
            /\ \A n \in 1 .. Len(list) - 1 : l.orders[list[n + 1]].prev_idx = list[n]
            /\ \A j \in active : l.orders[j].qty > 0

\* Every order in the book is where the map says, however levels have been
\* shifted since, and the map knows no other order.
LocationsExact ==
    /\ \A side \in Sides : \A i \in DOMAIN levels[side] : \A j \in LevelSlots :
           levels[side][i].orders[j].active
               => lookup(map, levels[side][i].orders[j].order_id)
                    = [side |-> side, level_idx |-> i, slot_idx |-> j]
    /\ \A ref \in Refs : Known(map, ref) => valid_location(ref)

LiveIndices == {k \in Indices : map.keys[k] \in Refs}

\* No reference is stored twice or out of reach of its own probes, through
\* collisions, tombstones and the probe limit, and count is the number of stored
\* references: the load limit is neither early nor late.
EntriesSound ==
    /\ \A k \in LiveIndices : IndexOf(map, map.keys[k]) = k
    /\ map.count = Cardinality(LiveIndices)
    /\ map.count <= MaxEntries

QueueAt(side, p) ==
    LET at == {i \in DOMAIN levels[side] : levels[side][i].price = p}
        l == levels[side][Min(at)]
        list == ListOf(l)
    IN  IF at = {} THEN <<>>
        ELSE [n \in DOMAIN list |-> [ref |-> l.orders[list[n]].order_id,
                                     qty |-> l.orders[list[n]].qty]]

Abstract == INSTANCE OrderBook
                WITH book <- [side \in Sides |-> [p \in Prices |-> QueueAt(side, p)]]

\* The engine implements the order book: orders of a price keep the order in
\* which they arrived, and a message about one order changes no other.
ImplementsBook == Abstract!BookSpec

\* A replace that goes ahead puts the new order into the book: the original is
\* not given up for an order that cannot be placed (comment of can_insert).
ReplaceKeepsAnOrder ==
    [][\A ref, new \in Refs :
          on_order_replace(ref, new) => Known(map', new) \/ Known(map', ref)]_vars

=============================================================================
