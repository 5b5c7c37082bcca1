----------------------------- MODULE OrderBook -----------------------------
(***************************************************************************)
(* What LOBEngine promises: per side and price the queue of the orders, in *)
(* the order in which they arrived, with what is left of each. Prices that *)
(* have no orders have an empty queue.                                     *)
(***************************************************************************)
EXTENDS Integers, Sequences, SequencesExt

CONSTANTS Sides, Prices, Refs, Quantities

VARIABLE book      \* book[side][price]: queue of [ref, qty]

Entries(b) == UNION {Range(b[side][p]) : side \in Sides, p \in Prices}
Present(b, ref) == \E e \in Entries(b) : e.ref = ref

Without(b, ref) ==
    [side \in Sides |-> [p \in Prices |-> SelectSeq(b[side][p], LAMBDA e : e.ref /= ref)]]

With(b, side, p, ref, q) == [b EXCEPT ![side][p] = Append(@, [ref |-> ref, qty |-> q])]

Init == book = [side \in Sides |-> [p \in Prices |-> <<>>]]

\* Steps from the book b to the book c.

\* A new order joins the end of its queue.
Add(b, c, ref) ==
    /\ ~Present(b, ref) /\ Present(c, ref)
    /\ \E side \in Sides, p \in Prices, q \in Quantities : c = With(b, side, p, ref, q)

\* Part of an order executes or is cancelled: it keeps its place.
Reduce(b, c, ref) ==
    \E side \in Sides, p \in Prices :
        \E i \in DOMAIN b[side][p] :
            /\ b[side][p][i].ref = ref
            /\ \E q \in 1 .. b[side][p][i].qty - 1 : c = [b EXCEPT ![side][p][i].qty = q]

\* An order leaves the book.
Leave(b, c, ref) == c = Without(b, ref)

\* Another order takes the place of one, on the same side, behind the others.
Replace(b, c, ref, new) ==
    LET rest == Without(b, ref)
    IN  /\ ~Present(b, new) /\ Present(c, new)
        /\ \E side \in Sides :
              /\ \E p \in Prices : \E e \in Range(b[side][p]) : e.ref = ref
              /\ \E p \in Prices, q \in Quantities : c = With(rest, side, p, new, q)

Step(b, c) ==
    \E ref \in Refs :
        \/ Add(b, c, ref) \/ Reduce(b, c, ref) \/ Leave(b, c, ref)
        \/ \E new \in Refs : Replace(b, c, ref, new)

Next == \E b \in {book}, c \in {book'} : Step(b, c)

BookSpec == Init /\ [][Next]_book

=============================================================================
