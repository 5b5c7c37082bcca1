-------------------------- MODULE MCLimitOrderBook --------------------------
(* Instances of LimitOrderBook for TLC. *)
EXTENDS LimitOrderBook

MCPrices == 1 .. 3
MCTwoPrices == 1 .. 2
MCRefs == 1 .. 3

\* More prices than levels and more references than slots of a level; and one
\* level that holds every order, so that one can leave it from the middle.
MCLimits == {[orders_per_level |-> 2, prices |-> 1 .. 3],
             [orders_per_level |-> 3, prices |-> {2}]}
MCTwoOrders == {[orders_per_level |-> 2, prices |-> MCTwoPrices]}

\* References 1 and 2 start at the last index and wrap around onto 3's.
MCHash == <<3, 3, 0>>
=============================================================================
