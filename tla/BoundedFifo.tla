----------------------------- MODULE BoundedFifo -----------------------------
(***************************************************************************)
(* What a single-producer single-consumer queue of the engine promises:    *)
(* a first-in first-out queue of at most Capacity items, whose items leave *)
(* once each, in the order in which they were published.                   *)
(*                                                                         *)
(* SpscRing, the lock-free ring the code implements, is shown to implement *)
(* this specification.                                                     *)
(***************************************************************************)
EXTENDS Integers, Sequences

CONSTANTS Capacity,     \* number of slots
          Values        \* what is queued

VARIABLES queue,        \* the published items not yet consumed, oldest first
          delivered     \* the item consumed last: <<>> or <<v>>

fifoVars == <<queue, delivered>>

FifoInit ==
    /\ queue = <<>>
    /\ delivered = <<>>

Publish(v) ==
    /\ Len(queue) < Capacity
    /\ queue' = Append(queue, v)
    /\ UNCHANGED delivered

Deliver ==
    /\ queue /= <<>>
    /\ delivered' = <<Head(queue)>>
    /\ queue' = Tail(queue)

FifoNext == (\E v \in Values : Publish(v)) \/ Deliver

FifoSpec == FifoInit /\ [][FifoNext]_fifoVars

=============================================================================
