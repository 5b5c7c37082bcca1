------------------------------ MODULE SpscRing ------------------------------
(***************************************************************************)
(* The lock-free ring that carries ticks, fills, HTTP requests, HTTP       *)
(* replies and telemetry between the engine's threads (SPSCRing of         *)
(* luv_arena.hpp; StaticSpscQueue of luv_consumer.hpp is the same protocol *)
(* with claim, write and commit inside try_push).                          *)
(*                                                                         *)
(* One action per access to shared memory. `head' and `tail' are the two   *)
(* atomics. A thread reads its own counter exactly, but an acquire load of *)
(* the other thread's counter may return any value between the last one it *)
(* saw and the current one: coherence orders the values, nothing makes the *)
(* load return the newest. The slots are ordinary memory.                  *)
(***************************************************************************)
EXTENDS Integers, Sequences

CONSTANTS Capacity,     \* slots of the ring (a power of two in the code)
          Values,       \* messages
          MaxItems      \* bound: items published in a behaviour

ASSUME CapacityAssumption == Capacity \in Nat \ {0}
ASSUME MaxItemsAssumption == MaxItems \in Nat
ASSUME ValuesAssumption == Values /= {}

VARIABLES head,         \* atomic, written by the producer only
          tail,         \* atomic, written by the consumer only
          slots,        \* 0..Capacity-1 -> Values
          producerPc,   \* "idle", "write" (slot claimed), "commit" (slot written)
          tailSeen,     \* what the producer's last load of tail returned
          message,      \* what the producer is publishing
          consumerPc,   \* "idle", "read" (slot peeked), "consume" (slot read)
          headSeen,     \* what the consumer's last load of head returned
          copy,         \* what the consumer read from the slot
          received      \* the item consumed last: <<>> or <<v>>

producerVars == <<producerPc, tailSeen, message>>
consumerVars == <<consumerPc, headSeen, copy, received>>
vars == <<head, tail, slots, producerVars, consumerVars>>

\* h & kMask
Slot(counter) == counter % Capacity

Init ==
    /\ head = 0
    /\ tail = 0
    /\ slots \in [0 .. Capacity - 1 -> Values]
    /\ producerPc = "idle"
    /\ tailSeen = 0
    /\ message \in Values
    /\ consumerPc = "idle"
    /\ headSeen = 0
    /\ copy \in Values
    /\ received = <<>>

-----------------------------------------------------------------------------
(* The producer                                                            *)

\* The bug of testing the ring for full one slot too late.
FullAfterOneTooMany(t) == head - t > Capacity

\* h - tail.load(acquire) >= Capacity
Full(t) == head - t >= Capacity

\* try_claim returns a slot ...
TryClaim(v) ==
    /\ producerPc = "idle"
    /\ head < MaxItems
    /\ \E t \in tailSeen .. tail :
        /\ ~Full(t)
        /\ tailSeen' = t
    /\ message' = v
    /\ producerPc' = "write"
    /\ UNCHANGED <<head, tail, slots, consumerVars>>

\* ... or nullptr: the caller drops or retries, the ring is as it was.
TryClaimFull ==
    /\ producerPc = "idle"
    /\ \E t \in tailSeen .. tail :
        /\ Full(t)
        /\ tailSeen' = t
    /\ UNCHANGED <<head, tail, slots, producerPc, message, consumerVars>>

\* The caller fills the claimed slot in place.
WriteSlot ==
    /\ producerPc = "write"
    /\ slots' = [slots EXCEPT ![Slot(head)] = message]
    /\ producerPc' = "commit"
    /\ UNCHANGED <<head, tail, tailSeen, message, consumerVars>>

Commit ==
    /\ producerPc = "commit"
    /\ head' = head + 1
    /\ producerPc' = "idle"
    /\ UNCHANGED <<tail, slots, tailSeen, message, consumerVars>>

-----------------------------------------------------------------------------
(* The consumer                                                            *)

\* The bug of an off-by-one test for empty: the last item is never peeked.
TryPeekAllButLast ==
    /\ consumerPc = "idle"
    /\ \E h \in headSeen .. head :
        /\ h > tail + 1
        /\ headSeen' = h
    /\ consumerPc' = "read"
    /\ UNCHANGED <<head, tail, slots, copy, received, producerVars>>

\* try_peek returns a slot ...
TryPeek ==
    /\ consumerPc = "idle"
    /\ \E h \in headSeen .. head :
        /\ h /= tail
        /\ headSeen' = h
    /\ consumerPc' = "read"
    /\ UNCHANGED <<head, tail, slots, copy, received, producerVars>>

\* ... or nullptr.
TryPeekEmpty ==
    /\ consumerPc = "idle"
    /\ \E h \in headSeen .. head :
        /\ h = tail
        /\ headSeen' = h
    /\ UNCHANGED <<head, tail, slots, consumerPc, copy, received, producerVars>>

\* The caller reads the message through the pointer it peeked.
ReadSlot ==
    /\ consumerPc = "read"
    /\ copy' = slots[Slot(tail)]
    /\ consumerPc' = "consume"
    /\ UNCHANGED <<head, tail, slots, headSeen, received, producerVars>>

\* The bug of giving the slot back before it has been read.
ConsumeBeforeRead ==
    /\ consumerPc \in {"read", "consume"}
    /\ tail' = tail + 1
    /\ received' = <<copy>>
    /\ consumerPc' = "idle"
    /\ UNCHANGED <<head, slots, headSeen, copy, producerVars>>

Consume ==
    /\ consumerPc = "consume"
    /\ tail' = tail + 1
    /\ received' = <<copy>>
    /\ consumerPc' = "idle"
    /\ UNCHANGED <<head, slots, headSeen, copy, producerVars>>

-----------------------------------------------------------------------------
ProducerNext == (\E v \in Values : TryClaim(v)) \/ TryClaimFull \/ WriteSlot \/ Commit
ConsumerNext == TryPeek \/ TryPeekEmpty \/ ReadSlot \/ Consume
Next == ProducerNext \/ ConsumerNext

\* A claimed slot is always committed, a peeked one always consumed, and the
\* consumer's thread polls without end: both loops only stop at shutdown. A load
\* returns the newest value eventually.
Fairness ==
    /\ WF_vars(WriteSlot) /\ WF_vars(Commit)
    /\ WF_vars(TryPeek) /\ WF_vars(ReadSlot) /\ WF_vars(Consume)

Spec == Init /\ [][Next]_vars
FairSpec == Spec /\ Fairness

-----------------------------------------------------------------------------
(* Properties                                                              *)

TypeOK ==
    /\ head \in Nat
    /\ tail \in Nat
    /\ slots \in [0 .. Capacity - 1 -> Values]
    /\ producerPc \in {"idle", "write", "commit"}
    /\ tailSeen \in Nat
    /\ message \in Values
    /\ consumerPc \in {"idle", "read", "consume"}
    /\ headSeen \in Nat
    /\ copy \in Values
    /\ received = <<>> \/ \E v \in Values : received = <<v>>

\* The two threads never touch one slot at the same time: while the producer may
\* be writing the slot try_claim returned, the consumer is not reading it through
\* the pointer try_peek returned, however stale the counters either has seen.
NoSlotRace ==
    (producerPc = "write" /\ consumerPc \in {"read", "consume"}) => Slot(head) /= Slot(tail)

\* size() never leaves 0..Capacity: head - tail does not wrap below zero and no
\* published item is overwritten before it is consumed.
SizeInRange == tail <= head /\ head - tail <= Capacity

\* The inductive invariant: what each thread has seen of the other's counter is
\* old but safe, the committed slot holds the message and the copy is the slot.
RingInv ==
    /\ TypeOK
    /\ SizeInRange
    /\ tailSeen <= tail
    /\ headSeen <= head
    /\ tail <= headSeen
    /\ producerPc /= "idle" => head - tailSeen < Capacity
    /\ producerPc = "commit" => slots[Slot(head)] = message
    /\ consumerPc /= "idle" => tail < headSeen
    /\ consumerPc = "consume" => copy = slots[Slot(tail)]

\* The published items, oldest first: the refinement mapping.
Published == [i \in 1 .. head - tail |-> slots[Slot(tail + i - 1)]]

Fifo == INSTANCE BoundedFifo WITH queue <- Published, delivered <- received

\* The ring implements the bounded queue: every item committed is delivered once,
\* in order and unaltered, and a step of a thread that moves no counter moves no item.
ImplementsFifo == Fifo!FifoSpec

\* Whatever is published is consumed: the ring does not strand its last items.
EveryItemConsumed == \A n \in 1 .. MaxItems : head >= n ~> tail >= n

=============================================================================
