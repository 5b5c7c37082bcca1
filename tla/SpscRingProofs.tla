--------------------------- MODULE SpscRingProofs ---------------------------
(***************************************************************************)
(* Proofs about SpscRing for every capacity, every set of messages and     *)
(* every number of items: the inductive invariant RingInv, the absence of  *)
(* races on a slot, and that the ring implements BoundedFifo.              *)
(***************************************************************************)
EXTENDS SpscRing, SequenceTheorems, TLAPS

\* A multiple of n strictly between 0 and n does not exist.
LEMMA NoMultipleBetween ==
    ASSUME NEW n \in Nat \ {0}, NEW k \in Int, 0 < n * k, n * k < n
    PROVE FALSE
<1>1. CASE k <= 0
  BY <1>1, SMT
<1>2. CASE k >= 1
  BY <1>2, SMT
<1> QED
  BY <1>1, <1>2, SMT

\* Two counters less than a full turn apart use different slots (h & kMask).
LEMMA SlotInjective ==
    ASSUME NEW a \in Nat, NEW b \in Nat, a < b, b - a < Capacity
    PROVE Slot(a) /= Slot(b)
<1> DEFINE k == (b \div Capacity) - (a \div Capacity)
<1>1. Capacity \in Nat \ {0}
  BY CapacityAssumption
<1>2. /\ a = Capacity * (a \div Capacity) + (a % Capacity)
      /\ b = Capacity * (b \div Capacity) + (b % Capacity)
      /\ a \div Capacity \in Int
      /\ b \div Capacity \in Int
      /\ a % Capacity \in Int
      /\ b % Capacity \in Int
  BY <1>1, SMT
<1>3. SUFFICES ASSUME a % Capacity = b % Capacity
               PROVE FALSE
  BY DEF Slot
<1>4. b - a = Capacity * k
  BY <1>1, <1>2, <1>3, SMT
<1>5. k \in Int
  BY <1>2
<1>6. 0 < Capacity * k /\ Capacity * k < Capacity
  BY <1>4, SMT
<1> QED
  BY <1>1, <1>5, <1>6, NoMultipleBetween

LEMMA SlotInRange ==
    ASSUME NEW a \in Nat
    PROVE Slot(a) \in 0 .. Capacity - 1
BY CapacityAssumption, SMT DEF Slot

-----------------------------------------------------------------------------
(* The inductive invariant                                                 *)

LEMMA InitRing == Init => RingInv
BY CapacityAssumption DEF Init, RingInv, TypeOK, SizeInRange

LEMMA StepRing == RingInv /\ [Next]_vars => RingInv'
<1> SUFFICES ASSUME RingInv, [Next]_vars
             PROVE RingInv'
  OBVIOUS
<1> USE CapacityAssumption DEF RingInv, TypeOK, SizeInRange, producerVars, consumerVars
<1>1. ASSUME NEW v \in Values, TryClaim(v)
      PROVE RingInv'
  BY <1>1 DEF TryClaim, Full
<1>2. CASE TryClaimFull
  BY <1>2 DEF TryClaimFull, Full
<1>3. CASE WriteSlot
  <2>1. Slot(head) \in 0 .. Capacity - 1 /\ Slot(tail) \in 0 .. Capacity - 1
    BY SlotInRange
  <2>2. consumerPc = "consume" => Slot(tail) /= Slot(head)
    BY <1>3, SlotInjective DEF WriteSlot
  <2> QED
    BY <1>3, <2>1, <2>2 DEF WriteSlot
<1>4. CASE Commit
  BY <1>4 DEF Commit
<1>5. CASE TryPeek
  BY <1>5 DEF TryPeek
<1>6. CASE TryPeekEmpty
  BY <1>6 DEF TryPeekEmpty
<1>7. CASE ReadSlot
  BY <1>7, SlotInRange DEF ReadSlot
<1>8. CASE Consume
  BY <1>8 DEF Consume
<1>9. CASE UNCHANGED vars
  BY <1>9 DEF vars
<1> QED
  BY <1>1, <1>2, <1>3, <1>4, <1>5, <1>6, <1>7, <1>8, <1>9
  DEF Next, ProducerNext, ConsumerNext

\* Every reachable state of the ring satisfies RingInv, whatever the capacity and
\* however stale the counters that try_claim and try_peek load.
THEOREM RingInvariant == Spec => []RingInv
<1> QED
  BY InitRing, StepRing, PTL DEF Spec

\* No slot is written by the producer while the consumer reads it.
THEOREM NoSlotRaceTheorem == Spec => []NoSlotRace
<1>1. RingInv => NoSlotRace
  <2> SUFFICES ASSUME RingInv, producerPc = "write", consumerPc \in {"read", "consume"}
               PROVE Slot(head) /= Slot(tail)
    BY DEF NoSlotRace
  <2>1. tail \in Nat /\ head \in Nat /\ tail < head /\ head - tail < Capacity
    BY CapacityAssumption DEF RingInv, TypeOK, SizeInRange
  <2> QED
    BY <2>1, SlotInjective
<1> QED
  BY <1>1, RingInvariant, PTL

-----------------------------------------------------------------------------
(* The ring implements BoundedFifo                                         *)

LEMMA PublishedType ==
    RingInv => /\ Published \in Seq(Values)
               /\ Len(Published) = head - tail
               /\ \A i \in 1 .. head - tail : Published[i] = slots[Slot(tail + i - 1)]
<1> SUFFICES ASSUME RingInv
             PROVE /\ Published \in Seq(Values)
                   /\ Len(Published) = head - tail
                   /\ \A i \in 1 .. head - tail : Published[i] = slots[Slot(tail + i - 1)]
  OBVIOUS
<1>1. head - tail \in Nat
  BY DEF RingInv, TypeOK, SizeInRange
<1>2. \A i \in 1 .. head - tail : slots[Slot(tail + i - 1)] \in Values
  <2> TAKE i \in 1 .. head - tail
  <2>1. tail + i - 1 \in Nat
    BY DEF RingInv, TypeOK
  <2> QED
    BY <2>1, SlotInRange DEF RingInv, TypeOK
<1> QED
  BY <1>1, <1>2 DEF Published

\* A step that moves no counter and writes at most the claimed slot moves no item.
LEMMA PublishedUnchanged ==
    ASSUME RingInv, UNCHANGED <<head, tail>>,
           \/ UNCHANGED slots
           \/ WriteSlot
    PROVE Published' = Published
<1>1. CASE UNCHANGED slots
  BY <1>1 DEF Published, Slot
<1>2. CASE WriteSlot
  <2>1. \A i \in 1 .. head - tail :
            slots'[Slot(tail + i - 1)] = slots[Slot(tail + i - 1)]
    <3> TAKE i \in 1 .. head - tail
    <3>1. /\ tail + i - 1 \in Nat
          /\ head \in Nat
          /\ tail + i - 1 < head
          /\ head - (tail + i - 1) < Capacity
      BY <1>2, CapacityAssumption DEF RingInv, TypeOK, SizeInRange, WriteSlot
    <3>2. Slot(tail + i - 1) /= Slot(head)
      BY <3>1, SlotInjective
    <3> QED
      BY <1>2, <3>1, <3>2, SlotInRange DEF WriteSlot, RingInv, TypeOK
  <2>2. (head - tail)' = head - tail /\ \A i : Slot(tail + i - 1)' = Slot(tail + i - 1)
    BY DEF Slot
  <2> QED
    BY <2>1, <2>2 DEF Published, Slot
<1> QED
  BY <1>1, <1>2

LEMMA CommitPublishes ==
    ASSUME RingInv, RingInv', Commit
    PROVE Fifo!Publish(message)
<1>1. head - tail \in Nat /\ head - tail < Capacity /\ head \in Nat /\ tail \in Nat
  BY CapacityAssumption DEF RingInv, TypeOK, SizeInRange, Commit
<1>2. /\ Published \in Seq(Values)
      /\ Len(Published) = head - tail
      /\ \A i \in 1 .. head - tail : Published[i] = slots[Slot(tail + i - 1)]
  BY PublishedType
<1>3. /\ Published' = [i \in 1 .. head - tail + 1 |-> slots[Slot(tail + i - 1)]]
  BY <1>1 DEF Published, Commit, Slot
<1>4. slots[Slot(tail + (head - tail + 1) - 1)] = message
  <2>1. tail + (head - tail + 1) - 1 = head
    BY <1>1
  <2> QED
    BY <2>1 DEF RingInv, Commit
<1>5. Published' = Append(Published, message)
  <2>1. message \in Values
    BY DEF RingInv, TypeOK
  <2>2. /\ Append(Published, message) \in Seq(Values)
        /\ Len(Append(Published, message)) = head - tail + 1
        /\ \A i \in 1 .. head - tail : Append(Published, message)[i] = Published[i]
        /\ Append(Published, message)[head - tail + 1] = message
    BY <1>1, <1>2, <2>1, AppendProperties
  <2>3. /\ Published' \in Seq(Values)
        /\ Len(Published') = head - tail + 1
    <3>1. (Published \in Seq(Values) /\ Len(Published) = head - tail)'
      BY PublishedType, PTL
    <3> QED
      BY <1>1, <3>1 DEF Commit
  <2>4. \A i \in 1 .. head - tail + 1 : Published'[i] = Append(Published, message)[i]
    BY <1>1, <1>2, <1>3, <1>4, <2>2
  <2> QED
    BY <2>2, <2>3, <2>4, SeqEqual
<1> QED
  BY <1>1, <1>2, <1>5 DEF Fifo!Publish, Commit, consumerVars

LEMMA ConsumeDelivers ==
    ASSUME RingInv, RingInv', Consume
    PROVE Fifo!Deliver
<1>1. head - tail \in Nat /\ head - tail > 0 /\ head \in Nat /\ tail \in Nat
  BY DEF RingInv, TypeOK, SizeInRange, Consume
<1>2. /\ Published \in Seq(Values)
      /\ Len(Published) = head - tail
      /\ \A i \in 1 .. head - tail : Published[i] = slots[Slot(tail + i - 1)]
  BY PublishedType
<1>3. Published' = [i \in 1 .. head - tail - 1 |-> slots[Slot(tail + (i + 1) - 1)]]
  <2>1. \A i \in 1 .. head - tail - 1 : tail + 1 + i - 1 = tail + (i + 1) - 1
    BY <1>1
  <2>2. Published' = [i \in 1 .. head - (tail + 1) |-> slots[Slot(tail + 1 + i - 1)]]
    BY DEF Published, Consume, Slot
  <2>3. head - (tail + 1) = head - tail - 1
    BY <1>1
  <2> QED
    BY <2>1, <2>2, <2>3
<1>4. Published' = Tail(Published)
  <2>1. /\ Tail(Published) \in Seq(Values)
        /\ Len(Tail(Published)) = head - tail - 1
        /\ \A i \in 1 .. head - tail - 1 : Tail(Published)[i] = Published[i + 1]
    BY <1>1, <1>2, HeadTailProperties
  <2>2. /\ Published' \in Seq(Values)
        /\ Len(Published') = head - tail - 1
    <3>1. (Published \in Seq(Values) /\ Len(Published) = head - tail)'
      BY PublishedType, PTL
    <3> QED
      BY <1>1, <3>1 DEF Consume
  <2>3. \A i \in 1 .. head - tail - 1 : Published'[i] = Tail(Published)[i]
    BY <1>1, <1>2, <1>3, <2>1
  <2> QED
    BY <2>1, <2>2, <2>3, SeqEqual
<1>5. Published /= <<>> /\ Head(Published) = copy
  <2>1. Published[1] = slots[Slot(tail + 1 - 1)] /\ tail + 1 - 1 = tail
    BY <1>1, <1>2
  <2> QED
    BY <1>1, <1>2, <2>1 DEF RingInv, Consume
<1> QED
  BY <1>4, <1>5 DEF Fifo!Deliver, Consume

\* The ring implements the bounded first-in first-out queue, for every capacity:
\* commit publishes the message at the back, consume delivers the one in front,
\* and no other access of either thread moves an item.
THEOREM RingImplementsFifo == Spec => ImplementsFifo
<1>1. Init => Fifo!FifoInit
  <2> SUFFICES ASSUME Init
               PROVE Published = <<>> /\ received = <<>>
    BY DEF Fifo!FifoInit
  <2>1. head - tail = 0
    BY DEF Init
  <2>2. Published = [i \in 1 .. 0 |-> slots[Slot(tail + i - 1)]]
    BY <2>1 DEF Published
  <2> QED
    BY <2>2 DEF Init
<1>2. RingInv /\ RingInv' /\ [Next]_vars => [Fifo!FifoNext]_(Fifo!fifoVars)
  <2> SUFFICES ASSUME RingInv, RingInv', [Next]_vars
               PROVE [Fifo!FifoNext]_(Fifo!fifoVars)
    OBVIOUS
  <2>1. CASE Commit
    <3>1. message \in Values
      BY DEF RingInv, TypeOK
    <3> QED
      BY <2>1, <3>1, CommitPublishes DEF Fifo!FifoNext
  <2>2. CASE Consume
    BY <2>2, ConsumeDelivers DEF Fifo!FifoNext
  <2>3. CASE UNCHANGED <<head, tail, received>> /\ (UNCHANGED slots \/ WriteSlot)
    BY <2>3, PublishedUnchanged DEF Fifo!fifoVars
  <2>4. \/ Commit \/ Consume
        \/ UNCHANGED <<head, tail, received>> /\ (UNCHANGED slots \/ WriteSlot)
    BY DEF Next, ProducerNext, ConsumerNext, TryClaim, TryClaimFull, WriteSlot,
           TryPeek, TryPeekEmpty, ReadSlot, vars, consumerVars
  <2> QED
    BY <2>1, <2>2, <2>3, <2>4
<1> QED
  BY <1>1, <1>2, RingInvariant, PTL DEF Spec, ImplementsFifo, Fifo!FifoSpec

=============================================================================
