--------------------------- MODULE RecoveryLedger ---------------------------
(***************************************************************************)
(* RecoveryLedger of luv_recovery.hpp: the gateway's write-ahead log, a    *)
(* file of fixed-size records, and its replay. The file is a record        *)
(*                                                                         *)
(*   records    the records in it, each with the sequence number it was    *)
(*              written with                                               *)
(*   torn       whether some write stopped in the middle of a record: the  *)
(*              size is no multiple of a record, or what follows the       *)
(*              fragment fails its checksum                                *)
(*   sequence   the writer's _sequence, which numbers the next record      *)
(*                                                                         *)
(* Price, side and timestamp of a record are left out: replay copies them. *)
(***************************************************************************)
EXTENDS Integers, Sequences, FiniteSets

CONSTANTS OrderIds, MaxQty,
          ReplayCapacity      \* orders replay has room for

EventTypes == {"Add", "Fill", "Cancel", "Ack", "New", "Replace", "TerminalFill"}

EmptyLog == [records |-> <<>>, torn |-> FALSE, sequence |-> 0]

Record(wal, type, id, q) ==
    [type |-> type, sequence |-> wal.sequence, order_id |-> id, quantity |-> q]

Written(wal, type, id, q) == [wal EXCEPT !.records = Append(@, Record(wal, type, id, q))]

\* The bug of writing a terminal partial fill as an ordinary fill.
LoggedAsFill(wal, type, id, q) ==
    [Written(wal, IF type = "TerminalFill" THEN "Fill" ELSE type, id, q)
        EXCEPT !.sequence = @ + 1]

\* append_with_side succeeds: the record is written and synced.
Logged(wal, type, id, q) == [Written(wal, type, id, q) EXCEPT !.sequence = @ + 1]

\* append_with_side fails: write() fails before the first byte, or in the middle
\* of the record, or the record is written and fsync() fails. The sequence
\* number advances in none of them.
LogFailed(wal, fault, type, id, q) ==
    CASE fault = "write" -> wal
      [] fault = "torn" -> [wal EXCEPT !.torn = TRUE]
      [] fault = "fsync" -> Written(wal, type, id, q)

-----------------------------------------------------------------------------
(* Replay                                                                  *)

Refused == [ok |-> FALSE, open |-> [id \in OrderIds |-> 0]]
Recovered(open) == [ok |-> TRUE, open |-> open]

OpenIn(open) == {id \in OrderIds : open[id] > 0}

\* One record on the orders recovered so far: order -> open quantity, 0 if none.
apply(open, r) ==
    LET id == r.order_id
        known == open[id] > 0
        to(q) == Recovered([open EXCEPT ![id] = q])
    IN  CASE r.type \in {"Add", "New"} ->
                IF known \/ Cardinality(OpenIn(open)) = ReplayCapacity THEN Refused
                ELSE to(r.quantity)
          [] r.type = "Fill" ->
                IF known /\ r.quantity <= open[id] THEN to(open[id] - r.quantity) ELSE Refused
          [] r.type = "TerminalFill" ->
                IF known /\ r.quantity <= open[id] THEN to(0) ELSE Refused
          [] r.type = "Replace" -> IF known THEN to(r.quantity) ELSE Refused
          [] r.type = "Cancel" -> IF known THEN to(0) ELSE Refused
          [] r.type = "Ack" -> Refused

\* open() and replay(): a fragment, a number out of order or a record that does
\* not apply refuses the whole log.
replay(wal) ==
    LET result[n \in 0 .. Len(wal.records)] ==
            IF n = 0 THEN Recovered([id \in OrderIds |-> 0])
            ELSE IF result[n - 1].ok /\ wal.records[n].sequence = n - 1
            THEN apply(result[n - 1].open, wal.records[n])
            ELSE Refused
    IN  IF wal.torn THEN Refused ELSE result[Len(wal.records)]

=============================================================================
