-------------------------- MODULE ExecutionGateway --------------------------
(***************************************************************************)
(* ExecutionGateway of luv_execution.hpp: the order table, the risk state  *)
(* of each symbol and the limiter, composed with the reconciliation ledger *)
(* (ReconciliationLedger), the circuit breaker (CircuitBreaker) and the    *)
(* write-ahead log (RecoveryLedger). One thread owns the gateway; what     *)
(* interleaves is what it is told: intents, reports of the venue and       *)
(* operator commands, in any order. The venue is not trusted: a report may *)
(* be late, repeated, or name an order that does not exist.                *)
(*                                                                         *)
(* The checks of an intent that read neither orders nor position (age of   *)
(* the signal, price band and collar, drawdown, encoding) are one Boolean, *)
(* sound. The breaker has the configuration the gateway gives it: one      *)
(* failure opens it, and only reset() closes it.                           *)
(***************************************************************************)
EXTENDS Integers, Sequences, FiniteSetsExt

CONSTANTS Symbols,
          OrderIds,               \* positive numbers
          SymbolsOf,              \* order -> the symbols its identifier is used under
          MaxActiveOrders,        \* kMaxActiveOrders: slots of a symbol
          LedgerCapacity,         \* entries of the reconciliation ledger
          Hash,                   \* its hash of an order
          MaxOrderQty,            \* limits.max_order_qty
          MaxAbsPosition,         \* limits.max_abs_position
          MaxRejections,          \* limits.max_consecutive_rejections
          Prices,                 \* prices of an order
          Setups,                 \* the setups to be explored, see Setup
          MaxGross,               \* bound: gross exposure at which the run stops
          MaxRecords              \* bound: records of the log

\* How the gateway is set up before it is used, and what it meets: set_audit_log
\* and set_recovery_ledger were called or not, the limiter's bound on working
\* orders, the ways an append to the write-ahead log may fail, whether the venue
\* sends reject reports, and the prices in use.
Setup == [audit : BOOLEAN, wal : BOOLEAN, max_pending : Nat,
          faults : SUBSET {"write", "torn", "fsync"}, rejects : BOOLEAN,
          prices : SUBSET Prices]

ASSUME GatewayAssumption ==
    /\ OrderIds \subseteq Nat \ {0}
    /\ SymbolsOf \in [OrderIds -> SUBSET Symbols]
    /\ {MaxActiveOrders, LedgerCapacity, MaxOrderQty, MaxRejections} \subseteq Nat \ {0}
    /\ {MaxAbsPosition, MaxGross, MaxRecords} \subseteq Nat
    /\ Hash \in [OrderIds -> 0 .. LedgerCapacity - 1]
    /\ Prices \subseteq Nat \ {0}
    /\ Setups \subseteq Setup

VARIABLES orders,          \* exec_states[s].orders
          net,             \* exec_states[s].risk.net_position
          gross,           \* exec_states[s].risk.gross_exposure
          order_count,     \* exec_states[s].risk.order_count
          reject_count,    \* exec_states[s].risk.reject_count, up to MaxRejections
          halted,          \* exec_states[s].risk.halted
          pending,         \* the limiter's count
          ledger,          \* _reconciliation
          breaker,         \* _breaker
          wal,             \* the file behind _recovery_ledger
          setup,           \* the setup; it stays as it is
          settled          \* history: quantity and notional executed in s

risk == <<net, gross, order_count>>
control == <<reject_count, halted, breaker>>
vars == <<orders, risk, control, pending, ledger, wal, setup, settled>>

Ledger == INSTANCE ReconciliationLedger
              WITH Capacity <- LedgerCapacity, MaxQty <- MaxOrderQty, entries <- ledger

Breaker == INSTANCE CircuitBreaker
               WITH MaxFailures <- 1, CoolDown <- 0, HalfOpenEnabled <- FALSE, MaxProbes <- 1,
                    SuccessesNeeded <- 1, MaxRejections <- 0, MaxRate <- 0, RateWindow <- 0,
                    LossLimit <- 0

Wal == INSTANCE RecoveryLedger WITH MaxQty <- MaxOrderQty, ReplayCapacity <- Cardinality(OrderIds)

-----------------------------------------------------------------------------
(* Orders                                                                  *)

Slots == 1 .. MaxActiveOrders
Sides == {1, -1}                       \* buy and sell
Quantities == 1 .. MaxOrderQty

\* ActiveOrder.state: 0, 1, 2, 3.
States == {"Free", "Live", "Partial", "Done"}

Order == [order_id : OrderIds \cup {0}, side : Sides, price : Prices \cup {0},
          qty : 0 .. MaxOrderQty, filled : Nat, state : States]

FreeOrder == [order_id |-> 0, side |-> 1, price |-> 0, qty |-> 0, filled |-> 0, state |-> "Free"]

Working(o) == o.state \in {"Live", "Partial"}

\* What an order still reserves of the position and of the exposure.
signed_qty_delta(o) == o.side * o.qty
Notional(o) == o.price * o.qty

WorkingSlots(s) == {i \in Slots : Working(orders[s][i])}

\* The slots a loop over the orders of s matches for an identifier.
Holding(s, id) == {i \in Slots : orders[s][i].order_id = id /\ orders[s][i].state /= "Free"}
HoldingWorking(s, id) == {i \in Holding(s, id) : Working(orders[s][i])}

\* The bug of taking the last vacant slot.
reserve_last_slot(os, o) ==
    [os EXCEPT ![Max({i \in Slots : ~Working(os[i])})] = o]

\* reserve_order_slot overwrites the first slot that is free or done.
reserve_order_slot(os, o) ==
    [os EXCEPT ![Min({i \in Slots : ~Working(os[i])})] = o]

\* release_order_slot clears the first slot with the identifier.
release_order_slot(os, id) ==
    [os EXCEPT ![Min({i \in Slots : os[i].order_id = id})] = FreeOrder]

Decrement(n) == IF n > 0 THEN n - 1 ELSE n

Init ==
    /\ orders = [s \in Symbols |-> [i \in Slots |-> FreeOrder]]
    /\ net = [s \in Symbols |-> 0]
    /\ gross = [s \in Symbols |-> 0]
    /\ order_count = [s \in Symbols |-> 0]
    /\ reject_count = [s \in Symbols |-> 0]
    /\ halted = [s \in Symbols |-> FALSE]
    /\ pending = 0
    /\ ledger = Ledger!EmptyTable
    /\ breaker = Breaker!ClosedBreaker
    /\ wal = Wal!EmptyLog
    /\ setup \in Setups
    /\ settled = [s \in Symbols |-> [qty |-> 0, notional |-> 0]]

-----------------------------------------------------------------------------
(* Steps shared by the operations                                          *)

CountReject(s) ==
    reject_count' = [reject_count EXCEPT ![s] = IF @ < MaxRejections THEN @ + 1 ELSE @]

Halt(s) == halted' = [halted EXCEPT ![s] = TRUE]

Allowed == Breaker!Allow(breaker, 1).allowed

\* A report that cannot be reconciled halts its symbol and opens the breaker.
Refuse(s) ==
    /\ Halt(s)
    /\ breaker' = Breaker!Tripped(breaker, 0)
    /\ UNCHANGED <<orders, risk, reject_count, pending, ledger, settled>>

LogRoom == setup.wal => Len(wal.records) < MaxRecords

LogOk(type, id, q) ==
    LogRoom /\ wal' = IF setup.wal THEN Wal!Logged(wal, type, id, q) ELSE wal

LogFails(type, id, q) ==
    setup.wal /\ LogRoom /\ \E f \in setup.faults : wal' = Wal!LogFailed(wal, f, type, id, q)

-----------------------------------------------------------------------------
(* Intents                                                                 *)

\* PreTradeRisk::evaluate.
evaluate(s, side, q, sound) ==
    /\ sound
    /\ q \in 1 .. MaxOrderQty
    /\ net[s] + side * q \in -MaxAbsPosition .. MaxAbsPosition
    /\ ~halted[s]

NewOrder(id, side, p, q) ==
    [order_id |-> id, side |-> side, price |-> p, qty |-> q, filled |-> 0, state |-> "Live"]

\* The breaker is open or the limiter is full: the symbol halts.
BuildDenied(s) ==
    /\ ~Allowed \/ pending >= setup.max_pending
    /\ CountReject(s)
    /\ Halt(s)
    /\ UNCHANGED <<orders, risk, breaker, pending, ledger, wal, settled>>

Admissible(s, side, q, sound) ==
    Allowed /\ pending < setup.max_pending /\ evaluate(s, side, q, sound)

\* What the limiter counted is released again.
BuildRejected(s, side, q, sound) ==
    /\ Allowed
    /\ pending < setup.max_pending
    /\ ~evaluate(s, side, q, sound)
    /\ CountReject(s)
    /\ UNCHANGED <<orders, risk, halted, breaker, pending, ledger, wal, settled>>

BuildOverCapacity(s, side, q, sound) ==
    /\ Admissible(s, side, q, sound)
    /\ order_count[s] >= MaxActiveOrders
    /\ CountReject(s)
    /\ Halt(s)
    /\ UNCHANGED <<orders, risk, breaker, pending, ledger, wal, settled>>

Buildable(s, side, q, sound) ==
    Admissible(s, side, q, sound) /\ order_count[s] < MaxActiveOrders

\* The identifier is in use, or the ledger is full.
BuildUnregistered(s, id, side, q, sound) ==
    /\ Buildable(s, side, q, sound)
    /\ ~Ledger!CanRegister(ledger, id)
    /\ CountReject(s)
    /\ breaker' = Breaker!AfterFailure(breaker, 0)
    /\ UNCHANGED <<orders, risk, halted, pending, ledger, wal, settled>>

\* The order is registered and has its slot, and the audit log or the
\* write-ahead log fails: both are taken back. The count, the position and the
\* limiter go up and down again; what the slot held is lost.
BuildUndone(s, id, side, p, q, sound) ==
    /\ Buildable(s, side, q, sound)
    /\ Ledger!CanRegister(ledger, id)
    /\ \/ setup.audit /\ UNCHANGED wal
       \/ LogFails("Add", id, q)
    /\ ledger' = Ledger!Cancelled(Ledger!Registered(ledger, id, q), id)
    /\ orders' = [orders EXCEPT ![s] =
                    release_order_slot(reserve_order_slot(@, NewOrder(id, side, p, q)), id)]
    /\ CountReject(s)
    /\ breaker' = Breaker!AfterFailure(breaker, 0)
    /\ UNCHANGED <<risk, halted, pending, settled>>

\* reserve_order_slot cannot fail here: by CountsAreExact a slot is vacant.
BuildAccepted(s, id, side, p, q, sound) ==
    /\ Buildable(s, side, q, sound)
    /\ gross[s] + p * q <= MaxGross
    /\ Ledger!CanRegister(ledger, id)
    /\ LogOk("Add", id, q)
    /\ ledger' = Ledger!Registered(ledger, id, q)
    /\ orders' = [orders EXCEPT ![s] = reserve_order_slot(@, NewOrder(id, side, p, q))]
    /\ net' = [net EXCEPT ![s] = @ + side * q]
    /\ gross' = [gross EXCEPT ![s] = @ + p * q]
    /\ order_count' = [order_count EXCEPT ![s] = @ + 1]
    /\ pending' = pending + 1
    /\ UNCHANGED <<control, settled>>

\* The price matters once there is an order; its own checks are in sound.
try_build(s, id, side, q, sound) ==
    \/ BuildDenied(s)
    \/ BuildRejected(s, side, q, sound)
    \/ BuildOverCapacity(s, side, q, sound)
    \/ BuildUnregistered(s, id, side, q, sound)
    \/ \E p \in setup.prices :
           BuildUndone(s, id, side, p, q, sound) \/ BuildAccepted(s, id, side, p, q, sound)

\* The order try_replace would replace.
Replaceable(s, id) == Ledger!contains(ledger, id) /\ HoldingWorking(s, id) /= {}

ReplacePasses(s, id, q, sound) ==
    /\ Replaceable(s, id)
    /\ evaluate(s, orders[s][Min(HoldingWorking(s, id))].side, q, sound)

ReplaceRejected(s, id, q, sound) ==
    /\ ~Allowed \/ ~ReplacePasses(s, id, q, sound)
    /\ CountReject(s)
    /\ halted' = [halted EXCEPT ![s] = @ \/ ~Allowed]
    /\ UNCHANGED <<orders, risk, breaker, pending, ledger, wal, settled>>

ReplaceUnaudited(s, id, q, sound) ==
    /\ setup.audit
    /\ Allowed
    /\ ReplacePasses(s, id, q, sound)
    /\ CountReject(s)
    /\ breaker' = Breaker!AfterFailure(breaker, 0)
    /\ UNCHANGED <<orders, risk, halted, pending, ledger, wal, settled>>

\* A replace that is sent changes nothing until its report arrives.
ReplaceSent(s, id, q, sound) ==
    Allowed /\ ReplacePasses(s, id, q, sound) /\ UNCHANGED vars

try_replace(s, id, q, sound) ==
    \/ ReplaceRejected(s, id, q, sound)
    \/ ReplaceUnaudited(s, id, q, sound)
    \/ ReplaceSent(s, id, q, sound)

-----------------------------------------------------------------------------
(* Reports of the venue                                                    *)

\* The remainder of order i of symbol s is no longer reserved.
Unreserve(s, i) ==
    /\ net' = [net EXCEPT ![s] = @ - signed_qty_delta(orders[s][i])]
    /\ gross' = [gross EXCEPT ![s] = @ - Notional(orders[s][i])]

\* The bug of not telling the limiter.
RetireInSymbol(s) ==
    /\ order_count' = [order_count EXCEPT ![s] = Decrement(@)]
    /\ UNCHANGED pending

\* An order stops working: one order less for the symbol and for the limiter.
Retire(s) ==
    /\ order_count' = [order_count EXCEPT ![s] = Decrement(@)]
    /\ pending' = Decrement(pending)

\* A report names no order of the symbol.
UnknownReport(s, id) ==
    Holding(s, id) = {} /\ Refuse(s) /\ UNCHANGED wal

FillInvalid(s, i, q) ==
    \/ q <= 0
    \/ q > orders[s][i].qty
    \/ ~Ledger!contains(ledger, orders[s][i].order_id)

FillRefused(s, i, q) == FillInvalid(s, i, q) /\ Refuse(s) /\ UNCHANGED wal

FillEvent(o, q, terminal) == IF terminal /\ q < o.qty THEN "TerminalFill" ELSE "Fill"

FillUnlogged(s, i, q, terminal) ==
    LET o == orders[s][i]
    IN  /\ ~FillInvalid(s, i, q)
        /\ LogFails(FillEvent(o, q, terminal), o.order_id, q)
        /\ Refuse(s)

Filled(o, q, terminal) ==
    [o EXCEPT !.qty = @ - q, !.filled = @ + q,
              !.state = IF terminal \/ q = o.qty THEN "Done" ELSE "Partial"]

\* The log has the fill before the ledger is asked: a ledger that refuses it
\* leaves it logged.
FillApplied(s, i, q, terminal) ==
    LET o == orders[s][i]
        after == Filled(o, q, terminal)
    IN  /\ ~FillInvalid(s, i, q)
        /\ LogOk(FillEvent(o, q, terminal), o.order_id, q)
        /\ IF ~Ledger!CanApply(ledger, o.order_id, q) THEN Refuse(s)
           ELSE /\ ledger' = Ledger!Applied(ledger, o.order_id, q, terminal)
                /\ orders' = [orders EXCEPT ![s][i] = after]
                /\ settled' = [settled EXCEPT ![s] =
                                 [qty |-> @.qty + o.side * q, notional |-> @.notional + o.price * q]]
                /\ IF after.state = "Done" THEN Retire(s) ELSE UNCHANGED <<order_count, pending>>
                /\ net' = [net EXCEPT ![s] =
                             IF terminal THEN @ - signed_qty_delta(after) ELSE @]
                /\ gross' = [gross EXCEPT ![s] = IF terminal THEN @ - Notional(after) ELSE @]
                /\ UNCHANGED control

\* The report is about the first slot with the identifier, done or not.
apply_execution_report(s, id, q, terminal) ==
    \/ UnknownReport(s, id)
    \/ /\ Holding(s, id) /= {}
       /\ LET i == Min(Holding(s, id))
          IN  FillRefused(s, i, q) \/ FillUnlogged(s, i, q, terminal) \/ FillApplied(s, i, q, terminal)

\* A cancel of a done order is stale and changes nothing.
CancelStale(s, i) == orders[s][i].state = "Done" /\ UNCHANGED vars

CancelRefused(s, i) ==
    LET id == orders[s][i].order_id
    IN  /\ Working(orders[s][i])
        /\ Refuse(s)
        /\ IF Ledger!contains(ledger, id) THEN LogFails("Cancel", id, orders[s][i].qty)
           ELSE UNCHANGED wal

\* The bug of clearing the slot and keeping its reservation.
CancelKeepingReservation(s, i) ==
    LET o == orders[s][i]
    IN  /\ Working(o)
        /\ Ledger!contains(ledger, o.order_id)
        /\ LogOk("Cancel", o.order_id, o.qty)
        /\ ledger' = Ledger!Cancelled(ledger, o.order_id)
        /\ orders' = [orders EXCEPT ![s][i] = FreeOrder]
        /\ Retire(s)
        /\ UNCHANGED <<net, gross, control, settled>>

CancelApplied(s, i) ==
    LET o == orders[s][i]
    IN  /\ Working(o)
        /\ Ledger!contains(ledger, o.order_id)
        /\ LogOk("Cancel", o.order_id, o.qty)
        /\ ledger' = Ledger!Cancelled(ledger, o.order_id)
        /\ orders' = [orders EXCEPT ![s][i] = FreeOrder]
        /\ Unreserve(s, i)
        /\ Retire(s)
        /\ UNCHANGED <<control, settled>>

apply_cancel_report(s, id) ==
    \/ UnknownReport(s, id)
    \/ /\ Holding(s, id) /= {}
       /\ LET i == Min(Holding(s, id))
          IN  CancelStale(s, i) \/ CancelRefused(s, i) \/ CancelApplied(s, i)

\* A REST cancel: apply_cancel_report on the symbol where the order works.
cancel_order(id) ==
    \E s \in Symbols : HoldingWorking(s, id) /= {} /\ apply_cancel_report(s, id)

ReplaceReportValid(s, id, p, q) ==
    HoldingWorking(s, id) /= {} /\ Ledger!contains(ledger, id) /\ q > 0 /\ p > 0

ReplaceReportRefused(s, id, p, q) ==
    /\ Refuse(s)
    /\ IF ReplaceReportValid(s, id, p, q) THEN LogFails("Replace", id, q) ELSE UNCHANGED wal

\* The bug of taking the new quantity for an increase.
ReplaceReportAdds(s, id, p, q) ==
    LET i == Min(HoldingWorking(s, id))
        o == orders[s][i]
        after == [o EXCEPT !.qty = @ + q, !.price = p]
    IN  /\ ReplaceReportValid(s, id, p, q)
        /\ gross[s] + Notional(after) - Notional(o) <= MaxGross
        /\ LogOk("Replace", id, q)
        /\ ledger' = Ledger!Replaced(ledger, id, q)
        /\ orders' = [orders EXCEPT ![s][i] = after]
        /\ net' = [net EXCEPT ![s] = @ + signed_qty_delta(after) - signed_qty_delta(o)]
        /\ gross' = [gross EXCEPT ![s] = @ + Notional(after) - Notional(o)]
        /\ UNCHANGED <<order_count, control, pending, settled>>

\* Neither the position nor the exposure is checked against the limits again.
ReplaceReportApplied(s, id, p, q) ==
    LET i == Min(HoldingWorking(s, id))
        o == orders[s][i]
        after == [o EXCEPT !.qty = q, !.price = p]
    IN  /\ ReplaceReportValid(s, id, p, q)
        /\ gross[s] + Notional(after) - Notional(o) <= MaxGross
        /\ LogOk("Replace", id, q)
        /\ ledger' = Ledger!Replaced(ledger, id, q)
        /\ orders' = [orders EXCEPT ![s][i] = after]
        /\ net' = [net EXCEPT ![s] = @ + signed_qty_delta(after) - signed_qty_delta(o)]
        /\ gross' = [gross EXCEPT ![s] = @ + Notional(after) - Notional(o)]
        /\ UNCHANGED <<order_count, control, pending, settled>>

apply_replace_report(s, id, p, q) ==
    ReplaceReportRefused(s, id, p, q) \/ ReplaceReportApplied(s, id, p, q)

\* The venue's rejection counts against the symbol and opens the breaker, also
\* when it names no order. It is not logged.
RejectCounted(s) ==
    /\ CountReject(s)
    /\ breaker' = Breaker!AfterRejection(breaker, 0)
    /\ halted' = [halted EXCEPT ![s] = @ \/ reject_count'[s] >= MaxRejections]

RejectUnknown(s) ==
    RejectCounted(s) /\ UNCHANGED <<orders, risk, pending, ledger, wal, settled>>

\* The result of the ledger's cancel is ignored.
RejectApplied(s, i) ==
    LET id == orders[s][i].order_id
    IN  /\ RejectCounted(s)
        /\ ledger' = IF Ledger!contains(ledger, id) THEN Ledger!Cancelled(ledger, id) ELSE ledger
        /\ orders' = [orders EXCEPT ![s][i] = FreeOrder]
        /\ Unreserve(s, i)
        /\ Retire(s)
        /\ UNCHANGED <<wal, settled>>

apply_reject_report(s, id) ==
    /\ setup.rejects
    /\ \/ Holding(s, id) = {} /\ RejectUnknown(s)
       \/ /\ Holding(s, id) /= {}
          /\ LET i == Min(Holding(s, id))
             IN  IF orders[s][i].state = "Done" THEN UNCHANGED vars ELSE RejectApplied(s, i)

-----------------------------------------------------------------------------
(* Operator                                                                *)

halt_symbol(s) ==
    Halt(s) /\ UNCHANGED <<orders, risk, reject_count, breaker, pending, ledger, wal, settled>>

resume_symbol(s) ==
    /\ halted' = [halted EXCEPT ![s] = FALSE]
    /\ UNCHANGED <<orders, risk, reject_count, breaker, pending, ledger, wal, settled>>

\* circuit_breaker().reset()
reset_breaker ==
    /\ breaker' = Breaker!Reset(breaker)
    /\ UNCHANGED <<orders, risk, reject_count, halted, pending, ledger, wal, settled>>

-----------------------------------------------------------------------------

\* An intent that is not sound is refused whatever its quantity.
IntentStep(s, id) ==
    \E q \in Quantities \cup {MaxOrderQty + 1}, sound \in BOOLEAN :
        /\ sound \/ q = 1
        /\ try_replace(s, id, q, sound) \/ \E side \in Sides : try_build(s, id, side, q, sound)

ReportStep(s, id) ==
    \/ apply_cancel_report(s, id)
    \/ apply_reject_report(s, id)
    \/ \E q \in Quantities \cup {0} :
           \/ \E terminal \in BOOLEAN : apply_execution_report(s, id, q, terminal)
           \/ \E p \in setup.prices \cup {0} : apply_replace_report(s, id, p, q)

Next ==
    /\ UNCHANGED setup
    /\ \/ \E id \in OrderIds :
              cancel_order(id) \/ \E s \in SymbolsOf[id] : IntentStep(s, id) \/ ReportStep(s, id)
       \/ \E s \in Symbols : halt_symbol(s) \/ resume_symbol(s)
       \/ reset_breaker

Spec == Init /\ [][Next]_vars

-----------------------------------------------------------------------------
(* Properties                                                              *)

TypeOK ==
    /\ orders \in [Symbols -> [Slots -> Order]]
    /\ net \in [Symbols -> Int]
    /\ gross \in [Symbols -> Int]
    /\ order_count \in [Symbols -> 0 .. MaxActiveOrders]
    /\ reject_count \in [Symbols -> 0 .. MaxRejections]
    /\ halted \in [Symbols -> BOOLEAN]
    /\ pending \in 0 .. setup.max_pending
    /\ settled \in [Symbols -> [qty : Int, notional : Nat]]

\* Position and exposure are never double-counted nor leaked: what has executed
\* plus what working orders still reserve, whatever the venue repeats or delays.
PositionAccounted ==
    \A s \in Symbols :
        /\ net[s] = settled[s].qty
                    + MapThenSumSet(LAMBDA i : signed_qty_delta(orders[s][i]), WorkingSlots(s))
        /\ gross[s] = settled[s].notional
                      + MapThenSumSet(LAMBDA i : Notional(orders[s][i]), WorkingSlots(s))

WorkingOrders == {<<s, i>> \in Symbols \X Slots : Working(orders[s][i])}

\* A symbol's order_count and the limiter's count are the orders that work: no
\* path takes one twice or forgets to return it, so neither admits too many
\* orders nor ends refusing all of them.
CountsAreExact ==
    /\ \A s \in Symbols : order_count[s] = Cardinality(WorkingSlots(s))
    /\ pending = Cardinality(WorkingOrders)

\* The order table and the reconciliation ledger agree: an order is in the
\* ledger exactly while it works in one slot of one symbol, with the quantity
\* of that slot.
LedgerAgrees ==
    \A id \in OrderIds :
        LET at == {w \in WorkingOrders : orders[w[1]][w[2]].order_id = id}
        IN  IF at = {} THEN ~Ledger!contains(ledger, id)
            ELSE \E w \in at :
                    /\ at = {w}
                    /\ Ledger!contains(ledger, id)
                    /\ Ledger!Remaining(ledger, id) = orders[w[1]][w[2]].qty

\* A loop that stops at the first slot with an identifier finds the working
\* order, never an older one with the same identifier that has ended.
WorkingOrderFoundFirst ==
    \A w \in WorkingOrders :
        w[2] = Min(Holding(w[1], orders[w[1]][w[2]].order_id))

\* An order that has ended never changes: its slot may be given to another order
\* or cleared by a failed build, nothing else (comment of apply_cancel_report:
\* terminal orders are immutable history).
DoneIsHistory ==
    [][\A s \in Symbols, i \in Slots :
          orders[s][i].state = "Done"
              => \/ orders'[s][i] = orders[s][i]
                 \/ orders'[s][i] = FreeOrder
                 \/ orders'[s][i].state = "Live" /\ orders'[s][i].filled = 0]_vars

\* The quantity an order works with, 0 when it does not work.
OpenQty(id) ==
    LET at == {w \in WorkingOrders : orders[w[1]][w[2]].order_id = id}
    IN  MapThenSumSet(LAMBDA w : orders[w[1]][w[2]].qty, at)

\* Killed in any state, the process leaves a log that replays to the orders it
\* worked with and their open quantities.
ReplayMatches ==
    setup.wal => Wal!replay(wal) = Wal!Recovered([id \in OrderIds |-> OpenQty(id)])

\* A report about a working order finds it in the reconciliation ledger
\* (test_gateway_fail_closed_controls asserts that the fill of a live order is
\* applied).
WorkingOrdersReconcile ==
    \A w \in WorkingOrders : Ledger!contains(ledger, orders[w[1]][w[2]].order_id)

=============================================================================
