# Formal models of the trading engine

TLA+ specifications of the parts of the engine whose correctness depends on the
order in which things happen, the TLC configurations that check them on small
instances, and TLAPS proofs for the one that everything else is built on.
`PROJECT.json` lists for every definition the lines it translates.

## The system

`main_engine.cpp` runs these threads:

| thread | owns | talks to the others through |
|---|---|---|
| ingest | the feed | `tick_ring` (SPSCRing) to the owner |
| execution owner (main) | order book, gateway, simulated fills | everything |
| egress | the UDP socket | `outbound` (StaticSpscQueue) from the owner |
| HTTP | connections of the REST API | `ExecutionBridge`: a ring of requests and a ring of responses |
| WebSocket worker | subscribers | rings of fills and of upgraded connections |
| metrics | scrapes | telemetry ring |

A tick goes from ingest through the ring to the consumer, which applies it to the
limit order book and lets the model produce a signal. Signals, and orders from
HTTP, are intents for the `ExecutionGateway`, which checks them (breaker, limiter,
risk limits), registers them in the `ReconciliationLedger`, takes a slot of the
symbol's order table, writes audit log and write-ahead log, and hands a packet to
egress. Reports of the venue (in the simulator, the delayed fill of every HTTP order)
go back into the gateway. More than a hundred further headers (pricing, margin, clearing,
regulatory reports, routing, replication) are classes of their own that the engine
does not link together; see *Inventory*.

## Modules

| module | models | state |
|---|---|---|
| `BoundedFifo` | what a ring promises: a bounded queue | `queue`, `delivered` |
| `SpscRing` | `SPSCRing`, `StaticSpscQueue` | the two atomics, the slots, each thread's program counter and what it last saw of the other's atomic |
| `SpscRingProofs` | theorems about `SpscRing` | |
| `OpenOrders` | what the ledger promises: open quantity of each order | `remaining` |
| `ReconciliationLedger` | the open-addressing table of `luv_safety.hpp` | `entries` |
| `CircuitBreaker` | `CircuitBreaker`, methods as operators on its record | |
| `BreakerTimeline` | a breaker in use: calls of `allow`, late answers, losses, time | breaker, clock, histories |
| `RecoveryLedger` | the write-ahead log and `replay`, as operators on a file | |
| `ExecutionGateway` | `ExecutionGateway`, composed with ledger, breaker, limiter and log | order table, risk state, ledger, log; `setup`: what is attached, chosen once |
| `OrderBook` | what the book promises: a queue per side and price | `book` |
| `OrderRefMap` | the hash map from order reference to location, with tombstones | |
| `LimitOrderBook` | `LOBEngine`: levels, slots, lists, map | `levels`, `map`; `limits`: the sizes, chosen once |
| `ExecutionBridge` | the two queues and the held response between HTTP and owner | `requests`, `responses`, `deferred` |
| `HttpServer` | the I/O thread of the REST API, with restarts | clients, shared body, outstanding requests, next order number |
| `EngineLoop` | the owner's loop, egress, ingest, the servers' threads and shutdown | orders that work, fill queue, outbound queue, flags, program counters |
| `MC...` | sets and functions for the constants of a run | |

Names follow the code (`try_build`, `apply_cancel_report`, `reinsert_cluster`,
`release_positions_body`). An action is a whole handler; handlers of a component that
is owned by one thread are atomic, because nothing else reads or writes their state.
Where threads meet, an action is one access to shared memory (`SpscRing`) or one
operation on a queue that the ring is shown to implement (`ExecutionBridge`,
`EngineLoop`). Operators with a comment "The bug of ..." are variants of the
definition that follows them; each shows that the property it is listed with in
`PROJECT.json` would notice that bug.

### What is abstracted

* Ring: an acquire load returns any value between the last one seen and the
  current one, so a thread may act on counters that are arbitrarily old. The 64-bit
  counters are natural numbers (they do not wrap in the life of a process).
* Gateway: the checks of an intent that read neither orders nor position (age of the
  signal, price band, collar, drawdown, encoding) are one Boolean that the
  environment chooses. The venue is not trusted: any report may arrive at any time.
* Log: price, side and time are left out, replay only copies them. An append can
  fail cleanly, leave a torn record, or leave a record whose fsync failed (`faults`
  of a setup).
* Book: one symbol. `refresh_level_locations`, slot lists, tombstones and the probe limit are
  modelled as they are.
* HTTP: what a peer sends, when it hangs up, what `send` takes and when a deadline
  passes are choices of the environment. Requests that are refused whatever the state
  are one action. A request identifier (64 bits, never reused) is any that is not in
  use anywhere, which lets the run go on for ever with three of them.
* Engine: the gateway is the set of orders that work and of those that are done. Without
  slots, the reject of an order that was just built may be refused whenever a done
  order of its symbol and identifier is still in the table, and the fill of a working
  order may always be refused; both stop the engine, as in the code. Of the WebSocket
  and the metrics server only the thread is seen, and that `stop` ends it.
  Which tick arrives and whether it gives a signal is the environment's choice.

## Runs

| run | configuration | result |
|---|---|---|
| `ring` | 2 slots, 2 values, 5 items | no race on a slot, the ring implements `BoundedFifo`, every item is consumed |
| `ledger` | 4 entries, 5 orders, colliding hash; orders end by `cancel` only | find misses no order through removals and repairs; implements `OpenOrders` |
| `breaker` | windows and cool-down of 2, 5 instants, 7 calls of `allow`, passed or refused | probes bounded, half-open never stuck, nothing passes in a cool-down, at most twice the rate in any interval of one window |
| `breaker_rate` | same | **violated**: an interval as long as the window sees more than the rate |
| `gateway` | 1 symbol, 2 slots, 2 identifiers, hash without collisions; setups: an audit log, 2 prices, room for 3 pending orders; a write-ahead log of 4 records, appends that fail cleanly, no venue rejects | position, exposure, counts and ledger agree after any intents, late, repeated or wrong reports and operator commands; ended orders do not change; the log of a killed process replays to its working orders |
| `gateway_collision` | no log, colliding hash | **violated**: filling one order hides another from the ledger |
| `gateway_reject_replay` | log, venue rejects | **violated**: a rejected order is still open after replay |
| `lob` | 2 levels, 3 references; 3 prices with 2 orders a level, and 1 price with 3 | levels sorted and consistent, locations exact through shifts, map sound; implements `OrderBook` |
| `lob_replace` | 2 prices | **violated**: a replace that finds no room loses both orders |
| `http` | 2 clients, 3 request identifiers, rings of 1 and 2, 2 order numbers | late answers reach nobody else; no place, slot or body is lost; order numbers are unique |
| `engine` | 2 symbols, 2 HTTP orders, 1 strategy order, queues of 1 | no HTTP order without a report, egress drains, fills are not starved, shutdown ends and joins every thread |
| `engine_stale_fill` | same | **violated**: the fill of a cancelled HTTP order reaches a strategy order |

### Why the bounds are enough

The interesting cases are limits and collisions, so the limits are small enough to be
hit and most things are one more than fit: more items than slots (the ring
wraps twice), more orders than entries of the ledger, more prices than levels,
more HTTP orders than entries of the fill queue. One price with three orders has a
middle to unlink. Where one instance cannot have all of this in a state space that is
finished in minutes, the constants list several and the initial state chooses one
(`Setups`, `Limits`).
Identifiers and references are reused, so that the state a removed one leaves behind
matters. `HttpServer` has no bound on time: clients come and go and the listener
restarts without end; three request identifiers are one more than the response ring
holds, which is what a response held back needs. The breaker's clock covers a trip,
its cool-down, a half-open phase and a second trip, and seven calls are more than twice
the rate of a window and the one that opens the breaker. The bounds that only end a run are
named: `MaxItems`, `MaxGross`, `MaxRecords`, `MaxTime`, `MaxCalls`, `MaxInFlight`,
`MaxRestId`, `MaxStrategyId`.

Deadlock is checked except where a run may stop: the breaker at the end of its clock
and the engine, which terminates.

### What the passing runs leave out on purpose

Four passing results hold only under a restriction. Three are the other side of a
finding, so that the rest of the component is still checked; the fourth is a default
argument.

* `ledger` has no report that ends an order through `apply`, and `gateway` gives
  colliding hashes to no two identifiers. With both, the ledger loses orders:
  `gateway_collision`.
* The setup of `gateway` with a log has no venue rejects; with them replay differs:
  `gateway_reject_replay`. Its failing appends write nothing. The torn record and the
  failed fsync are in the model (`faults` of a setup) and in no run: `open` refuses a
  torn file and nothing in the repository promises otherwise.
* In `OrderBook` an order may leave at any step, so for `ImplementsBook` a replace that
  loses its order is a leave; that it should not be is what `lob_replace` is about.
* `NoAdmissionInCoolDown` is about trips that carry a time. `trip()` without one stamps
  the trip with 0 and the cool-down is over at once. The gateway's own breaker has no
  cool-down.

Further limits: an identifier is used under one symbol in the gateway's runs; the
breaker has one caller, as in the engine, and at least as many probes as successes
needed; position limits are checked, as in the code, only when an order is built;
`EngineLoop` always refuses an identifier that works, which the gateway does as long as
its ledger finds every working order (see `gateway_collision`). An accepted HTTP order
without a packet, which the loop would reject, does not occur: `try_build` accepts only
with one.

### Fairness

* `ring`: a claimed slot is committed, and the consumer polls (both loops only end
  at shutdown). Nothing is assumed of the producer's appetite.
* `http`: the owner polls the bridge in every turn; the I/O thread drains answers and
  looks at every deadline in every turn of its loop, at most 10 ms apart, and leaves
  it once `stop` was called. No fairness for peers, `send`, `stop` or `start`.
* `engine`: the owner, egress and the clock go on, ingest sees the shutdown flag, and a
  server's thread sees that its `running_` was cleared: the HTTP thread polls for 10 ms,
  the metrics thread for 20 ms, and the WebSocket worker until its next maintenance or
  the wake-up that `stop` sends. Nothing is assumed of the requests that the HTTP
  thread makes and of the responses it takes: `FillsNotStarved` holds although requests
  may keep coming and responses may never be taken.

## What disagrees with the repository's own words

1. `breaker_rate`: `allow` counts by fixed windows, and the first request after one
   starts the next. Two bursts around the edge are more than `max_rate` in an interval
   that a test's comment reads as bounded by it; `RateWithinTwoWindows` is what holds.
2. `gateway_collision`: `ReconciliationLedger::apply` clears the entry of a finished
   order in place; unlike `cancel` it does not repair the probe chain behind it.
3. `gateway_reject_replay`: `apply_reject_report` writes nothing to the log.
4. `lob_replace`: `on_order_replace` deletes the original before it knows that the new
   order fits.
5. `engine_stale_fill`: HTTP and strategy both number orders from 1, and the simulated
   fill queue finds its order by number. Submit over HTTP, cancel, let the strategy
   send an order with that number: the fill is applied to it, or stops the engine when
   the symbols differ.

## Proofs

`SpscRingProofs` proves, for every capacity, every set of values and every bound on
the number of items:

* `RingInvariant`: `Spec => []RingInv`;
* `NoSlotRaceTheorem`: `Spec => []NoSlotRace`;
* `RingImplementsFifo`: `Spec => ImplementsFifo`, the refinement of `BoundedFifo`.

The assumptions are those of `SpscRing`: a positive capacity, some value. It need not
be a power of two (the code masks, which for a power of two is the model's `%`). `NoSlotRace` and the bound on the size are not inductive: they say
nothing of the old values that the threads act on. `RingInv` adds that what a thread
has seen of the other's counter is at most its present value, that a claim was made
with room left even by the old value, and that a committed slot and a copy hold what
they should. The refinement maps the ring to the sequence of published items; the
lemmas `CommitPublishes` and `ConsumeDelivers` say what the two steps that move a
counter do to it, and `PublishedUnchanged` that a write into a claimed slot does not
touch it. That rests on `SlotInjective`: counters less than a capacity apart have
different slots (`NoMultipleBetween`, by arithmetic).

Only model-checked: everything else. Liveness and fairness, and what the recursive
functions compute for every input (`find` and `reinsert_cluster` of the ledger, the
probes of the reference map, `replay`, the lists of a level), are out of the reach of
the installed provers; sums over the order table (`PositionAccounted`) are too, since
they need induction over sets.

## Inventory

`PROJECT.json` lists every part of the repository with its status. Not modelled yet,
and planned in this order:

1. replication: `luv_multiregion_raft_cluster.hpp`, `luv_raft_sync.hpp`,
   `luv_disaster_recovery.hpp` (elections without votes, acceptance by index, commit
   index as a median of acknowledgements that may go back);
2. the WebSocket server: admission, subscription chains, send queues, wake-ups,
   keep-alive; then the telemetry collector and bridge with their retries;
3. the audit log (hash chain, checkpoints, reopening), the sequence tracker, the stop
   orders, the sharded rings and the block pool with its tagged free list;
4. sessions: FIX, OUCH, MoldUDP64, session security;
5. stateful classes that stand alone: contingent orders, self-trade prevention,
   auction, dark pool, locates, limit-up/limit-down, margin watchdog, settlement,
   record retention; and pure integer algorithms against a reference;
6. proofs: the counts of the gateway (`CountsAreExact`, `LedgerAgrees` for a hash
   without collisions), the reservations of the HTTP server (`BodyNotLeaked`,
   `OutstandingCarried`), the levels of the book.

Left out for good: parsing and formatting of messages, pricing and statistics over
floating point, report formats, memory layout, signal handlers and sockets.
