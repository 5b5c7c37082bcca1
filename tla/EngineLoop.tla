----------------------------- MODULE EngineLoop -----------------------------
(***************************************************************************)
(* The threads of main_engine.cpp with the control plane enabled and a     *)
(* model loaded: the execution owner (main), the egress thread, the ingest *)
(* thread, and the threads of the HTTP, WebSocket and metrics servers. Of  *)
(* the HTTP thread the requests it makes and the responses it takes are    *)
(* seen (HttpServer models the rest of it), of the two others only that    *)
(* they run. A turn of the owner is: at most one due simulated fill, at    *)
(* most MaxPerTurn requests of the bridge, at most one tick and the        *)
(* strategy's order for it.                                                *)
(*                                                                         *)
(* The gateway is what ExecutionGateway and its runs say of it, without    *)
(* its slots: an order is refused by a risk check, or because its          *)
(* identifier works already, which opens the breaker, or it works. The     *)
(* gateway refuses the fill of a working order when its ledger does not    *)
(* find the entry (see gateway_collision); that a working identifier is    *)
(* then not refused either is left to the gateway's own model. The         *)
(* bridge's queues are bounded FIFO queues, see SpscRing; of the outbound  *)
(* queue only the length matters.                                          *)
(***************************************************************************)
EXTENDS ExecutionBridge, FiniteSetsExt

CONSTANTS Symbols,              \* numbers: query_order looks in their order
          MaxPerTurn,           \* kMaxHttpRequestsPerExecutionTurn
          FillCapacity,         \* kSimulatedRestFillCapacity
          OutboundCapacity,     \* kPacketQueueCapacity
          MaxRestId,            \* bound: orders from HTTP
          MaxStrategyId         \* bound: orders from the strategy

ASSUME EngineAssumption ==
    /\ Symbols \subseteq Nat
    /\ {RequestCapacity, ResponseCapacity, MaxPerTurn, FillCapacity, OutboundCapacity} \subseteq Nat \ {0}
    /\ {MaxRestId, MaxStrategyId} \subseteq Nat

VARIABLES working, done,        \* orders of the gateway
          breaker_open,
          fills,                \* entries_ of SimulatedRestFillQueue
          due,                  \* how many of them are due
          outbound,             \* number of packets on their way to egress
          turn, served,         \* where the owner is; requests served in this turn
          shutdown, strategy_done, ingest_done,
          egress,               \* where egress_loop is
          running,              \* the servers whose running_ is set
          serving,              \* the servers whose thread is in its loop
          next_rest_id, next_strategy_id

gateway == <<working, done, breaker_open>>
queues == <<fills, due, outbound>>
owner == <<turn, served, strategy_done>>
ids == <<next_rest_id, next_strategy_id>>
servers == <<running, serving>>
threads == <<ingest_done, egress, servers>>
vars == <<bridge, gateway, queues, owner, shutdown, ids, threads>>

Servers == {"Http", "WebSocket", "Metrics"}

Init ==
    /\ BridgeInit
    /\ working = {} /\ done = {} /\ breaker_open = FALSE
    /\ fills = <<>> /\ due = 0 /\ outbound = 0
    /\ ingest_done = FALSE /\ egress = "Test"
    /\ running = Servers /\ serving = Servers
    /\ turn = "Fill" /\ served = 0 /\ strategy_done = FALSE /\ shutdown = FALSE
    /\ next_rest_id = 1 /\ next_strategy_id = 1

-----------------------------------------------------------------------------
(* The gateway                                                             *)

Order(s, id, by) == [symbol |-> s, id |-> id, by |-> by]

\* try_build refuses; an identifier that works already is a failure, and one
\* failure opens the breaker.
BuildRefused(o) ==
    /\ breaker_open' \in {breaker_open, breaker_open \/ \E w \in working : w.id = o.id}
    /\ UNCHANGED <<working, done>>

Buildable(o) == ~breaker_open /\ \A w \in working : w.id /= o.id

\* The order takes a vacant slot of its symbol, which may hold one that is done.
TakesSlot(o) ==
    done' \in {done} \cup {done \ {d} : d \in {x \in done : x.symbol = o.symbol}}

Built(o) ==
    /\ Buildable(o)
    /\ working' = working \cup {o}
    /\ TakesSlot(o)
    /\ UNCHANGED breaker_open

\* An order that was built and cannot be sent: what apply_reject_report returns
\* is ok. It refuses when it meets a done order of this symbol and identifier
\* first, and then the order stays as it is.
BuiltAndRejected(o, ok) ==
    /\ Buildable(o)
    /\ TakesSlot(o)
    /\ ok \/ \E d \in done' : d.symbol = o.symbol /\ d.id = o.id
    /\ working' = IF ok THEN working ELSE working \cup {o}
    /\ breaker_open' = ok

\* The orders query_order may return: in the first symbol that has any, the
\* working one if there is one.
query_order(id) ==
    LET has == {o \in working \cup done : o.id = id}
        first == {o \in has : \A p \in has : o.symbol <= p.symbol}
    IN  IF first \cap working /= {} THEN first \cap working ELSE first

-----------------------------------------------------------------------------
(* The execution owner                                                     *)

\* The loop is left: strategy_done is set, then the threads are joined.
Leave == turn' = "Leaving" /\ served' = 0 /\ strategy_done' = TRUE

\* The owner meets what it cannot reconcile.
StopEngine == Leave /\ shutdown' = TRUE

GoTo(t) == turn' = t /\ served' = 0 /\ UNCHANGED strategy_done

OwnerLeaves ==
    /\ turn \in {"Fill", "Tick"}
    /\ shutdown
    /\ Leave
    /\ UNCHANGED <<bridge, gateway, queues, shutdown, ids, threads>>

NothingDue ==
    /\ turn = "Fill"
    /\ ~shutdown
    /\ due = 0
    /\ GoTo("Http")
    /\ UNCHANGED <<bridge, gateway, queues, shutdown, ids, threads>>

TakeFill == fills' = Tail(fills) /\ due' = due - 1 /\ UNCHANGED outbound

\* An order that is gone or done is stale. One under another symbol, and a report
\* that the gateway refuses, are inconsistencies and stop the engine; refusing
\* trips the breaker.
complete_due ==
    LET fill == Head(fills)
        found == query_order(fill.id)
        o == CHOOSE x \in found : TRUE
    IN  /\ turn = "Fill"
        /\ ~shutdown
        /\ due > 0
        /\ TakeFill
        /\ CASE found = {} \/ found \subseteq done ->
                    GoTo("Http") /\ UNCHANGED <<gateway, shutdown>>
             [] found \subseteq working /\ o.symbol = fill.symbol ->
                    \/ /\ working' = working \ {o}
                       /\ done' = done \cup {o}
                       /\ GoTo("Http")
                       /\ UNCHANGED <<breaker_open, shutdown>>
                    \/ /\ breaker_open' = TRUE
                       /\ StopEngine
                       /\ UNCHANGED <<working, done>>
             [] OTHER -> StopEngine /\ UNCHANGED gateway
        /\ UNCHANGED <<bridge, ids, threads>>

\* The bug of draining the bridge without a bound.
NeverServed(n) == FALSE

Served(n) == n >= MaxPerTurn

\* The turn's requests are served, or process_one has nothing it can do.
HttpTurnEnds ==
    /\ turn = "Http"
    /\ Served(served) \/ Blocked \/ (requests = <<>> /\ deferred = None)
    /\ GoTo("Tick")
    /\ UNCHANGED <<bridge, gateway, queues, shutdown, ids, threads>>

MayServe == turn = "Http" /\ ~Served(served)

Serves ==
    /\ MayServe
    /\ turn' = turn
    /\ served' = IF served < MaxPerTurn THEN served + 1 ELSE served
    /\ UNCHANGED strategy_done

\* The next request of the bridge, if it is such a command.
Asked(command) ==
    IF requests /= <<>> /\ Head(requests).command = command THEN {Head(requests)} ELSE {}

Asks(command) == Asked(command) /= {} /\ TakeRequest

ServeFlush ==
    /\ Serves
    /\ FlushDeferred
    /\ UNCHANGED <<gateway, queues, shutdown, ids, threads>>

ServeQuery ==
    /\ Serves
    /\ Asks("Query")
    /\ UNCHANGED <<gateway, queues, shutdown, ids, threads>>

\* cancel_order: the order that works under this identifier, whoever sent it.
ServeCancel ==
    /\ Serves
    /\ Asks("Cancel")
    /\ working' = {w \in working : w.id /= Head(requests).order_id}
    /\ UNCHANGED <<done, breaker_open, queues, shutdown, ids, threads>>

\* There is a packet exactly when try_build accepts the order: that an accepted
\* order has none, which the loop would reject, does not happen.
SubmitRefused(o) ==
    /\ Serves
    /\ TakeRequest
    /\ BuildRefused(o)
    /\ UNCHANGED <<queues, shutdown, ids, threads>>

EgressFull == outbound >= OutboundCapacity

SubmitBlocked(o, ok) ==
    /\ TakeRequest
    /\ EgressFull
    /\ BuiltAndRejected(o, ok)
    /\ IF ok THEN Serves /\ UNCHANGED shutdown ELSE MayServe /\ StopEngine
    /\ UNCHANGED <<queues, ids, threads>>

\* The bug of keeping an order that has no simulated report to come.
SubmitUnscheduledKept(o, ok) ==
    /\ Serves
    /\ TakeRequest
    /\ ~EgressFull
    /\ Len(fills) >= FillCapacity
    /\ Built(o)
    /\ outbound' = outbound + 1
    /\ UNCHANGED <<fills, due, shutdown, ids, threads>>

\* The packet is on its way and the report cannot be scheduled.
SubmitUnscheduled(o, ok) ==
    /\ MayServe
    /\ TakeRequest
    /\ ~EgressFull
    /\ Len(fills) >= FillCapacity
    /\ BuiltAndRejected(o, ok)
    /\ outbound' = outbound + 1
    /\ StopEngine
    /\ UNCHANGED <<fills, due, ids, threads>>

SubmitAccepted(o) ==
    /\ Serves
    /\ TakeRequest
    /\ ~EgressFull
    /\ Len(fills) < FillCapacity
    /\ Built(o)
    /\ outbound' = outbound + 1
    /\ fills' = Append(fills, o)
    /\ UNCHANGED <<due, shutdown, ids, threads>>

TurnEnds == turn = "Tick" /\ ~shutdown /\ GoTo("Fill")

\* No tick, or a tick without a signal. When ticks arrive, and which of them the
\* model makes a signal of, is the environment's choice.
NoSignal ==
    /\ TurnEnds
    /\ UNCHANGED <<bridge, gateway, queues, shutdown, ids, threads>>

Signal ==
    /\ turn = "Tick"
    /\ ~shutdown
    /\ next_strategy_id <= MaxStrategyId
    /\ next_strategy_id' = next_strategy_id + 1
    /\ UNCHANGED <<bridge, fills, due, next_rest_id, threads>>

StrategyRefused(o) ==
    Signal /\ BuildRefused(o) /\ GoTo("Fill") /\ UNCHANGED <<outbound, shutdown>>

StrategyBlocked(o, ok) ==
    /\ Signal
    /\ EgressFull
    /\ BuiltAndRejected(o, ok)
    /\ IF ok THEN GoTo("Fill") /\ UNCHANGED shutdown ELSE StopEngine
    /\ UNCHANGED outbound

StrategyAccepted(o) ==
    /\ Signal
    /\ ~EgressFull
    /\ Built(o)
    /\ outbound' = outbound + 1
    /\ GoTo("Fill")
    /\ UNCHANGED shutdown

\* The bug of joining a server's thread without telling it.
ToldNothing(server) == running' = running

\* stop of a server clears running_ and joins the thread.
Told(server) == running' = running \ {server}

\* From one join to the next: the owner waits until a thread has ended and tells
\* the next one to.
Proceed(from, joined, to) ==
    /\ turn = from
    /\ joined
    /\ turn' = to
    /\ UNCHANGED <<bridge, gateway, queues, served, strategy_done, shutdown, ids,
                   ingest_done, egress, serving>>

\* After the loop: ingest.join, egress.join, http_server.stop.
StopHttp ==
    Proceed("Leaving", ingest_done /\ egress = "Exited", "StopHttp") /\ Told("Http")

\* websocket.stop. It first waits for callers that are handing over a connection
\* or a fill: these are the HTTP thread, which has been joined, and the owner.
StopWebSocket ==
    Proceed("StopHttp", "Http" \notin serving, "StopWebSocket") /\ Told("WebSocket")

StopMetrics ==
    Proceed("StopWebSocket", "WebSocket" \notin serving, "StopMetrics") /\ Told("Metrics")

MetricsJoined ==
    Proceed("StopMetrics", "Metrics" \notin serving, "Stopped") /\ UNCHANGED running

OwnerStep ==
    \/ OwnerLeaves \/ NothingDue \/ complete_due
    \/ HttpTurnEnds \/ ServeFlush \/ ServeQuery \/ ServeCancel
    \/ \E request \in Asked("Submit") :
           \/ SubmitRefused(request.order) \/ SubmitAccepted(request.order)
           \/ \E ok \in BOOLEAN :
                  SubmitBlocked(request.order, ok) \/ SubmitUnscheduled(request.order, ok)
    \/ NoSignal
    \/ \E s \in Symbols :
           LET o == Order(s, next_strategy_id, "Strategy")
           IN  \/ StrategyRefused(o) \/ StrategyAccepted(o)
               \/ \E ok \in BOOLEAN : StrategyBlocked(o, ok)
    \/ StopHttp \/ StopWebSocket \/ StopMetrics \/ MetricsJoined

-----------------------------------------------------------------------------
(* The other threads and the environment                                *)

\* The bug of testing the queue before strategy_done.
EgressTestsSwapped ==
    /\ egress' = CASE egress = "Test" -> IF outbound = 0 THEN "TestEmpty" ELSE "Pop"
                   [] egress = "TestEmpty" -> IF strategy_done THEN "Exited" ELSE "Pop"

\* egress_loop reads strategy_done, and only when it is set the queue.
EgressTests ==
    /\ egress' = CASE egress = "Test" -> IF strategy_done THEN "TestEmpty" ELSE "Pop"
                   [] egress = "TestEmpty" -> IF outbound = 0 THEN "Exited" ELSE "Pop"

EgressTest ==
    /\ egress \in {"Test", "TestEmpty"}
    /\ EgressTests
    /\ UNCHANGED <<bridge, gateway, queues, owner, shutdown, ids, ingest_done, servers>>

EgressPop ==
    /\ egress = "Pop"
    /\ egress' = "Test"
    /\ outbound' = IF outbound = 0 THEN 0 ELSE outbound - 1
    /\ UNCHANGED <<bridge, gateway, fills, due, owner, shutdown, ids, ingest_done, servers>>

egress_loop == EgressTest \/ EgressPop

\* The ingest thread sees the request to shut down. That it may reach its
\* message limit before shows only in how the owner idles.
IngestEnds ==
    /\ shutdown
    /\ ~ingest_done
    /\ ingest_done' = TRUE
    /\ UNCHANGED <<bridge, gateway, queues, owner, shutdown, ids, egress, servers>>

HttpSubmits ==
    /\ Submittable
    /\ next_rest_id <= MaxRestId
    /\ next_rest_id' = next_rest_id + 1
    /\ \E s \in Symbols :
           requests' = Append(requests, [command |-> "Submit", request_id |-> None,
                                         order |-> Order(s, next_rest_id, "Rest")])
    /\ UNCHANGED <<responses, next_strategy_id>>

\* Every other request is answered; which answer is whose is HttpServer's matter.
\* A client may cancel any identifier: of HTTP, of the strategy, or not yet used.
HttpAsks ==
    /\ Submittable
    /\ \/ requests' = Append(requests, [command |-> "Query", request_id |-> 1])
       \/ \E id \in 1 .. MaxRestId :
              requests' = Append(requests, [command |-> "Cancel", request_id |-> 1,
                                            order_id |-> id])
    /\ UNCHANGED <<responses, ids>>

HttpDrains ==
    /\ responses /= <<>>
    /\ responses' = Tail(responses)
    /\ UNCHANGED <<requests, ids>>

\* The HTTP thread, also while the owner stops.
HttpStep ==
    /\ "Http" \in serving
    /\ HttpSubmits \/ HttpAsks \/ HttpDrains
    /\ UNCHANGED <<deferred, gateway, queues, owner, shutdown, threads>>

\* A server's thread sees at its next wake-up that running_ is cleared.
ServerEnds(server) ==
    /\ server \in serving \ running
    /\ serving' = serving \ {server}
    /\ UNCHANGED <<bridge, gateway, queues, owner, shutdown, ids, ingest_done, egress, running>>

\* poll fails: the HTTP thread ends by itself. That it may do so before the owner
\* has left its loop shows only in what it does not ask for.
HttpFails ==
    /\ turn = "Leaving"
    /\ "Http" \in serving \cap running
    /\ serving' = serving \ {"Http"}
    /\ running' = running \ {"Http"}
    /\ UNCHANGED <<bridge, gateway, queues, owner, shutdown, ids, ingest_done, egress>>

\* The clock passes the deadline of the next fill; deadlines are in queue order.
FillBecomesDue ==
    /\ turn \in {"Fill", "Http", "Tick"}
    /\ due < Len(fills)
    /\ due' = due + 1
    /\ UNCHANGED <<bridge, gateway, fills, outbound, owner, shutdown, ids, threads>>

\* A signal.
RequestShutdown ==
    /\ ~shutdown
    /\ shutdown' = TRUE
    /\ UNCHANGED <<bridge, gateway, queues, owner, ids, threads>>

Next ==
    \/ OwnerStep \/ egress_loop \/ IngestEnds \/ HttpStep \/ HttpFails
    \/ \E server \in Servers : ServerEnds(server)
    \/ FillBecomesDue \/ RequestShutdown

\* Each thread runs. The servers' threads owe only that they look at running_:
\* each of them waits in poll with a timeout.
Fairness ==
    /\ WF_vars(OwnerStep)
    /\ WF_vars(egress_loop)
    /\ WF_vars(FillBecomesDue)
    /\ WF_vars(IngestEnds)
    /\ \A server \in Servers : WF_vars(ServerEnds(server))

Spec == Init /\ [][Next]_vars /\ Fairness

-----------------------------------------------------------------------------
(* Properties                                                              *)

\* No order from HTTP keeps its reservation without a simulated report to come,
\* unless the engine stops: neither a full fill queue nor another order under
\* the same identifier takes its report away.
RestOrdersReported ==
    \A o \in working : o.by = "Rest" => o \in Range(fills) \/ shutdown

\* Every accepted order is drained before egress ends, whatever the owner queued
\* just before it set strategy_done.
EgressDrains == egress = "Exited" => outbound = 0

\* A fill that is due is taken although requests keep coming and the HTTP thread
\* does not take its responses.
FillsNotStarved == due > 0 ~> (due = 0 \/ shutdown)

\* After a request to shut down, a signal's or one of the owner's own, every
\* thread ends and is joined, in the order of the end of main: no join waits for
\* a thread that was not told, whatever that thread was doing or has yet to do.
ShutdownCompletes ==
    shutdown ~> /\ turn = "Stopped"
                /\ ingest_done /\ egress = "Exited" /\ serving = {}

\* A simulated fill is applied to the order it was scheduled for: the strategy's
\* orders get none (comment of complete_due: the fill of a cancelled order is
\* discarded).
FillsTheirOrder == \A o \in done : o.by = "Rest"

=============================================================================
