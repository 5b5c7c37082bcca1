----------------------------- MODULE HttpServer -----------------------------
(***************************************************************************)
(* HttpServer of luv_http_server: one I/O thread with a fixed table of     *)
(* clients, answers that arrive later from the execution owner through     *)
(* ExecutionBridge, a fixed table of the requests that are still to be     *)
(* answered, one shared buffer for the large answer to a positions query,  *)
(* deadlines, and restarts of the listener on the same bridge. The owner   *)
(* is here only what it does to the bridge (process_one).                  *)
(*                                                                         *)
(* The thread and the owner share nothing but the queues, so a call of the *)
(* thread on one client is one step. What a peer sends and when it hangs   *)
(* up, what send() takes, and when a deadline passes, is the environment's *)
(* choice. Requests that are refused whatever the state (malformed,        *)
(* unauthorised, unknown path) are one action. A request identifier is     *)
(* never used twice (64 bits): the model takes any that is not in use.     *)
(***************************************************************************)
EXTENDS ExecutionBridge, FiniteSetsExt

CONSTANTS Clients,          \* indices of clients_: 1 .. kMaxClientSlots
          RequestIds,
          MaxPending,       \* kMaxPendingExecutionResponses
          MaxOrderId        \* UINT32_MAX

ASSUME HttpAssumption ==
    /\ Clients \subseteq Nat \ {0}
    /\ {RequestCapacity, ResponseCapacity, MaxPending, MaxOrderId} \subseteq Nat \ {0}
    /\ None \notin RequestIds

VARIABLES serving,          \* "Up", "Stopping" (stop() was called), "Down"
          clients,          \* clients_
          body,             \* positions_body_: its owner, and whose answer it holds
          outstanding,      \* outstanding_response_ids_
          next_order_id,    \* 0 once the identifiers are used up
          issued            \* history: order identifiers taken

server == <<serving, clients, body, outstanding>>
vars == <<bridge, server, next_order_id, issued>>

\* phase: Free (fd < 0), Reading, Waiting (waiting_response), Sending
\* (sending_response). answer: the request the queued reply answers, None for an
\* error or an acknowledgement. head_left: the outgoing buffer is not sent.
\* body_left: neither is the positions body.
FreeClient ==
    [phase |-> "Free", request_id |-> None, positions |-> FALSE, owns |-> FALSE,
     answer |-> None, head_left |-> FALSE, body_left |-> FALSE]

NoClient == 0
FreeBody == [owner |-> NoClient, holds |-> None]

Init ==
    /\ BridgeInit
    /\ serving = "Up"
    /\ clients = [c \in Clients |-> FreeClient]
    /\ body = FreeBody
    /\ outstanding = {}
    /\ next_order_id = 1
    /\ issued = <<>>

-----------------------------------------------------------------------------
(* The clients and the shared body: t is [clients, body]                   *)

Table == [clients |-> clients, body |-> body]

\* The bug of forgetting that the body was reserved.
body_kept(t, c) == [t EXCEPT !.clients[c].owns = FALSE]

release_positions_body(t, c) ==
    IF ~t.clients[c].owns THEN t
    ELSE [clients |-> [t.clients EXCEPT ![c].owns = FALSE],
          body |-> IF t.body.owner = c THEN FreeBody ELSE t.body]

close_client(t, c) == [release_positions_body(t, c) EXCEPT !.clients[c] = FreeClient]

\* One send: it takes the buffer, nothing, or finds the connection broken. A
\* client that has nothing left to send is closed.
flush_client(t, c) ==
    LET cl == t.clients[c]
        closed == close_client(t, c)
    IN  CASE cl.head_left -> {[t EXCEPT !.clients[c].head_left = FALSE], t, closed}
          [] ~cl.head_left /\ cl.owns /\ cl.body_left ->
                {[t EXCEPT !.clients[c].body_left = FALSE], t, closed}
          [] OTHER -> {closed}

Queued(t, c, answer) ==
    [t EXCEPT !.clients[c].phase = "Sending", !.clients[c].answer = answer,
              !.clients[c].head_left = TRUE]

queue_inline_json(t, c, answer) ==
    flush_client(Queued(release_positions_body(t, c), c, answer), c)

\* The answer is written into the shared body before its header is queued; an
\* answer that does not fit becomes an error. Without the body nothing is sent.
queue_positions_json(t, c, answer) ==
    IF ~t.clients[c].owns THEN {t}
    ELSE flush_client([Queued(t, c, answer) EXCEPT !.clients[c].body_left = TRUE,
                                                   !.body.holds = answer], c)
             \cup queue_inline_json(t, c, None)

send_response(t, c, answer) ==
    IF t.clients[c].positions THEN queue_positions_json(t, c, answer)
    ELSE queue_inline_json(t, c, answer)

\* drain_responses: the client no longer waits, and is sent the answer.
Delivered(t, c, answer) ==
    send_response([t EXCEPT !.clients[c].phase = "Reading"], c, answer)

Becomes(tables) == \E t \in tables : clients' = t.clients /\ body' = t.body

-----------------------------------------------------------------------------
(* Steps of the I/O thread                                                 *)

\* accept_clients; a connection that finds every slot taken is refused.
Accept ==
    LET free == {c \in Clients : clients[c].phase = "Free"}
    IN  /\ serving = "Up"
        /\ free /= {}
        /\ clients' = [clients EXCEPT ![Min(free)] = [FreeClient EXCEPT !.phase = "Reading"]]
        /\ UNCHANGED <<bridge, serving, body, outstanding, next_order_id, issued>>

\* The peer hangs up, or read_client hands the connection to the WebSocket server.
Disconnect(c) ==
    /\ serving = "Up"
    /\ clients[c].phase /= "Free"
    /\ Becomes({close_client(Table, c)})
    /\ UNCHANGED <<bridge, serving, outstanding, next_order_id, issued>>

Flush(c) ==
    /\ serving = "Up"
    /\ clients[c].phase = "Sending"
    /\ Becomes(flush_client(Table, c))
    /\ UNCHANGED <<bridge, serving, outstanding, next_order_id, issued>>

Dispatches(c) == serving = "Up" /\ clients[c].phase = "Reading"

\* A request that read_client or dispatch_client answers without the owner.
Refuse(c) ==
    /\ Dispatches(c)
    /\ Becomes(queue_inline_json(Table, c, None))
    /\ UNCHANGED <<bridge, serving, outstanding, next_order_id, issued>>

\* The bug of starting again from the first identifier.
id_after_wrapping(id) == IF id = MaxOrderId THEN 1 ELSE id + 1

\* The last identifier is still used; then there is none.
id_after(id) == IF id = MaxOrderId THEN 0 ELSE id + 1

\* POST /orders: an identifier is taken, also when the queue then is full.
SubmitOrder(c) ==
    /\ Dispatches(c)
    /\ IF next_order_id = 0 THEN UNCHANGED <<requests, next_order_id, issued>>
       ELSE /\ next_order_id' = id_after(next_order_id)
            /\ issued' = Append(issued, next_order_id)
            /\ requests' = IF Submittable
                           THEN Append(requests, [command |-> "Submit", request_id |-> None])
                           ELSE requests
    /\ Becomes(queue_inline_json(Table, c, None))
    /\ UNCHANGED <<responses, deferred, serving, outstanding>>

Carried(id) ==
    \/ \E i \in DOMAIN requests : requests[i].request_id = id
    \/ id \in Range(responses) \cup {deferred}

InUse(id) == Carried(id) \/ id \in outstanding \/ \E c \in Clients : clients[c].request_id = id

\* A query, a cancel or a positions query: the body is reserved, then a place
\* for the answer, then the request is queued; what fails gives back the rest.
AskOwner(c, id, command) ==
    LET positions == command = "Positions"
        busy == positions /\ body.owner /= NoClient
        reserved == IF positions /\ ~busy
                    THEN [Table EXCEPT !.clients[c].owns = TRUE,
                                       !.body = [owner |-> c, holds |-> None]]
                    ELSE Table
        refused == busy \/ Cardinality(outstanding) >= MaxPending \/ ~Submittable
    IN  /\ Dispatches(c)
        /\ ~InUse(id)
        /\ IF refused
           THEN /\ Becomes(queue_inline_json(release_positions_body(reserved, c), c, None))
                /\ UNCHANGED <<requests, outstanding>>
           ELSE /\ Becomes({[reserved EXCEPT !.clients[c].phase = "Waiting",
                                             !.clients[c].request_id = id,
                                             !.clients[c].positions = positions]})
                /\ requests' = Append(requests, [command |-> command, request_id |-> id])
                /\ outstanding' = outstanding \cup {id}
        /\ UNCHANGED <<responses, deferred, serving, next_order_id, issued>>

\* The bug of giving an answer to whoever waits.
AnyWaiting(id) == {c \in Clients : clients[c].phase = "Waiting"}

WaitingFor(id) == {c \in Clients : clients[c].phase = "Waiting" /\ clients[c].request_id = id}

\* The bug of returning the place only when a client still waits.
DrainOnlyToWaiting ==
    LET id == Head(responses)
        to == WaitingFor(id)
    IN  /\ serving = "Up"
        /\ responses /= <<>>
        /\ responses' = Tail(responses)
        /\ IF id \in outstanding /\ to /= {}
           THEN Becomes(Delivered(Table, Min(to), id)) /\ outstanding' = outstanding \ {id}
           ELSE UNCHANGED <<clients, body, outstanding>>
        /\ UNCHANGED <<requests, deferred, serving, next_order_id, issued>>

\* One turn of the loop of drain_responses. An answer to a request of an earlier
\* listener is dropped, and so is one whose client is gone or was told to wait
\* no longer.
DrainResponse ==
    LET id == Head(responses)
        to == WaitingFor(id)
    IN  /\ serving = "Up"
        /\ responses /= <<>>
        /\ responses' = Tail(responses)
        /\ outstanding' = outstanding \ {id}
        /\ IF id \in outstanding /\ to /= {} THEN Becomes(Delivered(Table, Min(to), id))
           ELSE UNCHANGED <<clients, body>>
        /\ UNCHANGED <<requests, deferred, serving, next_order_id, issued>>

\* The bug of leaving a client that does not read its answer.
expire_unless_sending(c) ==
    /\ serving = "Up"
    /\ clients[c].phase \in {"Reading", "Waiting"}
    /\ Becomes(queue_inline_json(Table, c, None))
    /\ UNCHANGED <<bridge, serving, outstanding, next_order_id, issued>>

\* The deadline of a client has passed.
expire_client(c) ==
    /\ serving = "Up"
    /\ clients[c].phase /= "Free"
    /\ Becomes(IF clients[c].phase = "Sending" THEN {close_client(Table, c)}
               ELSE queue_inline_json(Table, c, None))
    /\ UNCHANGED <<bridge, serving, outstanding, next_order_id, issued>>

\* serve() leaves its loop and closes everything.
Exit ==
    /\ serving = "Stopping"
    /\ serving' = "Down"
    /\ clients' = [c \in Clients |-> FreeClient]
    /\ body' = FreeBody
    /\ UNCHANGED <<bridge, outstanding, next_order_id, issued>>

-----------------------------------------------------------------------------
(* The thread that owns the server, and the execution owner                *)

\* stop(), or poll() fails. What the thread still does in its last turn is as if
\* it came before.
Stop ==
    /\ serving = "Up"
    /\ serving' = "Stopping"
    /\ UNCHANGED <<bridge, clients, body, outstanding, next_order_id, issued>>

\* start() after stop(): the answers of the old listener stay in the bridge.
Start ==
    /\ serving = "Down"
    /\ serving' = "Up"
    /\ outstanding' = {}
    /\ body' = FreeBody
    /\ UNCHANGED <<bridge, clients, next_order_id, issued>>

process_one ==
    (TakeRequest \/ FlushDeferred) /\ UNCHANGED <<server, next_order_id, issued>>

IoStep ==
    \/ Accept \/ DrainResponse \/ Exit
    \/ \E c \in Clients :
           \/ Disconnect(c) \/ Flush(c) \/ Refuse(c) \/ SubmitOrder(c) \/ expire_client(c)
           \/ \E id \in RequestIds, command \in {"Query", "Positions"} : AskOwner(c, id, command)

Next == IoStep \/ Stop \/ Start \/ process_one

\* The owner polls the bridge, the I/O thread drains answers and checks every
\* deadline in every turn of its loop, also when no descriptor is ready.
Fairness ==
    /\ WF_vars(process_one)
    /\ WF_vars(DrainResponse)
    /\ WF_vars(Exit)
    /\ \A c \in Clients : WF_vars(expire_client(c))

Spec == Init /\ [][Next]_vars /\ Fairness

-----------------------------------------------------------------------------
(* Properties                                                              *)

\* Capacity for answers is neither lost nor given twice: every outstanding
\* request of this listener is in exactly one place on its way, also through the
\* response the owner holds back, and whoever waits, waits for one of them.
OutstandingCarried ==
    serving /= "Down" =>
        /\ \A id \in outstanding :
               Cardinality({i \in DOMAIN requests : requests[i].request_id = id})
                 + Cardinality({i \in DOMAIN responses : responses[i] = id})
                 + (IF deferred = id THEN 1 ELSE 0) = 1
        /\ \A c \in Clients :
               clients[c].phase = "Waiting" =>
                   /\ clients[c].request_id \in outstanding
                   /\ WaitingFor(clients[c].request_id) = {c}

\* A client is sent the answer to its own request, whatever late answers to
\* clients that timed out or left, or to an earlier listener, arrive meanwhile;
\* a positions answer is sent from a body that holds it.
AnswersTheRequest ==
    \A c \in Clients :
        clients[c].phase = "Sending" =>
            /\ clients[c].answer \in {None, clients[c].request_id}
            /\ clients[c].owns =>
                   body = [owner |-> c, holds |-> clients[c].request_id]

\* The shared body is reserved exactly by the client that owns it: no path leaves
\* it reserved, after which every positions query would be refused.
BodyNotLeaked ==
    \A c \in Clients : (body.owner = c) <=> clients[c].owns

\* No order identifier is given twice, at the end of the 32-bit range and across
\* restarts of the listener.
OrderIdsUnique == IsInjective(issued)

\* Every connection ends: a peer that sends nothing, or does not read its answer,
\* keeps its slot only until its deadline.
ClientsLeave ==
    \A c \in Clients : clients[c].phase /= "Free" ~> clients[c].phase = "Free"

\* The place of every request is returned, also when its client has gone.
PlacesReturned ==
    \A id \in RequestIds : id \in outstanding ~> (id \notin outstanding \/ serving /= "Up")

=============================================================================
