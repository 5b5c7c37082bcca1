-------------------------- MODULE ExecutionBridge --------------------------
(***************************************************************************)
(* ExecutionBridge of luv_http_server: the request queue from the HTTP     *)
(* thread to the execution owner, the response queue back, and the one     *)
(* response the owner holds while that queue is full. The queues are the   *)
(* ring of SpscRing, here as what it implements: bounded FIFO queues. A    *)
(* response is the identifier of the request it answers.                   *)
(***************************************************************************)
EXTENDS Integers, Sequences, SequencesExt

CONSTANTS RequestCapacity,      \* slots of requests_ (256)
          ResponseCapacity,     \* slots of responses_ (8)
          None                  \* no response, no request

VARIABLES requests, responses, deferred

bridge == <<requests, responses, deferred>>

BridgeInit == requests = <<>> /\ responses = <<>> /\ deferred = None

Submittable == Len(requests) < RequestCapacity

\* process_one cannot even hand over the response it holds.
Blocked == deferred /= None /\ Len(responses) >= ResponseCapacity

\* The response queue once the held response is in it.
Flushed == IF deferred = None THEN responses ELSE Append(responses, deferred)

\* The bug of discarding a response that finds the queue full.
AnswerDropped(answer) ==
    /\ responses' = IF answer = None \/ Len(Flushed) >= ResponseCapacity
                    THEN Flushed ELSE Append(Flushed, answer)
    /\ deferred' = None

\* A response that finds the queue full is held.
Answer(answer) ==
    LET full == Len(Flushed) >= ResponseCapacity
    IN  /\ responses' = IF answer = None \/ full THEN Flushed ELSE Append(Flushed, answer)
        /\ deferred' = IF full THEN answer ELSE None

\* process_one finds no request: all it can do is hand over the held response.
FlushDeferred ==
    /\ requests = <<>>
    /\ deferred /= None
    /\ ~Blocked
    /\ Answer(None)
    /\ UNCHANGED requests

\* process_one takes a request. Orders are not answered.
TakeRequest ==
    /\ requests /= <<>>
    /\ ~Blocked
    /\ requests' = Tail(requests)
    /\ Answer(Head(requests).request_id)

=============================================================================
