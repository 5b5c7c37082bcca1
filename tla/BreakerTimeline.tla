-------------------------- MODULE BreakerTimeline --------------------------
(***************************************************************************)
(* A CircuitBreaker in use: requests are asked for with allow(now), those  *)
(* let through are answered later (success, failure or rejection, in any   *)
(* order), losses are checked, and time passes in between.                 *)
(***************************************************************************)
EXTENDS CircuitBreaker, FiniteSetsExt

CONSTANTS MaxTime,        \* bound: last instant of the clock
          MaxCalls,       \* bound: calls of allow
          MaxInFlight,    \* bound: requests let through and not answered
          Losses          \* what check_loss_limit is called with

ASSUME TimelineAssumption ==
    {MaxTime, MaxCalls, MaxInFlight} \subseteq Nat

VARIABLES breaker,
          now,            \* the clock; it starts at 1 (0 means no timestamp)
          inFlight,       \* requests let through and not answered
          calls,          \* history: calls of allow
          admissions,     \* history: instant -> requests a closed breaker let through then
          trippedAt,      \* history: when the breaker was last tripped
          probesPassed    \* history: requests let through since it half-opened

vars == <<breaker, now, inFlight, calls, admissions, trippedAt, probesPassed>>

Init ==
    /\ breaker = ClosedBreaker
    /\ now = 1
    /\ inFlight = 0
    /\ calls = 0
    /\ admissions = [t \in 1 .. MaxTime |-> 0]
    /\ trippedAt = 0
    /\ probesPassed = 0

Tick ==
    /\ now < MaxTime
    /\ now' = now + 1
    /\ UNCHANGED <<breaker, inFlight, calls, admissions, trippedAt, probesPassed>>

\* The step calls trip(now).
Trips ==
    breaker'.state = "Open" /\ (breaker.state /= "Open" \/ breaker'.tripTime /= breaker.tripTime)

AdmittedIn(instants) == MapThenSumSet(LAMBDA t : admissions[t], instants)

\* allow(now)
Request ==
    LET answer == Allow(breaker, now)
    IN  /\ inFlight < MaxInFlight
        /\ calls < MaxCalls
        /\ breaker' = answer.breaker
        /\ inFlight' = inFlight + (IF answer.allowed THEN 1 ELSE 0)
        /\ calls' = calls + 1
        /\ admissions' = [admissions EXCEPT ![now] =
                            @ + (IF breaker.state = "Closed" /\ answer.allowed THEN 1 ELSE 0)]
        /\ trippedAt' = IF Trips THEN now ELSE trippedAt
        /\ probesPassed' =
             IF breaker'.state /= "HalfOpen" THEN 0
             ELSE (IF breaker.state = "HalfOpen" THEN probesPassed ELSE 0)
                    + (IF answer.allowed THEN 1 ELSE 0)
        /\ UNCHANGED now

\* A request is answered and its outcome recorded.
Answered(after) ==
    /\ inFlight > 0
    /\ inFlight' = inFlight - 1
    /\ breaker' = after
    /\ trippedAt' = IF Trips THEN now ELSE trippedAt
    /\ probesPassed' = IF breaker'.state = "HalfOpen" THEN probesPassed ELSE 0
    /\ UNCHANGED <<now, calls, admissions>>

record_failure == Answered(AfterFailure(breaker, now))
record_rejection == Answered(AfterRejection(breaker, now))
record_success == Answered(AfterSuccess(breaker))

\* check_loss_limit, with the time, and trip() as the report handlers call it,
\* without one.
TrippedBy(ts) ==
    /\ breaker' = Tripped(breaker, ts)
    /\ trippedAt' = now
    /\ probesPassed' = 0
    /\ UNCHANGED <<now, inFlight, calls, admissions>>

check_loss_limit == \E loss \in Losses : LossBreached(loss) /\ TrippedBy(now)

trip == TrippedBy(0)

Next ==
    \/ Tick \/ Request
    \/ record_failure \/ record_rejection \/ record_success
    \/ check_loss_limit \/ trip

Spec == Init /\ [][Next]_vars

-----------------------------------------------------------------------------
(* Properties                                                              *)

\* A half-open breaker lets at most MaxProbes requests through, whatever answers
\* to older requests arrive meanwhile.
AtMostMaxProbes == breaker.state = "HalfOpen" => probesPassed <= MaxProbes

\* A half-open breaker is never stuck: once its probes are used up one of them is
\* still unanswered, and the answer will close or open it.
HalfOpenUndecided ==
    (breaker.state = "HalfOpen" /\ breaker.probes >= MaxProbes) => inFlight > 0

\* A breaker that was tripped with the time lets nothing through until its
\* cool-down has passed since the instant at which it was tripped. (trip() without
\* a time makes the cool-down count from 0, and is over at once.)
NoAdmissionInCoolDown ==
    [][(Request /\ breaker.state = "Open" /\ breaker.tripTime /= 0 /\ breaker'.state /= "Open")
         => now - trippedAt >= CoolDown]_vars

\* What a closed breaker let through in the RateWindow instants from t on.
AdmittedFrom(t) == AdmittedIn({u \in 1 .. MaxTime : t <= u /\ u < t + RateWindow})

\* The rate limit counts by fixed windows, and an interval as long as a window can
\* meet two of them: in it a closed breaker lets at most twice the rate through.
\* Opening, probing and closing it meanwhile gives no new allowance, because
\* reset() leaves the window alone.
RateWithinTwoWindows == \A t \in 1 .. MaxTime : AdmittedFrom(t) <= 2 * MaxRate

\* A closed breaker lets at most MaxRate requests through in any interval as long
\* as the window (test_burst_rate_limits: at most 5 messages per millisecond).
RateWithinOneWindow == \A t \in 1 .. MaxTime : AdmittedFrom(t) <= MaxRate

=============================================================================
