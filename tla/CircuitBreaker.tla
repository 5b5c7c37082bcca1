--------------------------- MODULE CircuitBreaker ---------------------------
(***************************************************************************)
(* CircuitBreaker of luv_safety.hpp, called by one thread. Its methods are *)
(* operators on the breaker's state, so that ExecutionGateway can use      *)
(* them; BreakerTimeline drives a breaker alone against a clock.           *)
(*                                                                         *)
(* The setters configure a breaker before it is used: their arguments are  *)
(* the constants. The flag _tripped is written and never read (tripped()   *)
(* reads _state), and is left out.                                         *)
(***************************************************************************)
EXTENDS Integers

CONSTANTS MaxFailures,        \* constructor; at least 1
          CoolDown,           \* 0: an open breaker stays open until reset()
          HalfOpenEnabled,
          MaxProbes,
          SuccessesNeeded,
          MaxRejections,      \* 0: rejections only count as failures
          MaxRate,            \* 0: no rate limit
          RateWindow,
          LossLimit           \* 0: no loss limit

ASSUME BreakerAssumption ==
    /\ {MaxFailures, MaxProbes, SuccessesNeeded} \subseteq Nat \ {0}
    /\ {CoolDown, MaxRejections, MaxRate, RateWindow, LossLimit} \subseteq Nat
    /\ HalfOpenEnabled \in BOOLEAN

ClosedBreaker ==
    [state |-> "Closed", failures |-> 0, rejections |-> 0, probes |-> 0, successes |-> 0,
     tripTime |-> 0, windowStart |-> 0, windowCount |-> 0]

\* trip(); a caller that has no clock passes 0.
Tripped(b, ts) == [b EXCEPT !.state = "Open", !.tripTime = ts]

\* The bug of starting a new rate window.
ResetWithWindow(b) ==
    [b EXCEPT !.state = "Closed", !.failures = 0, !.rejections = 0, !.probes = 0,
              !.successes = 0, !.tripTime = 0, !.windowStart = 0, !.windowCount = 0]

\* reset() leaves the rate window alone.
Reset(b) ==
    [b EXCEPT !.state = "Closed", !.failures = 0, !.rejections = 0, !.probes = 0,
              !.successes = 0, !.tripTime = 0]

AfterFailure(b, ts) ==
    IF b.state = "HalfOpen" THEN Tripped(b, ts)
    ELSE LET counted == [b EXCEPT !.failures = IF @ < MaxFailures THEN @ + 1 ELSE @]
         IN  IF b.failures + 1 >= MaxFailures THEN Tripped(counted, ts) ELSE counted

AfterRejection(b, ts) ==
    LET counted == [b EXCEPT !.rejections = @ + 1]
    IN  IF MaxRejections = 0 THEN AfterFailure(b, ts)
        ELSE IF counted.rejections >= MaxRejections THEN Tripped(counted, ts)
        ELSE AfterFailure(counted, ts)

\* The bug of counting the successes of a half-open breaker by the wrong counter.
SuccessUncounted(b) ==
    CASE b.state = "HalfOpen" -> IF b.failures >= SuccessesNeeded THEN Reset(b) ELSE b
      [] b.state = "Closed" -> [b EXCEPT !.failures = 0, !.rejections = 0]
      [] b.state = "Open" -> b

AfterSuccess(b) ==
    CASE b.state = "HalfOpen" ->
            IF b.successes + 1 >= SuccessesNeeded THEN Reset(b)
            ELSE [b EXCEPT !.successes = @ + 1]
      [] b.state = "Closed" -> [b EXCEPT !.failures = 0, !.rejections = 0]
      [] b.state = "Open" -> b

\* The loss reached the limit.
LossBreached(loss) == LossLimit > 0 /\ loss >= LossLimit

\* The bug of restarting the probe count on every call.
ProbeWithoutCount(b) == [allowed |-> b.probes < MaxProbes, breaker |-> b]

\* allow(now) on a half-open breaker.
ProbeAllowed(b) ==
    [allowed |-> b.probes < MaxProbes, breaker |-> [b EXCEPT !.probes = @ + 1]]

\* allow(now) on a closed breaker: the window counts the calls it has let through.
RateAllowed(b, now) ==
    IF MaxRate = 0 \/ RateWindow = 0 \/ now = 0
    THEN [allowed |-> TRUE, breaker |-> b]
    ELSE IF now < b.windowStart \/ now - b.windowStart >= RateWindow
    THEN [allowed |-> TRUE, breaker |-> [b EXCEPT !.windowStart = now, !.windowCount = 1]]
    ELSE LET counted == [b EXCEPT !.windowCount = @ + 1]
         IN  IF counted.windowCount > MaxRate
             THEN [allowed |-> FALSE, breaker |-> Tripped(counted, now)]
             ELSE [allowed |-> TRUE, breaker |-> counted]

\* The bug of comparing the clock with the length of the cool-down alone.
CooledWithoutTripTime(b, now) == CoolDown > 0 /\ now >= CoolDown

Cooled(b, now) ==
    CoolDown > 0 /\ now > 0 /\ now >= b.tripTime /\ now - b.tripTime >= CoolDown

\* allow(now): the answer and the breaker after the call.
Allow(b, now) ==
    CASE b.state = "Closed" -> RateAllowed(b, now)
      [] b.state = "Open" ->
            IF ~Cooled(b, now) THEN [allowed |-> FALSE, breaker |-> b]
            ELSE IF HalfOpenEnabled
            THEN ProbeAllowed([b EXCEPT !.state = "HalfOpen", !.probes = 0, !.successes = 0])
            ELSE [allowed |-> TRUE, breaker |-> Reset(b)]
      [] b.state = "HalfOpen" -> ProbeAllowed(b)

=============================================================================
