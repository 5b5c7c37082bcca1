------------------------- MODULE MCExecutionGateway -------------------------
(* Instances of ExecutionGateway for TLC. *)
EXTENDS ExecutionGateway, TLC

CONSTANT s1

OneSymbol == {s1}
TwoIds == 1 .. 2
AllInS1 == [id \in OrderIds |-> {s1}]

\* A hash without collisions, and one with.
Spread == [id \in OrderIds |-> id % LedgerCapacity]
Colliding == [id \in OrderIds |-> 0]

TwoPrices == 1 .. 2

\* With an audit log, two prices, and room in the limiter for more orders than
\* there are slots.
Audited ==
    [audit |-> TRUE, wal |-> FALSE, max_pending |-> 3, faults |-> {}, rejects |-> TRUE,
     prices |-> {1, 2}]

\* With neither log.
Unlogged ==
    [audit |-> FALSE, wal |-> FALSE, max_pending |-> 2, faults |-> {}, rejects |-> TRUE,
     prices |-> {1}]

\* With a write-ahead log whose appends may fail cleanly, and a venue that rejects
\* nothing; then with one that does not fail, and a venue that rejects.
LoggedUnrejected ==
    [Unlogged EXCEPT !.wal = TRUE, !.faults = {"write"}, !.rejects = FALSE]
LoggedRejected == [Unlogged EXCEPT !.wal = TRUE]

AuditedOrLogged == {Audited, LoggedUnrejected}
OnlyUnlogged == {Unlogged}
OnlyLoggedRejected == {LoggedRejected}
=============================================================================
