----------------------- MODULE MCReconciliationLedger -----------------------
(* Five orders in a table of four entries whose home slots collide and wrap. *)
EXTENDS ReconciliationLedger

MCOrderIds == 1 .. 5
MCHash == [id \in MCOrderIds |-> <<3, 3, 0, 3, 1>>[id]]

=============================================================================
