----------------------------- MODULE OpenOrders -----------------------------
(***************************************************************************)
(* What a reconciliation ledger promises: it remembers, for every order    *)
(* the gateway has sent and not finished, the quantity still open, and an  *)
(* operation on one order changes no other. An order that is not open has  *)
(* remaining quantity 0.                                                   *)
(***************************************************************************)
EXTENDS Integers

CONSTANTS OrderIds, MaxQty

VARIABLE remaining

Quantities == 1 .. MaxQty

NoneOpen == remaining = [id \in OrderIds |-> 0]

Open(id, q) == remaining[id] = 0 /\ remaining' = [remaining EXCEPT ![id] = q]

Resize(id, q) == remaining[id] > 0 /\ remaining' = [remaining EXCEPT ![id] = q]

Close(id) == remaining[id] > 0 /\ remaining' = [remaining EXCEPT ![id] = 0]

OpenOrdersNext ==
    \E id \in OrderIds : Close(id) \/ \E q \in Quantities : Open(id, q) \/ Resize(id, q)

OpenOrdersSpec == NoneOpen /\ [][OpenOrdersNext]_remaining

=============================================================================
