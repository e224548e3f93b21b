----------------------------- MODULE MCDelivery -----------------------------
(* One request, one goroutine; liveness is checked, so no symmetry.          *)
EXTENDS Delivery

CONSTANTS r1, w1
MCRequests == {r1}
MCWorkers == {w1}
=============================================================================
