----------------------------- MODULE MCLifecycle -----------------------------
(* The service with three connections to RabbitMQ at most.                   *)
EXTENDS Lifecycle

MCCallers == {"publisher", "consumer"}
=============================================================================
