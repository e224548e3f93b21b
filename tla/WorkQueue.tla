----------------------------- MODULE WorkQueue ------------------------------
(***************************************************************************)
(* What the queue and its consumer promise a publisher, whatever the       *)
(* sessions, batches, prefetch windows, retries and crashes: a message     *)
(* stays in the queue until its work is complete, and leaves it once,      *)
(* either finished or, if it may be buried, for the dead-letter queue.     *)
(* The work of a message may be done more than once (at-least-once).       *)
(***************************************************************************)
CONSTANTS
    Msgs,       \* the messages
    Buryable    \* those that may be dead-lettered

VARIABLES
    pending,    \* in the queue, in a consumer's hands or not
    completed,  \* the work of the message has been done at least once
    done,       \* removed because its work is complete
    dead        \* moved to the dead-letter queue

vars == <<pending, completed, done, dead>>

Init ==
    /\ pending = Msgs
    /\ completed = {}
    /\ done = {}
    /\ dead = {}

Complete(m) ==
    /\ m \in pending
    /\ completed' = completed \cup {m}
    /\ UNCHANGED <<pending, done, dead>>

Finish(m) ==
    /\ m \in pending
    /\ m \in completed
    /\ pending' = pending \ {m}
    /\ done' = done \cup {m}
    /\ UNCHANGED <<completed, dead>>

Bury(m) ==
    /\ m \in pending
    /\ m \in Buryable
    /\ pending' = pending \ {m}
    /\ dead' = dead \cup {m}
    /\ UNCHANGED <<completed, done>>

Next == \E m \in Msgs : Complete(m) \/ Finish(m) \/ Bury(m)

Spec == Init /\ [][Next]_vars
=============================================================================
