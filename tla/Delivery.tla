------------------------------ MODULE Delivery ------------------------------
(***************************************************************************)
(* From POST /ingest to the end of a notification: the pipeline of module  *)
(* Pipeline, the queue, and a consumer of which only what module Consumer  *)
(* is shown to keep is left, the promise of module WorkQueue.  The process *)
(* may die at any time, and is started again: what was in its memory is    *)
(* gone, what is in the queue or on its way there is not.                  *)
(*                                                                         *)
(* The messages of the queue are the copies of Pipeline.  The counters are *)
(* taken over all processes, as Prometheus does.                           *)
(***************************************************************************)
EXTENDS Pipeline

CONSTANTS
    Buries,    \* may a redelivered message be dead-lettered (limit of 1)?
    MaxCrashes \* bound on the crashes

ASSUME DeliveryAssumption == Buries \in BOOLEAN /\ MaxCrashes \in Nat

VARIABLES
    completed, \* copies whose dispatch is complete
    done,      \* copies acked
    dead,      \* copies in the dead-letter queue
    lost,      \* notifications that were in memory when the process died
    crashes    \* crashes so far

consumerVars == <<completed, done, dead>>
allVars == <<vars, consumerVars, lost, crashes>>

DeliveryInit ==
    /\ Init
    /\ completed = {} /\ done = {} /\ dead = {}
    /\ lost = {} /\ crashes = 0

PipelineStep == Next /\ UNCHANGED <<consumerVars, lost, crashes>>

-----------------------------------------------------------------------------
(* The consumer.                                                           *)

Pending == queue \ (done \cup dead)

\* A dispatch of the message succeeds, or fails for good on web push.
Complete(c) ==
    /\ main # "exited" /\ c \in Pending
    /\ completed' = completed \cup {c}
    /\ UNCHANGED <<vars, done, dead, lost, crashes>>

\* Its ack arrives.
Finish(c) ==
    /\ main # "exited" /\ c \in Pending /\ c \in completed
    /\ done' = done \cup {c}
    /\ UNCHANGED <<vars, completed, dead, lost, crashes>>

\* It is dead-lettered instead.
Bury(c) ==
    /\ main # "exited" /\ c \in Pending /\ Buries
    /\ dead' = dead \cup {c}
    /\ UNCHANGED <<vars, completed, done, lost, crashes>>

-----------------------------------------------------------------------------
(* The end of the process, and its restart.                                *)

\* Handlers and goroutines are gone with the buffer; the client of a request
\* under way sees its connection break.
Crash ==
    /\ crashes < MaxCrashes /\ main # "exited"
    /\ crashes' = crashes + 1
    /\ lost' = lost \cup Buffered \cup InHand
    /\ handler' = [r \in Requests |-> IF Active(r) THEN "cut" ELSE handler[r]]
    /\ ch' = <<>> /\ closed' = FALSE
    /\ worker' = [w \in Workers |-> "receive"]
    /\ held' = [w \in Workers |-> NoItem]
    /\ attempt' = [w \in Workers |-> 0]
    /\ main' = "running"
    /\ UNCHANGED <<size, accepted, brokerVars, published, refused, dropped,
                   ingestTotal, consumerVars>>

-----------------------------------------------------------------------------
DeliveryNext ==
    \/ PipelineStep
    \/ \E c \in Copies : Complete(c) \/ Finish(c) \/ Bury(c)
    \/ Crash

DeliverySpec ==
    /\ DeliveryInit /\ [][DeliveryNext]_allVars
    /\ Fairness
    /\ \A c \in Copies : /\ WF_allVars(main = "running" /\ c \notin completed /\ Complete(c))
                         /\ WF_allVars(main = "running" /\ (Finish(c) \/ Bury(c)))

-----------------------------------------------------------------------------
(* Properties.                                                             *)

\* Everything the buffer ever took is in memory, published, counted as
\* dropped, or was in memory at a crash; and in one of these only: what a
\* crash takes is neither counted nor worked on by the next process.
NothingVanishes ==
    /\ Submitted = Buffered \cup InHand \cup Decided \cup lost
    /\ (Buffered \cup InHand) \cap (Decided \cup lost) = {}
    /\ Decided \cap lost = {}

\* Copies that were confirmed though there was no queue to take them.
Discarded == confirmed \ queue

\* A notification answered 202 is delivered or dead-lettered in the end; or it
\* is counted as dropped, or it was in memory at a crash, or the broker threw
\* it away before the queue was declared; or the process has been stopped and
\* it waits in the queue for the next.
AcceptedIsDelivered ==
    \A x \in Items :
        handler[x[1]] = "202" /\ x \in Submitted ~>
            \/ x \in dropped \cup lost
            \/ \E c \in done \cup dead \cup Discarded : c[1] = x
            \/ main = "exited" /\ \E c \in queue : c[1] = x

\* A signal ends the process, unless it crashes on the way.
ShutdownCompletes ==
    \A n \in 0..MaxCrashes :
        main = "draining" /\ crashes = n ~> main = "exited" \/ crashes > n

=============================================================================
