------------------------------ MODULE Lifecycle ------------------------------
(***************************************************************************)
(* run() in main.go: the start-up steps, each of which may fail, the       *)
(* deferred calls they leave, the signal and the shutdown, with the        *)
(* connection manager, and the goroutines run() starts: publishers,        *)
(* consumer, hub and request handlers, as far as they use what run()       *)
(* opens and closes.  What they do besides is in their own modules.        *)
(***************************************************************************)
EXTENDS ConnectionManager, SequencesExt

\* The goroutines that open channels: the publishers of the buffer, and the
\* consumer.
ASSUME LifecycleAssumption == Callers = {"publisher", "consumer"}

\* Who takes connections from the Postgres pool.
Borrowers == {"consumer", "request"}

\* Mutant: the buffer is made before the connection it publishes on.
StepsBufferFirst ==
    << "config", "tracer", "postgres", "migrate", "redis", "ping", "buffer",
       "rabbitmq", "dlq", "targets", "context", "hub", "providers",
       "consumer", "http", "sidecar" >>

\* The steps of the start-up, in order.
Steps ==
    << "config", "tracer", "postgres", "migrate", "redis", "ping", "rabbitmq",
       "dlq", "buffer", "targets", "context", "hub", "providers",
       "consumer", "http", "sidecar" >>

Fallible == ToSet(Steps) \ {"buffer", "context", "consumer"}

\* Mutant: the cancellation is left to the shutdown.
DeferringUncancelled == {"tracer", "postgres", "redis", "rabbitmq", "buffer", "providers"}

\* The steps that defer a call: Close, or appCancel.
Deferring == {"tracer", "postgres", "redis", "rabbitmq", "buffer", "context", "providers"}

VARIABLES
    phase,     \* starting, serving, draining, unwinding, exited, killed
    at,        \* the index of the step run() is at
    defers,    \* the calls deferred, the last one last
    up,        \* what is open, but for the connection to RabbitMQ
    cancelled, \* has appCancel been called?
    workers,   \* the publishers: none, running, stopped
    consumer,  \* the goroutine of the consumer: none, running, stopped
    hub,       \* the goroutine of the hub: none, running, stopped
    request,   \* is a request handler at work?
    borrowed   \* who has a connection of the pool

runVars  == <<phase, at, defers, up, cancelled>>
jobVars  == <<workers, consumer, hub, request, borrowed>>
vars == <<cmVars, runVars, jobVars>>

Init ==
    /\ CMInit
    /\ phase = "starting" /\ at = 1
    /\ defers = <<>> /\ up = {}
    /\ cancelled = FALSE
    /\ workers = "none" /\ consumer = "none" /\ hub = "none"
    /\ request = FALSE
    /\ borrowed = {}

Alive == phase \notin {"exited", "killed"}

-----------------------------------------------------------------------------
(* Start-up.                                                               *)

AtStep(s) == phase = "starting" /\ at <= Len(Steps) /\ s = Steps[at]

Starts(job, s, now) == IF job = s THEN "running" ELSE now

\* Mutant: the client of Redis is deferred only after its first ping.
StepSucceedsLateDefer(s) ==
    /\ AtStep(s)
    /\ s # "rabbitmq"
    /\ s = "dlq" => conn \in open
    /\ at' = at + 1
    /\ up' = IF s \in Deferring \ {"context"} THEN up \cup {s} ELSE up
    /\ defers' = IF s = "ping" THEN Append(defers, "redis")
                 ELSE IF s \in Deferring \ {"redis"} THEN Append(defers, s) ELSE defers
    /\ workers' = Starts("buffer", s, workers)
    /\ hub' = Starts("hub", s, hub)
    /\ consumer' = Starts("consumer", s, consumer)
    /\ UNCHANGED <<cmVars, phase, cancelled, request, borrowed>>

\* A step other than Connect succeeds.  Declaring the dead-letter queue needs
\* the connection.
StepSucceeds(s) ==
    /\ AtStep(s)
    /\ s # "rabbitmq"
    /\ s = "dlq" => conn \in open
    /\ at' = at + 1
    /\ up' = IF s \in Deferring \ {"context"} THEN up \cup {s} ELSE up
    /\ defers' = IF s \in Deferring THEN Append(defers, s) ELSE defers
    /\ workers' = Starts("buffer", s, workers)
    /\ hub' = Starts("hub", s, hub)
    /\ consumer' = Starts("consumer", s, consumer)
    /\ UNCHANGED <<cmVars, phase, cancelled, request, borrowed>>

\* run() returns an error: what it has deferred is called.
StepFails(s) ==
    /\ AtStep(s)
    /\ s \in Fallible \ {"rabbitmq"}
    /\ phase' = "unwinding"
    /\ UNCHANGED <<cmVars, at, defers, up, cancelled, jobVars>>

ConnectStep ==
    /\ AtStep("rabbitmq")
    /\ Connect
    /\ at' = at + 1
    /\ defers' = Append(defers, "rabbitmq")
    /\ UNCHANGED <<phase, up, cancelled, jobVars>>

ConnectStepFails ==
    /\ AtStep("rabbitmq")
    /\ ConnectFails
    /\ phase' = "unwinding"
    /\ UNCHANGED <<at, defers, up, cancelled, jobVars>>

\* Both servers listen, and run() waits for a signal.
Serve ==
    /\ phase = "starting"
    /\ at > Len(Steps)
    /\ phase' = "serving"
    /\ UNCHANGED <<cmVars, at, defers, up, cancelled, jobVars>>

\* A signal before signal.Notify ends the process as it stands.
Killed ==
    /\ phase = "starting"
    /\ phase' = "killed"
    /\ UNCHANGED <<cmVars, at, defers, up, cancelled, jobVars>>

-----------------------------------------------------------------------------
(* Shutdown.                                                               *)

\* The signal: appCancel, then Shutdown, which closes the listener.
Signal ==
    /\ phase = "serving"
    /\ phase' = "draining"
    /\ cancelled' = TRUE
    /\ UNCHANGED <<cmVars, at, defers, up, jobVars>>

\* Both calls of Shutdown return, with the handlers done or after 30 s.
ShutdownReturns ==
    /\ phase = "draining"
    /\ phase' = "unwinding"
    /\ UNCHANGED <<cmVars, at, defers, up, cancelled, jobVars>>

Calling(d) == phase = "unwinding" /\ defers # <<>> /\ Last(defers) = d

Return == defers' = Front(defers)

\* The Close of the tracer, the Redis client or the providers, which waits for
\* nobody.
CloseNow(d) ==
    /\ d \in {"tracer", "redis", "providers"}
    /\ Calling(d)
    /\ up' = up \ {d}
    /\ Return
    /\ UNCHANGED <<cmVars, phase, at, cancelled, jobVars>>

\* The deferred appCancel.
CallCancel ==
    /\ Calling("context")
    /\ cancelled' = TRUE
    /\ Return
    /\ UNCHANGED <<cmVars, phase, at, up, jobVars>>

\* buf.Close closes the channel of the buffer, and pool.Close refuses new
\* borrowers ...
BeginWait(d) ==
    /\ d \in {"buffer", "postgres"}
    /\ Calling(d)
    /\ d \in up
    /\ up' = up \ {d}
    /\ UNCHANGED <<cmVars, phase, at, defers, cancelled, jobVars>>

\* ... and each waits: for the publishers, and for the connections of the pool
\* to be given back.
EndWait(d) ==
    /\ Calling(d)
    /\ d \notin up
    /\ \/ d = "buffer" /\ workers = "stopped"
       \/ d = "postgres" /\ borrowed = {}
    /\ Return
    /\ UNCHANGED <<cmVars, phase, at, up, cancelled, jobVars>>

\* cm.Close, to its return.
CloseManager ==
    /\ Calling("rabbitmq")
    /\ BeginClose \/ LoopEnded \/ FinishClose
    /\ IF owner' = "closed" THEN Return ELSE UNCHANGED defers
    /\ UNCHANGED <<phase, at, up, cancelled, jobVars>>

Exit ==
    /\ phase = "unwinding"
    /\ defers = <<>>
    /\ phase' = "exited"
    /\ UNCHANGED <<cmVars, at, defers, up, cancelled, jobVars>>

-----------------------------------------------------------------------------
(* The other goroutines.                                                   *)

Runs(u) == IF u = "publisher" THEN workers = "running" ELSE consumer = "running"

\* The manager's goroutine, the network, and the callers of Channel.
ManagerStep ==
    /\ Alive
    /\ \/ LoopStep
       \/ \E c \in 1..MaxConns : Break(c)
       \/ \E u \in Callers : Runs(u) /\ BeginChannel(u)
       \/ \E u \in Callers : EndChannel(u)
    /\ UNCHANGED <<runVars, jobVars>>

\* The buffer is closed and drained: the publishers return.
WorkersStop ==
    /\ Alive
    /\ workers = "running"
    /\ "buffer" \notin up
    /\ "publisher" \notin holders
    /\ workers' = "stopped"
    /\ UNCHANGED <<cmVars, runVars, consumer, hub, request, borrowed>>

\* The consumer notices the cancellation.
ConsumerStops ==
    /\ Alive
    /\ consumer = "running"
    /\ cancelled
    /\ "consumer" \notin holders \cup borrowed
    /\ consumer' = "stopped"
    /\ UNCHANGED <<cmVars, runVars, workers, hub, request, borrowed>>

HubStops ==
    /\ Alive
    /\ hub = "running"
    /\ cancelled
    /\ hub' = "stopped"
    /\ UNCHANGED <<cmVars, runVars, workers, consumer, request, borrowed>>

\* A request comes in while the server listens; its handler may outlast the
\* shutdown.
RequestBegins ==
    /\ phase = "serving"
    /\ ~request
    /\ request' = TRUE
    /\ UNCHANGED <<cmVars, runVars, workers, consumer, hub, borrowed>>

RequestEnds ==
    /\ Alive
    /\ request
    /\ "request" \notin borrowed
    /\ request' = FALSE
    /\ UNCHANGED <<cmVars, runVars, workers, consumer, hub, borrowed>>

\* A query of the consumer or of a handler takes a connection of the pool; a
\* pool that is closing refuses.
Borrow(b) ==
    /\ Alive
    /\ b \notin borrowed
    /\ "postgres" \in up
    /\ IF b = "consumer" THEN consumer = "running" /\ ~cancelled ELSE request
    /\ borrowed' = borrowed \cup {b}
    /\ UNCHANGED <<cmVars, runVars, workers, consumer, hub, request>>

GiveBack(b) ==
    /\ Alive
    /\ b \in borrowed
    /\ borrowed' = borrowed \ {b}
    /\ UNCHANGED <<cmVars, runVars, workers, consumer, hub, request>>

-----------------------------------------------------------------------------
StartStep ==
    \/ \E s \in ToSet(Steps) : StepSucceeds(s) \/ StepFails(s)
    \/ ConnectStep \/ ConnectStepFails \/ Serve

ExitStep ==
    \/ ShutdownReturns
    \/ \E d \in Deferring : CloseNow(d) \/ BeginWait(d) \/ EndWait(d)
    \/ CallCancel \/ CloseManager \/ Exit

JobStep ==
    \/ WorkersStop \/ ConsumerStops \/ HubStops
    \/ RequestBegins \/ RequestEnds
    \/ \E b \in Borrowers : Borrow(b) \/ GiveBack(b)

Next == StartStep \/ ExitStep \/ Signal \/ Killed \/ ManagerStep \/ JobStep

Spec == Init /\ [][Next]_vars

\* run() goes on when what it calls returns; so does the goroutine of the
\* manager, whose waits are timers and whose dials end; the opening of a
\* channel and a query end; once the buffer is closed a publisher opens channels
\* only until it is drained (module Pipeline).  A dial that is tried again and
\* again succeeds in the end, unless the manager is being closed: the broker
\* may be down for good then.  Nothing is assumed of the consumer, the hub or
\* the handlers besides.
Fairness ==
    /\ WF_vars(StartStep) /\ WF_vars(ExitStep)
    /\ WF_vars(ManagerStep /\ LoopStep)
    /\ SF_vars(ManagerStep /\ DialSucceeds /\ owner = "connected")
    /\ \A u \in Callers : WF_vars(ManagerStep /\ EndChannel(u))
    /\ SF_vars(WorkersStop)
    /\ \A b \in Borrowers : WF_vars(GiveBack(b))

FairSpec == Spec /\ Fairness

-----------------------------------------------------------------------------
(* Properties.                                                             *)

TypeOK ==
    /\ CMTypeOK
    /\ phase \in {"starting", "serving", "draining", "unwinding", "exited", "killed"}
    /\ at \in 1..(Len(Steps) + 1)
    /\ defers \in Seq(Deferring)
    /\ up \subseteq Deferring \ {"context", "rabbitmq"}
    /\ cancelled \in BOOLEAN
    /\ {workers, consumer, hub} \subseteq {"none", "running", "stopped"}
    /\ request \in BOOLEAN
    /\ borrowed \subseteq Borrowers

\* Whichever step of the start-up fails, and after a shutdown, run() returns
\* with everything it has opened closed, the publishers stopped and no
\* connection of the pool in use.
NothingLeftOpen ==
    phase = "exited" =>
        /\ up = {} /\ open = {} /\ fresh = 0
        /\ owner \in {"new", "failed", "closed"}
        /\ workers # "running"
        /\ borrowed = {}

\* The deferred calls run in an order that takes nothing from a goroutine that
\* relies on it: publishers keep the connection until they have drained the
\* buffer; the consumer and the hub are cancelled before RabbitMQ, Postgres or
\* Redis are closed.
ServedWhileUsed ==
    Alive =>
        /\ workers = "running" => owner = "connected"
        /\ consumer = "running" /\ ~cancelled =>
              owner = "connected" /\ {"postgres", "redis"} \subseteq up
        /\ hub = "running" /\ ~cancelled => "redis" \in up

\* Once run() is on its way out it gets there, with the connection lost or
\* not, and whatever consumer, hub and handlers do.
ExitCompletes == phase \in {"draining", "unwinding"} ~> phase = "exited"

\* A connection that is lost while the service runs is replaced.
ConnectionComesBack ==
    phase = "serving" /\ conn \notin open ~> conn \in open \/ phase # "serving"
=============================================================================
