------------------------------ MODULE Pipeline ------------------------------
(***************************************************************************)
(* The ingest half of csar-notify: POST /ingest handlers submit the        *)
(* notifications of a request one by one to the in-process buffer; a pool  *)
(* of publisher goroutines takes them out and publishes each to RabbitMQ   *)
(* with confirms and a bounded number of retries; a signal stops the HTTP  *)
(* server, closes the buffer and waits for the publishers.                 *)
(*                                                                         *)
(* A notification is a pair <<r, i>>, the i-th element of the body of      *)
(* request r, and a copy is a pair <<notification, attempt>>: what one     *)
(* call of PublishRaw puts on the wire.  EventsPublished, and the reasons  *)
(* buffer_full and publish_error of EventsDropped, are kept as the sets of *)
(* notifications counted, which is what the properties tell apart.         *)
(***************************************************************************)
EXTENDS Naturals, Sequences, FiniteSets

CONSTANTS
    Requests,       \* the HTTP requests a behaviour may see
    Workers,        \* publisher goroutines (ingest.publisher_workers)
    Capacity,       \* depth of the buffer (ingest.buffer_size)
    MaxBatch,       \* bound on the notifications of one request
    MaxAttempts,    \* publish attempts per notification (4 in the code)
    QueueExists,    \* is the queue declared before the first publish?
    HandlersFinish, \* do handlers end within the shutdown timeout of 30 s?
    NoItem          \* stands for "no notification in hand"

Items  == Requests \X (1..MaxBatch)
Copies == Items \X (1..MaxAttempts)

\* NewBuffer raises a depth or a number of workers below 1 to 1.
ASSUME PipelineAssumption ==
    /\ Workers # {}
    /\ Capacity \in Nat \ {0}
    /\ MaxBatch \in Nat \ {0}
    /\ MaxAttempts \in Nat \ {0}
    /\ QueueExists \in BOOLEAN
    /\ HandlersFinish \in BOOLEAN
    /\ NoItem \notin Items

VARIABLES
    handler,     \* handler[r]: where the request is, or its response
    size,        \* size[r]: notifications in the body of r
    accepted,    \* accepted[r]: how many of them the buffer has taken
    ch,          \* the buffered channel
    closed,      \* has Close closed the channel?
    worker,      \* worker[w]: where the publisher goroutine is
    held,        \* held[w]: the notification it is publishing
    attempt,     \* attempt[w]: the attempt it is at
    wire,        \* copies sent and not yet seen by the broker
    queue,       \* copies the broker has put in the queue
    confirmed,   \* copies the broker has acknowledged
    declared,    \* does the queue exist at the broker?
    published,   \* EventsPublished
    refused,     \* EventsDropped, reason buffer_full
    dropped,     \* EventsDropped, reason publish_error
    ingestTotal, \* IngestTotal
    main         \* where run() is: running, draining, closing, exited

handlerVars == <<handler, size, accepted>>
workerVars  == <<worker, held, attempt>>
brokerVars  == <<wire, queue, confirmed, declared>>
vars == <<handlerVars, ch, closed, workerVars, brokerVars,
          published, refused, dropped, ingestTotal, main>>

Active(r) == handler[r] \in {"reading", "submitting"}

Init ==
    /\ handler = [r \in Requests |-> "idle"]
    /\ size = [r \in Requests |-> 0]
    /\ accepted = [r \in Requests |-> 0]
    /\ ch = <<>>
    /\ closed = FALSE
    /\ worker = [w \in Workers |-> "receive"]
    /\ held = [w \in Workers |-> NoItem]
    /\ attempt = [w \in Workers |-> 0]
    /\ wire = {} /\ queue = {} /\ confirmed = {}
    /\ declared = QueueExists
    /\ published = {} /\ refused = {} /\ dropped = {}
    /\ ingestTotal = 0
    /\ main = "running"

-----------------------------------------------------------------------------
(* The ingest handler.                                                     *)

\* The server hands a request to the handler.  After Shutdown begins the
\* listener is closed and no handler starts.
Arrive(r) ==
    /\ main = "running"
    /\ handler[r] = "idle"
    /\ handler' = [handler EXCEPT ![r] = "reading"]
    /\ UNCHANGED <<size, accepted, ch, closed, workerVars, brokerVars,
                   published, refused, dropped, ingestTotal, main>>

\* Unreadable JSON, an empty list or one invalid notification: 400, and no
\* notification of the request is submitted.
RejectBody(r) ==
    /\ main # "exited"
    /\ handler[r] = "reading"
    /\ handler' = [handler EXCEPT ![r] = "400"]
    /\ UNCHANGED <<size, accepted, ch, closed, workerVars, brokerVars,
                   published, refused, dropped, ingestTotal, main>>

AcceptBody(r) ==
    /\ main # "exited"
    /\ handler[r] = "reading"
    /\ \E n \in 1..MaxBatch : size' = [size EXCEPT ![r] = n]
    /\ handler' = [handler EXCEPT ![r] = "submitting"]
    /\ UNCHANGED <<accepted, ch, closed, workerVars, brokerVars,
                   published, refused, dropped, ingestTotal, main>>

Submitting(r) ==
    /\ main # "exited"
    /\ handler[r] = "submitting"
    /\ accepted[r] < size[r]

\* The send case of Submit's select.
Submit(r) ==
    /\ Submitting(r)
    /\ ~closed
    /\ Len(ch) < Capacity
    /\ ch' = Append(ch, <<r, accepted[r] + 1>>)
    /\ accepted' = [accepted EXCEPT ![r] = @ + 1]
    /\ UNCHANGED <<handler, size, closed, workerVars, brokerVars,
                   published, refused, dropped, ingestTotal, main>>

\* The default case: ErrFull.  The handler answers 503 and abandons the rest
\* of the request; what it has submitted stays in the buffer.
Overflow(r) ==
    /\ Submitting(r)
    /\ ~closed
    /\ Len(ch) = Capacity
    /\ refused' = refused \cup {<<r, accepted[r] + 1>>}
    /\ handler' = [handler EXCEPT ![r] = "503"]
    /\ UNCHANGED <<size, accepted, ch, closed, workerVars, brokerVars,
                   published, dropped, ingestTotal, main>>

\* A send on a closed channel panics, default case or not; the middleware
\* recovers and the request ends in a 500.
SubmitPanics(r) ==
    /\ Submitting(r)
    /\ closed
    /\ handler' = [handler EXCEPT ![r] = "500"]
    /\ UNCHANGED <<size, accepted, ch, closed, workerVars, brokerVars,
                   published, refused, dropped, ingestTotal, main>>

\* Everything submitted: count the request and answer 202.
Respond(r) ==
    /\ main # "exited"
    /\ handler[r] = "submitting"
    /\ accepted[r] = size[r]
    /\ ingestTotal' = ingestTotal + size[r]
    /\ handler' = [handler EXCEPT ![r] = "202"]
    /\ UNCHANGED <<size, accepted, ch, closed, workerVars, brokerVars,
                   published, refused, dropped, main>>

-----------------------------------------------------------------------------
(* The publisher goroutines.                                               *)

\* Mutant: the goroutine peeks at the channel instead of receiving from it.
ReceiveKeeps(w) ==
    /\ worker[w] = "receive"
    /\ ch # <<>>
    /\ held' = [held EXCEPT ![w] = Head(ch)]
    /\ attempt' = [attempt EXCEPT ![w] = 1]
    /\ worker' = [worker EXCEPT ![w] = "attempt"]
    /\ UNCHANGED <<handlerVars, ch, closed, brokerVars,
                   published, refused, dropped, ingestTotal, main>>

Receive(w) ==
    /\ worker[w] = "receive"
    /\ ch # <<>>
    /\ ch' = Tail(ch)
    /\ held' = [held EXCEPT ![w] = Head(ch)]
    /\ attempt' = [attempt EXCEPT ![w] = 1]
    /\ worker' = [worker EXCEPT ![w] = "attempt"]
    /\ UNCHANGED <<handlerVars, closed, brokerVars,
                   published, refused, dropped, ingestTotal, main>>

\* Mutant: the goroutine leaves as soon as the channel is closed.
LeaveUndrained(w) ==
    /\ worker[w] = "receive"
    /\ closed
    /\ worker' = [worker EXCEPT ![w] = "exited"]
    /\ UNCHANGED <<handlerVars, ch, closed, held, attempt, brokerVars,
                   published, refused, dropped, ingestTotal, main>>

\* Ranging over a closed channel ends once the channel is drained.
Leave(w) ==
    /\ worker[w] = "receive"
    /\ closed
    /\ ch = <<>>
    /\ worker' = [worker EXCEPT ![w] = "exited"]
    /\ UNCHANGED <<handlerVars, ch, closed, held, attempt, brokerVars,
                   published, refused, dropped, ingestTotal, main>>

\* The notification is done with; the goroutine receives the next one.
Release(w) ==
    /\ worker' = [worker EXCEPT ![w] = "receive"]
    /\ held' = [held EXCEPT ![w] = NoItem]
    /\ attempt' = [attempt EXCEPT ![w] = 0]

\* Mutant: one attempt too many.
RetryTooOften(w) ==
    IF attempt[w] <= MaxAttempts
    THEN /\ attempt' = [attempt EXCEPT ![w] = @ + 1]
         /\ worker' = [worker EXCEPT ![w] = "attempt"]
         /\ UNCHANGED <<held, dropped>>
    ELSE /\ dropped' = dropped \cup {held[w]}
         /\ Release(w)

\* Mutant: the attempts are not counted, so the retries never end.
RetryForever(w) ==
    /\ worker' = [worker EXCEPT ![w] = "attempt"]
    /\ UNCHANGED <<attempt, held, dropped>>

\* A failed attempt: back off and try again, or count the drop.
RetryOrDrop(w) ==
    IF attempt[w] < MaxAttempts
    THEN /\ attempt' = [attempt EXCEPT ![w] = @ + 1]
         /\ worker' = [worker EXCEPT ![w] = "attempt"]
         /\ UNCHANGED <<held, dropped>>
    ELSE /\ dropped' = dropped \cup {held[w]}
         /\ Release(w)

\* PublishRaw fails before the message leaves: no connection, no channel, no
\* confirm mode, or the write fails.
AttemptFails(w) ==
    /\ worker[w] = "attempt"
    /\ RetryOrDrop(w)
    /\ UNCHANGED <<handlerVars, ch, closed, brokerVars,
                   published, refused, ingestTotal, main>>

SendCopy(w) ==
    /\ worker[w] = "attempt"
    /\ wire' = wire \cup {<<held[w], attempt[w]>>}
    /\ worker' = [worker EXCEPT ![w] = "confirming"]
    /\ UNCHANGED <<handlerVars, ch, closed, held, attempt, queue, confirmed, declared,
                   published, refused, dropped, ingestTotal, main>>

\* Mutant: the end of the wait is taken for a confirmation.
AckUnchecked(w) ==
    /\ worker[w] = "confirming"
    /\ published' = published \cup {held[w]}
    /\ Release(w)
    /\ UNCHANGED <<handlerVars, ch, closed, brokerVars,
                   refused, dropped, ingestTotal, main>>

\* The broker's ack of this attempt arrives.
Ack(w) ==
    /\ worker[w] = "confirming"
    /\ <<held[w], attempt[w]>> \in confirmed
    /\ published' = published \cup {held[w]}
    /\ Release(w)
    /\ UNCHANGED <<handlerVars, ch, closed, brokerVars,
                   refused, dropped, ingestTotal, main>>

\* The wait ends without an ack: the context times out, the broker nacks, or
\* the channel closes and yields a zero confirmation.
GiveUp(w) ==
    /\ worker[w] = "confirming"
    /\ RetryOrDrop(w)
    /\ UNCHANGED <<handlerVars, ch, closed, brokerVars,
                   published, refused, ingestTotal, main>>

-----------------------------------------------------------------------------
(* RabbitMQ, as PublishRaw and OpenConsumerSession use it.                 *)

\* A persistent message for a queue that exists is stored and acknowledged.
Store(c) ==
    /\ c \in wire
    /\ declared
    /\ wire' = wire \ {c}
    /\ queue' = queue \cup {c}
    /\ confirmed' = confirmed \cup {c}
    /\ UNCHANGED <<handlerVars, ch, closed, workerVars, declared,
                   published, refused, dropped, ingestTotal, main>>

\* The message is published with mandatory = false: one that no queue takes
\* is discarded, and acknowledged all the same.
Discard(c) ==
    /\ c \in wire
    /\ ~declared
    /\ wire' = wire \ {c}
    /\ confirmed' = confirmed \cup {c}
    /\ UNCHANGED <<handlerVars, ch, closed, workerVars, queue, declared,
                   published, refused, dropped, ingestTotal, main>>

\* The connection breaks before the broker reads the message, or the broker
\* refuses it.
Lose(c) ==
    /\ c \in wire
    /\ wire' = wire \ {c}
    /\ UNCHANGED <<handlerVars, ch, closed, workerVars, queue, confirmed, declared,
                   published, refused, dropped, ingestTotal, main>>

\* The consumer's first session declares the queue.
Declare ==
    /\ ~declared
    /\ declared' = TRUE
    /\ UNCHANGED <<handlerVars, ch, closed, workerVars, wire, queue, confirmed,
                   published, refused, dropped, ingestTotal, main>>

-----------------------------------------------------------------------------
(* run(): shutdown.                                                        *)

\* SIGINT or SIGTERM: Shutdown closes the listener and waits for handlers.
Signal ==
    /\ main = "running"
    /\ main' = "draining"
    /\ UNCHANGED <<handlerVars, ch, closed, workerVars, brokerVars,
                   published, refused, dropped, ingestTotal>>

\* Mutant: the buffer is closed before the server has been shut down.
CloseBeforeShutdown ==
    /\ main = "draining"
    /\ main' = "closing"
    /\ closed' = TRUE
    /\ UNCHANGED <<handlerVars, ch, workerVars, brokerVars,
                   published, refused, dropped, ingestTotal>>

\* Mutant: Close waits for the goroutines but does not close the channel.
CloseWithoutClose ==
    /\ main = "draining"
    /\ HandlersFinish => \A r \in Requests : ~Active(r)
    /\ main' = "closing"
    /\ UNCHANGED <<handlerVars, ch, closed, workerVars, brokerVars,
                   published, refused, dropped, ingestTotal>>

\* Shutdown returns, with every handler finished or with a timeout that is
\* only logged, and the deferred buf.Close closes the channel.
CloseBuffer ==
    /\ main = "draining"
    /\ HandlersFinish => \A r \in Requests : ~Active(r)
    /\ main' = "closing"
    /\ closed' = TRUE
    /\ UNCHANGED <<handlerVars, ch, workerVars, brokerVars,
                   published, refused, dropped, ingestTotal>>

\* wg.Wait returns; the remaining deferred calls run and the process ends.
Exit ==
    /\ main = "closing"
    /\ \A w \in Workers : worker[w] = "exited"
    /\ main' = "exited"
    /\ UNCHANGED <<handlerVars, ch, closed, workerVars, brokerVars,
                   published, refused, dropped, ingestTotal>>

-----------------------------------------------------------------------------
HandlerStep(r) ==
    \/ Arrive(r) \/ RejectBody(r) \/ AcceptBody(r)
    \/ Submit(r) \/ Overflow(r) \/ SubmitPanics(r) \/ Respond(r)

WorkerStep(w) ==
    \/ Receive(w) \/ Leave(w)
    \/ AttemptFails(w) \/ SendCopy(w) \/ Ack(w) \/ GiveUp(w)

BrokerStep ==
    \/ Declare
    \/ \E c \in Copies : Store(c) \/ Discard(c) \/ Lose(c)

Next ==
    \/ \E r \in Requests : HandlerStep(r)
    \/ \E w \in Workers : WorkerStep(w)
    \/ BrokerStep
    \/ Signal \/ CloseBuffer \/ Exit

Spec == Init /\ [][Next]_vars

\* Handlers that have read their body run to their response, publishers are
\* never blocked for ever (every wait of PublishRaw has a timeout), and run()
\* continues once Shutdown and wg.Wait return.
Fairness ==
    /\ \A r \in Requests :
          WF_vars(RejectBody(r) \/ AcceptBody(r) \/ Submit(r) \/ Overflow(r)
                    \/ SubmitPanics(r) \/ Respond(r))
    /\ \A w \in Workers : WF_vars(WorkerStep(w))
    /\ WF_vars(CloseBuffer)
    /\ WF_vars(Exit)

-----------------------------------------------------------------------------
(* Properties.                                                             *)

TypeOK ==
    /\ handler \in [Requests -> {"idle", "reading", "submitting",
                                 "202", "400", "500", "503"}]
    /\ size \in [Requests -> 0..MaxBatch]
    /\ accepted \in [Requests -> 0..MaxBatch]
    /\ ch \in Seq(Items)
    /\ closed \in BOOLEAN
    /\ worker \in [Workers -> {"receive", "attempt", "confirming", "exited"}]
    /\ held \in [Workers -> Items \cup {NoItem}]
    /\ attempt \in [Workers -> 0..MaxAttempts]
    /\ wire \subseteq Copies /\ queue \subseteq Copies /\ confirmed \subseteq Copies
    /\ declared \in BOOLEAN
    /\ published \subseteq Items /\ refused \subseteq Items /\ dropped \subseteq Items
    /\ ingestTotal \in Nat
    /\ main \in {"running", "draining", "closing", "exited"}

\* What the buffer has taken from the handlers.
Submitted == {x \in Items : x[2] <= accepted[x[1]]}

Buffered == {ch[k] : k \in 1..Len(ch)}
InHand   == {held[w] : w \in Workers} \ {NoItem}
Decided  == published \cup dropped

\* A notification the buffer has taken is in the channel, in the hands of one
\* goroutine, or counted as published or dropped: in exactly one of these, and
\* in the channel or in hand once.  It is never forgotten and never worked on
\* twice, whatever the order of handlers, goroutines and shutdown.
ExactlyOnePlace ==
    /\ Submitted = Buffered \cup InHand \cup Decided
    /\ Buffered \cap InHand = {}
    /\ (Buffered \cup InHand) \cap Decided = {}
    /\ published \cap dropped = {}
    /\ \A j, k \in 1..Len(ch) : ch[j] = ch[k] => j = k
    /\ \A v, w \in Workers : held[v] = held[w] /\ held[v] # NoItem => v = w

\* When the process ends after a signal, every notification the buffer took
\* has been published or counted as dropped, even if Shutdown timed out while
\* handlers were still submitting.
ShutdownDrainsBuffer == main = "exited" => Submitted \subseteq Decided

\* If handlers end within the shutdown timeout, no handler submits to the
\* closed channel: the buffer is closed only after the server has stopped.
NoSubmitAfterClose == HandlersFinish => \A r \in Requests : handler[r] # "500"

\* EventsPublished: "Notifications successfully published to RabbitMQ."
\* (metrics.go).  What is counted as published is in the queue.
PublishedIsQueued == published \subseteq {c[1] : c \in queue}

\* A notification counted as published is never sent again.
NoResendAfterAck ==
    [][\A c \in wire' \ wire : c[1] \notin published]_vars
=============================================================================
