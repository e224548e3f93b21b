# A TLA+ verification of csar-notify

csar-notify takes notifications over HTTP, queues them in RabbitMQ, and delivers
them to the inbox in Postgres, to streams of browsers (SSE over Redis), to
Telegram and to Web Push. This directory holds TLA+ modules translated from its
Go sources, TLC configurations that check them on small instances, and proofs,
checked by TLAPS, of the properties that matter most. `PROJECT.json` is the
index: components, runs, mutants, findings, hazards, theorems, and for each
definition the source lines it stands for.

To check a module, in this directory:

    tlc -config Pipeline_safety.cfg MCPipeline
    tlapm DeliveryProofs.tla

## 1. Inventory

    handlers --> buffer --> publishers --> RabbitMQ --> consumer --> dispatcher
    (http.go)  (buffer.go)  (publisher.go)   queue    (runner.go)       |
                                                                        v
    users  <--> inbox, preferences, subscriptions  <--> Postgres <-- providers --> Telegram
    (handlers)                                                          |          Web Push
    browsers <-- SSE hub <-- Redis pub/sub <----------------------------+

| Component | State | Operations | What makes it hard | What makes it correct |
|---|---|---|---|---|
| ingest handler (`ingest/http.go`) | the request in hand, IngestTotal | read, validate, submit one by one, answer 202, 400 or 503 | the buffer fills in the middle of a request | what it counts and answers agrees with what it submitted |
| ingest buffer, publisher workers (`pipeline/buffer.go`) | a bounded channel, the notification and attempt of each worker, counters | Submit, Close, receive, publish with retry | many senders and receivers, a close under senders, retries | each notification in exactly one place; drained at shutdown; nobody sends on the closed channel |
| RabbitMQ publisher (`rmq/publisher.go`) | a confirmation awaited | PublishRaw | late confirms, unroutable messages, lost connections | published means queued; no resend after a confirm |
| consumer loop and session (`consumer/runner.go`, `rmq/consumer.go`) | deliveries held, the batch, the indexes of poison and good deliveries | open a session, collect a batch, dead-letter, dispatch, ack, nack, end | lost channels, lost acks, crashes, redelivery, index arithmetic over a batch, cancellation | at-least-once; ack only after a completed dispatch; dead-letter only what may be; nothing held for ever; it stops |
| dispatcher (`dispatch/dispatcher.go`) | recipients and channels left, errors joined so far | persist, resolve, send on each channel, verdict | one failure among many sends, preferences that change meanwhile, redelivery | an ack means everyone was reached; opt-outs hold |
| providers (`provider/...`) | none, but for the VAPID tokens | Send of site, Telegram, Web Push | answers that are lost, subscriptions that are gone | row before event; a gone subscription is deleted |
| store (`store/postgres.go`) | notifications, deliveries, preferences, subscriptions | upserts, marks, queries | retries of what was done | one row per recipient; read and dismissed marks are kept |
| inbox, preference, subscription handlers | none of their own | list, count, mark, dismiss, get, put, subscribe, unsubscribe | interleaving with a dispatch and with each other; pages cut while rows change | pages complete; what is shown is what is used |
| SSE hub (`sse/hub.go`) | map of clients, a channel each | subscribe, receive, resolve, broadcast, register, stream, unregister | slow clients, clients that leave during a broadcast, overlapping prefixes | own events only, in order, nobody skipped, no send on a closed channel |
| connection manager (`rmq/connection.go`) | the connection under a lock, the loop and its delay | connect, reconnect loop, Channel, Close | Close while the loop dials, callers that hold the lock during a call to the broker | one connection at most; none after Close; a lost one comes back |
| lifecycle (`cmd/csar-notify/main.go`) | signal, contexts, deferred calls | start-up, shutdown | a start-up that fails half-way; a shutdown that times out; goroutines nobody waits for | everything opened is closed, and nothing while it is needed; the process ends |
| VAPID token cache (`provider/webpush/auth.go`) | tokens by audience | reuse or sign anew | expiry between choice and use | a token is good when it arrives, and seldom changes |
| types, configuration | none, or read once | normalise, validate, match topics, resolve targets and bots | white space, duplicates, defaults, iteration order of maps | what was accepted stays valid; defaults exist |
| metrics, tracing, VAPID key handler, identity | counters, or none | observe, copy, answer | | counters agree with what happened |

They interact through three stores and three calls. Handlers call `Submit` on
the buffer; publishers and consumer meet only in the RabbitMQ queue; the consumer
calls `Dispatch` and settles by its answer; providers and user handlers meet in
Postgres; providers and hub meet in Redis. `run()` in `main.go` ties the
lifetimes: it cancels the context of consumer and hub, shuts the server down,
and its deferred calls close the buffer, which waits for the publishers, before
the connection.

`PROJECT.json` lists the hazards, each at its line, with the properties that
would catch it going wrong.

## 2. Modules

| Module | Models | Used by |
|---|---|---|
| `Pipeline` | ingest handler, buffer, publishers, broker, shutdown | `MCPipeline`, `Delivery`, `DeliveryProofs` |
| `WorkQueue` | the abstract at-least-once queue | instantiated by `Consumer` and `DeliveryProofs` |
| `Consumer` | consumer loop, sessions, batches, prefetch window, crashes | `MCConsumer`, `ConsumerProofs` |
| `Delivery` | `Pipeline`, the queue and the promise of a consumer, with crashes and restarts | `MCDelivery`, `DeliveryProofs` |
| `Dispatch` | dispatcher, providers, store, user handlers | `MCDispatch`, `DispatchProofs` |
| `SseHub` | Redis channels, hub goroutine, stream handlers | `MCSseHub`, `SseHubProofs` |
| `ConnectionManager` | connection, reconnect loop, `Channel`, `Close` | `Lifecycle`, `LifecycleProofs` |
| `Lifecycle` | `run()`: start-up, deferred calls, shutdown, and its goroutines | `MCLifecycle`, `LifecycleProofs` |
| `Inbox` | the inbox of one user and a client that pages through it | `MCInbox`, `InboxProofs` |
| `Notification` | normalisation, validation, topic filters (operators) | `ProviderConfig`, `RoutingProofs` |
| `ProviderConfig` | targets and bots of the configuration (operators) | `Routing`, `RoutingProofs` |
| `Routing` | from start-up and preferences to channel, target and bot | `MCRouting`, `RoutingProofs` |
| `VapidCache` | VAPID tokens against the clock | `WebPush`, `WebPushProofs` |
| `SendErrors` | trees of joined errors (operators) | `WebPush`, `WebPushProofs` |
| `WebPush` | a dispatch as the web push provider sees it | `MCWebPush`, `WebPushProofs` |

Definitions named *Mutant* in their comment are changed forms of a definition
below them, each a plausible bug; replacing the definition by its mutant must
break a property of a run (`PROJECT.json`, `mutants`). No specification uses them.

### Pipeline

A notification is a pair of a request and an index; a copy is a notification and
the attempt that sent it. `handler[r]` is where `ServeHTTP` is; `ch` and `closed`
are the Go channel; `worker`, `held` and `attempt` are the locals of each
`worker` goroutine; `wire`, `queue` and `confirmed` are the broker's side;
`published`, `refused` and `dropped` are the counters, kept as the sets they
count; `main` is where `run()` is.

`AcceptBody`, `Submit`, `Overflow` and `Respond` are `ServeHTTP` and `Submit`;
`SubmitPanics` is the send on a closed channel, which the recovery middleware
turns into a 500. `Receive`, `AttemptFails`, `SendCopy`, `Ack` and `GiveUp` are
`publishWithRetry` around `PublishRaw`; a failed attempt goes through
`RetryOrDrop` in the same step. `Store`, `Discard` and `Lose` are the broker: it
stores and confirms a copy, confirms one that no queue takes (`mandatory` is
false), or never sees it. `GiveUp` may be taken whether or not the broker has the
copy, which is how a late confirm appears. `Signal`, `CloseBuffer` and `Exit` are
the end of `run()`. Back-off and timeouts have no length.

### Consumer and WorkQueue

Messages are natural numbers, smaller ones nearer the head. `ready`, `flagged`,
`unacked`, `acked` and `dlq` are the broker's; `inbox` is what amqp091 has received
for the consumer; `pc`, `batch`, `poison`, `good` and `outcome` are `runSession`.
Ack and nack on a channel that is gone are lost, as in the code, which ignores
the error. Closing a channel requeues what it held and flags it. `deathCount` is
translated with its three cases: an x-death header, a redelivered flag, neither.
`Dispatch` returns one of the verdicts a message may get, so a message may fail
once and succeed later. `Crash` loses the process at any point, and it comes back;
`ConnectionLost` breaks the channel under the session; `Cancel` is `appCancel`.

`WorkQueue` says what a queue's users may rely on: a message leaves the queue
once, either after its work has been completed or because it may be dead-lettered.
`Consumer` implements it with `pending` as ready or unacked (`KeepsPromise`).

### Dispatch

One notification at a time, as the consumer calls it. `pc` walks through
`Dispatch`: persist, recipients, then for each recipient and channel a `Send`. Each
call to Postgres, Redis, Telegram or a push service is a step that may succeed,
fail, or be carried out and still be reported as failed (its answer is lost); the
error joins `errs` and the loop goes on, as in the code. `AckVerdict` is
`IsPermanentChannelOnly` over the leaves of the joined errors. `Finish` acks or
leaves the notification for another try; `Crash` stops anywhere. Meanwhile users
take `PutPreference`, `MarkRead`, `Dismiss`, `Subscribe` and `Unsubscribe`. The history variables `declined`,
`muted`, `used`, `absent`, `lapsed`, `sent` and `answered` record what a user wanted and
what an outside service has seen; no guard reads them. `sent` and `answered` remember who
was reached over all tries; `used` is of the recipient in hand, so that a try that repeats
what an earlier one did is a use again: a row upserted, an event published, a message
sent, a push requested, whatever the answer. `OptOutIsRespected` holds it against `muted`,
what was disabled when the dispatch began and was not enabled since.

### SseHub

Prefixes, recipients and Redis channels are strings, sequences of letters, where a
letter may stand for a run of characters that no prefix divides. Nothing in
`EffectiveTargets` makes a prefix end at a separator, so the prefix of one target may be a
prefix of another's, and may go on into a recipient: with `notify:` and `notify:a`, the
channel of a recipient of the first whose UUID begins with an a resolves to the second,
and to a recipient without that letter, whom no one streams. Redis sends one copy for each matching
pattern (`Copies`, external). `Receive` returns from `ReceiveMessage`, resolves
the channel by the longest prefix, takes the read lock and looks the key up;
`Offer` is one turn of the loop of `broadcast`, with its non-blocking send;
`Offered` releases the lock. `Connect` and `Unregister` need the lock, so they are
disabled while the hub is sending. `RedisLost` loses what is under way;
`Resubscribe` is the call that reconnects. Two targets with equal prefixes are
allowed, as in the code, which checks no such thing: which of them a channel resolves to
is then a choice, and a client may get the events of the other. `Shadowed` are the
addresses for which another target's prefix, as long as their own or longer, fits the
channel; `NoOneSkipped` excepts them and no others. `OnlyOwnEvents` needs prefixes that
differ, and recipients none of which is the end of another.

### Delivery

`Pipeline` and what is left of a consumer once only its promise is kept:
`Complete`, `Finish` and `Bury` of a copy in the queue. That `Consumer` keeps this
promise is shown by its own run and proved; here the promise is used. `Crash` may
come at any point: the buffer, the workers and the handlers are gone, a client
sees its request cut, a new process begins with an empty buffer, and what is in the
queue or on the wire is untouched. `lost` records what was in memory.
`AcceptedIsDelivered` says what a 202 is worth: delivered or dead-lettered in the end,
unless counted as dropped, lost with the process, discarded by a broker without a
queue, or left in the queue of a process that was stopped.

### ConnectionManager and Lifecycle

Connections are numbered; `open` is the network's view, `conn` the pointer behind
the lock, `fresh` what a dial has returned and not stored. `ReadConn`, `NoticeLoss`,
`DelayOver`, `DialFails`, `DialSucceeds`, `Store` and `StopLoop` are `reconnectLoop`.
`BeginChannel` and `EndChannel` are a call of `Channel`, which holds the read lock
while the broker answers; `WriterWaits` keeps new readers out, as a Go `RWMutex`
does. `Close` is `BeginClose` (closeCh), `LoopEnded` (done) and `FinishClose` (the lock).

`Lifecycle` adds `run()`. `Steps` is its start-up in order; a step in `Deferring`
leaves a call on the stack `defers`; a step in `Fallible` may end the start-up.
`Signal` cancels and starts `Shutdown`; `ShutdownReturns` may come with handlers still
at work. Then the deferred calls run, last first: `buf.Close` waits for the
publishers, `pool.Close` for connections that are borrowed, `cm.Close` for the loop.
The goroutines are modelled as far as they use what `run()` opens and closes.
`ServedWhileUsed` is why the order of the deferred calls is right: publishers that run have
the connection, and consumer and hub are cancelled before RabbitMQ, Postgres or Redis is
closed. Nothing in `run()` waits for those two to stop, so either may still be at work when
it is closed, and so may handlers after a `Shutdown` that timed out; the property does not
claim otherwise.

### Inbox

Notifications are numbers in the order of the list (`created_at`, then ID).
A delivery may arrive late, below newer ones, or again. `BeginWalk` and `Fetch` are
requests of a client that goes through the pages by limit and offset; `PageLimits`
is what the handler lets through, `StoreLimit` what the store makes of it. The
history variables say what happened since the walk began, so that `WalkIsExact` can
state exactly when a walk is complete (`NothingSkipped`), free of repetition
(`NothingTwice`) and in agreement with the count of unread items
(`CountAgreesWithWalk`). The time of the first reading is left out: only whether an
item has been read is kept.

### Notification, ProviderConfig and Routing

Texts are strings of which the relevant parts are given by constants: what is left
without white space (`Trim`), what a filter with a star matches (`Wildcard`),
which are UUIDs. `ProviderConfig` gives the set of results that the iteration order of
a Go map allows; the empty set is an error. In `Routing` a process starts with some
configuration or refuses to. `Put` is the write of a PUT; what GET and PUT then
answer is `MergeDefaults`, which changes nothing. `Ingest` normalises and validates, `Begin` does it again, `NextRecipient` resolves channels, `NextChannel`
chooses target or bot. A send fails here only for want of a destination.

### VapidCache, SendErrors and WebPush

A token is its audience and expiry. `Authorize` is `authorizationHeader`, `Arrive` and
`Abandon` are the end of `Do`, `Tick` is the clock, which moves no further than the
timeout of a dispatch while a request is under way. `WebPush` walks through the
recipients, the site send that may fail beside web push, the endpoints and their
answers, and joins the errors as trees. A tree is a function from the paths of its nodes
to the nodes, so that `Leaves`, which is `walkLeafErrors`, needs no recursion: the walk
visits the nodes that have nothing below them.
`VerdictIsExact` compares the verdict on the tree with what has really happened.

## 3. Runs and bounds

| Run | Bounds | Shows |
|---|---|---|
| `Pipeline_safety` | 2 requests of 3 notifications in all, 2 workers, buffer 1, 2 attempts, no queue at first, handlers may outlast Shutdown | nothing is lost or doubled, the buffer is drained |
| `Delivery` | 1 request of up to 2, 1 worker, buffer 1, 2 attempts, 1 crash, the queue exists, handlers end in time | nothing vanishes, published means queued, no handler meets the closed buffer, a 202 is honoured, a signal ends the process |
| `Consumer_safety` | 4 messages, batches of 2, window 3, limit 2, 2 losses | conservation, justified dead letters, `WorkQueue`; settled beside a message that may always fail; cancellation stops |
| `Dispatch_ask` | 2 notifications (2 tries and 1), 2 users, 1 endpoint, 1 change | an ack means everyone was reached; opt-outs hold, also for what a redelivery would repeat; redelivery adds no row and clears no mark |
| `SseHub_streams` | 2 targets with overlapping prefixes, one of which cuts into 1 of 2 recipients, 2 clients, 2 events, channel 1, 1 loss | isolation, order, nobody skipped whose address is not shadowed, no send on a closed channel; slow clients do not stop the hub |
| `Lifecycle` | 3 connections, 2 callers, delays 1 to 3 | nothing left open, publishers keep their connection, consumer and hub are cancelled before what they use is closed, lost connections come back, the process ends |
| `Inbox` | 4 notifications, limits 1 to 3, 6 changes | pages and counts agree |
| `Routing` | 5 configurations, 3 PUTs, 2 of 4 notifications | destinations are those that were configured, preferred or asked for |
| `WebPush` | 2 users, 3 endpoints of 2 services, clock to 8, lifetime 6, skew 2 | tokens are good and stable; the verdict is exact |

Why these are enough. A buffer of one with two handlers and two workers is full,
empty, and contended in every order; two items in a request put the overflow in
the middle; two attempts tell the last from the others. `Delivery` has one handler
and one worker, because their contention is the matter of `Pipeline_safety`; two
notifications let a crash find one in the buffer, one in hand or one in the queue.
`Pipeline_safety` has the queue undeclared at first and a Shutdown that may time out;
`Delivery` has neither, because `PublishedIsQueued` and `NoSubmitAfterClose` hold only
then, as the hypotheses of their theorems say.
Four messages in batches of two through a window of three give a full batch, a
partial one, and a delivery that waits behind; the messages cover every verdict. Two
recipients and a notification for each kind of channel choice make a failure first,
last, or in between; two tries make a redelivery. A channel of one is full as soon
as one event waits, and the second client sees whether the first costs it
anything; of the four addresses one is shadowed, and each channel of the other target
reaches the hub twice. Three connections are lost twice, once during the recovery from the
other; delays of 1, 2 and 3 meet the cap by doubling. Four items in pages of one to three
give one page, several, and a page that ends with the list; six changes move
every item and leave some during the walk. The configurations of `Routing` are no target
map, two targets, two keys that name one, and two faulty ones; its texts come with and
without white space. A clock of 8 against a lifetime of 6 renews each token at least
once, in the middle of a dispatch or between two. Symmetry is used in
`Pipeline_safety` over requests and workers, never where liveness is checked. Deadlock
is not checked: each system ends (the process exits, the bounds are used up).

Bounds in the guards: `MaxBatch`, `MaxAttempts` (4 in the code), `MaxLosses`,
`AttemptCap` (counts dispatches, stops counting at the cap, blocks nothing),
`MaxTries`, `MaxChanges`, `MaxCrashes`, `MaxConns` (the last connection is not lost),
`MaxPuts`, `MaxSends`, `MaxTime`; and the state constraint `ThreeInAll` of `MCPipeline`. The
theorems hold without them.

### Findings

Each is a run of its own whose one property quotes a line of the repository and
is violated by what the code does.

| Run | The line | The code |
|---|---|---|
| `Pipeline_lost_publish` | metrics.go:46, "successfully published" | before the queue is declared, or after it is deleted, an unroutable message is confirmed, counted, and in no queue |
| `Consumer_redeliveries` | runner.go:158, "exceeded max redeliveries" | requeueing adds no x-death entry, so `deathCount` stays at 1 and the default limit of 3 is never reached |
| `Routing_bot` | README.md:57, "notification metadata can override with `telegram_bot`" | the bot of the recipient's preference comes first (telegram.go:80-82) |

Other facts met on the way, which no property claims otherwise:

- A notification answered 202 lives in memory until it is published. One whose
  confirms came late is counted as dropped and is in the queue (buffer.go:122). A
  request answered 503 half-way leaves accepted notifications that IngestTotal does
  not count (http.go:70).
- Messages that fail for ever and fill the prefetch window starve the queue; the
  back-off of `Run` is never reset in practice (runner.go:51).
- With overlapping prefixes, as in `config.yaml`, a stream of the longer one gets each
  event twice. A prefix that goes on into the recipients of a shorter one takes their
  events, which then reach no stream: no check of the configuration refuses it. An open stream makes
  every shutdown wait its 30 s.
- A notification without an ID gets a new inbox row at every try.
- A site default is shown as enabled to a user without a row for the site, and no
  longer used once another row exists; web push, asked for by a notification, is
  used though it is shown as disabled to a user without a row.
- A PUT without a config erases the Telegram chat; one whose topics are all blank
  lets every topic through; a config that does not decode is stored, and makes each
  send fail.
- Two keys of a YAML map that differ in white space name one target or bot; the
  iteration order of the map decides which counts, separately for validation,
  provider and hub. `bot_token` replaces a bot named `default`. The hub resolves its
  targets even when the site provider is disabled, so a configuration that passes
  validation may still fail the start (main.go:141).
- Recipients in two spellings of one UUID get a notification twice, and events for
  another spelling than the gateway's reach no stream.
- `ListenAndServe` that fails is only logged; a second signal does nothing; a signal
  before `signal.Notify` ends the process without the deferred calls. A configured
  reconnect delay of more than a minute shrinks to a minute at the first failure.
- A VAPID key that cannot be used is a temporary failure, retried for ever. A restart
  signs new tokens at once, which push services see as a change.

## 4. Fairness

- `Pipeline`, in `Delivery`: weak fairness of each handler's own steps, each worker,
  `CloseBuffer` and `Exit`. Goroutines that can run do; `PublishRaw` has a timeout, so a
  worker is never without a step; `Shutdown` returns in 30 s at most. The broker gets
  none: it may lose every copy. No fairness makes a request arrive or a signal come.
  `Delivery` adds, for each copy and while the process runs, that its dispatch
  completes and that it is then acked or dead-lettered: what `Consumer` shows of messages
  that do not fail for ever (`EveryMessageSettled`).
- `Consumer`: weak fairness of the session, and strong fairness of delivery for
  each message: RabbitMQ gives a message that is repeatedly at the front of the
  free window to the consumer in the end. Losses are bounded.
- `SseHub`: weak fairness of the hub's goroutine while it has something to do, whose
  sends do not block. Nothing is assumed of clients, of their handlers, or of Redis
  coming back.
- `Lifecycle`: weak fairness of the steps of `run()` and of the manager's goroutine,
  whose waits are timers; of the end of a call to `Channel` and of a query; strong
  fairness of publishers that have a closed buffer to drain; and strong fairness of a
  successful dial, only while the manager is not being closed: the broker comes back in
  the end while the service runs, and `ExitCompletes` does not need it. Nothing is
  assumed of consumer, hub and handlers.

Liveness is checked by TLC only.

## 5. Proofs

The proofs are checked by tlapm to the last leaf, for every value of the constants.
What they assume is the `ASSUME` of each module (sizes are natural numbers, and positive
where the code makes them so; tables have the types the code gives them) and nothing
else, except where a theorem says so itself: `PublishedQueued`, `PublishedStaysQueued` and
`AllAccounted` assume that the queue exists from the start, `OwnEventsOnly` that no two
targets have the same prefix (`PrefixesDiffer`) and no recipient is left when letters are
cut off the front of another (`SuffixFree`), `SeparatedPrefixes` that prefixes differ and
end in a letter no recipient holds, `BalanceHolds` that the requests
are finitely many, and `LimitOfOne` that `max_redeliveries` is 1. Every safety property of
a passing run is proved, and some that no run repeats. Each module names the parts of its
inductive invariant; the theorem that it holds comes first, the properties follow.

**DeliveryProofs**, first part: `Pipeline`. `TypeInv` adds to `TypeOK` that a worker
holds a notification exactly when it is working (`WorkerHolds`) and that a handler's
count stays within its body (`HandlerCounts`); without them `Ack` or `Submit` could
leave the types. On it rests `OnePlace`. Each action is one of four moves of a
notification (`OneMove`: none, into the channel, into a worker's hands, decided), by the
lemmas on what appending to and taking from the channel do (`AppendRange`, `TailRange`).
`Stages` links `main`, `closed` and the workers; with `ExactlyOnePlace` it gives
`ShutdownDrains`, and under `HandlersFinish` it gives `NoPanic`. `PublishedQueued` has
`ConfirmedIsQueued` as its invariant: its hypothesis is exactly what is absent in the
finding `Pipeline_lost_publish`. `NoResend` is an action property no run repeats.

**DeliveryProofs**, second part: `Delivery`. A step of the pipeline is one of the four
moves there too; what is new is the consumer and the crash, which moves all that is in
memory to `lost`. `DeliveryInv` holds the parts above for the process that runs now, with
`NothingVanishes` over all of them: after a crash `ExactlyOnePlace` would be false, so the
invariant says apart from it that what is in memory is there once (`Apart`).
`AllAccounted` is the safety half of `AcceptedIsDelivered`: a notification the buffer took
is in memory, dropped, lost, or has a copy that waits, was dead-lettered, or was acked
after a completed dispatch. The consumer's side of `Delivery` is `WorkQueue`'s steps by
construction; that the real consumer takes no others is `ImplementsWorkQueue`, below.

The counters come last (`ingestTotal`, and `EventsDropped` for `buffer_full`). The handler counts a
request once, when it answers 202, so a request that ends in 503 or dies in a crash leaves
submitted notifications that no counter knows. `CountersAreExact` says which those are:
the total is the number of notifications of requests answered 202 (`Counted`), which were
submitted whole, and there is one refusal for each 503. `BalanceHolds` adds the sets up,
with `DisjointSum` for the places a notification can be in: counted plus uncounted is
published plus dropped plus in memory plus lost. `CopiesAreNew` justifies the model's own
bookkeeping: `Pipeline` tells copies apart by notification and attempt, and its invariant
`Fresh` (what a worker will send next was not sent) shows that no two publishes ever share
a name, so the sets hide no copy.

**ConsumerProofs.** `TypeInv` adds `Control`, what `pc` says about the locals.
`Placed` is the invariant: every message is in exactly one place at the broker
(`Conserved`), what the consumer holds is what the broker waits for, each once
(`HeldDeliveriesAreUnacked`), what is settled is justified (`Justified`), and what is
still to be settled is pending (`StillPending`). It needs `Control`, because settling
shifts the batch and its index sets. Each action has a lemma, `PlacedStep` puts them
together. `HeldIsUnacked`, `AckedCompleted`, `DeadAreBuryable` and `StopIsClean` follow,
and `ImplementsWorkQueue` maps each step to a step of `WorkQueue` or a stutter
(`PromiseStep`). `AckedCompleted` says of the consumer itself what the refinement says of
the queue, and is left to the proof.

`LimitOfOne` is about the one setting for which `max_redeliveries` does bound the
dispatches of a message. Its invariant `OnceInv` follows a message that was dispatched
round the loop: back in the queue it is marked (`TriedIsFlagged`), also when the channel
broke under the consumer and it is dispatched only afterwards (`GoneIsFlagged`); its next
delivery says so (`TriedIsMarked`); so `decodeBatch` rejects it (`MarkedIsRejected`), and
what awaits dispatch was never dispatched (`GoodIsUntried`). For this the deliveries in hand
must be of different messages even on a channel that is gone, where
`HeldDeliveriesAreUnacked` says nothing (`HeldDistinct`). For the default limit of 3 the run
`Consumer_redeliveries` shows that there is no such bound. Of a limit of 1 the price is
visible in `Buryable`: every message may be dead-lettered.

**DispatchProofs.** `JobInv` is types and `Stages`, what `Dispatch` has in hand at each
`pc`. `AckedReachedEveryone` speaks of the moment of the ack; `SoFar` says the same of
every moment before it: as long as no error that was joined forbids the ack, each
recipient is still to come or was reached on each channel that is not still to come. It
needs `Remembered` (the histories are never behind what users want now) and that nothing
is taken back (`Grows`), so that what one try has reached counts in the next.
`GoneInv` follows an endpoint from its 404 to the deletion or to an error that forbids the
ack; `MutedInv` follows an opt-out to the channels that were resolved, to the row about to be
published and the pushes in hand, and so to what is used (`OptOut`), in whichever try;
`OwnIds` says that
a notification with an ID writes its rows under it, so that a retry adds a row only for who
has none (`RetriesAddNoRow`). For one without an ID `MadeByTries` says that each ID the
database made belongs to one try, and by counting them a recipient has at most one row
for each dispatch (`OneRowPerTry`).
`AudienceOnly` rests on `HandsInAudience`, what is in hand at each `pc`, and
on `WhatStepsAdd`, the only ways a step adds to what was sent or stored. `ToldIsStored` says that
what a stream is told of is in the inbox. A client that missed an event because the hub
had lost Redis thus finds it there.

**SseHubProofs.** `HubInv` is what the lock gives: while the goroutine sends, the clients
it has yet to serve are registered, and what is registered is not closed; so
`NeverToClosed`. `KnownInv` adds that what is under way was published and lies under its
own Redis channel. Three facts on strings are what the hub's routing comes to. The channel
of an address that is not shadowed resolves to that address and nothing else
(`ResolvesToOwn`), whatever the prefixes, so `NoneSkipped` has no hypothesis. A channel that
resolves to another target is cut somewhere in the recipient, so what it resolves to is
streamed by nobody if no recipient is the end of another, as with UUIDs that are spelled in
one form; `uuid.Parse` accepts others, of which one may end in another (`ResolvesToNoOther`,
for `OwnEventsOnly`). And with prefixes that end in a separator, as the defaults and
`config.yaml` do, no address is shadowed at all (`SeparatedPrefixes`). `OwnInv` and
`OwedInv` carry them from `Receive` to the last `Offer`. `OrderInv` orders the three queues
an event passes through, Redis to hub, hub, and client, by the place of the event among
the published ones (`Place`); with several copies of one publish it holds with `<=`.
Order does not depend on the prefixes.

**LifecycleProofs**, first part: `ConnectionManager`. `AtMostOneOpen` is not inductive:
`OpenByStage` says what can be open at each stage of the loop (nothing when it dials, only
the new connection when it stores it), `LoopFollowsOwner` that `Close` goes on only when the
loop has ended.

**LifecycleProofs**, second part: `Lifecycle`. `ImplementsManager` shows that `run()` and
its goroutines use the manager as its own specification allows, so what holds of it
alone holds here. The invariant is about the stack of deferred calls: it is a
beginning of one fixed order (`DefersInOrder`); what is open is what a call still on it
will close (`UpWhileDeferred`, `ManagerWhileDeferred`); and a goroutine is at work only
while the call that would stop it is on the stack (`JobsWhileServed`).
`CancelledBeforeClosed` and `NothingLeft` are read off the depth of the stack.

**WebPushProofs**, first part: `VapidCache`. The clock moves no further than `Flight`
while a request is under way, and a token chosen has more than `Skew` to live
(`RequestIsYoung`), so it arrives before it expires whenever `Flight < Skew`. What a
service has seen is what the cache has for its audience, or older by a lifetime less the
skew (`SeenIsOlder`).

**WebPushProofs**, second part: trees and dispatch. `OverLeaves` says that what lies over
some trees has their leaves, so wrapping keeps them and joining adds them
(`WrapLeaves`, `JoinLeaves`). `VerdictInv` says at every step of a dispatch what
`VerdictIsExact` says at its end: each kind of failure so far has its leaf in the error
of the provider or in that of the dispatch, and there is no other leaf (`LeavesExplain`).
`CausesDiffer` then lets the leaves tell the kinds apart. `ImplementsCache` shows that
each step is one of `VapidCache` or leaves it alone, so the first part holds in a
dispatch (`TokensInDispatch`).

**RoutingProofs.** The operators come first. `uniqueStrings` and `notDisabled` are folds,
and what they compute for lists of any length is induction over data. The
library's induction theorems take operators, which the provers cannot instantiate;
`SetInduction` says the same of a set of numbers, and rests on the library's theorem that the
inclusion of finite sets is well-founded. With it `UniqueStringsAreUnique` and
`NotDisabledIsInjective` are proved for every list. `TargetsKnowDefault` and
`BotsKnowDefault` hold of every result that the iteration order of a map allows, and
`ResolvedIsShown` compares `resolveChannels` with `MergeDefaults`. The invariant then says
that the configuration knows its defaults (`Provided`), that a job's recipients
and channels are without repetition (`JobHolds`), and that what is still to come was
not sent to before (`StillToCome`); `UsedIsShown`, `DefaultsAreKnown` and `SentOnce` follow.

**InboxProofs.** `SortedLists` shows that every finite set of numbers has a descending
list, `RankIsPlace` that an item's place in it is its rank, and `PageLists` that a page
holds the items whose ranks lie between the offset and the next. `WalkIsExact` speaks of a walk
that is done; `Passed` and `Shown` say of each moment how far it is: without a dismissal
all items of the start that rank up to the offset were shown (arrivals only move items
down), and without an arrival what was shown ranks up to the offset (dismissals only move
items up). `Still` says that with neither the list is that of the start.

What stays with TLC is liveness under fairness, which TLAPS does not prove:
`AcceptedIsDelivered`, `ShutdownCompletes`, `EveryMessageSettled`, `CancelStops`,
`HubKeepsUp`, `ConnectionComesBack` and `ExitCompletes`.

## 6. Not modelled, and why

- Metrics other than the counters above, tracing, the VAPID key handler and the
  reading of identities: nothing depends on their state.
- Migrations, TLS, the health endpoints: other libraries, or reads only
  (`IsConnected`).
- Ports, names, and the numeric checks of the configuration: one condition (`rest` in
  `ProviderConfig`); the values are constants of the modules, with the checks as their
  assumptions.
- The text of notifications, payloads, signatures, JSON: data no property tells apart;
  decoding succeeds or fails.
- Durations, except in `VapidCache` and the delays of `ConnectionManager`: a timeout or a
  back-off may end at any time.

## 7. Plan

Every component with state has its module and run, and every safety property its proof.
What could follow:

1. A module that composes `Consumer` itself, not its promise, with the ingest half. The
   two are related through `WorkQueue` only: `Consumer` implements it
   (`ImplementsWorkQueue`), and the consumer of `Delivery` is written as its steps.
2. `Dispatch` as the verdict of `Consumer`: the constant `Verdicts` stands for what a run
   of `Dispatch` may return, and nothing but its three values links the two.
3. The lemmas on sequences and induction that two proof modules share, in one place.
