------------------------------ MODULE Consumer ------------------------------
(***************************************************************************)
(* The consuming half of csar-notify: consumer.Run keeps one session on    *)
(* the RabbitMQ queue, collects deliveries into batches, dead-letters the  *)
(* ones it cannot handle, dispatches the others one by one, and acks or    *)
(* requeues each.  The broker requeues what is unacknowledged when the     *)
(* channel goes; the process may crash, lose its connection, or be told to *)
(* stop at any point.                                                      *)
(*                                                                         *)
(* Messages are numbers, in queue order.  What dispatching a message may   *)
(* give is a constant, Verdicts: module Dispatch says what is behind it.   *)
(***************************************************************************)
EXTENDS Naturals, Sequences, FiniteSets

CONSTANTS
    Msgs,            \* the messages, by their position in the queue
    Undecodable,     \* those whose body is not a notification
    Deaths,          \* Deaths[m]: count in the x-death header m came with
    Verdicts,        \* Verdicts[m]: what Dispatch may return for m
    Prefetch,        \* consumer.queue.prefetch
    BatchSize,       \* consumer.batch_size
    MaxRedeliveries, \* consumer.max_redeliveries
    AttemptCap,      \* bound on the count of dispatches of one message
    MaxLosses        \* bound on lost connections and crashes

Results == {"ok", "permanent", "retry"}

ASSUME ConsumerAssumption ==
    /\ Msgs \subseteq Nat
    /\ Undecodable \subseteq Msgs
    /\ Deaths \in [Msgs -> Nat]
    /\ Verdicts \in [Msgs -> SUBSET Results]
    /\ Prefetch \in Nat \ {0}
    /\ BatchSize \in Nat \ {0}
    /\ MaxRedeliveries \in Nat
    /\ AttemptCap \in Nat
    /\ MaxLosses \in Nat

VARIABLES
    ready,      \* in the queue, not handed out
    flagged,    \* handed out before: the next delivery says redelivered
    unacked,    \* handed out on the open channel, not settled
    acked,      \* removed from the queue by an ack
    dlq,        \* in the dead-letter queue
    open,       \* does the channel of the session still work?
    inbox,      \* deliveries the channel holds for the consumer
    pc,         \* where runSession is
    batch,      \* the deliveries collected
    poison,     \* indexes of batch still to be dead-lettered
    good,       \* indexes of batch still to be dispatched and settled
    outcome,    \* what Dispatch returned for the first of good
    completed,  \* messages Dispatch has delivered, or permanently failed
    attempts,   \* attempts[m]: dispatches of m, up to AttemptCap
    cancelled,  \* has run() cancelled the context?
    losses      \* connections lost and crashes so far

brokerVars  == <<ready, flagged, unacked, acked, dlq>>
channelVars == <<open, inbox>>
batchVars   == <<batch, poison, good, outcome>>
historyVars == <<completed, attempts>>
vars == <<brokerVars, channelVars, pc, batchVars, historyVars, cancelled, losses>>

Deliveries == [msg : Msgs, redelivered : BOOLEAN]

deathCount(d) ==
    IF Deaths[d.msg] > 0 THEN Deaths[d.msg]
    ELSE IF d.redelivered THEN 1 ELSE 0

\* Mutant: any redelivered message is rejected.
RejectedRedelivered(d) ==
    \/ MaxRedeliveries > 0 /\ deathCount(d) > 0
    \/ d.msg \in Undecodable

\* What decodeBatch puts among the poison.
Rejected(d) ==
    \/ MaxRedeliveries > 0 /\ deathCount(d) >= MaxRedeliveries
    \/ d.msg \in Undecodable

Init ==
    /\ ready = Msgs
    /\ flagged = {} /\ unacked = {} /\ acked = {} /\ dlq = {}
    /\ open = FALSE
    /\ inbox = <<>>
    /\ pc = "down"
    /\ batch = <<>> /\ poison = {} /\ good = {} /\ outcome = "none"
    /\ completed = {}
    /\ attempts = [m \in Msgs |-> 0]
    /\ cancelled = FALSE
    /\ losses = 0

-----------------------------------------------------------------------------
(* The channel and the broker.                                             *)

\* The channel goes: the broker puts back, at their places, the messages
\* handed out on it and marks them.
CloseChannel ==
    /\ open' = FALSE
    /\ ready' = ready \cup unacked
    /\ flagged' = flagged \cup unacked
    /\ unacked' = {}
    /\ UNCHANGED <<acked, dlq>>

\* The broker hands out the message at the head of the queue, while the
\* prefetch window has room.
Deliver(m) ==
    /\ open
    /\ m \in ready
    /\ \A k \in ready : m <= k
    /\ Cardinality(unacked) < Prefetch
    /\ ready' = ready \ {m}
    /\ unacked' = unacked \cup {m}
    /\ inbox' = Append(inbox, [msg |-> m, redelivered |-> m \in flagged])
    /\ UNCHANGED <<flagged, acked, dlq, open, pc, batchVars, historyVars,
                   cancelled, losses>>

\* The connection breaks.  The consumer does not see it before it next waits
\* for a delivery; until then acks and nacks are lost.
ConnectionLost ==
    /\ open
    /\ losses < MaxLosses
    /\ CloseChannel
    /\ losses' = losses + 1
    /\ UNCHANGED <<inbox, pc, batchVars, historyVars, cancelled>>

\* An ack or a nack of the message.  On a channel that is gone it does
\* nothing: the error is logged or ignored.
SettleAck(m) ==
    IF open
    THEN /\ unacked' = unacked \ {m}
         /\ acked' = acked \cup {m}
         /\ UNCHANGED <<ready, flagged, dlq>>
    ELSE UNCHANGED brokerVars

SettleRequeue(m) ==
    IF open
    THEN /\ unacked' = unacked \ {m}
         /\ ready' = ready \cup {m}
         /\ flagged' = flagged \cup {m}
         /\ UNCHANGED <<acked, dlq>>
    ELSE UNCHANGED brokerVars

SettleReject(m) ==
    IF open
    THEN /\ unacked' = unacked \ {m}
         /\ dlq' = dlq \cup {m}
         /\ UNCHANGED <<ready, flagged, acked>>
    ELSE UNCHANGED brokerVars

-----------------------------------------------------------------------------
(* Run and runSession.                                                     *)

\* OpenConsumerSession.  A failure leaves the consumer where it is: Run backs
\* off and tries again.
OpenSession ==
    /\ pc = "down"
    /\ ~cancelled
    /\ open' = TRUE
    /\ inbox' = <<>>
    /\ pc' = "top"
    /\ UNCHANGED <<brokerVars, batchVars, historyVars, cancelled, losses>>

\* Run sees the cancelled context and returns.
Stop ==
    /\ pc = "down"
    /\ cancelled
    /\ pc' = "stopped"
    /\ UNCHANGED <<brokerVars, channelVars, batchVars, historyVars, cancelled, losses>>

BeginCollect ==
    /\ pc = "top"
    /\ ~cancelled
    /\ pc' = "collect"
    /\ UNCHANGED <<brokerVars, channelVars, batchVars, historyVars, cancelled, losses>>

\* CollectBatch receives a delivery, even one of a channel that is gone.
Collect ==
    /\ pc = "collect"
    /\ Len(batch) < BatchSize
    /\ inbox # <<>>
    /\ batch' = Append(batch, Head(inbox))
    /\ inbox' = Tail(inbox)
    /\ UNCHANGED <<brokerVars, open, pc, poison, good, outcome, historyVars,
                   cancelled, losses>>

\* The batch is full or the flush interval is over: decodeBatch sorts it.
Flush ==
    /\ pc = "collect"
    /\ batch # <<>>
    /\ poison' = {i \in 1..Len(batch) : Rejected(batch[i])}
    /\ good' = {i \in 1..Len(batch) : ~Rejected(batch[i])}
    /\ pc' = "poison"
    /\ UNCHANGED <<brokerVars, channelVars, batch, outcome, historyVars,
                   cancelled, losses>>

\* Mutant: the session returns without closing its channel.
EndSessionOnly ==
    /\ \/ pc = "top" /\ cancelled
       \/ pc = "collect" /\ (cancelled \/ ~open)
    /\ batch' = <<>>
    /\ pc' = "down"
    /\ UNCHANGED <<brokerVars, channelVars, poison, good, outcome, historyVars,
                   cancelled, losses>>

\* Mutant: the wait for a delivery does not watch the context.
EndSessionWhenClosed ==
    /\ \/ pc = "top" /\ cancelled
       \/ pc = "collect" /\ ~open
    /\ CloseChannel
    /\ inbox' = <<>>
    /\ batch' = <<>>
    /\ pc' = "down"
    /\ UNCHANGED <<poison, good, outcome, historyVars, cancelled, losses>>

\* The session ends at the top of the loop, or in CollectBatch, where a batch
\* in the making is dropped, when the context is cancelled or the channel is
\* found closed.
EndSession ==
    /\ \/ pc = "top" /\ cancelled
       \/ pc = "collect" /\ (cancelled \/ ~open)
    /\ CloseChannel
    /\ inbox' = <<>>
    /\ batch' = <<>>
    /\ pc' = "down"
    /\ UNCHANGED <<poison, good, outcome, historyVars, cancelled, losses>>

\* Mutant: the rejected deliveries are put aside and not settled.
SkipPoison ==
    /\ pc = "poison"
    /\ \E i \in poison :
          /\ \A j \in poison : i <= j
          /\ poison' = poison \ {i}
    /\ UNCHANGED <<brokerVars, channelVars, pc, batch, good, outcome,
                   historyVars, cancelled, losses>>

\* Mutant: the rejected deliveries are nacked with requeue.
RequeuePoison ==
    /\ pc = "poison"
    /\ \E i \in poison :
          /\ \A j \in poison : i <= j
          /\ SettleRequeue(batch[i].msg)
          /\ poison' = poison \ {i}
    /\ UNCHANGED <<channelVars, pc, batch, good, outcome, historyVars,
                   cancelled, losses>>

\* Nack(false, false) of the next rejected delivery.
NackPoison ==
    /\ pc = "poison"
    /\ \E i \in poison :
          /\ \A j \in poison : i <= j
          /\ SettleReject(batch[i].msg)
          /\ poison' = poison \ {i}
    /\ UNCHANGED <<channelVars, pc, batch, good, outcome, historyVars,
                   cancelled, losses>>

\* All rejected deliveries are nacked: dispatch the others.
BeginDispatch ==
    /\ pc = "poison"
    /\ poison = {}
    /\ pc' = "dispatch"
    /\ UNCHANGED <<brokerVars, channelVars, batchVars, historyVars, cancelled, losses>>

\* Dispatch of the next good delivery returns.  With the context cancelled,
\* its first statement to the database fails.
Dispatch ==
    /\ pc = "dispatch"
    /\ \E i \in good :
          /\ \A j \in good : i <= j
          /\ LET m == batch[i].msg IN
             /\ outcome' \in IF cancelled THEN {"retry"} ELSE Verdicts[m]
             /\ completed' = IF outcome' = "retry" THEN completed
                             ELSE completed \cup {m}
             /\ attempts' = IF attempts[m] < AttemptCap
                            THEN [attempts EXCEPT ![m] = @ + 1]
                            ELSE attempts
    /\ pc' = "settle"
    /\ UNCHANGED <<brokerVars, channelVars, batch, poison, good, cancelled, losses>>

\* Mutant: the i-th good delivery is taken to be the i-th of the batch.
SettleByCount ==
    /\ pc = "settle"
    /\ \E i \in good :
          /\ \A j \in good : i <= j
          /\ LET k == Cardinality({j \in 1..i : ~Rejected(batch[j])})
             IN  IF outcome = "retry" THEN SettleRequeue(batch[k].msg)
                                      ELSE SettleAck(batch[k].msg)
          /\ good' = good \ {i}
    /\ outcome' = "none"
    /\ pc' = "dispatch"
    /\ UNCHANGED <<channelVars, batch, poison, historyVars, cancelled, losses>>

\* Ack after a success, or after failures that are all permanent and of the
\* web push channel; Nack(false, true) after any other.
Settle ==
    /\ pc = "settle"
    /\ \E i \in good :
          /\ \A j \in good : i <= j
          /\ IF outcome = "retry" THEN SettleRequeue(batch[i].msg)
                                  ELSE SettleAck(batch[i].msg)
          /\ good' = good \ {i}
    /\ outcome' = "none"
    /\ pc' = "dispatch"
    /\ UNCHANGED <<channelVars, batch, poison, historyVars, cancelled, losses>>

\* Mutant: the loop is left after the first settled delivery.
EndBatchEarly ==
    /\ pc = "dispatch"
    /\ batch' = <<>>
    /\ pc' = "top"
    /\ UNCHANGED <<brokerVars, channelVars, poison, good, outcome, historyVars,
                   cancelled, losses>>

\* The batch is done; back to the top of the loop.
EndBatch ==
    /\ pc = "dispatch"
    /\ good = {}
    /\ batch' = <<>>
    /\ pc' = "top"
    /\ UNCHANGED <<brokerVars, channelVars, poison, good, outcome, historyVars,
                   cancelled, losses>>

-----------------------------------------------------------------------------
(* The process.                                                            *)

\* What the process held is gone, and its channel with it.
Gone ==
    /\ CloseChannel
    /\ inbox' = <<>>
    /\ batch' = <<>> /\ poison' = {} /\ good' = {} /\ outcome' = "none"

\* The process dies and is started again.
Crash ==
    /\ pc # "stopped"
    /\ ~cancelled
    /\ losses < MaxLosses
    /\ Gone
    /\ pc' = "down"
    /\ losses' = losses + 1
    /\ UNCHANGED <<historyVars, cancelled>>

\* run() cancels the context on SIGINT or SIGTERM.
Cancel ==
    /\ ~cancelled
    /\ cancelled' = TRUE
    /\ UNCHANGED <<brokerVars, channelVars, pc, batchVars, historyVars, losses>>

\* run() does not wait for the consumer: the process may end under it.
Exit ==
    /\ cancelled
    /\ pc # "stopped"
    /\ Gone
    /\ pc' = "stopped"
    /\ UNCHANGED <<historyVars, cancelled, losses>>

-----------------------------------------------------------------------------
SessionStep ==
    \/ OpenSession \/ Stop \/ BeginCollect \/ Collect \/ Flush \/ EndSession
    \/ NackPoison \/ BeginDispatch \/ Dispatch \/ Settle \/ EndBatch

Next ==
    \/ SessionStep
    \/ \E m \in Msgs : Deliver(m)
    \/ ConnectionLost \/ Crash \/ Cancel \/ Exit

Spec == Init /\ [][Next]_vars

\* The goroutine of the consumer keeps going: every wait has a timeout or is
\* ended by a delivery.  The broker hands out ready messages while the window
\* has room without waiting for the client: a message that is again and again
\* the next one is handed out.
Fairness == WF_vars(SessionStep) /\ \A m \in Msgs : SF_vars(Deliver(m))

FairSpec == Spec /\ Fairness

-----------------------------------------------------------------------------
(* Properties.                                                             *)

TypeOK ==
    /\ ready \subseteq Msgs /\ flagged \subseteq Msgs /\ unacked \subseteq Msgs
    /\ acked \subseteq Msgs /\ dlq \subseteq Msgs
    /\ open \in BOOLEAN
    /\ inbox \in Seq(Deliveries)
    /\ pc \in {"down", "top", "collect", "poison", "dispatch", "settle", "stopped"}
    /\ batch \in Seq(Deliveries)
    /\ poison \subseteq 1..Len(batch) /\ good \subseteq 1..Len(batch)
    /\ outcome \in Results \cup {"none"}
    /\ completed \subseteq Msgs
    /\ attempts \in [Msgs -> 0..AttemptCap]
    /\ cancelled \in BOOLEAN
    /\ losses \in 0..MaxLosses

\* The indexes of batch that are not settled yet.
Unsettled == IF pc = "collect" THEN 1..Len(batch) ELSE poison \cup good

Msg(s, I) == {s[i].msg : i \in I}

OneEach(s, I) == \A i, j \in I : s[i].msg = s[j].msg => i = j

\* On an open channel, the deliveries the consumer has yet to settle are
\* exactly the messages the broker has handed out and not seen settled, each
\* once: no delivery is forgotten (it would hold its place in the prefetch
\* window for ever) and none is settled twice (the broker would close the
\* channel).
HeldDeliveriesAreUnacked ==
    open =>
        /\ unacked = Msg(inbox, 1..Len(inbox)) \cup Msg(batch, Unsettled)
        /\ Msg(inbox, 1..Len(inbox)) \cap Msg(batch, Unsettled) = {}
        /\ OneEach(inbox, 1..Len(inbox))
        /\ OneEach(batch, Unsettled)

\* A message is acked only after Dispatch has delivered it, or has failed
\* permanently, for this message and not for another of its batch.
AckedIsCompleted == acked \subseteq completed

\* Messages that may be dead-lettered: undecodable, or back from the DLQ with
\* the limit of deaths; and after any redelivery if the limit is 1.
Buryable ==
    {m \in Msgs : \/ m \in Undecodable
                  \/ MaxRedeliveries > 0 /\ Deaths[m] >= MaxRedeliveries
                  \/ MaxRedeliveries = 1}

\* With a limit of 2 or more, a message that decodes and did not come back
\* from the dead-letter queue is never sent there, however often its batch is
\* redelivered because of the messages around it.
OnlyBuryableAreDead == dlq \subseteq Buryable

\* Once the consumer has stopped, every message is acked, dead-lettered or
\* back in the queue; no one holds any.
StopLeavesNothingHeld ==
    pc = "stopped" => unacked = {} /\ Msgs = ready \cup acked \cup dlq

\* A consumer of this module does what module WorkQueue promises: a message
\* leaves the queue once, acked after its work is complete or dead-lettered
\* if it may be.
Promise == INSTANCE WorkQueue WITH
    pending <- ready \cup unacked,
    done <- acked,
    dead <- dlq

KeepsPromise == Promise!Spec

\* The limit of consumer.max_redeliveries, logged as "message exceeded max
\* redeliveries, sending to DLQ" (runner.go): a message is dispatched at most
\* once, plus max redeliveries.
RedeliveryLimit == \A m \in Msgs : attempts[m] <= MaxRedeliveries + 1

\* Messages whose dispatch may fail again and again.
Failing == {m \in Msgs \ Undecodable : "retry" \in Verdicts[m]}

\* Unless the process is stopped, every message that Dispatch does not fail
\* is acked or dead-lettered, in spite of crashes, lost connections and the
\* failing messages around it, provided those do not fill the prefetch window.
EveryMessageSettled ==
    \A m \in Msgs \ Failing : <>(m \in acked \cup dlq \/ cancelled)

\* Cancelling the context stops the consumer without the help of Exit.
CancelStops == cancelled ~> pc = "stopped"
=============================================================================
