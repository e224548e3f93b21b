--------------------------- MODULE DeliveryProofs ---------------------------
(***************************************************************************)
(* Proofs about module Pipeline, for any requests, workers, capacity and   *)
(* number of attempts, and about module Delivery: the pipeline, its        *)
(* consumer and any number of crashes of the process.  A step of the       *)
(* pipeline keeps in both what the lemmas of the first part say; what is   *)
(* left in the second is the consumer and the crash.                       *)
(***************************************************************************)
EXTENDS Delivery, TLAPS, SequenceTheorems, FiniteSetTheorems

-----------------------------------------------------------------------------
(* The pipeline in one process: its inductive invariant.  TypeOK is not    *)
(* inductive alone: what SendCopy and RetryOrDrop record depends on what a *)
(* busy goroutine holds.                                                   *)

\* A goroutine holds a notification exactly while it publishes it.
WorkerHolds ==
    \A w \in Workers :
        /\ worker[w] \in {"attempt", "confirming"} =>
              held[w] \in Items /\ attempt[w] \in 1..MaxAttempts
        /\ worker[w] \in {"receive", "exited"} => held[w] = NoItem

\* A handler has submitted no more than its body holds.
HandlerCounts ==
    \A r \in Requests :
        /\ handler[r] \in {"idle", "reading"} => accepted[r] = 0
        /\ accepted[r] <= size[r]

\* The stages of run(), and what a closed channel implies.
Stages ==
    /\ closed <=> main \in {"closing", "exited"}
    /\ HandlersFinish /\ closed => \A r \in Requests : ~Active(r)
    /\ \A w \in Workers : worker[w] = "exited" => closed /\ ch = <<>>
    /\ main = "exited" => \A w \in Workers : worker[w] = "exited"

\* TypeOK, but that a handler may also be cut off: with crashes, below, the
\* steps of the process are otherwise the same.
Types ==
    /\ handler \in [Requests -> {"idle", "reading", "submitting",
                                 "202", "400", "500", "503", "cut"}]
    /\ size \in [Requests -> 0..MaxBatch]
    /\ accepted \in [Requests -> 0..MaxBatch]
    /\ ch \in Seq(Items)
    /\ closed \in BOOLEAN
    /\ worker \in [Workers -> {"receive", "attempt", "confirming", "exited"}]
    /\ held \in [Workers -> Items \cup {NoItem}]
    /\ attempt \in [Workers -> 0..MaxAttempts]
    /\ wire \subseteq Copies /\ queue \subseteq Copies /\ confirmed \subseteq Copies
    /\ declared \in BOOLEAN
    /\ published \subseteq Items /\ refused \subseteq Items /\ dropped \subseteq Items
    /\ ingestTotal \in Nat
    /\ main \in {"running", "draining", "closing", "exited"}

TypeInv == Types /\ WorkerHolds /\ HandlerCounts

\* What a failed attempt leaves in the variables it changes.
LEMMA RetryOrDropTypes ==
  ASSUME TypeInv, NEW w \in Workers, worker[w] \in {"attempt", "confirming"},
         RetryOrDrop(w)
  PROVE  /\ dropped' \subseteq Items
         /\ worker' \in [Workers -> {"receive", "attempt", "confirming", "exited"}]
         /\ held' \in [Workers -> Items \cup {NoItem}]
         /\ attempt' \in [Workers -> 0..MaxAttempts]
         /\ WorkerHolds'
<1>1. /\ MaxAttempts \in Nat
      /\ attempt[w] \in 1..MaxAttempts
      /\ held[w] \in Items
      /\ dropped \subseteq Items
      /\ worker \in [Workers -> {"receive", "attempt", "confirming", "exited"}]
      /\ held \in [Workers -> Items \cup {NoItem}]
      /\ attempt \in [Workers -> 0..MaxAttempts]
      /\ WorkerHolds
  BY PipelineAssumption DEF PipelineAssumption, TypeInv, Types, WorkerHolds
<1>2. CASE attempt[w] < MaxAttempts
  <2>1. /\ attempt' = [attempt EXCEPT ![w] = attempt[w] + 1]
        /\ worker' = [worker EXCEPT ![w] = "attempt"]
        /\ UNCHANGED <<held, dropped>>
    BY <1>2 DEF RetryOrDrop
  <2>2. attempt[w] + 1 \in 1..MaxAttempts
    BY <1>1, <1>2
  <2>3. attempt' \in [Workers -> 0..MaxAttempts]
    BY <1>1, <2>1, <2>2
  <2>4. WorkerHolds'
    BY <1>1, <2>1, <2>2 DEF WorkerHolds
  <2> QED
    BY <1>1, <2>1, <2>3, <2>4
<1>3. CASE ~(attempt[w] < MaxAttempts)
  <2>1. /\ dropped' = dropped \cup {held[w]}
        /\ worker' = [worker EXCEPT ![w] = "receive"]
        /\ held' = [held EXCEPT ![w] = NoItem]
        /\ attempt' = [attempt EXCEPT ![w] = 0]
    BY <1>3 DEF RetryOrDrop, Release
  <2>2. WorkerHolds'
    BY <1>1, <2>1 DEF WorkerHolds
  <2> QED
    BY <1>1, <2>1, <2>2
<1> QED
  BY <1>2, <1>3

\* Init has the types, and no worker or handler holds anything.
LEMMA TypeInitially ==
  ASSUME Init
  PROVE  TypeInv /\ TypeOK
<1> USE PipelineAssumption DEF PipelineAssumption
<1>1. 0 \in 0..MaxBatch /\ 0 \in 0..MaxAttempts
  OBVIOUS
<1>2. TypeOK
  <2>1. declared \in BOOLEAN
    BY Zenon DEF Init
  <2>2. ch \in Seq(Items)
    BY DEF Init
  <2> QED
    BY <1>1, <2>1, <2>2 DEF Init, TypeOK
<1>3. WorkerHolds /\ HandlerCounts
  BY DEF Init, WorkerHolds, HandlerCounts
<1>4. Types
  BY <1>2 DEF TypeOK, Types
<1> QED
  BY <1>2, <1>3, <1>4 DEF TypeInv

\* Every step keeps the type invariant.
LEMMA TypeStep ==
  ASSUME TypeInv, [Next]_vars
  PROVE  TypeInv'
<1> USE PipelineAssumption DEF PipelineAssumption
<1> USE DEF TypeInv, Types, WorkerHolds, HandlerCounts
<1>1. ASSUME NEW r \in Requests, Arrive(r)
      PROVE  TypeInv'
  BY <1>1 DEF Arrive, workerVars, brokerVars
<1>2. ASSUME NEW r \in Requests, RejectBody(r)
      PROVE  TypeInv'
  BY <1>2 DEF RejectBody, workerVars, brokerVars
<1>3. ASSUME NEW r \in Requests, AcceptBody(r)
      PROVE  TypeInv'
  BY <1>3 DEF AcceptBody, workerVars, brokerVars
<1>4. ASSUME NEW r \in Requests, Submit(r)
      PROVE  TypeInv'
  <2>1. accepted[r] + 1 \in 1..MaxBatch
    BY <1>4 DEF Submit, Submitting
  <2>2. <<r, accepted[r] + 1>> \in Items
    BY <2>1 DEF Items
  <2>3. ch' \in Seq(Items)
    BY <1>4, <2>2 DEF Submit
  <2> QED
    BY <1>4, <2>1, <2>3 DEF Submit, Submitting, workerVars, brokerVars
<1>5. ASSUME NEW r \in Requests, Overflow(r)
      PROVE  TypeInv'
  <2>1. <<r, accepted[r] + 1>> \in Items
    BY <1>5 DEF Overflow, Submitting, Items
  <2> QED
    BY <1>5, <2>1 DEF Overflow, Submitting, workerVars, brokerVars
<1>6. ASSUME NEW r \in Requests, SubmitPanics(r)
      PROVE  TypeInv'
  BY <1>6 DEF SubmitPanics, Submitting, workerVars, brokerVars
<1>7. ASSUME NEW r \in Requests, Respond(r)
      PROVE  TypeInv'
  BY <1>7 DEF Respond, workerVars, brokerVars
<1>8. ASSUME NEW w \in Workers, Receive(w)
      PROVE  TypeInv'
  <2>1. Head(ch) \in Items /\ Tail(ch) \in Seq(Items)
    BY <1>8 DEF Receive
  <2> QED
    BY <1>8, <2>1 DEF Receive, handlerVars, brokerVars
<1>9. ASSUME NEW w \in Workers, Leave(w)
      PROVE  TypeInv'
  BY <1>9 DEF Leave, handlerVars, brokerVars
<1>10. ASSUME NEW w \in Workers, AttemptFails(w)
       PROVE  TypeInv'
  <2>1. UNCHANGED <<handlerVars, ch, closed, brokerVars,
                   published, refused, ingestTotal, main>>
    BY <1>10 DEF AttemptFails
  <2> QED
    BY <1>10, <2>1, RetryOrDropTypes DEF AttemptFails, handlerVars, brokerVars
<1>11. ASSUME NEW w \in Workers, SendCopy(w)
       PROVE  TypeInv'
  <2>1. <<held[w], attempt[w]>> \in Copies
    BY <1>11 DEF SendCopy, Copies
  <2> QED
    BY <1>11, <2>1 DEF SendCopy, handlerVars
<1>12. ASSUME NEW w \in Workers, Ack(w)
       PROVE  TypeInv'
  BY <1>12 DEF Ack, Release, handlerVars, brokerVars
<1>13. ASSUME NEW w \in Workers, GiveUp(w)
       PROVE  TypeInv'
  <2>1. UNCHANGED <<handlerVars, ch, closed, brokerVars,
                   published, refused, ingestTotal, main>>
    BY <1>13 DEF GiveUp
  <2> QED
    BY <1>13, <2>1, RetryOrDropTypes DEF GiveUp, handlerVars, brokerVars
<1>14. ASSUME BrokerStep
       PROVE  TypeInv'
  BY <1>14 DEF BrokerStep, Store, Discard, Lose, Declare, handlerVars, workerVars
<1>15. CASE Signal \/ CloseBuffer \/ Exit
  BY <1>15 DEF Signal, CloseBuffer, Exit, handlerVars, workerVars, brokerVars
<1>16. CASE UNCHANGED vars
  BY <1>16 DEF vars, handlerVars, workerVars, brokerVars
<1> QED
  BY <1>1, <1>2, <1>3, <1>4, <1>5, <1>6, <1>7, <1>8, <1>9, <1>10, <1>11,
     <1>12, <1>13, <1>14, <1>15, <1>16 DEF Next, HandlerStep, WorkerStep

\* The type invariant, with what it needs, holds of every behaviour.
THEOREM TypeInvariance == Spec => []TypeInv
<1>1. Init => TypeInv
  BY TypeInitially
<1>2. TypeInv /\ [Next]_vars => TypeInv'
  BY TypeStep
<1> QED
  BY <1>1, <1>2, PTL DEF Spec

\* Every variable of the handlers, the buffer, the publishers and the broker
\* keeps its type.
THEOREM TypeCorrect == Spec => []TypeOK
<1> DEFINE NotCut == \A r \in Requests : handler[r] # "cut"
<1>1. Init => TypeInv /\ NotCut
  BY TypeInitially DEF Init
<1>2. TypeInv /\ NotCut /\ [Next]_vars => NotCut'
  <2> SUFFICES ASSUME TypeInv, NotCut, [Next]_vars PROVE NotCut'
    OBVIOUS
  <2>1. ASSUME NEW r \in Requests, HandlerStep(r)
        PROVE  NotCut'
    BY <2>1 DEF HandlerStep, Arrive, RejectBody, AcceptBody, Submit, Overflow,
                SubmitPanics, Respond, TypeInv, Types
  <2>2. ASSUME NEW w \in Workers, WorkerStep(w)
        PROVE  NotCut'
    BY <2>2 DEF WorkerStep, Receive, Leave, AttemptFails, SendCopy, Ack, GiveUp, handlerVars
  <2>3. CASE BrokerStep \/ Signal \/ CloseBuffer \/ Exit
    BY <2>3 DEF BrokerStep, Store, Discard, Lose, Declare, Signal, CloseBuffer, Exit,
                handlerVars
  <2>4. CASE UNCHANGED vars
    BY <2>4 DEF vars, handlerVars
  <2> QED
    BY <2>1, <2>2, <2>3, <2>4 DEF Next
<1>3. TypeInv /\ NotCut => TypeOK
  BY DEF TypeInv, Types, TypeOK
<1> QED
  BY <1>1, <1>2, <1>3, TypeInvariance, PTL DEF Spec

-----------------------------------------------------------------------------
(* Facts about sequences.                                                  *)

\* Appending adds one element at the end.
LEMMA AppendRange ==
  ASSUME NEW S, NEW s \in Seq(S), NEW x \in S
  PROVE  /\ {Append(s, x)[k] : k \in 1..Len(Append(s, x))} = {s[k] : k \in 1..Len(s)} \cup {x}
         /\ Len(Append(s, x)) = Len(s) + 1
         /\ \A k \in 1..Len(s) : Append(s, x)[k] = s[k]
         /\ Append(s, x)[Len(s) + 1] = x
<1>1. /\ Len(Append(s, x)) = Len(s) + 1
      /\ \A k \in 1..Len(s) : Append(s, x)[k] = s[k]
      /\ Append(s, x)[Len(s) + 1] = x
      /\ Len(s) \in Nat
  OBVIOUS
<1>2. 1..Len(Append(s, x)) = 1..Len(s) \cup {Len(s) + 1}
  BY <1>1
<1> QED
  BY <1>1, <1>2

\* The tail is the sequence without its first element.
LEMMA TailRange ==
  ASSUME NEW S, NEW s \in Seq(S), s # <<>>
  PROVE  /\ {s[k] : k \in 1..Len(s)} = {Head(s)} \cup {Tail(s)[k] : k \in 1..Len(Tail(s))}
         /\ Len(Tail(s)) = Len(s) - 1
         /\ \A k \in 1..Len(Tail(s)) : Tail(s)[k] = s[k + 1]
         /\ Head(s) = s[1]
<1>1. /\ Len(s) \in Nat \ {0}
      /\ Len(Tail(s)) = Len(s) - 1
      /\ \A k \in 1..Len(Tail(s)) : Tail(s)[k] = s[k + 1]
      /\ Head(s) = s[1]
  OBVIOUS
<1>2. ASSUME NEW k \in 1..Len(s)
      PROVE  s[k] \in {Head(s)} \cup {Tail(s)[j] : j \in 1..Len(Tail(s))}
  <2>1. CASE k = 1
    BY <1>1, <2>1
  <2>2. CASE k # 1
    <3>1. k - 1 \in 1..Len(Tail(s)) /\ s[k] = Tail(s)[k - 1]
      BY <1>1, <2>2
    <3> QED
      BY <3>1
  <2> QED
    BY <2>1, <2>2
<1>3. ASSUME NEW j \in 1..Len(Tail(s))
      PROVE  Tail(s)[j] \in {s[k] : k \in 1..Len(s)}
  BY <1>1
<1>4. Head(s) \in {s[k] : k \in 1..Len(s)}
  BY <1>1
<1> QED
  BY <1>1, <1>2, <1>3, <1>4

-----------------------------------------------------------------------------
(* Every notification the buffer has taken is in exactly one place.        *)

\* What is in memory is there once, and was submitted.
Apart ==
    /\ Buffered \cap InHand = {}
    /\ Buffered \cup InHand \subseteq Submitted
    /\ \A j, k \in 1..Len(ch) : ch[j] = ch[k] => j = k
    /\ \A v, w \in Workers : held[v] = held[w] /\ held[v] # NoItem => v = w

\* The ways a step may move a notification, one at most: none, from a handler
\* to the channel, from there into a hand, from there to a counter.
NoneMoves == UNCHANGED <<Submitted, Buffered, InHand, published, dropped>>

OneEnters ==
    \E x \in Items \ Submitted :
        /\ Submitted' = Submitted \cup {x} /\ Buffered' = Buffered \cup {x}
        /\ UNCHANGED <<InHand, published, dropped>>

OneIsTaken ==
    \E x \in Buffered :
        /\ Buffered' = Buffered \ {x} /\ InHand' = InHand \cup {x}
        /\ UNCHANGED <<Submitted, published, dropped>>

OneIsDecided ==
    \E x \in InHand :
        /\ InHand' = InHand \ {x}
        /\ \/ published' = published \cup {x} /\ UNCHANGED dropped
           \/ dropped' = dropped \cup {x} /\ UNCHANGED published
        /\ UNCHANGED <<Submitted, Buffered>>

OneMove == NoneMoves \/ OneEnters \/ OneIsTaken \/ OneIsDecided

\* Submit puts into the channel what was not submitted before.
LEMMA SubmitMoves ==
  ASSUME TypeInv, Apart, NEW r \in Requests, Submit(r)
  PROVE  Apart' /\ OneEnters
<1> DEFINE x == <<r, accepted[r] + 1>>
<1>1. /\ x \in Items
      /\ ch \in Seq(Items)
      /\ ch' = Append(ch, x)
      /\ UNCHANGED <<held, published, dropped>>
  BY PipelineAssumption
     DEF PipelineAssumption, Submit, Submitting, Items, workerVars, TypeInv, Types
<1>2. x \notin Submitted /\ Submitted' = Submitted \cup {x}
  BY <1>1, PipelineAssumption
     DEF PipelineAssumption, Submit, Submitted, Items, TypeInv, Types
<1>3. Buffered' = Buffered \cup {x}
  BY <1>1, AppendRange DEF Buffered
<1>4. InHand' = InHand /\ x \notin InHand
  <2>1. held' = held
    BY <1>1
  <2>2. InHand \subseteq Submitted
    BY DEF Apart
  <2> QED
    BY <1>2, <2>1, <2>2 DEF InHand
<1>5. ASSUME NEW j \in 1..Len(ch'), NEW k \in 1..Len(ch'), ch'[j] = ch'[k]
      PROVE  j = k
  <2>1. \A i \in 1..Len(ch) : ch[i] \in Buffered /\ ch[i] # x
    BY <1>2 DEF Apart, Buffered
  <2>2. /\ Len(ch') = Len(ch) + 1
        /\ Len(ch) \in Nat
        /\ \A i \in 1..Len(ch) : ch'[i] = ch[i]
        /\ ch'[Len(ch) + 1] = x
    BY <1>1, AppendRange
  <2> QED
    BY <1>5, <2>1, <2>2 DEF Apart
<1>6. \A u, v \in Workers : held'[u] = held'[v] /\ held'[u] # NoItem => u = v
  BY <1>1 DEF Apart
<1>7. Apart'
  BY <1>2, <1>3, <1>4, <1>5, <1>6 DEF Apart
<1> QED
  BY <1>1, <1>2, <1>3, <1>4, <1>7 DEF OneEnters

\* What a worker receives leaves the channel.
LEMMA ReceiveMoves ==
  ASSUME TypeInv, Apart, NEW w \in Workers, Receive(w)
  PROVE  Apart' /\ OneIsTaken
<1> DEFINE x == Head(ch)
<1>1. /\ ch \in Seq(Items) /\ ch # <<>>
      /\ ch' = Tail(ch)
      /\ held' = [held EXCEPT ![w] = x]
      /\ held \in [Workers -> Items \cup {NoItem}]
      /\ held[w] = NoItem
      /\ x \in Items /\ x # NoItem
      /\ UNCHANGED <<accepted, published, dropped>>
  BY PipelineAssumption
     DEF PipelineAssumption, Receive, handlerVars, TypeInv, Types, WorkerHolds
<1>2. Buffered = {x} \cup Buffered'
  <2>1. ch \in Seq(Items) /\ ch # <<>>
    BY <1>1
  <2>2. {ch[k] : k \in 1..Len(ch)} = {x} \cup {Tail(ch)[k] : k \in 1..Len(Tail(ch))}
    BY <2>1, TailRange
  <2> QED
    BY <1>1, <2>2 DEF Buffered
<1>3. /\ Len(ch) \in Nat
      /\ Len(ch') = Len(ch) - 1
      /\ \A i \in 1..Len(ch') : ch'[i] = ch[i + 1]
      /\ x = ch[1]
  BY <1>1, TailRange
<1>4. x \notin Buffered'
  BY <1>3 DEF Apart, Buffered
<1>5. InHand' = InHand \cup {x}
  BY <1>1 DEF InHand
<1>6. \A j, k \in 1..Len(ch') : ch'[j] = ch'[k] => j = k
  BY <1>3 DEF Apart
<1>7. x \notin InHand
  BY <1>2 DEF Apart
<1>8. \A u, v \in Workers : held'[u] = held'[v] /\ held'[u] # NoItem => u = v
  BY <1>1, <1>7 DEF Apart, InHand
<1>9. Submitted' = Submitted
  BY <1>1 DEF Submitted
<1>10. Apart'
  BY <1>2, <1>4, <1>5, <1>6, <1>8, <1>9 DEF Apart
<1> QED
  BY <1>1, <1>2, <1>4, <1>5, <1>9, <1>10 DEF OneIsTaken

\* The end of a publish, one way or the other.
LEMMA ReleaseMoves ==
  ASSUME TypeInv, Apart, NEW w \in Workers,
         worker[w] \in {"attempt", "confirming"},
         Release(w),
         UNCHANGED <<accepted, ch>>,
         \/ published' = published \cup {held[w]} /\ UNCHANGED dropped
         \/ dropped' = dropped \cup {held[w]} /\ UNCHANGED published
  PROVE  Apart' /\ OneIsDecided
<1> DEFINE x == held[w]
<1>1. /\ held' = [held EXCEPT ![w] = NoItem]
      /\ held \in [Workers -> Items \cup {NoItem}]
      /\ x \in Items /\ x # NoItem
  BY PipelineAssumption DEF PipelineAssumption, Release, TypeInv, Types, WorkerHolds
<1>2. x \in InHand /\ InHand' = InHand \ {x}
  BY <1>1 DEF InHand, Apart
<1>3. Submitted' = Submitted /\ Buffered' = Buffered
  BY DEF Submitted, Buffered
<1>4. \A u, v \in Workers : held'[u] = held'[v] /\ held'[u] # NoItem => u = v
  BY <1>1 DEF Apart
<1>5. Apart'
  BY <1>2, <1>3, <1>4 DEF Apart
<1> QED
  BY <1>2, <1>3, <1>5 DEF OneIsDecided

\* Every step moves one notification at most, and keeps each in one place.
LEMMA PlaceStep ==
  ASSUME TypeInv, Apart, [Next]_vars
  PROVE  Apart' /\ OneMove
<1> USE DEF OneMove
<1>1. CASE UNCHANGED <<accepted, ch, held, published, dropped>>
  BY <1>1 DEF Apart, NoneMoves, Submitted, Buffered, InHand
<1>2. ASSUME NEW r \in Requests, Submit(r)
      PROVE  Apart' /\ OneMove
  BY <1>2, SubmitMoves
<1>3. ASSUME NEW w \in Workers, Receive(w)
      PROVE  Apart' /\ OneMove
  BY <1>3, ReceiveMoves
<1>4. ASSUME NEW w \in Workers, Ack(w)
      PROVE  Apart' /\ OneMove
  BY <1>4, ReleaseMoves DEF Ack, handlerVars
<1>5. ASSUME NEW w \in Workers, AttemptFails(w) \/ GiveUp(w)
      PROVE  Apart' /\ OneMove
  <2>1. UNCHANGED <<accepted, ch, published>>
    BY <1>5 DEF AttemptFails, GiveUp, handlerVars
  <2>2. CASE attempt[w] < MaxAttempts
    BY <1>1, <1>5, <2>1, <2>2 DEF AttemptFails, GiveUp, RetryOrDrop
  <2>3. CASE ~(attempt[w] < MaxAttempts)
    BY <1>5, <2>1, <2>3, ReleaseMoves DEF AttemptFails, GiveUp, RetryOrDrop
  <2> QED
    BY <2>2, <2>3
<1>6. ASSUME NEW r \in Requests,
             \/ Arrive(r) \/ RejectBody(r) \/ AcceptBody(r)
             \/ Overflow(r) \/ SubmitPanics(r) \/ Respond(r)
      PROVE  Apart' /\ OneMove
  BY <1>1, <1>6 DEF Arrive, RejectBody, AcceptBody, Overflow, SubmitPanics,
                    Respond, workerVars
<1>7. ASSUME NEW w \in Workers, Leave(w) \/ SendCopy(w)
      PROVE  Apart' /\ OneMove
  BY <1>1, <1>7 DEF Leave, SendCopy, handlerVars
<1>8. CASE BrokerStep
  BY <1>1, <1>8 DEF BrokerStep, Store, Discard, Lose, Declare, handlerVars, workerVars
<1>9. CASE Signal \/ CloseBuffer \/ Exit
  BY <1>1, <1>9 DEF Signal, CloseBuffer, Exit, handlerVars, workerVars
<1>10. CASE UNCHANGED vars
  BY <1>1, <1>10 DEF vars, handlerVars, workerVars
<1> QED
  BY <1>2, <1>3, <1>4, <1>5, <1>6, <1>7, <1>8, <1>9, <1>10
     DEF Next, HandlerStep, WorkerStep

\* Nothing is anywhere at the start.
LEMMA ApartInitially ==
  ASSUME Init
  PROVE  Apart /\ Submitted = {} /\ Buffered = {} /\ InHand = {} /\ Decided = {}
<1>1. Buffered = {} /\ InHand = {} /\ Decided = {}
  BY DEF Init, Buffered, InHand, Decided
<1>2. Submitted = {}
  BY PipelineAssumption DEF PipelineAssumption, Init, Submitted, Items
<1> QED
  BY <1>1, <1>2 DEF Init, Apart

\* No notification is forgotten or worked on twice on its way from a handler
\* to the publisher: ExactlyOnePlace is an invariant.
THEOREM OnePlace == Spec => []ExactlyOnePlace
<1>1. Init => ExactlyOnePlace
  BY ApartInitially DEF Init, Apart, ExactlyOnePlace
<1>2. TypeInv /\ ExactlyOnePlace /\ [Next]_vars => ExactlyOnePlace'
  <2> SUFFICES ASSUME TypeInv, ExactlyOnePlace, [Next]_vars
               PROVE  ExactlyOnePlace'
    OBVIOUS
  <2>1. Apart' /\ OneMove
    <3>1. Apart
      BY DEF ExactlyOnePlace, Apart
    <3> QED
      BY <3>1, PlaceStep
  <2>2. CASE NoneMoves
    BY <2>1, <2>2 DEF NoneMoves, ExactlyOnePlace, Apart, Decided
  <2>3. CASE OneEnters
    BY <2>1, <2>3 DEF OneEnters, ExactlyOnePlace, Apart, Decided
  <2>4. CASE OneIsTaken
    BY <2>1, <2>4 DEF OneIsTaken, ExactlyOnePlace, Apart, Decided
  <2>5. CASE OneIsDecided
    BY <2>1, <2>5 DEF OneIsDecided, ExactlyOnePlace, Apart, Decided
  <2> QED
    BY <2>1, <2>2, <2>3, <2>4, <2>5 DEF OneMove
<1> QED
  BY <1>1, <1>2, TypeInvariance, PTL DEF Spec

-----------------------------------------------------------------------------
(* Shutdown.                                                               *)

\* Every step keeps the stages.
LEMMA StagesStep ==
  ASSUME TypeInv, Stages, [Next]_vars
  PROVE  Stages'
<1> USE PipelineAssumption DEF PipelineAssumption
<1> USE DEF Stages, Active
<1>1. ASSUME NEW r \in Requests, HandlerStep(r)
      PROVE  Stages'
  <2>1. CASE Arrive(r)
    BY <2>1 DEF Arrive, workerVars, TypeInv, Types
  <2>2. CASE RejectBody(r) \/ AcceptBody(r) \/ Overflow(r) \/ SubmitPanics(r) \/ Respond(r)
    BY <2>2 DEF RejectBody, AcceptBody, Overflow, SubmitPanics, Respond, Submitting,
                workerVars, TypeInv, Types
  <2>3. CASE Submit(r)
    BY <2>3 DEF Submit, Submitting, workerVars
  <2> QED
    BY <1>1, <2>1, <2>2, <2>3 DEF HandlerStep
<1>2. ASSUME NEW w \in Workers, WorkerStep(w)
      PROVE  Stages'
  <2>1. CASE Receive(w)
    BY <2>1 DEF Receive, handlerVars, TypeInv, Types
  <2>2. CASE Leave(w)
    BY <2>2 DEF Leave, handlerVars, TypeInv, Types
  <2>3. CASE SendCopy(w) \/ Ack(w)
    BY <2>3 DEF SendCopy, Ack, Release, handlerVars, TypeInv, Types
  <2>4. CASE AttemptFails(w) \/ GiveUp(w)
    <3>1. /\ worker[w] \in {"attempt", "confirming"}
          /\ worker' = [worker EXCEPT ![w] = "attempt"]
             \/ worker' = [worker EXCEPT ![w] = "receive"]
          /\ UNCHANGED <<handler, ch, closed, main>>
      BY <2>4 DEF AttemptFails, GiveUp, RetryOrDrop, Release, handlerVars
    <3> QED
      BY <3>1 DEF TypeInv, Types
  <2> QED
    BY <1>2, <2>1, <2>2, <2>3, <2>4 DEF WorkerStep
<1>3. CASE BrokerStep
  BY <1>3 DEF BrokerStep, Store, Discard, Lose, Declare, handlerVars, workerVars
<1>4. CASE Signal \/ CloseBuffer \/ Exit
  BY <1>4 DEF Signal, CloseBuffer, Exit, handlerVars, workerVars
<1>5. CASE UNCHANGED vars
  BY <1>5 DEF vars, handlerVars, workerVars
<1> QED
  BY <1>1, <1>2, <1>3, <1>4, <1>5 DEF Next

\* The stages of run() are an invariant.
THEOREM StagesInvariance == Spec => []Stages
<1> USE PipelineAssumption DEF PipelineAssumption
<1>1. Init => Stages
  BY DEF Init, Stages, Active
<1>2. TypeInv /\ Stages /\ [Next]_vars => Stages'
  BY StagesStep
<1> QED
  BY <1>1, <1>2, TypeInvariance, PTL DEF Spec

\* The process ends with every notification it took published or counted as
\* dropped, whether or not the handlers end in time.
THEOREM ShutdownDrains == Spec => []ShutdownDrainsBuffer
<1>1. TypeInv /\ Stages /\ ExactlyOnePlace => ShutdownDrainsBuffer
  <2> SUFFICES ASSUME TypeInv, Stages, ExactlyOnePlace, main = "exited"
               PROVE  Submitted \subseteq Decided
    BY DEF ShutdownDrainsBuffer
  <2>1. InHand = {}
    BY DEF InHand, Stages, TypeInv, WorkerHolds
  <2>2. ch = <<>>
    BY PipelineAssumption DEF PipelineAssumption, Stages
  <2>3. Buffered = {}
    BY <2>2 DEF Buffered
  <2> QED
    BY <2>1, <2>3 DEF ExactlyOnePlace
<1> QED
  BY <1>1, TypeInvariance, StagesInvariance, OnePlace, PTL

\* A handler that ends in time never meets the closed channel.
LEMMA NoPanicStep ==
  ASSUME TypeInv, Stages, NoSubmitAfterClose, [Next]_vars
  PROVE  NoSubmitAfterClose'
<1> USE DEF NoSubmitAfterClose
<1>1. ASSUME NEW r \in Requests, SubmitPanics(r), HandlersFinish
      PROVE  FALSE
  BY <1>1 DEF SubmitPanics, Submitting, Stages, Active
<1>2. ASSUME NEW r \in Requests, HandlerStep(r)
      PROVE  NoSubmitAfterClose'
  BY <1>1, <1>2 DEF HandlerStep, Arrive, RejectBody, AcceptBody, Submit, Overflow,
                    Respond, TypeInv, Types
<1>3. ASSUME NEW w \in Workers, WorkerStep(w)
      PROVE  NoSubmitAfterClose'
  BY <1>3 DEF WorkerStep, Receive, Leave, AttemptFails, SendCopy, Ack, GiveUp, handlerVars
<1>4. CASE BrokerStep \/ Signal \/ CloseBuffer \/ Exit
  BY <1>4 DEF BrokerStep, Store, Discard, Lose, Declare, Signal, CloseBuffer, Exit,
              handlerVars
<1>5. CASE UNCHANGED vars
  BY <1>5 DEF vars, handlerVars
<1> QED
  BY <1>2, <1>3, <1>4, <1>5 DEF Next

\* With handlers that end within the shutdown timeout, none of them ever
\* sends to the closed channel.
THEOREM NoPanic == Spec => []NoSubmitAfterClose
<1>1. Init => NoSubmitAfterClose
  BY DEF Init, NoSubmitAfterClose
<1>2. TypeInv /\ Stages /\ NoSubmitAfterClose /\ [Next]_vars => NoSubmitAfterClose'
  BY NoPanicStep
<1> QED
  BY <1>1, <1>2, TypeInvariance, StagesInvariance, PTL DEF Spec

-----------------------------------------------------------------------------
(* The counters and the queue.                                             *)

\* With the queue in place, what the broker acknowledged is in the queue.
ConfirmedIsQueued ==
    QueueExists =>
        /\ declared
        /\ confirmed \subseteq queue
        /\ PublishedIsQueued

\* A confirm is counted only for what the broker has put in the queue.
LEMMA QueuedStep ==
  ASSUME TypeInv, ConfirmedIsQueued, [Next]_vars
  PROVE  ConfirmedIsQueued'
<1> SUFFICES ASSUME QueueExists PROVE ConfirmedIsQueued'
  BY DEF ConfirmedIsQueued
<1> USE DEF ConfirmedIsQueued, PublishedIsQueued
<1>1. ASSUME NEW r \in Requests, HandlerStep(r)
      PROVE  ConfirmedIsQueued'
  BY <1>1 DEF HandlerStep, Arrive, RejectBody, AcceptBody, Submit, Overflow,
              SubmitPanics, Respond, brokerVars
<1>2. ASSUME NEW w \in Workers, Ack(w)
      PROVE  ConfirmedIsQueued'
  <2>1. <<held[w], attempt[w]>> \in queue
    BY <1>2 DEF Ack
  <2>2. held[w] \in {c[1] : c \in queue}
    BY <2>1
  <2> QED
    BY <1>2, <2>2 DEF Ack, brokerVars
<1>3. ASSUME NEW w \in Workers,
             Receive(w) \/ Leave(w) \/ AttemptFails(w) \/ SendCopy(w) \/ GiveUp(w)
      PROVE  ConfirmedIsQueued'
  BY <1>3 DEF Receive, Leave, AttemptFails, SendCopy, GiveUp, brokerVars
<1>4. CASE BrokerStep
  BY <1>4 DEF BrokerStep, Store, Discard, Lose, Declare
<1>5. CASE Signal \/ CloseBuffer \/ Exit
  BY <1>5 DEF Signal, CloseBuffer, Exit, brokerVars
<1>6. CASE UNCHANGED vars
  BY <1>6 DEF vars, brokerVars
<1> QED
  BY <1>1, <1>2, <1>3, <1>4, <1>5, <1>6 DEF Next, WorkerStep

\* If the queue exists before the first publish, a notification counted as
\* published is in the queue.
THEOREM PublishedQueued ==
  ASSUME QueueExists
  PROVE  Spec => []PublishedIsQueued
<1>1. Init => ConfirmedIsQueued
  BY DEF Init, ConfirmedIsQueued, PublishedIsQueued
<1>2. TypeInv /\ ConfirmedIsQueued /\ [Next]_vars => ConfirmedIsQueued'
  BY QueuedStep
<1>3. ConfirmedIsQueued => PublishedIsQueued
  BY DEF ConfirmedIsQueued
<1> QED
  BY <1>1, <1>2, <1>3, TypeInvariance, PTL DEF Spec

\* A notification is not sent again after its confirm has been counted.
THEOREM NoResend == Spec => NoResendAfterAck
<1>1. TypeInv /\ ExactlyOnePlace /\ [Next]_vars
        => [\A c \in wire' \ wire : c[1] \notin published]_vars
  <2> SUFFICES ASSUME TypeInv, ExactlyOnePlace, [Next]_vars,
                      NEW c \in wire' \ wire
               PROVE  c[1] \notin published
    OBVIOUS
  <2>1. PICK w \in Workers : SendCopy(w)
    <3>1. ~ \E r \in Requests : HandlerStep(r)
      BY DEF HandlerStep, Arrive, RejectBody, AcceptBody, Submit, Overflow,
             SubmitPanics, Respond, brokerVars
    <3>2. ~ BrokerStep
      BY DEF BrokerStep, Store, Discard, Lose, Declare
    <3>3. ~ (Signal \/ CloseBuffer \/ Exit \/ UNCHANGED vars)
      BY DEF Signal, CloseBuffer, Exit, vars, brokerVars
    <3>4. ASSUME NEW w \in Workers, WorkerStep(w)
          PROVE  SendCopy(w)
      BY <3>4 DEF WorkerStep, Receive, Leave, AttemptFails, Ack, GiveUp, brokerVars
    <3> QED
      BY <3>1, <3>2, <3>3, <3>4 DEF Next
  <2>2. c = <<held[w], attempt[w]>> /\ held[w] \in Items /\ held[w] # NoItem
    BY <2>1, PipelineAssumption
       DEF SendCopy, TypeInv, WorkerHolds, PipelineAssumption
  <2>3. held[w] \in InHand
    BY <2>2 DEF InHand
  <2> QED
    BY <2>2, <2>3 DEF ExactlyOnePlace, Decided
<1> QED
  BY <1>1, TypeInvariance, OnePlace, PTL DEF Spec, NoResendAfterAck

-----------------------------------------------------------------------------
(* The consumer and the crash: the inductive invariant of the whole.       *)

ConsumerTypes ==
    /\ completed \subseteq Copies
    /\ done \subseteq completed \cap queue
    /\ dead \subseteq queue
    /\ done \cap dead = {}
    /\ dead # {} => Buries

\* NothingVanishes is inductive with what is in memory being there once: or a
\* publisher could count a notification that is still in another's hands.
DeliveryInv ==
    /\ TypeInv
    /\ Apart
    /\ published \cap dropped = {}
    /\ Stages
    /\ NoSubmitAfterClose
    /\ ConfirmedIsQueued
    /\ ConsumerTypes
    /\ NothingVanishes

-----------------------------------------------------------------------------
\* DeliveryInit has the invariant: nothing was taken, nothing lost.
LEMMA DeliveryInitially == DeliveryInit => DeliveryInv
<1> SUFFICES ASSUME DeliveryInit PROVE DeliveryInv
  OBVIOUS
<1>1. Init /\ completed = {} /\ done = {} /\ dead = {} /\ lost = {}
  BY DEF DeliveryInit
<1>2. TypeInv
  BY <1>1, TypeInitially
<1>3. Apart /\ Submitted = {} /\ Buffered = {} /\ InHand = {} /\ Decided = {}
  BY <1>1, ApartInitially
<1>4. Stages /\ NoSubmitAfterClose /\ ConfirmedIsQueued
  BY <1>1, PipelineAssumption
     DEF PipelineAssumption, Init, Stages, Active, NoSubmitAfterClose, ConfirmedIsQueued,
         PublishedIsQueued
<1>5. ConsumerTypes /\ NothingVanishes /\ published \cap dropped = {}
  BY <1>1, <1>3 DEF Init, ConsumerTypes, NothingVanishes
<1> QED
  BY <1>2, <1>3, <1>4, <1>5 DEF DeliveryInv

\* The queue only grows.
LEMMA QueueGrows ==
  ASSUME [Next]_vars
  PROVE  queue \subseteq queue'
<1>1. ASSUME NEW r \in Requests, HandlerStep(r)
      PROVE  UNCHANGED queue
  BY <1>1 DEF HandlerStep, Arrive, RejectBody, AcceptBody, Submit, Overflow,
              SubmitPanics, Respond, brokerVars
<1>2. ASSUME NEW w \in Workers, WorkerStep(w)
      PROVE  UNCHANGED queue
  BY <1>2 DEF WorkerStep, Receive, Leave, AttemptFails, SendCopy, Ack, GiveUp, brokerVars
<1>3. CASE BrokerStep
  BY <1>3 DEF BrokerStep, Store, Discard, Lose, Declare
<1>4. CASE Signal \/ CloseBuffer \/ Exit \/ UNCHANGED vars
  BY <1>4 DEF Signal, CloseBuffer, Exit, vars, brokerVars
<1> QED
  BY <1>1, <1>2, <1>3, <1>4 DEF Next

\* A step of the pipeline moves one notification at most, and none of the lost.
LEMMA PipelineStepKeeps ==
  ASSUME DeliveryInv, [Next]_vars, UNCHANGED <<consumerVars, lost, crashes>>
  PROVE  DeliveryInv'
<1>1. TypeInv' /\ Stages' /\ NoSubmitAfterClose' /\ ConfirmedIsQueued'
  BY TypeStep, StagesStep, NoPanicStep, QueuedStep DEF DeliveryInv
<1>2. Apart' /\ OneMove
  BY PlaceStep DEF DeliveryInv
<1>3. ConsumerTypes'
  BY QueueGrows DEF DeliveryInv, ConsumerTypes, consumerVars
<1>4. NothingVanishes' /\ published' \cap dropped' = {}
  <2> USE DEF DeliveryInv, NothingVanishes, Apart, Decided
  <2>1. CASE NoneMoves
    BY <2>1 DEF NoneMoves
  <2>2. CASE OneEnters
    BY <2>2 DEF OneEnters
  <2>3. CASE OneIsTaken
    BY <2>3 DEF OneIsTaken
  <2>4. CASE OneIsDecided
    BY <2>4 DEF OneIsDecided
  <2> QED
    BY <1>2, <2>1, <2>2, <2>3, <2>4 DEF OneMove
<1> QED
  BY <1>1, <1>2, <1>3, <1>4 DEF DeliveryInv

\* Consumer steps touch nothing the pipeline sees.
LEMMA ConsumerStepKeeps ==
  ASSUME DeliveryInv, NEW c \in Copies, Complete(c) \/ Finish(c) \/ Bury(c)
  PROVE  DeliveryInv'
<1>1. UNCHANGED <<vars, lost, crashes>>
  BY DEF Complete, Finish, Bury
<1>2. TypeInv' /\ Apart' /\ Stages' /\ published' \cap dropped' = {}
  <2>1. TypeInv'
    BY <1>1, TypeStep DEF DeliveryInv
  <2>2. Apart'
    BY <1>1, PlaceStep DEF DeliveryInv
  <2>3. Stages'
    BY <1>1, StagesStep DEF DeliveryInv
  <2> QED
    BY <1>1, <2>1, <2>2, <2>3 DEF DeliveryInv, vars
<1>3. NoSubmitAfterClose' /\ ConfirmedIsQueued'
  BY <1>1 DEF DeliveryInv, vars, handlerVars, brokerVars, NoSubmitAfterClose,
     ConfirmedIsQueued, PublishedIsQueued
<1>4. NothingVanishes'
  BY <1>1 DEF DeliveryInv, vars, handlerVars, workerVars, NothingVanishes, Submitted,
     Buffered, InHand, Decided
<1>5. ConsumerTypes'
  <2>1. UNCHANGED queue
    BY <1>1 DEF vars, brokerVars
  <2> QED
    BY <2>1 DEF DeliveryInv, ConsumerTypes, Complete, Finish, Bury, Pending
<1> QED
  BY <1>2, <1>3, <1>4, <1>5 DEF DeliveryInv

\* A crash takes what is in memory, and only that.
LEMMA CrashKeeps ==
  ASSUME DeliveryInv, Crash
  PROVE  DeliveryInv'
<1>1. /\ lost' = lost \cup Buffered \cup InHand
      /\ handler' = [r \in Requests |-> IF Active(r) THEN "cut" ELSE handler[r]]
      /\ ch' = <<>> /\ closed' = FALSE
      /\ worker' = [w \in Workers |-> "receive"]
      /\ held' = [w \in Workers |-> NoItem]
      /\ attempt' = [w \in Workers |-> 0]
      /\ main' = "running"
      /\ UNCHANGED <<size, accepted, wire, queue, confirmed, declared, published,
                     refused, dropped, ingestTotal, completed, done, dead>>
  BY DEF Crash, brokerVars, consumerVars
<1>2. Submitted' = Submitted /\ Buffered' = {} /\ InHand' = {} /\ Decided' = Decided
  BY <1>1 DEF Submitted, Buffered, InHand, Decided
<1>3. TypeInv'
  <2>1. Types'
    <3>1. ch' \in Seq(Items) /\ 0 \in 0..MaxAttempts
      BY <1>1, EmptySeq, PipelineAssumption DEF PipelineAssumption
    <3>2. handler' \in [Requests -> {"idle", "reading", "submitting",
                                     "202", "400", "500", "503", "cut"}]
      BY <1>1 DEF DeliveryInv, TypeInv, Types
    <3> QED
      BY <1>1, <3>1, <3>2 DEF DeliveryInv, TypeInv, Types
  <2>2. WorkerHolds' /\ HandlerCounts'
    BY <1>1 DEF DeliveryInv, TypeInv, WorkerHolds, HandlerCounts, Active
  <2> QED
    BY <2>1, <2>2 DEF TypeInv
<1>4. Apart' /\ Stages'
  BY <1>1, <1>2 DEF Apart, Stages
<1>5. NoSubmitAfterClose' /\ ConfirmedIsQueued' /\ ConsumerTypes'
  BY <1>1 DEF DeliveryInv, NoSubmitAfterClose, ConfirmedIsQueued, PublishedIsQueued,
     ConsumerTypes
<1>6. NothingVanishes' /\ published' \cap dropped' = {}
  BY <1>1, <1>2 DEF DeliveryInv, NothingVanishes, Decided
<1> QED
  BY <1>3, <1>4, <1>5, <1>6 DEF DeliveryInv

\* The inductive invariant holds of every behaviour.
THEOREM DeliveryInvariance == DeliverySpec => []DeliveryInv
<1>1. DeliveryInv /\ [DeliveryNext]_allVars => DeliveryInv'
  <2> SUFFICES ASSUME DeliveryInv, [DeliveryNext]_allVars PROVE DeliveryInv'
    OBVIOUS
  <2>1. CASE PipelineStep
    BY <2>1, PipelineStepKeeps DEF PipelineStep
  <2>2. CASE \E c \in Copies : Complete(c) \/ Finish(c) \/ Bury(c)
    BY <2>2, ConsumerStepKeeps
  <2>3. CASE Crash
    BY <2>3, CrashKeeps
  <2>4. CASE UNCHANGED allVars
    BY <2>4, PipelineStepKeeps DEF allVars
  <2> QED
    BY <2>1, <2>2, <2>3, <2>4 DEF DeliveryNext
<1> QED
  BY <1>1, DeliveryInitially, PTL DEF DeliverySpec

-----------------------------------------------------------------------------
(* What follows.                                                           *)

\* Whatever the buffer took is in memory, published, counted as dropped, or
\* was in memory at a crash, and in one of these only: NothingVanishes is an
\* invariant of the whole, with any number of crashes.
THEOREM NothingEverVanishes == DeliverySpec => []NothingVanishes
<1>1. DeliveryInv => NothingVanishes
  BY DEF DeliveryInv
<1> QED
  BY <1>1, DeliveryInvariance, PTL

\* Handlers that end in time never meet the closed channel, though the process
\* is started again after a crash: NoSubmitAfterClose is an invariant.
THEOREM NoPanicAfterRestart == DeliverySpec => []NoSubmitAfterClose
<1>1. DeliveryInv => NoSubmitAfterClose
  BY DEF DeliveryInv
<1> QED
  BY <1>1, DeliveryInvariance, PTL

\* If the queue exists before the first publish, a notification counted as
\* published by any of the processes is in the queue.
THEOREM PublishedStaysQueued ==
  ASSUME QueueExists
  PROVE  DeliverySpec => []PublishedIsQueued
<1>1. DeliveryInv => PublishedIsQueued
  BY DEF DeliveryInv, ConfirmedIsQueued
<1> QED
  BY <1>1, DeliveryInvariance, PTL

\* Where a notification the buffer took can be, if the queue exists: in memory,
\* counted as dropped, lost in a crash, waiting in the queue, dead-lettered, or
\* acked with its dispatch complete.
Accounted ==
    \A x \in Submitted :
        \/ x \in Buffered \cup InHand \cup dropped \cup lost
        \/ \E c \in Pending \cup dead \cup (done \cap completed) : c[1] = x

\* The safety half of AcceptedIsDelivered, from POST /ingest to the ack: no
\* notification is ever unaccounted for.
THEOREM AllAccounted ==
  ASSUME QueueExists
  PROVE  DeliverySpec => []Accounted
<1>1. DeliveryInv => Accounted
  <2> SUFFICES ASSUME DeliveryInv, NEW x \in Submitted,
                      x \notin Buffered \cup InHand \cup dropped \cup lost
               PROVE  \E c \in Pending \cup dead \cup (done \cap completed) : c[1] = x
    BY DEF Accounted
  <2>1. x \in published
    BY DEF DeliveryInv, NothingVanishes, Decided
  <2>2. PICK c \in queue : c[1] = x
    BY <2>1 DEF DeliveryInv, ConfirmedIsQueued, PublishedIsQueued
  <2>3. c \in Pending \cup dead \cup (done \cap completed)
    BY DEF Pending, DeliveryInv, ConsumerTypes
  <2> QED
    BY <2>2, <2>3
<1> QED
  BY <1>1, DeliveryInvariance, PTL

\* An orderly shutdown leaves nothing in memory: what the process took is
\* published or counted as dropped, but for what an earlier crash took.
THEOREM ShutdownAfterCrashes ==
  DeliverySpec => [](main = "exited" => Submitted \subseteq Decided \cup lost)
<1>1. DeliveryInv => (main = "exited" => Submitted \subseteq Decided \cup lost)
  <2> SUFFICES ASSUME DeliveryInv, main = "exited"
               PROVE  Submitted \subseteq Decided \cup lost
    OBVIOUS
  <2>1. InHand = {}
    BY DEF InHand, DeliveryInv, Stages, TypeInv, WorkerHolds
  <2>2. ch = <<>>
    BY PipelineAssumption DEF PipelineAssumption, DeliveryInv, Stages
  <2>3. Buffered = {}
    BY <2>2 DEF Buffered
  <2> QED
    BY <2>1, <2>3 DEF DeliveryInv, NothingVanishes
<1> QED
  BY <1>1, DeliveryInvariance, PTL

-----------------------------------------------------------------------------
(* What the broker is sent, and what the counters say.                     *)

\* The copies that have left for the broker and were not lost on the way.
Sent == wire \cup queue \cup confirmed

\* A goroutine sends a copy that was never sent: the sets of copies forget
\* nothing of a broker that gets each message as often as it is sent, and a
\* notification is in the queue at most once for each attempt.
EachCopyOnce ==
    \A w \in Workers : worker[w] = "attempt" => <<held[w], attempt[w]>> \notin Sent

\* EachCopyOnce with what makes it inductive: no later attempt of what a
\* goroutine holds was sent, and nothing of what is still in the buffer.
Fresh ==
    /\ \A w \in Workers, k \in 1..MaxAttempts :
          \/ worker[w] = "attempt" /\ k >= attempt[w]
          \/ worker[w] = "confirming" /\ k > attempt[w]
          => <<held[w], k>> \notin Sent
    /\ \A c \in Sent : c[1] \in Submitted \ Buffered

\* A failed attempt is followed by the next, or by a worker that holds nothing.
LEMMA RetryKeepsFresh ==
  ASSUME TypeInv, Apart, Fresh, NEW w \in Workers, RetryOrDrop(w),
         worker[w] \in {"attempt", "confirming"},
         UNCHANGED <<accepted, ch, wire, queue, confirmed>>
  PROVE  Fresh'
<1>1. /\ attempt[w] \in 1..MaxAttempts /\ MaxAttempts \in Nat
      /\ attempt \in [Workers -> 0..MaxAttempts]
      /\ worker \in [Workers -> {"receive", "attempt", "confirming", "exited"}]
      /\ held \in [Workers -> Items \cup {NoItem}]
  BY PipelineAssumption DEF PipelineAssumption, TypeInv, Types, WorkerHolds
<1>2. Sent' = Sent /\ Submitted' = Submitted /\ Buffered' = Buffered
  BY DEF Sent, Submitted, Buffered
<1>3. ASSUME NEW v \in Workers, v # w
      PROVE  worker'[v] = worker[v] /\ attempt'[v] = attempt[v] /\ held'[v] = held[v]
  BY <1>1, <1>3 DEF RetryOrDrop, Release
<1>4. \/ worker'[w] = "receive"
      \/ worker'[w] = "attempt" /\ attempt'[w] = attempt[w] + 1 /\ held'[w] = held[w]
  BY <1>1 DEF RetryOrDrop, Release
<1>5. ASSUME NEW v \in Workers, NEW k \in 1..MaxAttempts,
             \/ worker'[v] = "attempt" /\ k >= attempt'[v]
             \/ worker'[v] = "confirming" /\ k > attempt'[v]
      PROVE  <<held'[v], k>> \notin Sent
  <2>1. CASE v # w
    BY <1>3, <1>5, <2>1 DEF Fresh
  <2>2. CASE v = w
    <3>1. k > attempt[w] /\ k >= attempt[w] /\ held'[v] = held[w]
      BY <1>1, <1>4, <1>5, <2>2
    <3> QED
      BY <2>2, <3>1 DEF Fresh
  <2> QED
    BY <2>1, <2>2
<1> QED
  BY <1>2, <1>5 DEF Fresh

\* The first attempt of what leaves the buffer, and each later one, is new to
\* the broker.
LEMMA FreshStep ==
  ASSUME TypeInv, Apart, Fresh, [Next]_vars
  PROVE  Fresh'
<1> USE PipelineAssumption DEF PipelineAssumption
<1>1. /\ MaxAttempts \in Nat \ {0}
      /\ attempt \in [Workers -> 0..MaxAttempts]
      /\ worker \in [Workers -> {"receive", "attempt", "confirming", "exited"}]
      /\ held \in [Workers -> Items \cup {NoItem}]
  BY DEF TypeInv, Types
<1>2. ASSUME UNCHANGED <<worker, held, attempt>>, Sent' \subseteq Sent,
             \A c \in Sent : c[1] \notin Submitted' \ Submitted,
             Submitted \subseteq Submitted',
             Buffered' \subseteq Buffered \cup (Submitted' \ Submitted)
      PROVE  Fresh'
  <2>1. ASSUME NEW v \in Workers, NEW k \in 1..MaxAttempts,
               \/ worker'[v] = "attempt" /\ k >= attempt'[v]
               \/ worker'[v] = "confirming" /\ k > attempt'[v]
        PROVE  <<held'[v], k>> \notin Sent'
    BY <1>2, <2>1 DEF Fresh
  <2>2. ASSUME NEW c \in Sent'
        PROVE  c[1] \in Submitted' \ Buffered'
    BY <1>2 DEF Fresh
  <2> QED
    BY <2>1, <2>2 DEF Fresh
<1>3. CASE UNCHANGED <<accepted, ch, worker, held, attempt, wire, queue, confirmed>>
  BY <1>2, <1>3 DEF Sent, Submitted, Buffered
<1>4. ASSUME NEW r \in Requests, Submit(r)
      PROVE  Fresh'
  <2>1. OneEnters
    BY <1>4, SubmitMoves
  <2>2. UNCHANGED <<worker, held, attempt>> /\ Sent' = Sent
    BY <1>4 DEF Submit, workerVars, brokerVars, Sent
  <2>3. PICK x \in Items \ Submitted :
            Submitted' = Submitted \cup {x} /\ Buffered' = Buffered \cup {x}
    BY <2>1 DEF OneEnters
  <2>4. \A c \in Sent : c[1] \in Submitted
    BY DEF Fresh
  <2> QED
    BY <1>2, <2>2, <2>3, <2>4
<1>5. ASSUME NEW w \in Workers, Receive(w)
      PROVE  Fresh'
  <2>1. /\ ch \in Seq(Items) /\ ch # <<>>
        /\ ch' = Tail(ch)
        /\ held' = [held EXCEPT ![w] = Head(ch)]
        /\ attempt' = [attempt EXCEPT ![w] = 1]
        /\ worker' = [worker EXCEPT ![w] = "attempt"]
        /\ UNCHANGED <<accepted, wire, queue, confirmed>>
    BY <1>5 DEF Receive, handlerVars, brokerVars, TypeInv, Types
  <2>2. Buffered = {Head(ch)} \cup Buffered'
    <3>1. ch \in Seq(Items) /\ ch # <<>>
      BY <2>1
    <3>2. {ch[k] : k \in 1..Len(ch)}
             = {Head(ch)} \cup {Tail(ch)[k] : k \in 1..Len(Tail(ch))}
      BY <3>1, TailRange
    <3> QED
      BY <2>1, <3>2 DEF Buffered
  <2>3. Sent' = Sent /\ Submitted' = Submitted
    BY <2>1 DEF Sent, Submitted
  <2>4. ASSUME NEW v \in Workers, NEW k \in 1..MaxAttempts,
               \/ worker'[v] = "attempt" /\ k >= attempt'[v]
               \/ worker'[v] = "confirming" /\ k > attempt'[v]
        PROVE  <<held'[v], k>> \notin Sent
    <3>1. CASE v = w
      <4>1. held'[v] = Head(ch) /\ Head(ch) \in Buffered
        BY <1>1, <2>1, <2>2, <3>1
      <4>2. \A c \in Sent : c[1] # Head(ch)
        BY <4>1 DEF Fresh
      <4> QED
        BY <4>1, <4>2
    <3>2. CASE v # w
      <4>1. worker'[v] = worker[v] /\ attempt'[v] = attempt[v] /\ held'[v] = held[v]
        BY <1>1, <2>1, <3>2
      <4> QED
        BY <2>4, <4>1 DEF Fresh
    <3> QED
      BY <3>1, <3>2
  <2>5. \A c \in Sent : c[1] \in Submitted \ Buffered'
    BY <2>2 DEF Fresh
  <2> QED
    BY <2>3, <2>4, <2>5 DEF Fresh
<1>6. ASSUME NEW w \in Workers, SendCopy(w)
      PROVE  Fresh'
  <2> DEFINE c == <<held[w], attempt[w]>>
  <2>1. /\ worker[w] = "attempt" /\ held[w] \in Items /\ held[w] # NoItem
        /\ attempt[w] \in 1..MaxAttempts
        /\ worker' = [worker EXCEPT ![w] = "confirming"]
        /\ Sent' = Sent \cup {c}
        /\ UNCHANGED <<accepted, ch, held, attempt>>
    BY <1>6 DEF SendCopy, handlerVars, TypeInv, WorkerHolds, Sent
  <2>2. Submitted' = Submitted /\ Buffered' = Buffered
    BY <2>1 DEF Submitted, Buffered
  <2>3. held[w] \in Submitted \ Buffered
    BY <2>1 DEF Apart, InHand
  <2>4. ASSUME NEW v \in Workers, NEW k \in 1..MaxAttempts,
               \/ worker'[v] = "attempt" /\ k >= attempt[v]
               \/ worker'[v] = "confirming" /\ k > attempt[v]
        PROVE  <<held[v], k>> \notin Sent \cup {c}
    <3>1. CASE v = w
      <4>1. k > attempt[w] /\ k >= attempt[w]
        BY <1>1, <2>1, <2>4, <3>1
      <4> QED
        BY <2>1, <3>1, <4>1 DEF Fresh
    <3>2. CASE v # w
      <4>1. worker'[v] = worker[v]
        BY <1>1, <2>1, <3>2
      <4>2. <<held[v], k>> \notin Sent
        BY <2>4, <4>1 DEF Fresh
      <4>3. held[v] # held[w]
        BY <2>1, <3>2 DEF Apart
      <4> QED
        BY <4>2, <4>3
    <3> QED
      BY <3>1, <3>2
  <2>5. \A d \in Sent \cup {c} : d[1] \in Submitted \ Buffered
    BY <2>3 DEF Fresh
  <2> QED
    BY <2>1, <2>2, <2>4, <2>5 DEF Fresh
<1>7. ASSUME NEW w \in Workers, AttemptFails(w) \/ GiveUp(w)
      PROVE  Fresh'
  BY <1>7, RetryKeepsFresh DEF AttemptFails, GiveUp, handlerVars, brokerVars
<1>8. ASSUME NEW w \in Workers, Ack(w) \/ Leave(w)
      PROVE  Fresh'
  <2>1. /\ worker'[w] \in {"receive", "exited"}
        /\ \A v \in Workers \ {w} : /\ worker'[v] = worker[v]
                                    /\ attempt'[v] = attempt[v] /\ held'[v] = held[v]
    BY <1>1, <1>8 DEF Ack, Leave, Release
  <2>2. Sent' = Sent /\ Submitted' = Submitted /\ Buffered' = Buffered
    BY <1>8 DEF Ack, Leave, handlerVars, brokerVars, Sent, Submitted, Buffered
  <2>3. ASSUME NEW v \in Workers, NEW k \in 1..MaxAttempts,
               \/ worker'[v] = "attempt" /\ k >= attempt'[v]
               \/ worker'[v] = "confirming" /\ k > attempt'[v]
        PROVE  <<held'[v], k>> \notin Sent
    BY <2>1, <2>3 DEF Fresh
  <2> QED
    BY <2>2, <2>3 DEF Fresh
<1>9. CASE BrokerStep
  <2>1. Sent' \subseteq Sent
    BY <1>9 DEF BrokerStep, Store, Discard, Lose, Declare, Sent
  <2>2. UNCHANGED <<accepted, ch, worker, held, attempt>>
    BY <1>9 DEF BrokerStep, Store, Discard, Lose, Declare, handlerVars, workerVars
  <2> QED
    BY <1>2, <2>1, <2>2 DEF Submitted, Buffered
<1>10. ASSUME NEW r \in Requests,
              \/ Arrive(r) \/ RejectBody(r) \/ AcceptBody(r)
              \/ Overflow(r) \/ SubmitPanics(r) \/ Respond(r)
       PROVE  Fresh'
  BY <1>3, <1>10 DEF Arrive, RejectBody, AcceptBody, Overflow, SubmitPanics,
                     Respond, workerVars, brokerVars
<1>11. CASE Signal \/ CloseBuffer \/ Exit
  BY <1>3, <1>11 DEF Signal, CloseBuffer, Exit, handlerVars, workerVars, brokerVars
<1>12. CASE UNCHANGED vars
  BY <1>3, <1>12 DEF vars, handlerVars, workerVars, brokerVars
<1> QED
  BY <1>4, <1>5, <1>6, <1>7, <1>8, <1>9, <1>10, <1>11, <1>12
     DEF Next, HandlerStep, WorkerStep

\* Over any number of crashes, no goroutine of any process sends a copy that
\* was sent before: what a crash takes out of a goroutine's hands is not sent
\* again.
THEOREM CopiesAreNew == DeliverySpec => []EachCopyOnce
<1>1. DeliveryInit => Fresh
  BY PipelineAssumption DEF PipelineAssumption, DeliveryInit, Init, Fresh, Sent
<1>2. DeliveryInv /\ Fresh /\ [DeliveryNext]_allVars => Fresh'
  <2> SUFFICES ASSUME DeliveryInv, Fresh, [DeliveryNext]_allVars PROVE Fresh'
    OBVIOUS
  <2>1. TypeInv /\ Apart
    BY DEF DeliveryInv
  <2>2. CASE [Next]_vars
    BY <2>1, <2>2, FreshStep
  <2>3. CASE Crash
    <3>1. worker' = [w \in Workers |-> "receive"] /\ Buffered' = {}
      BY <2>3 DEF Crash, Buffered
    <3>2. Sent' = Sent /\ Submitted' = Submitted
      BY <2>3 DEF Crash, brokerVars, Sent, Submitted
    <3> QED
      BY <3>1, <3>2 DEF Fresh
  <2> QED
    BY <2>2, <2>3 DEF DeliveryNext, PipelineStep, Complete, Finish, Bury, allVars
<1>3. DeliveryInv /\ Fresh => EachCopyOnce
  <2> SUFFICES ASSUME DeliveryInv, Fresh, NEW w \in Workers, worker[w] = "attempt"
               PROVE  <<held[w], attempt[w]>> \notin Sent
    BY DEF EachCopyOnce
  <2>1. attempt[w] \in 1..MaxAttempts /\ attempt[w] >= attempt[w]
    BY PipelineAssumption DEF PipelineAssumption, DeliveryInv, TypeInv, WorkerHolds
  <2> QED
    BY <2>1 DEF Fresh
<1> QED
  BY <1>1, <1>2, <1>3, DeliveryInvariance, PTL DEF DeliverySpec

\* What the requests answered 202 have submitted.
Counted == {x \in Submitted : handler[x[1]] = "202"}

\* IngestTotal counts exactly what requests answered 202 have submitted, which
\* is all of their bodies; a request answered 503 counts one refusal, however
\* much of its body was left, and it is not among what the buffer took.
CountsAreExact ==
    /\ IsFiniteSet(Counted) /\ ingestTotal = Cardinality(Counted)
    /\ refused = {<<r, accepted[r] + 1>> : r \in {q \in Requests : handler[q] = "503"}}
    /\ \A r \in Requests : handler[r] = "202" => accepted[r] = size[r]

\* Only Respond and Overflow count; what they count does not change later.
LEMMA CountStep ==
  ASSUME TypeInv, CountsAreExact, [Next]_vars
  PROVE  CountsAreExact'
<1> USE PipelineAssumption DEF PipelineAssumption
<1>1. /\ MaxBatch \in Nat
      /\ handler \in [Requests -> {"idle", "reading", "submitting",
                                   "202", "400", "500", "503", "cut"}]
      /\ accepted \in [Requests -> 0..MaxBatch]
      /\ size \in [Requests -> 0..MaxBatch]
  BY DEF TypeInv, Types
<1>2. CASE UNCHANGED <<handler, accepted, size, refused, ingestTotal>>
  <2>1. Counted' = Counted
    BY <1>2 DEF Counted, Submitted
  <2> QED
    BY <1>2, <2>1 DEF CountsAreExact
<1>3. ASSUME NEW r \in Requests,
             handler[r] \notin {"202", "503"}, handler'[r] \notin {"202", "503"},
             \A q \in Requests \ {r} :
                /\ handler'[q] = handler[q] /\ accepted'[q] = accepted[q]
                /\ size'[q] = size[q],
             UNCHANGED <<refused, ingestTotal>>
      PROVE  CountsAreExact'
  <2>1. Counted' = Counted
    BY <1>3 DEF Counted, Submitted, Items
  <2>2. {<<q, accepted'[q] + 1>> : q \in {p \in Requests : handler'[p] = "503"}}
          = {<<q, accepted[q] + 1>> : q \in {p \in Requests : handler[p] = "503"}}
    BY <1>3
  <2>3. \A q \in Requests : handler'[q] = "202" => accepted'[q] = size'[q]
    BY <1>3 DEF CountsAreExact
  <2> QED
    BY <1>3, <2>1, <2>2, <2>3 DEF CountsAreExact
<1>4. ASSUME NEW r \in Requests,
             Arrive(r) \/ RejectBody(r) \/ AcceptBody(r) \/ Submit(r) \/ SubmitPanics(r)
      PROVE  CountsAreExact'
  <2>1. handler[r] \notin {"202", "503"} /\ handler'[r] \notin {"202", "503"}
    BY <1>1, <1>4 DEF Arrive, RejectBody, AcceptBody, Submit, SubmitPanics, Submitting
  <2>2. \A q \in Requests \ {r} :
           /\ handler'[q] = handler[q] /\ accepted'[q] = accepted[q]
           /\ size'[q] = size[q]
    BY <1>1, <1>4 DEF Arrive, RejectBody, AcceptBody, Submit, SubmitPanics
  <2>3. UNCHANGED <<refused, ingestTotal>>
    BY <1>4 DEF Arrive, RejectBody, AcceptBody, Submit, SubmitPanics
  <2> QED
    BY <1>3, <2>1, <2>2, <2>3
<1>5. ASSUME NEW r \in Requests, Overflow(r)
      PROVE  CountsAreExact'
  <2>1. /\ handler[r] = "submitting"
        /\ handler' = [handler EXCEPT ![r] = "503"]
        /\ refused' = refused \cup {<<r, accepted[r] + 1>>}
        /\ UNCHANGED <<accepted, size, ingestTotal>>
    BY <1>5 DEF Overflow, Submitting
  <2>2. Counted' = Counted
    BY <1>1, <2>1 DEF Counted, Submitted, Items
  <2>3. {q \in Requests : handler'[q] = "503"} = {q \in Requests : handler[q] = "503"} \cup {r}
    BY <1>1, <2>1
  <2>4. refused' = {<<q, accepted[q] + 1>> : q \in {p \in Requests : handler'[p] = "503"}}
    BY <2>1, <2>3 DEF CountsAreExact
  <2>5. \A q \in Requests : handler'[q] = "202" => accepted[q] = size[q]
    BY <1>1, <2>1 DEF CountsAreExact
  <2> QED
    BY <2>1, <2>2, <2>4, <2>5 DEF CountsAreExact
<1>6. ASSUME NEW r \in Requests, Respond(r)
      PROVE  CountsAreExact'
  <2> DEFINE n == accepted[r]
             new == {r} \X (1..n)
  <2>1. /\ handler[r] = "submitting" /\ n = size[r] /\ n \in Nat /\ n <= MaxBatch
        /\ handler' = [handler EXCEPT ![r] = "202"]
        /\ ingestTotal' = ingestTotal + n
        /\ UNCHANGED <<accepted, size, refused>>
    BY <1>1, <1>6 DEF Respond
  <2>2. IsFiniteSet(new) /\ Cardinality(new) = n
    <3>1. IsFiniteSet({r}) /\ Cardinality({r}) = 1
      BY FS_Singleton
    <3> DEFINE I == 1..n
    <3>2. IsFiniteSet(I) /\ Cardinality(I) = n
      <4>1. n \in Nat
        BY <2>1
      <4> HIDE DEF n
      <4>2. 1 \in Int /\ n \in Int /\ (1 > n <=> n = 0) /\ n - 1 + 1 = n
        BY <4>1
      <4>3. IsFiniteSet(1..n) /\ Cardinality(1..n) = IF 1 > n THEN 0 ELSE n - 1 + 1
        BY <4>2, FS_Interval
      <4> QED
        BY <4>2, <4>3
    <3> HIDE DEF n, I
    <3>3. /\ IsFiniteSet({r} \X I)
          /\ Cardinality({r} \X I) = Cardinality({r}) * Cardinality(I)
      BY <3>1, <3>2, FS_Product
    <3> QED
      BY <2>1, <3>1, <3>2, <3>3 DEF I
  <2>3. Counted' = Counted \cup new
    <3>1. \A x \in Items : x[1] = r /\ x[2] <= n <=> x \in new
      BY <2>1 DEF Items
    <3>2. new \subseteq Items
      BY <2>1 DEF Items
    <3> HIDE DEF n, new
    <3>3. Submitted' = Submitted
      BY <2>1 DEF Submitted
    <3>4. \A x \in Items : handler'[x[1]] = "202" <=> handler[x[1]] = "202" \/ x[1] = r
      BY <1>1, <2>1 DEF Items
    <3>5. \A x \in Items : x[1] = r => (x \in Submitted <=> x \in new)
      BY <3>1 DEF Submitted, n
    <3>6. \A x \in new : x[1] = r
      BY <3>1, <3>2
    <3> QED
      BY <3>2, <3>3, <3>4, <3>5, <3>6 DEF Counted, Submitted
  <2>4. Counted \cap new = {}
    BY <2>1 DEF Counted
  <2>5. IsFiniteSet(Counted') /\ ingestTotal' = Cardinality(Counted')
    <3> HIDE DEF n, new
    <3>1. IsFiniteSet(Counted) /\ ingestTotal = Cardinality(Counted)
      BY DEF CountsAreExact
    <3>2. /\ IsFiniteSet(Counted \cup new)
          /\ Cardinality(Counted \cup new)
               = Cardinality(Counted) + Cardinality(new) - Cardinality(Counted \cap new)
      BY <2>2, <3>1, FS_Union
    <3>3. Cardinality(Counted \cap new) = 0 /\ Cardinality(Counted) \in Nat
      BY <2>4, <3>1, FS_EmptySet, FS_CardinalityType
    <3> QED
      BY <2>1, <2>2, <2>3, <3>1, <3>2, <3>3
  <2>6. {q \in Requests : handler'[q] = "503"} = {q \in Requests : handler[q] = "503"}
    BY <1>1, <2>1
  <2>7. \A q \in Requests : handler'[q] = "202" => accepted[q] = size[q]
    BY <1>1, <2>1 DEF CountsAreExact
  <2> QED
    BY <2>1, <2>5, <2>6, <2>7 DEF CountsAreExact
<1>7. ASSUME NEW w \in Workers, WorkerStep(w)
      PROVE  CountsAreExact'
  BY <1>2, <1>7 DEF WorkerStep, Receive, Leave, AttemptFails, SendCopy, Ack, GiveUp, handlerVars
<1>8. CASE BrokerStep
  BY <1>2, <1>8 DEF BrokerStep, Store, Discard, Lose, Declare, handlerVars
<1>9. CASE Signal \/ CloseBuffer \/ Exit \/ UNCHANGED vars
  BY <1>2, <1>9 DEF Signal, CloseBuffer, Exit, vars, handlerVars
<1> QED
  BY <1>4, <1>5, <1>6, <1>7, <1>8, <1>9 DEF Next, HandlerStep

\* The counters of all processes say of the requests what CountsAreExact says,
\* though crashes cut requests off in the middle.
THEOREM CountersAreExact == DeliverySpec => []CountsAreExact
<1>1. DeliveryInit => CountsAreExact
  <2> SUFFICES ASSUME DeliveryInit PROVE CountsAreExact
    OBVIOUS
  <2>1. Counted = {} /\ refused = {} /\ ingestTotal = 0
    BY ApartInitially DEF DeliveryInit, Init, Counted
  <2>2. \A r \in Requests : handler[r] = "idle"
    BY DEF DeliveryInit, Init
  <2>3. IsFiniteSet(Counted) /\ ingestTotal = Cardinality(Counted)
    BY <2>1, FS_EmptySet
  <2> QED
    BY <2>1, <2>2, <2>3 DEF CountsAreExact
<1>2. DeliveryInv /\ CountsAreExact /\ [DeliveryNext]_allVars => CountsAreExact'
  <2> SUFFICES ASSUME DeliveryInv, CountsAreExact, [DeliveryNext]_allVars
               PROVE  CountsAreExact'
    OBVIOUS
  <2>1. CASE [Next]_vars
    BY <2>1, CountStep DEF DeliveryInv
  <2>2. CASE Crash
    <3>1. /\ UNCHANGED <<accepted, size, refused, ingestTotal>>
          /\ \A r \in Requests : \A a \in {"202", "503"} : handler'[r] = a <=> handler[r] = a
      BY <2>2 DEF Crash, Active
    <3>2. Counted' = Counted
      BY <3>1 DEF Counted, Submitted, Items
    <3>3. {q \in Requests : handler'[q] = "503"} = {q \in Requests : handler[q] = "503"}
      BY <3>1
    <3> QED
      BY <3>1, <3>2, <3>3 DEF CountsAreExact
  <2> QED
    BY <2>1, <2>2 DEF DeliveryNext, PipelineStep, Complete, Finish, Bury, allVars
<1> QED
  BY <1>1, <1>2, DeliveryInvariance, PTL DEF DeliverySpec

\* The five counters and what they leave out: IngestTotal and what was
\* submitted by requests that were not answered 202 add up to EventsPublished,
\* EventsDropped for a publish_error, what is in memory, and what crashes took;
\* EventsDropped for a full buffer is the number of requests answered 503.
CountersBalance ==
    /\ ingestTotal + Cardinality(Submitted \ Counted)
         = Cardinality(published) + Cardinality(dropped)
             + Cardinality(Buffered \cup InHand) + Cardinality(lost)
    /\ Cardinality(refused) = Cardinality({r \in Requests : handler[r] = "503"})

\* Two finite sets with no member in common have as many members together as
\* each by itself.
LEMMA DisjointSum ==
  ASSUME NEW S, NEW T, IsFiniteSet(S), IsFiniteSet(T), S \cap T = {}
  PROVE  /\ IsFiniteSet(S \cup T)
         /\ Cardinality(S \cup T) = Cardinality(S) + Cardinality(T)
         /\ Cardinality(S) \in Nat /\ Cardinality(T) \in Nat
<1>1. Cardinality(S) \in Nat /\ Cardinality(T) \in Nat
  BY FS_CardinalityType
<1>2. /\ IsFiniteSet(S \cup T)
      /\ Cardinality(S \cup T) = Cardinality(S) + Cardinality(T) - Cardinality({})
  BY FS_Union
<1>3. Cardinality({}) = 0
  BY FS_EmptySet
<1> QED
  BY <1>1, <1>2, <1>3

\* An operator reads off a dashboard how many notifications are where: of
\* finitely many requests, over any number of crashes, none is counted twice
\* or missing from the balance.
THEOREM BalanceHolds ==
  ASSUME IsFiniteSet(Requests)
  PROVE  DeliverySpec => []CountersBalance
<1>1. DeliveryInv /\ CountsAreExact => CountersBalance
  <2> SUFFICES ASSUME DeliveryInv, CountsAreExact PROVE CountersBalance
    OBVIOUS
  <2>1. IsFiniteSet(Submitted)
    <3>1. MaxBatch \in Nat
      BY PipelineAssumption DEF PipelineAssumption
    <3>2. IsFiniteSet(1..MaxBatch)
      BY <3>1, FS_Interval
    <3>3. IsFiniteSet(Items)
      BY <3>2, FS_Product DEF Items
    <3> QED
      BY <3>3, FS_Subset DEF Submitted
  <2>2. /\ Submitted = (Buffered \cup InHand) \cup Decided \cup lost
        /\ (Buffered \cup InHand) \cap (Decided \cup lost) = {}
        /\ Decided \cap lost = {}
        /\ Decided = published \cup dropped /\ published \cap dropped = {}
    BY DEF DeliveryInv, NothingVanishes, Decided
  <2> DEFINE memory == Buffered \cup InHand
             rest == Submitted \ Counted
  <2>3. /\ IsFiniteSet(memory) /\ IsFiniteSet(published) /\ IsFiniteSet(dropped)
        /\ IsFiniteSet(lost) /\ IsFiniteSet(Counted) /\ IsFiniteSet(rest)
    <3>1. /\ memory \subseteq Submitted /\ published \subseteq Submitted
          /\ dropped \subseteq Submitted /\ lost \subseteq Submitted
          /\ Counted \subseteq Submitted /\ rest \subseteq Submitted
      BY <2>2 DEF Counted
    <3> HIDE DEF memory, rest
    <3> QED
      BY <2>1, <3>1, FS_Subset
  <2>4. /\ Counted \cup rest = Submitted /\ Counted \cap rest = {}
        /\ memory \cap (Decided \cup lost) = {}
        /\ memory \cup (Decided \cup lost) = Submitted
    BY <2>2 DEF Counted
  <2> HIDE DEF memory, rest
  <2>5. /\ Cardinality(Submitted) = Cardinality(Counted) + Cardinality(rest)
        /\ Cardinality(Counted) \in Nat /\ Cardinality(rest) \in Nat
    BY <2>3, <2>4, DisjointSum
  <2>6. /\ IsFiniteSet(Decided)
        /\ Cardinality(Decided) = Cardinality(published) + Cardinality(dropped)
        /\ Cardinality(published) \in Nat /\ Cardinality(dropped) \in Nat
    BY <2>2, <2>3, DisjointSum
  <2>7. /\ IsFiniteSet(Decided \cup lost)
        /\ Cardinality(Decided \cup lost) = Cardinality(Decided) + Cardinality(lost)
        /\ Cardinality(lost) \in Nat
    BY <2>2, <2>3, <2>6, DisjointSum
  <2>8. /\ Cardinality(Submitted) = Cardinality(memory) + Cardinality(Decided \cup lost)
        /\ Cardinality(memory) \in Nat
    BY <2>3, <2>4, <2>7, DisjointSum
  <2>9. ingestTotal + Cardinality(rest)
          = Cardinality(published) + Cardinality(dropped)
              + Cardinality(memory) + Cardinality(lost)
    BY <2>5, <2>6, <2>7, <2>8 DEF CountsAreExact
  <2>10. Cardinality(refused) = Cardinality({r \in Requests : handler[r] = "503"})
    <3> DEFINE Q == {r \in Requests : handler[r] = "503"}
               f == [r \in Q |-> <<r, accepted[r] + 1>>]
    <3>1. refused = {<<r, accepted[r] + 1>> : r \in Q}
      BY DEF CountsAreExact
    <3>2. IsFiniteSet(Q)
      BY FS_Subset
    <3> HIDE DEF Q
    <3>3. f \in [Q -> refused]
      BY <3>1
    <3>4. \A q, r \in Q : f[q] = f[r] => q = r
      OBVIOUS
    <3>5. \A t \in refused : \E r \in Q : f[r] = t
      BY <3>1
    <3> HIDE DEF f
    <3>6. f \in Bijection(Q, refused)
      BY <3>3, <3>4, <3>5 DEF Bijection, Injection, Surjection, IsInjective
    <3>7. ExistsBijection(Q, refused)
      BY <3>6 DEF ExistsBijection
    <3> QED
      BY <3>2, <3>7, FS_Bijection DEF Q
  <2> QED
    BY <2>9, <2>10 DEF CountersBalance, memory, rest
<1> QED
  BY <1>1, DeliveryInvariance, CountersAreExact, PTL
=============================================================================
