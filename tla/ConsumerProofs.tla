--------------------------- MODULE ConsumerProofs ---------------------------
(***************************************************************************)
(* Proofs about module Consumer, for any queue, verdicts, prefetch, batch  *)
(* size, redelivery limit and number of losses; and that it implements     *)
(* module WorkQueue.                                                       *)
(***************************************************************************)
EXTENDS Consumer, TLAPS

-----------------------------------------------------------------------------
(* The parts of the inductive invariant.                                   *)

\* What runSession holds at each point of its loop.
Control ==
    /\ pc \in {"down", "top", "stopped"} => batch = <<>>
    /\ pc \in {"down", "top", "collect", "stopped"} => poison = {} /\ good = {}
    /\ pc \in {"dispatch", "settle"} => poison = {}
    /\ pc \in {"down", "stopped"} => ~open
    /\ poison \cap good = {}

\* A message is in one place at the broker, and nothing is handed out on a
\* channel that is gone.
Conserved ==
    /\ Msgs = ready \cup unacked \cup acked \cup dlq
    /\ ready \cap (unacked \cup acked \cup dlq) = {}
    /\ unacked \cap (acked \cup dlq) = {}
    /\ acked \cap dlq = {}
    /\ ~open => unacked = {}

\* Only what decodeBatch rejects is dead-lettered, and only what Dispatch has
\* completed is acked.
Justified ==
    /\ \A i \in poison : batch[i].msg \in Buryable
    /\ pc = "settle" /\ outcome # "retry" =>
          \A i \in good : (\A j \in good : i <= j) => batch[i].msg \in completed
    /\ AckedIsCompleted
    /\ OnlyBuryableAreDead

\* What the consumer holds is still in the queue, on a channel that is gone
\* too: it may be dispatched, and Dispatch completes it.
StillPending ==
    Msg(inbox, 1..Len(inbox)) \cup Msg(batch, Unsettled) \subseteq ready \cup unacked

Placed == Conserved /\ HeldDeliveriesAreUnacked /\ StillPending /\ Justified

-----------------------------------------------------------------------------
(* Type correctness.                                                       *)

TypeInv == TypeOK /\ Control

\* The deliveries of a batch are of messages.
LEMMA BatchMsg ==
  ASSUME TypeOK, NEW i \in 1..Len(batch)
  PROVE  batch[i].msg \in Msgs
<1>1. batch[i] \in Deliveries
  BY DEF TypeOK
<1> QED
  BY <1>1 DEF Deliveries

\* What a channel that goes leaves.
LEMMA CloseChannelTypes ==
  ASSUME TypeOK, CloseChannel
  PROVE  /\ ready' \subseteq Msgs /\ flagged' \subseteq Msgs /\ unacked' \subseteq Msgs
         /\ acked' \subseteq Msgs /\ dlq' \subseteq Msgs
         /\ open' \in BOOLEAN /\ ~open'
BY DEF TypeOK, CloseChannel

\* The type invariant, with what the loop holds at each of its points.
THEOREM TypeInvariance == Spec => []TypeInv
<1>0. AttemptCap \in Nat /\ MaxLosses \in Nat
  BY ConsumerAssumption DEF ConsumerAssumption
<1>1. Init => TypeInv
  <2> SUFFICES ASSUME Init PROVE TypeInv
    OBVIOUS
  <2>1. attempts \in [Msgs -> 0..AttemptCap] /\ losses \in 0..MaxLosses
    BY <1>0 DEF Init
  <2>2. inbox \in Seq(Deliveries) /\ batch \in Seq(Deliveries)
    BY DEF Init
  <2>3. open \in BOOLEAN /\ cancelled \in BOOLEAN
    BY Zenon DEF Init
  <2>4. TypeOK
    BY <2>1, <2>2, <2>3 DEF Init, TypeOK
  <2> QED
    BY <2>4 DEF Init, TypeInv, Control
<1>2. TypeInv /\ [Next]_vars => TypeInv'
  <2> SUFFICES ASSUME TypeInv, [Next]_vars
               PROVE  TypeInv'
    OBVIOUS
  <2> USE <1>0 DEF TypeInv, TypeOK, Control
  <2>1. CASE OpenSession
    BY <2>1 DEF OpenSession, brokerVars, batchVars, historyVars
  <2>2. CASE Stop \/ BeginCollect \/ BeginDispatch \/ Cancel
    <3>1. UNCHANGED <<brokerVars, channelVars, batchVars, historyVars, losses>>
      BY <2>2 DEF Stop, BeginCollect, BeginDispatch, Cancel
    <3>2. cancelled' \in BOOLEAN
      BY <2>2 DEF Stop, BeginCollect, BeginDispatch, Cancel
    <3>3. \/ pc = "down" /\ pc' = "stopped"
          \/ pc = "top" /\ pc' = "collect"
          \/ pc = "poison" /\ poison = {} /\ pc' = "dispatch"
          \/ UNCHANGED pc
      BY <2>2 DEF Stop, BeginCollect, BeginDispatch, Cancel
    <3> QED
      BY <3>1, <3>2, <3>3 DEF brokerVars, channelVars, batchVars, historyVars
  <2>3. CASE Collect
    <3>1. /\ inbox' \in Seq(Deliveries)
          /\ batch' \in Seq(Deliveries)
      BY <2>3 DEF Collect
    <3> QED
      BY <2>3, <3>1 DEF Collect, brokerVars, historyVars
  <2>4. CASE Flush
    BY <2>4 DEF Flush, brokerVars, channelVars, historyVars
  <2>5. CASE EndSession
    <3>1. batch' \in Seq(Deliveries) /\ inbox' \in Seq(Deliveries)
      BY <2>5 DEF EndSession
    <3> QED
      BY <2>5, <3>1 DEF EndSession, CloseChannel, historyVars
  <2>6. CASE NackPoison
    <3>1. PICK i \in poison : SettleReject(batch[i].msg) /\ poison' = poison \ {i}
      BY <2>6 DEF NackPoison
    <3>2. batch[i].msg \in Msgs
      BY <3>1, BatchMsg
    <3>3. /\ ready' \subseteq Msgs /\ flagged' \subseteq Msgs /\ unacked' \subseteq Msgs
          /\ acked' \subseteq Msgs /\ dlq' \subseteq Msgs
      BY <3>1, <3>2 DEF SettleReject, brokerVars
    <3> QED
      BY <2>6, <3>1, <3>3 DEF NackPoison, channelVars, historyVars
  <2>7. CASE Dispatch
    <3>1. PICK i \in good :
            LET m == batch[i].msg IN
             /\ outcome' \in IF cancelled THEN {"retry"} ELSE Verdicts[m]
             /\ completed' = IF outcome' = "retry" THEN completed
                             ELSE completed \cup {m}
             /\ attempts' = IF attempts[m] < AttemptCap
                            THEN [attempts EXCEPT ![m] = @ + 1]
                            ELSE attempts
      BY <2>7 DEF Dispatch
    <3>2. batch[i].msg \in Msgs
      BY <3>1, BatchMsg
    <3>3. outcome' \in Results
      BY <3>1, <3>2, ConsumerAssumption DEF ConsumerAssumption, Results
    <3>4. attempts' \in [Msgs -> 0..AttemptCap]
      BY <3>1, <3>2
    <3>5. completed' \subseteq Msgs
      BY <3>1, <3>2
    <3> QED
      BY <2>7, <3>3, <3>4, <3>5 DEF Dispatch, brokerVars, channelVars
  <2>8. CASE Settle
    <3>1. PICK i \in good :
            /\ IF outcome = "retry" THEN SettleRequeue(batch[i].msg)
                                    ELSE SettleAck(batch[i].msg)
            /\ good' = good \ {i}
      BY <2>8 DEF Settle
    <3>2. batch[i].msg \in Msgs
      BY <3>1, BatchMsg
    <3>3. /\ ready' \subseteq Msgs /\ flagged' \subseteq Msgs /\ unacked' \subseteq Msgs
          /\ acked' \subseteq Msgs /\ dlq' \subseteq Msgs
      BY <3>1, <3>2 DEF SettleRequeue, SettleAck, brokerVars
    <3> QED
      BY <2>8, <3>1, <3>3 DEF Settle, channelVars, historyVars
  <2>9. CASE EndBatch
    BY <2>9 DEF EndBatch, brokerVars, channelVars, historyVars
  <2>10. ASSUME NEW m \in Msgs, Deliver(m)
         PROVE  TypeInv'
    <3>1. inbox' \in Seq(Deliveries)
      BY <2>10 DEF Deliver, Deliveries
    <3> QED
      BY <2>10, <3>1 DEF Deliver, batchVars, historyVars
  <2>11. CASE ConnectionLost
    <3>1. losses' \in 0..MaxLosses
      BY <2>11 DEF ConnectionLost
    <3>2. UNCHANGED <<inbox, pc, batchVars, historyVars, cancelled>>
      BY <2>11 DEF ConnectionLost
    <3> QED
      BY <2>11, <3>1, <3>2, CloseChannelTypes DEF ConnectionLost, batchVars, historyVars
  <2>12. CASE Crash \/ Exit
    <3>1. losses' \in 0..MaxLosses
      BY <2>12 DEF Crash, Exit
    <3>2. /\ CloseChannel
          /\ inbox' = <<>> /\ batch' = <<>>
          /\ poison' = {} /\ good' = {} /\ outcome' = "none"
          /\ pc' \in {"down", "stopped"}
          /\ UNCHANGED <<historyVars, cancelled>>
      BY <2>12 DEF Crash, Exit, Gone
    <3>3. inbox' \in Seq(Deliveries) /\ batch' \in Seq(Deliveries)
      BY <3>2
    <3> QED
      BY <3>1, <3>2, <3>3, CloseChannelTypes DEF historyVars
  <2>13. CASE UNCHANGED vars
    BY <2>13 DEF vars, brokerVars, channelVars, batchVars, historyVars
  <2> QED
    BY <2>1, <2>2, <2>3, <2>4, <2>5, <2>6, <2>7, <2>8, <2>9, <2>10, <2>11, <2>12, <2>13
       DEF Next, SessionStep
<1> QED
  BY <1>1, <1>2, PTL DEF Spec

\* Every variable of the consumer and of its queue keeps its type.
THEOREM TypeCorrect == Spec => []TypeOK
<1>1. TypeInv => TypeOK
  BY DEF TypeInv
<1> QED
  BY <1>1, TypeInvariance, PTL

-----------------------------------------------------------------------------
(* Facts about sequences of deliveries and sets of their indexes.          *)

\* A delivery added at the end.
LEMMA AppendMsg ==
  ASSUME NEW s \in Seq(Deliveries), NEW d \in Deliveries
  PROVE  LET t == Append(s, d) IN
         /\ t \in Seq(Deliveries)
         /\ Msg(t, 1..Len(t)) = Msg(s, 1..Len(s)) \cup {d.msg}
         /\ OneEach(s, 1..Len(s)) /\ d.msg \notin Msg(s, 1..Len(s))
              => OneEach(t, 1..Len(t))
<1> DEFINE t == Append(s, d)
<1>1. /\ t \in Seq(Deliveries)
      /\ Len(s) \in Nat
      /\ Len(t) = Len(s) + 1
      /\ \A k \in 1..Len(s) : t[k] = s[k]
      /\ t[Len(s) + 1] = d
  OBVIOUS
<1> HIDE DEF t
<1>2. 1..Len(t) = 1..Len(s) \cup {Len(s) + 1}
  BY <1>1
<1>3. Msg(t, 1..Len(t)) = Msg(s, 1..Len(s)) \cup {d.msg}
  BY <1>1, <1>2 DEF Msg
<1>4. ASSUME OneEach(s, 1..Len(s)), d.msg \notin Msg(s, 1..Len(s))
      PROVE  OneEach(t, 1..Len(t))
  BY <1>1, <1>2, <1>4 DEF Msg, OneEach
<1>5. /\ t \in Seq(Deliveries)
      /\ Msg(t, 1..Len(t)) = Msg(s, 1..Len(s)) \cup {d.msg}
      /\ OneEach(s, 1..Len(s)) /\ d.msg \notin Msg(s, 1..Len(s))
           => OneEach(t, 1..Len(t))
  BY <1>1, <1>3, <1>4
<1> QED
  BY <1>5 DEF t

\* The first delivery taken away.
LEMMA TailMsg ==
  ASSUME NEW s \in Seq(Deliveries), s # <<>>
  PROVE  /\ Head(s) \in Deliveries
         /\ Tail(s) \in Seq(Deliveries)
         /\ Msg(s, 1..Len(s)) = {Head(s).msg} \cup Msg(Tail(s), 1..Len(Tail(s)))
         /\ OneEach(s, 1..Len(s)) =>
               /\ OneEach(Tail(s), 1..Len(Tail(s)))
               /\ Head(s).msg \notin Msg(Tail(s), 1..Len(Tail(s)))
<1> DEFINE t == Tail(s)
<1>1. /\ t \in Seq(Deliveries)
      /\ Head(s) \in Deliveries
      /\ Len(s) \in Nat \ {0}
      /\ Len(t) = Len(s) - 1
      /\ \A k \in 1..Len(t) : t[k] = s[k + 1]
      /\ Head(s) = s[1]
  OBVIOUS
<1> HIDE DEF t
<1>2. ASSUME NEW k \in 1..Len(s)
      PROVE  s[k].msg \in {Head(s).msg} \cup Msg(t, 1..Len(t))
  <2>1. CASE k = 1
    BY <1>1, <2>1
  <2>2. CASE k # 1
    <3>1. k - 1 \in 1..Len(t) /\ s[k] = t[k - 1]
      BY <1>1, <2>2
    <3> QED
      BY <3>1 DEF Msg
  <2> QED
    BY <2>1, <2>2
<1>3. \A k \in 1..Len(t) : k + 1 \in 1..Len(s) /\ k + 1 # 1
  BY <1>1
<1>4. 1 \in 1..Len(s)
  BY <1>1
<1>5. Msg(s, 1..Len(s)) = {Head(s).msg} \cup Msg(t, 1..Len(t))
  <2>1. Msg(s, 1..Len(s)) \subseteq {Head(s).msg} \cup Msg(t, 1..Len(t))
    <3> SUFFICES ASSUME NEW k \in 1..Len(s)
                 PROVE  s[k].msg \in {Head(s).msg} \cup Msg(t, 1..Len(t))
      BY DEF Msg
    <3> QED
      BY <1>2
  <2>2. Head(s).msg \in Msg(s, 1..Len(s))
    BY <1>1, <1>4 DEF Msg
  <2>3. ASSUME NEW k \in 1..Len(t)
        PROVE  t[k].msg \in Msg(s, 1..Len(s))
    <3>1. t[k] = s[k + 1] /\ k + 1 \in 1..Len(s)
      BY <1>1, <1>3
    <3> QED
      BY <3>1 DEF Msg
  <2>4. Msg(t, 1..Len(t)) \subseteq Msg(s, 1..Len(s))
    BY <2>3 DEF Msg
  <2> QED
    BY <2>1, <2>2, <2>4
<1>6. ASSUME OneEach(s, 1..Len(s))
      PROVE  OneEach(t, 1..Len(t)) /\ Head(s).msg \notin Msg(t, 1..Len(t))
  <2>1. ASSUME NEW j \in 1..Len(t), NEW k \in 1..Len(t), t[j].msg = t[k].msg
        PROVE  j = k
    BY <1>1, <1>3, <1>6, <2>1 DEF OneEach
  <2>2. ASSUME NEW k \in 1..Len(t), t[k].msg = Head(s).msg
        PROVE  FALSE
    BY <1>1, <1>3, <1>4, <1>6, <2>2 DEF OneEach
  <2> QED
    BY <2>1, <2>2 DEF OneEach, Msg
<1> QED
  BY <1>1, <1>5, <1>6 DEF t

\* One index taken away.
LEMMA DropIndex ==
  ASSUME NEW s, NEW I, NEW i \in I, OneEach(s, I)
  PROVE  /\ Msg(s, I \ {i}) = Msg(s, I) \ {s[i].msg}
         /\ OneEach(s, I \ {i})
BY DEF Msg, OneEach

\* What decodeBatch rejects may be dead-lettered.
LEMMA RejectedIsBuryable ==
  ASSUME NEW d \in Deliveries, Rejected(d)
  PROVE  d.msg \in Buryable
<1>1. d.msg \in Msgs
  BY DEF Deliveries
<1>2. MaxRedeliveries \in Nat /\ Deaths[d.msg] \in Nat
  BY <1>1, ConsumerAssumption DEF ConsumerAssumption
<1> QED
  BY <1>1, <1>2 DEF Rejected, deathCount, Buryable

-----------------------------------------------------------------------------
(* The invariant.                                                          *)

\* HeldDeliveriesAreUnacked after a step.
LEMMA HeldNext ==
  ASSUME open' => /\ unacked' = Msg(inbox', 1..Len(inbox')) \cup Msg(batch', Unsettled')
                  /\ Msg(inbox', 1..Len(inbox')) \cap Msg(batch', Unsettled') = {}
                  /\ OneEach(inbox', 1..Len(inbox'))
                  /\ OneEach(batch', Unsettled')
  PROVE  HeldDeliveriesAreUnacked'
<1>1. /\ Msg(inbox, 1..Len(inbox))' = Msg(inbox', 1..Len(inbox'))
      /\ Msg(batch, Unsettled)' = Msg(batch', Unsettled')
  BY DEF Msg
<1>2. /\ OneEach(inbox, 1..Len(inbox))' <=> OneEach(inbox', 1..Len(inbox'))
      /\ OneEach(batch, Unsettled)' <=> OneEach(batch', Unsettled')
  BY DEF OneEach
<1> QED
  BY <1>1, <1>2 DEF HeldDeliveriesAreUnacked

\* The steps that change neither the broker nor what is held.
LEMMA IdleSteps ==
  ASSUME TypeInv, Placed,
         UNCHANGED <<ready, unacked, acked, dlq, open, inbox, batch, poison, good, completed>>,
         Unsettled' = Unsettled,
         pc' = "settle" => pc = "settle" /\ outcome' = outcome
  PROVE  Placed'
<1>1. Conserved'
  BY DEF Placed, Conserved
<1>2. HeldDeliveriesAreUnacked'
  BY HeldNext DEF Placed, HeldDeliveriesAreUnacked
<1>3. StillPending'
  BY DEF Placed, StillPending, Msg
<1>4. (\A i \in poison : batch[i].msg \in Buryable)' /\ AckedIsCompleted' /\ OnlyBuryableAreDead'
  BY DEF Placed, Justified, AckedIsCompleted, OnlyBuryableAreDead, Buryable
<1>5. (pc = "settle" /\ outcome # "retry" =>
         \A i \in good : (\A j \in good : i <= j) => batch[i].msg \in completed)'
  BY DEF Placed, Justified
<1> QED
  BY <1>1, <1>2, <1>3, <1>4, <1>5 DEF Placed, Justified

\* A channel that goes, with or without what the consumer holds.
LEMMA ChannelGoes ==
  ASSUME TypeInv, Placed, CloseChannel, UNCHANGED completed,
         \/ inbox' = <<>> /\ Unsettled' = {} /\ poison' = {} /\ good' = {}
         \/ UNCHANGED <<inbox, batch, pc, poison, good, outcome>>
  PROVE  Placed'
<1>1. /\ open' = FALSE /\ ready' = ready \cup unacked /\ unacked' = {}
      /\ UNCHANGED <<acked, dlq, completed>>
  BY DEF CloseChannel
<1>2. Conserved' /\ HeldDeliveriesAreUnacked'
  BY <1>1 DEF Placed, Conserved, HeldDeliveriesAreUnacked
<1>3. CASE inbox' = <<>> /\ Unsettled' = {} /\ poison' = {} /\ good' = {}
  <2>1. Msg(inbox', 1..Len(inbox')) = {} /\ Msg(batch', Unsettled') = {}
    BY <1>3 DEF Msg
  <2>2. StillPending'
    BY <2>1 DEF StillPending, Msg
  <2>3. Justified'
    BY <1>1, <1>3 DEF Placed, Justified, AckedIsCompleted, OnlyBuryableAreDead, Buryable
  <2> QED
    BY <1>2, <2>2, <2>3 DEF Placed
<1>4. CASE UNCHANGED <<inbox, batch, pc, poison, good, outcome>>
  <2>1. Unsettled' = Unsettled
    BY <1>4 DEF Unsettled
  <2>2. StillPending'
    BY <1>1, <1>4, <2>1 DEF Placed, StillPending, Msg
  <2>3. Justified'
    BY <1>1, <1>4 DEF Placed, Justified, AckedIsCompleted, OnlyBuryableAreDead, Buryable
  <2> QED
    BY <1>2, <2>2, <2>3 DEF Placed
<1> QED
  BY <1>3, <1>4

\* One delivery settled: its message leaves unacked for one other place, or
\* the channel is gone and it stays where it is.
LEMMA OneSettled ==
  ASSUME TypeInv, Placed, NEW i \in Unsettled, pc \in {"poison", "settle"},
         UNCHANGED <<open, inbox, batch>>,
         Unsettled' = Unsettled \ {i},
         SettleAck(batch[i].msg) \/ SettleRequeue(batch[i].msg) \/ SettleReject(batch[i].msg)
  PROVE  Conserved' /\ HeldDeliveriesAreUnacked' /\ StillPending'
<1> DEFINE m == batch[i].msg
<1>1. i \in 1..Len(batch) /\ m \in Msgs
  BY BatchMsg DEF Unsettled, TypeInv, TypeOK
<1>2. CASE ~open
  <2>1. UNCHANGED brokerVars
    BY <1>2 DEF SettleAck, SettleRequeue, SettleReject
  <2>2. Msg(batch, Unsettled \ {i}) \subseteq Msg(batch, Unsettled)
    BY DEF Msg
  <2> QED
    BY <1>2, <2>1, <2>2 DEF brokerVars, Placed, Conserved, HeldDeliveriesAreUnacked,
                            StillPending, Msg
<1>3. CASE open
  <2>1. /\ unacked = Msg(inbox, 1..Len(inbox)) \cup Msg(batch, Unsettled)
        /\ Msg(inbox, 1..Len(inbox)) \cap Msg(batch, Unsettled) = {}
        /\ OneEach(inbox, 1..Len(inbox))
        /\ OneEach(batch, Unsettled)
    BY <1>3 DEF Placed, HeldDeliveriesAreUnacked
  <2>2. m \in Msg(batch, Unsettled)
    BY DEF Msg
  <2>3. /\ Msg(batch, Unsettled') = Msg(batch, Unsettled) \ {m}
        /\ OneEach(batch, Unsettled')
    BY <2>1, DropIndex
  <2>4. /\ unacked' = unacked \ {m}
        /\ \/ acked' = acked \cup {m} /\ UNCHANGED <<ready, dlq>>
           \/ ready' = ready \cup {m} /\ UNCHANGED <<acked, dlq>>
           \/ dlq' = dlq \cup {m} /\ UNCHANGED <<acked, ready>>
    BY <1>3 DEF SettleAck, SettleRequeue, SettleReject
  <2>5. m \in unacked
    BY <2>1, <2>2
  <2>6. Conserved'
    BY <1>3, <2>4, <2>5 DEF Placed, Conserved
  <2>7. /\ unacked' = Msg(inbox, 1..Len(inbox)) \cup Msg(batch, Unsettled')
        /\ Msg(inbox, 1..Len(inbox)) \cap Msg(batch, Unsettled') = {}
    BY <2>1, <2>2, <2>3, <2>4
  <2>8. HeldDeliveriesAreUnacked'
    BY <2>1, <2>3, <2>7, HeldNext
  <2>9. StillPending'
    BY <2>7 DEF StillPending, Msg
  <2> QED
    BY <2>6, <2>8, <2>9
<1> QED
  BY <1>2, <1>3

\* The parts of the invariant that a delivery, a batch in the making and its
\* sorting disturb.
LEMMA JustifiedIdle ==
  ASSUME TypeInv, Placed, poison' = {}, pc' # "settle", UNCHANGED <<acked, dlq>>,
         completed \subseteq completed'
  PROVE  Justified'
BY DEF Placed, Justified, AckedIsCompleted, OnlyBuryableAreDead, Buryable

\* The broker hands out a message.
LEMMA DeliverPlaced ==
  ASSUME TypeInv, Placed, NEW m \in Msgs, Deliver(m)
  PROVE  Placed'
<1> DEFINE d == [msg |-> m, redelivered |-> m \in flagged]
<1>1. d \in Deliveries /\ d.msg = m
  BY DEF Deliveries
<1>2. /\ open /\ m \in ready
      /\ ready' = ready \ {m} /\ unacked' = unacked \cup {m}
      /\ inbox' = Append(inbox, d)
      /\ UNCHANGED <<acked, dlq, open, pc, batch, poison, good, outcome, completed>>
  BY DEF Deliver, batchVars, historyVars
<1>3. inbox \in Seq(Deliveries)
  BY DEF TypeInv, TypeOK
<1> HIDE DEF d
<1>4. Unsettled' = Unsettled
  BY <1>2 DEF Unsettled
<1>5. /\ unacked = Msg(inbox, 1..Len(inbox)) \cup Msg(batch, Unsettled)
      /\ Msg(inbox, 1..Len(inbox)) \cap Msg(batch, Unsettled) = {}
      /\ OneEach(inbox, 1..Len(inbox))
      /\ OneEach(batch, Unsettled)
  BY <1>2 DEF Placed, HeldDeliveriesAreUnacked
<1>6. m \notin unacked
  BY <1>2 DEF Placed, Conserved
<1>7. /\ Msg(inbox', 1..Len(inbox')) = Msg(inbox, 1..Len(inbox)) \cup {m}
      /\ OneEach(inbox', 1..Len(inbox'))
  BY <1>1, <1>2, <1>3, <1>5, <1>6, AppendMsg
<1>8. Msg(batch', Unsettled') = Msg(batch, Unsettled) /\ OneEach(batch', Unsettled')
  BY <1>2, <1>4, <1>5
<1>9. unacked' = Msg(inbox', 1..Len(inbox')) \cup Msg(batch', Unsettled')
  BY <1>2, <1>5, <1>7, <1>8
<1>10. Msg(inbox', 1..Len(inbox')) \cap Msg(batch', Unsettled') = {}
  BY <1>5, <1>6, <1>7, <1>8
<1>11. HeldDeliveriesAreUnacked'
  BY <1>7, <1>8, <1>9, <1>10, HeldNext
<1>12. StillPending'
  BY <1>9 DEF StillPending, Msg
<1>13. Conserved'
  BY <1>2, <1>6 DEF Placed, Conserved
<1>14. Justified'
  BY <1>2 DEF Placed, Justified, AckedIsCompleted, OnlyBuryableAreDead, Buryable
<1> QED
  BY <1>11, <1>12, <1>13, <1>14 DEF Placed

\* CollectBatch takes a delivery of the channel into the batch.
LEMMA CollectPlaced ==
  ASSUME TypeInv, Placed, Collect
  PROVE  Placed'
<1> DEFINE d == Head(inbox)
<1>1. /\ pc = "collect" /\ inbox # <<>> /\ pc' = "collect"
      /\ batch' = Append(batch, d) /\ inbox' = Tail(inbox)
      /\ UNCHANGED <<ready, unacked, acked, dlq, open, poison, good, outcome, completed>>
  BY DEF Collect, brokerVars, historyVars
<1>2. inbox \in Seq(Deliveries) /\ batch \in Seq(Deliveries)
  BY DEF TypeInv, TypeOK
<1>3. d \in Deliveries
  BY <1>1, <1>2, TailMsg
<1> HIDE DEF d
<1>4. Unsettled = 1..Len(batch) /\ Unsettled' = 1..Len(batch')
  BY <1>1 DEF Unsettled
<1>5. /\ Msg(inbox, 1..Len(inbox)) = {d.msg} \cup Msg(inbox', 1..Len(inbox'))
      /\ OneEach(inbox, 1..Len(inbox)) =>
            /\ OneEach(inbox', 1..Len(inbox'))
            /\ d.msg \notin Msg(inbox', 1..Len(inbox'))
  BY <1>1, <1>2, TailMsg DEF d
<1>6. /\ Msg(batch', 1..Len(batch')) = Msg(batch, 1..Len(batch)) \cup {d.msg}
      /\ OneEach(batch, 1..Len(batch)) /\ d.msg \notin Msg(batch, 1..Len(batch))
           => OneEach(batch', 1..Len(batch'))
  BY <1>1, <1>2, <1>3, AppendMsg
<1>7. Msg(inbox', 1..Len(inbox')) \cup Msg(batch', Unsettled')
        = Msg(inbox, 1..Len(inbox)) \cup Msg(batch, Unsettled)
  BY <1>4, <1>5, <1>6
<1>8. StillPending'
  <2>1. Msg(inbox', 1..Len(inbox')) \cup Msg(batch', Unsettled') \subseteq ready' \cup unacked'
    BY <1>1, <1>7 DEF Placed, StillPending
  <2> QED
    BY <2>1 DEF StillPending, Msg
<1>9. ASSUME open
      PROVE  /\ unacked' = Msg(inbox', 1..Len(inbox')) \cup Msg(batch', Unsettled')
             /\ Msg(inbox', 1..Len(inbox')) \cap Msg(batch', Unsettled') = {}
             /\ OneEach(inbox', 1..Len(inbox'))
             /\ OneEach(batch', Unsettled')
  <2>1. /\ unacked = Msg(inbox, 1..Len(inbox)) \cup Msg(batch, Unsettled)
        /\ Msg(inbox, 1..Len(inbox)) \cap Msg(batch, Unsettled) = {}
        /\ OneEach(inbox, 1..Len(inbox))
        /\ OneEach(batch, Unsettled)
    BY <1>9 DEF Placed, HeldDeliveriesAreUnacked
  <2>2. unacked' = Msg(inbox', 1..Len(inbox')) \cup Msg(batch', Unsettled')
    BY <1>1, <1>7, <2>1
  <2>3. Msg(inbox', 1..Len(inbox')) \cap Msg(batch', Unsettled') = {}
    BY <1>4, <1>5, <1>6, <2>1
  <2>4. OneEach(batch', Unsettled')
    BY <1>4, <1>5, <1>6, <2>1
  <2> QED
    BY <1>5, <2>1, <2>2, <2>3, <2>4
<1>10. HeldDeliveriesAreUnacked'
  BY <1>1, <1>9, HeldNext
<1>11. Conserved'
  BY <1>1 DEF Placed, Conserved
<1>12. Justified'
  <2>1. poison' = {}
    BY <1>1 DEF TypeInv, Control
  <2> QED
    BY <1>1, <2>1, JustifiedIdle
<1> QED
  BY <1>8, <1>10, <1>11, <1>12 DEF Placed

\* decodeBatch sorts the batch.
LEMMA FlushPlaced ==
  ASSUME TypeInv, Placed, Flush
  PROVE  Placed'
<1>1. /\ pc = "collect" /\ pc' = "poison"
      /\ poison' = {i \in 1..Len(batch) : Rejected(batch[i])}
      /\ good' = {i \in 1..Len(batch) : ~Rejected(batch[i])}
      /\ UNCHANGED <<ready, unacked, acked, dlq, open, inbox, batch, completed>>
  BY DEF Flush, brokerVars, channelVars, historyVars
<1>2. Unsettled' = Unsettled
  BY <1>1 DEF Unsettled
<1>3. Conserved' /\ HeldDeliveriesAreUnacked' /\ StillPending'
  <2>1. Conserved'
    BY <1>1 DEF Placed, Conserved
  <2>2. HeldDeliveriesAreUnacked'
    BY <1>1, <1>2, HeldNext DEF Placed, HeldDeliveriesAreUnacked
  <2>3. StillPending'
    BY <1>1, <1>2 DEF Placed, StillPending, Msg
  <2> QED
    BY <2>1, <2>2, <2>3
<1>4. ASSUME NEW i \in poison'
      PROVE  batch[i].msg \in Buryable
  <2>1. batch[i] \in Deliveries /\ Rejected(batch[i])
    BY <1>1 DEF TypeInv, TypeOK
  <2> QED
    BY <2>1, RejectedIsBuryable
<1>5. Justified'
  BY <1>1, <1>4 DEF Placed, Justified, AckedIsCompleted, OnlyBuryableAreDead, Buryable
<1> QED
  BY <1>3, <1>5 DEF Placed

\* Nack(false, false) of a rejected delivery.
LEMMA NackPlaced ==
  ASSUME TypeInv, Placed, NackPoison
  PROVE  Placed'
<1>1. PICK i \in poison : SettleReject(batch[i].msg) /\ poison' = poison \ {i}
  BY DEF NackPoison
<1>2. /\ pc = "poison" /\ pc' = "poison"
      /\ UNCHANGED <<open, inbox, batch, good, completed>>
  BY DEF NackPoison, channelVars, historyVars
<1>3. poison \cap good = {}
  BY DEF TypeInv, Control
<1>4. i \in Unsettled /\ Unsettled' = Unsettled \ {i}
  BY <1>1, <1>2, <1>3 DEF Unsettled
<1>5. Conserved' /\ HeldDeliveriesAreUnacked' /\ StillPending'
  BY <1>1, <1>2, <1>4, OneSettled
<1>6. batch[i].msg \in Buryable
  BY DEF Placed, Justified
<1>7. acked' = acked /\ dlq' \subseteq dlq \cup {batch[i].msg}
  BY <1>1 DEF SettleReject, brokerVars
<1>8. Justified'
  BY <1>1, <1>2, <1>6, <1>7
     DEF Placed, Justified, AckedIsCompleted, OnlyBuryableAreDead, Buryable
<1> QED
  BY <1>5, <1>8 DEF Placed

\* Dispatch returns for the first of the good deliveries.
LEMMA DispatchPlaced ==
  ASSUME TypeInv, Placed, Dispatch
  PROVE  Placed'
<1>1. PICK i \in good :
         /\ \A j \in good : i <= j
         /\ completed' = IF outcome' = "retry" THEN completed
                         ELSE completed \cup {batch[i].msg}
  BY DEF Dispatch
<1>2. /\ pc = "dispatch" /\ pc' = "settle"
      /\ UNCHANGED <<ready, unacked, acked, dlq, open, inbox, batch, poison, good>>
  BY DEF Dispatch, brokerVars, channelVars
<1>3. poison = {} /\ good \subseteq 1..Len(batch) /\ Len(batch) \in Nat
  BY <1>2 DEF TypeInv, TypeOK, Control
<1>4. Unsettled' = Unsettled
  BY <1>2 DEF Unsettled
<1>5. Conserved'
  BY <1>2 DEF Placed, Conserved
<1>6. HeldDeliveriesAreUnacked'
  BY <1>2, <1>4, HeldNext DEF Placed, HeldDeliveriesAreUnacked
<1>7. StillPending'
  BY <1>2, <1>4 DEF Placed, StillPending, Msg
<1>8. ASSUME outcome' # "retry", NEW k \in good, \A j \in good : k <= j
      PROVE  batch[k].msg \in completed'
  <2>1. k = i
    BY <1>1, <1>3, <1>8
  <2> QED
    BY <1>1, <1>8, <2>1
<1>9. completed \subseteq completed'
  BY <1>1
<1>10. Justified'
  BY <1>2, <1>3, <1>8, <1>9
     DEF Placed, Justified, AckedIsCompleted, OnlyBuryableAreDead, Buryable
<1> QED
  BY <1>5, <1>6, <1>7, <1>10 DEF Placed

\* The dispatched delivery is acked or requeued.
LEMMA SettlePlaced ==
  ASSUME TypeInv, Placed, Settle
  PROVE  Placed'
<1>1. PICK i \in good :
         /\ \A j \in good : i <= j
         /\ IF outcome = "retry" THEN SettleRequeue(batch[i].msg)
                                 ELSE SettleAck(batch[i].msg)
         /\ good' = good \ {i}
  BY DEF Settle
<1>2. /\ pc = "settle" /\ pc' = "dispatch"
      /\ UNCHANGED <<open, inbox, batch, poison, completed>>
  BY DEF Settle, channelVars, historyVars
<1>3. poison = {}
  BY <1>2 DEF TypeInv, Control
<1>4. i \in Unsettled /\ Unsettled' = Unsettled \ {i}
  BY <1>1, <1>2, <1>3 DEF Unsettled
<1>5. Conserved' /\ HeldDeliveriesAreUnacked' /\ StillPending'
  BY <1>1, <1>2, <1>4, OneSettled
<1>6. dlq' = dlq /\ acked' \subseteq completed
  <2>1. CASE outcome = "retry"
    BY <1>1, <2>1 DEF SettleRequeue, brokerVars, Placed, Justified, AckedIsCompleted
  <2>2. CASE outcome # "retry"
    <3>1. batch[i].msg \in completed
      BY <1>1, <1>2, <2>2 DEF Placed, Justified
    <3> QED
      BY <1>1, <2>2, <3>1 DEF SettleAck, brokerVars, Placed, Justified, AckedIsCompleted
  <2> QED
    BY <2>1, <2>2
<1>7. Justified'
  BY <1>2, <1>3, <1>6 DEF Placed, Justified, AckedIsCompleted, OnlyBuryableAreDead, Buryable
<1> QED
  BY <1>5, <1>7 DEF Placed

\* Every step keeps the invariant.
LEMMA PlacedStep ==
  ASSUME TypeInv, Placed, [Next]_vars
  PROVE  Placed'
<1>1. CASE OpenSession
  <2>1. /\ open' = TRUE /\ inbox' = <<>>
        /\ pc = "down" /\ pc' = "top"
        /\ UNCHANGED <<ready, unacked, acked, dlq, batch, poison, good, completed>>
    BY <1>1 DEF OpenSession, brokerVars, batchVars, historyVars
  <2>2. unacked = {} /\ poison = {} /\ good = {}
    BY <2>1 DEF TypeInv, Control, Placed, Conserved
  <2>3. Unsettled' = {}
    BY <2>1, <2>2 DEF Unsettled
  <2>4. Msg(inbox, 1..Len(inbox))' = {} /\ Msg(batch, Unsettled)' = {}
    BY <2>1, <2>3 DEF Msg
  <2>5. OneEach(inbox, 1..Len(inbox))' /\ OneEach(batch, Unsettled)'
    BY <2>1, <2>3 DEF OneEach
  <2>6. HeldDeliveriesAreUnacked' /\ StillPending'
    BY <2>1, <2>2, <2>4, <2>5 DEF HeldDeliveriesAreUnacked, StillPending
  <2>7. Conserved'
    BY <2>1, <2>2 DEF Placed, Conserved
  <2>8. Justified'
    BY <2>1, <2>2, JustifiedIdle
  <2> QED
    BY <2>6, <2>7, <2>8 DEF Placed
<1>2. CASE Stop \/ BeginCollect \/ BeginDispatch \/ Cancel \/ EndBatch \/ UNCHANGED vars
  <2>1. UNCHANGED <<ready, unacked, acked, dlq, open, inbox, poison, good, completed>>
    BY <1>2 DEF Stop, BeginCollect, BeginDispatch, Cancel, EndBatch, vars, brokerVars,
                channelVars, batchVars, historyVars
  <2>2. CASE EndBatch
    <3>1. pc = "dispatch" /\ pc' = "top" /\ poison = {} /\ good = {} /\ batch' = <<>>
      BY <2>2 DEF EndBatch, TypeInv, Control
    <3>2. Unsettled = {} /\ Unsettled' = {}
      BY <2>1, <3>1 DEF Unsettled
    <3>3. /\ Msg(inbox, 1..Len(inbox))' = Msg(inbox, 1..Len(inbox))
          /\ Msg(batch, Unsettled)' = Msg(batch, Unsettled)
      BY <2>1, <3>2 DEF Msg
    <3>4. /\ OneEach(inbox, 1..Len(inbox))' <=> OneEach(inbox, 1..Len(inbox))
          /\ OneEach(batch, Unsettled)'
      BY <2>1, <3>2 DEF OneEach
    <3>5. HeldDeliveriesAreUnacked' /\ StillPending'
      BY <2>1, <3>3, <3>4 DEF Placed, HeldDeliveriesAreUnacked, StillPending
    <3>6. Conserved'
      BY <2>1 DEF Placed, Conserved
    <3>7. Justified'
      BY <2>1, <3>1, JustifiedIdle
    <3> QED
      BY <3>5, <3>6, <3>7 DEF Placed
  <2>3. CASE Stop \/ BeginCollect \/ BeginDispatch \/ Cancel \/ UNCHANGED vars
    <3>1. /\ UNCHANGED <<batch, outcome>>
          /\ \/ pc = "down" /\ pc' = "stopped"
             \/ pc = "top" /\ pc' = "collect"
             \/ pc = "poison" /\ pc' = "dispatch"
             \/ UNCHANGED pc
      BY <2>3 DEF Stop, BeginCollect, BeginDispatch, Cancel, vars, batchVars
    <3>2. Unsettled' = Unsettled
      <4>1. CASE pc = "top" /\ pc' = "collect"
        <5>1. batch = <<>> /\ poison = {} /\ good = {}
          BY <4>1 DEF TypeInv, Control
        <5> QED
          BY <2>1, <3>1, <4>1, <5>1 DEF Unsettled
      <4>2. CASE ~(pc = "top" /\ pc' = "collect")
        BY <2>1, <3>1, <4>2 DEF Unsettled
      <4> QED
        BY <4>1, <4>2
    <3> QED
      BY <2>1, <3>1, <3>2, IdleSteps
  <2> QED
    BY <1>2, <2>2, <2>3
<1>3. CASE EndSession
  <2>1. /\ CloseChannel /\ inbox' = <<>> /\ pc' = "down"
        /\ pc \in {"top", "collect"}
        /\ UNCHANGED <<poison, good, completed>>
    BY <1>3 DEF EndSession, historyVars
  <2>2. poison' = {} /\ good' = {}
    BY <2>1 DEF TypeInv, Control
  <2>3. Unsettled' = {}
    BY <2>1, <2>2 DEF Unsettled
  <2> QED
    BY <2>1, <2>2, <2>3, ChannelGoes
<1>4. CASE Crash \/ Exit
  <2>1. /\ CloseChannel /\ inbox' = <<>> /\ pc' \in {"down", "stopped"}
        /\ poison' = {} /\ good' = {} /\ UNCHANGED completed
    BY <1>4 DEF Crash, Exit, Gone, historyVars
  <2>2. Unsettled' = {}
    BY <2>1 DEF Unsettled
  <2> QED
    BY <2>1, <2>2, ChannelGoes
<1>5. CASE ConnectionLost
  <2>1. CloseChannel /\ UNCHANGED <<inbox, batch, pc, poison, good, outcome, completed>>
    BY <1>5 DEF ConnectionLost, batchVars, historyVars
  <2> QED
    BY <2>1, ChannelGoes
<1>6. CASE Collect
  BY <1>6, CollectPlaced
<1>7. CASE Flush
  BY <1>7, FlushPlaced
<1>8. CASE NackPoison
  BY <1>8, NackPlaced
<1>9. CASE Dispatch
  BY <1>9, DispatchPlaced
<1>10. CASE Settle
  BY <1>10, SettlePlaced
<1>11. ASSUME NEW m \in Msgs, Deliver(m)
       PROVE  Placed'
  BY <1>11, DeliverPlaced
<1> QED
  BY <1>1, <1>2, <1>3, <1>4, <1>5, <1>6, <1>7, <1>8, <1>9, <1>10, <1>11
     DEF Next, SessionStep

\* The invariant holds from the start and for ever: each message is in one
\* place, what is held is what is unacked, and what is acked or dead-lettered
\* had a reason to be.
THEOREM Placement == Spec => []Placed
<1>1. Init => Placed
  <2> SUFFICES ASSUME Init PROVE Placed
    OBVIOUS
  <2>1. Unsettled = {}
    BY DEF Init, Unsettled
  <2>2. Msg(inbox, 1..Len(inbox)) = {} /\ Msg(batch, Unsettled) = {}
    BY <2>1 DEF Init, Msg
  <2>3. HeldDeliveriesAreUnacked /\ StillPending
    BY <2>2 DEF Init, HeldDeliveriesAreUnacked, StillPending
  <2>4. Conserved
    BY DEF Init, Conserved
  <2>5. Justified
    BY DEF Init, Justified, AckedIsCompleted, OnlyBuryableAreDead
  <2> QED
    BY <2>3, <2>4, <2>5 DEF Placed
<1>2. TypeInv /\ Placed /\ [Next]_vars => Placed'
  BY PlacedStep
<1> QED
  BY <1>1, <1>2, TypeInvariance, PTL DEF Spec

-----------------------------------------------------------------------------
(* The safety properties the runs check.                                   *)

\* On an open channel the consumer holds exactly what the broker waits for:
\* no slot of the prefetch window leaks and nothing is settled twice.
THEOREM HeldIsUnacked == Spec => []HeldDeliveriesAreUnacked
<1>1. Placed => HeldDeliveriesAreUnacked
  BY DEF Placed
<1> QED
  BY <1>1, Placement, PTL

\* A message is acked only after its own dispatch has completed.
THEOREM AckedCompleted == Spec => []AckedIsCompleted
<1>1. Placed => AckedIsCompleted
  BY DEF Placed, Justified
<1> QED
  BY <1>1, Placement, PTL

\* Only undecodable messages and those over the limit are dead-lettered.
THEOREM DeadAreBuryable == Spec => []OnlyBuryableAreDead
<1>1. Placed => OnlyBuryableAreDead
  BY DEF Placed, Justified
<1> QED
  BY <1>1, Placement, PTL

\* A stopped consumer leaves every message with the broker.
THEOREM StopIsClean == Spec => []StopLeavesNothingHeld
<1>1. TypeInv /\ Placed => StopLeavesNothingHeld
  BY DEF TypeInv, Control, Placed, Conserved, StopLeavesNothingHeld
<1> QED
  BY <1>1, TypeInvariance, Placement, PTL

-----------------------------------------------------------------------------
(* The consumer implements WorkQueue.                                      *)

\* Every step is one of WorkQueue's, or changes nothing it sees.
LEMMA PromiseStep ==
  ASSUME TypeInv, Placed, [Next]_vars
  PROVE  [Promise!Next]_Promise!vars
<1> USE DEF Promise!vars
<1>1. CASE OpenSession \/ Stop \/ BeginCollect \/ Collect \/ Flush \/ BeginDispatch
           \/ EndBatch \/ Cancel \/ UNCHANGED vars
  BY <1>1 DEF OpenSession, Stop, BeginCollect, Collect, Flush, BeginDispatch, EndBatch,
              Cancel, vars, brokerVars, channelVars, batchVars, historyVars
<1>2. CASE EndSession \/ Crash \/ Exit \/ ConnectionLost
  <2>1. CloseChannel /\ UNCHANGED completed
    BY <1>2 DEF EndSession, Crash, Exit, ConnectionLost, Gone, historyVars
  <2> QED
    BY <2>1 DEF CloseChannel
<1>3. ASSUME NEW m \in Msgs, Deliver(m)
      PROVE  UNCHANGED Promise!vars
  <2>1. /\ m \in ready /\ ready' = ready \ {m} /\ unacked' = unacked \cup {m}
        /\ UNCHANGED <<acked, dlq, completed>>
    BY <1>3 DEF Deliver, historyVars
  <2>2. ready' \cup unacked' = ready \cup unacked
    BY <2>1
  <2> QED
    BY <2>1, <2>2
<1>4. CASE NackPoison
  <2>1. PICK i \in poison : SettleReject(batch[i].msg)
    BY <1>4 DEF NackPoison
  <2>2. pc = "poison" /\ UNCHANGED completed
    BY <1>4 DEF NackPoison, historyVars
  <2> DEFINE m == batch[i].msg
  <2>3. m \in Msgs /\ m \in Buryable
    BY <2>1, BatchMsg DEF TypeInv, TypeOK, Placed, Justified
  <2>4. CASE ~open
    BY <2>1, <2>2, <2>4 DEF SettleReject, brokerVars
  <2>5. CASE open
    <3>1. /\ unacked' = unacked \ {m} /\ dlq' = dlq \cup {m}
          /\ UNCHANGED <<ready, acked>>
      BY <2>1, <2>5 DEF SettleReject
    <3>2. i \in Unsettled
      BY <2>1, <2>2 DEF Unsettled
    <3>3. m \in unacked
      BY <2>5, <3>2 DEF Placed, HeldDeliveriesAreUnacked, Msg
    <3>4. ready' \cup unacked' = (ready \cup unacked) \ {m}
      BY <3>1, <3>3 DEF Placed, Conserved
    <3>5. Promise!Bury(m)
      BY <2>2, <2>3, <3>1, <3>3, <3>4 DEF Promise!Bury
    <3> QED
      BY <2>3, <3>5 DEF Promise!Next
  <2> QED
    BY <2>4, <2>5
<1>5. CASE Dispatch
  <2>1. PICK i \in good :
          completed' = IF outcome' = "retry" THEN completed
                       ELSE completed \cup {batch[i].msg}
    BY <1>5 DEF Dispatch
  <2>2. pc = "dispatch" /\ UNCHANGED <<ready, unacked, acked, dlq>>
    BY <1>5 DEF Dispatch, brokerVars
  <2> DEFINE m == batch[i].msg
  <2>3. m \in Msgs
    BY <2>1, BatchMsg DEF TypeInv, TypeOK
  <2>4. i \in Unsettled
    BY <2>1, <2>2 DEF Unsettled
  <2>5. m \in ready \cup unacked
    BY <2>4 DEF Placed, StillPending, Msg
  <2>6. CASE outcome' = "retry"
    BY <2>1, <2>2, <2>6
  <2>7. CASE outcome' # "retry"
    <3>1. Promise!Complete(m)
      BY <2>1, <2>2, <2>5, <2>7 DEF Promise!Complete
    <3> QED
      BY <2>3, <3>1 DEF Promise!Next
  <2> QED
    BY <2>6, <2>7
<1>6. CASE Settle
  <2>1. PICK i \in good :
          /\ \A j \in good : i <= j
          /\ IF outcome = "retry" THEN SettleRequeue(batch[i].msg)
                                  ELSE SettleAck(batch[i].msg)
    BY <1>6 DEF Settle
  <2>2. pc = "settle" /\ UNCHANGED completed
    BY <1>6 DEF Settle, historyVars
  <2> DEFINE m == batch[i].msg
  <2>3. m \in Msgs
    BY <2>1, BatchMsg DEF TypeInv, TypeOK
  <2>4. i \in Unsettled
    BY <2>1, <2>2 DEF Unsettled
  <2>5. CASE ~open
    BY <2>1, <2>2, <2>5 DEF SettleAck, SettleRequeue, brokerVars
  <2>6. ASSUME open
        PROVE  m \in unacked
    BY <2>4, <2>6 DEF Placed, HeldDeliveriesAreUnacked, Msg
  <2>7. CASE open /\ outcome = "retry"
    <3>1. /\ unacked' = unacked \ {m} /\ ready' = ready \cup {m}
          /\ UNCHANGED <<acked, dlq>>
      BY <2>1, <2>7 DEF SettleRequeue
    <3>2. ready' \cup unacked' = ready \cup unacked
      BY <2>6, <2>7, <3>1
    <3> QED
      BY <2>2, <3>1, <3>2
  <2>8. CASE open /\ outcome # "retry"
    <3>1. /\ unacked' = unacked \ {m} /\ acked' = acked \cup {m}
          /\ UNCHANGED <<ready, dlq>>
      BY <2>1, <2>8 DEF SettleAck
    <3>2. ready' \cup unacked' = (ready \cup unacked) \ {m}
      BY <2>6, <2>8, <3>1 DEF Placed, Conserved
    <3>3. m \in completed
      BY <2>1, <2>2, <2>8 DEF Placed, Justified
    <3>4. Promise!Finish(m)
      BY <2>2, <2>6, <2>8, <3>1, <3>2, <3>3 DEF Promise!Finish
    <3> QED
      BY <2>3, <3>4 DEF Promise!Next
  <2> QED
    BY <2>5, <2>7, <2>8
<1> QED
  BY <1>1, <1>2, <1>3, <1>4, <1>5, <1>6 DEF Next, SessionStep

\* For any sessions, crashes and verdicts the consumer keeps the promise of
\* an at-least-once work queue.
THEOREM ImplementsWorkQueue == Spec => KeepsPromise
<1>1. Init => Promise!Init
  BY DEF Init, Promise!Init
<1>2. TypeInv /\ Placed /\ [Next]_vars => [Promise!Next]_Promise!vars
  BY PromiseStep
<1> QED
  BY <1>1, <1>2, TypeInvariance, Placement, PTL DEF Spec, KeepsPromise, Promise!Spec

-----------------------------------------------------------------------------
(* With a limit of one redelivery.                                         *)

\* Messages that were dispatched before.
Tried == {m \in Msgs : attempts[m] > 0}

\* What the consumer holds is of different messages, on a channel that is
\* gone too.
HeldDistinct ==
    /\ OneEach(inbox, 1..Len(inbox))
    /\ OneEach(batch, Unsettled)
    /\ Msg(inbox, 1..Len(inbox)) \cap Msg(batch, Unsettled) = {}

\* What the consumer holds of a channel that is gone was put back and marked.
GoneIsFlagged ==
    ~open => Msg(inbox, 1..Len(inbox)) \cup Msg(batch, Unsettled) \subseteq flagged

\* Back in the queue, a message that was dispatched is marked.
TriedIsFlagged == ready \cap Tried \subseteq flagged

\* Its next delivery says so, until decodeBatch reads it.
TriedIsMarked ==
    /\ \A i \in 1..Len(inbox) : inbox[i].msg \in Tried => inbox[i].redelivered
    /\ pc = "collect" =>
          \A i \in 1..Len(batch) : batch[i].msg \in Tried => batch[i].redelivered

\* So what decodeBatch lets through was not dispatched before.
GoodIsUntried ==
    \A i \in good : batch[i].msg \in Tried =>
        pc = "settle" /\ \A j \in good : i <= j

TriedOnce == \A m \in Msgs : attempts[m] <= 1

OnceInv ==
    /\ HeldDistinct /\ GoneIsFlagged /\ TriedIsFlagged
    /\ TriedIsMarked /\ GoodIsUntried /\ TriedOnce

\* No step makes the consumer hold a message twice.
LEMMA HeldDistinctStep ==
  ASSUME TypeInv, Placed, HeldDistinct, [Next]_vars, Placed'
  PROVE  HeldDistinct'
<1>1. CASE open'
  BY <1>1 DEF Placed, HeldDeliveriesAreUnacked, HeldDistinct
<1>2. CASE inbox' = <<>> /\ Unsettled' = {}
  <2>1. OneEach(inbox, 1..Len(inbox))' /\ OneEach(batch, Unsettled)'
    BY <1>2 DEF OneEach
  <2>2. Msg(inbox, 1..Len(inbox))' = {}
    BY <1>2 DEF Msg
  <2> QED
    BY <2>1, <2>2 DEF HeldDistinct
<1>3. ASSUME UNCHANGED <<inbox, batch>>, Unsettled' = Unsettled
      PROVE  HeldDistinct'
  <2>1. /\ OneEach(inbox, 1..Len(inbox))' <=> OneEach(inbox, 1..Len(inbox))
        /\ OneEach(batch, Unsettled)' <=> OneEach(batch, Unsettled)
    BY <1>3 DEF OneEach
  <2>2. /\ Msg(inbox, 1..Len(inbox))' = Msg(inbox, 1..Len(inbox))
        /\ Msg(batch, Unsettled)' = Msg(batch, Unsettled)
    BY <1>3 DEF Msg
  <2> QED
    BY <2>1, <2>2 DEF HeldDistinct
<1>4. ASSUME UNCHANGED <<inbox, batch>>,
             NEW i \in Unsettled, Unsettled' = Unsettled \ {i}
      PROVE  HeldDistinct'
  <2>1. /\ OneEach(inbox, 1..Len(inbox))' <=> OneEach(inbox, 1..Len(inbox))
        /\ Msg(inbox, 1..Len(inbox))' = Msg(inbox, 1..Len(inbox))
    BY <1>4 DEF OneEach, Msg
  <2>2. OneEach(batch, Unsettled)'
    BY <1>4 DEF HeldDistinct, OneEach
  <2>3. Msg(batch, Unsettled)' \subseteq Msg(batch, Unsettled)
    BY <1>4 DEF Msg
  <2> QED
    BY <2>1, <2>2, <2>3 DEF HeldDistinct
<1>5. CASE Collect
  <2> DEFINE d == Head(inbox)
  <2>1. /\ inbox \in Seq(Deliveries) /\ batch \in Seq(Deliveries)
        /\ inbox # <<>> /\ pc = "collect" /\ pc' = "collect"
        /\ batch' = Append(batch, d) /\ inbox' = Tail(inbox)
    BY <1>5 DEF Collect, TypeInv, TypeOK
  <2>2. /\ d \in Deliveries
        /\ Msg(inbox, 1..Len(inbox)) = {d.msg} \cup Msg(inbox', 1..Len(inbox'))
        /\ OneEach(inbox, 1..Len(inbox)) =>
              /\ OneEach(inbox', 1..Len(inbox'))
              /\ d.msg \notin Msg(inbox', 1..Len(inbox'))
    BY <2>1, TailMsg
  <2> HIDE DEF d
  <2>3. /\ Msg(batch', 1..Len(batch')) = Msg(batch, 1..Len(batch)) \cup {d.msg}
        /\ OneEach(batch, 1..Len(batch)) /\ d.msg \notin Msg(batch, 1..Len(batch))
             => OneEach(batch', 1..Len(batch'))
    BY <2>1, <2>2, AppendMsg
  <2>4. Unsettled = 1..Len(batch) /\ Unsettled' = 1..Len(batch')
    BY <2>1 DEF Unsettled
  <2>5. /\ OneEach(inbox, 1..Len(inbox)) /\ OneEach(batch, 1..Len(batch))
        /\ Msg(inbox, 1..Len(inbox)) \cap Msg(batch, 1..Len(batch)) = {}
    BY <2>4 DEF HeldDistinct
  <2>6. /\ OneEach(inbox', 1..Len(inbox')) /\ OneEach(batch', 1..Len(batch'))
        /\ Msg(inbox', 1..Len(inbox')) \cap Msg(batch', 1..Len(batch')) = {}
    BY <2>2, <2>3, <2>5
  <2>7. /\ OneEach(inbox, 1..Len(inbox))' <=> OneEach(inbox', 1..Len(inbox'))
        /\ OneEach(batch, Unsettled)' <=> OneEach(batch', Unsettled')
        /\ Msg(inbox, 1..Len(inbox))' = Msg(inbox', 1..Len(inbox'))
        /\ Msg(batch, Unsettled)' = Msg(batch', Unsettled')
    BY DEF OneEach, Msg
  <2> QED
    BY <2>4, <2>6, <2>7 DEF HeldDistinct
<1>6. CASE Flush
  <2>1. UNCHANGED <<inbox, batch>> /\ Unsettled' = Unsettled
    BY <1>6 DEF Flush, channelVars, Unsettled
  <2> QED
    BY <2>1, <1>3
<1>7. CASE NackPoison
  <2>1. PICK i \in poison : poison' = poison \ {i} /\ UNCHANGED <<inbox, batch>>
                            /\ pc = "poison" /\ pc' = pc /\ good' = good
    BY <1>7 DEF NackPoison, channelVars
  <2>2. i \in Unsettled /\ Unsettled' = Unsettled \ {i}
    BY <2>1 DEF Unsettled, TypeInv, Control
  <2> QED
    BY <2>1, <2>2, <1>4
<1>8. CASE Settle
  <2>1. PICK i \in good : good' = good \ {i} /\ UNCHANGED <<inbox, batch>>
                          /\ pc = "settle" /\ pc' = "dispatch" /\ poison' = poison
    BY <1>8 DEF Settle, channelVars
  <2>2. i \in Unsettled /\ Unsettled' = Unsettled \ {i}
    BY <2>1 DEF Unsettled, TypeInv, Control
  <2> QED
    BY <2>1, <2>2, <1>4
<1>9. CASE Dispatch \/ ConnectionLost
  <2>1. UNCHANGED <<inbox, batch>> /\ Unsettled' = Unsettled
    BY <1>9 DEF Dispatch, ConnectionLost, batchVars, channelVars, Unsettled
  <2> QED
    BY <2>1, <1>3
<1>10. CASE Stop \/ BeginCollect \/ BeginDispatch \/ Cancel \/ EndBatch \/ UNCHANGED vars
  <2>1. UNCHANGED <<inbox, poison, good>>
    BY <1>10 DEF Stop, BeginCollect, BeginDispatch, Cancel, EndBatch, vars,
                 channelVars, batchVars
  <2>2. CASE EndBatch
    <3>1. Unsettled = {} /\ Unsettled' = {}
      BY <2>1, <2>2 DEF EndBatch, TypeInv, Control, Unsettled
    <3>2. OneEach(inbox, 1..Len(inbox))' <=> OneEach(inbox, 1..Len(inbox))
      BY <2>1 DEF OneEach
    <3>3. OneEach(batch, Unsettled)' /\ Msg(batch, Unsettled)' = {}
      BY <3>1 DEF OneEach, Msg
    <3> QED
      BY <3>2, <3>3 DEF HeldDistinct
  <2>3. CASE BeginCollect
    <3>1. UNCHANGED batch /\ Unsettled = {} /\ Unsettled' = {}
      BY <2>1, <2>3 DEF BeginCollect, batchVars, TypeInv, Control, Unsettled
    <3> QED
      BY <2>1, <3>1, <1>3
  <2>4. CASE Stop \/ BeginDispatch \/ Cancel \/ UNCHANGED vars
    <3>1. UNCHANGED batch /\ Unsettled' = Unsettled
      BY <2>1, <2>4 DEF Stop, BeginDispatch, Cancel, vars, batchVars, Unsettled
    <3> QED
      BY <2>1, <3>1, <1>3
  <2> QED
    BY <1>10, <2>2, <2>3, <2>4
<1>11. CASE EndSession \/ Crash \/ Exit
  <2>1. inbox' = <<>> /\ poison' = {} /\ good' = {} /\ pc' # "collect"
    BY <1>11 DEF EndSession, Crash, Exit, Gone, TypeInv, Control
  <2>2. Unsettled' = {}
    BY <2>1 DEF Unsettled
  <2> QED
    BY <2>1, <2>2, <1>2
<1>12. CASE OpenSession \/ \E m \in Msgs : Deliver(m)
  <2>1. CASE OpenSession
    BY <1>1, <2>1, Zenon DEF OpenSession
  <2>2. CASE \E m \in Msgs : Deliver(m)
    BY <1>1, <2>2 DEF Deliver
  <2> QED
    BY <1>12, <2>1, <2>2
<1> QED
  BY <1>5, <1>6, <1>7, <1>8, <1>9, <1>10, <1>11, <1>12 DEF Next, SessionStep

\* What the consumer holds.
Held == Msg(inbox, 1..Len(inbox)) \cup Msg(batch, Unsettled)

\* The dispatch of the next good delivery is counted for its message.
LEMMA DispatchCounts ==
  ASSUME TypeInv, Dispatch
  PROVE  /\ pc = "dispatch" /\ pc' = "settle"
         /\ UNCHANGED <<ready, flagged, unacked, open, inbox, batch, poison, good>>
         /\ \E i \in good :
               /\ \A j \in good : i <= j
               /\ Tried' \subseteq Tried \cup {batch[i].msg}
               /\ \A m \in Msgs : \/ attempts'[m] = attempts[m]
                                  \/ m = batch[i].msg /\ attempts'[m] = attempts[m] + 1
<1>1. /\ pc = "dispatch" /\ pc' = "settle"
      /\ UNCHANGED <<ready, flagged, unacked, open, inbox, batch, poison, good>>
  BY DEF Dispatch, brokerVars, channelVars
<1>2. PICK i \in good :
         /\ \A j \in good : i <= j
         /\ attempts' = IF attempts[batch[i].msg] < AttemptCap
                        THEN [attempts EXCEPT ![batch[i].msg] = @ + 1]
                        ELSE attempts
  BY DEF Dispatch
<1>3. attempts \in [Msgs -> 0..AttemptCap]
  BY DEF TypeInv, TypeOK
<1>4. ASSUME NEW m \in Msgs
      PROVE  \/ attempts'[m] = attempts[m]
             \/ m = batch[i].msg /\ attempts'[m] = attempts[m] + 1
  BY <1>2, <1>3
<1>5. Tried' \subseteq Tried \cup {batch[i].msg}
  BY <1>4 DEF Tried
<1> QED
  BY <1>1, <1>2, <1>4, <1>5

\* The other steps count nothing.
LEMMA OthersCountNothing ==
  ASSUME [Next]_vars, ~Dispatch
  PROVE  attempts' = attempts /\ Tried' = Tried
<1>1. attempts' = attempts
  BY DEF Next, SessionStep, OpenSession, Stop, BeginCollect, Collect, Flush, EndSession,
         NackPoison, BeginDispatch, Settle, EndBatch, Deliver, ConnectionLost, Crash,
         Cancel, Exit, historyVars, vars
<1> QED
  BY <1>1 DEF Tried

\* What comes back to the queue is marked, and marks stay.
LEMMA MarksStay ==
  ASSUME TypeInv, [Next]_vars
  PROVE  flagged \subseteq flagged' /\ ready' \subseteq ready \cup flagged'
<1>1. CASE EndSession \/ Crash \/ Exit \/ ConnectionLost
  <2>1. CloseChannel
    BY <1>1 DEF EndSession, Crash, Exit, Gone, ConnectionLost
  <2> QED
    BY <2>1 DEF CloseChannel
<1>2. CASE Settle
  BY <1>2 DEF Settle, SettleRequeue, SettleAck, brokerVars
<1>3. CASE NackPoison
  BY <1>3 DEF NackPoison, SettleReject, brokerVars
<1>4. CASE \E m \in Msgs : Deliver(m)
  BY <1>4 DEF Deliver
<1>5. CASE \/ OpenSession \/ Stop \/ BeginCollect \/ Collect \/ Flush
           \/ BeginDispatch \/ Dispatch \/ EndBatch \/ Cancel \/ UNCHANGED vars
  BY <1>5 DEF OpenSession, Stop, BeginCollect, Collect, Flush, BeginDispatch, Dispatch,
              EndBatch, Cancel, vars, brokerVars
<1> QED
  BY <1>1, <1>2, <1>3, <1>4, <1>5 DEF Next, SessionStep

\* What a channel that is gone leaves with the consumer is marked.
LEMMA GoneFlaggedStep ==
  ASSUME TypeInv, Placed, GoneIsFlagged, [Next]_vars
  PROVE  GoneIsFlagged'
<1>1. flagged \subseteq flagged'
  BY MarksStay
<1>2. GoneIsFlagged <=> (~open => Held \subseteq flagged)
  BY DEF GoneIsFlagged, Held
<1>3. GoneIsFlagged' <=> (~open' => Held' \subseteq flagged')
  BY DEF GoneIsFlagged, Held
<1>4. ASSUME Held' \subseteq Held, open' \/ (open' <=> open)
      PROVE  GoneIsFlagged'
  BY <1>1, <1>2, <1>3, <1>4
<1>5. CASE OpenSession \/ \E m \in Msgs : Deliver(m)
  <2>1. open'
    <3>1. CASE OpenSession
      BY <3>1, Zenon DEF OpenSession
    <3>2. CASE \E m \in Msgs : Deliver(m)
      BY <3>2 DEF Deliver
    <3> QED
      BY <1>5, <3>1, <3>2
  <2> QED
    BY <2>1, <1>3
<1>6. CASE EndSession \/ Crash \/ Exit
  <2>1. inbox' = <<>> /\ poison' = {} /\ good' = {} /\ pc' # "collect"
    BY <1>6 DEF EndSession, Crash, Exit, Gone, TypeInv, Control
  <2>2. Held' = {}
    BY <2>1 DEF Held, Unsettled, Msg
  <2> QED
    BY <2>2, <1>3
<1>7. CASE ConnectionLost
  <2>1. open /\ flagged' = flagged \cup unacked /\ UNCHANGED <<inbox, batch, pc, poison, good>>
    BY <1>7 DEF ConnectionLost, CloseChannel, batchVars
  <2>2. Held' = Held
    BY <2>1 DEF Held, Unsettled, Msg
  <2>3. Held = unacked
    BY <2>1 DEF Placed, HeldDeliveriesAreUnacked, Held
  <2> QED
    BY <2>1, <2>2, <2>3, <1>3
<1>8. CASE Collect
  <2>1. /\ inbox \in Seq(Deliveries) /\ batch \in Seq(Deliveries)
        /\ inbox # <<>> /\ pc = "collect" /\ pc' = "collect" /\ open' = open
        /\ batch' = Append(batch, Head(inbox)) /\ inbox' = Tail(inbox)
    BY <1>8 DEF Collect, TypeInv, TypeOK
  <2>2. /\ Head(inbox) \in Deliveries
        /\ Msg(inbox, 1..Len(inbox)) = {Head(inbox).msg} \cup Msg(inbox', 1..Len(inbox'))
    BY <2>1, TailMsg
  <2>3. Msg(batch', 1..Len(batch')) = Msg(batch, 1..Len(batch)) \cup {Head(inbox).msg}
    BY <2>1, <2>2, AppendMsg
  <2>4. Unsettled = 1..Len(batch) /\ Unsettled' = 1..Len(batch')
    BY <2>1 DEF Unsettled
  <2>5. /\ Msg(inbox, 1..Len(inbox))' = Msg(inbox', 1..Len(inbox'))
        /\ Msg(batch, Unsettled)' = Msg(batch', Unsettled')
    BY DEF Msg
  <2>6. Held' \subseteq Held
    BY <2>2, <2>3, <2>4, <2>5 DEF Held
  <2> QED
    BY <2>1, <2>6, <1>4
<1>9. ASSUME UNCHANGED <<inbox, batch>>, Unsettled' \subseteq Unsettled, UNCHANGED open
      PROVE  GoneIsFlagged'
  <2>1. Held' \subseteq Held
    BY <1>9 DEF Held, Msg
  <2> QED
    BY <2>1, <1>9, <1>4
<1>10. CASE Flush \/ NackPoison \/ Dispatch \/ Settle \/ BeginDispatch \/ Stop \/ Cancel
            \/ BeginCollect \/ UNCHANGED vars
  <2>1. UNCHANGED <<inbox, batch>> /\ UNCHANGED open
    BY <1>10 DEF Flush, NackPoison, Dispatch, Settle, BeginDispatch, Stop, Cancel,
                 BeginCollect, vars, batchVars, channelVars
  <2>2. Unsettled' \subseteq Unsettled
    <3>1. CASE BeginCollect
      BY <3>1 DEF BeginCollect, batchVars, TypeInv, Control, Unsettled
    <3>2. CASE Flush
      BY <3>2 DEF Flush, Unsettled
    <3>3. CASE NackPoison \/ Settle
      BY <3>3 DEF NackPoison, Settle, Unsettled
    <3>4. CASE Dispatch \/ BeginDispatch \/ Stop \/ Cancel \/ UNCHANGED vars
      BY <3>4 DEF Dispatch, BeginDispatch, Stop, Cancel, vars, batchVars, Unsettled
    <3> QED
      BY <1>10, <3>1, <3>2, <3>3, <3>4
  <2> QED
    BY <2>1, <2>2, <1>9
<1>11. CASE EndBatch
  <2>1. Unsettled' = {} /\ UNCHANGED inbox /\ UNCHANGED open
    BY <1>11 DEF EndBatch, channelVars, TypeInv, Control, Unsettled
  <2>2. Held' \subseteq Held
    BY <2>1 DEF Held, Msg
  <2> QED
    BY <2>1, <2>2, <1>4
<1> QED
  BY <1>5, <1>6, <1>7, <1>8, <1>10, <1>11 DEF Next, SessionStep

\* What was dispatched and is back in the queue is marked.
LEMMA TriedFlaggedStep ==
  ASSUME TypeInv, Placed, GoneIsFlagged, TriedIsFlagged, [Next]_vars
  PROVE  TriedIsFlagged'
<1>1. flagged \subseteq flagged' /\ ready' \subseteq ready \cup flagged'
  BY MarksStay
<1>2. CASE Dispatch
  <2>1. /\ pc = "dispatch" /\ UNCHANGED <<ready, flagged>>
        /\ \E i \in good : Tried' \subseteq Tried \cup {batch[i].msg}
    BY <1>2, DispatchCounts
  <2>2. PICK i \in good : Tried' \subseteq Tried \cup {batch[i].msg}
    BY <2>1
  <2>3. batch[i].msg \in Msg(batch, Unsettled)
    BY <2>1 DEF Msg, Unsettled
  <2>4. ASSUME batch[i].msg \in ready
        PROVE  batch[i].msg \in flagged
    <3>1. CASE open
      <4>1. batch[i].msg \in unacked
        BY <2>3, <3>1 DEF Placed, HeldDeliveriesAreUnacked
      <4> QED
        BY <2>4, <4>1 DEF Placed, Conserved
    <3>2. CASE ~open
      BY <2>3, <3>2 DEF GoneIsFlagged
    <3> QED
      BY <3>1, <3>2
  <2> QED
    BY <2>1, <2>2, <2>4 DEF TriedIsFlagged
<1>3. CASE ~Dispatch
  <2>1. Tried' = Tried
    BY <1>3, OthersCountNothing
  <2> QED
    BY <1>1, <2>1 DEF TriedIsFlagged
<1> QED
  BY <1>2, <1>3

\* The next delivery of what was dispatched is marked.
LEMMA TriedMarkedStep ==
  ASSUME TypeInv, HeldDistinct, TriedIsFlagged, TriedIsMarked, [Next]_vars
  PROVE  TriedIsMarked'
<1>1. inbox \in Seq(Deliveries) /\ batch \in Seq(Deliveries)
  BY DEF TypeInv, TypeOK
<1>2. CASE Dispatch
  <2>1. /\ pc = "dispatch" /\ pc' = "settle" /\ UNCHANGED <<inbox>>
        /\ \E i \in good : Tried' \subseteq Tried \cup {batch[i].msg}
    BY <1>2, DispatchCounts
  <2>2. PICK i \in good : Tried' \subseteq Tried \cup {batch[i].msg}
    BY <2>1
  <2>3. batch[i].msg \notin Msg(inbox, 1..Len(inbox))
    BY <2>1 DEF HeldDistinct, Unsettled, Msg
  <2>4. \A k \in 1..Len(inbox) : inbox[k].msg \in Tried' => inbox[k].msg \in Tried
    BY <2>2, <2>3 DEF Msg
  <2> QED
    BY <2>1, <2>4 DEF TriedIsMarked
<1>3. CASE ~Dispatch
  <2>1. Tried' = Tried
    BY <1>3, OthersCountNothing
  <2>2. CASE Collect
    <3> DEFINE d == Head(inbox)
               t == Tail(inbox)
               b == Append(batch, d)
    <3>1. /\ inbox # <<>> /\ pc = "collect" /\ batch' = b /\ inbox' = t
      BY <2>2 DEF Collect
    <3>2. /\ Len(inbox) \in Nat \ {0} /\ Len(t) = Len(inbox) - 1
          /\ \A k \in 1..Len(t) : t[k] = inbox[k + 1]
          /\ d = inbox[1]
      BY <1>1, <3>1
    <3>3. /\ Len(batch) \in Nat /\ Len(b) = Len(batch) + 1
          /\ \A k \in 1..Len(batch) : b[k] = batch[k]
          /\ b[Len(batch) + 1] = d
      BY <1>1
    <3> HIDE DEF d, t, b
    <3>4. /\ \A k \in 1..Len(inbox) : inbox[k].msg \in Tried => inbox[k].redelivered
          /\ \A k \in 1..Len(batch) : batch[k].msg \in Tried => batch[k].redelivered
      BY <3>1 DEF TriedIsMarked
    <3>5. ASSUME NEW k \in 1..Len(t), t[k].msg \in Tried
          PROVE  t[k].redelivered
      <4>1. k + 1 \in 1..Len(inbox) /\ t[k] = inbox[k + 1]
        BY <3>2
      <4> QED
        BY <3>4, <3>5, <4>1
    <3>6. ASSUME NEW k \in 1..Len(b), b[k].msg \in Tried
          PROVE  b[k].redelivered
      <4>1. CASE k \in 1..Len(batch)
        BY <3>3, <3>4, <3>6, <4>1
      <4>2. CASE k = Len(batch) + 1
        <5>1. 1 \in 1..Len(inbox) /\ b[k] = inbox[1]
          BY <3>2, <3>3, <4>2
        <5> QED
          BY <3>4, <3>6, <5>1
      <4> QED
        BY <3>3, <4>1, <4>2
    <3> QED
      BY <2>1, <3>1, <3>5, <3>6 DEF TriedIsMarked
  <2>3. ASSUME NEW m \in Msgs, Deliver(m)
        PROVE  TriedIsMarked'
    <3> DEFINE d == [msg |-> m, redelivered |-> m \in flagged]
               t == Append(inbox, d)
    <3>1. m \in ready /\ inbox' = t /\ batch' = batch /\ pc' = pc
      BY <2>3 DEF Deliver, batchVars
    <3>2. /\ Len(inbox) \in Nat /\ Len(t) = Len(inbox) + 1
          /\ \A k \in 1..Len(inbox) : t[k] = inbox[k]
          /\ t[Len(inbox) + 1] = d
      BY <1>1
    <3>3. d.msg = m
      OBVIOUS
    <3>4. m \in Tried => d.redelivered
      BY <3>1, Zenon DEF TriedIsFlagged
    <3> HIDE DEF d, t
    <3>5. ASSUME NEW k \in 1..Len(t), t[k].msg \in Tried
          PROVE  t[k].redelivered
      <4>1. CASE k \in 1..Len(inbox)
        BY <3>2, <3>5, <4>1 DEF TriedIsMarked
      <4>2. CASE k = Len(inbox) + 1
        BY <3>2, <3>3, <3>4, <3>5, <4>2
      <4> QED
        BY <3>2, <4>1, <4>2
    <3> QED
      BY <2>1, <3>1, <3>5 DEF TriedIsMarked
  <2>4. CASE EndSession \/ Crash \/ Exit \/ OpenSession
    <3>1. inbox' = <<>> /\ pc' # "collect"
      BY <2>4 DEF EndSession, Crash, Exit, Gone, OpenSession
    <3> QED
      BY <3>1 DEF TriedIsMarked
  <2>5. CASE BeginCollect
    <3>1. inbox' = inbox /\ batch' = <<>>
      BY <2>5 DEF BeginCollect, channelVars, batchVars, TypeInv, Control
    <3> QED
      BY <2>1, <3>1 DEF TriedIsMarked
  <2>6. CASE \/ Stop \/ Flush \/ NackPoison \/ BeginDispatch \/ Settle \/ EndBatch
             \/ ConnectionLost \/ Cancel \/ UNCHANGED vars
    <3>1. /\ inbox' = inbox
          /\ pc' = "collect" => pc = "collect" /\ batch' = batch
      BY <2>6 DEF Stop, Flush, NackPoison, BeginDispatch, Settle, EndBatch, ConnectionLost,
                  Cancel, vars, channelVars, batchVars
    <3> QED
      BY <2>1, <3>1 DEF TriedIsMarked
  <2> QED
    BY <1>3, <2>2, <2>3, <2>4, <2>5, <2>6 DEF Next, SessionStep
<1> QED
  BY <1>2, <1>3

\* With a limit of one redelivery, decodeBatch lets no marked delivery through.
LEMMA MarkedIsRejected ==
  ASSUME MaxRedeliveries = 1, NEW d \in Deliveries, d.redelivered
  PROVE  Rejected(d)
<1>1. d.msg \in Msgs
  BY DEF Deliveries
<1>2. Deaths[d.msg] \in Nat
  BY <1>1, ConsumerAssumption DEF ConsumerAssumption
<1>3. deathCount(d) >= 1
  BY <1>2 DEF deathCount
<1> QED
  BY <1>3 DEF Rejected

\* What awaits its dispatch was not dispatched before.
LEMMA GoodUntriedStep ==
  ASSUME MaxRedeliveries = 1, TypeInv, HeldDistinct, TriedIsMarked, GoodIsUntried,
         [Next]_vars
  PROVE  GoodIsUntried'
<1>1. good \subseteq Nat
  BY DEF TypeInv, TypeOK
<1>2. CASE Dispatch
  <2>1. /\ pc = "dispatch" /\ pc' = "settle" /\ UNCHANGED <<batch, good>>
        /\ \E i \in good : (\A j \in good : i <= j) /\ Tried' \subseteq Tried \cup {batch[i].msg}
    BY <1>2, DispatchCounts
  <2>2. PICK i \in good : (\A j \in good : i <= j) /\ Tried' \subseteq Tried \cup {batch[i].msg}
    BY <2>1
  <2>3. ASSUME NEW j \in good, batch[j].msg \in Tried'
        PROVE  j = i
    <3>1. batch[j].msg \notin Tried
      BY <2>1 DEF GoodIsUntried
    <3>2. batch[j].msg = batch[i].msg
      BY <2>2, <2>3, <3>1
    <3>3. i \in Unsettled /\ j \in Unsettled
      BY <2>1 DEF Unsettled
    <3> QED
      BY <3>2, <3>3 DEF HeldDistinct, OneEach
  <2> QED
    BY <2>1, <2>2, <2>3 DEF GoodIsUntried
<1>3. CASE ~Dispatch
  <2>1. Tried' = Tried
    BY <1>3, OthersCountNothing
  <2>2. CASE Flush
    <3>1. /\ pc = "collect" /\ batch' = batch
          /\ good' = {i \in 1..Len(batch) : ~Rejected(batch[i])}
      BY <2>2 DEF Flush
    <3>2. ASSUME NEW i \in good', batch[i].msg \in Tried
          PROVE  FALSE
      <4>1. i \in 1..Len(batch) /\ ~Rejected(batch[i])
        BY <3>1
      <4>2. batch[i] \in Deliveries
        BY <4>1 DEF TypeInv, TypeOK
      <4>3. batch[i].redelivered
        BY <3>1, <3>2, <4>1 DEF TriedIsMarked
      <4> QED
        BY <4>1, <4>2, <4>3, MarkedIsRejected
    <3> QED
      BY <2>1, <3>1, <3>2 DEF GoodIsUntried
  <2>3. CASE Settle
    <3>1. pc = "settle" /\ batch' = batch
      BY <2>3 DEF Settle
    <3>2. PICK i \in good : (\A j \in good : i <= j) /\ good' = good \ {i}
      BY <2>3 DEF Settle
    <3>3. ASSUME NEW j \in good', batch[j].msg \in Tried
          PROVE  FALSE
      <4>1. j \in good /\ j # i
        BY <3>2
      <4>2. j <= i /\ i <= j
        BY <3>2, <3>3, <4>1 DEF GoodIsUntried
      <4> QED
        BY <1>1, <3>2, <4>1, <4>2
    <3> QED
      BY <2>1, <3>1, <3>3 DEF GoodIsUntried
  <2>4. CASE EndSession \/ Crash \/ Exit \/ EndBatch \/ OpenSession \/ Collect
             \/ Stop \/ BeginCollect
    <3>1. good' = {}
      BY <2>4 DEF EndSession, Crash, Exit, Gone, EndBatch, OpenSession, Collect, Stop,
                  BeginCollect, batchVars, TypeInv, Control
    <3> QED
      BY <3>1 DEF GoodIsUntried
  <2>5. CASE NackPoison \/ BeginDispatch
    <3>1. pc = "poison" /\ UNCHANGED <<batch, good>>
      BY <2>5 DEF NackPoison, BeginDispatch, batchVars
    <3> QED
      BY <2>1, <3>1 DEF GoodIsUntried
  <2>6. CASE ConnectionLost \/ Cancel \/ UNCHANGED vars \/ \E m \in Msgs : Deliver(m)
    <3>1. UNCHANGED <<batch, good, pc>>
      BY <2>6 DEF ConnectionLost, Cancel, Deliver, vars, batchVars
    <3> QED
      BY <2>1, <3>1 DEF GoodIsUntried
  <2> QED
    BY <1>3, <2>2, <2>3, <2>4, <2>5, <2>6 DEF Next, SessionStep
<1> QED
  BY <1>2, <1>3

\* A dispatch is the first of its message.
LEMMA TriedOnceStep ==
  ASSUME TypeInv, GoodIsUntried, TriedOnce, [Next]_vars
  PROVE  TriedOnce'
<1>1. attempts \in [Msgs -> 0..AttemptCap] /\ AttemptCap \in Nat
  BY ConsumerAssumption DEF TypeInv, TypeOK, ConsumerAssumption
<1>2. CASE Dispatch
  <2>1. /\ pc = "dispatch"
        /\ \E i \in good : \A m \in Msgs :
              \/ attempts'[m] = attempts[m]
              \/ m = batch[i].msg /\ attempts'[m] = attempts[m] + 1
    BY <1>2, DispatchCounts
  <2>2. PICK i \in good : \A m \in Msgs :
              \/ attempts'[m] = attempts[m]
              \/ m = batch[i].msg /\ attempts'[m] = attempts[m] + 1
    BY <2>1
  <2>3. batch[i].msg \in Msgs /\ batch[i].msg \notin Tried
    BY <2>1, BatchMsg DEF GoodIsUntried, TypeInv, TypeOK
  <2>4. attempts[batch[i].msg] = 0
    BY <1>1, <2>3 DEF Tried
  <2> QED
    BY <2>2, <2>4 DEF TriedOnce
<1>3. CASE ~Dispatch
  BY <1>3, OthersCountNothing DEF TriedOnce
<1> QED
  BY <1>2, <1>3

\* With a limit of one, no message is dispatched twice, through any number of
\* lost connections and crashes: what comes back is marked as redelivered and
\* goes to the dead-letter queue.  The price is that a redelivery caused by a
\* lost channel buries a message that never failed.  With a higher limit
\* no such bound holds: see RedeliveryLimit.
THEOREM LimitOfOne ==
  ASSUME MaxRedeliveries = 1
  PROVE  Spec => []TriedOnce
<1>1. Init => OnceInv
  <2> SUFFICES ASSUME Init PROVE OnceInv
    OBVIOUS
  <2>1. /\ inbox = <<>> /\ batch = <<>> /\ good = {} /\ Unsettled = {} /\ ready = Msgs
        /\ attempts = [m \in Msgs |-> 0]
    BY DEF Init, Unsettled
  <2>2. Tried = {} /\ TriedOnce
    BY <2>1 DEF Tried, TriedOnce
  <2>3. HeldDistinct
    BY <2>1 DEF HeldDistinct, OneEach, Msg
  <2>4. GoneIsFlagged
    BY <2>1 DEF GoneIsFlagged, Msg
  <2> QED
    BY <2>1, <2>2, <2>3, <2>4 DEF OnceInv, TriedIsFlagged, TriedIsMarked, GoodIsUntried
<1>2. ASSUME TypeInv, Placed, Placed', OnceInv, [Next]_vars
      PROVE  OnceInv'
  <2>1. HeldDistinct'
    BY <1>2, HeldDistinctStep DEF OnceInv
  <2>2. GoneIsFlagged'
    BY <1>2, GoneFlaggedStep DEF OnceInv
  <2>3. TriedIsFlagged'
    BY <1>2, TriedFlaggedStep DEF OnceInv
  <2>4. TriedIsMarked'
    BY <1>2, TriedMarkedStep DEF OnceInv
  <2>5. GoodIsUntried'
    BY <1>2, GoodUntriedStep DEF OnceInv
  <2>6. TriedOnce'
    BY <1>2, TriedOnceStep DEF OnceInv
  <2> QED
    BY <2>1, <2>2, <2>3, <2>4, <2>5, <2>6 DEF OnceInv
<1>3. OnceInv => TriedOnce
  BY DEF OnceInv
<1> QED
  BY <1>1, <1>2, <1>3, TypeInvariance, Placement, PTL DEF Spec
=============================================================================
