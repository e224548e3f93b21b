--------------------------- MODULE LifecycleProofs ---------------------------
(***************************************************************************)
(* Proofs about module ConnectionManager, for any callers, any number of   *)
(* connections and any delays, and about module Lifecycle: run() from its  *)
(* first step to its last deferred call.                                   *)
(***************************************************************************)
EXTENDS Lifecycle, TLAPS, FiniteSetTheorems, SequenceTheorems

-----------------------------------------------------------------------------
(* The manager by itself: its inductive invariant.  AtMostOneOpen does not *)
(* say where the loop is when it dials, which is why the dial finds no     *)
(* connection open.                                                        *)

\* The loop runs from Connect on, and Close goes on when it has ended.
LoopFollowsOwner ==
    /\ owner \in {"new", "failed"} => loop = "off"
    /\ owner = "connected" => loop \notin {"off", "done"}
    /\ owner = "closing" => loop # "off"
    /\ owner \in {"locking", "closed"} => loop = "done"

\* What is open at each stage of the loop: nothing when it dials, and only
\* what it has dialled when it is about to store that.
OpenByStage ==
    /\ loop \in {"off", "wait", "dial"} => open = {}
    /\ loop = "store" => fresh # 0 /\ open \subseteq {fresh}
    /\ loop # "store" => fresh = 0
    /\ loop \in {"read", "watch", "done"} => open \subseteq {conn}
    /\ loop = "watch" => watched = conn
    /\ owner = "closed" => open = {}

CMInv == CMTypeOK /\ LoopFollowsOwner /\ OpenByStage

-----------------------------------------------------------------------------
\* Init has the invariant: nothing is open.
LEMMA CMInitially == CMInit => CMInv
BY ConnectionManagerAssumption
   DEF ConnectionManagerAssumption, CMInit, CMInv, CMTypeOK, LoopFollowsOwner, OpenByStage

\* The network, Connect and the steps of the loop.
LEMMA LoopKeeps ==
  ASSUME CMInv, LoopStep \/ Connect \/ ConnectFails
  PROVE  CMInv'
<1> USE ConnectionManagerAssumption
    DEF ConnectionManagerAssumption, CMInv, CMTypeOK, LoopFollowsOwner, OpenByStage
<1>1. CASE Connect
  BY <1>1 DEF Connect, Establish
<1>2. CASE ConnectFails
  BY <1>2 DEF ConnectFails
<1>3. CASE ReadConn
  BY <1>3 DEF ReadConn
<1>4. CASE NoticeLoss
  BY <1>4 DEF NoticeLoss
<1>5. CASE StopLoop
  BY <1>5 DEF StopLoop
<1>6. CASE DelayOver
  BY <1>6 DEF DelayOver
<1>7. CASE DialFails
  BY <1>7 DEF DialFails
<1>8. CASE DialSucceeds
  BY <1>8 DEF DialSucceeds, Establish
<1>9. CASE Store
  BY <1>9 DEF Store
<1> QED
  BY <1>1, <1>2, <1>3, <1>4, <1>5, <1>6, <1>7, <1>8, <1>9 DEF LoopStep

\* Every step keeps the inductive invariant.  It is used again for the steps
\* of the manager inside the process.
LEMMA CMStep ==
  ASSUME CMInv, [CMNext]_cmVars
  PROVE  CMInv'
<1> USE DEF CMInv, CMTypeOK, LoopFollowsOwner, OpenByStage
<1>1. CASE LoopStep \/ Connect \/ ConnectFails
  BY <1>1, LoopKeeps
<1>2. ASSUME NEW c \in 1..MaxConns, Break(c)
      PROVE  CMInv'
  BY <1>2 DEF Break
<1>3. ASSUME NEW u \in Callers, BeginChannel(u) \/ EndChannel(u)
      PROVE  CMInv'
  BY <1>3 DEF BeginChannel, EndChannel
<1>4. CASE BeginClose \/ LoopEnded
  BY <1>4 DEF BeginClose, LoopEnded
<1>5. CASE FinishClose
  BY <1>5 DEF FinishClose
<1>6. CASE UNCHANGED cmVars
  BY <1>6 DEF cmVars
<1> QED
  BY <1>1, <1>2, <1>3, <1>4, <1>5, <1>6 DEF CMNext

\* The inductive invariant holds of every behaviour of the manager.
THEOREM CMInvariance == CMSpec => []CMInv
<1>1. CMInv /\ [CMNext]_cmVars => CMInv'
  BY CMStep
<1> QED
  BY <1>1, CMInitially, PTL DEF CMSpec

-----------------------------------------------------------------------------
(* What follows for the manager.                                           *)

\* What is open is one connection: the one stored, or the one just dialled.
LEMMA CMInvImplies == CMInv => AtMostOneOpen
<1> SUFFICES ASSUME CMInv PROVE AtMostOneOpen
  OBVIOUS
<1> USE DEF CMInv, CMTypeOK, LoopFollowsOwner, OpenByStage
<1>1. PICK c : open \subseteq {c}
  OBVIOUS
<1>2. Cardinality(open) <= 1
  <2>1. open = {} \/ open = {c}
    BY <1>1
  <2>2. Cardinality({}) = 0
    BY FS_EmptySet, Zenon
  <2>3. Cardinality({c}) = 1
    BY FS_Singleton, Zenon
  <2> HIDE DEF CMInv, CMTypeOK, LoopFollowsOwner, OpenByStage
  <2> QED
    BY <2>1, <2>2, <2>3
<1>3. open \subseteq {conn, fresh}
  OBVIOUS
<1>4. owner \in {"closed", "failed"} => open = {} /\ loop \in {"off", "done"}
  OBVIOUS
<1> QED
  BY <1>2, <1>3, <1>4 DEF AtMostOneOpen

\* The loop never dials beside a connection that works, the one that is open
\* is the one the manager has or has just dialled, and Close leaves none:
\* AtMostOneOpen, of Connect, connectLoop, dial and Close, is an invariant.
THEOREM OneOpen == CMSpec => [](CMTypeOK /\ AtMostOneOpen)
<1>1. CMInv => CMTypeOK
  BY DEF CMInv
<1> QED
  BY <1>1, CMInvImplies, CMInvariance, PTL

-----------------------------------------------------------------------------
(* The inductive invariant of run().  No property says how far run() has   *)
(* come; the stack of deferred calls does: what is on it is open, and what *)
(* lies above a call is done before it.                                    *)

\* What run() defers, in the order of Steps, and how many of these calls it
\* has deferred when it is at step k.
DeferOrder ==
    << "tracer", "postgres", "redis", "rabbitmq", "buffer", "context", "providers" >>

DeferredBy(k) ==
    CASE k \in 1..2   -> 0
      [] k = 3        -> 1
      [] k \in 4..5   -> 2
      [] k \in 6..7   -> 3
      [] k \in 8..9   -> 4
      [] k \in 10..11 -> 5
      [] k \in 12..13 -> 6
      [] OTHER        -> 7

Depth == Len(defers)

\* The stack holds the first calls of DeferOrder, all that the start-up has
\* come by as long as nothing is unwound.
DefersInOrder ==
    /\ Depth <= 7
    /\ \A i \in 1..Depth : defers[i] = DeferOrder[i]
    /\ phase = "starting" => Depth = DeferredBy(at) /\ ~cancelled
    /\ phase \in {"serving", "draining"} => Depth = 7
    /\ phase = "exited" => Depth = 0

\* The calls that close something: all but those of the manager and the
\* context.  The second and the fifth, of the pool and the buffer, close it
\* before they return.
Closing == {1, 2, 3, 5, 7}
Waiting == {2, 5}

\* What is open is what a call that is still deferred will close.
UpWhileDeferred ==
    \A i \in Closing :
        /\ DeferOrder[i] \in up => i <= Depth
        /\ i < Depth => DeferOrder[i] \in up
        /\ i = Depth /\ (phase # "unwinding" \/ i \notin Waiting) => DeferOrder[i] \in up

\* The manager is connected until the calls deferred after its own are done.
ManagerWhileDeferred ==
    /\ Depth > 4 => owner = "connected"
    /\ Depth = 4 => /\ owner \in {"connected", "closing", "locking"}
                    /\ phase # "unwinding" => owner = "connected"
    /\ Depth < 4 => /\ owner \in {"new", "failed", "closed"}
                    /\ phase = "starting" => owner = "new"

\* A goroutine is at work only as long as what it uses is not closed.
JobsWhileServed ==
    /\ workers = "running" => Depth >= 5
    /\ consumer = "running" /\ ~cancelled => Depth >= 6
    /\ hub = "running" /\ ~cancelled => Depth >= 6
    /\ borrowed # {} => Depth >= 2

RunInv == DefersInOrder /\ UpWhileDeferred /\ ManagerWhileDeferred /\ JobsWhileServed

\* TypeOK, with what the variables of run() need of it set apart.
RunTypeOK ==
    /\ phase \in {"starting", "serving", "draining", "unwinding", "exited", "killed"}
    /\ at \in 1..17
    /\ defers \in Seq(Deferring)
    /\ up \subseteq Deferring \ {"context", "rabbitmq"}
    /\ cancelled \in BOOLEAN
    /\ workers \in {"none", "running", "stopped"}
    /\ consumer \in {"none", "running", "stopped"}
    /\ hub \in {"none", "running", "stopped"}
    /\ request \in BOOLEAN
    /\ borrowed \subseteq Borrowers

LifeInv == CMInv /\ RunTypeOK /\ RunInv

-----------------------------------------------------------------------------
(* The steps of the start-up and the order of the calls.                   *)

\* The order of the deferred calls, by place.
LEMMA OrderOfCalls ==
  /\ DeferOrder[1] = "tracer"   /\ DeferOrder[2] = "postgres"
  /\ DeferOrder[3] = "redis"    /\ DeferOrder[4] = "rabbitmq"
  /\ DeferOrder[5] = "buffer"   /\ DeferOrder[6] = "context"
  /\ DeferOrder[7] = "providers"
BY DEF DeferOrder

\* run() has 16 steps.
LEMMA StepsLength == Len(Steps) = 16
BY DEF Steps

\* What each step adds to the stack, and where it finds it.
LEMMA StepTable ==
  ASSUME NEW s, at \in 1..17, AtStep(s)
  PROVE  /\ at \in 1..16
         /\ s \in Deferring => /\ DeferredBy(at + 1) = DeferredBy(at) + 1
                               /\ DeferOrder[DeferredBy(at) + 1] = s
         /\ s \notin Deferring => DeferredBy(at + 1) = DeferredBy(at)
         /\ s \in Deferring => DeferredBy(at) \in 0..6
         /\ s = "rabbitmq" => DeferredBy(at) = 3
         /\ s # "rabbitmq" => DeferredBy(at) # 3 \/ s \notin Deferring
         /\ s = "buffer" => DeferredBy(at) = 4
         /\ s = "hub" => DeferredBy(at) = 6
         /\ s = "consumer" => DeferredBy(at) = 7
         /\ DeferredBy(at) \in 0..7
<1>1. at \in 1..16 /\ s = Steps[at]
  BY StepsLength DEF AtStep
<1>2. CASE at \in 1..5
  BY <1>1, <1>2 DEF Steps, DeferredBy, DeferOrder, Deferring
<1>3. CASE at \in 6..10
  BY <1>1, <1>3 DEF Steps, DeferredBy, DeferOrder, Deferring
<1>4. CASE at \in 11..16
  BY <1>1, <1>4 DEF Steps, DeferredBy, DeferOrder, Deferring
<1> QED
  BY <1>1, <1>2, <1>3, <1>4

\* The stack of deferred calls holds those reached so far.
LEMMA DepthFacts ==
  ASSUME RunTypeOK, DefersInOrder
  PROVE  /\ Depth \in 0..7
         /\ defers # <<>> <=> Depth > 0
         /\ defers \in Seq(Deferring)
<1>1. defers \in Seq(Deferring) /\ Depth <= 7
  BY DEF RunTypeOK, DefersInOrder
<1>2. Depth \in Nat
  BY <1>1 DEF Depth
<1>3. defers # <<>> <=> Depth > 0
  BY <1>1, EmptySeq DEF Depth
<1> QED
  BY <1>1, <1>2, <1>3

\* The call that is run is the last of the stack, and says how long that is.
LEMMA CallingStage ==
  ASSUME RunTypeOK, DefersInOrder, NEW d, Calling(d)
  PROVE  /\ phase = "unwinding"
         /\ Depth \in 1..7
         /\ d = DeferOrder[Depth]
<1>1. defers # <<>> /\ phase = "unwinding" /\ d = defers[Depth]
  BY DEF Calling, Last, Depth
<1>2. Depth \in 1..7
  BY <1>1, DepthFacts
<1> QED
  BY <1>1, <1>2 DEF DefersInOrder

\* A deferred call that has returned leaves the stack, from the top.
LEMMA ReturnPops ==
  ASSUME RunTypeOK, DefersInOrder, defers # <<>>, Return
  PROVE  /\ defers' \in Seq(Deferring)
         /\ Depth' = Depth - 1
         /\ \A i \in 1..Depth' : defers'[i] = DeferOrder[i]
<1>1. /\ defers \in Seq(Deferring) /\ Depth \in 1..7
      /\ \A i \in 1..Depth : defers[i] \in Deferring /\ defers[i] = DeferOrder[i]
  <2>1. \A i \in 1..Depth : defers[i] \in Deferring
    BY DepthFacts, ElementOfSeq DEF Depth
  <2> QED
    BY <2>1, DepthFacts DEF DefersInOrder
<1>2. defers' = SubSeq(defers, 1, Depth - 1)
  BY DEF Return, Front, Depth
<1>3. /\ SubSeq(defers, 1, Depth - 1) \in Seq(Deferring)
      /\ Len(SubSeq(defers, 1, Depth - 1)) =
           IF 1 <= Depth - 1 THEN Depth - 1 - 1 + 1 ELSE 0
      /\ \A i \in 1..(Depth - 1 - 1 + 1) :
           SubSeq(defers, 1, Depth - 1)[i] = defers[1 + i - 1]
  BY <1>1, SubSeqProperties
<1>4. Depth' = Len(SubSeq(defers, 1, Depth - 1))
  BY <1>2 DEF Depth
<1>5. Depth' = Depth - 1
  BY <1>1, <1>3, <1>4
<1>6. ASSUME NEW i \in 1..(Depth - 1)
      PROVE  defers'[i] = DeferOrder[i]
  <2>1. i \in 1..(Depth - 1 - 1 + 1) /\ 1 + i - 1 = i /\ i \in 1..Depth
    BY <1>1
  <2> QED
    BY <1>1, <1>2, <1>3, <2>1
<1> QED
  BY <1>2, <1>3, <1>5, <1>6

\* A defer statement puts its call on top.
LEMMA AppendPushes ==
  ASSUME RunTypeOK, DefersInOrder, NEW s \in Deferring, defers' = Append(defers, s)
  PROVE  /\ defers' \in Seq(Deferring)
         /\ Depth' = Depth + 1
         /\ \A i \in 1..Depth : defers'[i] = DeferOrder[i]
         /\ defers'[Depth + 1] = s
<1>1. defers \in Seq(Deferring) /\ Depth \in 0..7
  BY DepthFacts
<1>2. defers' \in Seq(Deferring) /\ Depth' = Depth + 1 /\ defers'[Depth + 1] = s
  BY <1>1 DEF Depth
<1>3. \A i \in 1..Depth : defers'[i] = defers[i]
  BY <1>1 DEF Depth
<1> QED
  BY <1>2, <1>3 DEF DefersInOrder

\* Init has the invariant: nothing is open and nothing deferred.
LEMMA LifeInitially == Init => LifeInv
<1> SUFFICES ASSUME Init PROVE LifeInv
  OBVIOUS
<1>1. CMInv
  BY CMInitially DEF Init
<1>2. RunTypeOK
  <2>1. defers \in Seq(Deferring) /\ 1 \in 1..17
    BY DEF Init
  <2>2. cancelled \in BOOLEAN /\ request \in BOOLEAN
    BY Zenon DEF Init
  <2> QED
    BY <2>1, <2>2 DEF Init, RunTypeOK
<1>3. RunInv
  BY OrderOfCalls DEF Init, CMInit, RunInv, Depth, DefersInOrder, UpWhileDeferred, ManagerWhileDeferred,
     JobsWhileServed, DeferredBy, Closing
<1> QED
  BY <1>1, <1>2, <1>3 DEF LifeInv

-----------------------------------------------------------------------------
(* The start-up.                                                           *)

\* A step pushes the call it defers, and starts what relies on the calls that
\* are on the stack already.
LEMMA StepSucceedsKeeps ==
  ASSUME RunTypeOK, RunInv, NEW s, StepSucceeds(s)
  PROVE  RunTypeOK' /\ RunInv'
<1>1. /\ phase = "starting" /\ AtStep(s) /\ s # "rabbitmq"
      /\ at' = at + 1
      /\ UNCHANGED <<owner, phase, cancelled, request, borrowed>>
  BY DEF StepSucceeds, AtStep, cmVars
<1>2. Depth = DeferredBy(at) /\ at \in 1..16 /\ Depth \in 0..7
  BY <1>1, StepTable DEF RunTypeOK, RunInv, DefersInOrder
<1>3. /\ ~cancelled
      /\ Depth < 4 => owner = "new"
      /\ Depth >= 4 => owner = "connected"
  <2>1. ~cancelled
    BY <1>1 DEF RunInv, DefersInOrder
  <2>2. /\ Depth < 4 => owner = "new"
        /\ Depth = 4 => owner = "connected"
        /\ Depth > 4 => owner = "connected"
    BY <1>1 DEF RunInv, ManagerWhileDeferred
  <2> QED
    BY <1>2, <2>1, <2>2
<1>4. /\ workers' = Starts("buffer", s, workers)
      /\ hub' = Starts("hub", s, hub)
      /\ consumer' = Starts("consumer", s, consumer)
  BY DEF StepSucceeds
<1>5. CASE s \in Deferring
  <2>1. /\ defers' = Append(defers, s)
        /\ up' = IF s # "context" THEN up \cup {s} ELSE up
    BY <1>5 DEF StepSucceeds
  <2>2. /\ defers' \in Seq(Deferring)
        /\ Depth' = Depth + 1
        /\ \A i \in 1..Depth : defers'[i] = DeferOrder[i]
        /\ defers'[Depth + 1] = s
    BY <1>5, <2>1, AppendPushes DEF RunInv
  <2>3. /\ DeferredBy(at + 1) = Depth + 1 /\ DeferOrder[Depth + 1] = s
        /\ Depth \in 0..6 /\ Depth # 3
        /\ s = "buffer" => Depth = 4
        /\ s # "hub" /\ s # "consumer"
    BY <1>1, <1>2, <1>5, StepTable DEF RunTypeOK, Deferring
  <2>4. RunTypeOK'
    BY <1>1, <1>2, <1>4, <1>5, <2>1, <2>2 DEF RunTypeOK, Starts
  <2>5. DefersInOrder'
    BY <1>1, <1>2, <1>3, <2>2, <2>3 DEF DefersInOrder
  <2>6. UpWhileDeferred'
    <3>1. ASSUME NEW i \in Closing
          PROVE  DeferOrder[i] = s <=> i = Depth + 1
      <4>1. DeferOrder[i] = s => i = Depth + 1
        <5>1. Depth + 1 \in 1..7 /\ DeferOrder[Depth + 1] = s
          BY <2>3
        <5> DEFINE d == Depth + 1
        <5>2. d \in {1, 2, 3, 4, 5, 6, 7} /\ DeferOrder[d] = s
          BY <5>1
        <5> HIDE DEF d
        <5>3. DeferOrder[i] = s => i = d
          BY <5>2, OrderOfCalls DEF Closing
        <5> QED
          BY <5>3 DEF d
      <4> QED
        BY <2>3, <4>1
    <3>2. ASSUME NEW i \in Closing
          PROVE  DeferOrder[i] \in up' <=> DeferOrder[i] \in up \/ i = Depth + 1
      <4>1. DeferOrder[i] # "context"
        BY OrderOfCalls DEF Closing
      <4>2. DeferOrder[i] \in up' <=> DeferOrder[i] \in up \/ DeferOrder[i] = s
        BY <2>1, <4>1
      <4> QED
        BY <3>1, <4>2
    <3>3. ASSUME NEW i \in Closing
          PROVE  /\ i \in Nat
                 /\ DeferOrder[i] \in up => i <= Depth
                 /\ i < Depth => DeferOrder[i] \in up
                 /\ i = Depth => DeferOrder[i] \in up
      BY <1>1 DEF RunInv, UpWhileDeferred, Closing
    <3>4. ASSUME NEW i \in Closing
          PROVE  /\ DeferOrder[i] \in up' => i <= Depth'
                 /\ i < Depth' => DeferOrder[i] \in up'
                 /\ i = Depth' => DeferOrder[i] \in up'
      BY <1>2, <2>2, <3>2, <3>3
    <3> QED
      BY <3>4 DEF UpWhileDeferred
  <2>7. ManagerWhileDeferred' /\ JobsWhileServed'
    BY <1>1, <1>2, <1>3, <1>4, <2>2, <2>3
       DEF RunInv, ManagerWhileDeferred, JobsWhileServed, Starts
  <2> QED
    BY <2>4, <2>5, <2>6, <2>7 DEF RunInv
<1>6. CASE s \notin Deferring
  <2>1. UNCHANGED <<defers, up>> /\ Depth' = Depth
    BY <1>6 DEF StepSucceeds, Depth
  <2>2. /\ DeferredBy(at + 1) = Depth
        /\ s # "buffer" /\ (s = "hub" => Depth = 6) /\ (s = "consumer" => Depth = 7)
    BY <1>1, <1>2, <1>6, StepTable DEF RunTypeOK, Deferring
  <2>3. RunTypeOK'
    BY <1>1, <1>2, <1>4, <2>1 DEF RunTypeOK, Starts
  <2>4. DefersInOrder' /\ UpWhileDeferred'
    BY <1>1, <1>2, <2>1, <2>2 DEF RunInv, DefersInOrder, UpWhileDeferred
  <2>5. ManagerWhileDeferred' /\ JobsWhileServed'
    BY <1>1, <1>4, <2>1, <2>2
       DEF RunInv, ManagerWhileDeferred, JobsWhileServed, Starts
  <2> QED
    BY <2>3, <2>4, <2>5 DEF RunInv
<1> QED
  BY <1>5, <1>6

\* Connect is the fourth step that defers a call.
LEMMA ConnectStepKeeps ==
  ASSUME RunTypeOK, RunInv, ConnectStep
  PROVE  RunTypeOK' /\ RunInv'
<1>1. /\ phase = "starting" /\ AtStep("rabbitmq")
      /\ owner' = "connected"
      /\ at' = at + 1
      /\ defers' = Append(defers, "rabbitmq")
      /\ "rabbitmq" \in Deferring
      /\ UNCHANGED <<phase, up, cancelled, jobVars>>
  BY DEF ConnectStep, AtStep, Connect, Deferring
<1>2. /\ at \in 1..16 /\ DeferredBy(at + 1) = 4
      /\ Depth = 3 /\ ~cancelled
  BY <1>1, StepTable DEF RunTypeOK, RunInv, DefersInOrder
<1>3. /\ defers' \in Seq(Deferring)
      /\ Depth' = 4
      /\ \A i \in 1..3 : defers'[i] = DeferOrder[i]
      /\ defers'[4] = DeferOrder[4]
  BY <1>1, <1>2, AppendPushes, OrderOfCalls DEF RunInv
<1>4. RunTypeOK'
  BY <1>1, <1>2, <1>3 DEF RunTypeOK, jobVars
<1>5. DefersInOrder'
  <2>1. \A i \in 1..4 : i \in 1..3 \/ i = 4
    OBVIOUS
  <2>2. \A i \in 1..Depth' : defers'[i] = DeferOrder[i]
    BY <1>3, <2>1
  <2>3. phase' = "starting" /\ ~cancelled' /\ Depth' = DeferredBy(at')
    BY <1>1, <1>2, <1>3 DEF jobVars
  <2> QED
    BY <1>3, <2>2, <2>3 DEF DefersInOrder
<1>6. UpWhileDeferred'
  BY <1>1, <1>2, <1>3 DEF RunInv, UpWhileDeferred, Closing
<1>7. ManagerWhileDeferred' /\ JobsWhileServed'
  BY <1>1, <1>2, <1>3 DEF RunInv, ManagerWhileDeferred, JobsWhileServed, jobVars
<1> QED
  BY <1>4, <1>5, <1>6, <1>7 DEF RunInv

\* The end of the start-up, in one way or another, and the stages of run()
\* after it.
LEMMA StageKeeps ==
  ASSUME RunTypeOK, RunInv,
         \/ \E s \in ToSet(Steps) : StepFails(s)
         \/ ConnectStepFails \/ Serve \/ Killed \/ Signal \/ ShutdownReturns \/ Exit
  PROVE  RunTypeOK' /\ RunInv'
<1>1. UNCHANGED <<at, defers, up, jobVars>> /\ Depth' = Depth
  BY DEF StepFails, ConnectStepFails, Serve, Killed, Signal, ShutdownReturns, Exit, Depth
<1>2. Depth \in 0..7
  BY DepthFacts DEF RunInv
<1>3. CASE \E s \in ToSet(Steps) : StepFails(s)
  <2>1. phase = "starting" /\ phase' = "unwinding" /\ UNCHANGED <<owner, cancelled>>
    BY <1>3 DEF StepFails, AtStep, cmVars
  <2> QED
    BY <1>1, <1>2, <2>1 DEF RunTypeOK, RunInv, DefersInOrder, UpWhileDeferred,
       ManagerWhileDeferred, JobsWhileServed, jobVars
<1>4. CASE ConnectStepFails
  <2>1. /\ phase = "starting" /\ phase' = "unwinding"
        /\ owner = "new" /\ owner' = "failed" /\ UNCHANGED cancelled
    BY <1>4 DEF ConnectStepFails, ConnectFails, AtStep
  <2>2. Depth < 4
    <3>1. ~(Depth > 4) /\ Depth # 4
      BY <2>1 DEF RunInv, ManagerWhileDeferred
    <3> QED
      BY <1>2, <3>1
  <2> QED
    BY <1>1, <1>2, <2>1, <2>2 DEF RunTypeOK, RunInv, DefersInOrder, UpWhileDeferred,
       ManagerWhileDeferred, JobsWhileServed, jobVars
<1>5. CASE Serve
  <2>1. /\ phase = "starting" /\ phase' = "serving" /\ at = 17
        /\ UNCHANGED <<owner, cancelled>>
    BY <1>5, StepsLength DEF Serve, RunTypeOK, cmVars
  <2>2. Depth = 7
    BY <2>1 DEF RunInv, DefersInOrder, DeferredBy
  <2> QED
    BY <1>1, <2>1, <2>2 DEF RunTypeOK, RunInv, DefersInOrder, UpWhileDeferred,
       ManagerWhileDeferred, JobsWhileServed, jobVars
<1>6. CASE Killed
  <2>1. phase = "starting" /\ phase' = "killed" /\ UNCHANGED <<owner, cancelled>>
    BY <1>6 DEF Killed, cmVars
  <2> QED
    BY <1>1, <1>2, <2>1 DEF RunTypeOK, RunInv, DefersInOrder, UpWhileDeferred,
       ManagerWhileDeferred, JobsWhileServed, jobVars
<1>7. CASE Signal \/ ShutdownReturns
  <2>1. /\ phase \in {"serving", "draining"} /\ phase' \in {"draining", "unwinding"}
        /\ UNCHANGED owner
    BY <1>7 DEF Signal, ShutdownReturns, cmVars
  <2>2. cancelled' \in BOOLEAN /\ (~cancelled' => ~cancelled)
    BY <1>7, Zenon DEF Signal, ShutdownReturns, RunTypeOK
  <2>3. Depth = 7
    BY <2>1 DEF RunInv, DefersInOrder
  <2>4. RunTypeOK'
    BY <1>1, <2>1, <2>2 DEF RunTypeOK, jobVars
  <2>5. DefersInOrder' /\ UpWhileDeferred' /\ ManagerWhileDeferred'
    BY <1>1, <2>1, <2>3 DEF RunInv, DefersInOrder, UpWhileDeferred, ManagerWhileDeferred
  <2>6. JobsWhileServed'
    BY <1>1, <2>2, <2>3 DEF RunInv, JobsWhileServed, jobVars
  <2> QED
    BY <2>4, <2>5, <2>6 DEF RunInv
<1>8. CASE Exit
  <2>1. /\ phase = "unwinding" /\ phase' = "exited" /\ defers = <<>>
        /\ UNCHANGED <<owner, cancelled>>
    BY <1>8 DEF Exit, cmVars
  <2>2. Depth = 0
    BY <1>2, <2>1, DepthFacts DEF RunInv
  <2> QED
    BY <1>1, <2>1, <2>2 DEF RunTypeOK, RunInv, DefersInOrder, UpWhileDeferred,
       ManagerWhileDeferred, JobsWhileServed, jobVars, Closing
<1> QED
  BY <1>3, <1>4, <1>5, <1>6, <1>7, <1>8

-----------------------------------------------------------------------------
(* The deferred calls.                                                     *)

\* The call that is run names the depth of the stack.
LEMMA DepthOfCall ==
  ASSUME RunTypeOK, RunInv, NEW d, Calling(d)
  PROVE  /\ phase = "unwinding" /\ defers # <<>> /\ Depth \in 1..7
         /\ d = "tracer" => Depth = 1
         /\ d = "postgres" => Depth = 2
         /\ d = "redis" => Depth = 3
         /\ d = "rabbitmq" => Depth = 4
         /\ d = "buffer" => Depth = 5
         /\ d = "context" => Depth = 6
         /\ d = "providers" => Depth = 7
<1>1. phase = "unwinding" /\ Depth \in 1..7 /\ d = DeferOrder[Depth]
  BY CallingStage DEF RunInv
<1>2. defers # <<>>
  BY DEF Calling
<1> QED
  BY <1>1, <1>2, OrderOfCalls

\* What a call leaves that closes d, or found it closed, and returns.
LEMMA PopKeeps ==
  ASSUME RunTypeOK, RunInv, phase = "unwinding", defers # <<>>, Return,
         up' = up \ {DeferOrder[Depth]},
         Depth \in Waiting => DeferOrder[Depth] \notin up,
         UNCHANGED <<phase, at>>
  PROVE  /\ Depth' = Depth - 1 /\ Depth \in 1..7
         /\ defers' \in Seq(Deferring)
         /\ up' \subseteq Deferring \ {"context", "rabbitmq"}
         /\ DefersInOrder' /\ UpWhileDeferred'
<1>1. /\ defers' \in Seq(Deferring)
      /\ Depth' = Depth - 1
      /\ \A i \in 1..Depth' : defers'[i] = DeferOrder[i]
  BY ReturnPops DEF RunInv
<1>2. Depth \in 1..7
  BY DepthFacts DEF RunInv
<1>3. up' \subseteq Deferring \ {"context", "rabbitmq"}
  BY DEF RunTypeOK
<1>4. DefersInOrder'
  BY <1>1, <1>2 DEF DefersInOrder
<1>5. ASSUME NEW i \in Closing
      PROVE  /\ DeferOrder[i] \in up' => i <= Depth'
             /\ i <= Depth' => DeferOrder[i] \in up'
  <2>1. i \in 1..7 /\ (DeferOrder[i] = DeferOrder[Depth] <=> i = Depth)
    BY <1>2, OrderOfCalls DEF Closing
  <2>2. DeferOrder[i] \in up => i <= Depth
    BY DEF RunInv, UpWhileDeferred
  <2>3. i < Depth => DeferOrder[i] \in up
    BY DEF RunInv, UpWhileDeferred
  <2> QED
    BY <1>1, <1>2, <2>1, <2>2, <2>3
<1>6. UpWhileDeferred'
  <2>1. \A i \in Closing : i \in 1..7
    BY DEF Closing
  <2>2. Depth' \in 0..6
    BY <1>1, <1>2
  <2> QED
    BY <1>5, <2>1, <2>2 DEF UpWhileDeferred
<1> QED
  BY <1>1, <1>2, <1>3, <1>4, <1>6

\* Calls that wait for nobody.
LEMMA CloseKeeps ==
  ASSUME RunTypeOK, RunInv, (\E d \in Deferring : CloseNow(d)) \/ CallCancel
  PROVE  RunTypeOK' /\ RunInv'
<1>1. PICK d : Calling(d) /\ d \in {"tracer", "redis", "providers", "context"}
                /\ (d = "context" <=> CallCancel)
                /\ (d # "context" => CloseNow(d))
  <2>1. ASSUME NEW d \in Deferring, CloseNow(d)
        PROVE  Calling(d) /\ d \in {"tracer", "redis", "providers"} /\ ~CallCancel
    BY <2>1 DEF CloseNow, CallCancel, Calling
  <2>2. CallCancel => Calling("context")
    BY DEF CallCancel
  <2> QED
    BY <2>1, <2>2
<1>2. /\ phase = "unwinding" /\ defers # <<>> /\ d = DeferOrder[Depth]
      /\ Depth \in {1, 3, 6, 7} /\ (d = "context" => Depth = 6)
      /\ (d # "context" => Depth # 6)
  BY <1>1, DepthOfCall, CallingStage DEF RunInv
<1>3. /\ Return /\ up' = up \ {d}
      /\ UNCHANGED <<owner, phase, at, jobVars>>
  <2>1. CallCancel /\ d = "context" => up' = up \ {d}
    BY DEF CallCancel, RunTypeOK
  <2> QED
    BY <1>1, <2>1 DEF CloseNow, CallCancel, cmVars
<1>4. cancelled' \in BOOLEAN /\ (Depth = 6 => cancelled') /\ (~cancelled' => ~cancelled)
  <2>1. CASE d = "context"
    BY <1>1, <2>1 DEF CallCancel
  <2>2. CASE d # "context"
    BY <1>1, <1>2, <2>2 DEF CloseNow, RunTypeOK
  <2> QED
    BY <2>1, <2>2
<1>5. /\ Depth' = Depth - 1
      /\ defers' \in Seq(Deferring)
      /\ up' \subseteq Deferring \ {"context", "rabbitmq"}
      /\ DefersInOrder' /\ UpWhileDeferred'
  BY <1>2, <1>3, PopKeeps DEF Waiting
<1>6. RunTypeOK'
  BY <1>3, <1>4, <1>5 DEF RunTypeOK, jobVars
<1>7. ManagerWhileDeferred'
  BY <1>2, <1>3, <1>5 DEF RunInv, ManagerWhileDeferred
<1>8. JobsWhileServed'
  BY <1>2, <1>3, <1>4, <1>5 DEF RunInv, JobsWhileServed, jobVars
<1> QED
  BY <1>5, <1>6, <1>7, <1>8 DEF RunInv

\* buf.Close and pool.Close, which close first and then wait.
LEMMA WaitKeeps ==
  ASSUME RunTypeOK, RunInv, NEW d \in Deferring, BeginWait(d) \/ EndWait(d)
  PROVE  RunTypeOK' /\ RunInv'
<1>1. /\ Calling(d) /\ d \in {"buffer", "postgres"}
      /\ UNCHANGED <<owner, phase, at, cancelled, jobVars>>
  BY DEF BeginWait, EndWait, cmVars
<1>2. /\ phase = "unwinding" /\ defers # <<>> /\ d = DeferOrder[Depth]
      /\ (d = "buffer" /\ Depth = 5) \/ (d = "postgres" /\ Depth = 2)
  BY <1>1, DepthOfCall, CallingStage DEF RunInv
<1>3. CASE BeginWait(d)
  <2>1. up' = up \ {d} /\ UNCHANGED defers /\ Depth' = Depth
    BY <1>3 DEF BeginWait, Depth
  <2>2. RunTypeOK'
    BY <1>1, <2>1 DEF RunTypeOK, jobVars
  <2>3. DefersInOrder' /\ ManagerWhileDeferred' /\ JobsWhileServed'
    BY <1>1, <2>1 DEF RunInv, DefersInOrder, ManagerWhileDeferred, JobsWhileServed, jobVars
  <2>4. UpWhileDeferred'
    BY <1>1, <1>2, <2>1, OrderOfCalls DEF RunInv, UpWhileDeferred, Closing, Waiting
  <2> QED
    BY <2>2, <2>3, <2>4 DEF RunInv
<1>4. CASE EndWait(d)
  <2>1. /\ Return /\ UNCHANGED up /\ d \notin up
        /\ d = "buffer" => workers # "running"
        /\ d = "postgres" => borrowed = {}
    BY <1>2, <1>4 DEF EndWait
  <2>2. /\ Depth' = Depth - 1
        /\ defers' \in Seq(Deferring)
        /\ up' \subseteq Deferring \ {"context", "rabbitmq"}
        /\ DefersInOrder' /\ UpWhileDeferred'
    BY <1>1, <1>2, <2>1, PopKeeps
  <2>3. RunTypeOK'
    BY <1>1, <2>2 DEF RunTypeOK, jobVars
  <2>4. ManagerWhileDeferred' /\ JobsWhileServed'
    BY <1>1, <1>2, <2>1, <2>2 DEF RunInv, ManagerWhileDeferred, JobsWhileServed, jobVars
  <2> QED
    BY <2>2, <2>3, <2>4 DEF RunInv
<1> QED
  BY <1>3, <1>4

\* The Close of the manager, which returns when it is closed.
LEMMA CloseManagerKeeps ==
  ASSUME RunTypeOK, RunInv, CloseManager
  PROVE  RunTypeOK' /\ RunInv'
<1>1. /\ Calling("rabbitmq")
      /\ UNCHANGED <<phase, at, up, cancelled, jobVars>>
      /\ owner' \in {"closing", "locking", "closed"}
  BY DEF CloseManager, BeginClose, LoopEnded, FinishClose
<1>2. /\ phase = "unwinding" /\ defers # <<>> /\ "rabbitmq" = DeferOrder[Depth] /\ Depth = 4
  BY <1>1, DepthOfCall, CallingStage DEF RunInv
<1>3. CASE owner' = "closed"
  <2>1. Return /\ up' = up \ {"rabbitmq"}
    BY <1>1, <1>3 DEF CloseManager, RunTypeOK
  <2>2. /\ Depth' = 3
        /\ defers' \in Seq(Deferring)
        /\ DefersInOrder' /\ UpWhileDeferred'
    BY <1>1, <1>2, <2>1, PopKeeps DEF Waiting
  <2> QED
    BY <1>1, <1>2, <1>3, <2>2
       DEF RunTypeOK, RunInv, ManagerWhileDeferred, JobsWhileServed, jobVars
<1>4. CASE owner' # "closed"
  <2>1. UNCHANGED defers /\ Depth' = 4
    BY <1>2, <1>4 DEF CloseManager, Depth
  <2> QED
    BY <1>1, <1>2, <1>4, <2>1
       DEF RunTypeOK, RunInv, DefersInOrder, UpWhileDeferred, ManagerWhileDeferred,
           JobsWhileServed, jobVars
<1> QED
  BY <1>3, <1>4

-----------------------------------------------------------------------------
(* The goroutines.                                                         *)

\* The manager's own steps change nothing of run().
LEMMA ManagerStepKeeps ==
  ASSUME RunTypeOK, RunInv, ManagerStep
  PROVE  RunTypeOK' /\ RunInv'
<1>1. UNCHANGED <<phase, at, defers, up, cancelled, jobVars>> /\ Depth' = Depth
  BY DEF ManagerStep, runVars, Depth
<1>2. UNCHANGED owner
  BY DEF ManagerStep, LoopStep, ReadConn, NoticeLoss, StopLoop, DelayOver, DialFails,
         DialSucceeds, Store, Break, BeginChannel, EndChannel
<1> QED
  BY <1>1, <1>2 DEF RunTypeOK, RunInv, DefersInOrder, UpWhileDeferred,
     ManagerWhileDeferred, JobsWhileServed, jobVars

\* Publishers, consumer, hub and handlers work only while what they use is open.
LEMMA JobStepKeeps ==
  ASSUME RunTypeOK, RunInv, JobStep
  PROVE  RunTypeOK' /\ RunInv'
<1>1. UNCHANGED <<owner, phase, at, defers, up, cancelled>> /\ Depth' = Depth
  BY DEF JobStep, WorkersStop, ConsumerStops, HubStops, RequestBegins, RequestEnds,
         Borrow, GiveBack, cmVars, runVars, Depth
<1>2. Depth \in 0..7
  BY DepthFacts DEF RunInv
<1>3. DefersInOrder' /\ UpWhileDeferred' /\ ManagerWhileDeferred'
  BY <1>1 DEF RunInv, DefersInOrder, UpWhileDeferred, ManagerWhileDeferred
<1>4. CASE \E b \in Borrowers : Borrow(b)
  <2>1. PICK b \in Borrowers : Borrow(b)
    BY <1>4
  <2>2. /\ borrowed' = borrowed \cup {b} /\ "postgres" \in up
        /\ UNCHANGED <<workers, consumer, hub, request>>
    BY <2>1 DEF Borrow
  <2>3. Depth >= 2
    BY <1>2, <2>2, OrderOfCalls DEF RunInv, UpWhileDeferred, Closing
  <2> QED
    BY <1>1, <1>3, <2>2, <2>3 DEF RunTypeOK, RunInv, JobsWhileServed
<1>5. CASE RequestBegins \/ RequestEnds
  <2>1. /\ request' \in BOOLEAN
        /\ UNCHANGED <<workers, consumer, hub, borrowed>>
    BY <1>5 DEF RequestBegins, RequestEnds
  <2> QED
    BY <1>1, <1>3, <2>1 DEF RunTypeOK, RunInv, JobsWhileServed
<1>6. CASE WorkersStop \/ ConsumerStops \/ HubStops \/ \E b \in Borrowers : GiveBack(b)
  <2>1. /\ workers' \in {workers, "stopped"}
        /\ consumer' \in {consumer, "stopped"}
        /\ hub' \in {hub, "stopped"}
        /\ borrowed' \subseteq borrowed
        /\ UNCHANGED request
    BY <1>6 DEF WorkersStop, ConsumerStops, HubStops, GiveBack
  <2> QED
    BY <1>1, <1>3, <2>1 DEF RunTypeOK, RunInv, JobsWhileServed
<1> QED
  BY <1>4, <1>5, <1>6 DEF JobStep

-----------------------------------------------------------------------------
(* The theorems.                                                           *)

\* Every step of the process is a step of the manager, or none of its business.
LEMMA StepOfManager ==
  ASSUME [Next]_vars
  PROVE  [CMNext]_cmVars
<1>1. ASSUME ManagerStep PROVE CMNext
  BY <1>1 DEF ManagerStep, CMNext
<1>2. ASSUME ConnectStep \/ ConnectStepFails \/ CloseManager PROVE CMNext
  BY <1>2 DEF ConnectStep, ConnectStepFails, CloseManager, CMNext
<1>3. ASSUME \/ \E s \in ToSet(Steps) : StepSucceeds(s) \/ StepFails(s)
             \/ Serve \/ Signal \/ Killed \/ ShutdownReturns \/ CallCancel \/ Exit
             \/ \E d \in Deferring : CloseNow(d) \/ BeginWait(d) \/ EndWait(d)
             \/ JobStep
      PROVE  UNCHANGED cmVars
  BY <1>3 DEF StepSucceeds, StepFails, Serve, Signal, Killed, ShutdownReturns, CallCancel,
              Exit, CloseNow, BeginWait, EndWait, JobStep, WorkersStop, ConsumerStops,
              HubStops, RequestBegins, RequestEnds, Borrow, GiveBack
<1>4. ASSUME UNCHANGED vars PROVE UNCHANGED cmVars
  BY <1>4 DEF vars
<1> QED
  BY <1>1, <1>2, <1>3, <1>4 DEF Next, StartStep, ExitStep

\* run(), with all that it starts, uses the connection manager as module
\* ConnectionManager says: the process implements the manager's specification.
THEOREM ImplementsManager == Spec => CMSpec
<1>1. Init => CMInit
  BY DEF Init
<1>2. [Next]_vars => [CMNext]_cmVars
  BY StepOfManager
<1> QED
  BY <1>1, <1>2, PTL DEF Spec, CMSpec

\* Each step keeps the invariant.
LEMMA LifeStep ==
  ASSUME LifeInv, [Next]_vars
  PROVE  LifeInv'
<1>1. CMInv'
  BY CMStep, StepOfManager DEF LifeInv
<1>2. RunTypeOK /\ RunInv
  BY DEF LifeInv
<1>3. RunTypeOK' /\ RunInv'
  <2>1. CASE StartStep
    BY <1>2, <2>1, StepSucceedsKeeps, ConnectStepKeeps, StageKeeps DEF StartStep
  <2>2. CASE ExitStep
    BY <1>2, <2>2, StageKeeps, CloseKeeps, WaitKeeps, CloseManagerKeeps DEF ExitStep
  <2>3. CASE Signal \/ Killed
    BY <1>2, <2>3, StageKeeps
  <2>4. CASE ManagerStep
    BY <1>2, <2>4, ManagerStepKeeps
  <2>5. CASE JobStep
    BY <1>2, <2>5, JobStepKeeps
  <2>6. CASE UNCHANGED vars
    BY <1>2, <2>6 DEF vars, runVars, jobVars, cmVars, RunTypeOK, RunInv, DefersInOrder,
       UpWhileDeferred, ManagerWhileDeferred, JobsWhileServed, Depth
  <2> QED
    BY <2>1, <2>2, <2>3, <2>4, <2>5, <2>6 DEF Next
<1> QED
  BY <1>1, <1>3 DEF LifeInv

\* The inductive invariant holds of every behaviour of the process.
THEOREM LifeInvariance == Spec => []LifeInv
<1>1. LifeInv /\ [Next]_vars => LifeInv'
  BY LifeStep
<1> QED
  BY <1>1, LifeInitially, PTL DEF Spec

\* Every variable keeps its type.
THEOREM LifeTypeCorrect == Spec => []TypeOK
<1>1. LifeInv => TypeOK
  <2>1. Len(Steps) + 1 = 17
    BY StepsLength
  <2> QED
    BY <2>1 DEF LifeInv, CMInv, RunTypeOK, TypeOK
<1> QED
  BY <1>1, LifeInvariance, PTL

\* Inside the process, too, one connection to RabbitMQ is open at most.
THEOREM OneOpenInProcess == Spec => []AtMostOneOpen
<1>1. CMTypeOK /\ AtMostOneOpen => AtMostOneOpen
  OBVIOUS
<1> QED
  BY <1>1, ImplementsManager, OneOpen, PTL

\* The order of the deferred calls: publishers that run have the connection,
\* and consumer and hub are told to stop, by a cancelled context, before
\* RabbitMQ, Postgres or Redis is closed.  Nothing waits for the two to stop, so
\* one that was cancelled may still be at work then; so may handlers after a
\* Shutdown that gave up, of which ServedWhileUsed does not speak.
THEOREM CancelledBeforeClosed == Spec => []ServedWhileUsed
<1>1. LifeInv => ServedWhileUsed
  <2> SUFFICES ASSUME LifeInv PROVE ServedWhileUsed
    OBVIOUS
  <2>1. Depth \in 0..7 /\ RunInv
    BY DepthFacts DEF LifeInv, RunInv
  <2>2. Depth >= 5 => owner = "connected"
    BY <2>1 DEF RunInv, ManagerWhileDeferred
  <2>3. Depth >= 6 => {"postgres", "redis"} \subseteq up
    BY <2>1, OrderOfCalls DEF RunInv, UpWhileDeferred, Closing
  <2>4. Depth >= 6 => Depth >= 5
    BY <2>1
  <2> QED
    BY <2>1, <2>2, <2>3, <2>4 DEF RunInv, JobsWhileServed, ServedWhileUsed
<1> QED
  BY <1>1, LifeInvariance, PTL

\* Whichever step of the start-up fails, and after any shutdown, run() returns
\* with nothing left open and nobody at work: NothingLeftOpen is an invariant.
THEOREM NothingLeft == Spec => []NothingLeftOpen
<1>1. LifeInv => NothingLeftOpen
  <2> SUFFICES ASSUME LifeInv, phase = "exited"
               PROVE  /\ up = {} /\ open = {} /\ fresh = 0
                      /\ owner \in {"new", "failed", "closed"}
                      /\ workers # "running"
                      /\ borrowed = {}
    BY DEF NothingLeftOpen
  <2>1. Depth = 0 /\ RunInv
    BY DEF LifeInv, RunInv, DefersInOrder
  <2>2. owner \in {"new", "failed", "closed"}
    BY <2>1 DEF RunInv, ManagerWhileDeferred
  <2>3. open = {} /\ fresh = 0
    BY <2>2 DEF LifeInv, CMInv, CMTypeOK, LoopFollowsOwner, OpenByStage
  <2>4. workers # "running" /\ borrowed = {}
    BY <2>1 DEF RunInv, JobsWhileServed
  <2>5. up = {}
    <3>1. \A i \in {1, 2, 3, 5, 7} : DeferOrder[i] \notin up
      BY <2>1 DEF RunInv, UpWhileDeferred, Closing
    <3>2. up \subseteq {"tracer", "postgres", "redis", "buffer", "providers"}
      BY DEF LifeInv, RunTypeOK, Deferring
    <3> QED
      BY <3>1, <3>2, OrderOfCalls
  <2> QED
    BY <2>2, <2>3, <2>4, <2>5
<1> QED
  BY <1>1, LifeInvariance, PTL
=============================================================================
