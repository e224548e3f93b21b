-------------------------- MODULE ConnectionManager --------------------------
(***************************************************************************)
(* The RabbitMQ connection of csar-notify: Connect dials it, a goroutine   *)
(* waits for it to be lost and dials again with a growing delay, the       *)
(* publishers, the consumer and the health check open channels on it, and  *)
(* Close ends the goroutine and closes what it left.                       *)
(*                                                                         *)
(* Connections are numbered as they are made; 0 is the nil pointer.  A     *)
(* channel is opened under the read lock, the connection is replaced and   *)
(* closed under the write lock, and a writer that waits keeps new readers  *)
(* out (sync.RWMutex).                                                     *)
(***************************************************************************)
EXTENDS Naturals, FiniteSets

CONSTANTS
    Callers,      \* the goroutines that call Channel
    MaxConns,     \* bound on the connections made
    InitialDelay, \* rabbitmq.reconnect_delay
    MaxDelay      \* 60 s in the code

ASSUME ConnectionManagerAssumption ==
    /\ MaxConns \in Nat \ {0}
    /\ InitialDelay \in Nat \ {0}
    /\ MaxDelay \in Nat \ {0}

VARIABLES
    made,    \* connections made so far
    open,    \* those that are open
    conn,    \* cm.conn
    owner,   \* new, connected, failed; closing, locking, closed: in Close
    loop,    \* off, read, watch, wait, dial, store, done
    watched, \* the connection the loop watches
    fresh,   \* one it has dialled and not stored yet
    delay,   \* its delay
    holders  \* the callers that are inside conn.Channel()

cmVars == <<made, open, conn, owner, loop, watched, fresh, delay, holders>>

CMInit ==
    /\ made = 0 /\ open = {}
    /\ conn = 0
    /\ owner = "new"
    /\ loop = "off" /\ watched = 0 /\ fresh = 0 /\ delay = 0
    /\ holders = {}

-----------------------------------------------------------------------------
(* The network and the broker.                                             *)

\* DialConfig makes a connection.
Establish ==
    /\ made < MaxConns
    /\ made' = made + 1
    /\ open' = open \cup {made + 1}

\* A connection is lost: heartbeats fail, or the broker closes it.  The last
\* one MaxConns allows stays, so that a lost one can always be replaced.
Break(c) ==
    /\ c \in open
    /\ made < MaxConns
    /\ open' = open \ {c}
    /\ UNCHANGED <<made, conn, owner, loop, watched, fresh, delay, holders>>

-----------------------------------------------------------------------------
(* Connect and the goroutine it starts.                                    *)

Connect ==
    /\ owner = "new"
    /\ Establish
    /\ conn' = made + 1
    /\ owner' = "connected"
    /\ loop' = "read"
    /\ UNCHANGED <<watched, fresh, delay, holders>>

\* The first dial fails: no goroutine is started.
ConnectFails ==
    /\ owner = "new"
    /\ owner' = "failed"
    /\ UNCHANGED <<made, open, conn, loop, watched, fresh, delay, holders>>

\* Mutant: the loop reads cm.conn once, before it begins.
ReadConnOnce ==
    /\ loop = "read"
    /\ watched' = IF watched = 0 THEN conn ELSE watched
    /\ loop' = "watch"
    /\ UNCHANGED <<made, open, conn, owner, fresh, delay, holders>>

\* The loop takes the connection and asks to be notified of its close.
ReadConn ==
    /\ loop = "read"
    /\ watched' = conn
    /\ loop' = "watch"
    /\ UNCHANGED <<made, open, conn, owner, fresh, delay, holders>>

\* The notification: at once if the connection is closed already.
NoticeLoss ==
    /\ loop = "watch"
    /\ watched \notin open
    /\ delay' = InitialDelay
    /\ loop' = "wait"
    /\ UNCHANGED <<made, open, conn, owner, watched, fresh, holders>>

\* Mutant: the wait before a dial does not look at closeCh.
StopFromWatch ==
    /\ loop = "watch"
    /\ owner = "closing"
    /\ loop' = "done"
    /\ UNCHANGED <<made, open, conn, owner, watched, fresh, delay, holders>>

\* closeCh is closed.
StopLoop ==
    /\ loop \in {"watch", "wait"}
    /\ owner = "closing"
    /\ loop' = "done"
    /\ UNCHANGED <<made, open, conn, owner, watched, fresh, delay, holders>>

\* The timer fires.  A select that is entered once closeCh is closed never
\* waits for its timer.
DelayOver ==
    /\ loop = "wait"
    /\ owner # "closing"
    /\ loop' = "dial"
    /\ UNCHANGED <<made, open, conn, owner, watched, fresh, delay, holders>>

\* Mutant: the delay doubles without an end.
DialFailsUncapped ==
    /\ loop = "dial"
    /\ delay' = 2 * delay
    /\ loop' = "wait"
    /\ UNCHANGED <<made, open, conn, owner, watched, fresh, holders>>

\* Mutant: a dial that fails ends the loop.
DialFailsForGood ==
    /\ loop = "dial"
    /\ loop' = "done"
    /\ UNCHANGED <<made, open, conn, owner, watched, fresh, delay, holders>>

\* A failed dial doubles the delay, up to a minute.
DialFails ==
    /\ loop = "dial"
    /\ delay' = IF 2 * delay < MaxDelay THEN 2 * delay ELSE MaxDelay
    /\ loop' = "wait"
    /\ UNCHANGED <<made, open, conn, owner, watched, fresh, holders>>

\* DialConfig returns a connection; dial has yet to store it.
DialSucceeds ==
    /\ loop = "dial"
    /\ Establish
    /\ fresh' = made + 1
    /\ loop' = "store"
    /\ UNCHANGED <<conn, owner, watched, delay, holders>>

\* dial has the write lock and stores the connection.
Store ==
    /\ loop = "store"
    /\ holders = {}
    /\ conn' = fresh
    /\ fresh' = 0
    /\ loop' = "read"
    /\ UNCHANGED <<made, open, owner, watched, delay, holders>>

-----------------------------------------------------------------------------
(* Channel.                                                                *)

WriterWaits == loop = "store" \/ owner = "locking"

\* Channel finds the connection open and asks the broker for a channel, with
\* the read lock held.  Without an open connection it returns an error and
\* changes nothing.
BeginChannel(u) ==
    /\ u \notin holders
    /\ ~WriterWaits
    /\ conn \in open
    /\ holders' = holders \cup {u}
    /\ UNCHANGED <<made, open, conn, owner, loop, watched, fresh, delay>>

\* The broker answers, or the connection is lost.
EndChannel(u) ==
    /\ u \in holders
    /\ holders' = holders \ {u}
    /\ UNCHANGED <<made, open, conn, owner, loop, watched, fresh, delay>>

-----------------------------------------------------------------------------
(* Close.                                                                  *)

BeginClose ==
    /\ owner = "connected"
    /\ owner' = "closing"
    /\ UNCHANGED <<made, open, conn, loop, watched, fresh, delay, holders>>

\* Mutant: Close does not wait for the loop.
CloseWithoutWait ==
    /\ owner = "closing"
    /\ owner' = "locking"
    /\ UNCHANGED <<made, open, conn, loop, watched, fresh, delay, holders>>

\* done is closed: the loop has ended.
LoopEnded ==
    /\ owner = "closing"
    /\ loop = "done"
    /\ owner' = "locking"
    /\ UNCHANGED <<made, open, conn, loop, watched, fresh, delay, holders>>

FinishClose ==
    /\ owner = "locking"
    /\ holders = {}
    /\ open' = open \ {conn}
    /\ owner' = "closed"
    /\ UNCHANGED <<made, conn, loop, watched, fresh, delay, holders>>

-----------------------------------------------------------------------------
LoopStep ==
    \/ ReadConn \/ NoticeLoss \/ StopLoop \/ DelayOver
    \/ DialFails \/ DialSucceeds \/ Store

CMNext ==
    \/ Connect \/ ConnectFails
    \/ LoopStep
    \/ \E c \in 1..MaxConns : Break(c)
    \/ \E u \in Callers : BeginChannel(u) \/ EndChannel(u)
    \/ BeginClose \/ LoopEnded \/ FinishClose

CMSpec == CMInit /\ [][CMNext]_cmVars

-----------------------------------------------------------------------------
(* Properties.                                                             *)

CMTypeOK ==
    /\ made \in 0..MaxConns
    /\ open \subseteq 1..made
    /\ conn \in 0..made /\ watched \in 0..made /\ fresh \in 0..made
    /\ owner \in {"new", "connected", "failed", "closing", "locking", "closed"}
    /\ loop \in {"off", "read", "watch", "wait", "dial", "store", "done"}
    /\ delay \in Nat /\ (delay <= MaxDelay \/ delay = InitialDelay)
    /\ holders \subseteq Callers

\* The goroutine never dials beside a connection that works: one at most is
\* open, and the manager has it or is about to.  When Close has returned none
\* is and none will be: a dial that was under way has been waited for.
AtMostOneOpen ==
    /\ Cardinality(open) <= 1
    /\ open \subseteq {conn, fresh}
    /\ owner \in {"closed", "failed"} => open = {} /\ loop \in {"off", "done"}

=============================================================================
