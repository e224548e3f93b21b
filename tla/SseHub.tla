------------------------------- MODULE SseHub -------------------------------
(***************************************************************************)
(* The real-time half of csar-notify: the site provider publishes each     *)
(* event to the Redis channel of a target and a recipient; one goroutine   *)
(* of the hub receives what its patterns match, resolves the channel back  *)
(* to a target and a recipient, and offers the event to the buffered       *)
(* channel of each client that streams them; one handler per client        *)
(* registers, writes what arrives, and unregisters when the client leaves. *)
(*                                                                         *)
(* Prefixes, recipients and Redis channels are strings, sequences of       *)
(* letters, and nothing but the configuration says where a prefix ends: it *)
(* may cut into a recipient.  A letter may stand for a run of characters   *)
(* that no prefix divides; prefixes hold no wildcard of Redis.  The lock   *)
(* of the hub is held by the receiving goroutine while it is "sending";    *)
(* what a handler does under the lock is one step.                         *)
(***************************************************************************)
EXTENDS Naturals, SequencesExt

CONSTANTS
    Letters,
    Targets,        \* the site targets
    Prefix,         \* Prefix[t]: the Redis prefix of t
    Subjects,       \* the recipients, as they are spelled
    Events,         \* the events a behaviour may publish
    Clients,        \* connections to GET /notifications/stream
    ClientCapacity, \* depth of the channel of a client (16 in the code)
    MaxLosses,      \* bound on lost connections to Redis
    None            \* no address, no event

Addresses == Targets \X Subjects

\* A prefix left out of the configuration is redis.prefix, which is never
\* empty, or begins with it.
ASSUME SseHubAssumption ==
    /\ IsFiniteSet(Targets)
    /\ Prefix \in [Targets -> Seq(Letters) \ {<<>>}]
    /\ Subjects \subseteq Seq(Letters) \ {<<>>}
    /\ ClientCapacity \in Nat \ {0}
    /\ MaxLosses \in Nat
    /\ None \notin Addresses \cup Events

VARIABLES
    published,  \* the events published to Redis, in order
    addr,       \* addr[e]: the target and recipient e is for
    subscribed, \* does Redis know the hub's patterns?
    inflight,   \* what Redis has sent and the hub has not received
    hub,        \* the goroutine: receiving, sending, stopped
    event,      \* the event it is offering
    rest,       \* the clients it has yet to offer it to
    conn,       \* conn[c]: idle, open, leaving, closed
    key,        \* key[c]: the target and recipient c streams, its key in the
                \* hub's map
    registered, \* the clients in the hub's map
    chan,       \* chan[c]: the channel of c
    gone,       \* clients whose channel is closed
    got,        \* got[c]: the events written to c
    missed,     \* <<c, e>>: e found the channel of c full
    cancelled,  \* has run() cancelled the context?
    losses,     \* connections to Redis lost so far
    owed        \* history: <<c, e>>, c streamed the address of e when the hub
                \* took e up

redisVars  == <<published, addr, subscribed, inflight, losses>>
hubVars    == <<hub, event, rest, cancelled>>
clientVars == <<conn, key, registered, gone>>
vars == <<redisVars, hubVars, clientVars, chan, got, missed, owed>>

RedisChannel(t, u) == Prefix[t] \o u

\* One copy for each pattern that matches the channel.
Copies(channel, e) ==
    LET patterns == {Prefix[t] : t \in Targets}
    IN  [i \in 1..Cardinality({p \in patterns : IsPrefix(p, channel)}) |->
            [channel |-> channel, event |-> e]]

\* The targets whose prefix is a longest prefix of the channel: one of them,
\* in the order of a map, is what resolveChannel returns.
Longest(channel) ==
    LET matching == {t \in Targets : IsPrefix(Prefix[t], channel)}
    IN  {t \in matching : \A s \in matching : Len(Prefix[s]) <= Len(Prefix[t])}

\* Mutant: any matching prefix will do.
ResolvedByAny(channel) ==
    {<<t, SubSeq(channel, Len(Prefix[t]) + 1, Len(channel))>> :
        t \in {s \in Targets : IsPrefix(Prefix[s], channel)}}

\* What resolveChannel may return: a target, and what follows its prefix.
Resolved(channel) ==
    {<<t, SubSeq(channel, Len(Prefix[t]) + 1, Len(channel))>> : t \in Longest(channel)}

Init ==
    /\ published = <<>>
    /\ addr = [e \in Events |-> None]
    /\ subscribed = TRUE
    /\ inflight = <<>>
    /\ hub = "receiving" /\ event = None /\ rest = {}
    /\ conn = [c \in Clients |-> "idle"]
    /\ key = [c \in Clients |-> None]
    /\ registered = {} /\ gone = {}
    /\ chan = [c \in Clients |-> <<>>]
    /\ got = [c \in Clients |-> <<>>]
    /\ missed = {} /\ owed = {}
    /\ cancelled = FALSE
    /\ losses = 0

-----------------------------------------------------------------------------
(* Redis.                                                                  *)

\* The site provider publishes an event.  With no subscriber it is gone: the
\* inbox row is all that is left of it.
Publish(e, t, u) ==
    /\ addr[e] = None
    /\ addr' = [addr EXCEPT ![e] = <<t, u>>]
    /\ published' = Append(published, e)
    /\ inflight' = IF subscribed THEN inflight \o Copies(RedisChannel(t, u), e)
                   ELSE inflight
    /\ UNCHANGED <<subscribed, losses, hubVars, clientVars, chan, got, missed, owed>>

\* The connection of the hub breaks: ReceiveMessage fails, and what was under
\* way is lost.
RedisLost ==
    /\ subscribed
    /\ losses < MaxLosses
    /\ subscribed' = FALSE
    /\ inflight' = <<>>
    /\ losses' = losses + 1
    /\ UNCHANGED <<published, addr, hubVars, clientVars, chan, got, missed, owed>>

\* The goroutine calls ReceiveMessage again after a second, which connects
\* and subscribes.
Resubscribe ==
    /\ ~subscribed
    /\ hub = "receiving"
    /\ subscribed' = TRUE
    /\ UNCHANGED <<published, addr, inflight, losses, hubVars, clientVars, chan,
                   got, missed, owed>>

-----------------------------------------------------------------------------
(* The goroutine of the hub.                                               *)

\* Mutant: the messages are handed to goroutines of their own.
ReceiveAny ==
    /\ hub = "receiving"
    /\ \E i \in 1..Len(inflight) :
          LET m == inflight[i] IN
          /\ inflight' = RemoveAt(inflight, i)
          /\ event' = m.event
          /\ \E k \in Resolved(m.channel) : rest' = {c \in registered : key[c] = k}
          /\ owed' = owed \cup {<<c, m.event>> : c \in {d \in registered : key[d] = addr[m.event]}}
    /\ hub' = "sending"
    /\ UNCHANGED <<published, addr, subscribed, losses, cancelled, clientVars,
                   chan, got, missed>>

\* Mutant: the target is left out of the key.
ReceiveForSubject ==
    /\ hub = "receiving"
    /\ inflight # <<>>
    /\ LET m == Head(inflight) IN
          /\ event' = m.event
          /\ \E k \in Resolved(m.channel) : rest' = {c \in registered : key[c][2] = k[2]}
          /\ owed' = owed \cup {<<c, m.event>> : c \in {d \in registered : key[d] = addr[m.event]}}
    /\ inflight' = Tail(inflight)
    /\ hub' = "sending"
    /\ UNCHANGED <<published, addr, subscribed, losses, cancelled, clientVars,
                   chan, got, missed>>

\* ReceiveMessage returns; broadcast takes the lock and looks the key up.
Receive ==
    /\ hub = "receiving"
    /\ inflight # <<>>
    /\ LET m == Head(inflight) IN
          /\ event' = m.event
          /\ \E k \in Resolved(m.channel) : rest' = {c \in registered : key[c] = k}
          /\ owed' = owed \cup {<<c, m.event>> : c \in {d \in registered : key[d] = addr[m.event]}}
    /\ inflight' = Tail(inflight)
    /\ hub' = "sending"
    /\ UNCHANGED <<published, addr, subscribed, losses, cancelled, clientVars,
                   chan, got, missed>>

\* Mutant: the send waits for room.
OfferBlocking(c) ==
    /\ c \in rest
    /\ Len(chan[c]) < ClientCapacity
    /\ chan' = [chan EXCEPT ![c] = Append(@, event)]
    /\ rest' = rest \ {c}
    /\ UNCHANGED <<redisVars, hub, event, cancelled, clientVars, got, missed, owed>>

\* Mutant: the channel is one longer.
OfferOneMore(c) ==
    /\ c \in rest
    /\ IF Len(chan[c]) <= ClientCapacity
       THEN /\ chan' = [chan EXCEPT ![c] = Append(@, event)]
            /\ UNCHANGED missed
       ELSE /\ missed' = missed \cup {<<c, event>>}
            /\ UNCHANGED chan
    /\ rest' = rest \ {c}
    /\ UNCHANGED <<redisVars, hub, event, cancelled, clientVars, got, owed>>

\* Mutant: a full channel ends the loop over the clients.
OfferOrBreak(c) ==
    /\ c \in rest
    /\ IF Len(chan[c]) < ClientCapacity
       THEN /\ chan' = [chan EXCEPT ![c] = Append(@, event)]
            /\ rest' = rest \ {c}
            /\ UNCHANGED missed
       ELSE /\ missed' = missed \cup {<<c, event>>}
            /\ rest' = {}
            /\ UNCHANGED chan
    /\ UNCHANGED <<redisVars, hub, event, cancelled, clientVars, got, owed>>

\* The non-blocking send: a client whose channel is full misses the event.
Offer(c) ==
    /\ c \in rest
    /\ IF Len(chan[c]) < ClientCapacity
       THEN /\ chan' = [chan EXCEPT ![c] = Append(@, event)]
            /\ UNCHANGED missed
       ELSE /\ missed' = missed \cup {<<c, event>>}
            /\ UNCHANGED chan
    /\ rest' = rest \ {c}
    /\ UNCHANGED <<redisVars, hub, event, cancelled, clientVars, got, owed>>

\* broadcast returns and releases the lock.
Offered ==
    /\ hub = "sending"
    /\ rest = {}
    /\ hub' = "receiving"
    /\ event' = None
    /\ UNCHANGED <<redisVars, rest, cancelled, clientVars, chan, got, missed, owed>>

\* The context is cancelled: the goroutine returns and closes its
\* subscription.
HubStops ==
    /\ hub = "receiving"
    /\ cancelled
    /\ hub' = "stopped"
    /\ subscribed' = FALSE
    /\ inflight' = <<>>
    /\ UNCHANGED <<published, addr, losses, event, rest, cancelled, clientVars,
                   chan, got, missed, owed>>

\* appCancel.
Cancel ==
    /\ ~cancelled
    /\ cancelled' = TRUE
    /\ UNCHANGED <<redisVars, hub, event, rest, clientVars, chan, got, missed, owed>>

-----------------------------------------------------------------------------
(* The handlers.                                                           *)

\* A client with an identity and a known target connects: its handler makes a
\* channel and registers it.  The others are answered 400 or 401 and nothing
\* changes.
Connect(c, a) ==
    /\ conn[c] = "idle"
    /\ hub # "sending"
    /\ conn' = [conn EXCEPT ![c] = "open"]
    /\ key' = [key EXCEPT ![c] = a]
    /\ registered' = registered \cup {c}
    /\ UNCHANGED <<redisVars, hubVars, gone, chan, got, missed, owed>>

\* The handler takes an event and writes it to the client.
Forward(c) ==
    /\ conn[c] = "open"
    /\ chan[c] # <<>>
    /\ got' = [got EXCEPT ![c] = Append(@, Head(chan[c]))]
    /\ chan' = [chan EXCEPT ![c] = Tail(@)]
    /\ UNCHANGED <<redisVars, hubVars, clientVars, missed, owed>>

\* The context of the request is done; the handler returns, whatever is left
\* in the channel, and is about to unregister.
Disconnect(c) ==
    /\ conn[c] = "open"
    /\ conn' = [conn EXCEPT ![c] = "leaving"]
    /\ UNCHANGED <<redisVars, hubVars, key, registered, gone, chan, got, missed, owed>>

\* Mutant: the client is taken out of the map without the lock.
UnregisterUnlocked(c) ==
    /\ conn[c] = "leaving"
    /\ registered' = registered \ {c}
    /\ gone' = gone \cup {c}
    /\ conn' = [conn EXCEPT ![c] = "closed"]
    /\ UNCHANGED <<redisVars, hubVars, key, chan, got, missed, owed>>

\* unregister: out of the map, and the channel is closed, under the lock.
Unregister(c) ==
    /\ conn[c] = "leaving"
    /\ hub # "sending"
    /\ registered' = registered \ {c}
    /\ gone' = gone \cup {c}
    /\ conn' = [conn EXCEPT ![c] = "closed"]
    /\ UNCHANGED <<redisVars, hubVars, key, chan, got, missed, owed>>

-----------------------------------------------------------------------------
HubWork == Receive \/ Offered \/ \E c \in Clients : Offer(c)

HubStep == HubWork \/ HubStops \/ Resubscribe

ClientStep(c) ==
    \/ \E a \in Addresses : Connect(c, a)
    \/ Forward(c) \/ Disconnect(c) \/ Unregister(c)

Next ==
    \/ \E e \in Events, t \in Targets, u \in Subjects : Publish(e, t, u)
    \/ RedisLost \/ Cancel
    \/ HubStep
    \/ \E c \in Clients : ClientStep(c)

Spec == Init /\ [][Next]_vars

\* The goroutine of the hub takes what has arrived: its sends do not block, and
\* it gets the read lock back once a handler releases it.  Nothing is assumed of
\* the clients, of the handlers, of Redis coming back, or of the goroutine
\* noticing a cancellation.
Fairness == WF_vars(HubWork)

FairSpec == Spec /\ Fairness

-----------------------------------------------------------------------------
(* Properties.                                                             *)

TypeOK ==
    /\ published \in Seq(Events)
    /\ addr \in [Events -> Addresses \cup {None}]
    /\ subscribed \in BOOLEAN /\ cancelled \in BOOLEAN
    /\ \A i \in 1..Len(inflight) : inflight[i].event \in Events
    /\ hub \in {"receiving", "sending", "stopped"}
    /\ event \in Events \cup {None}
    /\ rest \subseteq Clients
    /\ conn \in [Clients -> {"idle", "open", "leaving", "closed"}]
    /\ key \in [Clients -> Addresses \cup {None}]
    /\ registered \subseteq Clients /\ gone \subseteq Clients
    /\ chan \in [Clients -> Seq(Events)]
    /\ \A c \in Clients : Len(chan[c]) <= ClientCapacity
    /\ got \in [Clients -> Seq(Events)]
    /\ missed \subseteq Clients \X Events /\ owed \subseteq Clients \X Events
    /\ losses \in 0..MaxLosses

\* What the hub has given to a client: written, or waiting to be.
Given(c) == got[c] \o chan[c]

\* A client is given only events for the target and the recipient it streams,
\* even when the prefix of one target is a prefix of another's.
OnlyOwnEvents ==
    \A c \in Clients : \A i \in 1..Len(Given(c)) : addr[Given(c)[i]] = key[c]

\* The hub never sends to a channel that is closed (which would panic, and
\* end the process: no one recovers in this goroutine).
OffersOnlyToOpen == rest \cap gone = {}

Position(e) == CHOOSE i \in 1..Len(published) : published[i] = e

\* A client sees events in the order in which they were published.
InOrder ==
    \A c \in Clients : \A i, j \in 1..Len(Given(c)) :
        i < j => Position(Given(c)[i]) <= Position(Given(c)[j])

\* The prefix of another target fits the channel of a, and is no shorter than
\* that of its own: it is equal, or it cuts into the recipient.
Shadowed(a) ==
    \E t \in Targets \ {a[1]} : /\ Len(Prefix[t]) >= Len(Prefix[a[1]])
                               /\ IsPrefix(Prefix[t], RedisChannel(a[1], a[2]))

\* Once the hub is done with an event, each client that streamed its address
\* has been given it or had a full channel: one slow client costs the others
\* nothing.  Only an address that the configuration leaves shadowed is
\* excepted.
NoOneSkipped ==
    \A p \in owed :
        \/ Shadowed(addr[p[2]])
        \/ p[2] = event
        \/ p \in missed
        \/ \E i \in 1..Len(Given(p[1])) : Given(p[1])[i] = p[2]

Waiting(e) == \E i \in 1..Len(inflight) : inflight[i].event = e

\* What Redis has sent is received, unless it is lost with the connection or
\* the hub is stopped, though no client may ever read: broadcast never waits.
HubKeepsUp == \A e \in Events : Waiting(e) ~> ~Waiting(e)
=============================================================================
