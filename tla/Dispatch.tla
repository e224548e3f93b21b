------------------------------ MODULE Dispatch ------------------------------
(***************************************************************************)
(* What happens to a notification the consumer hands to the dispatcher:    *)
(* it is persisted, its recipients and their channels are resolved, each   *)
(* provider sends, and the errors decide between ack and requeue.  Between *)
(* any two calls to the database, Redis, Telegram or a push service the    *)
(* recipients may read, dismiss, change a preference, or add and remove    *)
(* push subscriptions through the HTTP handlers; any call may fail; the    *)
(* process may crash; an ack may be lost.  In each case the message comes  *)
(* back and is dispatched again from the start.                            *)
(*                                                                         *)
(* Recipients and channels are taken in any order.  Notifications are      *)
(* valid: the ingest handler has checked them.                             *)
(***************************************************************************)
EXTENDS Naturals, FiniteSets

CONSTANTS
    Notes,         \* the notifications in the queue
    Users,
    Endpoints,     \* push subscriptions; each belongs to one user
    Owner,         \* Owner[e]: that user
    Audience,      \* Audience[n]: recipients of n, or subscribers of its topic
    Broadcast,     \* those with no recipients of their own
    Asked,         \* Asked[n]: channels of n, {} to follow the preferences
    WithId,        \* those that carry an ID
    Providers,     \* channels with a provider
    InitialPrefs,  \* InitialPrefs[u][c]: the preference row
    InitialSubs,   \* endpoints subscribed at the start
    MaxTries,      \* MaxTries[n]: bound on the dispatches of n
    MaxChanges,    \* bound on the changes made by users
    None           \* no notification, user or endpoint in hand

Channels == {"site", "telegram", "web_push", "email"}

\* A preference row: none; disabled; enabled with topic filters that let the
\* notification through, or with filters that do not.
PrefRows == {"none", "off", "on", "filtered"}

ASSUME DispatchAssumption ==
    /\ Owner \in [Endpoints -> Users]
    /\ Audience \in [Notes -> SUBSET Users]
    /\ Broadcast \subseteq Notes
    /\ Asked \in [Notes -> SUBSET Channels]
    /\ WithId \subseteq Notes
    /\ Providers \subseteq Channels \ {"email"}
    /\ InitialPrefs \in [Users -> [Channels -> PrefRows]]
    /\ InitialSubs \subseteq Endpoints
    /\ MaxTries \in [Notes -> Nat] /\ MaxChanges \in Nat
    /\ None \notin Notes \cup Users \cup Endpoints

\* The ID of a notification is its own, or made by the database for a try.
Ids  == UNION {{n} \X (0..MaxTries[n]) : n \in Notes}
Rows == Ids \X Users
Leaves == {"plain", "pushTemporary", "pushPermanent"}

VARIABLES
    pc,        \* where Dispatch is
    note,      \* the notification in hand
    id,        \* its ID, once persisted
    todo,      \* recipients still to be resolved
    user,      \* the recipient in hand
    chat,      \* did its preferences hold a Telegram row?
    targets,   \* its channels still to be sent on
    pushes,    \* its endpoints still to be pushed to
    gone,      \* the endpoint that answered 404 or 410
    errs,      \* leaves of the errors joined so far
    rows,      \* notification_deliveries
    read,      \* those marked read
    dismissed, \* those dismissed
    prefs,     \* notification_preferences
    subs,      \* push_subscriptions
    events,    \* rows published to Redis
    sent,      \* <<n, u>> accepted by Telegram
    answered,  \* <<n, e>> accepted, or refused for good, by a push service
    acked,     \* notifications acknowledged to RabbitMQ
    tries,     \* tries[n]: dispatches of n so far
    changes,   \* changes made by users so far
    declined,  \* history: <<n, u, c>>, channel not to be used at some time
    absent,    \* history: endpoints not subscribed at some time
    muted,     \* history: <<u, c>> disabled since this dispatch began
    used,      \* history: <<u, c>> used since the recipient in hand was taken
    lapsed     \* history: <<n, e>>, e answered 404 or 410 in the last
               \* dispatch of n and was not subscribed again since

jobVars  == <<pc, note, id, todo, user, chat, targets, pushes, gone, errs>>
siteVars == <<rows, read, dismissed, events>>
userVars == <<prefs, subs, changes>>
outVars  == <<sent, answered, acked, tries>>
histVars == <<declined, absent, muted, used, lapsed>>
vars == <<jobVars, siteVars, userVars, outVars, histVars>>

\* Mutant: an explicit channel is used whatever the preference.
ResolveIgnoringOptOut(p, n) ==
    IF Asked[n] # {} THEN Asked[n]
    ELSE IF \A c \in Channels : p[c] = "none" THEN {"site"}
    ELSE {c \in Channels : p[c] = "on"}

\* Mutant: a user with no rows gets nothing.
ResolveWithoutDefault(p, n) ==
    IF Asked[n] # {} THEN {c \in Asked[n] : p[c] \in {"on", "filtered"}}
    ELSE {c \in Channels : p[c] = "on"}

\* resolveChannels: the channels the notification asks for, less those the
\* user disabled, filters or not; else the site for a user with no rows; else
\* the enabled rows whose filters match.
Resolve(p, n) ==
    IF Asked[n] # {} THEN {c \in Asked[n] : p[c] # "off"}
    ELSE IF \A c \in Channels : p[c] = "none" THEN {"site"}
    ELSE {c \in Channels : p[c] = "on"}

\* Who is not to be reached by what, under the rows p: what the properties
\* hold resolveChannels to.
Unwanted(p, n, c) ==
    IF Asked[n] # {} THEN c \notin Asked[n] \/ p[c] = "off"
    ELSE \/ p[c] \in {"off", "filtered"}
         \/ p[c] = "none" /\ (c # "site" \/ \E d \in Channels : p[d] # "none")

DeclinedUnder(p) ==
    {t \in Notes \X Users \X Channels : Unwanted(p[t[2]], t[1], t[3])}

Init ==
    /\ pc = "idle" /\ note = None /\ id = None
    /\ todo = {} /\ user = None /\ chat = FALSE /\ targets = {} /\ pushes = {} /\ gone = None
    /\ errs = {}
    /\ rows = {} /\ read = {} /\ dismissed = {} /\ events = {}
    /\ prefs = InitialPrefs /\ subs = InitialSubs /\ changes = 0
    /\ sent = {} /\ answered = {} /\ acked = {}
    /\ tries = [n \in Notes |-> 0]
    /\ declined = DeclinedUnder(InitialPrefs)
    /\ absent = Endpoints \ InitialSubs
    /\ muted = {} /\ used = {} /\ lapsed = {}

-----------------------------------------------------------------------------
(* Dispatch.                                                               *)

\* The consumer hands a delivery over; the body is decoded anew, so an ID
\* the database made for an earlier try is not there.
Begin(n) ==
    /\ pc = "idle"
    /\ n \notin acked
    /\ tries[n] < MaxTries[n]
    /\ note' = n
    /\ tries' = [tries EXCEPT ![n] = @ + 1]
    /\ errs' = {}
    /\ pc' = "persist"
    /\ muted' = {t \in Users \X Channels : prefs[t[1]][t[2]] = "off"}
    /\ lapsed' = {t \in lapsed : t[1] # n}
    /\ UNCHANGED <<id, todo, user, chat, targets, pushes, gone, siteVars, userVars,
                   sent, answered, acked, declined, absent, used>>

\* The job is over and nothing of it is kept.
Forget ==
    /\ pc' = "idle" /\ note' = None /\ id' = None
    /\ todo' = {} /\ user' = None /\ chat' = FALSE /\ targets' = {} /\ pushes' = {} /\ gone' = None
    /\ errs' = {}
    /\ used' = {}

\* A call that fails before any recipient is known ends the dispatch; the
\* message is requeued.
EarlyError ==
    /\ pc = "persist" \/ (pc = "recipients" /\ note \in Broadcast)
    /\ Forget
    /\ UNCHANGED <<siteVars, userVars, outVars, declined, absent, muted, lapsed>>

\* Mutant: the ID the database returns is not read back.
PersistUnread ==
    /\ pc = "persist"
    /\ pc' = "recipients"
    /\ UNCHANGED <<note, id, todo, user, chat, targets, pushes, gone, errs,
                   siteVars, userVars, outVars, histVars>>

\* Mutant: every try makes an ID of its own.
PersistAsNew ==
    /\ pc = "persist"
    /\ id' = <<note, tries[note]>>
    /\ pc' = "recipients"
    /\ UNCHANGED <<note, todo, user, chat, targets, pushes, gone, errs,
                   siteVars, userVars, outVars, histVars>>

\* UpsertNotification.
Persist ==
    /\ pc = "persist"
    /\ id' = <<note, IF note \in WithId THEN 0 ELSE tries[note]>>
    /\ pc' = "recipients"
    /\ UNCHANGED <<note, todo, user, chat, targets, pushes, gone, errs,
                   siteVars, userVars, outVars, histVars>>

\* resolveRecipients.  With no recipients the loop ends at once.
ResolveRecipients ==
    /\ pc = "recipients"
    /\ todo' = Audience[note]
    /\ pc' = "next"
    /\ UNCHANGED <<note, id, user, chat, targets, pushes, gone, errs,
                   siteVars, userVars, outVars, histVars>>

\* The next recipient: GetPreferences and the channels it leaves.
NextRecipient(u) ==
    /\ pc = "next"
    /\ u \in todo
    /\ todo' = todo \ {u}
    /\ user' = u
    /\ targets' = Resolve(prefs[u], note)
    /\ chat' = (prefs[u]["telegram"] # "none")
    /\ pc' = "send"
    /\ UNCHANGED <<note, id, pushes, gone, errs, siteVars, userVars, outVars, histVars>>

\* GetPreferences fails: the recipient is skipped, the error is joined.
SkipRecipient(u) ==
    /\ pc = "next"
    /\ u \in todo
    /\ todo' = todo \ {u}
    /\ errs' = errs \cup {"plain"}
    /\ UNCHANGED <<pc, note, id, user, chat, targets, pushes, gone,
                   siteVars, userVars, outVars, histVars>>

NextChannel(c) ==
    /\ pc = "send"
    /\ c \in targets
    /\ targets' = targets \ {c}

\* Channels with no provider are passed over without an error.
SkipChannel ==
    /\ \E c \in Channels \ Providers : NextChannel(c)
    /\ UNCHANGED <<pc, note, id, todo, user, chat, pushes, gone, errs,
                   siteVars, userVars, outVars, histVars>>

\* A Send that fails before it reaches anyone: an unknown site target, a
\* database call, a Telegram preference without a chat.  It is no SendError.
SendFails ==
    /\ \E c \in Providers : NextChannel(c)
    /\ errs' = errs \cup {"plain"}
    /\ UNCHANGED <<pc, note, id, todo, user, chat, pushes, gone,
                   siteVars, userVars, outVars, histVars>>

\* A call is carried out, but its answer is late or lost, and it counts as
\* failed.
AnswerLost(leaf) == errs' = errs \cup {leaf}

\* A call that is carried out is a use of channel c for u, answered or not.
Use(u, c) == used' = used \cup {<<u, c>>}

RecipientDone ==
    /\ pc = "send"
    /\ targets = {}
    /\ user' = None
    /\ pc' = "next"
    /\ used' = {}
    /\ UNCHANGED <<note, id, todo, chat, targets, pushes, gone, errs,
                   siteVars, userVars, outVars, declined, absent, muted, lapsed>>

-----------------------------------------------------------------------------
(* The site provider.                                                      *)

\* Mutant: the upsert writes the flags of a new delivery over the old ones.
SiteInsertAnew ==
    /\ "site" \in Providers
    /\ NextChannel("site")
    /\ rows' = rows \cup {<<id, user>>}
    /\ read' = read \ {<<id, user>>}
    /\ dismissed' = dismissed \ {<<id, user>>}
    /\ pc' = "publish"
    /\ Use(user, "site")
    /\ UNCHANGED <<note, id, todo, user, chat, pushes, gone, errs,
                   events, userVars, outVars, declined, absent, muted, lapsed>>

\* InsertSiteDelivery: a row that is there already keeps its flags.
SiteInsert ==
    /\ "site" \in Providers
    /\ NextChannel("site")
    /\ rows' = rows \cup {<<id, user>>}
    /\ \/ pc' = "publish" /\ UNCHANGED errs
       \/ pc' = "send" /\ AnswerLost("plain")
    /\ Use(user, "site")
    /\ UNCHANGED <<note, id, todo, user, chat, pushes, gone,
                   read, dismissed, events, userVars, outVars, declined, absent, muted, lapsed>>

SitePublish ==
    /\ pc = "publish"
    /\ events' = events \cup {<<id, user>>}
    /\ pc' = "send"
    /\ UNCHANGED errs \/ AnswerLost("plain")
    /\ Use(user, "site")
    /\ UNCHANGED <<note, id, todo, user, chat, targets, pushes, gone,
                   rows, read, dismissed, userVars, outVars, declined, absent, muted, lapsed>>

\* Redis fails; the row stays.
SitePublishFails ==
    /\ pc = "publish"
    /\ errs' = errs \cup {"plain"}
    /\ pc' = "send"
    /\ UNCHANGED <<note, id, todo, user, chat, targets, pushes, gone,
                   siteVars, userVars, outVars, histVars>>

-----------------------------------------------------------------------------
(* The Telegram provider.                                                  *)

\* Telegram takes the message.  The chat comes from the preference row.
TelegramSend ==
    /\ "telegram" \in Providers
    /\ NextChannel("telegram")
    /\ chat
    /\ sent' = sent \cup {<<note, user>>}
    /\ UNCHANGED errs \/ AnswerLost("plain")
    /\ Use(user, "telegram")
    /\ UNCHANGED <<pc, note, id, todo, user, chat, pushes, gone,
                   siteVars, userVars, answered, acked, tries, declined, absent, muted, lapsed>>

-----------------------------------------------------------------------------
(* The web push provider.                                                  *)

\* ListPushSubscriptionsForSubject.
PushList ==
    /\ "web_push" \in Providers
    /\ NextChannel("web_push")
    /\ pushes' = {e \in subs : Owner[e] = user}
    /\ pc' = "push"
    /\ UNCHANGED <<note, id, todo, user, chat, gone, errs,
                   siteVars, userVars, outVars, histVars>>

\* The request goes out, whatever becomes of it.
Push(e) ==
    /\ pc = "push"
    /\ e \in pushes
    /\ pushes' = pushes \ {e}
    /\ Use(Owner[e], "web_push")

\* 2xx.
PushAccepted(e) ==
    /\ Push(e)
    /\ answered' = answered \cup {<<note, e>>}
    /\ UNCHANGED errs \/ AnswerLost("pushTemporary")
    /\ UNCHANGED <<pc, note, id, todo, user, chat, targets, gone,
                   siteVars, userVars, sent, acked, tries, declined, absent, muted, lapsed>>

\* No answer, or a status that may pass.
PushFails(e) ==
    /\ Push(e)
    /\ errs' = errs \cup {"pushTemporary"}
    /\ UNCHANGED <<pc, note, id, todo, user, chat, targets, gone,
                   siteVars, userVars, outVars, declined, absent, muted, lapsed>>

\* 400, 403, or 429 for too many provider tokens.
PushRefused(e) ==
    /\ Push(e)
    /\ answered' = answered \cup {<<note, e>>}
    /\ errs' = errs \cup {"pushPermanent"}
    /\ UNCHANGED <<pc, note, id, todo, user, chat, targets, gone,
                   siteVars, userVars, sent, acked, tries, declined, absent, muted, lapsed>>

\* 404 or 410: the subscription is to be deleted.
PushGone(e) ==
    /\ Push(e)
    /\ answered' = answered \cup {<<note, e>>}
    /\ lapsed' = lapsed \cup {<<note, e>>}
    /\ gone' = e
    /\ pc' = "delete"
    /\ UNCHANGED <<note, id, todo, user, chat, targets, errs, siteVars, userVars,
                   sent, acked, tries, declined, absent, muted>>

DropSubscription ==
    /\ pc = "delete"
    /\ subs' = subs \ {gone}
    /\ absent' = absent \cup {gone}
    /\ gone' = None
    /\ pc' = "push"
    /\ UNCHANGED errs \/ AnswerLost("pushTemporary")
    /\ UNCHANGED <<note, id, todo, user, chat, targets, pushes, siteVars,
                   prefs, changes, outVars, declined, muted, used, lapsed>>

\* Mutant: a deletion that fails is only logged.
DropFailsQuietly ==
    /\ pc = "delete"
    /\ gone' = None
    /\ pc' = "push"
    /\ UNCHANGED <<note, id, todo, user, chat, targets, pushes, errs, siteVars,
                   userVars, outVars, histVars>>

DropFails ==
    /\ pc = "delete"
    /\ errs' = errs \cup {"pushTemporary"}
    /\ gone' = None
    /\ pc' = "push"
    /\ UNCHANGED <<note, id, todo, user, chat, targets, pushes, siteVars, userVars,
                   outVars, histVars>>

PushDone ==
    /\ pc = "push"
    /\ pushes = {}
    /\ pc' = "send"
    /\ UNCHANGED <<note, id, todo, user, chat, targets, pushes, gone, errs,
                   siteVars, userVars, outVars, histVars>>

-----------------------------------------------------------------------------
(* The verdict.                                                            *)

\* Mutant: one permanent web push failure is enough for an ack.
AckVerdictAny(E) == E = {} \/ "pushPermanent" \in E

\* Dispatch returned no error, or IsPermanentChannelOnly says that every leaf
\* of it is a permanent failure of web push.
AckVerdict(E) == E \subseteq {"pushPermanent"}

\* Dispatch returns.  The ack may be lost, and a nack requeues: in both cases
\* the message comes back.
Finish ==
    /\ pc = "next"
    /\ todo = {}
    /\ \/ AckVerdict(errs) /\ acked' = acked \cup {note}
       \/ UNCHANGED acked
    /\ Forget
    /\ UNCHANGED <<siteVars, userVars, sent, answered, tries, declined, absent, muted, lapsed>>

\* The process dies in the middle of a dispatch.
Crash ==
    /\ pc # "idle"
    /\ Forget
    /\ UNCHANGED <<siteVars, userVars, outVars, declined, absent, muted, lapsed>>

-----------------------------------------------------------------------------
(* The users, through the HTTP handlers.                                   *)

Change ==
    /\ changes < MaxChanges
    /\ changes' = changes + 1

MarkRead(r) ==
    /\ r \in rows
    /\ Change
    /\ read' = read \cup {r}
    /\ UNCHANGED <<jobVars, rows, dismissed, events, prefs, subs, outVars, histVars>>

Dismiss(r) ==
    /\ r \in rows
    /\ Change
    /\ dismissed' = dismissed \cup {r}
    /\ UNCHANGED <<jobVars, rows, read, events, prefs, subs, outVars, histVars>>

\* UpsertPreference; there is no way back to "none".
PutPreference(u, c, p) ==
    /\ p # "none"
    /\ p # prefs[u][c]
    /\ Change
    /\ prefs' = [prefs EXCEPT ![u][c] = p]
    /\ declined' = declined \cup DeclinedUnder(prefs')
    /\ muted' = IF p = "off" THEN muted ELSE muted \ {<<u, c>>}
    /\ UNCHANGED <<jobVars, siteVars, subs, outVars, absent, used, lapsed>>

Subscribe(e) ==
    /\ Change
    /\ subs' = subs \cup {e}
    /\ lapsed' = {t \in lapsed : t[2] # e}
    /\ UNCHANGED <<jobVars, siteVars, prefs, outVars, declined, absent, muted, used>>

Unsubscribe(e) ==
    /\ e \in subs
    /\ Change
    /\ subs' = subs \ {e}
    /\ absent' = absent \cup {e}
    /\ UNCHANGED <<jobVars, siteVars, prefs, outVars, declined, muted, used, lapsed>>

-----------------------------------------------------------------------------
JobStep ==
    \/ \E n \in Notes : Begin(n)
    \/ EarlyError \/ Persist \/ ResolveRecipients
    \/ \E u \in Users : NextRecipient(u) \/ SkipRecipient(u)
    \/ SkipChannel \/ SendFails \/ RecipientDone
    \/ SiteInsert \/ SitePublish \/ SitePublishFails
    \/ TelegramSend
    \/ PushList \/ PushDone \/ DropSubscription \/ DropFails
    \/ \E e \in Endpoints : PushAccepted(e) \/ PushFails(e) \/ PushRefused(e) \/ PushGone(e)
    \/ Finish

UserStep ==
    \/ \E r \in Rows : MarkRead(r) \/ Dismiss(r)
    \/ \E u \in Users, c \in Channels, p \in PrefRows : PutPreference(u, c, p)
    \/ \E e \in Endpoints : Subscribe(e) \/ Unsubscribe(e)

Next == JobStep \/ UserStep \/ Crash

Spec == Init /\ [][Next]_vars

-----------------------------------------------------------------------------
(* Properties.                                                             *)

TypeOK ==
    /\ pc \in {"idle", "persist", "recipients", "next", "send", "publish",
               "push", "delete"}
    /\ note \in Notes \cup {None}
    /\ id \in Ids \cup {None}
    /\ todo \subseteq Users /\ user \in Users \cup {None} /\ chat \in BOOLEAN
    /\ targets \subseteq Channels
    /\ pushes \subseteq Endpoints /\ gone \in Endpoints \cup {None}
    /\ errs \subseteq Leaves
    /\ rows \subseteq Rows /\ read \subseteq Rows
    /\ dismissed \subseteq Rows /\ events \subseteq Rows
    /\ prefs \in [Users -> [Channels -> PrefRows]]
    /\ subs \subseteq Endpoints
    /\ sent \subseteq Notes \X Users /\ answered \subseteq Notes \X Endpoints
    /\ acked \subseteq Notes
    /\ tries \in [Notes -> Nat]
    /\ \A n \in Notes : tries[n] <= MaxTries[n]
    /\ changes \in 0..MaxChanges

RowsOf(n, u) == {r \in rows : r[1][1] = n /\ r[2] = u}

\* A notification is acked only when each recipient has an inbox row whose
\* event was published and a Telegram message, and each of their push services
\* has answered for good: unless the channel has no provider, or the user did
\* not want it, or the subscription was not there, at some time.  A failure
\* for one recipient or channel neither hides the failure of another nor
\* keeps the rest from being tried.
AckedReachedEveryone ==
    \A n \in acked : \A u \in Audience[n] :
        /\ "site" \in Providers =>
              \/ <<n, u, "site">> \in declined
              \/ RowsOf(n, u) \cap events # {}
        /\ "telegram" \in Providers =>
              <<n, u, "telegram">> \in declined \/ <<n, u>> \in sent
        /\ "web_push" \in Providers =>
              \/ <<n, u, "web_push">> \in declined
              \/ \A e \in Endpoints :
                    Owner[e] = u => e \in absent \/ <<n, e>> \in answered

\* However often a notification with an ID is dispatched, a recipient has one
\* inbox row of it.
OneRowPerRecipient ==
    \A n \in WithId, u \in Users : Cardinality(RowsOf(n, u)) <= 1

\* What a recipient has read or dismissed stays so when the notification is
\* dispatched again.
FlagsAreKept == [][read \subseteq read' /\ dismissed \subseteq dismissed']_vars

\* A channel the user had disabled before a dispatch began, and not enabled
\* since, is not used by that dispatch: no row is written or event published,
\* no message and no push goes out, even if the notification asks for it, and
\* even if an earlier try of it, before the user opted out, had got through.
\* Each use is held against muted from then until the recipient is done with.
OptOutIsRespected == used \cap muted = {}

\* When a notification is acked, the subscriptions it found gone are deleted,
\* unless the user has subscribed again: a failed deletion brings the
\* notification back.
GoneIsDropped ==
    \A n \in acked, e \in subs : <<n, e>> \notin lapsed
=============================================================================
