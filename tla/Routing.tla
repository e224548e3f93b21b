------------------------------- MODULE Routing -------------------------------
(***************************************************************************)
(* Where a notification goes for one user: to which channels, and there to *)
(* which site target or Telegram bot.  That is decided by the              *)
(* configuration the process started with, the notification as the ingest  *)
(* handler accepted it, and the preferences, which the user writes and     *)
(* looks at meanwhile.                                                     *)
(*                                                                         *)
(* What a send meets on its way is the business of Dispatch; here a send   *)
(* fails only because it does not know where to go.                        *)
(***************************************************************************)
EXTENDS ProviderConfig

CONSTANTS
    Configs,   \* configurations the process may be started with
    Sends,     \* notifications for the user that may be sent to POST /ingest
    Puts,      \* bodies of PUT /notifications/preferences
    MaxPuts,   \* bound on the PUTs
    MaxSends   \* bound on the notifications accepted

\* A preference's config: does it decode, and what is in it?
EmptyConfig == [ok |-> TRUE, target |-> "", bot |-> "", chat |-> ""]
PrefConfigs == [ok : BOOLEAN, target : Texts, bot : Texts, chat : Texts]

ASSUME RoutingAssumption ==
    /\ \A n \in Sends : n \in Notifications /\ uniqueStrings(n.recipients) # <<>>
    /\ \A p \in Puts : p.enabled \in BOOLEAN /\ p.config \in PrefConfigs
    /\ MaxPuts \in Nat /\ MaxSends \in Nat

NoRow == [stored |-> FALSE]

VARIABLES
    service, \* off, up, refused
    config,  \* the configuration
    site,    \* site provider: targets with their Redis prefixes, and default
    tg,      \* Telegram provider: bots and default
    rows,    \* rows[c]: the preference row of the user for channel c
    puts,    \* PUTs so far
    queue,   \* notifications accepted and not settled
    sends,   \* notifications accepted so far
    job,     \* what the dispatcher has in hand; <<>> if nothing
    sent     \* sends of this dispatch: to whom, by what, where to

startVars == <<service, config, site, tg>>
prefVars  == <<rows, puts>>
sendVars  == <<queue, sends, job, sent>>
vars == <<startVars, prefVars, sendVars>>

Init ==
    /\ service = "off" /\ config = <<>> /\ site = <<>> /\ tg = <<>>
    /\ rows = [c \in Channels |-> NoRow]
    /\ puts = 0
    /\ queue = {} /\ sends = 0 /\ job = <<>> /\ sent = <<>>

-----------------------------------------------------------------------------
(* The start.                                                              *)

\* The hub has the targets of the site provider, whether that is enabled or not.
Start(c) ==
    /\ service = "off" /\ Validates(c) /\ EffectiveTargets(c.site) # {}
    /\ config' = c
    /\ site' \in (IF c.site.enabled THEN EffectiveTargets(c.site) ELSE {<<>>})
    /\ tg' \in (IF c.telegram.enabled THEN EffectiveBots(WithDefaults(c.telegram)) ELSE {<<>>})
    /\ service' = "up"
    /\ UNCHANGED <<prefVars, sendVars>>

\* validate finds a fault; or the site is disabled, which validate passes, and
\* its targets are faulty, which main does not.
RefuseToStart(c) ==
    /\ service = "off"
    /\ ~Validates(c) \/ EffectiveTargets(c.site) = {}
    /\ service' = "refused"
    /\ UNCHANGED <<config, site, tg, prefVars, sendVars>>

Configured(c) == CASE c = "site" -> config.site.enabled
                   [] c = "telegram" -> config.telegram.enabled
                   [] OTHER -> FALSE

-----------------------------------------------------------------------------
(* GET and PUT /notifications/preferences.                                 *)

Defaults == [c \in {"site", "web_push"} |-> c = "site"]

Row(enabled, config_, topics) ==
    [stored |-> TRUE, enabled |-> enabled, config |-> config_, topics |-> topics]

Stored(rs) == {c \in Channels : rs[c].stored}

\* What GET and PUT answer.
MergeDefaults(rs) ==
    [c \in Stored(rs) \cup DOMAIN Defaults |->
        IF rs[c].stored THEN rs[c] ELSE Row(Defaults[c], EmptyConfig, <<>>)]

\* UpsertPreference: the whole row is replaced, the config too when the body
\* has none.  With an invalid channel the answer is 400.
Put(p) ==
    /\ service = "up" /\ puts < MaxPuts
    /\ Trim[p.channel] \in Channels
    /\ rows' = [rows EXCEPT ![Trim[p.channel]] = Row(p.enabled, p.config, uniqueStrings(p.topics))]
    /\ puts' = puts + 1
    /\ UNCHANGED <<startVars, sendVars>>

-----------------------------------------------------------------------------
(* From POST /ingest to the providers.                                     *)

\* The ingest handler; a notification that is not valid is answered 400.
Ingest(n) ==
    /\ service = "up" /\ sends < MaxSends
    /\ Valid(n)
    /\ queue' = queue \cup {Normalize(n)}
    /\ sends' = sends + 1
    /\ UNCHANGED <<startVars, prefVars, job, sent>>

\* Dispatch begins, with the validation it does again.
Begin(n) ==
    /\ job = <<>> /\ n \in queue /\ Valid(n)
    /\ job' = [item |-> n, note |-> Normalize(n), users |-> Normalize(n).recipients,
               to |-> "", rows |-> rows, used |-> <<>>, left |-> <<>>]
    /\ sent' = <<>>
    /\ UNCHANGED <<startVars, prefVars, queue, sends>>

\* Mutant: a user with no row for the site has it all the same.
resolveChannelsWithSite(rs, n) ==
    IF n.channels # <<>> THEN SelectSeq(n.channels, LAMBDA c : rs[c].stored => rs[c].enabled)
    ELSE SetToSeq({c \in Channels :
                     IF rs[c].stored THEN rs[c].enabled /\ TopicMatches(rs[c].topics, n.topic)
                     ELSE c = "site"})

\* Mutant: the channels asked for come on top of the preferred ones.
resolveChannelsBoth(rs, n) ==
    IF Stored(rs) = {} /\ n.channels = <<>> THEN <<"site">>
    ELSE n.channels \o SetToSeq({c \in Stored(rs) :
                                    rs[c].enabled /\ TopicMatches(rs[c].topics, n.topic)})

\* The channels the notification asks for, without those the user disabled.
notDisabled(rs, channels) ==
    LET Add(out, c) == IF rs[c].stored => rs[c].enabled THEN Append(out, c) ELSE out
    IN FoldLeft(Add, <<>>, channels)

\* The order of the preferred channels, that of their names, is left open.
resolveChannels(rs, n) ==
    IF n.channels # <<>> THEN notDisabled(rs, n.channels)
    ELSE IF Stored(rs) = {} THEN <<"site">>
    ELSE SetToSeq({c \in Stored(rs) : rs[c].enabled /\ TopicMatches(rs[c].topics, n.topic)})

\* The next recipient.  Two spellings of a UUID are two recipients, with the
\* same rows.
NextRecipient ==
    /\ job # <<>> /\ job.left = <<>> /\ job.users # <<>>
    /\ LET used == resolveChannels(rows, job.note) IN
       job' = [job EXCEPT !.users = Tail(@), !.to = Head(job.users), !.rows = rows,
                          !.used = used, !.left = used]
    /\ UNCHANGED <<startVars, prefVars, queue, sends, sent>>

\* What the provider of c is given of the preference.
Config(c) == IF job.rows[c].stored THEN job.rows[c].config ELSE EmptyConfig

\* Metadata first, then the preference, then the default.
resolveTarget(n, pref) ==
    LET target == IF Trim[n.target] # "" THEN Trim[n.target]
                  ELSE IF Trim[pref.target] # "" THEN Trim[pref.target]
                  ELSE site.default
    IN IF pref.ok /\ target \in DOMAIN site.prefix THEN target ELSE ""

\* The preference first, then metadata, then the default.
resolveBot(n, pref) ==
    LET bot == IF Trim[pref.bot] # "" THEN Trim[pref.bot]
               ELSE IF Trim[n.bot] # "" THEN Trim[n.bot]
               ELSE tg.default
    IN IF pref.ok /\ Trim[pref.chat] # "" /\ bot \in DOMAIN tg.bots THEN bot ELSE ""

\* The next channel of the recipient: a channel without a provider is passed
\* over; where = "" is a send that fails.
NextChannel ==
    /\ job # <<>> /\ job.left # <<>>
    /\ LET c     == Head(job.left)
           where == CASE c = "site"     -> resolveTarget(job.note, Config(c))
                      [] c = "telegram" -> resolveBot(job.note, Config(c))
       IN sent' = IF Configured(c)
                  THEN Append(sent, [to |-> job.to, channel |-> c, where |-> where])
                  ELSE sent
    /\ job' = [job EXCEPT !.left = Tail(@)]
    /\ UNCHANGED <<startVars, prefVars, queue, sends>>

Failed == \E i \in DOMAIN sent : sent[i].where = ""

\* Dispatch returns.  After a failure the notification is tried again, until
\* the consumer drops it.
Finish ==
    /\ job # <<>> /\ job.left = <<>> /\ job.users = <<>>
    /\ \/ queue' = queue \ {job.item}
       \/ Failed /\ UNCHANGED queue
    /\ job' = <<>> /\ sent' = <<>>
    /\ UNCHANGED <<startVars, prefVars, sends>>

-----------------------------------------------------------------------------
Next ==
    \/ \E c \in Configs : Start(c) \/ RefuseToStart(c)
    \/ \E p \in Puts : Put(p)
    \/ \E n \in Sends : Ingest(n)
    \/ \E n \in queue : Begin(n)
    \/ NextRecipient \/ NextChannel \/ Finish

Spec == Init /\ [][Next]_vars

-----------------------------------------------------------------------------
(* Properties.                                                             *)

\* A notification that names no channels uses those that GET would have shown
\* as enabled, with a filter that lets it through, and no other; except that
\* the site, shown as enabled to a user who has no row for it, is not used
\* once the user has a row for another channel.
ShownIsUsed ==
    job # <<>> /\ job.to # "" /\ job.note.channels = <<>> =>
        LET shown == MergeDefaults(job.rows)
            on    == {c \in DOMAIN shown :
                        shown[c].enabled /\ TopicMatches(shown[c].topics, job.note.topic)}
            site_ == IF Stored(job.rows) \ {"site"} # {} /\ ~job.rows["site"].stored
                     THEN {"site"} ELSE {}
        IN ToSet(job.used) = on \ site_

\* If neither the notification nor the preference says which target or bot to
\* use, the provider knows one: start-up lets no default through that is not
\* configured.
DefaultsNeverFail ==
    \A i \in DOMAIN sent : sent[i].to = job.to /\ sent[i].where = "" =>
        LET pref == Config(sent[i].channel) IN
        \/ ~pref.ok
        \/ sent[i].channel = "site" /\ {Trim[job.note.target], Trim[pref.target]} # {""}
        \/ sent[i].channel = "telegram" /\ \/ {Trim[job.note.bot], Trim[pref.bot]} # {""}
                                           \/ Trim[pref.chat] = ""

\* However a sender repeats recipients and channels, a dispatch sends once to
\* each recipient on each channel.  Spellings of one UUID count as recipients
\* of their own.
OneSendEach ==
    \A i, j \in DOMAIN sent :
        sent[i].to = sent[j].to /\ sent[i].channel = sent[j].channel => i = j

\* README.md:57: notification metadata can override the bot of the preference.
MetadataOverridesBot ==
    \A i \in DOMAIN sent :
        sent[i].channel = "telegram" /\ Trim[job.note.bot] \in DOMAIN tg.bots
            /\ sent[i].where # "" => sent[i].where = Trim[job.note.bot]
=============================================================================
