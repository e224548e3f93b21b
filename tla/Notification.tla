---------------------------- MODULE Notification ----------------------------
(***************************************************************************)
(* A notification as it is sent, its normalisation and validation, and the *)
(* topic filters of a preference.                                          *)
(*                                                                         *)
(* A text is a string of the model whose relevant parts are given: what is *)
(* left of it without the white space around it, the topics it matches as  *)
(* a filter with a trailing star, and whether it parses as a UUID.  IDs,   *)
(* bodies, links and senders are left out.                                 *)
(***************************************************************************)
EXTENDS Naturals, SequencesExt

CONSTANTS
    Trim,     \* Trim[t]: strings.TrimSpace
    Wildcard, \* Wildcard[t]: the topics with the prefix that t gives, if it
              \* ends in a star
    Uuids     \* the texts uuid.Parse takes, in any spelling

Texts == DOMAIN Trim

ASSUME NotificationAssumption ==
    /\ \A t \in Texts : Trim[t] \in Texts /\ Trim[Trim[t]] = Trim[t]
    /\ "" \in Texts
    /\ DOMAIN Wildcard = Texts
    /\ Uuids \subseteq Texts \ {""}

Channels == {"site", "telegram", "email", "web_push"}

Priorities == {"low", "normal", "high", "urgent"}

\* What a sender may write.  target and bot are the entries site_target and
\* telegram_bot of the metadata.
Notifications ==
    [topic : Texts, title : Texts, priority : Texts, recipients : Seq(Texts),
     channels : Seq(Texts), target : Texts, bot : Texts]

\* uniqueStrings, uniqueChannels and normalizeTopics.
uniqueStrings(in) ==
    LET AddTo(out, t) ==
            IF Trim[t] \in ToSet(out) \cup {""} THEN out ELSE Append(out, Trim[t])
    IN FoldLeft(AddTo, <<>>, in)

Normalize(n) ==
    [n EXCEPT !.topic = Trim[@], !.title = Trim[@],
              !.recipients = uniqueStrings(@), !.channels = uniqueStrings(@),
              !.priority = IF @ = "" THEN "normal" ELSE @]

\* ValidateNotification lets n through, once it is normalised.
Valid(n) ==
    LET m == Normalize(n) IN
    /\ m.topic # "" /\ m.title # ""
    /\ m.priority \in Priorities
    /\ ToSet(m.recipients) \subseteq Uuids
    /\ ToSet(m.channels) \subseteq Channels

\* No filter lets every topic through; a blank one lets none through.
TopicMatches(filters, topic) ==
    filters = <<>> \/ \E i \in DOMAIN filters :
        LET filter == Trim[filters[i]]
        IN filter # "" /\ (filter = topic \/ topic \in Wildcard[filter])
=============================================================================
