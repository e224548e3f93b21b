--------------------------- MODULE DispatchProofs ---------------------------
(***************************************************************************)
(* Proofs about module Dispatch, for any notifications, recipients,        *)
(* endpoints, providers, preferences and bounds.                           *)
(***************************************************************************)
EXTENDS Dispatch, TLAPS, FiniteSetTheorems

-----------------------------------------------------------------------------
(* Types and stages.                                                       *)

Working == {"send", "publish", "push", "delete"}

Types ==
    /\ TypeOK
    /\ lapsed \subseteq Notes \X Endpoints
    /\ absent \subseteq Endpoints

\* What Dispatch has in hand at each of its stages.  The ID is that of the
\* notification, the same at every try if it carries one.
Stages ==
    /\ pc = "idle" <=> note = None
    /\ pc \notin {"idle", "persist"} =>
          /\ id \in Ids /\ id[1] = note
          /\ note \in WithId => id[2] = 0
    /\ pc \in Working <=> user # None
    /\ pc \notin Working => targets = {}
    /\ pc \notin {"push", "delete"} => pushes = {}
    /\ \A e \in pushes : Owner[e] = user
    /\ pc = "delete" <=> gone # None
    /\ pc = "publish" => <<id, user>> \in rows
    /\ pc = "delete" => Owner[gone] = user /\ <<note, gone>> \in answered
    /\ note \notin acked

JobInv == Types /\ Stages

-----------------------------------------------------------------------------
(* Reaching everyone.                                                      *)

\* Histories are never behind: what is not wanted, and who is not there, now.
Remembered ==
    /\ DeclinedUnder(prefs) \subseteq declined
    /\ Endpoints \ subs \subseteq absent

Served(n, e) == e \in absent \/ <<n, e>> \in answered

\* What AckedReachedEveryone asks of one channel.
Reached(n, u, c) ==
    \/ <<n, u, c>> \in declined
    \/ c = "site" /\ RowsOf(n, u) \cap events # {}
    \/ c = "telegram" /\ <<n, u>> \in sent
    \/ c = "web_push" /\ \A e \in Endpoints : Owner[e] = u => Served(n, e)

\* The provider of c is at work for the recipient in hand.
Underway(n, c) ==
    \/ c = "site" /\ pc = "publish"
    \/ /\ c = "web_push" /\ pc \in {"push", "delete"}
       /\ \A e \in Endpoints \ pushes : Owner[e] = user => Served(n, e)

\* As long as no error forbids the ack, each recipient was reached on every
\* channel, or its turn is yet to come.
SoFar ==
    \A n \in Notes : n = note /\ pc \in Working \cup {"next"} /\ AckVerdict(errs) =>
        \A u \in Audience[n] \ todo : \A c \in Providers :
            \/ Reached(n, u, c)
            \/ u = user /\ (c \in targets \/ Underway(n, c))

ReachedInv ==
    /\ Remembered
    /\ SoFar
    /\ \A n \in acked : \A u \in Audience[n] : \A c \in Providers : Reached(n, u, c)

\* The rows of a notification that carries an ID have that ID.
OwnIds == \A r \in rows : r[1][1] \in WithId => r[1][2] = 0

\* An endpoint that answered 404 or 410 and is still there: the notification is
\* not acked, and its dispatch has an error to report, or is about to delete it.
GoneInv ==
    \A n \in Notes, e \in subs : <<n, e>> \in lapsed =>
        /\ n \notin acked
        /\ note = n => ~AckVerdict(errs) \/ (pc = "delete" /\ gone = e)

\* What was disabled before the dispatch began, and not enabled since, is
\* disabled, and is neither among what the dispatch has yet to use nor among
\* what it has used.
MutedInv ==
    /\ \A u \in Users, c \in Channels : <<u, c>> \in muted => prefs[u][c] = "off"
    /\ \A c \in targets : <<user, c>> \notin muted
    /\ pc \in {"push", "delete"} => <<user, "web_push">> \notin muted
    /\ pc = "publish" => <<user, "site">> \notin muted
    /\ pc = "idle" => used = {}
    /\ OptOutIsRespected

\* The ID of a notification that carries one is the same at every try; the
\* others get one of this try.
LEMMA PersistId ==
  ASSUME Types, Stages, Persist
  PROVE  id' \in Ids /\ id'[1] = note /\ (note \in WithId => id'[2] = 0)
<1>1. note \in Notes
  BY DEF Persist, Stages, Types, TypeOK
<1>2. MaxTries[note] \in Nat /\ tries[note] \in Nat /\ tries[note] <= MaxTries[note]
  BY <1>1, DispatchAssumption DEF DispatchAssumption, Types, TypeOK
<1>3. PICK k \in 0..MaxTries[note] : id' = <<note, k>> /\ (note \in WithId => k = 0)
  BY <1>2 DEF Persist
<1> QED
  BY <1>1, <1>3 DEF Ids

\* Each step of the dispatcher, the users and the crash keeps the types.
LEMMA TypesStep == Types /\ Stages /\ [Next]_vars => Types'
<1> SUFFICES ASSUME Types, Stages, [Next]_vars PROVE Types'
  OBVIOUS
<1>h. Types /\ Stages /\ DispatchAssumption
  BY DispatchAssumption
<1>1. ASSUME NEW n \in Notes, Begin(n)
      PROVE  Types'
  BY <1>1, <1>h DEF Begin, Types, TypeOK, Stages, Working, Rows, Leaves, DispatchAssumption, jobVars, siteVars, userVars, outVars, histVars
<1>2. CASE EarlyError
  BY <1>2, <1>h DEF EarlyError, Forget, Types, TypeOK, Stages, Working, Rows, Leaves, DispatchAssumption, jobVars, siteVars, userVars, outVars, histVars
<1>3. CASE Persist
  <2>1. id' \in Ids
    BY <1>3, <1>h, PersistId
  <2> QED
    BY <1>3, <1>h, <2>1 DEF Persist, Types, TypeOK, Stages, Working, Rows, Leaves, DispatchAssumption, jobVars, siteVars, userVars, outVars, histVars
<1>4. CASE ResolveRecipients
  BY <1>4, <1>h DEF ResolveRecipients, Types, TypeOK, Stages, Working, Rows, Leaves, DispatchAssumption, jobVars, siteVars, userVars, outVars, histVars
<1>5. ASSUME NEW u \in Users, NextRecipient(u)
      PROVE  Types'
  <2>1. chat' \in BOOLEAN
    BY <1>5 DEF NextRecipient
  <2>2. targets' \subseteq Channels
    <3>1. Asked[note] \subseteq Channels
      BY <1>5, <1>h DEF NextRecipient, DispatchAssumption, Types, TypeOK, Stages
    <3>2. targets' = Resolve(prefs[u], note)
      BY <1>5 DEF NextRecipient
    <3> QED
      BY <3>1, <3>2 DEF Resolve, Channels
  <2> QED
    BY <1>5, <1>h, <2>1, <2>2 DEF NextRecipient, Types, TypeOK, Stages, Working, Rows, Leaves, DispatchAssumption, jobVars, siteVars, userVars, outVars, histVars
<1>6. ASSUME NEW u \in Users, SkipRecipient(u)
      PROVE  Types'
  BY <1>6, <1>h DEF SkipRecipient, Types, TypeOK, Stages, Working, Rows, Leaves, DispatchAssumption, jobVars, siteVars, userVars, outVars, histVars
<1>7. CASE SkipChannel
  BY <1>7, <1>h DEF SkipChannel, NextChannel, Types, TypeOK, Stages, Working, Rows, Leaves, DispatchAssumption, jobVars, siteVars, userVars, outVars, histVars
<1>8. CASE SendFails
  BY <1>8, <1>h DEF SendFails, NextChannel, Types, TypeOK, Stages, Working, Rows, Leaves, DispatchAssumption, jobVars, siteVars, userVars, outVars, histVars
<1>9. CASE RecipientDone
  BY <1>9, <1>h DEF RecipientDone, Types, TypeOK, Stages, Working, Rows, Leaves, DispatchAssumption, jobVars, siteVars, userVars, outVars, histVars
<1>10. CASE SiteInsert
  <2>1. errs' \subseteq Leaves
    BY <1>10, <1>h DEF SiteInsert, NextChannel, AnswerLost, Types, TypeOK, Leaves
  <2>2. rows' \subseteq Rows
    BY <1>10, <1>h DEF SiteInsert, NextChannel, AnswerLost, Types, TypeOK, Stages, Working, Rows, Leaves, DispatchAssumption, jobVars, siteVars, userVars, outVars, histVars
  <2> QED
    BY <1>10, <1>h, <2>1, <2>2 DEF SiteInsert, NextChannel, AnswerLost, Types, TypeOK, Stages, Working, Rows, Leaves, DispatchAssumption, jobVars, siteVars, userVars, outVars, histVars
<1>11. CASE SitePublish
  BY <1>11, <1>h DEF SitePublish, AnswerLost, Types, TypeOK, Stages, Working, Rows, Leaves, DispatchAssumption, jobVars, siteVars, userVars, outVars, histVars
<1>12. CASE SitePublishFails
  BY <1>12, <1>h DEF SitePublishFails, Types, TypeOK, Stages, Working, Rows, Leaves, DispatchAssumption, jobVars, siteVars, userVars, outVars, histVars
<1>13. CASE TelegramSend
  <2>1. errs' \subseteq Leaves
    BY <1>13, <1>h DEF TelegramSend, NextChannel, AnswerLost, Types, TypeOK, Leaves
  <2>2. sent' \subseteq Notes \X Users
    BY <1>13, <1>h DEF TelegramSend, NextChannel, AnswerLost, Types, TypeOK, Stages, Working, Rows, Leaves, DispatchAssumption, jobVars, siteVars, userVars, outVars, histVars
  <2> QED
    BY <1>13, <1>h, <2>1, <2>2 DEF TelegramSend, NextChannel, AnswerLost, Types, TypeOK, Stages, Working, Rows, Leaves, DispatchAssumption, jobVars, siteVars, userVars, outVars, histVars
<1>14. CASE PushList
  BY <1>14, <1>h DEF PushList, NextChannel, Types, TypeOK, Stages, Working, Rows, Leaves, DispatchAssumption, jobVars, siteVars, userVars, outVars, histVars
<1>15. ASSUME NEW e \in Endpoints, PushAccepted(e)
       PROVE  Types'
  <2>1. errs' \subseteq Leaves
    BY <1>15, <1>h DEF PushAccepted, Push, AnswerLost, Types, TypeOK, Leaves
  <2>2. answered' \subseteq Notes \X Endpoints
    BY <1>15, <1>h DEF PushAccepted, Push, AnswerLost, Types, TypeOK, Stages, Working, Rows, Leaves, DispatchAssumption, jobVars, siteVars, userVars, outVars, histVars
  <2> QED
    BY <1>15, <1>h, <2>1, <2>2 DEF PushAccepted, Push, AnswerLost, Types, TypeOK, Stages, Working, Rows, Leaves, DispatchAssumption, jobVars, siteVars, userVars, outVars, histVars
<1>16. ASSUME NEW e \in Endpoints, PushFails(e)
       PROVE  Types'
  BY <1>16, <1>h DEF PushFails, Push, Types, TypeOK, Stages, Working, Rows, Leaves, DispatchAssumption, jobVars, siteVars, userVars, outVars, histVars
<1>17. ASSUME NEW e \in Endpoints, PushRefused(e)
       PROVE  Types'
  BY <1>17, <1>h DEF PushRefused, Push, Types, TypeOK, Stages, Working, Rows, Leaves, DispatchAssumption, jobVars, siteVars, userVars, outVars, histVars
<1>18. ASSUME NEW e \in Endpoints, PushGone(e)
       PROVE  Types'
  BY <1>18, <1>h DEF PushGone, Push, Types, TypeOK, Stages, Working, Rows, Leaves, DispatchAssumption, jobVars, siteVars, userVars, outVars, histVars
<1>19. CASE PushDone
  BY <1>19, <1>h DEF PushDone, Types, TypeOK, Stages, Working, Rows, Leaves, DispatchAssumption, jobVars, siteVars, userVars, outVars, histVars
<1>20. CASE DropSubscription
  BY <1>20, <1>h DEF DropSubscription, AnswerLost, Types, TypeOK, Stages, Working, Rows, Leaves, DispatchAssumption, jobVars, siteVars, userVars, outVars, histVars
<1>21. CASE DropFails
  BY <1>21, <1>h DEF DropFails, Types, TypeOK, Stages, Working, Rows, Leaves, DispatchAssumption, jobVars, siteVars, userVars, outVars, histVars
<1>22. CASE Finish
  BY <1>22, <1>h DEF Finish, Forget, Types, TypeOK, Stages, Working, Rows, Leaves, DispatchAssumption, jobVars, siteVars, userVars, outVars, histVars
<1>23. CASE Crash
  BY <1>23, <1>h DEF Crash, Forget, Types, TypeOK, Stages, Working, Rows, Leaves, DispatchAssumption, jobVars, siteVars, userVars, outVars, histVars
<1>24. ASSUME NEW r \in Rows, MarkRead(r)
       PROVE  Types'
  BY <1>24, <1>h DEF MarkRead, Change, Types, TypeOK, Stages, Working, Rows, Leaves, DispatchAssumption, jobVars, siteVars, userVars, outVars, histVars
<1>25. ASSUME NEW r \in Rows, Dismiss(r)
       PROVE  Types'
  BY <1>25, <1>h DEF Dismiss, Change, Types, TypeOK, Stages, Working, Rows, Leaves, DispatchAssumption, jobVars, siteVars, userVars, outVars, histVars
<1>26. ASSUME NEW u \in Users, NEW c \in Channels, NEW p \in PrefRows, PutPreference(u, c, p)
       PROVE  Types'
  BY <1>26, <1>h DEF PutPreference, Change, Types, TypeOK, Stages, Working, Rows, Leaves, DispatchAssumption, jobVars, siteVars, userVars, outVars, histVars
<1>27. ASSUME NEW e \in Endpoints, Subscribe(e)
       PROVE  Types'
  BY <1>27, <1>h DEF Subscribe, Change, Types, TypeOK, Stages, Working, Rows, Leaves, DispatchAssumption, jobVars, siteVars, userVars, outVars, histVars
<1>28. ASSUME NEW e \in Endpoints, Unsubscribe(e)
       PROVE  Types'
  BY <1>28, <1>h DEF Unsubscribe, Change, Types, TypeOK, Stages, Working, Rows, Leaves, DispatchAssumption, jobVars, siteVars, userVars, outVars, histVars
<1>29. CASE UNCHANGED vars
  BY <1>29, <1>h DEF vars, Types, TypeOK, Stages, Working, Rows, Leaves, DispatchAssumption, jobVars, siteVars, userVars, outVars, histVars
<1> QED
  BY <1>1, <1>2, <1>3, <1>4, <1>5, <1>6, <1>7, <1>8, <1>9, <1>10, <1>11, <1>12, <1>13, <1>14, <1>15, <1>16, <1>17, <1>18, <1>19, <1>20, <1>21, <1>22, <1>23, <1>24, <1>25, <1>26, <1>27, <1>28, <1>29
     DEF Next, JobStep, UserStep

\* Each step leaves in hand what the next stage expects.
LEMMA StagesStep == Types /\ Stages /\ [Next]_vars => Stages'
<1> SUFFICES ASSUME Types, Stages, [Next]_vars PROVE Stages'
  OBVIOUS
<1>h. Types /\ Stages /\ DispatchAssumption
  BY DispatchAssumption
<1>1. ASSUME NEW n \in Notes, Begin(n)
      PROVE  Stages'
  BY <1>1, <1>h DEF Begin, Types, TypeOK, Stages, Working, DispatchAssumption, jobVars, siteVars, userVars, outVars, histVars
<1>2. CASE EarlyError
  BY <1>2, <1>h DEF EarlyError, Forget, Types, TypeOK, Stages, Working, DispatchAssumption, jobVars, siteVars, userVars, outVars, histVars
<1>3. CASE Persist
  <2>1. id' \in Ids /\ id'[1] = note /\ (note \in WithId => id'[2] = 0)
    BY <1>3, <1>h, PersistId
  <2> QED
    BY <1>3, <1>h, <2>1 DEF Persist, Types, TypeOK, Stages, Working, DispatchAssumption, jobVars, siteVars, userVars, outVars, histVars
<1>4. CASE ResolveRecipients
  BY <1>4, <1>h DEF ResolveRecipients, Types, TypeOK, Stages, Working, DispatchAssumption, jobVars, siteVars, userVars, outVars, histVars
<1>5. ASSUME NEW u \in Users, NextRecipient(u)
      PROVE  Stages'
  BY <1>5, <1>h DEF NextRecipient, Types, TypeOK, Stages, Working, DispatchAssumption, jobVars, siteVars, userVars, outVars, histVars
<1>6. ASSUME NEW u \in Users, SkipRecipient(u)
      PROVE  Stages'
  BY <1>6, <1>h DEF SkipRecipient, Types, TypeOK, Stages, Working, DispatchAssumption, jobVars, siteVars, userVars, outVars, histVars
<1>7. CASE SkipChannel
  BY <1>7, <1>h DEF SkipChannel, NextChannel, Types, TypeOK, Stages, Working, DispatchAssumption, jobVars, siteVars, userVars, outVars, histVars
<1>8. CASE SendFails
  BY <1>8, <1>h DEF SendFails, NextChannel, Types, TypeOK, Stages, Working, DispatchAssumption, jobVars, siteVars, userVars, outVars, histVars
<1>9. CASE RecipientDone
  BY <1>9, <1>h DEF RecipientDone, Types, TypeOK, Stages, Working, DispatchAssumption, jobVars, siteVars, userVars, outVars, histVars
<1>10. CASE SiteInsert
  BY <1>10, <1>h DEF SiteInsert, NextChannel, AnswerLost, Types, TypeOK, Stages, Working, DispatchAssumption, jobVars, siteVars, userVars, outVars, histVars
<1>11. CASE SitePublish
  BY <1>11, <1>h DEF SitePublish, AnswerLost, Types, TypeOK, Stages, Working, DispatchAssumption, jobVars, siteVars, userVars, outVars, histVars
<1>12. CASE SitePublishFails
  BY <1>12, <1>h DEF SitePublishFails, Types, TypeOK, Stages, Working, DispatchAssumption, jobVars, siteVars, userVars, outVars, histVars
<1>13. CASE TelegramSend
  BY <1>13, <1>h DEF TelegramSend, NextChannel, AnswerLost, Types, TypeOK, Stages, Working, DispatchAssumption, jobVars, siteVars, userVars, outVars, histVars
<1>14. CASE PushList
  BY <1>14, <1>h DEF PushList, NextChannel, Types, TypeOK, Stages, Working, DispatchAssumption, jobVars, siteVars, userVars, outVars, histVars
<1>15. ASSUME NEW e \in Endpoints, PushAccepted(e)
       PROVE  Stages'
  BY <1>15, <1>h DEF PushAccepted, Push, AnswerLost, Types, TypeOK, Stages, Working, DispatchAssumption, jobVars, siteVars, userVars, outVars, histVars
<1>16. ASSUME NEW e \in Endpoints, PushFails(e)
       PROVE  Stages'
  BY <1>16, <1>h DEF PushFails, Push, Types, TypeOK, Stages, Working, DispatchAssumption, jobVars, siteVars, userVars, outVars, histVars
<1>17. ASSUME NEW e \in Endpoints, PushRefused(e)
       PROVE  Stages'
  BY <1>17, <1>h DEF PushRefused, Push, Types, TypeOK, Stages, Working, DispatchAssumption, jobVars, siteVars, userVars, outVars, histVars
<1>18. ASSUME NEW e \in Endpoints, PushGone(e)
       PROVE  Stages'
  BY <1>18, <1>h DEF PushGone, Push, Types, TypeOK, Stages, Working, DispatchAssumption, jobVars, siteVars, userVars, outVars, histVars
<1>19. CASE PushDone
  BY <1>19, <1>h DEF PushDone, Types, TypeOK, Stages, Working, DispatchAssumption, jobVars, siteVars, userVars, outVars, histVars
<1>20. CASE DropSubscription
  BY <1>20, <1>h DEF DropSubscription, AnswerLost, Types, TypeOK, Stages, Working, DispatchAssumption, jobVars, siteVars, userVars, outVars, histVars
<1>21. CASE DropFails
  BY <1>21, <1>h DEF DropFails, Types, TypeOK, Stages, Working, DispatchAssumption, jobVars, siteVars, userVars, outVars, histVars
<1>22. CASE Finish
  BY <1>22, <1>h DEF Finish, Forget, Types, TypeOK, Stages, Working, DispatchAssumption, jobVars, siteVars, userVars, outVars, histVars
<1>23. CASE Crash
  BY <1>23, <1>h DEF Crash, Forget, Types, TypeOK, Stages, Working, DispatchAssumption, jobVars, siteVars, userVars, outVars, histVars
<1>24. ASSUME NEW r \in Rows, MarkRead(r)
       PROVE  Stages'
  BY <1>24, <1>h DEF MarkRead, Change, Types, TypeOK, Stages, Working, DispatchAssumption, jobVars, siteVars, userVars, outVars, histVars
<1>25. ASSUME NEW r \in Rows, Dismiss(r)
       PROVE  Stages'
  BY <1>25, <1>h DEF Dismiss, Change, Types, TypeOK, Stages, Working, DispatchAssumption, jobVars, siteVars, userVars, outVars, histVars
<1>26. ASSUME NEW u \in Users, NEW c \in Channels, NEW p \in PrefRows, PutPreference(u, c, p)
       PROVE  Stages'
  BY <1>26, <1>h DEF PutPreference, Change, Types, TypeOK, Stages, Working, DispatchAssumption, jobVars, siteVars, userVars, outVars, histVars
<1>27. ASSUME NEW e \in Endpoints, Subscribe(e)
       PROVE  Stages'
  BY <1>27, <1>h DEF Subscribe, Change, Types, TypeOK, Stages, Working, DispatchAssumption, jobVars, siteVars, userVars, outVars, histVars
<1>28. ASSUME NEW e \in Endpoints, Unsubscribe(e)
       PROVE  Stages'
  BY <1>28, <1>h DEF Unsubscribe, Change, Types, TypeOK, Stages, Working, DispatchAssumption, jobVars, siteVars, userVars, outVars, histVars
<1>29. CASE UNCHANGED vars
  BY <1>29, <1>h DEF vars, Types, TypeOK, Stages, Working, DispatchAssumption, jobVars, siteVars, userVars, outVars, histVars
<1> QED
  BY <1>1, <1>2, <1>3, <1>4, <1>5, <1>6, <1>7, <1>8, <1>9, <1>10, <1>11, <1>12, <1>13, <1>14, <1>15, <1>16, <1>17, <1>18, <1>19, <1>20, <1>21, <1>22, <1>23, <1>24, <1>25, <1>26, <1>27, <1>28, <1>29
     DEF Next, JobStep, UserStep

\* Init has the types, and no dispatch is under way.
LEMMA JobInitially == Init => JobInv
<1> SUFFICES ASSUME Init PROVE JobInv
  OBVIOUS
<1>1. Types
  <2>1. chat \in BOOLEAN
    BY DEF Init
  <2>2. /\ changes \in 0..MaxChanges /\ tries \in [Notes -> Nat]
        /\ \A n \in Notes : tries[n] <= MaxTries[n]
    BY DispatchAssumption DEF Init, DispatchAssumption
  <2>3. /\ prefs \in [Users -> [Channels -> PrefRows]] /\ subs \subseteq Endpoints
        /\ absent \subseteq Endpoints
    BY DispatchAssumption DEF Init, DispatchAssumption
  <2> QED
    BY <2>1, <2>2, <2>3 DEF Init, Types, TypeOK
<1>2. Stages
  BY DispatchAssumption DEF Init, DispatchAssumption, Stages, Working
<1> QED
  BY <1>1, <1>2 DEF JobInv

\* Each step keeps types and stages.
LEMMA JobKeeps == JobInv /\ [Next]_vars => JobInv'
BY TypesStep, StagesStep DEF JobInv

\* At each stage of Dispatch what it has in hand is as the stages before left it.
THEOREM JobInvariance == Spec => []JobInv
<1>1. Init => JobInv
  BY JobInitially
<1>2. JobInv /\ [Next]_vars => JobInv'
  BY JobKeeps
<1> QED
  BY <1>1, <1>2, PTL DEF Spec

\* Type correctness of the dispatcher and of what it works on.
THEOREM DispatchTypeCorrect == Spec => []TypeOK
<1>1. JobInv => TypeOK
  BY DEF JobInv, Types
<1> QED
  BY <1>1, JobInvariance, PTL

\* What was sent, published or refused stays so, and so do the histories.
Grows ==
    /\ rows \subseteq rows' /\ events \subseteq events'
    /\ sent \subseteq sent' /\ answered \subseteq answered'
    /\ read \subseteq read' /\ dismissed \subseteq dismissed'
    /\ declined \subseteq declined' /\ absent \subseteq absent'

\* No step takes anything back that was sent, answered or remembered.
LEMMA StepGrows == [Next]_vars => Grows
<1> SUFFICES ASSUME [Next]_vars PROVE Grows
  OBVIOUS
<1> QED
  BY DEF Grows, Next, JobStep, UserStep, Begin, EarlyError, Persist,
       ResolveRecipients, NextRecipient, SkipRecipient, SkipChannel,
       SendFails, RecipientDone, SiteInsert, SitePublish,
       SitePublishFails, TelegramSend, PushList, PushAccepted, PushFails,
       PushRefused, PushGone, PushDone, DropSubscription, DropFails,
       Finish, Crash, MarkRead, Dismiss, PutPreference, Subscribe,
       Unsubscribe, NextChannel, Push, Change, vars, jobVars, siteVars,
       userVars, outVars, histVars

\* Who was reached on a channel stays so.
LEMMA ReachedStays ==
  ASSUME Grows, NEW n, NEW u, NEW c, Reached(n, u, c)
  PROVE  Reached(n, u, c)'
BY DEF Grows, Reached, RowsOf, Served

\* Flags are kept: a delivery that arrives again leaves the row as it was.
THEOREM KeptFlags == Spec => FlagsAreKept
<1>1. [Next]_vars => [read \subseteq read' /\ dismissed \subseteq dismissed']_vars
  BY StepGrows DEF Grows
<1> QED
  BY <1>1, PTL DEF Spec, FlagsAreKept

-----------------------------------------------------------------------------
(* Reaching everyone: proofs.                                              *)

\* A channel that resolveChannels leaves out is one the user does not want.
LEMMA LeftOut ==
  ASSUME Types, Remembered, NEW n \in Notes, NEW u \in Users, NEW c \in Channels,
         c \notin Resolve(prefs[u], n)
  PROVE  <<n, u, c>> \in declined
<1>1. Unwanted(prefs[u], n, c)
  <2>1. CASE Asked[n] # {}
    BY <2>1 DEF Resolve, Unwanted
  <2>2. CASE Asked[n] = {} /\ \A d \in Channels : prefs[u][d] = "none"
    BY <2>2 DEF Resolve, Unwanted
  <2>3. CASE Asked[n] = {} /\ ~\A d \in Channels : prefs[u][d] = "none"
    <3>1. prefs[u][c] # "on"
      BY <2>3 DEF Resolve
    <3>2. CASE prefs[u][c] = "none"
      BY <2>3, <3>2 DEF Unwanted
    <3>3. CASE prefs[u][c] # "none"
      <4>1. prefs[u][c] \in PrefRows
        BY DEF Types, TypeOK
      <4> QED
        BY <2>3, <3>1, <3>3, <4>1 DEF Unwanted, PrefRows
    <3> QED
      BY <3>2, <3>3
  <2> QED
    BY <2>1, <2>2, <2>3
<1> QED
  BY <1>1 DEF Remembered, DeclinedUnder

\* A change of preferences or subscriptions enters the histories with it.
LEMMA RememberedStep == Remembered /\ [Next]_vars => Remembered'
<1> SUFFICES ASSUME Remembered, [Next]_vars PROVE Remembered'
  OBVIOUS
<1>1. DeclinedUnder(prefs') \subseteq declined'
  <2>1. ASSUME NEW u \in Users, NEW c \in Channels, NEW p \in PrefRows, PutPreference(u, c, p)
        PROVE  DeclinedUnder(prefs') \subseteq declined'
    BY <2>1 DEF PutPreference
  <2>2. CASE UNCHANGED <<prefs, declined>>
    BY <2>2 DEF Remembered
  <2> QED
    BY <2>1, <2>2 DEF Next, JobStep, UserStep, Begin, EarlyError, Persist, ResolveRecipients, NextRecipient,
     SkipRecipient, SkipChannel, SendFails, RecipientDone, SiteInsert,
     SitePublish, SitePublishFails, TelegramSend, PushList, PushAccepted,
     PushFails, PushRefused, PushGone, PushDone, DropSubscription, DropFails,
     Finish, Crash, MarkRead, Dismiss, Subscribe, Unsubscribe, NextChannel,
     Push, Change, vars, jobVars, siteVars, userVars, outVars, histVars
<1>2. Endpoints \ subs' \subseteq absent'
  BY DEF Remembered, Next, JobStep, UserStep, Begin, EarlyError, Persist, ResolveRecipients, NextRecipient,
     SkipRecipient, SkipChannel, SendFails, RecipientDone, SiteInsert,
     SitePublish, SitePublishFails, TelegramSend, PushList, PushAccepted,
     PushFails, PushRefused, PushGone, PushDone, DropSubscription, DropFails,
     Finish, Crash, MarkRead, Dismiss, PutPreference, Subscribe, Unsubscribe,
     NextChannel, Push, Change, vars, jobVars, siteVars, userVars, outVars,
     histVars
<1> QED
  BY <1>1, <1>2 DEF Remembered, DeclinedUnder, Unwanted

\* Steps of the users, of others on the job's channels, and none at all.
LEMMA SoFarStays ==
  ASSUME SoFar, Grows, UNCHANGED <<pc, note, user, todo, targets, pushes, errs>>
  PROVE  SoFar'
<1> SUFFICES ASSUME NEW n \in Notes, n = note, pc \in Working \cup {"next"}, AckVerdict(errs),
                    NEW u \in Audience[n] \ todo, NEW c \in Providers
             PROVE  \/ Reached(n, u, c)'
                    \/ u = user /\ (c \in targets \/ Underway(n, c)')
  BY DEF SoFar, AckVerdict, Working
<1>1. Reached(n, u, c) \/ (u = user /\ (c \in targets \/ Underway(n, c)))
  BY DEF SoFar
<1>2. CASE Reached(n, u, c)
  BY <1>2, ReachedStays
<1>3. ASSUME Underway(n, c)
      PROVE  Underway(n, c)'
  BY <1>3 DEF Underway, Served, Grows
<1> QED
  BY <1>1, <1>2, <1>3

\* A send takes a channel from what is to do only when its provider has reached
\* the recipient or joins an error; a failure that forbids the ack stays.
LEMMA SoFarStep ==
  ASSUME JobInv, Remembered, SoFar, [Next]_vars
  PROVE  SoFar'
<1>h. Types /\ TypeOK /\ Stages /\ Grows /\ DispatchAssumption
  BY StepGrows, DispatchAssumption DEF JobInv, Types
<1>s. UNCHANGED <<pc, note, user, todo, targets, pushes, errs>> => SoFar'
  BY <1>h, SoFarStays
<1> SUFFICES ASSUME ~UNCHANGED <<pc, note, user, todo, targets, pushes, errs>>,
                    NEW n \in Notes, n = note', pc' \in Working \cup {"next"}, AckVerdict(errs'),
                    NEW u \in Audience[n] \ todo', NEW c \in Providers
             PROVE  \/ Reached(n, u, c)'
                    \/ u = user' /\ (c \in targets' \/ Underway(n, c)')
  BY <1>s DEF SoFar, AckVerdict, Working
<1>t. u \in Users /\ c \in Channels /\ c # "email" /\ None \notin Users
  BY <1>h DEF DispatchAssumption
<1>o. ASSUME note' = note, pc \in Working \cup {"next"}, AckVerdict(errs), u \notin todo
      PROVE  Reached(n, u, c)' \/ (u = user /\ ~Reached(n, u, c) /\ (c \in targets \/ Underway(n, c)))
  BY <1>o, <1>h, ReachedStays DEF SoFar
<1>p. ASSUME Underway(n, c), pc' \in {"push", "delete"}, c = "web_push", user' = user,
             \A e \in Endpoints \ pushes' : e \in pushes => Served(n, e)'
      PROVE  Underway(n, c)'
  BY <1>p, <1>h DEF Underway, Served, Grows
<1>1. CASE ResolveRecipients
  BY <1>1 DEF ResolveRecipients
<1>2. ASSUME NEW v \in Users, NextRecipient(v)
      PROVE  Reached(n, u, c)' \/ (u = user' /\ c \in targets')
  <2>1. CASE u = v /\ c \notin targets'
    <3>1. <<n, u, c>> \in declined
      BY <1>2, <1>h, <1>t, <2>1, LeftOut DEF NextRecipient
    <3> QED
      BY <1>2, <3>1, <1>h DEF NextRecipient, Reached, Grows
  <2>2. CASE u # v
    <3>1. u \notin todo /\ user = None /\ note' = note /\ pc = "next" /\ AckVerdict(errs)
      BY <1>2, <2>2, <1>h DEF NextRecipient, Stages, Working
    <3> QED
      BY <3>1, <1>o, <1>t
  <2> QED
    BY <1>2, <2>1, <2>2 DEF NextRecipient
<1>3. ASSUME NEW v \in Users, SkipRecipient(v)
      PROVE  FALSE
  BY <1>3 DEF SkipRecipient, AckVerdict
<1>4. CASE SkipChannel
  BY <1>4, <1>o, <1>h DEF SkipChannel, NextChannel, Underway, Working
<1>5. ~SendFails /\ ~SitePublishFails /\ ~DropFails
  BY DEF SendFails, SitePublishFails, DropFails, AckVerdict
<1>6. CASE RecipientDone
  BY <1>6, <1>o DEF RecipientDone, Underway, Working
<1>7. CASE SiteInsert
  <2>1. pc' = "publish" /\ errs' = errs /\ pc = "send" /\ targets' = targets \ {"site"}
        /\ note' = note /\ user' = user /\ todo' = todo
    BY <1>7 DEF SiteInsert, NextChannel, AnswerLost, AckVerdict
  <2> QED
    BY <2>1, <1>o DEF Underway, Working
<1>8. CASE SitePublish
  <2>1. errs' = errs /\ pc = "publish" /\ UNCHANGED <<note, user, todo, targets, id, rows>>
        /\ events' = events \cup {<<id, user>>}
    BY <1>8 DEF SitePublish, AnswerLost, AckVerdict
  <2>2. CASE u = user /\ c = "site"
    <3>1. <<id, user>> \in rows /\ id[1] = n
      BY <2>1, <1>h DEF Stages
    <3>2. <<id, user>> \in RowsOf(n, u)' /\ <<id, user>> \in events'
      BY <2>1, <2>2, <3>1 DEF RowsOf
    <3> QED
      BY <2>2, <3>2 DEF Reached
  <2> QED
    BY <2>1, <2>2, <1>o DEF Underway, Working
<1>9. CASE TelegramSend
  <2>1. errs' = errs /\ pc = "send" /\ UNCHANGED <<note, user, todo>>
        /\ targets' = targets \ {"telegram"} /\ sent' = sent \cup {<<note, user>>}
    BY <1>9 DEF TelegramSend, NextChannel, AnswerLost, AckVerdict
  <2>2. CASE u = user /\ c = "telegram"
    BY <2>1, <2>2 DEF Reached
  <2> QED
    BY <2>1, <2>2, <1>o DEF Underway, Working
<1>10. CASE PushList
  <2>1. errs' = errs /\ pc = "send" /\ UNCHANGED <<note, user, todo, subs>> /\ pc' = "push"
        /\ targets' = targets \ {"web_push"} /\ pushes' = {e \in subs : Owner[e] = user}
    BY <1>10 DEF PushList, NextChannel, userVars
  <2>2. Underway(n, "web_push")'
    <3>1. ASSUME NEW e \in Endpoints \ pushes', Owner[e] = user
          PROVE  Served(n, e)'
      <4>1. e \in absent
        BY <2>1, <3>1 DEF Remembered
      <4> QED
        BY <4>1, <1>h DEF Served, Grows
    <3> QED
      BY <2>1, <3>1 DEF Underway
  <2> QED
    BY <2>1, <2>2, <1>o DEF Underway, Working
<1>11. ASSUME NEW e \in Endpoints, PushAccepted(e) \/ PushRefused(e) \/ PushGone(e)
       PROVE  Reached(n, u, c)' \/ (u = user' /\ (c \in targets' \/ Underway(n, c)'))
  <2>1. /\ UNCHANGED <<note, user, todo, targets>> /\ pc = "push" /\ pc' \in {"push", "delete"}
        /\ AckVerdict(errs) /\ pushes' = pushes \ {e} /\ <<note, e>> \in answered'
    BY <1>11 DEF PushAccepted, PushRefused, PushGone, Push, AnswerLost, AckVerdict
  <2>2. CASE Underway(n, c)
    <3>1. c = "web_push" /\ \A f \in Endpoints \ pushes' : f \in pushes => Served(n, f)'
      BY <2>1, <2>2 DEF Underway, Served
    <3> QED
      BY <2>1, <2>2, <3>1, <1>p, <1>o DEF Working
  <2> QED
    BY <2>1, <2>2, <1>o DEF Working
<1>12. ASSUME NEW e \in Endpoints, PushFails(e)
       PROVE  FALSE
  BY <1>12 DEF PushFails, AckVerdict
<1>13. CASE DropSubscription
  <2>1. /\ UNCHANGED <<note, user, todo, targets, pushes, errs>> /\ pc = "delete" /\ pc' = "push"
    BY <1>13 DEF DropSubscription, AnswerLost, AckVerdict
  <2>2. CASE Underway(n, c)
    <3>1. c = "web_push"
      BY <2>1, <2>2 DEF Underway
    <3> QED
      BY <2>1, <2>2, <3>1, <1>p, <1>o DEF Working
  <2> QED
    BY <2>1, <2>2, <1>o DEF Working
<1>14. CASE PushDone
  <2>1. /\ UNCHANGED <<note, user, todo, targets, errs>> /\ pc = "push" /\ pushes = {}
    BY <1>14 DEF PushDone
  <2>2. CASE u = user /\ Underway(n, c)
    <3>1. c = "web_push" /\ \A e \in Endpoints : Owner[e] = u => Served(n, e)
      BY <2>1, <2>2 DEF Underway
    <3>2. Reached(n, u, c)
      BY <3>1 DEF Reached
    <3> QED
      BY <3>2, <1>h, ReachedStays
  <2> QED
    BY <2>1, <2>2, <1>o DEF Working
<1>15. ~(\E m \in Notes : Begin(m)) /\ ~EarlyError /\ ~Persist /\ ~Finish /\ ~Crash
  BY DEF Begin, EarlyError, Persist, Finish, Crash, Forget, Working
<1>16. ~UserStep /\ ~UNCHANGED vars
  BY DEF UserStep, MarkRead, Dismiss, PutPreference, Subscribe, Unsubscribe, vars, jobVars
<1> QED
  BY <1>1, <1>2, <1>3, <1>4, <1>5, <1>6, <1>7, <1>8, <1>9, <1>10, <1>11, <1>12, <1>13,
     <1>14, <1>15, <1>16 DEF Next, JobStep

\* Finish acks only what has no recipient and no channel left.
LEMMA ReachedStep ==
  ASSUME JobInv, ReachedInv, [Next]_vars
  PROVE  ReachedInv'
<1>h. Types /\ TypeOK /\ Stages /\ Grows /\ DispatchAssumption /\ Remembered /\ SoFar
  BY StepGrows, DispatchAssumption DEF JobInv, Types, ReachedInv
<1>1. ASSUME NEW n \in acked', NEW u \in Audience[n], NEW c \in Providers
      PROVE  Reached(n, u, c)
  <2>1. CASE n \in acked
    BY <2>1 DEF ReachedInv
  <2>2. CASE n \notin acked
    <3>1. Finish /\ n = note /\ AckVerdict(errs)
      BY <2>2 DEF Next, JobStep, UserStep, Begin, EarlyError, Persist, ResolveRecipients, NextRecipient,
     SkipRecipient, SkipChannel, SendFails, RecipientDone, SiteInsert,
     SitePublish, SitePublishFails, TelegramSend, PushList, PushAccepted,
     PushFails, PushRefused, PushGone, PushDone, DropSubscription, DropFails,
     Finish, Crash, MarkRead, Dismiss, PutPreference, Subscribe, Unsubscribe,
     NextChannel, Push, Change, vars, jobVars, siteVars, userVars, outVars,
     histVars
    <3>2. n \in Notes /\ pc = "next" /\ todo = {} /\ user = None /\ u \in Users /\ None \notin Users
      BY <3>1, <1>h DEF Finish, TypeOK, Stages, Working, DispatchAssumption
    <3> QED
      BY <3>1, <3>2, <1>h DEF SoFar
  <2> QED
    BY <2>1, <2>2
<1>2. \A n \in acked' : \A u \in Audience[n] : \A c \in Providers : Reached(n, u, c)'
  BY <1>1, <1>h, ReachedStays
<1>3. Remembered' /\ SoFar'
  BY <1>h, RememberedStep, SoFarStep
<1> QED
  BY <1>2, <1>3 DEF ReachedInv

\* An ack leaves no recipient out: neither the failure of another recipient or
\* channel, nor a crash, a lost ack or a change of preferences in between,
\* makes a notification count as dispatched to one it has not reached.
THEOREM ReachedBeforeAck == Spec => []AckedReachedEveryone
<1>1. Init => ReachedInv
  <2> SUFFICES ASSUME Init PROVE ReachedInv
    OBVIOUS
  <2>1. None \notin Notes
    BY DispatchAssumption DEF DispatchAssumption
  <2> QED
    BY <2>1 DEF Init, ReachedInv, Remembered, SoFar, Working
<1>2. JobInv /\ ReachedInv /\ [Next]_vars => ReachedInv'
  BY ReachedStep
<1>3. ReachedInv => AckedReachedEveryone
  BY DEF ReachedInv, Reached, Served, AckedReachedEveryone
<1> QED
  BY <1>1, <1>2, <1>3, JobInvariance, PTL DEF Spec

-----------------------------------------------------------------------------
(* One row for each recipient.                                             *)

\* Only Persist chooses an ID, and only SiteInsert writes a row with it.
LEMMA OwnIdsStep == JobInv /\ OwnIds /\ [Next]_vars => OwnIds'
<1> SUFFICES ASSUME JobInv, OwnIds, [Next]_vars PROVE OwnIds'
  OBVIOUS
<1>1. CASE SiteInsert
  <2>1. rows' = rows \cup {<<id, user>>}
    BY <1>1 DEF SiteInsert
  <2>2. id[1] \in WithId => id[2] = 0
    BY <1>1 DEF SiteInsert, NextChannel, JobInv, Stages
  <2> QED
    BY <2>1, <2>2 DEF OwnIds
<1>2. CASE rows' = rows
  BY <1>2 DEF OwnIds
<1> QED
  BY <1>1, <1>2 DEF Next, JobStep, UserStep,
     Begin, EarlyError, Persist, ResolveRecipients, NextRecipient,
     SkipRecipient, SkipChannel, SendFails, RecipientDone, SitePublish,
     SitePublishFails, TelegramSend, PushList, PushAccepted, PushFails,
     PushRefused, PushGone, PushDone, DropSubscription, DropFails, Finish,
     Crash, MarkRead, Dismiss, PutPreference, Subscribe, Unsubscribe,
     NextChannel, Push, Change, vars, jobVars, siteVars, userVars, outVars,
     histVars

\* The upsert of the notification gives the ID back and the insert of a
\* delivery leaves a row that is there: retries add none.
THEOREM OneRow == Spec => []OneRowPerRecipient
<1>1. Init => OwnIds
  BY DEF Init, OwnIds
<1>2. JobInv /\ OwnIds /\ [Next]_vars => OwnIds'
  BY OwnIdsStep
<1>3. JobInv /\ OwnIds => OneRowPerRecipient
  <2> SUFFICES ASSUME JobInv, OwnIds, NEW n \in WithId, NEW u \in Users
               PROVE  Cardinality(RowsOf(n, u)) <= 1
    BY DEF OneRowPerRecipient
  <2> DEFINE row == <<<<n, 0>>, u>>
  <2>1. ASSUME NEW r \in RowsOf(n, u)
        PROVE  r = row
    <3>1. r \in Ids \X Users /\ r[1][1] = n /\ r[2] = u /\ r[1][2] = 0
      BY DEF RowsOf, OwnIds, JobInv, Types, TypeOK, Rows
    <3>2. r = <<r[1], r[2]>> /\ r[1] = <<r[1][1], r[1][2]>>
      BY <3>1 DEF Ids
    <3> QED
      BY <3>1, <3>2
  <2> HIDE DEF row
  <2>2. RowsOf(n, u) \subseteq {row}
    BY <2>1
  <2>3. IsFiniteSet({row}) /\ Cardinality({row}) = 1
    BY FS_Singleton
  <2>4. Cardinality(RowsOf(n, u)) <= Cardinality({row})
    BY <2>2, <2>3, FS_Subset
  <2> QED
    BY <2>3, <2>4
<1> QED
  BY <1>1, <1>2, <1>3, JobInvariance, PTL DEF Spec

-----------------------------------------------------------------------------
(* Subscriptions that are gone.                                            *)

\* An endpoint that is gone is deleted, or its deletion fails with an error that
\* forbids the ack.
LEMMA GoneStep == JobInv /\ GoneInv /\ [Next]_vars => GoneInv'
<1> SUFFICES ASSUME JobInv, GoneInv, [Next]_vars,
                    NEW n \in Notes, NEW e \in subs', <<n, e>> \in lapsed'
             PROVE  /\ n \notin acked'
                    /\ note' = n => ~AckVerdict(errs') \/ (pc' = "delete" /\ gone' = e)
  BY DEF GoneInv, AckVerdict
<1>h. Types /\ TypeOK /\ Stages /\ None \notin Notes
  BY DispatchAssumption DEF JobInv, Types, DispatchAssumption
<1>o. ASSUME e \in subs, <<n, e>> \in lapsed
      PROVE  n \notin acked /\ (note = n => ~AckVerdict(errs) \/ (pc = "delete" /\ gone = e))
  BY <1>o DEF GoneInv
<1>1. ASSUME NEW m \in Notes, Begin(m)
      PROVE  n \notin acked' /\ note' # n
  BY <1>1, <1>o DEF Begin, userVars
<1>2. CASE EarlyError \/ Crash
  BY <1>2, <1>h, <1>o DEF EarlyError, Crash, Forget, userVars, outVars, histVars
<1>3. CASE Finish
  <2>1. e \in subs /\ <<n, e>> \in lapsed /\ pc = "next" /\ note' = None
    BY <1>3 DEF Finish, Forget, userVars, histVars
  <2>2. acked' = acked \/ (AckVerdict(errs) /\ acked' = acked \cup {note})
    BY <1>3 DEF Finish
  <2> QED
    BY <2>1, <2>2, <1>h, <1>o
<1>4. ASSUME NEW f \in Endpoints, PushGone(f)
      PROVE  /\ n \notin acked'
             /\ note' = n => ~AckVerdict(errs') \/ (pc' = "delete" /\ gone' = e)
  <2>1. e \in subs /\ acked' = acked /\ note' = note /\ errs' = errs /\ pc = "push"
        /\ lapsed' = lapsed \cup {<<note, f>>} /\ pc' = "delete" /\ gone' = f
    BY <1>4 DEF PushGone, Push, userVars
  <2>2. CASE <<n, e>> \in lapsed
    BY <2>1, <2>2, <1>o
  <2>3. CASE n = note /\ e = f
    BY <2>1, <2>3, <1>h DEF Stages
  <2> QED
    BY <2>1, <2>2, <2>3
<1>5. CASE DropSubscription
  <2>1. e \in subs /\ e # gone /\ <<n, e>> \in lapsed /\ acked' = acked /\ note' = note
        /\ errs \subseteq errs'
    BY <1>5 DEF DropSubscription, AnswerLost, outVars
  <2> QED
    BY <2>1, <1>o DEF AckVerdict
<1>6. CASE DropFails
  BY <1>6, <1>o DEF DropFails, AckVerdict, userVars, outVars, histVars
<1>7. ASSUME NEW f \in Endpoints, Subscribe(f)
      PROVE  /\ n \notin acked'
             /\ note' = n => ~AckVerdict(errs') \/ (pc' = "delete" /\ gone' = e)
  BY <1>7, <1>o DEF Subscribe, jobVars, outVars
<1>8. ASSUME acked' = acked, note' = note, subs' \subseteq subs, lapsed' = lapsed,
             errs \subseteq errs', pc = "delete" => pc' = pc, gone' = gone
      PROVE  /\ n \notin acked'
             /\ note' = n => ~AckVerdict(errs') \/ (pc' = "delete" /\ gone' = e)
  BY <1>8, <1>o DEF AckVerdict
<1>9. \/ \E m \in Notes : Begin(m)
      \/ EarlyError \/ Crash \/ Finish
      \/ \E f \in Endpoints : PushGone(f) \/ Subscribe(f)
      \/ DropSubscription \/ DropFails
      \/ /\ acked' = acked /\ note' = note /\ subs' \subseteq subs /\ lapsed' = lapsed
         /\ errs \subseteq errs' /\ (pc = "delete" => pc' = pc) /\ gone' = gone
  BY DEF Next, JobStep, UserStep,
     Persist, ResolveRecipients, NextRecipient, SkipRecipient, SkipChannel,
     SendFails, RecipientDone, SiteInsert, SitePublish, SitePublishFails,
     TelegramSend, PushList, PushAccepted, PushFails, PushRefused, PushDone,
     MarkRead, Dismiss, PutPreference, Unsubscribe, NextChannel, AnswerLost, Push,
     Change, vars, jobVars, siteVars, userVars, outVars, histVars
<1> QED
  BY <1>1, <1>2, <1>3, <1>4, <1>5, <1>6, <1>7, <1>8, <1>9

\* What a push service said is gone does not outlive the ack of the
\* notification that found it, unless the user subscribed it again.
THEOREM GoneAreDropped == Spec => []GoneIsDropped
<1>1. Init => GoneInv
  BY DEF Init, GoneInv
<1>2. JobInv /\ GoneInv /\ [Next]_vars => GoneInv'
  BY GoneStep
<1>3. JobInv /\ GoneInv => GoneIsDropped
  BY DEF JobInv, Types, TypeOK, GoneInv, GoneIsDropped
<1> QED
  BY <1>1, <1>2, <1>3, JobInvariance, PTL DEF Spec

-----------------------------------------------------------------------------
(* Opting out.                                                             *)

\* NextRecipient resolves channels with the preferences of now, and enabling a
\* channel ends its being muted.
LEMMA MutedStep == JobInv /\ MutedInv /\ [Next]_vars => MutedInv'
<1> SUFFICES ASSUME JobInv, MutedInv, [Next]_vars PROVE MutedInv'
  OBVIOUS
<1>h. Types /\ TypeOK /\ Stages
  BY DEF JobInv, Types
<1>1. ASSUME NEW n \in Notes, Begin(n)
      PROVE  MutedInv'
  BY <1>1, <1>h DEF Begin, MutedInv, OptOutIsRespected, Stages, Working, userVars
<1>2. ASSUME NEW u \in Users, NextRecipient(u)
      PROVE  MutedInv'
  <2>1. targets' = Resolve(prefs[u], note) /\ user' = u /\ pc' = "send"
        /\ UNCHANGED <<prefs, muted, used>> /\ note \in Notes
    BY <1>2, <1>h DEF NextRecipient, Stages, TypeOK, userVars, histVars
  <2>2. ASSUME NEW c \in targets'
        PROVE  c \in Channels /\ prefs[u][c] # "off"
    <3>1. Asked[note] \subseteq Channels
      BY <2>1, DispatchAssumption DEF DispatchAssumption
    <3> QED
      BY <2>1, <2>2, <3>1 DEF Resolve, Channels
  <2> QED
    BY <2>1, <2>2 DEF MutedInv, OptOutIsRespected
<1>3. CASE PushList
  BY <1>3 DEF PushList, NextChannel, MutedInv, OptOutIsRespected, userVars, histVars
<1>4. ASSUME NEW u \in Users, NEW c \in Channels, NEW p \in PrefRows, PutPreference(u, c, p)
      PROVE  MutedInv'
  <2>1. \A v \in Users, d \in Channels :
            prefs'[v][d] = IF v = u /\ d = c THEN p ELSE prefs[v][d]
    BY <1>4, <1>h DEF PutPreference, TypeOK
  <2>2. muted' \subseteq muted /\ (p # "off" => <<u, c>> \notin muted')
    BY <1>4 DEF PutPreference
  <2>3. UNCHANGED <<pc, user, targets, used>>
    BY <1>4 DEF PutPreference, jobVars
  <2>4. \A v \in Users, d \in Channels : <<v, d>> \in muted' => prefs'[v][d] = "off"
    BY <2>1, <2>2 DEF MutedInv
  <2> QED
    BY <2>2, <2>3, <2>4 DEF MutedInv, OptOutIsRespected
<1>5. CASE SiteInsert
  <2>1. <<user, "site">> \notin muted /\ used' = used \cup {<<user, "site">>}
    BY <1>5 DEF SiteInsert, NextChannel, Use, MutedInv
  <2>2. UNCHANGED <<prefs, muted, user>> /\ targets' \subseteq targets /\ pc' \in {"publish", "send"}
    BY <1>5 DEF SiteInsert, NextChannel, userVars
  <2> QED
    BY <2>1, <2>2 DEF MutedInv, OptOutIsRespected
<1>6. CASE SitePublish
  <2>1. <<user, "site">> \notin muted /\ used' = used \cup {<<user, "site">>}
    BY <1>6 DEF SitePublish, Use, MutedInv
  <2>2. UNCHANGED <<prefs, muted, user, targets>> /\ pc' = "send"
    BY <1>6 DEF SitePublish, userVars
  <2> QED
    BY <2>1, <2>2 DEF MutedInv, OptOutIsRespected
<1>7. CASE TelegramSend
  <2>1. <<user, "telegram">> \notin muted /\ used' = used \cup {<<user, "telegram">>}
    BY <1>7 DEF TelegramSend, NextChannel, Use, MutedInv
  <2>2. UNCHANGED <<prefs, muted, user>> /\ targets' \subseteq targets /\ pc = "send" /\ pc' = "send"
    BY <1>7 DEF TelegramSend, NextChannel, userVars
  <2> QED
    BY <2>1, <2>2 DEF MutedInv, OptOutIsRespected
<1>8. ASSUME NEW e \in Endpoints,
             PushAccepted(e) \/ PushFails(e) \/ PushRefused(e) \/ PushGone(e)
      PROVE  MutedInv'
  <2>1. Push(e) /\ UNCHANGED <<prefs, muted, user, targets>> /\ pc' \in {"push", "delete"}
    BY <1>8 DEF PushAccepted, PushFails, PushRefused, PushGone, Push, userVars
  <2>2. Owner[e] = user
    BY <2>1, <1>h DEF Push, Stages
  <2>3. <<user, "web_push">> \notin muted /\ used' = used \cup {<<user, "web_push">>}
    BY <2>1, <2>2 DEF Push, Use, MutedInv
  <2> QED
    BY <2>1, <2>3 DEF MutedInv, OptOutIsRespected
<1>9. ASSUME UNCHANGED <<prefs, muted>>, targets' \subseteq targets,
             user' = user \/ targets' = {},
             pc' \in {"push", "delete"} => pc \in {"push", "delete"} /\ user' = user,
             pc' = "publish" => pc = "publish" /\ user' = user,
             used' = {} \/ (used' = used /\ (pc' = "idle" => pc = "idle"))
      PROVE  MutedInv'
  BY <1>9 DEF MutedInv, OptOutIsRespected
<1>10. \/ \E n \in Notes : Begin(n)
       \/ \E u \in Users : NextRecipient(u)
       \/ PushList
       \/ \E u \in Users, c \in Channels, p \in PrefRows : PutPreference(u, c, p)
       \/ SiteInsert \/ SitePublish \/ TelegramSend
       \/ \E e \in Endpoints :
             PushAccepted(e) \/ PushFails(e) \/ PushRefused(e) \/ PushGone(e)
       \/ /\ UNCHANGED <<prefs, muted>> /\ targets' \subseteq targets
          /\ user' = user \/ targets' = {}
          /\ pc' \in {"push", "delete"} => pc \in {"push", "delete"} /\ user' = user
          /\ pc' = "publish" => pc = "publish" /\ user' = user
          /\ used' = {} \/ (used' = used /\ (pc' = "idle" => pc = "idle"))
  BY DEF Next, JobStep, UserStep, Forget,
     EarlyError, Persist, ResolveRecipients, SkipRecipient, SkipChannel,
     SendFails, RecipientDone, SitePublishFails, PushDone,
     DropSubscription, DropFails, Finish, Crash, MarkRead, Dismiss,
     Subscribe, Unsubscribe, NextChannel, Change, vars, jobVars,
     siteVars, userVars, outVars, histVars
<1> QED
  BY <1>1, <1>2, <1>3, <1>4, <1>5, <1>6, <1>7, <1>8, <1>9, <1>10

\* A dispatch uses no channel its user had disabled before it began, whatever
\* the notification asks for and whatever an earlier try of it has done: a
\* retry that would repeat a message heeds what was disabled since the try
\* before.
THEOREM OptOut == Spec => []OptOutIsRespected
<1>1. Init => MutedInv
  BY DEF Init, MutedInv, OptOutIsRespected
<1>2. JobInv /\ MutedInv /\ [Next]_vars => MutedInv'
  BY MutedStep
<1>3. MutedInv => OptOutIsRespected
  BY DEF MutedInv
<1> QED
  BY <1>1, <1>2, <1>3, JobInvariance, PTL DEF Spec

-----------------------------------------------------------------------------
(* What a dispatch adds, to whom, and how often.                           *)

\* A dispatch reaches the recipients of the notification and nobody else: on
\* no channel, in no try.
ToAudienceOnly ==
    /\ \A r \in rows : r[2] \in Audience[r[1][1]]
    /\ \A t \in sent : t[2] \in Audience[t[1]]
    /\ \A t \in answered : Owner[t[2]] \in Audience[t[1]]

\* What streams are told of, and what is marked read or dismissed, is a row
\* that the inbox has.
InboxHoldsAll == events \cup read \cup dismissed \subseteq rows

\* A notification without an ID leaves a recipient no more rows than it had
\* dispatches.
RowsBounded ==
    \A n \in Notes \ WithId, u \in Users : Cardinality(RowsOf(n, u)) <= tries[n]

\* A redelivery of a notification with an ID adds a row only for a recipient
\* who has none yet.
RedeliveryAddsNoRow ==
    [][\A r \in rows' \ rows :
          r[1][1] \in WithId => RowsOf(r[1][1], r[2]) = {}]_vars

\* What a step adds is for the notification, the recipient and the endpoints in
\* hand.
LEMMA WhatStepsAdd ==
  ASSUME JobInv, [Next]_vars
  PROVE  /\ rows' = rows \/ (pc = "send" /\ rows' = rows \cup {<<id, user>>})
         /\ events' = events \/ (pc = "publish" /\ events' = events \cup {<<id, user>>})
         /\ sent' = sent \/ (pc = "send" /\ sent' = sent \cup {<<note, user>>})
         /\ answered' = answered
            \/ \E e \in pushes : pc = "push" /\ answered' = answered \cup {<<note, e>>}
         /\ read' = read \/ \E r \in rows : read' = read \cup {r}
         /\ dismissed' = dismissed \/ \E r \in rows : dismissed' = dismissed \cup {r}
<1> DEFINE Quiet == UNCHANGED <<rows, events, sent, answered, read, dismissed>>
<1>1. CASE SiteInsert \/ SitePublish \/ TelegramSend
  BY <1>1 DEF SiteInsert, SitePublish, TelegramSend, NextChannel, siteVars, outVars
<1>2. ASSUME NEW e \in Endpoints, PushAccepted(e) \/ PushRefused(e) \/ PushGone(e)
      PROVE  /\ pc = "push" /\ e \in pushes /\ answered' = answered \cup {<<note, e>>}
             /\ UNCHANGED <<rows, events, sent, read, dismissed>>
  BY <1>2 DEF PushAccepted, PushRefused, PushGone, Push, siteVars
<1>3. ASSUME NEW r \in Rows, MarkRead(r) \/ Dismiss(r)
      PROVE  /\ r \in rows
             /\ \/ read' = read \cup {r} /\ dismissed' = dismissed
                \/ dismissed' = dismissed \cup {r} /\ read' = read
             /\ UNCHANGED <<rows, events, sent, answered>>
  BY <1>3 DEF MarkRead, Dismiss, outVars
<1>4. ASSUME NEW n \in Notes, Begin(n)
      PROVE  Quiet
  BY <1>4 DEF Begin, siteVars
<1>5. CASE EarlyError \/ Persist \/ ResolveRecipients \/ SkipChannel \/ SendFails
           \/ RecipientDone \/ SitePublishFails \/ PushList \/ PushDone
           \/ DropSubscription \/ DropFails \/ Finish \/ Crash
  BY <1>5 DEF EarlyError, Persist, ResolveRecipients, SkipChannel, SendFails,
     RecipientDone, SitePublishFails, PushList, PushDone, DropSubscription,
     DropFails, Finish, Crash, siteVars, outVars
<1>6. ASSUME NEW u \in Users, NextRecipient(u) \/ SkipRecipient(u)
      PROVE  Quiet
  BY <1>6 DEF NextRecipient, SkipRecipient, siteVars, outVars
<1>7. ASSUME NEW e \in Endpoints, PushFails(e) \/ Subscribe(e) \/ Unsubscribe(e)
      PROVE  Quiet
  BY <1>7 DEF PushFails, Subscribe, Unsubscribe, siteVars, outVars
<1>8. ASSUME NEW u \in Users, NEW c \in Channels, NEW p \in PrefRows, PutPreference(u, c, p)
      PROVE  Quiet
  BY <1>8 DEF PutPreference, siteVars, outVars
<1>9. CASE UNCHANGED vars
  BY <1>9 DEF vars, siteVars, outVars
<1> QED
  BY <1>1, <1>2, <1>3, <1>4, <1>5, <1>6, <1>7, <1>8, <1>9 DEF Next, JobStep, UserStep

\* Who is in hand, or yet to come, is a recipient of the notification in hand.
HandsInAudience ==
    /\ note = None => todo = {}
    /\ note # None /\ pc \notin {"persist", "recipients"} => todo \subseteq Audience[note]
    /\ pc \in {"persist", "recipients"} => todo = {}
    /\ user # None => user \in Audience[note]

\* ResolveRecipients takes the audience, NextRecipient one of it.
LEMMA HandsStep == JobInv /\ HandsInAudience /\ [Next]_vars => HandsInAudience'
<1> SUFFICES ASSUME JobInv, HandsInAudience, [Next]_vars PROVE HandsInAudience'
  OBVIOUS
<1>t. /\ pc = "idle" <=> note = None
      /\ pc \in Working <=> user # None
      /\ None \notin Notes
  BY DispatchAssumption DEF DispatchAssumption, JobInv, Stages
<1>1. CASE EarlyError \/ Finish \/ Crash
  BY <1>1 DEF EarlyError, Finish, Crash, Forget, HandsInAudience
<1>2. ASSUME NEW n \in Notes, Begin(n)
      PROVE  HandsInAudience'
  BY <1>2, <1>t DEF Begin, HandsInAudience, Working
<1>3. CASE Persist
  BY <1>3, <1>t DEF Persist, HandsInAudience
<1>4. CASE ResolveRecipients
  BY <1>4, <1>t DEF ResolveRecipients, HandsInAudience
<1>5. ASSUME NEW u \in Users, NextRecipient(u) \/ SkipRecipient(u)
      PROVE  HandsInAudience'
  BY <1>5, <1>t DEF NextRecipient, SkipRecipient, HandsInAudience
<1>6. ASSUME UNCHANGED <<note, todo>>, user' \in {user, None},
             \/ UNCHANGED pc
             \/ pc \in Working /\ pc' \notin {"idle", "persist", "recipients"}
      PROVE  HandsInAudience'
  BY <1>6, <1>t DEF HandsInAudience, Working
<1>7. CASE SkipChannel \/ SendFails \/ RecipientDone
  BY <1>6, <1>7 DEF SkipChannel, SendFails, RecipientDone, NextChannel, Working
<1>8. CASE SiteInsert \/ SitePublish \/ SitePublishFails \/ TelegramSend
  BY <1>6, <1>8 DEF SiteInsert, SitePublish, SitePublishFails, TelegramSend, NextChannel, Working
<1>9. CASE PushList \/ PushDone \/ DropSubscription \/ DropFails
  BY <1>6, <1>9 DEF PushList, PushDone, DropSubscription, DropFails, NextChannel, Working
<1>10. ASSUME NEW e \in Endpoints,
              PushAccepted(e) \/ PushFails(e) \/ PushRefused(e) \/ PushGone(e)
       PROVE  HandsInAudience'
  BY <1>6, <1>10 DEF PushAccepted, PushFails, PushRefused, PushGone, Push, Working
<1>11. CASE UserStep \/ UNCHANGED vars
  <2>1. UNCHANGED <<pc, note, todo, user>>
    BY <1>11 DEF UserStep, MarkRead, Dismiss, PutPreference, Subscribe, Unsubscribe,
       vars, jobVars
  <2> QED
    BY <1>6, <2>1
<1> QED
  BY <1>1, <1>2, <1>3, <1>4, <1>5, <1>7, <1>8, <1>9, <1>10, <1>11 DEF Next, JobStep

\* Nobody but its recipients is reached by a notification: ToAudienceOnly is an
\* invariant, whatever is retried and whoever changes preferences meanwhile.
THEOREM AudienceOnly == Spec => []ToAudienceOnly
<1>1. Init => HandsInAudience /\ ToAudienceOnly
  BY DEF Init, HandsInAudience, ToAudienceOnly
<1>2. JobInv /\ HandsInAudience /\ ToAudienceOnly /\ [Next]_vars => ToAudienceOnly'
  <2> SUFFICES ASSUME JobInv, HandsInAudience, ToAudienceOnly, [Next]_vars
               PROVE  ToAudienceOnly'
    OBVIOUS
  <2>1. pc \in Working =>
          /\ user \in Audience[note] /\ (\A e \in pushes : Owner[e] = user)
          /\ id[1] = note
    BY DEF JobInv, Stages, HandsInAudience, Working
  <2>2. \A r \in rows' : r[2] \in Audience[r[1][1]]
    <3>1. rows' = rows \/ (pc = "send" /\ rows' = rows \cup {<<id, user>>})
      BY WhatStepsAdd
    <3> QED
      BY <2>1, <3>1 DEF ToAudienceOnly, Working
  <2>3. \A t \in sent' : t[2] \in Audience[t[1]]
    <3>1. sent' = sent \/ (pc = "send" /\ sent' = sent \cup {<<note, user>>})
      BY WhatStepsAdd
    <3> QED
      BY <2>1, <3>1 DEF ToAudienceOnly, Working
  <2>4. \A t \in answered' : Owner[t[2]] \in Audience[t[1]]
    <3>1. answered' = answered
          \/ \E e \in pushes : pc = "push" /\ answered' = answered \cup {<<note, e>>}
      BY WhatStepsAdd
    <3> QED
      BY <2>1, <3>1 DEF ToAudienceOnly, Working
  <2> QED
    BY <2>2, <2>3, <2>4 DEF ToAudienceOnly
<1>3. JobInv /\ HandsInAudience /\ [Next]_vars => HandsInAudience'
  BY HandsStep
<1> QED
  BY <1>1, <1>2, <1>3, JobInvariance, PTL DEF Spec

\* A stream is never told of a notification that the inbox does not show, though
\* the insert and the publish are two calls that a crash or an error may part.
THEOREM ToldIsStored == Spec => []InboxHoldsAll
<1>1. Init => InboxHoldsAll
  BY DEF Init, InboxHoldsAll
<1>2. JobInv /\ InboxHoldsAll /\ [Next]_vars => InboxHoldsAll'
  <2> SUFFICES ASSUME JobInv, InboxHoldsAll, [Next]_vars PROVE InboxHoldsAll'
    OBVIOUS
  <2>1. rows \subseteq rows'
    BY StepGrows DEF Grows
  <2>2. events' \subseteq rows'
    <3>1. events' = events \/ (pc = "publish" /\ events' = events \cup {<<id, user>>})
      BY WhatStepsAdd
    <3>2. pc = "publish" => <<id, user>> \in rows
      BY DEF JobInv, Stages
    <3> QED
      BY <2>1, <3>1, <3>2 DEF InboxHoldsAll
  <2>3. /\ read' = read \/ \E r \in rows : read' = read \cup {r}
        /\ dismissed' = dismissed \/ \E r \in rows : dismissed' = dismissed \cup {r}
    BY WhatStepsAdd
  <2> QED
    BY <2>1, <2>2, <2>3 DEF InboxHoldsAll
<1> QED
  BY <1>1, <1>2, JobInvariance, PTL DEF Spec

\* However often a notification with an ID comes back, and whatever failed
\* before, a recipient who has its row gets no other.
THEOREM RetriesAddNoRow == Spec => RedeliveryAddsNoRow
<1>1. JobInv /\ OwnIds /\ OwnIds' /\ [Next]_vars =>
         [\A r \in rows' \ rows : r[1][1] \in WithId => RowsOf(r[1][1], r[2]) = {}]_vars
  <2> SUFFICES ASSUME JobInv, OwnIds, OwnIds', [Next]_vars, NEW r \in rows' \ rows,
                      r[1][1] \in WithId, NEW q \in RowsOf(r[1][1], r[2])
               PROVE  FALSE
    OBVIOUS
  <2>1. r = <<id, user>> /\ pc = "send"
    BY WhatStepsAdd
  <2>2. id \in Ids
    BY <2>1 DEF JobInv, Stages
  <2>3. r[1] = <<r[1][1], r[1][2]>> /\ r = <<r[1], r[2]>> /\ r[1][2] = 0
    BY <2>1, <2>2 DEF Ids, OwnIds
  <2>4. q \in Rows /\ q[1][1] = r[1][1] /\ q[2] = r[2] /\ q[1][2] = 0 /\ q \in rows
    BY DEF RowsOf, OwnIds, JobInv, Types, TypeOK
  <2>5. q = <<q[1], q[2]>> /\ q[1] = <<q[1][1], q[1][2]>>
    BY <2>4 DEF Rows, Ids
  <2>6. q = r
    BY <2>3, <2>4, <2>5
  <2> QED
    BY <2>4, <2>6
<1>2. Init => OwnIds
  BY DEF Init, OwnIds
<1>3. JobInv /\ OwnIds /\ [Next]_vars => OwnIds'
  BY OwnIdsStep
<1> QED
  BY <1>1, <1>2, <1>3, JobInvariance, PTL DEF Spec, RedeliveryAddsNoRow

\* An ID that the database made is that of a dispatch that has begun.
MadeByTries ==
    /\ note # None => tries[note] >= 1
    /\ pc \notin {"idle", "persist"} /\ note \notin WithId => id[2] \in 1..tries[note]
    /\ \A r \in rows : r[1][1] \notin WithId => r[1][2] \in 1..tries[r[1][1]]

\* Begin counts the dispatch before Persist makes the ID.
LEMMA TriesStep == JobInv /\ MadeByTries /\ [Next]_vars => MadeByTries'
<1> SUFFICES ASSUME JobInv, MadeByTries, [Next]_vars PROVE MadeByTries'
  OBVIOUS
<1>t. /\ tries \in [Notes -> Nat] /\ note \in Notes \cup {None} /\ None \notin Notes
      /\ pc = "idle" <=> note = None
      /\ \A r \in rows : r[1][1] \in Notes
      /\ pc \notin {"idle", "persist"} => id[1] = note
  <2>1. \A i \in Ids : i[1] \in Notes
    BY DEF Ids
  <2> QED
    BY <2>1, DispatchAssumption
       DEF DispatchAssumption, JobInv, Types, TypeOK, Stages, Rows
<1>1. ASSUME NEW n \in Notes, Begin(n)
      PROVE  MadeByTries'
  <2>1. /\ pc' = "persist" /\ note' = n /\ rows' = rows
        /\ tries' = [tries EXCEPT ![n] = @ + 1]
    BY <1>1 DEF Begin, siteVars
  <2>2. \A m \in Notes : tries'[m] \in Nat /\ tries[m] \in Nat /\ tries'[m] >= tries[m]
    BY <1>t, <2>1
  <2>3. tries'[n] >= 1
    BY <1>t, <2>1
  <2>4. ASSUME NEW r \in rows, r[1][1] \notin WithId
        PROVE  r[1][2] \in 1..tries'[r[1][1]]
    <3>1. r[1][2] \in 1..tries[r[1][1]] /\ r[1][1] \in Notes
      BY <1>t, <2>4 DEF MadeByTries
    <3> QED
      BY <2>2, <3>1
  <2> QED
    BY <2>1, <2>3, <2>4 DEF MadeByTries
<1>2. CASE Persist
  <2>1. /\ pc = "persist" /\ pc' = "recipients"
        /\ note \notin WithId => id' = <<note, tries[note]>>
        /\ UNCHANGED <<note, rows, tries>>
    BY <1>2 DEF Persist, siteVars, outVars
  <2>2. note \in Notes /\ tries[note] \in Nat /\ tries[note] >= 1
    BY <1>t, <2>1 DEF MadeByTries
  <2>3. note \notin WithId => id'[2] \in 1..tries[note]
    BY <2>1, <2>2
  <2> QED
    BY <2>1, <2>3 DEF MadeByTries
<1>3. CASE EarlyError \/ Finish \/ Crash
  <2>1. /\ pc' = "idle" /\ note' = None
        /\ UNCHANGED <<rows, tries>>
    BY <1>3 DEF EarlyError, Finish, Crash, Forget, siteVars, outVars
  <2> QED
    BY <2>1 DEF MadeByTries
<1>4. ASSUME UNCHANGED <<note, id, tries>>,
             pc \in {"idle", "persist"} => pc' = pc
      PROVE  MadeByTries'
  <2>1. rows' = rows \/ (pc = "send" /\ rows' = rows \cup {<<id, user>>})
    BY WhatStepsAdd
  <2>2. ASSUME NEW r \in rows', r[1][1] \notin WithId
        PROVE  r[1][2] \in 1..tries[r[1][1]]
    <3>1. CASE r \in rows
      BY <2>2, <3>1 DEF MadeByTries
    <3>2. CASE pc = "send" /\ r = <<id, user>>
      BY <1>t, <2>2, <3>2 DEF MadeByTries
    <3> QED
      BY <2>1, <3>1, <3>2
  <2> QED
    BY <1>4, <2>2 DEF MadeByTries
<1>5. CASE \/ ResolveRecipients \/ SkipChannel \/ SendFails \/ RecipientDone
           \/ SiteInsert \/ SitePublish \/ SitePublishFails \/ TelegramSend
           \/ PushList \/ PushDone \/ DropSubscription \/ DropFails
  BY <1>4, <1>5 DEF ResolveRecipients, SkipChannel, SendFails, RecipientDone,
     SiteInsert, SitePublish, SitePublishFails, TelegramSend, PushList, PushDone,
     DropSubscription, DropFails, NextChannel, outVars
<1>6. ASSUME NEW u \in Users, NextRecipient(u) \/ SkipRecipient(u)
      PROVE  MadeByTries'
  BY <1>4, <1>6 DEF NextRecipient, SkipRecipient, outVars
<1>7. ASSUME NEW e \in Endpoints,
             PushAccepted(e) \/ PushFails(e) \/ PushRefused(e) \/ PushGone(e)
      PROVE  MadeByTries'
  BY <1>4, <1>7 DEF PushAccepted, PushFails, PushRefused, PushGone, Push, outVars
<1>8. CASE UserStep \/ UNCHANGED vars
  BY <1>4, <1>8 DEF UserStep, MarkRead, Dismiss, PutPreference, Subscribe, Unsubscribe,
     vars, jobVars, outVars
<1> QED
  BY <1>1, <1>2, <1>3, <1>5, <1>6, <1>7, <1>8 DEF Next, JobStep

\* A notification without an ID may leave one more row at each retry, and no
\* more than that: RowsBounded is an invariant.
THEOREM OneRowPerTry == Spec => []RowsBounded
<1>1. Init => MadeByTries
  BY DEF Init, MadeByTries
<1>2. JobInv /\ MadeByTries => RowsBounded
  <2> SUFFICES ASSUME JobInv, MadeByTries, NEW n \in Notes \ WithId, NEW u \in Users
               PROVE  Cardinality(RowsOf(n, u)) <= tries[n]
    BY DEF RowsBounded
  <2> DEFINE T == tries[n]
             I == 1..T
             image == {<<<<n, k>>, u>> : k \in I}
             f == [k \in I |-> <<<<n, k>>, u>>]
  <2>1. T \in Nat
    BY DEF JobInv, Types, TypeOK
  <2>2. RowsOf(n, u) \subseteq image
    <3> SUFFICES ASSUME NEW r \in RowsOf(n, u) PROVE r \in image
      OBVIOUS
    <3>1. r \in Ids \X Users /\ r[1][1] = n /\ r[2] = u /\ r[1][2] \in I
      BY DEF RowsOf, MadeByTries, JobInv, Types, TypeOK, Rows
    <3>2. r = <<r[1], r[2]>> /\ r[1] = <<r[1][1], r[1][2]>>
      BY <3>1 DEF Ids
    <3> HIDE DEF I
    <3> QED
      BY <3>1, <3>2
  <2>3. IsFiniteSet(I) /\ Cardinality(I) = T
    <3> HIDE DEF T
    <3>1. 1 \in Int /\ T \in Int /\ (1 > T <=> T = 0) /\ T - 1 + 1 = T
      BY <2>1
    <3>2. IsFiniteSet(1..T) /\ Cardinality(1..T) = IF 1 > T THEN 0 ELSE T - 1 + 1
      BY <3>1, FS_Interval
    <3> QED
      BY <3>1, <3>2
  <2> HIDE DEF T, I
  <2>4. f \in Surjection(I, image)
    BY DEF Surjection
  <2> HIDE DEF f, image
  <2>5. IsFiniteSet(image) /\ Cardinality(image) <= Cardinality(I)
    BY <2>3, <2>4, FS_Surjection
  <2>6. Cardinality(RowsOf(n, u)) <= Cardinality(image) /\ IsFiniteSet(RowsOf(n, u))
    BY <2>2, <2>5, FS_Subset
  <2>7. Cardinality(image) \in Nat /\ Cardinality(RowsOf(n, u)) \in Nat
    BY <2>5, <2>6, FS_CardinalityType
  <2>8. Cardinality(RowsOf(n, u)) <= T
    BY <2>1, <2>3, <2>5, <2>6, <2>7
  <2> QED
    BY <2>8 DEF T
<1>3. JobInv /\ MadeByTries /\ [Next]_vars => MadeByTries'
  BY TriesStep
<1> QED
  BY <1>1, <1>2, <1>3, JobInvariance, PTL DEF Spec
=============================================================================
