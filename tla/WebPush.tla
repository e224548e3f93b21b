------------------------------- MODULE WebPush -------------------------------
(***************************************************************************)
(* A notification on its way to browsers: for each recipient the site      *)
(* provider, which may fail, and the web push provider, which sends to     *)
(* each endpoint with a token of the cache and sorts what comes back into  *)
(* temporary and permanent failures.  The errors of endpoints, channels    *)
(* and recipients are wrapped and joined into one, on which the consumer   *)
(* decides.  Recipients and endpoints are taken in any order.              *)
(***************************************************************************)
EXTENDS VapidCache, SendErrors

CONSTANTS
    Recipients,
    Subs,      \* Subs[u]: the endpoints u has subscribed
    Statuses   \* HTTP statuses push services answer with

ASSUME WebPushAssumption ==
    /\ Subs \in [Recipients -> SUBSET Endpoints]
    /\ Statuses \subseteq 100..599

VARIABLES
    pc,       \* idle, next, site, list, push, request, delete, done
    left,     \* recipients still to be reached
    user,     \* the one in hand
    pushes,   \* its endpoints still to be pushed to
    pushErr,  \* sendErr of the provider's Send
    sendErr,  \* sendErr of Dispatch
    failures  \* history: what has gone wrong in this dispatch

jobVars == <<pc, left, user, pushes, pushErr, sendErr, failures>>
vars == <<vcVars, jobVars>>

Channel == "web_push"

Init ==
    /\ VCInit
    /\ pc = "idle"
    /\ left = {} /\ user = None /\ pushes = {}
    /\ pushErr = Nil /\ sendErr = Nil
    /\ failures = {}

-----------------------------------------------------------------------------
(* Dispatch.                                                               *)

Begin ==
    /\ pc = "idle"
    /\ pc' = "next"
    /\ left' = Recipients
    /\ sendErr' = Nil
    /\ failures' = {}
    /\ UNCHANGED <<vcVars, user, pushes, pushErr>>

\* An error that is no SendError joins those of the dispatch.
Fails(e) ==
    /\ sendErr' = Join(sendErr, e)
    /\ failures' = failures \cup {"plain"}

NextRecipient(u) ==
    /\ pc = "next"
    /\ u \in left
    /\ left' = left \ {u}
    /\ \/ /\ pc' = "site" /\ user' = u
          /\ UNCHANGED <<sendErr, failures>>
       \/ /\ Fails(Wrap(Plain))      \* resolveChannels fails
          /\ UNCHANGED <<pc, user>>
    /\ UNCHANGED <<vcVars, pushes, pushErr>>

SiteSend ==
    /\ pc = "site"
    /\ pc' = "list"
    /\ \/ UNCHANGED <<sendErr, failures>>
       \/ Fails(Wrap(Wrap(Plain)))
    /\ UNCHANGED <<vcVars, left, user, pushes, pushErr>>

\* The query for the subscriptions of the recipient.
List ==
    /\ pc = "list"
    /\ \/ /\ pc' = "push" /\ pushes' = Subs[user]
          /\ UNCHANGED <<sendErr, failures>>
       \/ /\ pc' = "next"
          /\ Fails(Wrap(Wrap(Plain)))
          /\ UNCHANGED pushes
    /\ UNCHANGED <<vcVars, left, user, pushErr>>

-----------------------------------------------------------------------------
(* Send.                                                                   *)

PushFailure(permanent) ==
    /\ pushErr' = Join(pushErr, SendError(Channel, permanent))
    /\ failures' = failures \cup {IF permanent THEN "permanent" ELSE "temporary"}

Push(e) ==
    /\ pc = "push"
    /\ e \in pushes
    /\ pushes' = pushes \ {e}
    /\ pc' = "request"
    /\ Authorize(e)
    /\ UNCHANGED <<left, user, pushErr, sendErr, failures>>

\* The endpoint or a key cannot be used.
PushUnsent(e) ==
    /\ pc = "push"
    /\ e \in pushes
    /\ pushes' = pushes \ {e}
    /\ PushFailure(FALSE)
    /\ UNCHANGED <<vcVars, pc, left, user, sendErr>>

isPermanentWebPushFailure(status, reason) ==
    status \in {400, 403, 404, 410} \/ (status = 429 /\ reason = "TooManyProviderTokenUpdates")

\* The push service answers.
Answer(status, reason) ==
    /\ pc = "request"
    /\ Arrive
    /\ IF status \in {404, 410}
       THEN pc' = "delete" /\ UNCHANGED <<pushErr, failures>>
       ELSE /\ pc' = "push"
            /\ IF status \in 200..299 THEN UNCHANGED <<pushErr, failures>>
               ELSE PushFailure(isPermanentWebPushFailure(status, reason))
    /\ UNCHANGED <<left, user, pushes, sendErr>>

NoAnswer ==
    /\ pc = "request"
    /\ Abandon
    /\ pc' = "push"
    /\ PushFailure(FALSE)
    /\ UNCHANGED <<left, user, pushes, sendErr>>

\* DeletePushSubscription.
DeleteSub ==
    /\ pc = "delete"
    /\ pc' = "push"
    /\ UNCHANGED <<pushErr, failures>> \/ PushFailure(FALSE)
    /\ UNCHANGED <<vcVars, left, user, pushes, sendErr>>

\* Send returns to Dispatch.
SendReturns ==
    /\ pc = "push"
    /\ pushes = {}
    /\ pc' = "next"
    /\ sendErr' = IF pushErr = Nil THEN sendErr ELSE Join(sendErr, Wrap(pushErr))
    /\ user' = None /\ pushErr' = Nil
    /\ UNCHANGED <<vcVars, left, pushes, failures>>

\* Dispatch returns; the consumer settles and takes another notification, or
\* this one again.
DispatchReturns ==
    /\ pc = "next"
    /\ left = {}
    /\ pc' = "done"
    /\ UNCHANGED <<vcVars, left, user, pushes, pushErr, sendErr, failures>>

Settle ==
    /\ pc = "done"
    /\ pc' = "idle"
    /\ sendErr' = Nil /\ failures' = {}
    /\ UNCHANGED <<vcVars, left, user, pushes, pushErr>>

-----------------------------------------------------------------------------
Next ==
    \/ Tick /\ UNCHANGED jobVars
    \/ Begin \/ SiteSend \/ List \/ NoAnswer \/ DeleteSub \/ SendReturns
    \/ DispatchReturns \/ Settle
    \/ \E u \in Recipients : NextRecipient(u)
    \/ \E e \in Endpoints : Push(e) \/ PushUnsent(e)
    \/ \E s \in Statuses, r \in {"", "TooManyProviderTokenUpdates"} : Answer(s, r)

Spec == Init /\ [][Next]_vars

-----------------------------------------------------------------------------
(* Properties.                                                             *)

\* What Dispatch returns tells the consumer what happened, however the errors
\* of endpoints, channels and recipients were joined and wrapped: no error if
\* nothing failed, and a permanent failure of web push alone if everything
\* that failed was a refusal of a push service for good.
VerdictIsExact ==
    pc = "done" =>
        /\ sendErr = Nil <=> failures = {}
        /\ IsPermanentChannelOnly(sendErr, Channel) <=> failures = {"permanent"}
=============================================================================
