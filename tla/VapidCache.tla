----------------------------- MODULE VapidCache -----------------------------
(***************************************************************************)
(* The cache of VAPID tokens of the web push provider: each request to a   *)
(* push service carries a signed token for the audience of its endpoint,   *)
(* reused until a skew before it expires.  Push services refuse a token    *)
(* that has expired, and answer TooManyProviderTokenUpdates when tokens    *)
(* change too often: both refusals are permanent for the notification.     *)
(*                                                                         *)
(* A token is its audience and its expiry.  One request is under way at a  *)
(* time: only the goroutine of the consumer sends, and the mutex of the    *)
(* cache is never contended.                                               *)
(***************************************************************************)
EXTENDS Naturals

CONSTANTS
    Endpoints,   \* push endpoints
    Audiences,   \* the push services, by scheme and host
    Audience,    \* Audience[e]: that of e
    Lifetime,    \* 12 h
    Skew,        \* 15 min
    Flight,      \* a request takes no longer: 60 s, the timeout of a dispatch
    MaxTime,     \* bound on the clock
    None         \* no token, no endpoint

ASSUME VapidCacheAssumption ==
    /\ Audience \in [Endpoints -> Audiences]
    /\ Lifetime \in Nat /\ Skew \in Nat /\ Flight \in Nat /\ MaxTime \in Nat
    /\ Flight < Skew /\ Skew < Lifetime
    /\ None \notin Endpoints

Tokens == [aud : Audiences, exp : Nat]
ASSUME NoneIsNoToken == None \notin Tokens

VARIABLES
    now,      \* the clock
    cache,    \* cache[k]: the token under key k
    endpoint, \* where the request under way goes
    token,    \* the token it carries
    since,    \* when it was chosen
    seen      \* seen[a]: the last token the push service of a has seen

vcVars == <<now, cache, endpoint, token, since, seen>>

\* Mutant: the key is the whole endpoint.
cacheKeyByEndpoint(e) == e

\* Mutant: the key leaves the audience out.
cacheKeyOfSender(e) == "subscriber"

\* The key of the cache; the subscriber and the public key in it are always
\* the same.
cacheKey(e) == Audience[e]

Keys == {cacheKey(e) : e \in Endpoints}

\* Mutant: a token is used to its end.
RefreshAtExpiry(t) == t.exp

RefreshAfter(t) == t.exp - Skew

VCInit ==
    /\ now = 0
    /\ cache = [k \in Keys |-> None]
    /\ endpoint = None /\ token = None /\ since = 0
    /\ seen = [a \in Audiences |-> None]

\* authorizationHeader: the cached token if it is fresh, else a new one.
Authorize(e) ==
    /\ endpoint = None
    /\ LET k == cacheKey(e)
           fresh == cache[k] # None /\ now < RefreshAfter(cache[k])
           signed == [aud |-> Audience[e], exp |-> now + Lifetime]
       IN  /\ token' = IF fresh THEN cache[k] ELSE signed
           /\ cache' = [cache EXCEPT ![k] = token']
    /\ endpoint' = e
    /\ since' = now
    /\ UNCHANGED <<now, seen>>

\* The request reaches the push service, which notes the token.
Arrive ==
    /\ endpoint # None
    /\ seen' = [seen EXCEPT ![Audience[endpoint]] = token]
    /\ endpoint' = None /\ token' = None /\ since' = 0
    /\ UNCHANGED <<now, cache>>

\* The request is lost, or its time is up.
Abandon ==
    /\ endpoint # None
    /\ endpoint' = None /\ token' = None /\ since' = 0
    /\ UNCHANGED <<now, cache, seen>>

\* Time passes, no longer than the timeout while a request is under way.
Tick ==
    /\ now < MaxTime
    /\ endpoint # None => now < since + Flight
    /\ now' = now + 1
    /\ UNCHANGED <<cache, endpoint, token, since, seen>>

VCNext == Tick \/ Arrive \/ Abandon \/ \E e \in Endpoints : Authorize(e)

VCSpec == VCInit /\ [][VCNext]_vcVars

-----------------------------------------------------------------------------
(* Properties.                                                             *)

\* As long as a request is under way its token is for the service it goes to
\* and has not expired: a token that was fresh when it was chosen is still
\* good when it arrives.
TokenGoodOnArrival ==
    endpoint # None => token.aud = Audience[endpoint] /\ now < token.exp

\* Two tokens a push service sees one after the other were signed at least a
\* lifetime less the skew apart, however many endpoints of it are pushed to and
\* whatever requests are lost: it has no reason to answer
\* TooManyProviderTokenUpdates while the process runs.
TokensChangeSlowly ==
    [][\A a \in Audiences :
          seen[a] # None /\ seen'[a] # seen[a] =>
              seen'[a].exp + Skew >= seen[a].exp + Lifetime]_vcVars
=============================================================================
