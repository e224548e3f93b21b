---------------------------- MODULE WebPushProofs ----------------------------
(***************************************************************************)
(* Proofs about module VapidCache, for any endpoints and push services and *)
(* any lifetime, skew and timeout with Flight < Skew < Lifetime; about the *)
(* trees of errors of module SendErrors; and about module WebPush, which   *)
(* builds such a tree in a dispatch and reads it at its end.               *)
(***************************************************************************)
EXTENDS WebPush, TLAPS, SequenceTheorems

-----------------------------------------------------------------------------
(* The cache by itself: its inductive invariant.                           *)

TypeInv ==
    /\ now \in Nat /\ since \in Nat
    /\ cache \in [Keys -> Tokens \cup {None}]
    /\ endpoint \in Endpoints \cup {None}
    /\ token \in Tokens \cup {None}
    /\ seen \in [Audiences -> Tokens \cup {None}]

\* A token is kept under its audience.
KeptForAudience == \A k \in Keys : cache[k] # None => cache[k].aud = k

\* The request under way carries the token that is in the cache, which was not
\* due for renewal when it was chosen, and is younger than the timeout.
RequestIsYoung ==
    endpoint # None =>
        /\ token # None /\ token = cache[Audience[endpoint]]
        /\ since + Skew < token.exp
        /\ now <= since + Flight

\* What a push service has seen is what the cache has for it, or was renewed
\* since, at the earliest a skew before its end.
SeenIsOlder ==
    \A a \in Audiences : seen[a] # None =>
        /\ a \in Keys /\ cache[a] # None
        /\ seen[a] = cache[a] \/ seen[a].exp + Lifetime <= cache[a].exp + Skew

CacheInv == TypeInv /\ KeptForAudience /\ RequestIsYoung /\ SeenIsOlder

\* The key of an endpoint is its audience.
LEMMA KeyOfEndpoint ==
  ASSUME NEW e \in Endpoints
  PROVE  Audience[e] \in Keys /\ Audience[e] \in Audiences /\ cacheKey(e) = Audience[e]
BY VapidCacheAssumption DEF VapidCacheAssumption, Keys, cacheKey

\* What a renewal leaves: the token that is taken is the one the cache then
\* has, is for the endpoint, is not due, and is the old one or much younger.
LEMMA AuthorizeToken ==
  ASSUME CacheInv, NEW e \in Endpoints, Authorize(e)
  PROVE  /\ token' \in Tokens /\ token'.aud = Audience[e]
         /\ cache' = [cache EXCEPT ![Audience[e]] = token']
         /\ now + Skew < token'.exp
         /\ \/ token' = cache[Audience[e]]
            \/ cache[Audience[e]] = None
            \/ cache[Audience[e]].exp + Lifetime <= token'.exp + Skew
<1> DEFINE k == Audience[e]
           old == cache[k]
           signed == [aud |-> k, exp |-> now + Lifetime]
<1>1. k \in Keys /\ k \in Audiences /\ cacheKey(e) = k
  BY KeyOfEndpoint
<1>2. old \in Tokens \cup {None} /\ (old # None => old.aud = k)
  BY <1>1 DEF CacheInv, TypeInv, KeptForAudience
<1>3. /\ Lifetime \in Nat /\ Skew \in Nat /\ Skew < Lifetime /\ now \in Nat
      /\ signed \in Tokens
  BY <1>1, VapidCacheAssumption DEF VapidCacheAssumption, CacheInv, TypeInv, Tokens
<1>4. cache' = [cache EXCEPT ![k] = token']
  BY <1>1 DEF Authorize
<1>5. CASE old # None /\ now < RefreshAfter(old)
  <2>1. token' = old
    BY <1>1, <1>5 DEF Authorize
  <2>2. old \in Tokens /\ old.exp \in Nat
    BY <1>2, <1>5 DEF Tokens
  <2>3. now + Skew < old.exp
    BY <1>3, <1>5, <2>2 DEF RefreshAfter
  <2> QED
    BY <1>2, <1>4, <1>5, <2>1, <2>2, <2>3
<1>6. CASE ~(old # None /\ now < RefreshAfter(old))
  <2>1. token' = signed
    BY <1>1, <1>6 DEF Authorize
  <2>2. old = None \/ old.exp + Lifetime <= signed.exp + Skew
    <3> SUFFICES ASSUME old # None
                 PROVE  old.exp + Lifetime <= signed.exp + Skew
      OBVIOUS
    <3>1. old.exp \in Nat /\ ~(now < old.exp - Skew)
      BY <1>2, <1>6 DEF Tokens, RefreshAfter
    <3> QED
      BY <1>3, <3>1
  <2>3. now + Skew < signed.exp
    BY <1>3
  <2> QED
    BY <1>3, <1>4, <2>1, <2>2, <2>3
<1> QED
  BY <1>5, <1>6

\* A token is kept while it is good for another skew, or signed anew.
LEMMA AuthorizeStep ==
  ASSUME CacheInv, NEW e \in Endpoints, Authorize(e)
  PROVE  CacheInv'
<1>1. /\ token' \in Tokens /\ token'.aud = Audience[e]
      /\ cache' = [cache EXCEPT ![Audience[e]] = token']
      /\ now + Skew < token'.exp
      /\ \/ token' = cache[Audience[e]]
         \/ cache[Audience[e]] = None
         \/ cache[Audience[e]].exp + Lifetime <= token'.exp + Skew
  BY AuthorizeToken
<1>2. Audience[e] \in Keys /\ Audience[e] \in Audiences
  BY KeyOfEndpoint
<1>3. endpoint' = e /\ since' = now /\ now' = now /\ seen' = seen
  BY DEF Authorize
<1>4. TypeInv'
  BY <1>1, <1>2, <1>3 DEF CacheInv, TypeInv
<1>5. KeptForAudience'
  BY <1>1, <1>2 DEF CacheInv, TypeInv, KeptForAudience
<1>6. RequestIsYoung'
  <2>1. token' # None /\ cache'[Audience[e]] = token'
    BY <1>1, <1>2, NoneIsNoToken DEF CacheInv, TypeInv
  <2>2. now' <= since' + Flight
    BY <1>3, VapidCacheAssumption DEF VapidCacheAssumption, CacheInv, TypeInv
  <2> QED
    BY <1>1, <1>3, <2>1, <2>2 DEF RequestIsYoung
<1>7. SeenIsOlder'
  <2> SUFFICES ASSUME NEW a \in Audiences, seen[a] # None
               PROVE  /\ a \in Keys /\ cache'[a] # None
                      /\ \/ seen[a] = cache'[a]
                         \/ seen[a].exp + Lifetime <= cache'[a].exp + Skew
    BY <1>3 DEF SeenIsOlder
  <2>1. /\ a \in Keys /\ cache[a] # None
        /\ seen[a] = cache[a] \/ seen[a].exp + Lifetime <= cache[a].exp + Skew
    BY DEF CacheInv, SeenIsOlder
  <2>2. CASE a # Audience[e]
    BY <1>1, <1>2, <2>1, <2>2 DEF CacheInv, TypeInv
  <2>3. CASE a = Audience[e]
    <3>1. cache'[a] = token' /\ token' # None
      BY <1>1, <1>2, <2>3, NoneIsNoToken DEF CacheInv, TypeInv
    <3>2. /\ seen[a] \in Tokens /\ cache[a] \in Tokens
      BY <2>1 DEF CacheInv, TypeInv
    <3>3. seen[a].exp \in Nat /\ cache[a].exp \in Nat /\ token'.exp \in Nat
      BY <1>1, <3>2 DEF Tokens
    <3>4. Lifetime \in Nat /\ Skew \in Nat /\ Skew < Lifetime
      BY VapidCacheAssumption DEF VapidCacheAssumption
    <3>5. \/ seen[a] = token'
          \/ seen[a].exp + Lifetime <= token'.exp + Skew
      BY <1>1, <2>1, <2>3, <3>3, <3>4
    <3> QED
      BY <2>1, <3>1, <3>5
  <2> QED
    BY <2>2, <2>3
<1> QED
  BY <1>4, <1>5, <1>6, <1>7 DEF CacheInv

\* What a push service sees is what was chosen for it.
LEMMA ArriveStep ==
  ASSUME CacheInv, Arrive
  PROVE  CacheInv'
<1>1. endpoint \in Endpoints /\ token \in Tokens
  BY DEF CacheInv, TypeInv, RequestIsYoung, Arrive
<1>2. Audience[endpoint] \in Keys /\ Audience[endpoint] \in Audiences
  BY <1>1, KeyOfEndpoint
<1>3. /\ seen' = [seen EXCEPT ![Audience[endpoint]] = token]
      /\ endpoint' = None /\ token' = None /\ since' = 0
      /\ now' = now /\ cache' = cache
  BY DEF Arrive
<1>4. TypeInv'
  BY <1>1, <1>2, <1>3 DEF CacheInv, TypeInv
<1>5. KeptForAudience' /\ RequestIsYoung'
  BY <1>3 DEF CacheInv, KeptForAudience, RequestIsYoung
<1>6. SeenIsOlder'
  <2>1. token = cache[Audience[endpoint]] /\ token # None
    BY DEF CacheInv, RequestIsYoung, Arrive
  <2> QED
    BY <1>2, <1>3, <2>1 DEF CacheInv, TypeInv, SeenIsOlder
<1> QED
  BY <1>4, <1>5, <1>6 DEF CacheInv

\* The clock moves no further than the timeout while a request is under way.
LEMMA TickStep ==
  ASSUME CacheInv, Tick
  PROVE  CacheInv'
<1>1. TypeInv' /\ KeptForAudience' /\ SeenIsOlder'
  BY DEF CacheInv, TypeInv, KeptForAudience, SeenIsOlder, Tick
<1>2. RequestIsYoung'
  <2> SUFFICES ASSUME endpoint # None
               PROVE  now' <= since + Flight
    BY DEF CacheInv, RequestIsYoung, Tick
  <2> QED
    BY VapidCacheAssumption DEF VapidCacheAssumption, CacheInv, TypeInv, Tick
<1> QED
  BY <1>1, <1>2 DEF CacheInv

\* Each step keeps the invariant.
LEMMA CacheStep == CacheInv /\ [VCNext]_vcVars => CacheInv'
<1> SUFFICES ASSUME CacheInv, [VCNext]_vcVars
             PROVE  CacheInv'
  OBVIOUS
<1>1. CASE Tick
  BY <1>1, TickStep
<1>2. CASE Arrive
  BY <1>2, ArriveStep
<1>3. CASE Abandon
  BY <1>3 DEF Abandon, CacheInv, TypeInv, KeptForAudience, RequestIsYoung, SeenIsOlder
<1>4. ASSUME NEW e \in Endpoints, Authorize(e)
      PROVE  CacheInv'
  BY <1>4, AuthorizeStep
<1>5. CASE UNCHANGED vcVars
  BY <1>5 DEF vcVars, CacheInv, TypeInv, KeptForAudience, RequestIsYoung, SeenIsOlder
<1> QED
  BY <1>1, <1>2, <1>3, <1>4, <1>5 DEF VCNext

\* The cache keeps, for each push service, the token it was signed for.
THEOREM CacheInvariance == VCSpec => []CacheInv
<1>1. VCInit => CacheInv
  BY DEF VCInit, CacheInv, TypeInv, KeptForAudience, RequestIsYoung, SeenIsOlder
<1> QED
  BY <1>1, CacheStep, PTL DEF VCSpec

-----------------------------------------------------------------------------
(* What follows from it.                                                   *)

\* A token that is chosen in the cache or signed for a request is still good
\* for the service it goes to when the request ends (auth.go:73).
THEOREM GoodOnArrival == VCSpec => []TokenGoodOnArrival
<1>1. CacheInv => TokenGoodOnArrival
  <2> SUFFICES ASSUME CacheInv, endpoint # None
               PROVE  token.aud = Audience[endpoint] /\ now < token.exp
    BY DEF TokenGoodOnArrival
  <2>1. endpoint \in Endpoints /\ token \in Tokens
    BY DEF CacheInv, TypeInv, RequestIsYoung
  <2>2. token.aud = Audience[endpoint]
    BY <2>1, KeyOfEndpoint DEF CacheInv, KeptForAudience, RequestIsYoung
  <2>3. /\ token.exp \in Nat /\ now \in Nat /\ since \in Nat
        /\ Flight \in Nat /\ Skew \in Nat /\ Flight < Skew
    BY <2>1, VapidCacheAssumption DEF VapidCacheAssumption, Tokens, CacheInv, TypeInv
  <2>4. since + Skew < token.exp /\ now <= since + Flight
    BY DEF CacheInv, RequestIsYoung
  <2> QED
    BY <2>2, <2>3, <2>4
<1> QED
  BY <1>1, CacheInvariance, PTL

\* The tokens a push service sees change no sooner than a lifetime less the
\* skew after they were signed (auth.go:95).
THEOREM ChangeSlowly == VCSpec => TokensChangeSlowly
<1>1. CacheInv /\ [VCNext]_vcVars =>
        [\A a \in Audiences :
            seen[a] # None /\ seen'[a] # seen[a] =>
                seen'[a].exp + Skew >= seen[a].exp + Lifetime]_vcVars
  <2> SUFFICES ASSUME CacheInv, [VCNext]_vcVars,
                      NEW a \in Audiences, seen[a] # None, seen'[a] # seen[a]
               PROVE  seen'[a].exp + Skew >= seen[a].exp + Lifetime
    OBVIOUS
  <2>1. Arrive
    BY DEF VCNext, vcVars, Tick, Abandon, Authorize
  <2>2. endpoint \in Endpoints /\ token \in Tokens /\ seen[a] \in Tokens
    BY <2>1 DEF CacheInv, TypeInv, RequestIsYoung, Arrive
  <2>3. a = Audience[endpoint] /\ seen'[a] = token
    BY <2>1 DEF Arrive, CacheInv, TypeInv
  <2>4. seen'[a] = cache[a]
    BY <2>1, <2>3 DEF Arrive, CacheInv, RequestIsYoung
  <2>5. seen[a].exp + Lifetime <= seen'[a].exp + Skew
    BY <2>4 DEF CacheInv, SeenIsOlder
  <2>6. /\ seen[a].exp \in Nat /\ seen'[a].exp \in Nat
        /\ Lifetime \in Nat /\ Skew \in Nat
    BY <2>2, <2>3, VapidCacheAssumption DEF VapidCacheAssumption, Tokens
  <2> QED
    BY <2>5, <2>6
<1> QED
  BY <1>1, CacheInvariance, PTL DEF VCSpec, TokensChangeSlowly

-----------------------------------------------------------------------------
(* Trees of errors.                                                        *)

\* A tree has a node at its root, and a node with nothing below it.
IsTree(e) ==
    /\ DOMAIN e \subseteq Seq(Nat)
    /\ e # Nil => <<>> \in DOMAIN e /\ Leaves(e) # {}

\* The path of a node below the i-th child.
LEMMA PathBelow ==
  ASSUME NEW i \in Nat, NEW q \in Seq(Nat)
  PROVE  LET p == <<i>> \o q IN
         /\ p \in Seq(Nat) /\ p # <<>> /\ Head(p) = i /\ Tail(p) = q
         /\ Append(p, 1) = <<i>> \o Append(q, 1)
<1> DEFINE p == <<i>> \o q
<1>1. <<i>> \in Seq(Nat) /\ Len(<<i>>) = 1 /\ <<i>>[1] = i
  OBVIOUS
<1>2. /\ p \in Seq(Nat) /\ Len(p) = 1 + Len(q)
      /\ \A k \in 1..(1 + Len(q)) : p[k] = IF k <= 1 THEN <<i>>[k] ELSE q[k - 1]
  BY <1>1, ConcatProperties
<1>3. Len(q) \in Nat
  BY LenProperties
<1>4. p # <<>>
  <2>1. Len(p) # 0
    BY <1>2, <1>3
  <2> HIDE DEF p
  <2> QED
    BY <1>2, <2>1, EmptySeq
<1>5. Head(p) = i
  <2>1. p[1] = i
    BY <1>1, <1>2, <1>3
  <2> HIDE DEF p
  <2> QED
    BY <1>2, <1>4, <2>1, HeadTailProperties
<1>6. Tail(p) = q
  <2>1. \A k \in 1..Len(q) : p[k + 1] = q[k]
    BY <1>2, <1>3
  <2> HIDE DEF p
  <2>2. /\ Tail(p) \in Seq(Nat) /\ Len(Tail(p)) = Len(p) - 1
        /\ \A k \in 1..Len(Tail(p)) : Tail(p)[k] = p[k + 1]
    BY <1>2, <1>4, HeadTailProperties
  <2>3. Len(Tail(p)) = Len(q)
    BY <1>2, <1>3, <2>2
  <2> QED
    BY <2>1, <2>2, <2>3, SeqEqual
<1>7. Append(p, 1) = <<i>> \o Append(q, 1)
  <2>1. Append(p, 1) = p \o <<1>> /\ Append(q, 1) = q \o <<1>> /\ <<1>> \in Seq(Nat)
    BY <1>2, AppendIsConcat
  <2> QED
    BY <1>1, <2>1, ConcatAssociative
<1> QED
  BY <1>2, <1>4, <1>5, <1>6, <1>7

\* Nil has no leaf.
LEMMA NilLeaves == IsTree(Nil) /\ Leaves(Nil) = {} /\ DOMAIN Nil = {}
BY DEF Nil, Leaves, IsTree

\* A leaf by itself.
LEMMA LeafLeaves ==
  ASSUME NEW x
  PROVE  IsTree(Leaf(x)) /\ Leaves(Leaf(x)) = {x} /\ Leaf(x) # Nil
<1> DEFINE e == Leaf(x)
<1>1. DOMAIN e = {<<>>} /\ e[<<>>] = x
  BY DEF Leaf
<1> HIDE DEF e
<1>2. <<>> \in Seq(Nat)
  BY EmptySeq
<1>3. Append(<<>>, 1) # <<>>
  BY <1>2, AppendProperties
<1>4. {q \in DOMAIN e : Append(q, 1) \notin DOMAIN e} = {<<>>}
  BY <1>1, <1>3
<1>5. Leaves(e) = {x}
  BY <1>1, <1>4 DEF Leaves
<1>6. e # Nil
  BY <1>1, NilLeaves
<1> QED
  BY <1>1, <1>2, <1>5, <1>6 DEF IsTree, e

\* What lies over trees has their leaves.
LEMMA OverLeaves ==
  ASSUME NEW x, NEW errs, NEW n \in Nat \ {0}, DOMAIN errs = 1..n,
         \A i \in 1..n : IsTree(errs[i]) /\ errs[i] # Nil
  PROVE  /\ IsTree(Over(x, errs)) /\ Over(x, errs) # Nil
         /\ Leaves(Over(x, errs)) = UNION {Leaves(errs[i]) : i \in 1..n}
<1> DEFINE e == Over(x, errs)
           Below == UNION {{<<i>> \o q : q \in DOMAIN errs[i]} : i \in 1..n}
<1>1. DOMAIN e = {<<>>} \cup Below
  BY DEF Over
<1>2. \A p \in DOMAIN e : p # <<>> => e[p] = errs[Head(p)][Tail(p)]
  BY DEF Over
<1> HIDE DEF e
<1>3. ASSUME NEW i \in 1..n, NEW q \in DOMAIN errs[i]
      PROVE  /\ <<i>> \o q \in Below
             /\ <<i>> \o q \in Seq(Nat) /\ <<i>> \o q # <<>>
             /\ e[<<i>> \o q] = errs[i][q]
             /\ Append(<<i>> \o q, 1) = <<i>> \o Append(q, 1)
  <2>1. i \in Nat /\ q \in Seq(Nat)
    BY DEF IsTree
  <2>2. <<i>> \o q \in Below
    OBVIOUS
  <2> DEFINE p == <<i>> \o q
  <2>3. p \in Seq(Nat) /\ p # <<>> /\ Head(p) = i /\ Tail(p) = q /\ Append(p, 1) = <<i>> \o Append(q, 1)
    BY <2>1, PathBelow
  <2> HIDE DEF p, Below
  <2>4. p \in DOMAIN e
    BY <1>1, <2>2 DEF p
  <2>5. e[p] = errs[i][q]
    BY <1>2, <2>3, <2>4
  <2> QED
    BY <2>2, <2>3, <2>5 DEF p
<1>4. \A p \in Below : \E i \in 1..n : \E q \in DOMAIN errs[i] : p = <<i>> \o q
  OBVIOUS
<1>5. ASSUME NEW i \in 1..n, NEW q \in DOMAIN errs[i]
      PROVE  Append(<<i>> \o q, 1) \in DOMAIN e <=> Append(q, 1) \in DOMAIN errs[i]
  <2>1. i \in Nat /\ q \in Seq(Nat) /\ Append(q, 1) \in Seq(Nat)
    BY AppendProperties DEF IsTree
  <2>2. Append(<<i>> \o q, 1) = <<i>> \o Append(q, 1)
    BY <1>3
  <2> DEFINE p == <<i>> \o Append(q, 1)
  <2>3. p # <<>> /\ Head(p) = i /\ Tail(p) = Append(q, 1)
    BY <2>1, PathBelow
  <2>4. ASSUME p \in DOMAIN e
        PROVE  Append(q, 1) \in DOMAIN errs[i]
    <3>1. p \in Below
      BY <1>1, <2>3, <2>4
    <3>2. PICK j \in 1..n : \E r \in DOMAIN errs[j] : p = <<j>> \o r
      BY <1>4, <3>1
    <3>3. PICK r \in DOMAIN errs[j] : p = <<j>> \o r
      BY <3>2
    <3>4. j \in Nat /\ r \in Seq(Nat)
      BY DEF IsTree
    <3>5. Head(<<j>> \o r) = j /\ Tail(<<j>> \o r) = r
      BY <3>4, PathBelow
    <3> HIDE DEF p
    <3> QED
      BY <2>3, <3>3, <3>5
  <2>5. ASSUME Append(q, 1) \in DOMAIN errs[i]
        PROVE  p \in DOMAIN e
    BY <1>1, <1>3, <2>5
  <2> QED
    BY <2>2, <2>4, <2>5
<1>6. Append(<<>>, 1) \in DOMAIN e
  <2>1. 1 \in 1..n
    OBVIOUS
  <2>2. <<>> \in DOMAIN errs[1]
    BY <2>1 DEF IsTree
  <2>3. <<1>> \o <<>> \in DOMAIN e
    BY <1>1, <1>3, <2>1, <2>2
  <2>4. <<1>> \in Seq(Nat) /\ <<>> \in Seq(Nat)
    BY EmptySeq
  <2>5. <<1>> \o <<>> = <<1>> /\ Append(<<>>, 1) = <<>> \o <<1>> /\ <<>> \o <<1>> = <<1>>
    BY <2>4, AppendIsConcat, ConcatEmptySeq
  <2> QED
    BY <2>3, <2>5
<1>7. Leaves(e) \subseteq UNION {Leaves(errs[i]) : i \in 1..n}
  <2> SUFFICES ASSUME NEW p \in DOMAIN e, Append(p, 1) \notin DOMAIN e
               PROVE  \E i \in 1..n : e[p] \in Leaves(errs[i])
    BY DEF Leaves
  <2>1. p \in Below
    BY <1>1, <1>6
  <2>2. PICK i \in 1..n : \E q \in DOMAIN errs[i] : p = <<i>> \o q
    BY <1>4, <2>1
  <2>3. PICK q \in DOMAIN errs[i] : p = <<i>> \o q
    BY <2>2
  <2>4. Append(q, 1) \notin DOMAIN errs[i] /\ e[p] = errs[i][q]
    BY <1>3, <1>5, <2>3
  <2> QED
    BY <2>4 DEF Leaves
<1>8. ASSUME NEW i \in 1..n
      PROVE  Leaves(errs[i]) \subseteq Leaves(e)
  <2> SUFFICES ASSUME NEW q \in DOMAIN errs[i], Append(q, 1) \notin DOMAIN errs[i]
               PROVE  errs[i][q] \in Leaves(e)
    BY DEF Leaves
  <2> DEFINE p == <<i>> \o q
  <2>1. p \in DOMAIN e /\ e[p] = errs[i][q] /\ Append(p, 1) \notin DOMAIN e
    BY <1>1, <1>3, <1>5
  <2> HIDE DEF p
  <2> QED
    BY <2>1 DEF Leaves
<1>9. Leaves(e) = UNION {Leaves(errs[i]) : i \in 1..n}
  BY <1>7, <1>8
<1>10. DOMAIN e \subseteq Seq(Nat)
  <2>1. <<>> \in Seq(Nat)
    BY EmptySeq
  <2>2. ASSUME NEW p \in Below
        PROVE  p \in Seq(Nat)
    <3>1. PICK i \in 1..n : \E q \in DOMAIN errs[i] : p = <<i>> \o q
      BY <1>4
    <3>2. PICK q \in DOMAIN errs[i] : p = <<i>> \o q
      BY <3>1
    <3>3. <<i>> \o q \in Seq(Nat)
      BY <1>3
    <3> QED
      BY <3>2, <3>3
  <2> HIDE DEF Below
  <2> QED
    BY <1>1, <2>1, <2>2
<1>11. Leaves(e) # {}
  <2>1. 1 \in 1..n
    OBVIOUS
  <2>2. Leaves(errs[1]) # {}
    BY <2>1 DEF IsTree
  <2> QED
    BY <1>8, <2>1, <2>2
<1>12. e # Nil
  BY <1>1, NilLeaves
<1> QED
  BY <1>1, <1>9, <1>10, <1>11, <1>12 DEF IsTree, e

\* What wraps one error, or joins one.
LEMMA OverOne ==
  ASSUME NEW x, NEW e, IsTree(e), e # Nil
  PROVE  /\ IsTree(Over(x, <<e>>)) /\ Over(x, <<e>>) # Nil
         /\ Leaves(Over(x, <<e>>)) = Leaves(e)
<1> DEFINE errs == <<e>>
           n == 1
<1>1. DOMAIN errs = 1..n /\ \A i \in 1..n : errs[i] = e
  OBVIOUS
<1>2. n \in Nat \ {0} /\ n \in 1..n
  OBVIOUS
<1> HIDE DEF errs, n
<1>3. \A i \in 1..n : IsTree(errs[i]) /\ errs[i] # Nil
  BY <1>1
<1>4. /\ IsTree(Over(x, errs)) /\ Over(x, errs) # Nil
      /\ Leaves(Over(x, errs)) = UNION {Leaves(errs[i]) : i \in 1..n}
  BY <1>1, <1>2, <1>3, OverLeaves
<1>5. UNION {Leaves(errs[i]) : i \in 1..n} = Leaves(e)
  BY <1>1, <1>2
<1> QED
  BY <1>4, <1>5 DEF errs

\* fmt.Errorf keeps the leaves of what it wraps.
LEMMA WrapLeaves ==
  ASSUME NEW e, IsTree(e), e # Nil
  PROVE  IsTree(Wrap(e)) /\ Wrap(e) # Nil /\ Leaves(Wrap(e)) = Leaves(e)
BY OverOne DEF Wrap

\* errors.Join has the leaves of both, and is nil only if both are.
LEMMA JoinLeaves ==
  ASSUME NEW e, NEW f, IsTree(e), IsTree(f)
  PROVE  /\ IsTree(Join(e, f))
         /\ Leaves(Join(e, f)) = Leaves(e) \cup Leaves(f)
         /\ Join(e, f) = Nil <=> e = Nil /\ f = Nil
<1> DEFINE x == [kind |-> "join"]
<1>1. CASE e = Nil /\ f = Nil
  <2>1. Join(e, f) = Nil
    BY <1>1 DEF Join
  <2> QED
    BY <1>1, <2>1, NilLeaves
<1>2. CASE e = Nil /\ f # Nil
  <2>1. Join(e, f) = Over(x, <<f>>)
    BY <1>2 DEF Join
  <2> HIDE DEF x
  <2>2. /\ IsTree(Over(x, <<f>>)) /\ Over(x, <<f>>) # Nil
        /\ Leaves(Over(x, <<f>>)) = Leaves(f)
    BY <1>2, OverOne
  <2> QED
    BY <1>2, <2>1, <2>2, NilLeaves
<1>3. CASE e # Nil /\ f = Nil
  <2>1. Join(e, f) = Over(x, <<e>>)
    BY <1>3 DEF Join
  <2> HIDE DEF x
  <2>2. /\ IsTree(Over(x, <<e>>)) /\ Over(x, <<e>>) # Nil
        /\ Leaves(Over(x, <<e>>)) = Leaves(e)
    BY <1>3, OverOne
  <2> QED
    BY <1>3, <2>1, <2>2, NilLeaves
<1>4. CASE e # Nil /\ f # Nil
  <2> DEFINE errs == <<e, f>>
           n == 2
  <2>1. DOMAIN errs = 1..n /\ errs[1] = e /\ errs[2] = f /\ Join(e, f) = Over(x, errs)
    BY <1>4 DEF Join
  <2>2. n \in Nat \ {0} /\ 1..n = {1, 2}
    OBVIOUS
  <2> HIDE DEF x, errs, n
  <2>3. \A i \in 1..n : IsTree(errs[i]) /\ errs[i] # Nil
    BY <1>4, <2>1, <2>2
  <2>4. /\ IsTree(Over(x, errs)) /\ Over(x, errs) # Nil
        /\ Leaves(Over(x, errs)) = UNION {Leaves(errs[i]) : i \in 1..n}
    BY <2>1, <2>2, <2>3, OverLeaves
  <2> QED
    BY <1>4, <2>1, <2>2, <2>4
<1> QED
  BY <1>1, <1>2, <1>3, <1>4

-----------------------------------------------------------------------------
(* A dispatch: what has gone wrong in it and the leaves of its errors.     *)

Temporary == Refused(Channel, FALSE)
Permanent == Refused(Channel, TRUE)
Other == [kind |-> "plain"]

\* The leaf that each kind of failure leaves.
Cause(f) == CASE f = "permanent" -> Permanent
              [] f = "temporary" -> Temporary
              [] OTHER -> Other

Kinds == {"plain", "permanent", "temporary"}

\* Between two calls of Send there is no error of the provider.
NoneBetweenSends == pc \notin {"push", "request", "delete"} => pushErr = Nil

\* Every failure has left its leaf in the error of the provider or in that of
\* the dispatch, and there is no other leaf.
LeavesExplain ==
    /\ failures \subseteq Kinds
    /\ Leaves(sendErr) \cup Leaves(pushErr) = {Cause(f) : f \in failures}

VerdictInv ==
    /\ IsTree(sendErr) /\ IsTree(pushErr)
    /\ NoneBetweenSends
    /\ LeavesExplain

\* One kind of failure more, one leaf more.
LEMMA OneMoreCause ==
  ASSUME NEW S \in SUBSET Kinds, NEW f \in Kinds
  PROVE  {Cause(g) : g \in S \cup {f}} = {Cause(g) : g \in S} \cup {Cause(f)}
OBVIOUS

\* The causes are three, so that the leaves tell the kinds of failure apart.
LEMMA CausesDiffer ==
  \A f, g \in Kinds : Cause(f) = Cause(g) => f = g
<1>1. Permanent.kind = "send" /\ Temporary.kind = "send" /\ Other.kind = "plain"
  BY DEF Permanent, Temporary, Other, Refused
<1>2. Permanent.permanent = TRUE /\ Temporary.permanent = FALSE
  BY DEF Permanent, Temporary, Refused
<1>3. Permanent # Other /\ Temporary # Other
  BY <1>1
<1>4. Permanent # Temporary
  BY <1>2
<1> QED
  BY <1>3, <1>4 DEF Cause, Kinds

\* An error that is no SendError leaves its leaf in the error of the dispatch.
LEMMA FailsKeeps ==
  ASSUME VerdictInv, NEW e, IsTree(e), Leaves(e) = {Other}, Fails(e), pushErr' = pushErr
  PROVE  IsTree(sendErr') /\ IsTree(pushErr') /\ LeavesExplain'
<1>1. sendErr' = Join(sendErr, e) /\ failures' = failures \cup {"plain"}
  BY DEF Fails
<1>2. IsTree(sendErr') /\ Leaves(sendErr') = Leaves(sendErr) \cup {Other}
  BY <1>1, JoinLeaves DEF VerdictInv
<1>3. failures \subseteq Kinds /\ Leaves(sendErr) \cup Leaves(pushErr) = {Cause(f) : f \in failures}
  BY DEF VerdictInv, LeavesExplain
<1>4. "plain" \in Kinds /\ Cause("plain") = Other
  BY DEF Kinds, Cause
<1>5. {Cause(f) : f \in failures'} = {Cause(f) : f \in failures} \cup {Other}
  BY <1>1, <1>3, <1>4, OneMoreCause
<1>6. Leaves(sendErr') \cup Leaves(pushErr') = {Cause(f) : f \in failures'}
  BY <1>2, <1>3, <1>5
<1>7. failures' \subseteq Kinds
  BY <1>1, <1>3, <1>4
<1>8. LeavesExplain'
  BY <1>6, <1>7 DEF LeavesExplain
<1> QED
  BY <1>2, <1>8 DEF VerdictInv

\* A push that fails leaves its leaf in the error of the provider.
LEMMA PushFailureKeeps ==
  ASSUME VerdictInv, NEW permanent \in BOOLEAN, PushFailure(permanent), sendErr' = sendErr
  PROVE  IsTree(sendErr') /\ IsTree(pushErr') /\ LeavesExplain'
<1> DEFINE kind == IF permanent THEN "permanent" ELSE "temporary"
           e == SendError(Channel, permanent)
<1>1. pushErr' = Join(pushErr, e) /\ failures' = failures \cup {kind}
  BY DEF PushFailure
<1>2. IsTree(e) /\ Leaves(e) = {Refused(Channel, permanent)}
  BY LeafLeaves DEF SendError
<1>3. kind \in Kinds /\ Cause(kind) = Refused(Channel, permanent)
  <2>1. CASE permanent = TRUE
    BY <2>1 DEF Kinds, Cause, Permanent
  <2>2. CASE permanent = FALSE
    BY <2>2 DEF Kinds, Cause, Temporary
  <2> QED
    BY <2>1, <2>2
<1> HIDE DEF kind, e
<1>4. IsTree(pushErr') /\ Leaves(pushErr') = Leaves(pushErr) \cup {Cause(kind)}
  BY <1>1, <1>2, <1>3, JoinLeaves DEF VerdictInv
<1>5. failures \subseteq Kinds /\ Leaves(sendErr) \cup Leaves(pushErr) = {Cause(f) : f \in failures}
  BY DEF VerdictInv, LeavesExplain
<1>6. {Cause(f) : f \in failures'} = {Cause(f) : f \in failures} \cup {Cause(kind)}
  BY <1>1, <1>3, <1>5, OneMoreCause
<1>7. Leaves(sendErr') \cup Leaves(pushErr') = {Cause(f) : f \in failures'}
  BY <1>4, <1>5, <1>6
<1>8. failures' \subseteq Kinds
  BY <1>1, <1>3, <1>5
<1>9. LeavesExplain'
  BY <1>7, <1>8 DEF LeavesExplain
<1> QED
  BY <1>4, <1>9 DEF VerdictInv

\* Init has the invariant: nothing has gone wrong.
LEMMA VerdictInitially == Init => VerdictInv
BY NilLeaves DEF Init, VerdictInv, NoneBetweenSends, LeavesExplain

\* A failure outside web push: of the preferences, the site or the query.
LEMMA PlainTrees ==
  /\ IsTree(Wrap(Plain)) /\ Leaves(Wrap(Plain)) = {Other}
  /\ IsTree(Wrap(Wrap(Plain))) /\ Leaves(Wrap(Wrap(Plain))) = {Other}
<1>1. IsTree(Plain) /\ Plain # Nil /\ Leaves(Plain) = {Other}
  BY LeafLeaves DEF Plain, Other
<1>2. IsTree(Wrap(Plain)) /\ Wrap(Plain) # Nil /\ Leaves(Wrap(Plain)) = {Other}
  BY <1>1, WrapLeaves
<1> QED
  BY <1>2, WrapLeaves

\* Each step keeps the invariant.
LEMMA VerdictStep == VerdictInv /\ [Next]_vars => VerdictInv'
<1> SUFFICES ASSUME VerdictInv, [Next]_vars PROVE VerdictInv'
  OBVIOUS
<1>s. IsTree(sendErr) /\ IsTree(pushErr) /\ NoneBetweenSends /\ LeavesExplain
  BY DEF VerdictInv
<1>u. UNCHANGED <<sendErr, pushErr, failures>> =>
         IsTree(sendErr') /\ IsTree(pushErr') /\ LeavesExplain'
  BY <1>s DEF LeavesExplain
<1>1. CASE UNCHANGED jobVars
  BY <1>1, <1>s, <1>u DEF jobVars, VerdictInv, NoneBetweenSends
<1>2. CASE Begin
  <2>1. pushErr = Nil /\ pushErr' = Nil /\ sendErr' = Nil /\ failures' = {}
    BY <1>2, <1>s DEF Begin, NoneBetweenSends
  <2> QED
    BY <2>1, NilLeaves DEF VerdictInv, NoneBetweenSends, LeavesExplain
<1>3. CASE Settle
  <2>1. pushErr = Nil /\ pushErr' = Nil /\ sendErr' = Nil /\ failures' = {}
    BY <1>3, <1>s DEF Settle, NoneBetweenSends
  <2> QED
    BY <2>1, NilLeaves DEF VerdictInv, NoneBetweenSends, LeavesExplain
<1>4. ASSUME NEW u \in Recipients, NextRecipient(u)
      PROVE  VerdictInv'
  <2>1. pushErr' = pushErr /\ pushErr = Nil
    BY <1>4, <1>s DEF NextRecipient, NoneBetweenSends
  <2>2. UNCHANGED <<sendErr, failures>> \/ Fails(Wrap(Plain))
    BY <1>4 DEF NextRecipient
  <2>3. IsTree(sendErr') /\ IsTree(pushErr') /\ LeavesExplain'
    BY <2>1, <2>2, <1>u, PlainTrees, FailsKeeps
  <2> QED
    BY <2>1, <2>3 DEF VerdictInv, NoneBetweenSends
<1>5. CASE SiteSend \/ List
  <2>1. pushErr' = pushErr /\ pushErr = Nil
    BY <1>5, <1>s DEF SiteSend, List, NoneBetweenSends
  <2>2. UNCHANGED <<sendErr, failures>> \/ Fails(Wrap(Wrap(Plain)))
    BY <1>5 DEF SiteSend, List
  <2>3. IsTree(sendErr') /\ IsTree(pushErr') /\ LeavesExplain'
    BY <2>1, <2>2, <1>u, PlainTrees, FailsKeeps
  <2> QED
    BY <2>1, <2>3 DEF VerdictInv, NoneBetweenSends
<1>6. ASSUME NEW e \in Endpoints, Push(e)
      PROVE  VerdictInv'
  BY <1>6, <1>u DEF Push, VerdictInv, NoneBetweenSends
<1>7. ASSUME NEW e \in Endpoints, PushUnsent(e)
      PROVE  VerdictInv'
  <2>1. PushFailure(FALSE) /\ sendErr' = sendErr /\ pc' = "push"
    BY <1>7 DEF PushUnsent
  <2>2. IsTree(sendErr') /\ IsTree(pushErr') /\ LeavesExplain'
    BY <2>1, PushFailureKeeps
  <2> QED
    BY <2>1, <2>2 DEF VerdictInv, NoneBetweenSends
<1>8. ASSUME NEW s \in Statuses, NEW r \in {"", "TooManyProviderTokenUpdates"}, Answer(s, r)
      PROVE  VerdictInv'
  <2> DEFINE permanent == isPermanentWebPushFailure(s, r)
  <2>1. permanent \in BOOLEAN
    BY DEF isPermanentWebPushFailure
  <2>2. /\ sendErr' = sendErr /\ pc' \in {"push", "delete"}
        /\ UNCHANGED <<pushErr, failures>> \/ PushFailure(permanent)
    <3>1. CASE s \in {404, 410}
      BY <1>8, <3>1 DEF Answer
    <3>2. CASE s \notin {404, 410} /\ s \in 200..299
      BY <1>8, <3>2 DEF Answer
    <3>3. CASE s \notin {404, 410} /\ s \notin 200..299
      BY <1>8, <3>3 DEF Answer
    <3> QED
      BY <3>1, <3>2, <3>3
  <2> HIDE DEF permanent
  <2>3. IsTree(sendErr') /\ IsTree(pushErr') /\ LeavesExplain'
    BY <2>1, <2>2, <1>u, PushFailureKeeps
  <2> QED
    BY <2>2, <2>3 DEF VerdictInv, NoneBetweenSends
<1>9. CASE NoAnswer \/ DeleteSub
  <2>1. /\ sendErr' = sendErr /\ pc' = "push"
        /\ UNCHANGED <<pushErr, failures>> \/ PushFailure(FALSE)
    BY <1>9 DEF NoAnswer, DeleteSub
  <2>2. IsTree(sendErr') /\ IsTree(pushErr') /\ LeavesExplain'
    BY <2>1, <1>u, PushFailureKeeps
  <2> QED
    BY <2>1, <2>2 DEF VerdictInv, NoneBetweenSends
<1>10. CASE SendReturns
  <2>1. pushErr' = Nil /\ failures' = failures
    BY <1>10 DEF SendReturns
  <2>2. IsTree(sendErr') /\ Leaves(sendErr') = Leaves(sendErr) \cup Leaves(pushErr)
    <3>1. CASE pushErr = Nil
      BY <1>10, <1>s, <3>1, NilLeaves DEF SendReturns
    <3>2. CASE pushErr # Nil
      <4>1. sendErr' = Join(sendErr, Wrap(pushErr))
        BY <1>10, <3>2 DEF SendReturns
      <4>2. IsTree(Wrap(pushErr)) /\ Leaves(Wrap(pushErr)) = Leaves(pushErr)
        BY <1>s, <3>2, WrapLeaves
      <4> QED
        BY <1>s, <4>1, <4>2, JoinLeaves
    <3> QED
      BY <3>1, <3>2
  <2>3. LeavesExplain'
    BY <1>s, <2>1, <2>2, NilLeaves DEF LeavesExplain
  <2> QED
    BY <2>1, <2>2, <2>3, NilLeaves DEF VerdictInv, NoneBetweenSends
<1>11. CASE DispatchReturns
  BY <1>11, <1>s, <1>u DEF DispatchReturns, VerdictInv, NoneBetweenSends
<1>12. CASE UNCHANGED vars
  BY <1>1, <1>12 DEF vars
<1> QED
  BY <1>1, <1>2, <1>3, <1>4, <1>5, <1>6, <1>7, <1>8, <1>9, <1>10, <1>11, <1>12 DEF Next

\* The inductive invariant holds of every behaviour: the leaves of the errors
\* are what has gone wrong in the dispatch, at each of its steps.
THEOREM VerdictInvariance == Spec => []VerdictInv
<1> QED
  BY VerdictInitially, VerdictStep, PTL DEF Spec

\* The consumer's decision is right: IsPermanentChannelOnly, which walks the
\* tree of joined and wrapped errors, is true exactly if the push services have
\* refused something for good and nothing else has failed.
THEOREM VerdictsAreExact == Spec => []VerdictIsExact
<1>1. VerdictInv => VerdictIsExact
  <2> SUFFICES ASSUME VerdictInv, pc = "done"
               PROVE  /\ sendErr = Nil <=> failures = {}
                      /\ IsPermanentChannelOnly(sendErr, Channel) <=> failures = {"permanent"}
    BY DEF VerdictIsExact
  <2>1. pushErr = Nil
    BY DEF VerdictInv, NoneBetweenSends
  <2>2. failures \subseteq Kinds /\ Leaves(sendErr) = {Cause(f) : f \in failures}
    BY <2>1, NilLeaves DEF VerdictInv, LeavesExplain
  <2>3. sendErr = Nil <=> Leaves(sendErr) = {}
    BY NilLeaves DEF VerdictInv, IsTree
  <2>4. sendErr = Nil <=> failures = {}
    BY <2>2, <2>3
  <2>5. "permanent" \in Kinds /\ Cause("permanent") = Permanent
    BY DEF Kinds, Cause
  <2>6. Leaves(sendErr) = {Permanent} <=> failures = {"permanent"}
    <3>1. ASSUME Leaves(sendErr) = {Permanent} PROVE failures = {"permanent"}
      <4>1. \A f \in failures : Cause(f) = Permanent
        BY <2>2, <3>1
      <4>2. \A f \in failures : f = "permanent"
        BY <2>2, <2>5, <4>1, CausesDiffer
      <4>3. failures # {}
        BY <2>2, <3>1
      <4> QED
        BY <4>2, <4>3
    <3>2. ASSUME failures = {"permanent"} PROVE Leaves(sendErr) = {Permanent}
      BY <2>2, <2>5, <3>2
    <3> QED
      BY <3>1, <3>2
  <2>7. IsPermanentChannelOnly(sendErr, Channel) <=> Leaves(sendErr) = {Permanent}
    BY <2>3 DEF IsPermanentChannelOnly, Permanent
  <2> QED
    BY <2>4, <2>6, <2>7
<1> QED
  BY <1>1, VerdictInvariance, PTL

-----------------------------------------------------------------------------
(* A dispatch uses the cache as its specification allows.                  *)

\* Every step of a dispatch is one of the cache, or leaves the cache alone.
THEOREM ImplementsCache == Spec => VCSpec
<1>1. Init => VCInit
  BY DEF Init
<1>2. [Next]_vars => [VCNext]_vcVars
  BY DEF Next, Begin, Fails, NextRecipient, SiteSend, List, Push, PushUnsent, Answer, NoAnswer,
         DeleteSub, SendReturns, DispatchReturns, Settle, VCNext, vars
<1> QED
  BY <1>1, <1>2, PTL DEF Spec, VCSpec

\* In a dispatch a token is good when it arrives, and what a push service sees
\* changes slowly, as in the cache by itself.
THEOREM TokensInDispatch == Spec => []TokenGoodOnArrival /\ TokensChangeSlowly
BY ImplementsCache, GoodOnArrival, ChangeSlowly, PTL
=============================================================================
