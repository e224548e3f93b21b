---------------------------- MODULE SseHubProofs ----------------------------
(***************************************************************************)
(* Proofs about module SseHub, for any targets, recipients, events,        *)
(* clients, depth of a client's channel and number of lost connections.    *)
(***************************************************************************)
EXTENDS SseHub, TLAPS, SequenceTheorems, FiniteSetTheorems

-----------------------------------------------------------------------------
(* Facts about sequences.                                                  *)

\* A prefix agrees with the sequence at each of its places.
LEMMA PrefixElements ==
  ASSUME NEW A, NEW s \in Seq(A), NEW B, NEW c \in Seq(B)
  PROVE  IsPrefix(s, c) <=> Len(s) <= Len(c) /\ \A i \in 1..Len(s) : s[i] = c[i]
<1> DEFINE n == Len(s)
           x == SubSeq(s, 1, n)
           y == SubSeq(c, 1, n)
<1>1. n \in Nat /\ Len(c) \in Nat
  BY LenProperties
<1>2. \A i \in 1..n : s[i] \in A \cup B
  BY ElementOfSeq
<1>3. 1 \in Int /\ n \in Int
  BY <1>1
<1>4. /\ x \in Seq(A \cup B)
      /\ Len(x) = IF 1 <= n THEN n - 1 + 1 ELSE 0
      /\ \A i \in 1..(n - 1 + 1) : x[i] = s[1 + i - 1]
  <2> HIDE DEF n
  <2> QED
    BY <1>2, <1>3, SubSeqProperties
<1>5. Len(x) = n /\ \A i \in 1..n : x[i] = s[i]
  <2> HIDE DEF n, x
  <2>1. \A i \in 1..n : i \in 1..(n - 1 + 1) /\ 1 + i - 1 = i
    BY <1>1
  <2>2. n - 1 + 1 = n /\ (~(1 <= n) => n = 0)
    BY <1>1
  <2> QED
    BY <1>4, <2>1, <2>2
<1>6. ASSUME n <= Len(c)
      PROVE  y \in Seq(A \cup B) /\ Len(y) = n /\ \A i \in 1..n : y[i] = c[i]
  <2>1. \A i \in 1..n : c[i] \in A \cup B
    <3>1. \A i \in 1..n : i \in 1..Len(c)
      <4> HIDE DEF n
      <4> QED
        BY <1>1, <1>6
    <3> QED
      BY <3>1, ElementOfSeq
  <2>2. /\ y \in Seq(A \cup B)
        /\ Len(y) = IF 1 <= n THEN n - 1 + 1 ELSE 0
        /\ \A i \in 1..(n - 1 + 1) : y[i] = c[1 + i - 1]
    <3> HIDE DEF n
    <3> QED
      BY <1>3, <2>1, SubSeqProperties
  <2> HIDE DEF n, y
  <2>3. \A i \in 1..n : i \in 1..(n - 1 + 1) /\ 1 + i - 1 = i
    BY <1>1
  <2>4. n - 1 + 1 = n /\ (~(1 <= n) => n = 0)
    BY <1>1
  <2> QED
    BY <2>2, <2>3, <2>4
<1>7. IsPrefix(s, c) <=> n <= Len(c) /\ x = y
  BY DEF IsPrefix
<1>8. ASSUME n <= Len(c)
      PROVE  x = y <=> \A i \in 1..n : s[i] = c[i]
  <2>1. x = y => \A i \in 1..n : s[i] = c[i]
    <3> HIDE DEF n, x, y
    <3> QED
      BY <1>5, <1>6, <1>8
  <2>2. ASSUME \A i \in 1..n : s[i] = c[i]
        PROVE  x = y
    <3>1. Len(x) = Len(y) /\ \A i \in 1..Len(x) : x[i] = y[i]
      <4> HIDE DEF n, x, y
      <4> QED
        BY <1>5, <1>6, <1>8, <2>2
    <3> HIDE DEF n, x, y
    <3> QED
      BY <1>4, <1>6, <1>8, <3>1, SeqEqual
  <2> QED
    BY <2>1, <2>2
<1> HIDE DEF x, y
<1> QED
  BY <1>7, <1>8

\* The constants are strings: sequences of letters that are not empty.
LEMMA Strings ==
  /\ \A t \in Targets : Prefix[t] \in Seq(Letters) /\ Len(Prefix[t]) \in Nat
  /\ \A u \in Subjects : u \in Seq(Letters) /\ Len(u) \in Nat /\ u # <<>>
<1>1. \A t \in Targets : Prefix[t] \in Seq(Letters)
  BY SseHubAssumption DEF SseHubAssumption
<1>2. \A u \in Subjects : u \in Seq(Letters) /\ u # <<>>
  BY SseHubAssumption DEF SseHubAssumption
<1> QED
  BY <1>1, <1>2, LenProperties

\* A Redis channel is the prefix of its target followed by the recipient.
LEMMA ChannelElements ==
  ASSUME NEW t \in Targets, NEW u \in Subjects
  PROVE  /\ RedisChannel(t, u) \in Seq(Letters)
         /\ Len(RedisChannel(t, u)) = Len(Prefix[t]) + Len(u)
         /\ \A i \in 1..Len(Prefix[t]) + Len(u) :
               RedisChannel(t, u)[i] =
                 IF i <= Len(Prefix[t]) THEN Prefix[t][i] ELSE u[i - Len(Prefix[t])]
<1> DEFINE p == Prefix[t]
<1>1. p \in Seq(Letters) /\ u \in Seq(Letters)
  BY Strings
<1> HIDE DEF p
<1>2. /\ p \o u \in Seq(Letters) /\ Len(p \o u) = Len(p) + Len(u)
      /\ \A i \in 1..Len(p) + Len(u) :
            (p \o u)[i] = IF i <= Len(p) THEN p[i] ELSE u[i - Len(p)]
  BY <1>1, ConcatProperties
<1> QED
  BY <1>2 DEF RedisChannel, p

\* What follows the prefix and the first k letters of the recipient is the rest
\* of the recipient.
LEMMA RestOfChannel ==
  ASSUME NEW t \in Targets, NEW u \in Subjects, NEW k \in 0..Len(u)
  PROVE  SubSeq(RedisChannel(t, u), Len(Prefix[t]) + k + 1, Len(RedisChannel(t, u)))
           = SubSeq(u, k + 1, Len(u))
<1> DEFINE p == Prefix[t]
           n == Len(p)
           l == Len(u)
           a == n + k + 1
           b == n + l
<1>1. p \in Seq(Letters) /\ u \in Seq(Letters) /\ n \in Nat /\ l \in Nat
  BY Strings
<1>2. k \in Nat /\ k <= l
  <2>1. k \in 0..l
    OBVIOUS
  <2> HIDE DEF l
  <2> QED
    BY <1>1, <2>1
<1>3. RedisChannel(t, u) = p \o u /\ Len(RedisChannel(t, u)) = b
  BY ChannelElements DEF RedisChannel
<1> HIDE DEF p, l
<1>4. CASE k < l
  <2>1. a \in n + 1..n + l /\ b \in n + 1..n + l /\ a - n = k + 1 /\ b - n = l
    <3> HIDE DEF n
    <3> QED
      BY <1>1, <1>2, <1>4
  <2> HIDE DEF a, b
  <2>2. SubSeq(p \o u, a, b) = SubSeq(u, a - n, b - n)
    BY <1>1, <2>1, SubSeqOfConcat2 DEF l
  <2> QED
    BY <1>3, <2>1, <2>2 DEF a, p, l
<1>5. CASE k = l
  <2>1. a \in Int /\ b \in Int /\ b < a /\ k + 1 \in Int /\ l \in Int /\ l < k + 1
    <3> HIDE DEF n
    <3> QED
      BY <1>1, <1>2, <1>5
  <2> HIDE DEF a, b
  <2>2. SubSeq(p \o u, a, b) = <<>> /\ SubSeq(u, k + 1, l) = <<>>
    BY <2>1, SubSeqEmpty
  <2> QED
    BY <1>3, <2>2 DEF a, p, l
<1>6. k < l \/ k = l
  BY <1>1, <1>2
<1> QED
  BY <1>4, <1>5, <1>6

\* Which prefixes fit the channel of an address: its own does, and another one
\* agrees with it as far as both go.
LEMMA PrefixFits ==
  ASSUME NEW s \in Targets, NEW t \in Targets, NEW u \in Subjects
  PROVE  /\ IsPrefix(Prefix[s], RedisChannel(t, u)) <=>
              /\ Len(Prefix[s]) <= Len(Prefix[t]) + Len(u)
              /\ \A i \in 1..Len(Prefix[s]) : Prefix[s][i] =
                   IF i <= Len(Prefix[t]) THEN Prefix[t][i] ELSE u[i - Len(Prefix[t])]
         /\ IsPrefix(Prefix[t], RedisChannel(t, u))
<1> DEFINE ch == RedisChannel(t, u)
           n == Len(Prefix[t])
           l == Len(u)
<1>1. n \in Nat /\ l \in Nat
  BY Strings
<1>2. /\ ch \in Seq(Letters) /\ Len(ch) = n + l
      /\ \A i \in 1..n + l : ch[i] = IF i <= n THEN Prefix[t][i] ELSE u[i - n]
  BY ChannelElements
<1> HIDE DEF ch
<1>3. ASSUME NEW r \in Targets
      PROVE  IsPrefix(Prefix[r], ch) <=>
               /\ Len(Prefix[r]) <= n + l
               /\ \A i \in 1..Len(Prefix[r]) :
                     Prefix[r][i] = IF i <= n THEN Prefix[t][i] ELSE u[i - n]
  <2> DEFINE m == Len(Prefix[r])
  <2>1. Prefix[r] \in Seq(Letters) /\ m \in Nat
    BY Strings
  <2> HIDE DEF n, l, m
  <2>2. IsPrefix(Prefix[r], ch) <=> m <= Len(ch) /\ \A i \in 1..m : Prefix[r][i] = ch[i]
    <3> DEFINE P == Prefix[r]
    <3>1. P \in Seq(Letters) /\ ch \in Seq(Letters)
      BY <1>2, <2>1
    <3> HIDE DEF P
    <3>2. IsPrefix(P, ch) <=> Len(P) <= Len(ch) /\ \A i \in 1..Len(P) : P[i] = ch[i]
      BY <3>1, PrefixElements
    <3> QED
      BY <3>2 DEF P, m
  <2>3. m <= n + l => \A i \in 1..m : i \in 1..n + l
    BY <1>1, <2>1
  <2> QED
    BY <1>2, <2>2, <2>3 DEF m
<1>4. n <= n + l /\ \A i \in 1..n : i <= n
  <2> HIDE DEF n, l
  <2> QED
    BY <1>1
<1>5. IsPrefix(Prefix[t], ch)
  BY <1>3, <1>4
<1> QED
  BY <1>3, <1>5 DEF ch

\* Longest, read from the address: its own target unless another prefix as long
\* fits, and no target of a shorter prefix.
LEMMA LongestIs ==
  ASSUME NEW t \in Targets, NEW u \in Subjects
  PROVE  /\ \A s \in Longest(RedisChannel(t, u)) :
               /\ s \in Targets /\ IsPrefix(Prefix[s], RedisChannel(t, u))
               /\ Len(Prefix[t]) <= Len(Prefix[s])
         /\ ~Shadowed(<<t, u>>) => Longest(RedisChannel(t, u)) = {t}
<1> DEFINE ch == RedisChannel(t, u)
<1>1. IsPrefix(Prefix[t], ch)
  BY PrefixFits
<1> HIDE DEF ch
<1>2. \A s \in Longest(ch) :
         s \in Targets /\ IsPrefix(Prefix[s], ch) /\ Len(Prefix[t]) <= Len(Prefix[s])
  BY <1>1 DEF Longest
<1>3. ASSUME ~Shadowed(<<t, u>>)
      PROVE  Longest(ch) = {t}
  <2>1. \A s \in Targets \ {t} : IsPrefix(Prefix[s], ch) => ~(Len(Prefix[s]) >= Len(Prefix[t]))
    BY <1>3 DEF Shadowed, ch
  <2>2. \A s \in Targets \ {t} : IsPrefix(Prefix[s], ch) => Len(Prefix[s]) <= Len(Prefix[t])
    BY <2>1, Strings
  <2>3. t \in Longest(ch)
    BY <1>1, <2>2, Strings DEF Longest
  <2>4. \A s \in Longest(ch) : s = t
    BY <1>2, <2>1, Strings
  <2> QED
    BY <2>3, <2>4
<1> QED
  BY <1>2, <1>3 DEF ch

\* The channel of an address that is not shadowed resolves to the address.
LEMMA ResolvesToOwn ==
  ASSUME NEW t \in Targets, NEW u \in Subjects, ~Shadowed(<<t, u>>)
  PROVE  Resolved(RedisChannel(t, u)) = {<<t, u>>}
<1> DEFINE ch == RedisChannel(t, u)
           n == Len(Prefix[t])
<1>1. Longest(ch) = {t}
  BY LongestIs
<1>2. n \in Nat /\ Len(u) \in Nat /\ u \in Seq(Letters)
  BY Strings
<1>3. SubSeq(ch, n + 1, Len(ch)) = u
  <2>1. 0 \in 0..Len(u) /\ n + 0 + 1 = n + 1 /\ 0 + 1 = 1
    <3> HIDE DEF n
    <3> QED
      BY <1>2
  <2>2. SubSeq(ch, n + 0 + 1, Len(ch)) = SubSeq(u, 0 + 1, Len(u))
    BY <2>1, RestOfChannel
  <2>3. SubSeq(u, 1, Len(u)) = u
    BY <1>2, SubSeqFull
  <2> HIDE DEF ch, n
  <2> QED
    BY <2>1, <2>2, <2>3
<1> HIDE DEF ch
<1>4. Resolved(ch) = {<<t, u>>}
  BY <1>1, <1>3 DEF Resolved
<1> QED
  BY <1>4 DEF ch

\* No two targets have one prefix.
PrefixesDiffer == \A s, t \in Targets : Prefix[s] = Prefix[t] => s = t

\* No recipient is what another has left when letters are cut off its front:
\* so it is with UUIDs that are all spelled in the same form.
SuffixFree ==
    \A u, v \in Subjects : \A k \in 1..Len(u) : SubSeq(u, k + 1, Len(u)) # v

\* Then a channel resolves to no other address: at worst to none.
LEMMA ResolvesToNoOther ==
  ASSUME PrefixesDiffer, SuffixFree, NEW t \in Targets, NEW u \in Subjects,
         NEW a \in Resolved(RedisChannel(t, u)), a \in Addresses
  PROVE  a = <<t, u>>
<1> DEFINE ch == RedisChannel(t, u)
           n == Len(Prefix[t])
           l == Len(u)
<1>1. PICK s \in Longest(ch) : a = <<s, SubSeq(ch, Len(Prefix[s]) + 1, Len(ch))>>
  BY DEF Resolved
<1> DEFINE m == Len(Prefix[s])
           v == SubSeq(ch, m + 1, Len(ch))
<1>2. s \in Targets /\ IsPrefix(Prefix[s], ch) /\ n <= m
  BY LongestIs
<1>3. /\ Prefix[s] \in Seq(Letters) /\ Prefix[t] \in Seq(Letters) /\ u \in Seq(Letters)
      /\ n \in Nat /\ m \in Nat /\ l \in Nat
  BY <1>2, Strings
<1>4. /\ m <= n + l
      /\ \A i \in 1..m : Prefix[s][i] = IF i <= n THEN Prefix[t][i] ELSE u[i - n]
  BY <1>2, PrefixFits
<1>5. v \in Subjects
  BY <1>1 DEF Addresses
<1>6. m - n \in 0..l /\ n + (m - n) + 1 = m + 1
  <2> HIDE DEF n, m, l
  <2> QED
    BY <1>2, <1>3, <1>4
<1>7. v = SubSeq(u, (m - n) + 1, l)
  <2> DEFINE k == m - n
  <2>1. k \in 0..l /\ n + k + 1 = m + 1
    BY <1>6
  <2> HIDE DEF k
  <2>2. SubSeq(ch, n + k + 1, Len(ch)) = SubSeq(u, k + 1, l)
    BY <2>1, RestOfChannel
  <2>3. v = SubSeq(u, k + 1, l)
    BY <2>1, <2>2
  <2> QED
    BY <2>3 DEF k
<1>8. ~(m - n \in 1..l)
  BY <1>5, <1>7 DEF SuffixFree
<1>9. m = n
  <2> HIDE DEF n, m, l
  <2> QED
    BY <1>3, <1>6, <1>8
<1>10. Prefix[s] = Prefix[t]
  <2>1. \A i \in 1..m : Prefix[s][i] = Prefix[t][i]
    <3>1. \A i \in 1..m : i <= n
      <4> HIDE DEF n, m
      <4> QED
        BY <1>3, <1>9
    <3> QED
      BY <1>4, <3>1
  <2> QED
    BY <1>3, <1>9, <2>1, SeqEqual
<1>11. s = t
  BY <1>2, <1>10 DEF PrefixesDiffer
<1>12. v = u
  <2>1. (m - n) + 1 = 1
    <3> HIDE DEF n, m
    <3> QED
      BY <1>3, <1>9
  <2>2. SubSeq(u, 1, l) = u
    BY <1>3, SubSeqFull
  <2> HIDE DEF v, n, m, l
  <2> QED
    BY <1>7, <2>1, <2>2 DEF l
<1> QED
  BY <1>1, <1>11, <1>12

\* With prefixes that differ and all end in one letter that no recipient holds,
\* as the defaults and config.yaml do with ":" and plain UUIDs, no address is
\* shadowed: a prefix that went on into the recipient would end in a letter of
\* it.  NoneSkipped then says that no client at all is skipped.
THEOREM SeparatedPrefixes ==
  ASSUME PrefixesDiffer, NEW sep,
         \A t \in Targets : Prefix[t][Len(Prefix[t])] = sep,
         \A u \in Subjects : \A i \in 1..Len(u) : u[i] # sep
  PROVE  \A a \in Addresses : ~Shadowed(a)
<1> SUFFICES ASSUME NEW t \in Targets, NEW u \in Subjects, NEW s \in Targets, s # t,
                    Len(Prefix[s]) >= Len(Prefix[t]),
                    IsPrefix(Prefix[s], RedisChannel(t, u))
             PROVE  FALSE
  BY DEF Addresses, Shadowed
<1> DEFINE n == Len(Prefix[t])
           m == Len(Prefix[s])
           l == Len(u)
<1>1. /\ Prefix[s] \in Seq(Letters) /\ Prefix[t] \in Seq(Letters)
      /\ n \in Nat /\ m \in Nat /\ l \in Nat /\ n <= m
  BY Strings
<1>2. /\ m <= n + l
      /\ \A i \in 1..m : Prefix[s][i] = IF i <= n THEN Prefix[t][i] ELSE u[i - n]
  BY PrefixFits
<1>3. CASE m = n
  <2>1. \A i \in 1..m : i <= n
    <3> HIDE DEF n, m
    <3> QED
      BY <1>1, <1>3
  <2>2. \A i \in 1..m : Prefix[s][i] = Prefix[t][i]
    BY <1>2, <2>1
  <2>3. Prefix[s] = Prefix[t]
    BY <1>1, <1>3, <2>2, SeqEqual
  <2> QED
    BY <2>3 DEF PrefixesDiffer
<1>4. CASE m # n
  <2>1. m \in 1..m /\ ~(m <= n) /\ m - n \in 1..l
    <3> HIDE DEF n, m, l
    <3> QED
      BY <1>1, <1>2, <1>4
  <2>2. Prefix[s][m] = u[m - n]
    BY <1>2, <2>1
  <2>3. Prefix[s][m] = sep
    OBVIOUS
  <2> HIDE DEF m, n
  <2> QED
    BY <2>1, <2>2, <2>3
<1> QED
  BY <1>3, <1>4

\* A handler that forwards an event leaves what its client is given as it was,
\* and an offer adds one event at the end.
LEMMA ForwardKeepsGiven ==
  ASSUME NEW E, NEW g \in Seq(E), NEW q \in Seq(E), q # <<>>
  PROVE  /\ Append(g, Head(q)) \in Seq(E) /\ Tail(q) \in Seq(E)
         /\ Len(Tail(q)) = Len(q) - 1 /\ Len(q) \in Nat
         /\ Append(g, Head(q)) \o Tail(q) = g \o q
<1>1. /\ Head(q) \in E /\ Tail(q) \in Seq(E) /\ Len(Tail(q)) = Len(q) - 1
      /\ \A i \in 1..Len(Tail(q)) : Tail(q)[i] = q[i + 1]
      /\ Head(q) = q[1] /\ Len(q) \in Nat /\ Len(g) \in Nat
  BY HeadTailProperties, LenProperties
<1> DEFINE h == Append(g, Head(q))
           t == Tail(q)
<1>2. /\ h \in Seq(E) /\ Len(h) = Len(g) + 1
      /\ \A i \in 1..Len(g) : h[i] = g[i]
      /\ h[Len(g) + 1] = Head(q)
  BY <1>1
<1>3. /\ h \o t \in Seq(E) /\ Len(h \o t) = Len(h) + Len(t)
      /\ \A i \in 1..Len(h) + Len(t) :
            (h \o t)[i] = IF i <= Len(h) THEN h[i] ELSE t[i - Len(h)]
  <2> HIDE DEF h, t
  <2> QED
    BY <1>1, <1>2, ConcatProperties DEF t
<1>4. /\ g \o q \in Seq(E) /\ Len(g \o q) = Len(g) + Len(q)
      /\ \A i \in 1..Len(g) + Len(q) :
            (g \o q)[i] = IF i <= Len(g) THEN g[i] ELSE q[i - Len(g)]
  BY ConcatProperties
<1>5. Len(h) + Len(t) = Len(g) + Len(q)
  BY <1>1, <1>2
<1>6. ASSUME NEW i \in 1..Len(g) + Len(q)
      PROVE  (h \o t)[i] = (g \o q)[i]
  <2> HIDE DEF h, t
  <2>1. CASE i <= Len(g)
    BY <1>1, <1>2, <1>3, <1>4, <1>5, <2>1
  <2>2. CASE i = Len(g) + 1
    BY <1>1, <1>2, <1>3, <1>4, <1>5, <2>2
  <2>3. CASE i > Len(g) + 1
    <3>1. i - Len(h) \in 1..Len(t) /\ (i - Len(h)) + 1 = i - Len(g)
      BY <1>1, <1>2, <1>5, <2>3 DEF t
    <3>2. t[i - Len(h)] = q[i - Len(g)]
      BY <1>1, <3>1 DEF t
    <3> QED
      BY <1>1, <1>2, <1>3, <1>4, <1>5, <2>3, <3>2
  <2>4. i <= Len(g) \/ i = Len(g) + 1 \/ i > Len(g) + 1
    <3> DEFINE n == Len(g) + Len(q)
               l == Len(g)
    <3>1. n \in Int /\ l \in Int /\ i \in 1..n
      BY <1>1
    <3> HIDE DEF n, l
    <3>2. i <= l \/ i = l + 1 \/ i > l + 1
      BY <3>1
    <3> QED
      BY <3>2 DEF l
  <2> QED
    BY <2>1, <2>2, <2>3, <2>4
<1>7. h \o t = g \o q
  <2> HIDE DEF h, t
  <2> QED
    BY <1>3, <1>4, <1>5, <1>6, SeqEqual
<1> QED
  BY <1>1, <1>2, <1>7

\* What a client was given grows at its end.
LEMMA OfferAppends ==
  ASSUME NEW E, NEW g \in Seq(E), NEW q \in Seq(E), NEW e \in E
  PROVE  g \o Append(q, e) = Append(g \o q, e)
<1> DEFINE a == Append(q, e)
           b == g \o q
<1>1. /\ a \in Seq(E) /\ Len(a) = Len(q) + 1 /\ Len(q) \in Nat /\ Len(g) \in Nat
      /\ \A i \in 1..Len(q) : a[i] = q[i]
      /\ a[Len(q) + 1] = e
  BY LenProperties
<1>2. /\ b \in Seq(E) /\ Len(b) = Len(g) + Len(q)
      /\ \A i \in 1..Len(g) + Len(q) : b[i] = IF i <= Len(g) THEN g[i] ELSE q[i - Len(g)]
  BY ConcatProperties
<1> HIDE DEF a, b
<1>3. /\ g \o a \in Seq(E) /\ Len(g \o a) = Len(g) + Len(a)
      /\ \A i \in 1..Len(g) + Len(a) :
            (g \o a)[i] = IF i <= Len(g) THEN g[i] ELSE a[i - Len(g)]
  BY <1>1, ConcatProperties
<1>4. /\ Append(b, e) \in Seq(E) /\ Len(Append(b, e)) = Len(b) + 1
      /\ \A i \in 1..Len(b) : Append(b, e)[i] = b[i]
      /\ Append(b, e)[Len(b) + 1] = e
  <2>1. b \in Seq(E)
    BY <1>2
  <2> QED
    BY <2>1
<1>5. ASSUME NEW i \in 1..Len(g) + Len(a)
      PROVE  (g \o a)[i] = Append(b, e)[i]
  <2>1. CASE i <= Len(g)
    BY <1>1, <1>2, <1>3, <1>4, <2>1
  <2>2. CASE i > Len(g) /\ i <= Len(g) + Len(q)
    <3>1. i - Len(g) \in 1..Len(q)
      BY <1>1, <2>2
    <3> QED
      BY <1>1, <1>2, <1>3, <1>4, <2>2, <3>1
  <2>3. CASE i = Len(g) + Len(q) + 1
    <3>1. i - Len(g) = Len(q) + 1 /\ ~(i <= Len(g))
      BY <1>1, <2>3
    <3> QED
      BY <1>1, <1>2, <1>3, <1>4, <2>3, <3>1
  <2>4. \/ i <= Len(g)
        \/ i > Len(g) /\ i <= Len(g) + Len(q)
        \/ i = Len(g) + Len(q) + 1
    <3> DEFINE n == Len(q)
               l == Len(g)
    <3>1. n \in Int /\ l \in Int /\ Len(a) = n + 1
      BY <1>1
    <3>2. i \in 1..l + (n + 1)
      BY <3>1
    <3> HIDE DEF n, l
    <3>3. i <= l \/ (i > l /\ i <= l + n) \/ i = l + n + 1
      BY <3>1, <3>2
    <3> QED
      BY <3>3 DEF n, l
  <2> QED
    BY <2>1, <2>2, <2>3, <2>4
<1> QED
  BY <1>1, <1>2, <1>3, <1>4, <1>5, SeqEqual DEF a, b

-----------------------------------------------------------------------------
(* Types and stages: what the code itself keeps, whatever the prefixes.     *)

Messages ==
    [channel : {RedisChannel(a[1], a[2]) : a \in Addresses}, event : Events]

HubTypes == TypeOK /\ inflight \in Seq(Messages)

\* A handler registers its client when it connects and unregisters it before
\* it returns; before it connects a client has been given nothing.
ClientStages ==
    \A c \in Clients :
        /\ conn[c] = "idle" => got[c] = <<>> /\ chan[c] = <<>>
        /\ conn[c] \in {"open", "leaving"} <=> c \in registered
        /\ conn[c] = "closed" <=> c \in gone
        /\ conn[c] # "idle" => key[c] \in Addresses

\* The goroutine has an event and clients to offer it to only while it holds
\* the lock, and no client unregisters meanwhile.
HubStage ==
    /\ hub = "sending" => event \in Events
    /\ hub # "sending" => event = None /\ rest = {}
    /\ rest \subseteq registered

HubInv == HubTypes /\ ClientStages /\ HubStage

\* The copies that Redis sends of one publish are equal.
LEMMA CopiesOfOne ==
  ASSUME NEW t \in Targets, NEW u \in Subjects, NEW e \in Events
  PROVE  LET ch == RedisChannel(t, u) IN
         /\ [channel |-> ch, event |-> e] \in Messages
         /\ Copies(ch, e) \in Seq(Messages)
         /\ \A i \in 1..Len(Copies(ch, e)) :
               Copies(ch, e)[i] = [channel |-> ch, event |-> e]
<1> DEFINE ch == RedisChannel(t, u)
           m == [channel |-> ch, event |-> e]
           patterns == {Prefix[s] : s \in Targets}
           matching == {p \in patterns : IsPrefix(p, ch)}
           n == Cardinality(matching)
<1>1. m \in Messages
  <2>1. <<t, u>> \in Addresses /\ ch = RedisChannel(<<t, u>>[1], <<t, u>>[2])
    BY DEF Addresses
  <2> HIDE DEF ch
  <2> QED
    BY <2>1 DEF Messages
<1>2. n \in Nat
  <2>1. IsFiniteSet(patterns)
    <3> DEFINE f == [s \in Targets |-> Prefix[s]]
    <3>1. f \in Surjection(Targets, patterns)
      BY DEF Surjection
    <3> QED
      BY <3>1, FS_Surjection, SseHubAssumption DEF SseHubAssumption
  <2>2. IsFiniteSet(matching)
    BY <2>1, FS_Subset
  <2> QED
    BY <2>2, FS_CardinalityType
<1>3. Copies(ch, e) = [i \in 1..n |-> m]
  BY DEF Copies
<1> HIDE DEF n, m
<1>4. [i \in 1..n |-> m] \in Seq(Messages) /\ Len([i \in 1..n |-> m]) = n
  BY <1>1, <1>2
<1> QED
  BY <1>1, <1>3, <1>4 DEF m

\* Init has the invariant: nobody is connected.
LEMMA HubInitially == Init => HubInv
<1> SUFFICES ASSUME Init PROVE HubInv
  OBVIOUS
<1>1. ClientCapacity \in Nat /\ MaxLosses \in Nat
  BY SseHubAssumption DEF SseHubAssumption
<1>2. subscribed \in BOOLEAN /\ cancelled \in BOOLEAN
  BY DEF Init
<1>3. /\ published \in Seq(Events) /\ inflight \in Seq(Messages)
      /\ chan \in [Clients -> Seq(Events)] /\ got \in [Clients -> Seq(Events)]
      /\ \A c \in Clients : Len(chan[c]) <= ClientCapacity
      /\ \A i \in 1..Len(inflight) : inflight[i].event \in Events
  BY <1>1 DEF Init
<1>4. TypeOK
  BY <1>1, <1>2, <1>3 DEF Init, TypeOK
<1> QED
  BY <1>3, <1>4 DEF Init, HubInv, HubTypes, ClientStages, HubStage

\* What a handler's own steps leave of the channels.
LEMMA ForwardTypes ==
  ASSUME HubInv, NEW c \in Clients, Forward(c)
  PROVE  /\ chan' \in [Clients -> Seq(Events)] /\ got' \in [Clients -> Seq(Events)]
         /\ \A d \in Clients : Len(chan'[d]) <= ClientCapacity
         /\ \A d \in Clients : Given(d)' = Given(d)
<1>1. /\ chan \in [Clients -> Seq(Events)] /\ got \in [Clients -> Seq(Events)]
      /\ \A d \in Clients : Len(chan[d]) <= ClientCapacity
      /\ ClientCapacity \in Nat
  BY SseHubAssumption DEF HubInv, HubTypes, TypeOK, SseHubAssumption
<1>2. chan[c] \in Seq(Events) /\ got[c] \in Seq(Events) /\ chan[c] # <<>>
  BY <1>1 DEF Forward
<1>3. /\ got' = [got EXCEPT ![c] = Append(got[c], Head(chan[c]))]
      /\ chan' = [chan EXCEPT ![c] = Tail(chan[c])]
  BY DEF Forward
<1>4. /\ Append(got[c], Head(chan[c])) \in Seq(Events) /\ Tail(chan[c]) \in Seq(Events)
      /\ Len(Tail(chan[c])) = Len(chan[c]) - 1 /\ Len(chan[c]) \in Nat
      /\ Append(got[c], Head(chan[c])) \o Tail(chan[c]) = got[c] \o chan[c]
  BY <1>2, ForwardKeepsGiven
<1>5. Len(Tail(chan[c])) <= ClientCapacity
  BY <1>1, <1>4
<1> QED
  BY <1>1, <1>3, <1>4, <1>5 DEF Given

\* An offer gives the event to its client, at the end, or gives nothing.
LEMMA OfferTypes ==
  ASSUME HubInv, NEW c \in Clients, Offer(c)
  PROVE  /\ event \in Events /\ c \in registered
         /\ chan' \in [Clients -> Seq(Events)]
         /\ \A d \in Clients : Len(chan'[d]) <= ClientCapacity
         /\ \A d \in Clients : d # c => Given(d)' = Given(d)
         /\ \/ Given(c)' = Append(Given(c), event) /\ missed' = missed
            \/ Given(c)' = Given(c) /\ missed' = missed \cup {<<c, event>>}
<1>1. /\ chan \in [Clients -> Seq(Events)] /\ got \in [Clients -> Seq(Events)]
      /\ \A d \in Clients : Len(chan[d]) <= ClientCapacity
      /\ ClientCapacity \in Nat
  BY SseHubAssumption DEF HubInv, HubTypes, TypeOK, SseHubAssumption
<1>2. event \in Events /\ c \in registered
  BY DEF HubInv, HubStage, Offer
<1>3. chan[c] \in Seq(Events) /\ got[c] \in Seq(Events)
  BY <1>1
<1>4. CASE Len(chan[c]) < ClientCapacity
  <2>1. /\ chan' = [chan EXCEPT ![c] = Append(chan[c], event)]
        /\ missed' = missed /\ got' = got
    BY <1>4 DEF Offer
  <2>2. /\ Append(chan[c], event) \in Seq(Events)
        /\ Len(Append(chan[c], event)) = Len(chan[c]) + 1
        /\ Len(chan[c]) \in Nat
    BY <1>2, <1>3
  <2>3. Len(Append(chan[c], event)) <= ClientCapacity
    BY <1>1, <1>4, <2>2
  <2>4. got[c] \o Append(chan[c], event) = Append(got[c] \o chan[c], event)
    <3> DEFINE g == got[c]
               q == chan[c]
    <3>1. g \in Seq(Events) /\ q \in Seq(Events)
      BY <1>3
    <3> HIDE DEF g, q
    <3>2. g \o Append(q, event) = Append(g \o q, event)
      BY <1>2, <3>1, OfferAppends
    <3> QED
      BY <3>2 DEF g, q
  <2> QED
    BY <1>1, <1>2, <2>1, <2>2, <2>3, <2>4 DEF Given
<1>5. CASE ~(Len(chan[c]) < ClientCapacity)
  <2>1. chan' = chan /\ missed' = missed \cup {<<c, event>>} /\ got' = got
    BY <1>5 DEF Offer
  <2> QED
    BY <1>1, <1>2, <2>1 DEF Given
<1> QED
  BY <1>4, <1>5

\* What Receive takes from Redis.
LEMMA ReceiveTypes ==
  ASSUME HubInv, Receive
  PROVE  LET m == Head(inflight) IN
         /\ inflight \in Seq(Messages) /\ inflight # <<>>
         /\ m \in Messages /\ m = inflight[1] /\ m.event \in Events
         /\ inflight' = Tail(inflight) /\ inflight' \in Seq(Messages)
         /\ Len(inflight') = Len(inflight) - 1 /\ Len(inflight) \in Nat
         /\ \A i \in 1..Len(inflight') : i + 1 \in 1..Len(inflight) /\ inflight'[i] = inflight[i + 1]
         /\ event' = m.event /\ event = None /\ rest = {}
         /\ rest' \subseteq registered
<1>1. inflight \in Seq(Messages) /\ inflight # <<>> /\ inflight' = Tail(inflight)
  BY DEF Receive, HubInv, HubTypes
<1> DEFINE m == Head(inflight)
<1>2. /\ m \in Messages /\ m = inflight[1]
      /\ inflight' \in Seq(Messages) /\ Len(inflight') = Len(inflight) - 1
      /\ Len(inflight) \in Nat
      /\ \A i \in 1..Len(inflight') : inflight'[i] = inflight[i + 1]
  BY <1>1, HeadTailProperties, LenProperties
<1>3. m.event \in Events
  <2> HIDE DEF m
  <2> QED
    BY <1>2 DEF Messages
<1>4. \A i \in 1..Len(inflight') : i + 1 \in 1..Len(inflight)
  <2> DEFINE n == Len(inflight)
             k == Len(inflight')
  <2>1. n \in Nat /\ k = n - 1
    BY <1>2
  <2> HIDE DEF n, k
  <2>2. \A i \in 1..k : i + 1 \in 1..n
    BY <2>1
  <2> QED
    BY <2>2 DEF n, k
<1>5. event' = m.event /\ event = None /\ rest = {} /\ rest' \subseteq registered
  BY DEF Receive, HubInv, HubStage
<1> HIDE DEF m
<1> QED
  BY <1>1, <1>2, <1>3, <1>4, <1>5 DEF m

\* What Publish sends to Redis.
LEMMA PublishTypes ==
  ASSUME HubInv, NEW e \in Events, NEW t \in Targets, NEW u \in Subjects, Publish(e, t, u)
  PROVE  /\ inflight' \in Seq(Messages) /\ Len(inflight) \in Nat /\ Len(inflight') \in Nat
         /\ \A i \in 1..Len(inflight) : inflight'[i] = inflight[i]
         /\ \A i \in 1..Len(inflight') :
               \/ i \in 1..Len(inflight) /\ inflight'[i] = inflight[i]
               \/ /\ i > Len(inflight)
                  /\ inflight'[i] = [channel |-> RedisChannel(t, u), event |-> e]
<1> DEFINE q == inflight
           more == Copies(RedisChannel(t, u), e)
           m == [channel |-> RedisChannel(t, u), event |-> e]
<1>1. q \in Seq(Messages) /\ Len(q) \in Nat
  BY LenProperties DEF HubInv, HubTypes
<1>2. more \in Seq(Messages) /\ \A i \in 1..Len(more) : more[i] = m
  BY CopiesOfOne
<1>3. Len(more) \in Nat
  BY <1>2, LenProperties
<1> HIDE DEF more, m
<1>4. /\ q \o more \in Seq(Messages) /\ Len(q \o more) = Len(q) + Len(more)
      /\ \A i \in 1..Len(q) + Len(more) :
            (q \o more)[i] = IF i <= Len(q) THEN q[i] ELSE more[i - Len(q)]
  BY <1>1, <1>2, ConcatProperties
<1>5. CASE inflight' = q \o more
  <2> DEFINE n == Len(q)
             k == Len(more)
  <2>1. n \in Nat /\ k \in Nat
    BY <1>1, <1>3
  <2>2. \A i \in 1..n : i \in 1..n + k /\ i <= n
    <3> HIDE DEF n, k
    <3> QED
      BY <2>1
  <2>3. \A i \in 1..n + k : i \in 1..n \/ (i > n /\ ~(i <= n) /\ i - n \in 1..k)
    <3> HIDE DEF n, k
    <3> QED
      BY <2>1
  <2>4. n + k \in Nat
    <3> HIDE DEF n, k
    <3> QED
      BY <2>1
  <2>5. \A i \in 1..n : inflight'[i] = q[i]
    BY <1>4, <1>5, <2>2
  <2>6. \A i \in 1..n + k : i > n /\ ~(i <= n) /\ i - n \in 1..k => inflight'[i] = m
    BY <1>2, <1>4, <1>5
  <2>7. Len(inflight') = n + k
    BY <1>4, <1>5
  <2> QED
    BY <1>1, <1>4, <1>5, <2>3, <2>4, <2>5, <2>6, <2>7 DEF m
<1>6. CASE inflight' = inflight
  BY <1>1, <1>6
<1> QED
  BY <1>5, <1>6 DEF Publish, more

\* Each step keeps types and stages.
LEMMA HubKeeps == HubInv /\ [Next]_vars => HubInv'
<1> SUFFICES ASSUME HubInv, [Next]_vars PROVE HubInv'
  OBVIOUS
<1> DEFINE T == HubTypes'
           C == ClientStages'
           S == HubStage'
<1> SUFFICES T /\ C /\ S
  BY DEF HubInv
<1>h. HubTypes /\ TypeOK /\ ClientStages /\ HubStage /\ inflight \in Seq(Messages)
  BY DEF HubInv, HubTypes
<1>b. subscribed \in BOOLEAN /\ cancelled \in BOOLEAN /\ None \notin Events
  BY <1>h, SseHubAssumption DEF TypeOK, SseHubAssumption
<1>e. /\ <<>> \in Seq(Messages) /\ \A i \in 1..Len(<<>>) : <<>>[i].event \in Events
      /\ MaxLosses \in Nat
  BY SseHubAssumption DEF SseHubAssumption
<1>m. ASSUME inflight' \in Seq(Messages)
      PROVE  \A i \in 1..Len(inflight') : inflight'[i].event \in Events
  <2>1. \A i \in 1..Len(inflight') : inflight'[i] \in Messages
    BY <1>m, ElementOfSeq
  <2> QED
    BY <2>1 DEF Messages
<1>c. clientVars' = clientVars /\ chan' = chan /\ got' = got => C
  BY <1>h DEF ClientStages, clientVars
<1>s. hub' = hub /\ event' = event /\ rest' = rest /\ registered' = registered => S
  BY <1>h DEF HubStage
<1>1. ASSUME NEW e \in Events, NEW t \in Targets, NEW u \in Subjects, Publish(e, t, u)
      PROVE  T /\ C /\ S
  <2>1. inflight' \in Seq(Messages)
    BY <1>1, PublishTypes
  <2>2. published' \in Seq(Events)
    BY <1>1, <1>h DEF Publish, TypeOK
  <2>3. addr' \in [Events -> Addresses \cup {None}]
    BY <1>1, <1>h DEF Publish, TypeOK, Addresses
  <2>4. T
    BY <1>1, <1>h, <1>m, <2>1, <2>2, <2>3
       DEF Publish, HubTypes, TypeOK, hubVars, clientVars
  <2>5. C /\ S
    BY <1>1, <1>c, <1>s DEF Publish, hubVars, clientVars
  <2> QED
    BY <2>4, <2>5
<1>2. CASE RedisLost
  <2>1. losses' \in 0..MaxLosses
    BY <1>2, <1>h, <1>e DEF RedisLost, TypeOK
  <2>2. T
    BY <1>2, <1>h, <1>e, <2>1 DEF RedisLost, HubTypes, TypeOK, hubVars, clientVars
  <2> QED
    BY <1>2, <1>c, <1>s, <2>2 DEF RedisLost, hubVars, clientVars
<1>3. CASE Resubscribe
  <2>1. T
    BY <1>3, <1>h DEF Resubscribe, HubTypes, TypeOK, hubVars, clientVars
  <2> QED
    BY <1>3, <1>c, <1>s, <2>1 DEF Resubscribe, hubVars, clientVars
<1>4. CASE Cancel
  <2>1. T
    BY <1>4, <1>h DEF Cancel, HubTypes, TypeOK, redisVars, clientVars
  <2> QED
    BY <1>4, <1>c, <1>s, <2>1 DEF Cancel, redisVars, clientVars
<1>5. CASE Receive
  <2>1. /\ inflight' \in Seq(Messages) /\ event' \in Events
        /\ rest' \subseteq registered
    BY <1>5, ReceiveTypes
  <2>2. owed' \subseteq Clients \X Events
    <3>1. /\ owed' = owed \cup {<<c, Head(inflight).event>> :
                c \in {d \in registered : key[d] = addr[Head(inflight).event]}}
          /\ owed \subseteq Clients \X Events /\ registered \subseteq Clients
      BY <1>5, <1>h DEF Receive, TypeOK
    <3>2. Head(inflight).event \in Events
      BY <1>5, ReceiveTypes
    <3> QED
      BY <3>1, <3>2
  <2>3. T
    BY <1>5, <1>h, <1>m, <2>1, <2>2 DEF Receive, HubTypes, TypeOK, clientVars
  <2> QED
    BY <1>5, <1>c, <2>1, <2>3 DEF Receive, HubStage, clientVars
<1>6. ASSUME NEW c \in Clients, Offer(c)
      PROVE  T /\ C /\ S
  <2>1. /\ chan' \in [Clients -> Seq(Events)]
        /\ \A d \in Clients : Len(chan'[d]) <= ClientCapacity
        /\ event \in Events /\ c \in registered
        /\ missed' \subseteq missed \cup {<<c, event>>}
    BY <1>6, OfferTypes
  <2>2. T
    BY <1>6, <1>h, <2>1 DEF Offer, HubTypes, TypeOK, redisVars, clientVars
  <2>3. \A d \in Clients : d # c => chan'[d] = chan[d]
    BY <1>6, <1>h DEF Offer, TypeOK
  <2>4. C
    BY <1>6, <1>h, <2>1, <2>3 DEF Offer, ClientStages, clientVars
  <2> QED
    BY <1>6, <1>h, <2>2, <2>4 DEF Offer, HubStage, clientVars
<1>7. CASE Offered
  <2>1. T
    BY <1>7, <1>h DEF Offered, HubTypes, TypeOK, redisVars, clientVars
  <2>2. S
    BY <1>7, <1>h DEF Offered, HubStage
  <2> QED
    BY <1>7, <1>c, <2>1, <2>2 DEF Offered
<1>8. CASE HubStops
  <2>1. T
    BY <1>8, <1>h, <1>e DEF HubStops, HubTypes, TypeOK, clientVars
  <2> QED
    BY <1>8, <1>h, <1>c, <2>1 DEF HubStops, HubStage
<1>9. ASSUME NEW c \in Clients, NEW a \in Addresses, Connect(c, a)
      PROVE  T /\ C /\ S
  <2>1. T
    BY <1>9, <1>h DEF Connect, HubTypes, TypeOK, redisVars, hubVars
  <2> QED
    BY <1>9, <1>h, <2>1 DEF Connect, ClientStages, HubStage, TypeOK, hubVars
<1>10. ASSUME NEW c \in Clients, Forward(c)
       PROVE  T /\ C /\ S
  <2>1. /\ chan' \in [Clients -> Seq(Events)] /\ got' \in [Clients -> Seq(Events)]
        /\ \A d \in Clients : Len(chan'[d]) <= ClientCapacity
    BY <1>10, ForwardTypes
  <2>2. T
    BY <1>10, <1>h, <2>1 DEF Forward, HubTypes, TypeOK, redisVars, hubVars, clientVars
  <2>3. \A d \in Clients : d # c => chan'[d] = chan[d] /\ got'[d] = got[d]
    BY <1>10, <1>h DEF Forward, TypeOK
  <2> QED
    BY <1>10, <1>h, <2>2, <2>3 DEF Forward, ClientStages, HubStage, hubVars, clientVars
<1>11. ASSUME NEW c \in Clients, Disconnect(c)
       PROVE  T /\ C /\ S
  <2>1. T
    BY <1>11, <1>h DEF Disconnect, HubTypes, TypeOK, redisVars, hubVars
  <2> QED
    BY <1>11, <1>h, <2>1 DEF Disconnect, ClientStages, HubStage, TypeOK, hubVars
<1>12. ASSUME NEW c \in Clients, Unregister(c)
       PROVE  T /\ C /\ S
  <2>1. T
    BY <1>12, <1>h DEF Unregister, HubTypes, TypeOK, redisVars, hubVars
  <2> QED
    BY <1>12, <1>h, <2>1 DEF Unregister, ClientStages, HubStage, TypeOK, hubVars
<1>13. CASE UNCHANGED vars
  <2>1. T
    BY <1>13, <1>h DEF vars, redisVars, hubVars, clientVars, HubTypes, TypeOK
  <2> QED
    BY <1>13, <1>c, <1>s, <2>1 DEF vars, hubVars, clientVars
<1> QED
  BY <1>1, <1>2, <1>3, <1>4, <1>5, <1>6, <1>7, <1>8, <1>9, <1>10, <1>11, <1>12, <1>13
     DEF Next, HubStep, HubWork, ClientStep

\* A handler unregisters its client only while the goroutine does not send, and
\* what is registered is not closed: the goroutine never sends to a closed
\* channel.
LEMMA HubInvImplies == HubInv => TypeOK /\ OffersOnlyToOpen
BY DEF HubInv, HubTypes, ClientStages, HubStage, OffersOnlyToOpen, TypeOK

\* The inductive invariant holds of every behaviour: the goroutine's stage, the
\* clients it has yet to serve and those that are registered fit together.
THEOREM HubInvariance == Spec => []HubInv
<1>1. Init => HubInv
  BY HubInitially
<1>2. HubInv /\ [Next]_vars => HubInv'
  BY HubKeeps
<1> QED
  BY <1>1, <1>2, PTL DEF Spec

\* Type correctness of the hub: no channel of a client holds more than its
\* capacity, whatever the clients read.
THEOREM HubTypeCorrect == Spec => []TypeOK
<1>1. HubInv => TypeOK
  BY HubInvImplies
<1> QED
  BY <1>1, HubInvariance, PTL

\* The goroutine never sends to a channel that unregister closed: it would
\* panic, and end the process.
THEOREM NeverToClosed == Spec => []OffersOnlyToOpen
<1>1. HubInv => OffersOnlyToOpen
  BY HubInvImplies
<1> QED
  BY <1>1, HubInvariance, PTL

-----------------------------------------------------------------------------
(* What was published, and to whom.                                        *)

\* An event is published once, to the address it keeps.
PublishedOnce ==
    /\ \A i, j \in 1..Len(published) : published[i] = published[j] => i = j
    /\ \A e \in Events : addr[e] # None <=> \E i \in 1..Len(published) : published[i] = e

\* What is under way was published, and Redis has it under its own channel.
EventsAreKnown ==
    /\ \A i \in 1..Len(inflight) :
          LET m == inflight[i] IN
          /\ addr[m.event] # None
          /\ m.channel = RedisChannel(addr[m.event][1], addr[m.event][2])
    /\ event # None => addr[event] # None
    /\ \A c \in Clients : \A i \in 1..Len(Given(c)) : addr[Given(c)[i]] # None

KnownInv == HubInv /\ EventsAreKnown

\* What a client was given are events.
LEMMA GivenType ==
  ASSUME HubInv, NEW c \in Clients
  PROVE  /\ Given(c) \in Seq(Events) /\ Len(Given(c)) \in Nat
         /\ \A i \in 1..Len(Given(c)) : Given(c)[i] \in Events
<1>1. got[c] \in Seq(Events) /\ chan[c] \in Seq(Events)
  BY DEF HubInv, HubTypes, TypeOK
<1>2. Given(c) \in Seq(Events)
  BY <1>1 DEF Given
<1> QED
  BY <1>2, LenProperties, ElementOfSeq

\* Only an offer gives a client anything: one event, after all others.
LEMMA GivenMoves ==
  ASSUME HubInv, [Next]_vars
  PROVE  \/ \A c \in Clients : Given(c)' = Given(c)
         \/ \E d \in Clients :
               /\ Offer(d) /\ Given(d)' = Append(Given(d), event)
               /\ \A c \in Clients : c # d => Given(c)' = Given(c)
<1>1. ASSUME NEW d \in Clients, Offer(d)
      PROVE  \/ \A c \in Clients : Given(c)' = Given(c)
             \/ /\ Given(d)' = Append(Given(d), event)
                /\ \A c \in Clients : c # d => Given(c)' = Given(c)
  BY <1>1, OfferTypes
<1>2. ASSUME NEW d \in Clients, Forward(d)
      PROVE  \A c \in Clients : Given(c)' = Given(c)
  BY <1>2, ForwardTypes
<1>3. CASE got' = got /\ chan' = chan
  BY <1>3 DEF Given
<1>4. \/ got' = got /\ chan' = chan
      \/ \E d \in Clients : Offer(d) \/ Forward(d)
  BY DEF Next, HubStep, HubWork, ClientStep, Publish, RedisLost, Cancel, Receive,
         Offered, HubStops, Resubscribe, Connect, Disconnect, Unregister, vars
<1> QED
  BY <1>1, <1>2, <1>3, <1>4

\* The events a client is given after a step: those it was given before, at
\* their places, and at most the event of the goroutine at the next.
LEMMA GivenElements ==
  ASSUME HubInv, [Next]_vars, NEW c \in Clients
  PROVE  /\ Len(Given(c)) \in Nat /\ Len(Given(c)') \in Nat
         /\ \A i \in 1..Len(Given(c)) : Given(c)'[i] = Given(c)[i]
         /\ \A i \in 1..Len(Given(c)) : i \in 1..Len(Given(c)')
         /\ \A i \in 1..Len(Given(c)') :
               \/ i \in 1..Len(Given(c)) /\ Given(c)'[i] = Given(c)[i]
               \/ /\ i = Len(Given(c)) + 1 /\ Given(c)'[i] = event
                  /\ Offer(c)
<1>1. Given(c) \in Seq(Events) /\ Len(Given(c)) \in Nat
  BY GivenType
<1>2. CASE Given(c)' = Given(c)
  BY <1>1, <1>2
<1>3. CASE Offer(c) /\ Given(c)' = Append(Given(c), event)
  <2> DEFINE g == Given(c)
             n == Len(g)
  <2>1. event \in Events
    BY <1>3, OfferTypes
  <2>2. /\ Len(Append(g, event)) = n + 1
        /\ \A i \in 1..n : Append(g, event)[i] = g[i]
        /\ Append(g, event)[n + 1] = event
    <3> HIDE DEF g
    <3> QED
      BY <1>1, <2>1 DEF g
  <2>3. n \in Nat
    BY <1>1
  <2>4. /\ n + 1 \in Nat /\ \A i \in 1..n : i \in 1..n + 1
        /\ \A i \in 1..n + 1 : i \in 1..n \/ i = n + 1
    <3> HIDE DEF n
    <3> QED
      BY <2>3
  <2> HIDE DEF n
  <2> QED
    BY <1>3, <2>2, <2>3, <2>4 DEF n
<1> QED
  BY <1>2, <1>3, GivenMoves

\* The address of an event that was published stays.
LEMMA AddressStays ==
  ASSUME HubInv, [Next]_vars, NEW e \in Events, addr[e] # None
  PROVE  addr'[e] = addr[e]
<1>1. addr \in [Events -> Addresses \cup {None}]
  BY DEF HubInv, HubTypes, TypeOK
<1>2. ASSUME NEW f \in Events, NEW t \in Targets, NEW u \in Subjects, Publish(f, t, u)
      PROVE  addr'[e] = addr[e]
  BY <1>1, <1>2 DEF Publish
<1> QED
  BY <1>2 DEF Next, HubStep, HubWork, ClientStep, RedisLost, Cancel, Receive, Offer, Offered,
     HubStops, Resubscribe, Connect, Forward, Disconnect, Unregister, vars, redisVars

\* What a step leaves in flight: what was there, or a message of the event
\* that Publish adds.
LEMMA InflightMoves ==
  ASSUME HubInv, [Next]_vars
  PROVE  \A i \in 1..Len(inflight') :
            \/ \E j \in 1..Len(inflight) : inflight'[i] = inflight[j]
            \/ \E e \in Events, t \in Targets, u \in Subjects :
                  /\ Publish(e, t, u)
                  /\ inflight'[i] = [channel |-> RedisChannel(t, u), event |-> e]
<1>1. ASSUME NEW e \in Events, NEW t \in Targets, NEW u \in Subjects, Publish(e, t, u),
             NEW i \in 1..Len(inflight')
      PROVE  \/ \E j \in 1..Len(inflight) : inflight'[i] = inflight[j]
             \/ inflight'[i] = [channel |-> RedisChannel(t, u), event |-> e]
  BY <1>1, PublishTypes
<1>2. CASE inflight' = <<>>
  BY <1>2
<1>3. CASE Receive
  BY <1>3, ReceiveTypes
<1>4. CASE inflight' = inflight
  BY <1>4
<1>5. \/ inflight' = <<>> \/ Receive \/ inflight' = inflight
      \/ \E e \in Events, t \in Targets, u \in Subjects : Publish(e, t, u)
  BY DEF Next, HubStep, HubWork, ClientStep, RedisLost, Cancel, Offer, Offered,
     HubStops, Resubscribe, Connect, Forward, Disconnect, Unregister, vars, redisVars
<1> QED
  BY <1>1, <1>2, <1>3, <1>4, <1>5

\* The event of the goroutine after a step: none, the one before, or the first
\* in flight.
LEMMA EventMoves ==
  ASSUME HubInv, [Next]_vars
  PROVE  event' = None \/ event' = event \/ (Receive /\ event' = inflight[1].event /\ 1 \in 1..Len(inflight))
<1>1. ASSUME Receive
      PROVE  event' = inflight[1].event /\ 1 \in 1..Len(inflight)
  <2>1. inflight \in Seq(Messages) /\ inflight # <<>> /\ Head(inflight) = inflight[1]
        /\ event' = Head(inflight).event
    BY <1>1, ReceiveTypes
  <2>2. Len(inflight) \in Nat /\ Len(inflight) # 0
    BY <2>1, EmptySeq, LenProperties
  <2>3. 1 \in 1..Len(inflight)
    BY <2>2
  <2> QED
    BY <2>1, <2>3
<1> QED
  BY <1>1 DEF Next, HubStep, HubWork, ClientStep, Publish, RedisLost, Cancel, Offer, Offered,
     HubStops, Resubscribe, Connect, Forward, Disconnect, Unregister, vars, hubVars

\* Init has the invariant: nothing was published.
LEMMA KnownInitially == Init => KnownInv
<1> SUFFICES ASSUME Init PROVE EventsAreKnown
  BY HubInitially DEF KnownInv
<1>1. \A c \in Clients : Given(c) = <<>>
  BY DEF Init, Given
<1> QED
  BY <1>1 DEF Init, EventsAreKnown

\* Receive takes from Redis, and Offer from Receive, what was published.
LEMMA KnownStep == KnownInv /\ [Next]_vars => KnownInv'
<1> SUFFICES ASSUME KnownInv, [Next]_vars PROVE EventsAreKnown'
  BY HubKeeps DEF KnownInv
<1>h. HubInv /\ EventsAreKnown /\ HubInv'
  BY HubKeeps DEF KnownInv
<1>a. None \notin Addresses /\ None \notin Events /\ event \in Events \cup {None}
  BY <1>h, SseHubAssumption DEF SseHubAssumption, HubInv, HubTypes, TypeOK
<1>s. \A e \in Events : addr[e] # None => addr'[e] = addr[e]
  BY <1>h, AddressStays
<1>i. \A j \in 1..Len(inflight) :
          /\ inflight[j].event \in Events /\ addr[inflight[j].event] # None
          /\ inflight[j].channel =
                RedisChannel(addr[inflight[j].event][1], addr[inflight[j].event][2])
  BY <1>h DEF EventsAreKnown, HubInv, HubTypes, TypeOK
<1>1. ASSUME NEW i \in 1..Len(inflight')
      PROVE  LET m == inflight'[i] IN
             /\ addr'[m.event] # None
             /\ m.channel = RedisChannel(addr'[m.event][1], addr'[m.event][2])
  <2>1. ASSUME NEW j \in 1..Len(inflight), inflight'[i] = inflight[j]
        PROVE  /\ addr'[inflight'[i].event] # None
               /\ inflight'[i].channel =
                     RedisChannel(addr'[inflight'[i].event][1], addr'[inflight'[i].event][2])
    BY <1>i, <1>s, <2>1
  <2>2. ASSUME NEW e \in Events, NEW t \in Targets, NEW u \in Subjects, Publish(e, t, u),
               inflight'[i] = [channel |-> RedisChannel(t, u), event |-> e]
        PROVE  /\ addr'[inflight'[i].event] # None
               /\ inflight'[i].channel =
                     RedisChannel(addr'[inflight'[i].event][1], addr'[inflight'[i].event][2])
    <3>1. addr'[e] = <<t, u>>
      BY <1>h, <2>2 DEF Publish, HubInv, HubTypes, TypeOK
    <3>2. <<t, u>> \in Addresses
      BY DEF Addresses
    <3>3. inflight'[i].event = e /\ inflight'[i].channel = RedisChannel(t, u)
      BY <2>2
    <3> QED
      BY <1>a, <3>1, <3>2, <3>3
  <2> QED
    BY <1>h, <2>1, <2>2, InflightMoves
<1>2. event' # None => addr'[event'] # None
  <2>1. CASE event' = event
    BY <1>a, <1>h, <1>s, <2>1 DEF EventsAreKnown
  <2>2. CASE event' = inflight[1].event /\ 1 \in 1..Len(inflight)
    BY <1>i, <1>s, <2>2
  <2> QED
    BY <1>h, <2>1, <2>2, EventMoves
<1>3. ASSUME NEW c \in Clients, NEW i \in 1..Len(Given(c)')
      PROVE  addr'[Given(c)'[i]] # None
  <2>1. CASE i \in 1..Len(Given(c)) /\ Given(c)'[i] = Given(c)[i]
    <3>1. Given(c)[i] \in Events
      BY <1>h, <2>1, GivenType
    <3> QED
      BY <1>h, <1>s, <2>1, <3>1 DEF EventsAreKnown
  <2>2. CASE Given(c)'[i] = event /\ Offer(c)
    <3>1. event \in Events
      BY <1>h, <2>2, OfferTypes
    <3> QED
      BY <1>a, <1>h, <1>s, <2>2, <3>1 DEF EventsAreKnown
  <2> QED
    BY <1>h, <2>1, <2>2, GivenElements
<1> QED
  BY <1>1, <1>2, <1>3 DEF EventsAreKnown

\* Every event on its way from publish to a client's stream was published, and
\* Redis has it under the channel of its address.
THEOREM KnownInvariance == Spec => []KnownInv
<1>1. Init => KnownInv
  BY KnownInitially
<1>2. KnownInv /\ [Next]_vars => KnownInv'
  BY KnownStep
<1> QED
  BY <1>1, <1>2, PTL DEF Spec

-----------------------------------------------------------------------------
(* Own events, and no one skipped.  Nothing in the code checks that the     *)
(* prefixes of two targets differ, or that the one does not go on into the  *)
(* recipients of the other; what is shadowed is excepted from NoOneSkipped, *)
(* and OwnEventsOnly assumes what it needs.                                 *)

\* The clients that Receive finds stream one address to which the channel of
\* the event resolves; what it owes the event to are those that stream the
\* address to which it was published.
LEMMA ReceiveFinds ==
  ASSUME KnownInv, Receive
  PROVE  LET a == addr[event'] IN
         /\ event' \in Events /\ event = None /\ rest = {}
         /\ a \in Addresses
         /\ \E k \in Resolved(RedisChannel(a[1], a[2])) : rest' = {c \in registered : key[c] = k}
         /\ owed' = owed \cup {<<c, event'>> : c \in {d \in registered : key[d] = a}}
<1> DEFINE m == Head(inflight)
           b == addr[m.event]
<1>1. /\ m \in Messages /\ m = inflight[1] /\ m.event \in Events
      /\ 1 \in 1..Len(inflight) /\ event' = m.event /\ event = None /\ rest = {}
  <2>1. event' = None \/ event' = event \/ (Receive /\ 1 \in 1..Len(inflight))
    BY EventMoves DEF KnownInv, Next, HubStep, HubWork
  <2>2. /\ m \in Messages /\ m = inflight[1] /\ m.event \in Events
        /\ event' = m.event /\ event = None /\ rest = {}
    BY ReceiveTypes DEF KnownInv
  <2>3. None \notin Events
    BY SseHubAssumption DEF SseHubAssumption
  <2> QED
    BY <2>1, <2>2, <2>3
<1>2. b \in Addresses /\ m.channel = RedisChannel(b[1], b[2])
  <2>1. /\ b # None /\ m.channel = RedisChannel(b[1], b[2])
    BY <1>1 DEF KnownInv, EventsAreKnown
  <2>2. b \in Addresses \cup {None}
    BY <1>1 DEF KnownInv, HubInv, HubTypes, TypeOK
  <2> QED
    BY <2>1, <2>2
<1>3. /\ \E k \in Resolved(m.channel) : rest' = {c \in registered : key[c] = k}
      /\ owed' = owed \cup {<<c, m.event>> : c \in {d \in registered : key[d] = b}}
  BY DEF Receive
<1> QED
  BY <1>1, <1>2, <1>3

\* If its address is not shadowed, Receive finds every client it owes the
\* event to.
LEMMA ReceiveFindsOwed ==
  ASSUME KnownInv, Receive, ~Shadowed(addr[event'])
  PROVE  rest' = {c \in registered : key[c] = addr[event']}
<1> DEFINE a == addr[event']
<1>1. /\ a \in Addresses
      /\ \E k \in Resolved(RedisChannel(a[1], a[2])) : rest' = {c \in registered : key[c] = k}
  BY ReceiveFinds
<1>2. ~Shadowed(a)
  OBVIOUS
<1> HIDE DEF a
<1>3. PICK t \in Targets, u \in Subjects : a = <<t, u>>
  BY <1>1 DEF Addresses
<1>4. Resolved(RedisChannel(t, u)) = {a}
  BY <1>2, <1>3, ResolvesToOwn
<1>5. rest' = {c \in registered : key[c] = a}
  BY <1>1, <1>3, <1>4
<1> QED
  BY <1>5 DEF a

\* If no recipient is left of another, Receive finds no other clients.
LEMMA ReceiveFindsNoOther ==
  ASSUME PrefixesDiffer, SuffixFree, KnownInv, Receive, NEW c \in rest'
  PROVE  key[c] = addr[event']
<1> DEFINE a == addr[event']
<1>1. /\ a \in Addresses
      /\ \E k \in Resolved(RedisChannel(a[1], a[2])) : rest' = {d \in registered : key[d] = k}
  BY ReceiveFinds
<1> HIDE DEF a
<1>2. PICK t \in Targets, u \in Subjects : a = <<t, u>>
  BY <1>1 DEF Addresses
<1>3. c \in registered /\ key[c] \in Resolved(RedisChannel(t, u))
  BY <1>1, <1>2
<1>4. key[c] \in Addresses
  <2>1. c \in Clients
    BY <1>3 DEF KnownInv, HubInv, HubTypes, TypeOK
  <2> QED
    BY <1>3, <2>1 DEF KnownInv, HubInv, ClientStages
<1>5. key[c] = a
  BY <1>2, <1>3, <1>4, ResolvesToNoOther
<1> QED
  BY <1>5 DEF a

\* The clients the goroutine has yet to serve stream the address of its event,
\* and what a client was given is for the address it streams.
OwnInv ==
    /\ KnownInv
    /\ \A c \in rest : key[c] = addr[event]
    /\ OnlyOwnEvents

\* Only Offer gives an event to a client, and Receive has found only clients of
\* the event's address.
LEMMA OwnStep ==
  ASSUME PrefixesDiffer, SuffixFree
  PROVE  OwnInv /\ [Next]_vars => OwnInv'
<1> SUFFICES ASSUME OwnInv, [Next]_vars
             PROVE  (\A c \in rest : key[c] = addr[event])' /\ OnlyOwnEvents'
  BY KnownStep DEF OwnInv
<1>h. KnownInv /\ HubInv /\ TypeOK /\ ClientStages /\ HubStage /\ EventsAreKnown /\ OnlyOwnEvents
  BY DEF OwnInv, KnownInv, HubInv, HubTypes
<1>r. \A c \in rest : c \in Clients /\ key[c] = addr[event]
  BY <1>h DEF OwnInv, TypeOK
<1>s. \A e \in Events : addr[e] # None => addr'[e] = addr[e]
  BY <1>h, AddressStays
<1>k. \A c \in Clients : conn[c] # "idle" => key'[c] = key[c]
  <2>1. ASSUME NEW d \in Clients, NEW a \in Addresses, Connect(d, a)
        PROVE  \A c \in Clients : conn[c] # "idle" => key'[c] = key[c]
    BY <1>h, <2>1 DEF Connect, TypeOK
  <2> QED
    BY <2>1 DEF Next, HubStep, HubWork, ClientStep, Publish, RedisLost, Cancel, Receive,
       Offer, Offered, HubStops, Resubscribe, Forward, Disconnect, Unregister, vars, clientVars
<1>1. ASSUME NEW c \in rest'
      PROVE  key'[c] = addr'[event']
  <2>1. CASE Receive
    BY <2>1, <1>h, ReceiveFindsNoOther DEF Receive, clientVars
  <2>2. CASE rest' \subseteq rest /\ event' = event
    <3>1. c \in Clients /\ key[c] = addr[event] /\ event \in Events /\ c \in registered
      BY <2>2, <1>h, <1>r DEF HubStage
    <3>2. conn[c] # "idle" /\ addr[event] # None
      <4>1. event # None
        BY <3>1, SseHubAssumption DEF SseHubAssumption
      <4>2. conn[c] \in {"open", "leaving"}
        BY <3>1, <1>h DEF ClientStages
      <4> QED
        BY <4>1, <4>2, <1>h DEF EventsAreKnown
    <3> QED
      BY <2>2, <3>1, <3>2, <1>k, <1>s
  <2>3. CASE Offered
    BY <2>3 DEF Offered
  <2> QED
    BY <2>1, <2>2, <2>3 DEF Next, HubStep, HubWork, ClientStep, Publish, RedisLost, Cancel,
       Offer, HubStops, Resubscribe, Connect, Forward, Disconnect, Unregister, vars, hubVars
<1>2. ASSUME NEW c \in Clients, NEW i \in 1..Len(Given(c)')
      PROVE  addr'[Given(c)'[i]] = key'[c]
  <2>1. CASE i \in 1..Len(Given(c)) /\ Given(c)'[i] = Given(c)[i]
    <3>1. Given(c)[i] \in Events /\ addr[Given(c)[i]] = key[c] /\ addr[Given(c)[i]] # None
      BY <1>h, <2>1, GivenType DEF OnlyOwnEvents, EventsAreKnown
    <3>2. conn[c] # "idle"
      <4> SUFFICES ASSUME conn[c] = "idle" PROVE FALSE
        OBVIOUS
      <4>1. Given(c) = <<>>
        BY <1>h DEF ClientStages, Given
      <4>2. 1..Len(Given(c)) = {}
        BY <4>1
      <4> QED
        BY <2>1, <4>2
    <3> QED
      BY <2>1, <3>1, <3>2, <1>k, <1>s
  <2>2. CASE Given(c)'[i] = event /\ Offer(c)
    <3>1. event \in Events /\ event # None /\ key[c] = addr[event]
      BY <2>2, <1>h, <1>r, OfferTypes, SseHubAssumption DEF Offer, SseHubAssumption
    <3>2. addr' = addr /\ key' = key
      BY <2>2 DEF Offer, redisVars, clientVars
    <3> QED
      BY <2>2, <3>1, <3>2
  <2> QED
    BY <1>h, <2>1, <2>2, GivenElements
<1> QED
  BY <1>1, <1>2 DEF OnlyOwnEvents

\* A client is given only events of the target and the recipient it streams,
\* though the channel of the one target may match the pattern of the other and
\* then reach the hub twice, or be taken for one of the other's.
THEOREM OwnEventsOnly ==
  ASSUME PrefixesDiffer, SuffixFree
  PROVE  Spec => []OnlyOwnEvents
<1>1. Init => OwnInv
  <2> SUFFICES ASSUME Init PROVE OwnInv
    OBVIOUS
  <2>1. \A c \in Clients : Given(c) = <<>>
    BY DEF Init, Given
  <2>2. OnlyOwnEvents
    BY <2>1 DEF OnlyOwnEvents
  <2> QED
    BY <2>2, KnownInitially DEF OwnInv, Init
<1>2. OwnInv /\ [Next]_vars => OwnInv'
  BY OwnStep
<1>3. OwnInv => OnlyOwnEvents
  BY DEF OwnInv
<1> QED
  BY <1>1, <1>2, <1>3, PTL DEF Spec

\* What a client is owed, at an address that is not shadowed, it has yet to be
\* offered, was given, or missed; and it was published.
OwedInv ==
    \A p \in owed :
        /\ addr[p[2]] # None
        /\ \/ Shadowed(addr[p[2]])
           \/ p[2] = event /\ p[1] \in rest
           \/ p \in missed
           \/ \E i \in 1..Len(Given(p[1])) : Given(p[1])[i] = p[2]

\* A client that streams the address is among those to serve until Offer has
\* given it the event or found its channel full.
LEMMA OwedStep == KnownInv /\ OwedInv /\ [Next]_vars => OwedInv'
<1> SUFFICES ASSUME KnownInv, OwedInv, [Next]_vars, NEW p \in owed'
             PROVE  /\ addr'[p[2]] # None
                    /\ \/ Shadowed(addr'[p[2]])
                       \/ p[2] = event' /\ p[1] \in rest'
                       \/ p \in missed'
                       \/ \E i \in 1..Len(Given(p[1])') : Given(p[1])'[i] = p[2]
  BY DEF OwedInv, Shadowed
<1>h. HubInv /\ TypeOK /\ HubStage
  BY DEF KnownInv, HubInv, HubTypes
<1>m. missed \subseteq missed'
  BY OfferTypes, <1>h DEF Next, HubStep, HubWork, ClientStep, Publish, RedisLost, Cancel, Receive,
     Offer, Offered, HubStops, Resubscribe, Connect, Forward, Disconnect, Unregister, vars
<1>g. ASSUME NEW c \in Clients, NEW i \in 1..Len(Given(c))
      PROVE  i \in 1..Len(Given(c)') /\ Given(c)'[i] = Given(c)[i]
  BY <1>h, GivenElements
<1>1. CASE p \in owed
  <2>1. p[1] \in Clients /\ p[2] \in Events /\ p = <<p[1], p[2]>>
    BY <1>1, <1>h DEF TypeOK
  <2>a. addr[p[2]] # None /\ addr'[p[2]] = addr[p[2]]
    BY <1>1, <1>h, <2>1, AddressStays DEF OwedInv
  <2>s. CASE Shadowed(addr[p[2]])
    BY <2>a, <2>s
  <2>2. CASE p \in missed
    BY <2>2, <2>a, <1>m
  <2>3. CASE \E i \in 1..Len(Given(p[1])) : Given(p[1])[i] = p[2]
    BY <2>1, <2>3, <2>a, <1>g
  <2>4. CASE p[2] = event /\ p[1] \in rest
    <3>1. CASE Offer(p[1])
      <4>1. CASE missed' = missed \cup {<<p[1], event>>}
        BY <2>1, <2>4, <2>a, <4>1
      <4>2. CASE Given(p[1])' = Append(Given(p[1]), event)
        <5> DEFINE g == Given(p[1])
        <5>1. g \in Seq(Events) /\ Len(g) \in Nat /\ event \in Events
          BY <2>1, <2>4, <1>h, GivenType
        <5> HIDE DEF g
        <5>2. /\ Append(g, event)[Len(g) + 1] = event
              /\ Len(g) + 1 \in 1..Len(Append(g, event))
          BY <5>1
        <5> QED
          BY <2>4, <2>a, <4>2, <5>2 DEF g
      <4> QED
        BY <2>1, <3>1, <4>1, <4>2, <1>h, OfferTypes
    <3>2. ASSUME NEW d \in Clients, Offer(d), d # p[1]
          PROVE  p[2] = event' /\ p[1] \in rest'
      BY <2>4, <2>a, <3>2 DEF Offer
    <3>3. CASE UNCHANGED <<event, rest>>
      BY <2>4, <2>a, <3>3
    <3>4. ~Receive /\ ~Offered /\ ~HubStops
      BY <2>4, <1>h, SseHubAssumption
         DEF Receive, Offered, HubStops, HubStage, SseHubAssumption
    <3> QED
      BY <2>a, <3>1, <3>2, <3>3, <3>4 DEF Next, HubStep, HubWork, ClientStep, Publish, RedisLost, Cancel,
         Resubscribe, Connect, Forward, Disconnect, Unregister, vars, hubVars
  <2> QED
    BY <1>1, <2>s, <2>2, <2>3, <2>4 DEF OwedInv
<1>2. CASE p \notin owed
  <2>1. Receive
    BY <1>2 DEF Next, HubStep, HubWork, ClientStep, Publish, RedisLost, Cancel, Offer,
       Offered, HubStops, Resubscribe, Connect, Forward, Disconnect, Unregister, vars
  <2>2. /\ event' \in Events /\ addr[event'] \in Addresses
        /\ owed' = owed \cup {<<c, event'>> : c \in {d \in registered : key[d] = addr[event']}}
    BY <2>1, ReceiveFinds
  <2>3. p[2] = event' /\ p[1] \in registered /\ key[p[1]] = addr[event']
    BY <1>2, <2>2
  <2>4. addr' = addr /\ addr[event'] # None
    BY <2>1, <2>2, SseHubAssumption DEF Receive, SseHubAssumption
  <2>5. ~Shadowed(addr[event']) => p[1] \in rest'
    BY <2>1, <2>3, ReceiveFindsOwed
  <2> QED
    BY <2>3, <2>4, <2>5
<1> QED
  BY <1>1, <1>2

\* When the hub is done with an event, each client that streamed its address
\* when the event came in was given it or had a full channel, whatever the
\* prefixes, unless they shadow the address: then the channel is, or may be,
\* taken for one of another target.
THEOREM NoneSkipped == Spec => []NoOneSkipped
<1>1. Init => OwedInv
  BY DEF Init, OwedInv
<1>2. KnownInv /\ OwedInv /\ [Next]_vars => OwedInv'
  BY OwedStep
<1>3. OwedInv => NoOneSkipped
  BY DEF OwedInv, NoOneSkipped
<1> QED
  BY <1>1, <1>2, <1>3, KnownInvariance, PTL DEF Spec

-----------------------------------------------------------------------------
(* The order of what a client sees.                                        *)

\* Position, of any sequence.
Place(s, e) == CHOOSE i \in 1..Len(s) : s[i] = e

\* The place of an event among the published ones.
LEMMA PlaceIs ==
  ASSUME PublishedOnce, NEW i \in 1..Len(published)
  PROVE  Place(published, published[i]) = i
<1>1. \E j \in 1..Len(published) : published[j] = published[i]
  OBVIOUS
<1>2. /\ Place(published, published[i]) \in 1..Len(published)
      /\ published[Place(published, published[i])] = published[i]
  BY <1>1 DEF Place
<1> QED
  BY <1>2 DEF PublishedOnce

\* Publish adds an event that was not published, after all that were.
LEMMA PublishAppends ==
  ASSUME HubInv, PublishedOnce,
         NEW e \in Events, NEW t \in Targets, NEW u \in Subjects, Publish(e, t, u)
  PROVE  /\ Len(published) \in Nat /\ Len(published') = Len(published) + 1
         /\ published'[Len(published) + 1] = e
         /\ \A i \in 1..Len(published) :
               published'[i] = published[i] /\ published[i] # e /\ i \in 1..Len(published')
         /\ \A i \in 1..Len(published') : i \in 1..Len(published) \/ i = Len(published) + 1
         /\ Len(published) + 1 \in 1..Len(published')
<1> DEFINE n == Len(published)
<1>1. published \in Seq(Events) /\ n \in Nat
  BY LenProperties DEF HubInv, HubTypes, TypeOK
<1>2. published' = Append(published, e) /\ addr[e] = None
  BY DEF Publish
<1>3. /\ Len(published') = n + 1 /\ published'[n + 1] = e
      /\ \A i \in 1..n : published'[i] = published[i]
  BY <1>1, <1>2
<1>4. \A i \in 1..n : published[i] # e
  BY <1>2 DEF PublishedOnce
<1> HIDE DEF n
<1>5. /\ \A i \in 1..n : i \in 1..n + 1
      /\ \A i \in 1..n + 1 : i \in 1..n \/ i = n + 1
      /\ n + 1 \in 1..n + 1
  BY <1>1
<1> QED
  BY <1>1, <1>3, <1>4, <1>5 DEF n

\* Publish takes an event that was not published before.
LEMMA PublishedOnceStep ==
  HubInv /\ PublishedOnce /\ [Next]_vars => PublishedOnce'
<1> SUFFICES ASSUME HubInv, PublishedOnce, [Next]_vars PROVE PublishedOnce'
  OBVIOUS
<1>1. ASSUME NEW e \in Events, NEW t \in Targets, NEW u \in Subjects, Publish(e, t, u)
      PROVE  PublishedOnce'
  <2> DEFINE n == Len(published)
  <2>1. /\ n \in Nat /\ Len(published') = n + 1
        /\ published'[n + 1] = e
        /\ \A i \in 1..n :
              published'[i] = published[i] /\ published[i] # e /\ i \in 1..Len(published')
        /\ \A i \in 1..Len(published') : i \in 1..n \/ i = n + 1
        /\ n + 1 \in 1..Len(published')
    BY <1>1, PublishAppends
  <2> HIDE DEF n
  <2>2. ASSUME NEW i \in 1..Len(published'), NEW j \in 1..Len(published'),
               published'[i] = published'[j]
        PROVE  i = j
    <3>1. CASE i \in 1..n /\ j \in 1..n
      BY <2>1, <2>2, <3>1 DEF PublishedOnce, n
    <3>2. CASE i = n + 1 \/ j = n + 1
      BY <2>1, <2>2, <3>2
    <3> QED
      BY <2>1, <3>1, <3>2
  <2>3. addr' = [addr EXCEPT ![e] = <<t, u>>] /\ addr \in [Events -> Addresses \cup {None}]
    BY <1>1 DEF Publish, HubInv, HubTypes, TypeOK
  <2>4. <<t, u>> # None
    BY SseHubAssumption DEF SseHubAssumption, Addresses
  <2>5. ASSUME NEW f \in Events
        PROVE  addr'[f] # None <=> \E i \in 1..Len(published') : published'[i] = f
    <3>1. CASE f = e
      BY <2>1, <2>3, <2>4, <3>1
    <3>2. CASE f # e
      <4>1. addr'[f] = addr[f]
        BY <2>3, <3>2
      <4>2. (\E i \in 1..Len(published') : published'[i] = f)
              <=> (\E i \in 1..n : published[i] = f)
        BY <2>1, <3>2
      <4> QED
        BY <4>1, <4>2 DEF PublishedOnce, n
    <3> QED
      BY <3>1, <3>2
  <2> QED
    BY <2>2, <2>5 DEF PublishedOnce
<1>2. CASE published' = published /\ addr' = addr
  BY <1>2 DEF PublishedOnce
<1> QED
  BY <1>1, <1>2 DEF Next, HubStep, HubWork, ClientStep, RedisLost, Cancel, Receive, Offer,
     Offered, HubStops, Resubscribe, Connect, Forward, Disconnect, Unregister, vars, redisVars

\* The place of an event stays, and what is published comes after it.
LEMMA PlaceStays ==
  ASSUME HubInv, PublishedOnce, [Next]_vars, NEW f \in Events, addr[f] # None
  PROVE  /\ Place(published, f) \in Nat /\ Place(published', f) = Place(published, f)
         /\ \A e \in Events, t \in Targets, u \in Subjects :
               Publish(e, t, u) => Place(published', e) \in Nat /\ Place(published', f) <= Place(published', e)
<1> DEFINE n == Len(published)
<1>1. PICK i \in 1..n : published[i] = f
  BY DEF PublishedOnce
<1>2. Place(published, f) = i
  BY <1>1, PlaceIs
<1>3. n \in Nat
  BY LenProperties DEF HubInv, HubTypes, TypeOK
<1>4. PublishedOnce'
  BY PublishedOnceStep
<1>5. ASSUME NEW e \in Events, NEW t \in Targets, NEW u \in Subjects, Publish(e, t, u)
      PROVE  Place(published', f) = i /\ Place(published', e) = n + 1
  <2>1. /\ i \in 1..Len(published') /\ published'[i] = f
        /\ n + 1 \in 1..Len(published') /\ published'[n + 1] = e
    BY <1>1, <1>5, PublishAppends
  <2>2. ASSUME NEW j \in 1..Len(published')
        PROVE  Place(published', published'[j]) = j
    <3>1. \E k \in 1..Len(published') : published'[k] = published'[j]
      OBVIOUS
    <3>2. (CHOOSE k \in 1..Len(published') : published'[k] = published'[j]) = j
      BY <3>1, <1>4 DEF PublishedOnce
    <3> QED
      BY <3>2 DEF Place
  <2> HIDE DEF n
  <2>3. Place(published', f) = (CHOOSE k \in 1..Len(published') : published'[k] = f)
        /\ Place(published', e) = (CHOOSE k \in 1..Len(published') : published'[k] = e)
    BY DEF Place
  <2>4. \A j \in 1..Len(published') :
            (CHOOSE k \in 1..Len(published') : published'[k] = published'[j]) = j
    BY <2>2 DEF Place
  <2> QED
    BY <2>1, <2>3, <2>4
<1>6. ASSUME published' = published
      PROVE  Place(published', f) = i
  BY <1>2, <1>6 DEF Place
<1>7. \/ published' = published
      \/ \E e \in Events, t \in Targets, u \in Subjects : Publish(e, t, u)
  BY DEF Next, HubStep, HubWork, ClientStep, RedisLost, Cancel, Receive, Offer,
     Offered, HubStops, Resubscribe, Connect, Forward, Disconnect, Unregister, vars, redisVars
<1>8. i \in Nat /\ n + 1 \in Nat /\ i <= n + 1
  <2>1. i \in 1..n
    OBVIOUS
  <2> HIDE DEF n
  <2> QED
    BY <1>3, <2>1
<1> HIDE DEF n
<1> QED
  BY <1>2, <1>5, <1>6, <1>7, <1>8

\* In flight, under way and given, the later event was never published first.
InflightInOrder ==
    \A i, j \in 1..Len(inflight) :
        i < j => Place(published, inflight[i].event) <= Place(published, inflight[j].event)

EventInOrder ==
    event # None =>
        \A i \in 1..Len(inflight) : Place(published, event) <= Place(published, inflight[i].event)

GivenInOrder ==
    \A c \in Clients : \A i \in 1..Len(Given(c)) :
        /\ event # None => Place(published, Given(c)[i]) <= Place(published, event)
        /\ \A j \in 1..Len(inflight) : Place(published, Given(c)[i]) <= Place(published, inflight[j].event)

OrderInv ==
    /\ KnownInv /\ PublishedOnce
    /\ InflightInOrder /\ EventInOrder /\ GivenInOrder /\ InOrder

\* Every event under way has a place, which stays, before any event that is
\* published now.
LEMMA KnownPlaces ==
  ASSUME OrderInv, [Next]_vars
  PROVE  /\ \A i \in 1..Len(inflight) :
               LET f == inflight[i].event IN
               /\ f \in Events /\ addr[f] # None
               /\ Place(published, f) \in Nat /\ Place(published', f) = Place(published, f)
         /\ event # None =>
               /\ event \in Events /\ addr[event] # None
               /\ Place(published, event) \in Nat /\ Place(published', event) = Place(published, event)
         /\ \A c \in Clients : \A i \in 1..Len(Given(c)) :
               LET f == Given(c)[i] IN
               /\ f \in Events /\ addr[f] # None
               /\ Place(published, f) \in Nat /\ Place(published', f) = Place(published, f)
<1>h. HubInv /\ PublishedOnce /\ EventsAreKnown
  BY DEF OrderInv, KnownInv
<1>1. ASSUME NEW f \in Events, addr[f] # None
      PROVE  Place(published, f) \in Nat /\ Place(published', f) = Place(published, f)
  BY <1>1, <1>h, PlaceStays
<1>2. \A i \in 1..Len(inflight) : inflight[i].event \in Events /\ addr[inflight[i].event] # None
  BY <1>h DEF HubInv, HubTypes, TypeOK, EventsAreKnown
<1>3. event # None => event \in Events /\ addr[event] # None
  BY <1>h DEF HubInv, HubTypes, TypeOK, EventsAreKnown
<1>4. \A c \in Clients : \A i \in 1..Len(Given(c)) :
          Given(c)[i] \in Events /\ addr[Given(c)[i]] # None
  BY <1>h, GivenType DEF EventsAreKnown
<1> QED
  BY <1>1, <1>2, <1>3, <1>4

\* A message that is in flight after a step is of an event no earlier than any
\* that was known before, or was in flight before.
LEMMA InflightIsLate ==
  ASSUME OrderInv, [Next]_vars, NEW j \in 1..Len(inflight'),
         NEW f \in Events, addr[f] # None,
         \A i \in 1..Len(inflight) : Place(published, f) <= Place(published, inflight[i].event)
  PROVE  Place(published', f) <= Place(published', inflight'[j].event)
<1>h. HubInv /\ PublishedOnce
  BY DEF OrderInv, KnownInv
<1>1. ASSUME NEW i \in 1..Len(inflight), inflight'[j] = inflight[i]
      PROVE  Place(published', f) <= Place(published', inflight'[j].event)
  <2> DEFINE g == inflight[i].event
  <2>1. g \in Events /\ addr[g] # None
    BY KnownPlaces
  <2>2. Place(published', g) = Place(published, g) /\ Place(published', f) = Place(published, f)
    <3> HIDE DEF g
    <3> QED
      BY <2>1, <1>h, PlaceStays
  <2>3. inflight'[j].event = g /\ Place(published, f) <= Place(published, g)
    BY <1>1
  <2> HIDE DEF g
  <2>4. Place(published', inflight'[j].event) = Place(published', g)
    BY <2>3 DEF Place
  <2> QED
    BY <2>2, <2>3, <2>4
<1>2. ASSUME NEW e \in Events, NEW t \in Targets, NEW u \in Subjects, Publish(e, t, u),
             inflight'[j] = [channel |-> RedisChannel(t, u), event |-> e]
      PROVE  Place(published', f) <= Place(published', inflight'[j].event)
  <2>1. inflight'[j].event = e
    BY <1>2
  <2>2. Place(published', inflight'[j].event) = Place(published', e)
    BY <2>1 DEF Place
  <2>3. Place(published', f) <= Place(published', e)
    BY <1>2, <1>h, PlaceStays
  <2> QED
    BY <2>2, <2>3
<1> QED
  BY <1>1, <1>2, <1>h, InflightMoves

\* Events move from queue to queue at the end of one and the head of the other.
LEMMA OrderStep == OrderInv /\ [Next]_vars => OrderInv'
<1> SUFFICES ASSUME OrderInv, [Next]_vars PROVE OrderInv'
  OBVIOUS
<1> SUFFICES InflightInOrder' /\ EventInOrder' /\ GivenInOrder' /\ InOrder'
  <2>1. KnownInv' /\ PublishedOnce'
    BY KnownStep, PublishedOnceStep DEF OrderInv, KnownInv
  <2> QED
    BY <2>1 DEF OrderInv
<1>h. /\ HubInv /\ PublishedOnce
      /\ InflightInOrder /\ EventInOrder /\ GivenInOrder /\ InOrder
  BY DEF OrderInv, KnownInv
<1>i. \A i \in 1..Len(inflight) :
          LET f == inflight[i].event IN
          /\ f \in Events /\ addr[f] # None
          /\ Place(published, f) \in Nat /\ Place(published', f) = Place(published, f)
  BY KnownPlaces
<1>e. event # None =>
          /\ event \in Events /\ addr[event] # None
          /\ Place(published, event) \in Nat
          /\ Place(published', event) = Place(published, event)
  BY KnownPlaces
<1>g. \A c \in Clients : \A i \in 1..Len(Given(c)) :
          LET f == Given(c)[i] IN
          /\ f \in Events /\ addr[f] # None
          /\ Place(published, f) \in Nat /\ Place(published', f) = Place(published, f)
  BY KnownPlaces
<1>r. ASSUME Receive
      PROVE  /\ 1 \in 1..Len(inflight) /\ event' = inflight[1].event
             /\ \A i \in 1..Len(inflight') :
                   i + 1 \in 1..Len(inflight) /\ inflight'[i] = inflight[i + 1]
             /\ event = None
  <2>1. event' \in Events /\ event = None
    BY <1>r, <1>h, ReceiveTypes
  <2>2. event' # None /\ event' # event
    BY <2>1, SseHubAssumption DEF SseHubAssumption
  <2> QED
    BY <1>r, <1>h, <2>1, <2>2, EventMoves, ReceiveTypes
<1>1. InflightInOrder'
  <2>1. ASSUME NEW i \in 1..Len(inflight'), NEW j \in 1..Len(inflight'), i < j
        PROVE  Place(published', inflight'[i].event) <= Place(published', inflight'[j].event)
    <3>1. CASE Receive
      <4>1. /\ i + 1 \in 1..Len(inflight) /\ inflight'[i] = inflight[i + 1]
            /\ j + 1 \in 1..Len(inflight) /\ inflight'[j] = inflight[j + 1]
        BY <1>r, <3>1
      <4>2. i + 1 < j + 1
        BY <2>1
      <4> QED
        BY <4>1, <4>2, <1>h, <1>i DEF InflightInOrder
    <3>2. ASSUME NEW e \in Events, NEW t \in Targets, NEW u \in Subjects, Publish(e, t, u)
          PROVE  Place(published', inflight'[i].event) <= Place(published', inflight'[j].event)
      <4>p. ASSUME NEW k \in 1..Len(inflight')
            PROVE  \/ k \in 1..Len(inflight)
                   \/ k > Len(inflight) /\ inflight'[k].event = e
        <5>1. \/ k \in 1..Len(inflight)
              \/ /\ k > Len(inflight)
                 /\ inflight'[k] = [channel |-> RedisChannel(t, u), event |-> e]
          BY <1>h, <3>2, PublishTypes
        <5> QED
          BY <5>1
      <4>1. CASE i \in 1..Len(inflight) /\ j \in 1..Len(inflight)
        <5>1. inflight'[i] = inflight[i] /\ inflight'[j] = inflight[j]
          BY <1>h, <3>2, <4>1, PublishTypes
        <5> QED
          BY <2>1, <4>1, <5>1, <1>h, <1>i DEF InflightInOrder
      <4>2. CASE i \in 1..Len(inflight) /\ inflight'[j].event = e
        <5>1. inflight'[i] = inflight[i]
          BY <1>h, <3>2, <4>2, PublishTypes
        <5> QED
          BY <3>2, <4>2, <5>1, <1>h, <1>i, PlaceStays
      <4>3. CASE i > Len(inflight)
        <5>1. j > Len(inflight)
          <6> DEFINE n == Len(inflight)
          <6>1. n \in Nat /\ i \in Int /\ j \in Int
            BY <1>h, <3>2, PublishTypes
          <6> HIDE DEF n
          <6>2. i > n => j > n
            BY <2>1, <6>1
          <6> QED
            BY <4>3, <6>2 DEF n
        <5>2. ~(i \in 1..Len(inflight)) /\ ~(j \in 1..Len(inflight))
          <6> DEFINE n == Len(inflight)
          <6>1. n \in Nat /\ i > n /\ j > n
            BY <1>h, <3>2, <4>3, <5>1, PublishTypes
          <6> HIDE DEF n
          <6>2. ~(i \in 1..n) /\ ~(j \in 1..n)
            BY <6>1
          <6> QED
            BY <6>2 DEF n
        <5>3. inflight'[i] = inflight'[j]
          BY <1>h, <3>2, <5>2, PublishTypes
        <5>4. inflight'[i].event = e
          BY <4>p, <5>2
        <5>5. Place(published', e) \in Nat
          <6>1. PublishedOnce' /\ HubInv'
            BY <1>h, PublishedOnceStep, HubKeeps
          <6>2. /\ Len(published) \in Nat /\ published'[Len(published) + 1] = e
                /\ Len(published) + 1 \in 1..Len(published')
            BY <1>h, <3>2, PublishAppends
          <6>3. Place(published', e) \in 1..Len(published')
            BY <6>2 DEF Place
          <6> QED
            BY <6>3
        <5> QED
          BY <5>3, <5>4, <5>5
      <4>4. \/ i \in 1..Len(inflight) /\ j \in 1..Len(inflight)
            \/ i \in 1..Len(inflight) /\ inflight'[j].event = e
            \/ i > Len(inflight)
        BY <4>p
      <4> QED
        BY <4>1, <4>2, <4>3, <4>4
    <3>3. CASE inflight' = inflight /\ published' = published
      BY <2>1, <3>3, <1>h DEF InflightInOrder
    <3>4. CASE inflight' = <<>>
      BY <3>4
    <3> QED
      BY <3>1, <3>2, <3>3, <3>4 DEF Next, HubStep, HubWork, ClientStep, RedisLost, Cancel,
         Offer, Offered, HubStops, Resubscribe, Connect, Forward, Disconnect, Unregister,
         vars, redisVars
  <2> QED
    BY <2>1 DEF InflightInOrder
<1>2. EventInOrder'
  <2>1. ASSUME event' # None, NEW j \in 1..Len(inflight')
        PROVE  Place(published', event') <= Place(published', inflight'[j].event)
    <3>1. CASE Receive
      <4>1. /\ 1 \in 1..Len(inflight) /\ event' = inflight[1].event
            /\ j + 1 \in 1..Len(inflight) /\ inflight'[j] = inflight[j + 1]
        BY <1>r, <3>1
      <4>2. 1 < j + 1
        BY <4>1
      <4> QED
        BY <4>1, <4>2, <1>h, <1>i DEF InflightInOrder
    <3>2. CASE event' = event
      <4>1. \A i \in 1..Len(inflight) :
                Place(published, event) <= Place(published, inflight[i].event)
        BY <2>1, <3>2, <1>h DEF EventInOrder
      <4> QED
        BY <2>1, <3>2, <4>1, <1>e, InflightIsLate
    <3> QED
      BY <2>1, <3>1, <3>2, <1>h, EventMoves
  <2> QED
    BY <2>1 DEF EventInOrder
<1>3. ASSUME NEW c \in Clients, NEW i \in 1..Len(Given(c)')
      PROVE  /\ event' # None => Place(published', Given(c)'[i]) <= Place(published', event')
             /\ \A j \in 1..Len(inflight') :
                   Place(published', Given(c)'[i]) <= Place(published', inflight'[j].event)
  <2>1. CASE i \in 1..Len(Given(c)) /\ Given(c)'[i] = Given(c)[i]
    <3>1. /\ Given(c)[i] \in Events /\ addr[Given(c)[i]] # None
          /\ Place(published', Given(c)[i]) = Place(published, Given(c)[i])
          /\ event # None => Place(published, Given(c)[i]) <= Place(published, event)
          /\ \A j \in 1..Len(inflight) :
                Place(published, Given(c)[i]) <= Place(published, inflight[j].event)
      BY <2>1, <1>g, <1>h DEF GivenInOrder
    <3>2. \A j \in 1..Len(inflight') :
              Place(published', Given(c)[i]) <= Place(published', inflight'[j].event)
      BY <3>1, InflightIsLate
    <3>3. event' # None => Place(published', Given(c)[i]) <= Place(published', event')
      <4>1. CASE event' = event
        BY <3>1, <4>1, <1>e
      <4>2. CASE Receive
        BY <3>1, <4>2, <1>r, <1>i
      <4> QED
        BY <4>1, <4>2, <1>h, EventMoves
    <3> QED
      BY <2>1, <3>2, <3>3
  <2>2. CASE Given(c)'[i] = event /\ Offer(c)
    <3>1. event # None
      BY <2>2, <1>h, OfferTypes, SseHubAssumption DEF SseHubAssumption
    <3>2. event' = event
      BY <2>2 DEF Offer
    <3>3. Place(published', event) \in Nat
      BY <3>1, <1>e
    <3> QED
      BY <2>2, <3>1, <3>2, <3>3, <1>2 DEF EventInOrder
  <2> QED
    BY <1>h, <2>1, <2>2, GivenElements
<1>4. GivenInOrder'
  BY <1>3 DEF GivenInOrder
<1>5. InOrder'
  <2>1. ASSUME NEW c \in Clients,
               NEW i \in 1..Len(Given(c)'), NEW j \in 1..Len(Given(c)'), i < j
        PROVE  Place(published', Given(c)'[i]) <= Place(published', Given(c)'[j])
    <3> DEFINE n == Len(Given(c))
    <3>1. CASE j \in 1..n /\ Given(c)'[j] = Given(c)[j]
      <4>1. n \in Nat
        BY <1>h, GivenElements
      <4>2. i \in 1..n
        <5> HIDE DEF n
        <5> QED
          BY <2>1, <3>1, <4>1
      <4>3. Given(c)'[i] = Given(c)[i]
        BY <1>h, <4>2, GivenElements
      <4>4. Place(published, Given(c)[i]) <= Place(published, Given(c)[j])
        BY <2>1, <3>1, <4>2, <1>h DEF InOrder, Position, Place
      <4> QED
        BY <3>1, <4>2, <4>3, <4>4, <1>g
    <3>2. CASE Given(c)'[j] = event /\ Offer(c)
      <4>1. event' = event /\ event # None
        BY <3>2, <1>h, OfferTypes, SseHubAssumption DEF Offer, SseHubAssumption
      <4> QED
        BY <3>2, <4>1, <1>3
    <3> QED
      BY <1>h, <3>1, <3>2, GivenElements
  <2> QED
    BY <2>1 DEF InOrder, Position, Place
<1> QED
  BY <1>1, <1>2, <1>4, <1>5

\* A client sees events in the order in which they were published, though it
\* may miss some and the hub may receive one twice: what is in flight, what
\* the goroutine offers and what a client was given are in that order.
THEOREM EventsInOrder == Spec => []InOrder
<1>1. Init => OrderInv
  <2> SUFFICES ASSUME Init PROVE OrderInv
    OBVIOUS
  <2>1. \A c \in Clients : Given(c) = <<>>
    BY DEF Init, Given
  <2>2. PublishedOnce /\ InflightInOrder /\ EventInOrder
    BY DEF Init, PublishedOnce, InflightInOrder, EventInOrder
  <2>3. GivenInOrder /\ InOrder
    BY <2>1 DEF GivenInOrder, InOrder
  <2> QED
    BY <2>2, <2>3, KnownInitially DEF OrderInv
<1>2. OrderInv /\ [Next]_vars => OrderInv'
  BY OrderStep
<1>3. OrderInv => InOrder
  BY DEF OrderInv
<1> QED
  BY <1>1, <1>2, <1>3, PTL DEF Spec
=============================================================================
