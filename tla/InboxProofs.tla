----------------------------- MODULE InboxProofs -----------------------------
(***************************************************************************)
(* Proofs about module Inbox, for any notifications, limits and number of  *)
(* changes.                                                                *)
(***************************************************************************)
EXTENDS Inbox, TLAPS, FiniteSetTheorems, SequenceTheorems

-----------------------------------------------------------------------------
(* Lists, newest first.                                                    *)

\* Among finite sets there is one that contains no other.
LEMMA LeastSubset ==
  ASSUME NEW S, NEW T \in SUBSET FiniteSubsetsOf(S), T # {}
  PROVE  \E x \in T : \A y \in T : y \subseteq x => y = x
<1> DEFINE R == StrictSubsetOrdering(S)
<1>1. IsWellFoundedOn(R, FiniteSubsetsOf(S))
  BY FS_StrictSubsetOrderingWellFounded, Zenon
<1>2. \E x \in T : \A y \in T : ~ (<<y, x>> \in R)
  <2> HIDE DEF R
  <2> QED
    BY <1>1, WFMin, Zenon
<1>3. \A x, y \in T : y \subseteq x /\ y # x => <<y, x>> \in R
  <2> TAKE x, y \in T
  <2>1. x \in SUBSET S /\ y \in SUBSET S
    BY DEF FiniteSubsetsOf
  <2> QED
    BY <2>1 DEF StrictSubsetOrdering
<1> HIDE DEF R
<1> QED
  BY <1>2, <1>3

\* A nonempty set of numbers has a least one.
LEMMA LeastNumber ==
  ASSUME NEW S \in SUBSET Nat, S # {}
  PROVE  \E m \in S : \A n \in S : m <= n
<1> DEFINE T == {1..n : n \in S}
<1>1. T \in SUBSET FiniteSubsetsOf(Nat) /\ T # {}
  <2>1. \A n \in Nat : IsFiniteSet(1..n) /\ 1..n \in SUBSET Nat
    BY FS_Interval
  <2> QED
    BY <2>1 DEF FiniteSubsetsOf
<1>2. PICK x \in T : \A y \in T : y \subseteq x => y = x
  <2> HIDE DEF T
  <2> QED
    BY <1>1, LeastSubset
<1>3. PICK m \in S : x = 1..m
  OBVIOUS
<1>4. ASSUME NEW n \in S, n < m PROVE FALSE
  <2>1. 1..n \in T /\ 1..n \subseteq x /\ m \in x /\ m \notin 1..n
    BY <1>3, <1>4
  <2> QED
    BY <1>2, <2>1
<1> QED
  BY <1>4

\* Newest first.
Descending(s) == \A i, j \in DOMAIN s : i < j => s[i] > s[j]

\* Every finite set of notifications can be listed.
LEMMA SortedExists ==
  ASSUME NEW S \in SUBSET Nat, IsFiniteSet(S)
  PROVE  \E s \in [1..Cardinality(S) -> S] : Descending(s)
<1> DEFINE Listable(X) == \E s \in [1..Cardinality(X) -> X] : Descending(s)
           T == {X \in FiniteSubsetsOf(Nat) : ~Listable(X)}
<1> SUFFICES ASSUME T # {} PROVE FALSE
  BY DEF FiniteSubsetsOf
<1> HIDE DEF Listable
<1>1. PICK X \in T : \A Y \in T : Y \subseteq X => Y = X
  <2>1. T \in SUBSET FiniteSubsetsOf(Nat)
    OBVIOUS
  <2> HIDE DEF T
  <2> QED
    BY <2>1, LeastSubset
<1>2. X \in SUBSET Nat /\ IsFiniteSet(X) /\ ~Listable(X) /\ Cardinality(X) \in Nat
  BY FS_CardinalityType DEF FiniteSubsetsOf
<1>3. X # {}
  <2>1. Cardinality({}) = 0
    BY FS_EmptySet
  <2> DEFINE e == [i \in 1..0 |-> 0]
  <2>2. e \in [1..0 -> {}] /\ Descending(e)
    BY DEF Descending
  <2>3. Listable({})
    BY <2>1, <2>2 DEF Listable
  <2> QED
    BY <1>2, <2>3
<1>4. PICK m \in X : \A n \in X : m <= n
  BY <1>2, <1>3, LeastNumber
<1> DEFINE Y == X \ {m}
           k == Cardinality(Y)
<1>5. Y \in FiniteSubsetsOf(Nat) /\ k \in Nat /\ Cardinality(X) = k + 1
  <2>1. IsFiniteSet(Y) /\ Cardinality(Y) = Cardinality(X) - 1
    BY <1>2, FS_RemoveElement
  <2> QED
    BY <1>2, <2>1, FS_CardinalityType DEF FiniteSubsetsOf
<1>6. Listable(Y)
  <2>1. Y \subseteq X /\ Y # X
    OBVIOUS
  <2> HIDE DEF Y
  <2> QED
    BY <1>1, <1>5, <2>1
<1>7. PICK s \in [1..k -> Y] : Descending(s)
  BY <1>6 DEF Listable
<1>8. \A y \in Y : y \in X /\ y # m
  OBVIOUS
<1> HIDE DEF Y, k
<1> DEFINE t == [i \in 1..(k + 1) |-> IF i <= k THEN s[i] ELSE m]
<1>9. t \in [1..(k + 1) -> X]
  BY <1>5, <1>7, <1>8
<1>10. ASSUME NEW i \in 1..(k + 1), NEW j \in 1..(k + 1), i < j PROVE t[i] > t[j]
  <2>1. i \in 1..k /\ t[i] = s[i] /\ s[i] \in Y
    BY <1>5, <1>7, <1>10
  <2>2. CASE j \in 1..k
    BY <1>5, <1>7, <1>10, <2>1, <2>2 DEF Descending
  <2>3. CASE j = k + 1
    <3>1. t[j] = m
      BY <1>5, <2>3
    <3>2. s[i] \in Nat /\ m \in Nat /\ m <= s[i] /\ m # s[i]
      BY <1>2, <1>4, <1>8, <2>1
    <3> QED
      BY <2>1, <3>1, <3>2
  <2> QED
    BY <1>5, <2>2, <2>3
<1>11. Descending(t)
  BY <1>9, <1>10 DEF Descending
<1>12. Listable(X)
  BY <1>5, <1>9, <1>11 DEF Listable
<1> QED
  BY <1>2, <1>12

\* The place of x in the list of S.
Rank(S, x) == Cardinality({y \in S : y >= x})

\* An item ranks no higher in a larger list.
LEMMA RankMonotonic ==
  ASSUME NEW S, NEW U \in SUBSET Nat, S \subseteq U, IsFiniteSet(U), NEW x
  PROVE  Rank(S, x) \in Nat /\ Rank(U, x) \in Nat /\ Rank(S, x) <= Rank(U, x)
<1> DEFINE A == {y \in S : y >= x}
           B == {y \in U : y >= x}
<1>1. A \subseteq B /\ B \subseteq U
  OBVIOUS
<1> HIDE DEF A, B
<1>2. IsFiniteSet(B)
  BY <1>1, FS_Subset
<1>3. IsFiniteSet(A) /\ Cardinality(A) <= Cardinality(B)
  BY <1>1, <1>2, FS_Subset
<1>4. Cardinality(A) \in Nat /\ Cardinality(B) \in Nat
  BY <1>2, <1>3, FS_CardinalityType
<1> QED
  BY <1>3, <1>4 DEF Rank, A, B

\* Sorted lists every item of the set once, newest first.
LEMMA SortedLists ==
  ASSUME NEW S \in SUBSET Nat, IsFiniteSet(S)
  PROVE  /\ Cardinality(S) \in Nat
         /\ Sorted(S) \in [1..Cardinality(S) -> S]
         /\ \A i, j \in 1..Cardinality(S) : i < j => Sorted(S)[i] > Sorted(S)[j]
         /\ \A x \in S : \E i \in 1..Cardinality(S) : Sorted(S)[i] = x
<1> DEFINE n == Cardinality(S)
           s == Sorted(S)
<1>1. n \in Nat
  BY FS_CardinalityType
<1>2. s \in [1..n -> S] /\ Descending(s)
  <2>1. \E t \in [1..n -> S] : \A i, j \in DOMAIN t : i < j => t[i] > t[j]
    BY SortedExists DEF Descending
  <2> QED
    BY <2>1, Zenon DEF Sorted, Descending
<1>3. Cardinality(1..n) = n
  BY <1>1, FS_Interval
<1> HIDE DEF n, s
<1>4. \A i, j \in 1..n : i < j => s[i] > s[j]
  BY <1>2 DEF Descending
<1>5. \A i, j \in 1..n : s[i] = s[j] => i = j
  <2> TAKE i, j \in 1..n
  <2>1. i < j \/ j < i \/ i = j
    BY <1>1
  <2>2. s[i] \in Nat /\ s[j] \in Nat
    BY <1>2
  <2> QED
    BY <1>4, <2>1, <2>2
<1>6. s \in Injection(1..n, S)
  BY <1>2, <1>5 DEF Injection, IsInjective
<1>7. s \in Surjection(1..n, S)
  BY <1>3, <1>6, FS_Injection DEF n
<1>8. \A x \in S : \E i \in 1..n : s[i] = x
  BY <1>7 DEF Surjection
<1> QED
  BY <1>1, <1>2, <1>4, <1>8 DEF n, s

\* The rank of an item is its place in the sorted list.
LEMMA RankIsPlace ==
  ASSUME NEW S \in SUBSET Nat, IsFiniteSet(S), NEW i \in 1..Cardinality(S)
  PROVE  Rank(S, Sorted(S)[i]) = i
<1> DEFINE n == Cardinality(S)
           s == Sorted(S)
           A == {y \in S : y >= s[i]}
           f == [j \in 1..i |-> s[j]]
<1>1. /\ n \in Nat /\ s \in [1..n -> S]
      /\ \A j, k \in 1..n : j < k => s[j] > s[k]
      /\ \A x \in S : \E j \in 1..n : s[j] = x
  BY SortedLists
<1>2. i \in 1..n
  OBVIOUS
<1> HIDE DEF n, s
<1>3. i \in Nat /\ 1..i \subseteq 1..n
  BY <1>1, <1>2
<1>4. \A j \in 1..n : s[j] \in Nat /\ s[j] \in S
  BY <1>1
<1>5. \A j \in 1..n : j <= i <=> s[j] >= s[i]
  <2> TAKE j \in 1..n
  <2>1. j < i \/ j = i \/ i < j
    BY <1>1, <1>2
  <2> QED
    BY <1>1, <1>2, <1>4, <2>1
<1>6. f \in [1..i -> A]
  BY <1>3, <1>4, <1>5
<1>7. \A j, k \in 1..i : f[j] = f[k] => j = k
  <2> TAKE j, k \in 1..i
  <2>1. j < k \/ k < j \/ j = k
    BY <1>3
  <2>2. j \in 1..n /\ k \in 1..n /\ s[j] \in Nat /\ s[k] \in Nat
    BY <1>3, <1>4
  <2> QED
    BY <1>1, <2>1, <2>2
<1>8. \A y \in A : \E j \in 1..i : f[j] = y
  <2> TAKE y \in A
  <2>1. PICK j \in 1..n : s[j] = y
    BY <1>1
  <2>2. j \in 1..i
    BY <1>1, <1>5, <2>1
  <2> QED
    BY <2>1, <2>2
<1>9. ExistsBijection(1..i, A)
  <2> HIDE DEF f, A
  <2> QED
    BY <1>6, <1>7, <1>8 DEF ExistsBijection, Bijection, Injection, Surjection, IsInjective
<1>10. Cardinality(A) = i
  <2> HIDE DEF A
  <2> QED
    BY <1>3, <1>9, FS_CountingElements
<1> QED
  BY <1>10 DEF Rank, s, A

\* What a page holds.
LEMMA PageLists ==
  ASSUME NEW S \in SUBSET Nat, IsFiniteSet(S), NEW lim \in Nat \ {0}, NEW off \in Nat
  PROVE  LET p == Page(Sorted(S), lim, off) IN
         /\ p \in Seq(S) /\ IsInjective(p)
         /\ ToSet(p) = {x \in S : off < Rank(S, x) /\ Rank(S, x) <= off + lim}
         /\ p = <<>> => \A x \in S : Rank(S, x) <= off
<1> DEFINE n == Cardinality(S)
           s == Sorted(S)
           p == Page(s, lim, off)
           m == IF off + lim < n THEN off + lim ELSE n
<1>1. /\ n \in Nat /\ s \in [1..n -> S]
      /\ \A j, k \in 1..n : j < k => s[j] > s[k]
      /\ \A x \in S : \E j \in 1..n : s[j] = x
  BY SortedLists
<1>2. \A i \in 1..n : Rank(S, s[i]) = i
  BY RankIsPlace
<1> HIDE DEF n, s
<1>3. s \in Seq(S) /\ Len(s) = n
  BY <1>1
<1>4. p = SubSeq(s, off + 1, m)
  BY <1>3 DEF Page
<1>5. m \in Nat /\ m <= n /\ (m <= off => m = n)
  BY <1>1
<1> HIDE DEF m, p
<1>6. \A i \in (off + 1)..m : s[i] \in S
  BY <1>1, <1>5
<1>7. /\ p \in Seq(S)
      /\ Len(p) = IF off + 1 <= m THEN m - (off + 1) + 1 ELSE 0
      /\ \A i \in 1..(m - (off + 1) + 1) : p[i] = s[off + 1 + i - 1]
  BY <1>4, <1>5, <1>6, SubSeqProperties
<1> DEFINE len == Len(p)
<1>8. /\ len = IF off <= m THEN m - off ELSE 0
      /\ \A i \in 1..len : p[i] = s[off + i]
  BY <1>5, <1>7
<1>9. len \in Nat /\ DOMAIN p = 1..len
  BY <1>7, LenProperties
<1> HIDE DEF len
<1>10. \A i \in 1..len : off + i \in 1..n /\ off + i <= m
  BY <1>1, <1>5, <1>8
<1>11. IsInjective(p)
  <2>1. ASSUME NEW i \in 1..len, NEW j \in 1..len, p[i] = p[j] PROVE i = j
    <3>1. s[off + i] = s[off + j]
      BY <1>8, <2>1
    <3>2. off + i = off + j
      BY <1>2, <1>10, <3>1
    <3> QED
      BY <1>9, <3>2
  <2> QED
    BY <1>9, <2>1 DEF IsInjective
<1>12. ASSUME NEW x \in ToSet(p)
       PROVE  x \in S /\ off < Rank(S, x) /\ Rank(S, x) <= off + lim
  <2>1. PICK i \in 1..len : x = p[i]
    BY <1>9 DEF ToSet
  <2>2. x = s[off + i] /\ off + i \in 1..n /\ off + i <= m
    BY <1>8, <1>10, <2>1
  <2>3. Rank(S, x) = off + i /\ x \in S
    BY <1>1, <1>2, <2>2
  <2>4. m <= off + lim
    BY <1>1 DEF m
  <2> QED
    BY <1>5, <1>9, <2>2, <2>3, <2>4
<1>13. ASSUME NEW x \in S, off < Rank(S, x), Rank(S, x) <= off + lim
       PROVE  x \in ToSet(p)
  <2>1. PICK j \in 1..n : s[j] = x
    BY <1>1
  <2>2. j = Rank(S, x)
    BY <1>2, <2>1
  <2>3. off < j /\ j <= m
    BY <1>1, <1>13, <2>1, <2>2 DEF m
  <2>4. j - off \in 1..len /\ off + (j - off) = j
    BY <1>1, <1>5, <1>8, <2>3
  <2>5. p[j - off] = x
    BY <1>8, <2>1, <2>4
  <2> QED
    BY <1>9, <2>4, <2>5 DEF ToSet
<1>14. ASSUME p = <<>>, NEW x \in S PROVE Rank(S, x) <= off
  <2>1. len = 0
    BY <1>14 DEF len
  <2>2. n <= off
    BY <1>1, <1>5, <1>8, <2>1
  <2>3. PICK j \in 1..n : s[j] = x
    BY <1>1
  <2> QED
    BY <1>1, <1>2, <2>2, <2>3
<1> QED
  BY <1>7, <1>11, <1>12, <1>13, <1>14 DEF p, s

\* Two lists without repetitions and without common items make one.
LEMMA JoinedLists ==
  ASSUME NEW S, NEW s \in Seq(S), NEW p \in Seq(S)
  PROVE  /\ s \o p \in Seq(S)
         /\ ToSet(s \o p) = ToSet(s) \cup ToSet(p)
         /\ IsInjective(s) /\ IsInjective(p) /\ ToSet(s) \cap ToSet(p) = {} => IsInjective(s \o p)
<1> DEFINE n == Len(s)
           k == Len(p)
           c == s \o p
<1>1. /\ n \in Nat /\ k \in Nat /\ DOMAIN s = 1..n /\ DOMAIN p = 1..k
      /\ c \in Seq(S) /\ DOMAIN c = 1..(n + k)
      /\ \A i \in 1..(n + k) : c[i] = IF i <= n THEN s[i] ELSE p[i - n]
  <2>1. c \in Seq(S) /\ Len(c) = n + k
    BY ConcatProperties
  <2>2. n \in Nat /\ k \in Nat /\ DOMAIN s = 1..n /\ DOMAIN p = 1..k
    BY LenProperties
  <2>3. DOMAIN c = 1..Len(c)
    BY <2>1, LenProperties
  <2> QED
    BY <2>1, <2>2, <2>3, ConcatProperties
<1> HIDE DEF n, k, c
<1>2. \A i \in 1..n : i \in 1..(n + k) /\ c[i] = s[i]
  BY <1>1
<1>3. \A j \in 1..k : n + j \in 1..(n + k) /\ c[n + j] = p[j]
  BY <1>1
<1>4. \A i \in 1..(n + k) : i \in 1..n \/ \E j \in 1..k : i = n + j
  <2> TAKE i \in 1..(n + k)
  <2>1. i \in 1..n \/ (i - n \in 1..k /\ i = n + (i - n))
    BY <1>1
  <2> QED
    BY <2>1
<1>5. ToSet(c) = ToSet(s) \cup ToSet(p)
  <2>1. ToSet(c) \subseteq ToSet(s) \cup ToSet(p)
    <3> SUFFICES ASSUME NEW i \in 1..(n + k) PROVE c[i] \in ToSet(s) \cup ToSet(p)
      BY <1>1 DEF ToSet
    <3>1. CASE i \in 1..n
      BY <1>1, <1>2, <3>1 DEF ToSet
    <3>2. ASSUME NEW j \in 1..k, i = n + j PROVE c[i] \in ToSet(p)
      BY <1>1, <1>3, <3>2 DEF ToSet
    <3> QED
      BY <1>4, <3>1, <3>2
  <2>2. ToSet(s) \subseteq ToSet(c)
    BY <1>1, <1>2 DEF ToSet
  <2>3. ToSet(p) \subseteq ToSet(c)
    <3> SUFFICES ASSUME NEW j \in 1..k PROVE p[j] \in ToSet(c)
      BY <1>1 DEF ToSet
    <3>1. n + j \in DOMAIN c /\ c[n + j] = p[j]
      BY <1>1, <1>3
    <3> QED
      BY <3>1 DEF ToSet
  <2> QED
    BY <2>1, <2>2, <2>3
<1>6. ASSUME IsInjective(s), IsInjective(p), ToSet(s) \cap ToSet(p) = {}
      PROVE  IsInjective(c)
  <2>1. \A i \in 1..n, j \in 1..k : s[i] # p[j]
    BY <1>1, <1>6 DEF ToSet
  <2>2. \A i, j \in 1..n : s[i] = s[j] => i = j
    BY <1>1, <1>6 DEF IsInjective
  <2>3. \A i, j \in 1..k : p[i] = p[j] => i = j
    BY <1>1, <1>6 DEF IsInjective
  <2>4. \A i, j \in 1..(n + k) : c[i] = c[j] => i = j
    BY <1>2, <1>3, <1>4, <2>1, <2>2, <2>3
  <2> QED
    BY <1>1, <2>4 DEF IsInjective
<1> QED
  BY <1>1, <1>5, <1>6 DEF c

-----------------------------------------------------------------------------
(* The inductive invariant.  WalkIsExact says nothing of a walk that is    *)
(* not done; the offset and the places of the items tell how far it is.    *)

Types ==
    /\ rows \in SUBSET Nat /\ IsFiniteSet(rows)
    /\ dismissed \subseteq rows
    /\ walk \in {"idle", "walking", "done"}
    /\ walk = "walking" => limit \in 1..MaxLimit
    /\ offset \in Nat
    /\ got \in Seq(Nat)

\* As long as nothing is dismissed an item of the start can only move down:
\* what is above the offset was shown.
Passed ==
    removed = {} =>
        /\ start \subseteq Listed
        /\ \A x \in start : Rank(Listed, x) <= offset => x \in ToSet(got)

\* As long as nothing arrives an item can only move up: what was shown stays
\* above the offset.
Shown ==
    ~added =>
        /\ IsInjective(got)
        /\ \A x \in ToSet(got) : x \in Listed => Rank(Listed, x) <= offset

Still == ~added /\ removed = {} => Listed = start /\ ToSet(got) \subseteq Listed

WalkInv == Types /\ Passed /\ Shown /\ Still /\ NothingSkipped

-----------------------------------------------------------------------------
\* What is listed is a finite set of numbers.
LEMMA ListedTypes ==
  ASSUME Types
  PROVE  Listed \in SUBSET Nat /\ IsFiniteSet(Listed)
BY FS_Subset DEF Types, Listed

\* The empty list of a walk that begins.
LEMMA NothingGot == <<>> \in Seq(Nat) /\ ToSet(<<>>) = {} /\ IsInjective(<<>>)
<1>1. <<>> \in Seq(Nat) /\ Len(<<>>) = 0
  BY EmptySeq
<1>2. DOMAIN <<>> = 1..0
  BY <1>1, LenProperties
<1> QED
  BY <1>1, <1>2 DEF ToSet, IsInjective

\* Init has the invariant: no walk has begun.
LEMMA WalkInitially == Init => WalkInv
<1> SUFFICES ASSUME Init PROVE WalkInv
  OBVIOUS
<1>1. Types
  BY FS_EmptySet, NothingGot DEF Init, Types
<1>2. Passed /\ Shown /\ Still /\ NothingSkipped
  BY NothingGot DEF Init, Passed, Shown, Still, NothingSkipped, Listed
<1> QED
  BY <1>1, <1>2 DEF WalkInv

\* A new row moves what is older down by one, and an old one again moves nothing.
LEMMA ArriveKeeps ==
  ASSUME WalkInv, NEW n \in Notes, Arrive(n)
  PROVE  WalkInv'
<1> USE DEF WalkInv
<1>1. /\ rows' = rows \cup {n}
      /\ added' = (added \/ n \notin rows)
      /\ UNCHANGED <<dismissed, walk, limit, offset, got, start, removed>>
  BY DEF Arrive, walkVars
<1>2. Types'
  <2>1. n \in Nat
    BY InboxAssumption DEF InboxAssumption
  <2>2. IsFiniteSet(rows')
    BY <1>1, FS_AddElement DEF Types
  <2> QED
    BY <1>1, <2>1, <2>2 DEF Types
<1>3. Listed \subseteq Listed'
  BY <1>1 DEF Listed
<1>4. ~added' => ~added /\ Listed' = Listed
  BY <1>1 DEF Listed
<1>5. \A x : Rank(Listed, x) \in Nat /\ Rank(Listed', x) \in Nat
             /\ Rank(Listed, x) <= Rank(Listed', x)
  <2>1. Listed' \in SUBSET Nat /\ IsFiniteSet(Listed')
    BY <1>2, FS_Subset DEF Types, Listed
  <2> QED
    BY <1>3, <2>1, RankMonotonic
<1>6. Passed'
  <2> SUFFICES ASSUME removed = {}
               PROVE  /\ start \subseteq Listed'
                      /\ \A x \in start : Rank(Listed', x) <= offset => x \in ToSet(got)
    BY <1>1 DEF Passed
  <2>1. /\ start \subseteq Listed
        /\ \A x \in start : Rank(Listed, x) <= offset => x \in ToSet(got)
    BY DEF Passed
  <2>2. offset \in Nat
    BY DEF Types
  <2>3. \A x \in start : Rank(Listed', x) <= offset => Rank(Listed, x) <= offset
    BY <1>5, <2>2
  <2> QED
    BY <1>3, <2>1, <2>3
<1>7. Shown' /\ Still' /\ NothingSkipped'
  BY <1>1, <1>4 DEF Shown, Still, NothingSkipped
<1> QED
  BY <1>2, <1>6, <1>7

\* A dismissal moves what is older up by one.
LEMMA DismissKeeps ==
  ASSUME WalkInv, NEW n \in Notes, Dismiss(n)
  PROVE  WalkInv'
<1> USE DEF WalkInv
<1>1. /\ n \in rows
      /\ dismissed' = dismissed \cup {n}
      /\ removed' = removed \cup ({n} \ dismissed)
      /\ UNCHANGED <<rows, walk, limit, offset, got, start, added>>
  BY DEF Dismiss, walkVars
<1>2. Types'
  BY <1>1 DEF Types
<1>3. Listed' \subseteq Listed
  BY <1>1 DEF Listed
<1>4. removed' = {} => removed = {} /\ Listed' = Listed
  BY <1>1 DEF Listed
<1>5. \A x : Rank(Listed, x) \in Nat /\ Rank(Listed', x) \in Nat
             /\ Rank(Listed', x) <= Rank(Listed, x)
  BY <1>3, ListedTypes, RankMonotonic
<1>6. Shown'
  <2> SUFFICES ASSUME ~added
               PROVE  /\ IsInjective(got)
                      /\ \A x \in ToSet(got) : x \in Listed' => Rank(Listed', x) <= offset
    BY <1>1 DEF Shown
  <2>1. /\ IsInjective(got)
        /\ \A x \in ToSet(got) : x \in Listed => Rank(Listed, x) <= offset
    BY DEF Shown
  <2>2. offset \in Nat
    BY DEF Types
  <2>3. \A x : Rank(Listed, x) <= offset => Rank(Listed', x) <= offset
    BY <1>5, <2>2
  <2> QED
    BY <1>3, <2>1, <2>3
<1>7. Passed' /\ Still' /\ NothingSkipped'
  BY <1>1, <1>4 DEF Passed, Still, NothingSkipped
<1> QED
  BY <1>2, <1>6, <1>7

\* MarkRead moves nothing.
LEMMA MarkKeeps ==
  ASSUME WalkInv, (\E n \in Notes : MarkRead(n)) \/ UNCHANGED vars
  PROVE  WalkInv'
<1>1. UNCHANGED <<rows, dismissed, walk, limit, offset, got, start, added, removed>>
  BY DEF MarkRead, vars, rowVars, walkVars
<1> QED
  BY <1>1 DEF WalkInv, Types, Passed, Shown, Still, NothingSkipped, Listed

\* A walk begins at the top with an empty list.
LEMMA BeginWalkKeeps ==
  ASSUME WalkInv, NEW p, BeginWalk(p)
  PROVE  WalkInv'
<1> USE DEF WalkInv
<1>1. /\ walk' = "walking" /\ offset' = 0 /\ got' = <<>> /\ start' = Listed
      /\ added' = FALSE /\ removed' = {}
      /\ limit' \in 1..MaxLimit
      /\ UNCHANGED <<rows, dismissed>>
  BY InboxAssumption DEF InboxAssumption, BeginWalk, PageLimits, rowVars
<1>2. Types'
  BY <1>1, NothingGot DEF Types
<1>3. Listed' = Listed
  BY <1>1 DEF Listed
<1>4. \A x \in Listed : ~(Rank(Listed, x) <= 0)
  <2> TAKE x \in Listed
  <2> DEFINE A == {y \in Listed : y >= x}
  <2>1. Listed \in SUBSET Nat /\ IsFiniteSet(Listed)
    BY ListedTypes
  <2>2. x \in A /\ IsFiniteSet(A)
    BY <2>1, FS_Subset
  <2> HIDE DEF A
  <2>3. Cardinality(A) \in Nat /\ Cardinality(A) # 0
    BY <2>2, FS_CardinalityType, FS_EmptySet
  <2> QED
    BY <2>3 DEF A, Rank
<1>5. Passed' /\ Shown' /\ Still' /\ NothingSkipped'
  BY <1>1, <1>3, <1>4, NothingGot DEF Passed, Shown, Still, NothingSkipped
<1> QED
  BY <1>2, <1>5

\* A page is what ranks after the offset and up to the next; an empty page means
\* that nothing does.
LEMMA FetchKeeps ==
  ASSUME WalkInv, Fetch
  PROVE  WalkInv'
<1> DEFINE page == ListInbox(limit, offset)
           On(x) == offset < Rank(Listed, x) /\ Rank(Listed, x) <= offset + limit
<1>1. /\ walk = "walking"
      /\ got' = got \o page /\ offset' = offset + limit
      /\ walk' = IF page = <<>> THEN "done" ELSE "walking"
      /\ UNCHANGED <<rows, dismissed, limit, start, added, removed>>
  BY DEF Fetch, rowVars
<1>2. Listed \in SUBSET Nat /\ IsFiniteSet(Listed)
  BY ListedTypes DEF WalkInv
<1>3. limit \in 1..MaxLimit /\ limit \in Nat \ {0} /\ offset \in Nat /\ got \in Seq(Nat)
  BY <1>1, InboxAssumption DEF InboxAssumption, WalkInv, Types
<1>4. page = Page(Sorted(Listed), limit, offset)
  BY <1>3 DEF ListInbox, StoreLimit
<1> HIDE DEF page
<1>5. /\ page \in Seq(Listed) /\ IsInjective(page)
      /\ ToSet(page) = {x \in Listed : On(x)}
      /\ page = <<>> => \A x \in Listed : Rank(Listed, x) <= offset
  <2> DEFINE p == Page(Sorted(Listed), limit, offset)
  <2>1. /\ p \in Seq(Listed) /\ IsInjective(p)
        /\ ToSet(p) = {x \in Listed : offset < Rank(Listed, x) /\ Rank(Listed, x) <= offset + limit}
        /\ p = <<>> => \A x \in Listed : Rank(Listed, x) <= offset
    BY <1>2, <1>3, PageLists
  <2> HIDE DEF p
  <2>2. page = p
    BY <1>4 DEF p
  <2> QED
    BY <2>1, <2>2
<1>6. page \in Seq(Nat)
  <2>1. \A A, B : A \subseteq B => Seq(A) \subseteq Seq(B)
    OBVIOUS
  <2> QED
    BY <1>2, <1>5, <2>1
<1>7. /\ got' \in Seq(Nat)
      /\ ToSet(got') = ToSet(got) \cup ToSet(page)
      /\ IsInjective(got) /\ ToSet(got) \cap ToSet(page) = {} => IsInjective(got')
  BY <1>1, <1>3, <1>5, <1>6, JoinedLists
<1>8. Listed' = Listed
  BY <1>1 DEF Listed
<1>9. \A x : Rank(Listed, x) \in Nat
  BY <1>2, RankMonotonic
<1>10. Types'
  BY <1>1, <1>3, <1>7 DEF WalkInv, Types
<1>11. Passed'
  <2> SUFFICES ASSUME removed = {}
               PROVE  /\ start \subseteq Listed
                      /\ \A x \in start : Rank(Listed, x) <= offset + limit => x \in ToSet(got')
    BY <1>1, <1>8 DEF Passed
  <2>1. /\ start \subseteq Listed
        /\ \A x \in start : Rank(Listed, x) <= offset => x \in ToSet(got)
    BY DEF WalkInv, Passed
  <2>2. \A x \in start : Rank(Listed, x) <= offset + limit => Rank(Listed, x) <= offset \/ On(x)
    BY <1>3, <1>9
  <2> QED
    BY <1>5, <1>7, <2>1, <2>2
<1>12. Shown'
  <2> SUFFICES ASSUME ~added
               PROVE  /\ IsInjective(got')
                      /\ \A x \in ToSet(got') : x \in Listed => Rank(Listed, x) <= offset + limit
    BY <1>1, <1>8 DEF Shown
  <2>1. /\ IsInjective(got)
        /\ \A x \in ToSet(got) : x \in Listed => Rank(Listed, x) <= offset
    BY DEF WalkInv, Shown
  <2>2. \A x : ~(Rank(Listed, x) <= offset /\ On(x))
    BY <1>3, <1>9
  <2>3. ToSet(got) \cap ToSet(page) = {}
    BY <1>5, <2>1, <2>2
  <2>4. \A x : Rank(Listed, x) <= offset => Rank(Listed, x) <= offset + limit
    BY <1>3, <1>9
  <2> QED
    BY <1>5, <1>7, <2>1, <2>3, <2>4
<1>13. Still'
  BY <1>1, <1>5, <1>7, <1>8 DEF WalkInv, Still
<1>14. NothingSkipped'
  <2> SUFFICES ASSUME page = <<>>, removed = {}
               PROVE  start \subseteq ToSet(got')
    BY <1>1 DEF NothingSkipped
  <2> QED
    BY <1>5, <1>7 DEF WalkInv, Passed
<1> QED
  BY <1>10, <1>11, <1>12, <1>13, <1>14 DEF WalkInv

\* Each step keeps the invariant.
LEMMA WalkStep == WalkInv /\ [Next]_vars => WalkInv'
<1> SUFFICES ASSUME WalkInv, [Next]_vars PROVE WalkInv'
  OBVIOUS
<1>1. ASSUME NEW n \in Notes, Arrive(n) PROVE WalkInv'
  BY <1>1, ArriveKeeps
<1>2. ASSUME NEW n \in Notes, Dismiss(n) PROVE WalkInv'
  BY <1>2, DismissKeeps
<1>3. CASE (\E n \in Notes : MarkRead(n)) \/ UNCHANGED vars
  BY <1>3, MarkKeeps
<1>4. ASSUME NEW p, BeginWalk(p) PROVE WalkInv'
  BY <1>4, BeginWalkKeeps
<1>5. CASE Fetch
  BY <1>5, FetchKeeps
<1> QED
  BY <1>1, <1>2, <1>3, <1>4, <1>5 DEF Next

\* The inductive invariant holds of every behaviour.
THEOREM WalkInvariance == Spec => []WalkInv
<1> QED
  BY WalkInitially, WalkStep, PTL DEF Spec

\* What a client makes of the pages of ListInbox, however small they are and
\* whatever arrives, is marked or dismissed between two requests: it misses
\* nothing unless something is dismissed, sees nothing twice unless something
\* arrives, and counts what CountUnread counts.
THEOREM WalksAreExact == Spec => []WalkIsExact
<1>1. WalkInv => WalkIsExact
  <2> SUFFICES ASSUME WalkInv PROVE WalkIsExact
    OBVIOUS
  <2>1. NothingSkipped /\ NothingTwice
    BY DEF WalkInv, Shown, NothingTwice
  <2>2. CountAgreesWithWalk
    <3> SUFFICES ASSUME walk = "done", ~added, removed = {}
                 PROVE  ToSet(got) = Listed
      BY Zenon DEF CountAgreesWithWalk, CountUnread
    <3> QED
      BY DEF WalkInv, Still, NothingSkipped
  <2> QED
    BY <2>1, <2>2 DEF WalkIsExact
<1> QED
  BY <1>1, WalkInvariance, PTL
=============================================================================
