---------------------------- MODULE RoutingProofs ----------------------------
(***************************************************************************)
(* Proofs about module Routing and the operators it stands on, for any     *)
(* configurations, notifications, preferences and texts.                   *)
(***************************************************************************)
EXTENDS Routing, TLAPS, FiniteSetTheorems, SequenceTheorems

-----------------------------------------------------------------------------
(* Induction.  The induction theorems of the library are about operators;  *)
(* here a property is the set of what has it.                              *)

\* Among finite sets there is one that contains no other.
LEMMA LeastSubset ==
  ASSUME NEW S, NEW T \in SUBSET FiniteSubsetsOf(S), T # {}
  PROVE  \E x \in T : \A y \in T : y \subseteq x => y = x
<1> DEFINE R == StrictSubsetOrdering(S)
<1>1. IsWellFoundedOn(R, FiniteSubsetsOf(S))
  BY FS_StrictSubsetOrderingWellFounded, Zenon
<1>2. \E x \in T : \A y \in T : ~ (<<y, x>> \in R)
  <2> HIDE DEF R
  <2> QED
    BY <1>1, WFMin, Zenon
<1>3. \A x, y \in T : y \subseteq x /\ y # x => <<y, x>> \in R
  <2> TAKE x, y \in T
  <2>1. x \in SUBSET S /\ y \in SUBSET S
    BY DEF FiniteSubsetsOf
  <2> QED
    BY <2>1 DEF StrictSubsetOrdering
<1> HIDE DEF R
<1> QED
  BY <1>2, <1>3

\* Induction on the natural numbers, over the set of those that have a property.
LEMMA SetInduction ==
  ASSUME NEW A \in SUBSET Nat, 0 \in A, \A n \in Nat : n \in A => n + 1 \in A
  PROVE  A = Nat
<1> DEFINE T == {1..n : n \in Nat \ A}
<1> SUFFICES ASSUME A # Nat PROVE FALSE
  OBVIOUS
<1>1. T # {}
  OBVIOUS
<1>2. T \in SUBSET FiniteSubsetsOf(Nat)
  <2>1. \A n \in Nat : IsFiniteSet(1..n)
    BY FS_Interval
  <2>2. \A n \in Nat : 1..n \in SUBSET Nat
    OBVIOUS
  <2> QED
    BY <2>1, <2>2 DEF FiniteSubsetsOf
<1>3. PICK x \in T : \A y \in T : y \subseteq x => y = x
  <2> HIDE DEF T
  <2> QED
    BY <1>1, <1>2, LeastSubset
<1>4. PICK n \in Nat \ A : x = 1..n
  OBVIOUS
<1>5. n # 0 /\ n - 1 \in Nat /\ (n - 1) + 1 = n
  OBVIOUS
<1>6. n - 1 \in Nat \ A
  BY <1>5
<1>7. 1..(n-1) \in T /\ 1..(n-1) \subseteq x
  BY <1>4, <1>5, <1>6
<1>8. n \in 1..n /\ n \notin 1..(n-1)
  BY <1>5
<1> QED
  BY <1>3, <1>4, <1>7, <1>8

\* Max, which the folds choose the next index with.
LEMMA MaxOf ==
  ASSUME NEW N \in Nat, NEW s \in SUBSET (1..N), s # {}
  PROVE  Max(s) \in s /\ \A y \in s : y <= Max(s)
<1> DEFINE A == {n \in Nat : s \subseteq 1..n => \E m \in s : \A y \in s : y <= m}
<1>1. 0 \in A
  <2>1. 1..0 = {}
    OBVIOUS
  <2> QED
    BY <2>1
<1>2. ASSUME NEW n \in Nat, n \in A PROVE n + 1 \in A
  <2> SUFFICES ASSUME s \subseteq 1..(n+1) PROVE \E m \in s : \A y \in s : y <= m
    OBVIOUS
  <2>1. CASE n + 1 \in s
    BY <2>1
  <2>2. CASE n + 1 \notin s
    <3>1. s \subseteq 1..n
      BY <2>2
    <3> QED
      BY <3>1, <1>2
  <2> QED
    BY <2>1, <2>2
<1>3. A = Nat
  <2>1. A \in SUBSET Nat
    OBVIOUS
  <2> HIDE DEF A
  <2> QED
    BY <1>1, <1>2, <2>1, SetInduction
<1>4. \E m \in s : \A y \in s : y <= m
  BY <1>3
<1>5. \E m \in s : \A y \in s : m >= y
  BY <1>4
<1> QED
  BY <1>5 DEF Max

-----------------------------------------------------------------------------
(* Sequences that repeat nothing.                                          *)

\* The empty list.
LEMMA EmptyIsInjective ==
  ASSUME NEW S
  PROVE  <<>> \in Seq(S) /\ DOMAIN <<>> = {} /\ IsInjective(<<>>)
<1>1. <<>> \in Seq(S) /\ Len(<<>>) = 0
  BY EmptySeq
<1>2. DOMAIN <<>> = 1..0
  BY <1>1, LenProperties
<1> QED
  BY <1>1, <1>2 DEF IsInjective

\* Append adds its element to the list.
LEMMA AppendAddsToSet ==
  ASSUME NEW S, NEW out \in Seq(S), NEW t \in S
  PROVE  ToSet(Append(out, t)) = ToSet(out) \cup {t}
<1> DEFINE m == Len(out)
           new == Append(out, t)
<1>1. m \in Nat /\ DOMAIN out = 1..m
  BY LenProperties
<1>2. /\ DOMAIN new = 1..(m + 1)
      /\ \A i \in 1..m : new[i] = out[i]
      /\ new[m + 1] = t
  OBVIOUS
<1> HIDE DEF m, new
<1>3. 1..(m + 1) = 1..m \cup {m + 1}
  BY <1>1
<1>4. ToSet(new) = ToSet(out) \cup {t}
  BY <1>1, <1>2, <1>3 DEF ToSet
<1> QED
  BY <1>4 DEF new

\* Append of what is not in a list repeats nothing.
LEMMA AppendKeepsInjective ==
  ASSUME NEW S, NEW out \in Seq(S), IsInjective(out), NEW t \in S, t \notin ToSet(out)
  PROVE  Append(out, t) \in Seq(S) /\ IsInjective(Append(out, t))
<1> DEFINE m == Len(out)
           new == Append(out, t)
<1>1. m \in Nat /\ DOMAIN out = 1..m
  OBVIOUS
<1>2. /\ new \in Seq(S)
      /\ DOMAIN new = 1..(m + 1)
      /\ \A i \in 1..m : new[i] = out[i]
      /\ new[m + 1] = t
  OBVIOUS
<1>3. \A i \in 1..m : out[i] # t
  BY <1>1 DEF ToSet
<1>4. \A i, j \in 1..m : out[i] = out[j] => i = j
  BY <1>1 DEF IsInjective
<1> HIDE DEF m, new
<1>5. \A i \in 1..(m + 1) : i \in 1..m \/ i = m + 1
  BY <1>1
<1>6. \A i, j \in 1..(m + 1) : new[i] = new[j] => i = j
  BY <1>2, <1>3, <1>4, <1>5
<1>7. IsInjective(new)
  BY <1>2, <1>6 DEF IsInjective
<1> QED
  BY <1>2, <1>7 DEF new

\* The head of what repeats nothing is not in the tail.
LEMMA HeadAndTail ==
  ASSUME NEW S, NEW s \in Seq(S), s # <<>>, IsInjective(s)
  PROVE  /\ Head(s) \in S /\ Head(s) \in ToSet(s) /\ Head(s) \notin ToSet(Tail(s))
         /\ Tail(s) \in Seq(S) /\ IsInjective(Tail(s))
         /\ ToSet(Tail(s)) \subseteq ToSet(s)
<1> DEFINE n == Len(s)
           t == Tail(s)
<1>1. n \in Nat \ {0} /\ DOMAIN s = 1..n
  BY EmptySeq, LenProperties
<1>2. /\ Head(s) = s[1] /\ t \in Seq(S) /\ DOMAIN t = 1..(n - 1)
      /\ \A i \in 1..(n - 1) : t[i] = s[i + 1]
  BY HeadTailProperties
<1>3. 1 \in 1..n /\ s[1] \in S
  BY <1>1, ElementOfSeq
<1>4. \A i, j \in 1..n : s[i] = s[j] => i = j
  BY <1>1 DEF IsInjective
<1> HIDE DEF n, t
<1>5. \A i \in 1..(n - 1) : i + 1 \in 1..n /\ i + 1 # 1
  BY <1>1
<1>6. Head(s) \in ToSet(s) /\ ToSet(t) \subseteq ToSet(s)
  <2>1. Head(s) \in ToSet(s)
    BY <1>1, <1>2, <1>3 DEF ToSet
  <2>2. ASSUME NEW i \in 1..(n - 1)
        PROVE  t[i] \in ToSet(s)
    BY <1>1, <1>2, <1>5 DEF ToSet
  <2>3. ToSet(t) \subseteq ToSet(s)
    BY <1>2, <2>2 DEF ToSet
  <2> QED
    BY <2>1, <2>3
<1>7. Head(s) \notin ToSet(t)
  BY <1>2, <1>3, <1>4, <1>5 DEF ToSet
<1>8. IsInjective(t)
  BY <1>1, <1>2, <1>4, <1>5 DEF IsInjective
<1> QED
  BY <1>2, <1>3, <1>6, <1>7, <1>8 DEF t

\* Append leaves the elements before it where they are.
LEMMA AppendElements ==
  ASSUME NEW S, NEW s \in Seq(S), NEW x
  PROVE  /\ \E T : Append(s, x) \in Seq(T)
         /\ DOMAIN s \subseteq DOMAIN Append(s, x)
         /\ \A i \in DOMAIN s : Append(s, x)[i] = s[i]
         /\ \A i \in DOMAIN Append(s, x) :
               i \in DOMAIN s \/ (i = Len(s) + 1 /\ Append(s, x)[i] = x)
         /\ Len(s) + 1 \notin DOMAIN s
<1> DEFINE n == Len(s)
           a == Append(s, x)
<1>1. s \in Seq(S \cup {x}) /\ x \in S \cup {x}
  OBVIOUS
<1>2. n \in Nat /\ DOMAIN s = 1..n
  BY LenProperties
<1>3. /\ a \in Seq(S \cup {x}) /\ DOMAIN a = 1..(n + 1)
      /\ (\A i \in 1..n : a[i] = s[i]) /\ a[n + 1] = x
  BY <1>1
<1> HIDE DEF n, a
<1>4. \A i \in 1..(n + 1) : i \in 1..n \/ i = n + 1
  BY <1>2
<1>5. n + 1 \notin 1..n /\ 1..n \subseteq 1..(n + 1)
  BY <1>2
<1>6. \A i \in DOMAIN a : i \in DOMAIN s \/ (i = n + 1 /\ a[i] = x)
  BY <1>2, <1>3, <1>4
<1>7. \E T : a \in Seq(T)
  BY <1>3
<1> QED
  BY <1>2, <1>3, <1>5, <1>6, <1>7 DEF n, a

\* SetToSeq lists every element of a finite set once.
LEMMA SetToSeqLists ==
  ASSUME NEW S, IsFiniteSet(S)
  PROVE  /\ SetToSeq(S) \in Seq(S)
         /\ IsInjective(SetToSeq(S))
         /\ ToSet(SetToSeq(S)) = S
<1> DEFINE n == Cardinality(S)
           s == SetToSeq(S)
<1>1. n \in Nat /\ ExistsBijection(1..n, S)
  BY FS_CardinalityType
<1>2. \E f \in [1..n -> S] : IsInjective(f)
  BY <1>1 DEF ExistsBijection, Bijection, Injection
<1>3. s \in [1..n -> S] /\ IsInjective(s)
  BY <1>2, Zenon DEF SetToSeq
<1> HIDE DEF s
<1>4. s \in Injection(1..n, S)
  BY <1>3 DEF Injection
<1>5. Cardinality(1..n) = n
  BY <1>1, FS_Interval
<1>6. s \in Surjection(1..n, S)
  BY <1>4, <1>5, FS_Injection
<1> HIDE DEF n
<1>7. ToSet(s) = S
  BY <1>3, <1>6 DEF ToSet, Surjection
<1>8. s \in Seq(S)
  BY <1>1, <1>3
<1> QED
  BY <1>3, <1>7, <1>8 DEF s

-----------------------------------------------------------------------------
(* What uniqueStrings returns.                                             *)

\* One step of its fold: what is to be had for the indices s, if the table it
\* has the results for the sets below.
UniqueStep(in, it, s) ==
    IF s = {} THEN <<>>
    ELSE LET x   == Max(s)
             out == it[s \ {x}]
         IN IF Trim[in[x]] \in ToSet(out) \cup {""} THEN out ELSE Append(out, Trim[in[x]])

UniqueTable(in) ==
    CHOOSE it : it = [s \in SUBSET DOMAIN in |-> UniqueStep(in, it, s)]

\* uniqueStrings is the last entry of the table of its fold.
LEMMA UniqueIsFold ==
  ASSUME NEW in
  PROVE  uniqueStrings(in) = UniqueTable(in)[DOMAIN in]
BY DEF uniqueStrings, FoldLeft, MapThenFoldSet, UniqueTable, UniqueStep

\* Without its greatest element a set of numbers up to n + 1 is one up to n.
LEMMA BelowMax ==
  ASSUME NEW n \in Nat, NEW s \in SUBSET (1..(n + 1)), s # {}
  PROVE  Max(s) \in 1..(n + 1) /\ s \ {Max(s)} \in SUBSET (1..n)
<1>1. Max(s) \in s /\ \A y \in s : y <= Max(s)
  <2>1. n + 1 \in Nat
    OBVIOUS
  <2> QED
    BY <2>1, MaxOf
<1>2. ASSUME NEW y \in s \ {Max(s)} PROVE y \in 1..n
  <2> DEFINE m == Max(s)
  <2>1. m \in 1..(n + 1) /\ y \in 1..(n + 1) /\ y <= m /\ y # m
    BY <1>1, <1>2
  <2> HIDE DEF m
  <2> QED
    BY <2>1
<1> QED
  BY <1>1, <1>2

\* The recursion of the fold has a solution.
LEMMA UniqueTableExists ==
  ASSUME NEW in, NEW n \in Nat, DOMAIN in = 1..n
  PROVE  \E it : it = [s \in SUBSET DOMAIN in |-> UniqueStep(in, it, s)]
<1> DEFINE A == {k \in Nat : \E it : it = [s \in SUBSET (1..k) |-> UniqueStep(in, it, s)]}
<1>1. 0 \in A
  <2> DEFINE it == [s \in SUBSET (1..0) |-> <<>>]
  <2>1. \A s \in SUBSET (1..0) : UniqueStep(in, it, s) = <<>>
    <3>1. 1..0 = {}
      OBVIOUS
    <3> QED
      BY <3>1 DEF UniqueStep
  <2>2. it = [s \in SUBSET (1..0) |-> UniqueStep(in, it, s)]
    BY <2>1
  <2> QED
    BY <2>2
<1>2. ASSUME NEW k \in Nat, k \in A PROVE k + 1 \in A
  <2>1. PICK it : it = [s \in SUBSET (1..k) |-> UniqueStep(in, it, s)]
    BY <1>2
  <2> DEFINE up == [s \in SUBSET (1..(k + 1)) |-> UniqueStep(in, it, s)]
  <2>2. \A s \in SUBSET (1..k) : up[s] = it[s]
    <3> TAKE s \in SUBSET (1..k)
    <3>1. s \in SUBSET (1..(k + 1))
      OBVIOUS
    <3>2. up[s] = UniqueStep(in, it, s)
      BY <3>1
    <3>3. it[s] = UniqueStep(in, it, s)
      BY <2>1, Zenon
    <3> QED
      BY <3>2, <3>3
  <2>3. \A s \in SUBSET (1..(k + 1)) : UniqueStep(in, up, s) = UniqueStep(in, it, s)
    <3> HIDE DEF up
    <3> QED
      BY <2>2, BelowMax DEF UniqueStep
  <2>4. up = [s \in SUBSET (1..(k + 1)) |-> UniqueStep(in, up, s)]
    <3> DEFINE F(t) == [s \in SUBSET (1..(k + 1)) |-> UniqueStep(in, t, s)]
    <3>1. F(it) = F(up)
      <4> HIDE DEF up
      <4> QED
        BY <2>3
    <3> QED
      BY <3>1
  <2>5. \E t : t = [s \in SUBSET (1..(k + 1)) |-> UniqueStep(in, t, s)]
    <3> HIDE DEF up
    <3> QED
      BY <2>4
  <2> QED
    BY <2>5
<1>3. A = Nat
  <2>1. A \in SUBSET Nat
    OBVIOUS
  <2> HIDE DEF A
  <2> QED
    BY <1>1, <1>2, <2>1, SetInduction
<1> QED
  BY <1>3

\* The results, index by index.
LEMMA UniqueRecursion ==
  ASSUME NEW in, NEW n \in Nat, DOMAIN in = 1..n
  PROVE  /\ uniqueStrings(in) = UniqueTable(in)[1..n]
         /\ UniqueTable(in)[1..0] = <<>>
         /\ \A k \in 1..n :
               LET out == UniqueTable(in)[1..(k - 1)]
               IN UniqueTable(in)[1..k] =
                     IF Trim[in[k]] \in ToSet(out) \cup {""} THEN out
                     ELSE Append(out, Trim[in[k]])
<1> DEFINE table == UniqueTable(in)
<1>1. table = [s \in SUBSET (1..n) |-> UniqueStep(in, table, s)]
  <2>1. \E it : it = [s \in SUBSET DOMAIN in |-> UniqueStep(in, it, s)]
    BY UniqueTableExists, Zenon
  <2>2. table = [s \in SUBSET DOMAIN in |-> UniqueStep(in, table, s)]
    BY <2>1, Zenon DEF UniqueTable
  <2> QED
    BY <2>2
<1>2. uniqueStrings(in) = table[1..n]
  BY UniqueIsFold
<1> HIDE DEF table
<1>3. table[1..0] = <<>>
  <2>1. 1..0 = {} /\ 1..0 \in SUBSET (1..n)
    OBVIOUS
  <2>2. table[1..0] = UniqueStep(in, table, 1..0)
    BY <1>1, <2>1
  <2> QED
    BY <2>1, <2>2 DEF UniqueStep
<1>4. ASSUME NEW k \in 1..n
      PROVE  LET out == table[1..(k - 1)]
             IN table[1..k] = IF Trim[in[k]] \in ToSet(out) \cup {""} THEN out
                              ELSE Append(out, Trim[in[k]])
  <2>1. Max(1..k) = k
    <3>1. k \in Nat /\ 1..k \in SUBSET (1..k) /\ k \in 1..k
      OBVIOUS
    <3>2. Max(1..k) \in 1..k /\ k <= Max(1..k)
      BY <3>1, MaxOf
    <3> QED
      BY <3>2
  <2>2. 1..k \in SUBSET (1..n) /\ 1..k # {} /\ (1..k) \ {k} = 1..(k - 1)
    OBVIOUS
  <2>3. table[1..k] = UniqueStep(in, table, 1..k)
    BY <1>1, <2>2
  <2> QED
    BY <2>1, <2>2, <2>3 DEF UniqueStep
<1> QED
  BY <1>2, <1>3, <1>4 DEF table

\* uniqueStrings drops blank texts and repeats, and trims the others.
LEMMA UniqueStringsAreUnique ==
  ASSUME NEW in \in Seq(Texts)
  PROVE  /\ uniqueStrings(in) \in Seq(Texts \ {""})
         /\ IsInjective(uniqueStrings(in))
<1> DEFINE n == Len(in)
           table == UniqueTable(in)
           Good(out) == out \in Seq(Texts \ {""}) /\ IsInjective(out)
           A == {k \in Nat : k <= n => Good(table[1..k])}
<1>1. n \in Nat /\ DOMAIN in = 1..n /\ in \in [1..n -> Texts]
  BY LenProperties
<1>2. /\ uniqueStrings(in) = table[1..n]
      /\ table[1..0] = <<>>
      /\ \A k \in 1..n :
            LET out == table[1..(k - 1)]
            IN table[1..k] = IF Trim[in[k]] \in ToSet(out) \cup {""} THEN out
                             ELSE Append(out, Trim[in[k]])
  BY <1>1, UniqueRecursion
<1> HIDE DEF n, table
<1>3. ASSUME NEW out \in Seq(Texts \ {""}), IsInjective(out),
             NEW t \in Texts \ {""}, t \notin ToSet(out)
      PROVE  Good(Append(out, t))
  BY <1>3, AppendKeepsInjective, Zenon
<1>4. 0 \in A
  <2>1. Good(<<>>)
    BY EmptyIsInjective
  <2> HIDE DEF Good
  <2> QED
    BY <1>2, <2>1
<1>5. ASSUME NEW k \in Nat, k \in A PROVE k + 1 \in A
  <2> HIDE DEF Good
  <2> SUFFICES ASSUME k + 1 <= n PROVE Good(table[1..(k + 1)])
    OBVIOUS
  <2> DEFINE out == table[1..k]
             t   == Trim[in[k + 1]]
  <2>1. Good(out)
    BY <1>1, <1>5
  <2>2. k + 1 \in 1..n /\ (k + 1) - 1 = k
    BY <1>1
  <2>3. table[1..(k + 1)] = IF t \in ToSet(out) \cup {""} THEN out ELSE Append(out, t)
    BY <1>2, <2>2
  <2>4. t \in Texts
    BY <1>1, <2>2, NotificationAssumption DEF NotificationAssumption
  <2>5. CASE t \in ToSet(out) \cup {""}
    BY <2>1, <2>3, <2>5
  <2>6. CASE t \notin ToSet(out) \cup {""}
    <3> HIDE DEF out, t
    <3>1. Good(Append(out, t))
      BY <1>3, <2>1, <2>4, <2>6 DEF Good
    <3> QED
      BY <2>3, <2>6, <3>1
  <2> QED
    BY <2>5, <2>6
<1>6. A = Nat
  <2>1. A \in SUBSET Nat
    OBVIOUS
  <2> HIDE DEF A
  <2> QED
    BY <1>4, <1>5, <2>1, SetInduction
<1>7. Good(table[1..n])
  <2> HIDE DEF Good
  <2> QED
    BY <1>1, <1>6
<1> QED
  BY <1>2, <1>7

-----------------------------------------------------------------------------
(* What notDisabled returns.                                               *)

\* One step of its fold: what is to be had for the indices s, if the table it
\* has the results for the sets below.
KeepStep(rs, in, it, s) ==
    IF s = {} THEN <<>>
    ELSE LET x   == Max(s)
             out == it[s \ {x}]
         IN IF rs[in[x]].stored => rs[in[x]].enabled THEN Append(out, in[x]) ELSE out

KeepTable(rs, in) ==
    CHOOSE it : it = [s \in SUBSET DOMAIN in |-> KeepStep(rs, in, it, s)]

\* notDisabled is the last entry of the table of its fold.
LEMMA KeepIsFold ==
  ASSUME NEW rs, NEW in
  PROVE  notDisabled(rs, in) = KeepTable(rs, in)[DOMAIN in]
BY DEF notDisabled, FoldLeft, MapThenFoldSet, KeepTable, KeepStep

\* The recursion of the fold has a solution.
LEMMA KeepTableExists ==
  ASSUME NEW rs, NEW in, NEW n \in Nat, DOMAIN in = 1..n
  PROVE  \E it : it = [s \in SUBSET DOMAIN in |-> KeepStep(rs, in, it, s)]
<1> DEFINE A == {k \in Nat : \E it : it = [s \in SUBSET (1..k) |-> KeepStep(rs, in, it, s)]}
<1>1. 0 \in A
  <2> DEFINE it == [s \in SUBSET (1..0) |-> <<>>]
  <2>1. \A s \in SUBSET (1..0) : KeepStep(rs, in, it, s) = <<>>
    <3>1. 1..0 = {}
      OBVIOUS
    <3> QED
      BY <3>1 DEF KeepStep
  <2>2. it = [s \in SUBSET (1..0) |-> KeepStep(rs, in, it, s)]
    BY <2>1
  <2> QED
    BY <2>2
<1>2. ASSUME NEW k \in Nat, k \in A PROVE k + 1 \in A
  <2>1. PICK it : it = [s \in SUBSET (1..k) |-> KeepStep(rs, in, it, s)]
    BY <1>2
  <2> DEFINE up == [s \in SUBSET (1..(k + 1)) |-> KeepStep(rs, in, it, s)]
  <2>2. \A s \in SUBSET (1..k) : up[s] = it[s]
    <3> TAKE s \in SUBSET (1..k)
    <3>1. s \in SUBSET (1..(k + 1))
      OBVIOUS
    <3>2. up[s] = KeepStep(rs, in, it, s)
      BY <3>1
    <3>3. it[s] = KeepStep(rs, in, it, s)
      BY <2>1, Zenon
    <3> QED
      BY <3>2, <3>3
  <2>3. \A s \in SUBSET (1..(k + 1)) : KeepStep(rs, in, up, s) = KeepStep(rs, in, it, s)
    <3> HIDE DEF up
    <3> QED
      BY <2>2, BelowMax DEF KeepStep
  <2>4. up = [s \in SUBSET (1..(k + 1)) |-> KeepStep(rs, in, up, s)]
    <3> DEFINE F(t) == [s \in SUBSET (1..(k + 1)) |-> KeepStep(rs, in, t, s)]
    <3>1. F(it) = F(up)
      <4> HIDE DEF up
      <4> QED
        BY <2>3
    <3> QED
      BY <3>1
  <2>5. \E t : t = [s \in SUBSET (1..(k + 1)) |-> KeepStep(rs, in, t, s)]
    <3> HIDE DEF up
    <3> QED
      BY <2>4
  <2> QED
    BY <2>5
<1>3. A = Nat
  <2>1. A \in SUBSET Nat
    OBVIOUS
  <2> HIDE DEF A
  <2> QED
    BY <1>1, <1>2, <2>1, SetInduction
<1> QED
  BY <1>3

\* The results, index by index.
LEMMA KeepRecursion ==
  ASSUME NEW rs, NEW in, NEW n \in Nat, DOMAIN in = 1..n
  PROVE  /\ notDisabled(rs, in) = KeepTable(rs, in)[1..n]
         /\ KeepTable(rs, in)[1..0] = <<>>
         /\ \A k \in 1..n :
               LET out == KeepTable(rs, in)[1..(k - 1)]
               IN KeepTable(rs, in)[1..k] =
                     IF rs[in[k]].stored => rs[in[k]].enabled THEN Append(out, in[k])
                     ELSE out
<1> DEFINE table == KeepTable(rs, in)
<1>1. table = [s \in SUBSET (1..n) |-> KeepStep(rs, in, table, s)]
  <2>1. \E it : it = [s \in SUBSET DOMAIN in |-> KeepStep(rs, in, it, s)]
    BY KeepTableExists, Zenon
  <2>2. table = [s \in SUBSET DOMAIN in |-> KeepStep(rs, in, table, s)]
    BY <2>1, Zenon DEF KeepTable
  <2> QED
    BY <2>2
<1>2. notDisabled(rs, in) = table[1..n]
  BY KeepIsFold
<1> HIDE DEF table
<1>3. table[1..0] = <<>>
  <2>1. 1..0 = {} /\ 1..0 \in SUBSET (1..n)
    OBVIOUS
  <2>2. table[1..0] = KeepStep(rs, in, table, 1..0)
    BY <1>1, <2>1
  <2> QED
    BY <2>1, <2>2 DEF KeepStep
<1>4. ASSUME NEW k \in 1..n
      PROVE  LET out == table[1..(k - 1)]
             IN table[1..k] = IF rs[in[k]].stored => rs[in[k]].enabled THEN Append(out, in[k])
                              ELSE out
  <2>1. Max(1..k) = k
    <3>1. k \in Nat /\ 1..k \in SUBSET (1..k) /\ k \in 1..k
      OBVIOUS
    <3>2. Max(1..k) \in 1..k /\ k <= Max(1..k)
      BY <3>1, MaxOf
    <3> QED
      BY <3>2
  <2>2. 1..k \in SUBSET (1..n) /\ 1..k # {} /\ (1..k) \ {k} = 1..(k - 1)
    OBVIOUS
  <2>3. table[1..k] = KeepStep(rs, in, table, 1..k)
    BY <1>1, <2>2
  <2> QED
    BY <2>1, <2>2, <2>3 DEF KeepStep
<1> QED
  BY <1>2, <1>3, <1>4 DEF table

\* notDisabled keeps the channels asked for apart.
LEMMA NotDisabledIsInjective ==
  ASSUME NEW rs, NEW S, NEW in \in Seq(S), IsInjective(in)
  PROVE  notDisabled(rs, in) \in Seq(S) /\ IsInjective(notDisabled(rs, in))
<1> DEFINE n == Len(in)
           table == KeepTable(rs, in)
           Good(out, k) == /\ out \in Seq(S) /\ IsInjective(out)
                           /\ ToSet(out) \subseteq {in[i] : i \in 1..k}
           A == {k \in Nat : k <= n => Good(table[1..k], k)}
<1>1. n \in Nat /\ DOMAIN in = 1..n /\ in \in [1..n -> S]
  BY LenProperties
<1>2. /\ notDisabled(rs, in) = table[1..n]
      /\ table[1..0] = <<>>
      /\ \A k \in 1..n :
            LET out == table[1..(k - 1)]
            IN table[1..k] = IF rs[in[k]].stored => rs[in[k]].enabled THEN Append(out, in[k])
                             ELSE out
  BY <1>1, KeepRecursion
<1>3. \A i, j \in 1..n : in[i] = in[j] => i = j
  BY <1>1 DEF IsInjective
<1> HIDE DEF n, table
<1>4. 0 \in A
  <2>1. Good(<<>>, 0)
    BY EmptyIsInjective DEF ToSet
  <2> HIDE DEF Good
  <2> QED
    BY <1>2, <2>1
<1>5. ASSUME NEW k \in Nat, k \in A PROVE k + 1 \in A
  <2> HIDE DEF Good
  <2> SUFFICES ASSUME k + 1 <= n PROVE Good(table[1..(k + 1)], k + 1)
    OBVIOUS
  <2> DEFINE out == table[1..k]
             t   == in[k + 1]
  <2>1. Good(out, k)
    BY <1>1, <1>5
  <2>2. k + 1 \in 1..n /\ (k + 1) - 1 = k /\ 1..k \subseteq 1..n
    BY <1>1
  <2>3. table[1..(k + 1)] = Append(out, t) \/ table[1..(k + 1)] = out
    BY <1>2, <2>2
  <2>4. {in[i] : i \in 1..(k + 1)} = {in[i] : i \in 1..k} \cup {t}
    BY <1>1, <2>2
  <2>5. t \in S /\ t \notin {in[i] : i \in 1..k}
    BY <1>1, <1>3, <2>2
  <2> HIDE DEF out, t
  <2>6. Good(out, k + 1)
    BY <2>1, <2>4 DEF Good
  <2>7. Good(Append(out, t), k + 1)
    <3>1. Append(out, t) \in Seq(S) /\ IsInjective(Append(out, t))
      BY <2>1, <2>5, AppendKeepsInjective DEF Good
    <3>2. ToSet(Append(out, t)) = ToSet(out) \cup {t}
      BY <2>1, <2>5, AppendAddsToSet DEF Good
    <3> QED
      BY <2>1, <2>4, <3>1, <3>2 DEF Good
  <2> QED
    BY <2>3, <2>6, <2>7
<1>6. A = Nat
  <2>1. A \in SUBSET Nat
    OBVIOUS
  <2> HIDE DEF A
  <2> QED
    BY <1>4, <1>5, <2>1, SetInduction
<1>7. Good(table[1..n], n)
  <2> HIDE DEF Good
  <2> QED
    BY <1>1, <1>6
<1> QED
  BY <1>2, <1>7

-----------------------------------------------------------------------------
(* What the start lets through.                                            *)

\* The site configuration that the start accepts knows its default target.
LEMMA TargetsKnowDefault ==
  ASSUME NEW s, NEW r \in EffectiveTargets(s)
  PROVE  r.default \in DOMAIN r.prefix \ {""}
<1> DEFINE names == Names(s.targets)
<1>1. CASE names = {}
  <2>1. PICK d : /\ d = IF Trim[s.defaultTarget] # "" THEN Trim[s.defaultTarget] ELSE "default"
                 /\ r = [default |-> d, prefix |-> [x \in {d} |-> <<Base>>]]
    BY <1>1 DEF EffectiveTargets
  <2> QED
    BY <2>1
<1>2. CASE names # {}
  <2>1. PICK d, f : /\ "" \notin names /\ d \in names
                    /\ DOMAIN f = names
                    /\ r = [default |-> d, prefix |-> f]
    <3> DEFINE d == IF Trim[s.defaultTarget] # "" THEN Trim[s.defaultTarget]
                    ELSE IF names = {} THEN "default"
                    ELSE IF Cardinality(names) = 1 THEN TheOnly(names)
                    ELSE ""
               Prefix(x, raw) == IF Trim[raw] # "" THEN <<Trim[raw]>>
                                 ELSE IF Cardinality(names) = 1 THEN <<Base>>
                                 ELSE <<Base, x>>
               F(map) == [x \in names |-> Prefix(x, map[x])]
    <3>1. EffectiveTargets(s) =
             IF "" \in names \/ d \notin names THEN {}
             ELSE {[default |-> d, prefix |-> F(map)] : map \in Trimmed(s.targets)}
      BY <1>2 DEF EffectiveTargets
    <3> HIDE DEF d, names, F
    <3>2. "" \notin names /\ d \in names
      BY <3>1
    <3>3. PICK map \in Trimmed(s.targets) : r = [default |-> d, prefix |-> F(map)]
      BY <3>1, <3>2
    <3>4. DOMAIN F(map) = names
      BY DEF F
    <3> QED
      BY <3>2, <3>3, <3>4
  <2> QED
    BY <2>1
<1> QED
  BY <1>1, <1>2

\* The Telegram configuration that the start accepts knows its default bot.
LEMMA BotsKnowDefault ==
  ASSUME NEW t, NEW r \in EffectiveBots(t)
  PROVE  r.default \in DOMAIN r.bots \ {""}
<1> DEFINE Bot(b)  == [token |-> Trim[b.token],
                       api   |-> IF Trim[b.api] # "" THEN Trim[b.api] ELSE PublicApi]
           legacy  == IF Trim[t.token] # "" THEN {"default"} ELSE {}
           names   == Names(t.bots) \cup legacy
           d == IF Trim[t.defaultBot] # "" THEN Trim[t.defaultBot]
                ELSE IF "default" \in names THEN "default"
                ELSE IF Cardinality(names) = 1 THEN TheOnly(names)
                ELSE ""
           F(map) == [x \in names |-> IF x \in legacy THEN Bot(t) ELSE Bot(map[x])]
<1>1. EffectiveBots(t) =
         IF \/ "" \in Names(t.bots)
            \/ \E k \in DOMAIN t.bots : Trim[t.bots[k].token] = ""
            \/ d \notin names
         THEN {}
         ELSE {[default |-> d, bots |-> F(map)] : map \in Trimmed(t.bots)}
  BY DEF EffectiveBots
<1>2. "" \notin legacy
  OBVIOUS
<1> HIDE DEF d, legacy, Bot
<1>3. d \in names /\ "" \notin names
  BY <1>1, <1>2
<1>4. PICK map \in Trimmed(t.bots) : r = [default |-> d, bots |-> F(map)]
  BY <1>1, <1>3
<1>5. DOMAIN F(map) = names
  OBVIOUS
<1> QED
  BY <1>3, <1>4, <1>5

-----------------------------------------------------------------------------
(* What GET shows and what is used.                                        *)

\* There are four channels.
LEMMA ChannelsFinite == \A S \in SUBSET Channels : IsFiniteSet(S)
<1>1. IsFiniteSet({"site"}) /\ IsFiniteSet({"telegram"})
      /\ IsFiniteSet({"email"}) /\ IsFiniteSet({"web_push"})
  BY FS_Singleton, Zenon
<1>2. IsFiniteSet({"site"} \cup {"telegram"}) /\ IsFiniteSet({"email"} \cup {"web_push"})
  BY <1>1, FS_Union
<1>3. IsFiniteSet(({"site"} \cup {"telegram"}) \cup ({"email"} \cup {"web_push"}))
  BY <1>2, FS_Union, Zenon
<1>4. Channels = ({"site"} \cup {"telegram"}) \cup ({"email"} \cup {"web_push"})
  BY DEF Channels
<1> QED
  BY <1>3, <1>4, FS_Subset

Preferred(rs, n) == {c \in Stored(rs) : rs[c].enabled /\ TopicMatches(rs[c].topics, n.topic)}

\* With no channels asked for, resolveChannels agrees with what MergeDefaults
\* shows, but for the site of a user who has another row.
\* resolveChannels and MergeDefaults agree, but for the site.
LEMMA ResolvedIsShown ==
  ASSUME NEW rs, NEW n, n.channels = <<>>
  PROVE  LET shown == MergeDefaults(rs)
             on    == {c \in DOMAIN shown :
                         shown[c].enabled /\ TopicMatches(shown[c].topics, n.topic)}
             site_ == IF Stored(rs) \ {"site"} # {} /\ ~rs["site"].stored
                      THEN {"site"} ELSE {}
         IN ToSet(resolveChannels(rs, n)) = on \ site_
<1> DEFINE shown == MergeDefaults(rs)
           On(c) == shown[c].enabled /\ TopicMatches(shown[c].topics, n.topic)
           site_ == IF Stored(rs) \ {"site"} # {} /\ ~rs["site"].stored THEN {"site"} ELSE {}
           on == {c \in DOMAIN shown : On(c)}
<1>1. DOMAIN shown = Stored(rs) \cup {"site", "web_push"}
  BY DEF MergeDefaults, Defaults
<1>2. \A c \in Stored(rs) : shown[c] = rs[c] /\ c \in Channels
  BY DEF MergeDefaults, Stored
<1>3. \A c \in {"site", "web_push"} \ Stored(rs) : On(c) <=> c = "site"
  <2> TAKE c \in {"site", "web_push"} \ Stored(rs)
  <2>1. ~rs[c].stored
    BY DEF Stored, Channels
  <2>2. shown[c] = Row(c = "site", EmptyConfig, <<>>)
    BY <2>1 DEF MergeDefaults, Defaults
  <2>3. shown[c].topics = <<>> /\ shown[c].enabled = (c = "site")
    BY <2>2 DEF Row
  <2>4. TopicMatches(<<>>, n.topic)
    BY DEF TopicMatches
  <2> HIDE DEF shown
  <2> QED
    BY <2>3, <2>4
<1>4. "site" \in Stored(rs) <=> rs["site"].stored
  BY DEF Stored, Channels
<1>5. on \ site_ = IF Stored(rs) = {} THEN {"site"} ELSE Preferred(rs, n)
  <2> HIDE DEF shown
  <2>1. CASE Stored(rs) = {}
    BY <1>1, <1>3, <2>1
  <2>2. CASE Stored(rs) # {}
    BY <1>1, <1>2, <1>3, <1>4, <2>2 DEF Preferred
  <2> QED
    BY <2>1, <2>2
<1>6. ToSet(resolveChannels(rs, n)) = IF Stored(rs) = {} THEN {"site"} ELSE Preferred(rs, n)
  <2>1. CASE Stored(rs) = {}
    <3>1. resolveChannels(rs, n) = <<"site">>
      BY <2>1 DEF resolveChannels
    <3>2. ToSet(<<"site">>) = {"site"}
      BY DEF ToSet
    <3> QED
      BY <2>1, <3>1, <3>2
  <2>2. CASE Stored(rs) # {}
    <3>1. resolveChannels(rs, n) = SetToSeq(Preferred(rs, n))
      BY <2>2 DEF resolveChannels, Preferred
    <3>2. IsFiniteSet(Preferred(rs, n))
      BY ChannelsFinite DEF Preferred, Stored
    <3> QED
      BY <2>2, <3>1, <3>2, SetToSeqLists
  <2> QED
    BY <2>1, <2>2
<1> QED
  BY <1>5, <1>6, Zenon

\* A channel is used once.
\* resolveChannels repeats no channel.
LEMMA ResolvedOnce ==
  ASSUME NEW rs, NEW n, n.channels \in Seq(Channels), IsInjective(n.channels)
  PROVE  resolveChannels(rs, n) \in Seq(Channels) /\ IsInjective(resolveChannels(rs, n))
<1>1. CASE n.channels # <<>>
  <2>1. resolveChannels(rs, n) = notDisabled(rs, n.channels)
    BY <1>1 DEF resolveChannels
  <2> QED
    BY <2>1, NotDisabledIsInjective
<1>2. CASE n.channels = <<>> /\ Stored(rs) = {}
  <2>1. resolveChannels(rs, n) = <<"site">>
    BY <1>2 DEF resolveChannels
  <2>2. <<"site">> \in Seq(Channels) /\ IsInjective(<<"site">>)
    BY DEF IsInjective, Channels
  <2> QED
    BY <2>1, <2>2
<1>3. CASE n.channels = <<>> /\ Stored(rs) # {}
  <2> DEFINE S == Preferred(rs, n)
  <2>1. resolveChannels(rs, n) = SetToSeq(S)
    BY <1>3 DEF resolveChannels, Preferred
  <2>2. S \in SUBSET Channels /\ IsFiniteSet(S)
    BY ChannelsFinite DEF Preferred, Stored
  <2> HIDE DEF S
  <2>3. SetToSeq(S) \in Seq(S) /\ IsInjective(SetToSeq(S))
    BY <2>2, SetToSeqLists
  <2>4. Seq(S) \subseteq Seq(Channels)
    BY <2>2
  <2> QED
    BY <2>1, <2>3, <2>4
<1> QED
  BY <1>1, <1>2, <1>3

-----------------------------------------------------------------------------
(* The inductive invariant.                                                *)

\* A notification as it is sent, or with the priority Normalize gives it.
Queued == [topic : Texts, title : Texts, priority : Texts \cup {"normal"},
           recipients : Seq(Texts), channels : Seq(Texts), target : Texts, bot : Texts]

\* What is configured knows its default.
Provided ==
    service = "up" =>
        /\ Configured("site") => site.default \in DOMAIN site.prefix \ {""}
        /\ Configured("telegram") => tg.default \in DOMAIN tg.bots \ {""}

\* Nothing is under way before the service is up.
Idle ==
    /\ queue \subseteq Queued
    /\ service # "up" => queue = {} /\ job = <<>>
    /\ job = <<>> => sent = <<>>
    /\ \E S : sent \in Seq(S)

\* The job, and what NextRecipient made of the preferences it read.
JobHolds ==
    job # <<>> =>
        /\ job = [item |-> job.item, note |-> job.note, users |-> job.users,
                  to |-> job.to, rows |-> job.rows, used |-> job.used, left |-> job.left]
        /\ job.note.channels \in Seq(Channels) /\ IsInjective(job.note.channels)
        /\ job.users \in Seq(Texts \ {""}) /\ IsInjective(job.users)
        /\ job.left \in Seq(Channels) /\ IsInjective(job.left)
        /\ job.to # "" => job.used = resolveChannels(job.rows, job.note)

\* Whom and what is still to come was not sent to before.
StillToCome ==
    job # <<>> =>
        /\ job.to \notin ToSet(job.users)
        /\ \A i \in DOMAIN sent :
              /\ sent[i].to \notin ToSet(job.users)
              /\ sent[i].to = job.to => sent[i].channel \notin ToSet(job.left)

RoutingInv ==
    Provided /\ Idle /\ JobHolds /\ StillToCome /\ OneSendEach /\ DefaultsNeverFail

-----------------------------------------------------------------------------
(* Facts about its parts.                                                  *)

\* Normalize leaves no repetition and no empty recipient.
LEMMA NormalizeKeeps ==
  ASSUME NEW n \in Queued
  PROVE  /\ Normalize(n) \in Queued
         /\ Normalize(n).recipients \in Seq(Texts \ {""}) /\ IsInjective(Normalize(n).recipients)
         /\ IsInjective(Normalize(n).channels)
<1> DEFINE m == Normalize(n)
           r == uniqueStrings(n.recipients)
           c == uniqueStrings(n.channels)
<1>1. /\ n.topic \in Texts /\ n.title \in Texts /\ n.priority \in Texts \cup {"normal"}
      /\ n.recipients \in Seq(Texts) /\ n.channels \in Seq(Texts)
  BY DEF Queued
<1>2. r \in Seq(Texts \ {""}) /\ IsInjective(r) /\ c \in Seq(Texts \ {""}) /\ IsInjective(c)
  BY <1>1, UniqueStringsAreUnique
<1>3. Seq(Texts \ {""}) \subseteq Seq(Texts)
  <2>1. \A A, B : A \subseteq B => Seq(A) \subseteq Seq(B)
    OBVIOUS
  <2> QED
    BY <2>1
<1>4. Trim[n.topic] \in Texts /\ Trim[n.title] \in Texts
  BY <1>1, NotificationAssumption DEF NotificationAssumption
<1>5. m = [n EXCEPT !.topic = Trim[n.topic], !.title = Trim[n.title], !.recipients = r,
                    !.channels = c, !.priority = IF n.priority = "" THEN "normal" ELSE n.priority]
  BY DEF Normalize
<1> HIDE DEF m, r, c
<1>6. m \in Queued /\ m.recipients = r /\ m.channels = c
  BY <1>1, <1>2, <1>3, <1>4, <1>5 DEF Queued
<1> QED
  BY <1>2, <1>6 DEF m

\* ValidateNotification lets only the four channels through.
LEMMA ValidChannels ==
  ASSUME NEW n \in Queued, Valid(n)
  PROVE  Normalize(n).channels \in Seq(Channels)
<1> DEFINE c == Normalize(n).channels
<1>1. c \in Seq(Texts)
  BY NormalizeKeeps DEF Queued
<1>2. ToSet(c) \subseteq Channels
  BY DEF Valid
<1> HIDE DEF c
<1>3. Len(c) \in Nat /\ DOMAIN c = 1..Len(c) /\ c \in [1..Len(c) -> Texts]
  BY <1>1, LenProperties
<1>4. c \in [1..Len(c) -> Channels]
  BY <1>2, <1>3 DEF ToSet
<1>5. c \in Seq(Channels)
  BY <1>3, <1>4
<1> QED
  BY <1>5 DEF c

\* What senders send has the types of what is queued.
LEMMA SendsAreQueued == \A n \in Sends : n \in Queued
BY RoutingAssumption DEF RoutingAssumption, Notifications, Queued

\* A job under way is not the empty one.
LEMMA JobIsNotEmpty ==
  ASSUME NEW a, NEW b, NEW c, NEW d, NEW e, NEW f, NEW g
  PROVE  [item |-> a, note |-> b, users |-> c, to |-> d, rows |-> e, used |-> f, left |-> g] # <<>>
<1> DEFINE j == [item |-> a, note |-> b, users |-> c, to |-> d, rows |-> e,
                 used |-> f, left |-> g]
<1>1. DOMAIN j = {"item", "note", "users", "to", "rows", "used", "left"}
  OBVIOUS
<1>2. DOMAIN <<>> = {}
  BY EmptyIsInjective
<1> QED
  BY <1>1, <1>2

-----------------------------------------------------------------------------
(* Every step keeps it.                                                    *)

\* Init has the invariant: the service is off.
LEMMA RoutingInitially == Init => RoutingInv
<1> SUFFICES ASSUME Init PROVE RoutingInv
  OBVIOUS
<1>1. sent \in Seq({}) /\ DOMAIN sent = {} /\ job = <<>> /\ queue = {} /\ service = "off"
  BY EmptyIsInjective DEF Init
<1> QED
  BY <1>1 DEF Init, RoutingInv, Provided, Idle, JobHolds, StillToCome, OneSendEach, DefaultsNeverFail

\* A start accepts only what knows its defaults.
LEMMA StartKeeps ==
  ASSUME RoutingInv, NEW c \in Configs, Start(c) \/ RefuseToStart(c)
  PROVE  RoutingInv'
<1> USE DEF RoutingInv
<1>1. service = "off" /\ job = <<>> /\ sent = <<>> /\ DOMAIN sent = {}
  <2>1. service = "off" /\ job = <<>> /\ sent = <<>>
    BY DEF Start, RefuseToStart, Idle
  <2> QED
    BY <2>1, EmptyIsInjective
<1>2. job' = <<>> /\ sent' = <<>> /\ DOMAIN sent' = {} /\ queue' = queue
  BY <1>1 DEF Start, RefuseToStart, sendVars
<1>3. Provided'
  <2>1. CASE RefuseToStart(c)
    BY <2>1 DEF RefuseToStart, Provided
  <2>2. CASE Start(c)
    <3>1. /\ config' = c
          /\ c.site.enabled => site' \in EffectiveTargets(c.site)
          /\ c.telegram.enabled => tg' \in EffectiveBots(WithDefaults(c.telegram))
      BY <2>2 DEF Start
    <3>2. Configured("site")' = c.site.enabled /\ Configured("telegram")' = c.telegram.enabled
      BY <3>1 DEF Configured
    <3>3. c.site.enabled => site'.default \in DOMAIN site'.prefix \ {""}
      BY <3>1, TargetsKnowDefault
    <3>4. c.telegram.enabled => tg'.default \in DOMAIN tg'.bots \ {""}
      BY <3>1, BotsKnowDefault
    <3> QED
      BY <3>2, <3>3, <3>4 DEF Provided
  <2> QED
    BY <2>1, <2>2
<1>4. Idle'
  BY <1>1, <1>2 DEF Idle
<1> QED
  BY <1>2, <1>3, <1>4 DEF JobHolds, StillToCome, OneSendEach, DefaultsNeverFail

\* PUTs and POSTs do not touch the job in hand.
\* PUT and POST change rows and queue only.
LEMMA RequestKeeps ==
  ASSUME RoutingInv, \/ \E p \in Puts : Put(p)
                     \/ \E n \in Sends : Ingest(n)
                     \/ UNCHANGED vars
  PROVE  RoutingInv'
<1>1. /\ UNCHANGED <<service, config, site, tg, job, sent>>
      /\ queue' \subseteq Queued
      /\ queue' = queue \/ service = "up"
  <2>1. ASSUME NEW p \in Puts, Put(p)
        PROVE  UNCHANGED <<service, config, site, tg, job, sent, queue>>
    BY <2>1 DEF Put, startVars, sendVars
  <2>2. ASSUME NEW n \in Sends, Ingest(n)
        PROVE  /\ UNCHANGED <<service, config, site, tg, job, sent>>
               /\ queue' \subseteq Queued /\ service = "up"
    <3>1. Normalize(n) \in Queued
      BY SendsAreQueued, NormalizeKeeps
    <3> QED
      BY <2>2, <3>1 DEF Ingest, startVars, prefVars, RoutingInv, Idle
  <2>3. CASE UNCHANGED vars
    BY <2>3 DEF vars, startVars, sendVars, RoutingInv, Idle
  <2> QED
    BY <2>1, <2>2, <2>3 DEF RoutingInv, Idle
<1>2. Provided'
  BY <1>1 DEF RoutingInv, Provided, Configured
<1>3. Idle'
  BY <1>1 DEF RoutingInv, Idle
<1>4. JobHolds' /\ StillToCome' /\ OneSendEach'
  BY <1>1 DEF RoutingInv, JobHolds, StillToCome, OneSendEach
<1>5. DefaultsNeverFail'
  BY <1>1 DEF RoutingInv, DefaultsNeverFail, Config
<1> QED
  BY <1>2, <1>3, <1>4, <1>5 DEF RoutingInv

\* A dispatch begins with recipients and channels without repetition.
LEMMA BeginKeeps ==
  ASSUME RoutingInv, NEW n \in queue, Begin(n)
  PROVE  RoutingInv'
<1> DEFINE m == Normalize(n)
<1>1. n \in Queued /\ Valid(n) /\ service = "up"
  BY DEF Begin, RoutingInv, Idle
<1>2. /\ m.recipients \in Seq(Texts \ {""}) /\ IsInjective(m.recipients)
      /\ m.channels \in Seq(Channels) /\ IsInjective(m.channels)
  BY <1>1, NormalizeKeeps, ValidChannels
<1> HIDE DEF m
<1>3. job' = [item |-> n, note |-> m, users |-> m.recipients,
              to |-> "", rows |-> rows, used |-> <<>>, left |-> <<>>]
  BY DEF Begin, m
<1>4. /\ job' # <<>>
      /\ job'.note = m /\ job'.users = m.recipients /\ job'.to = "" /\ job'.left = <<>>
      /\ sent' = <<>> /\ UNCHANGED <<service, config, site, tg, queue>>
  <2>1. job' # <<>>
    BY <1>3, JobIsNotEmpty
  <2>2. job'.note = m /\ job'.users = m.recipients /\ job'.to = "" /\ job'.left = <<>>
    BY <1>3
  <2>3. sent' = <<>> /\ UNCHANGED <<service, config, site, tg, queue>>
    BY DEF Begin, startVars
  <2> QED
    BY <2>1, <2>2, <2>3
<1>5. <<>> \in Seq(Channels) /\ IsInjective(<<>>) /\ DOMAIN <<>> = {}
  BY EmptyIsInjective
<1>6. "" \notin ToSet(m.recipients)
  <2> DEFINE r == m.recipients
  <2>1. DOMAIN r = 1..Len(r) /\ r \in [1..Len(r) -> Texts \ {""}]
    BY <1>2, LenProperties
  <2> HIDE DEF r
  <2>2. \A i \in DOMAIN r : r[i] # ""
    BY <2>1
  <2>3. "" \notin ToSet(r)
    BY <2>2 DEF ToSet
  <2> QED
    BY <2>3 DEF r
<1>7. Provided'
  BY <1>4 DEF RoutingInv, Provided, Configured
<1>8. Idle'
  BY <1>1, <1>4, <1>5 DEF RoutingInv, Idle
<1>9. JobHolds'
  <2>1. job' = [item |-> job'.item, note |-> job'.note, users |-> job'.users, to |-> job'.to,
                rows |-> job'.rows, used |-> job'.used, left |-> job'.left]
    BY <1>3
  <2> QED
    BY <1>2, <1>4, <1>5, <2>1 DEF JobHolds
<1> QED
  BY <1>4, <1>5, <1>6, <1>7, <1>8, <1>9
     DEF RoutingInv, StillToCome, OneSendEach, DefaultsNeverFail

\* The next recipient is one that nothing was sent to, with all its channels left.
LEMMA NextRecipientKeeps ==
  ASSUME RoutingInv, NextRecipient
  PROVE  RoutingInv'
<1> DEFINE used == resolveChannels(rows, job.note)
<1>1. /\ job # <<>> /\ job.users # <<>>
      /\ UNCHANGED <<service, config, site, tg, queue, sent>>
      /\ job' = [job EXCEPT !.users = Tail(@), !.to = Head(job.users), !.rows = rows,
                            !.used = used, !.left = used]
  BY DEF NextRecipient, startVars, prefVars
<1>2. /\ job = [item |-> job.item, note |-> job.note, users |-> job.users,
                to |-> job.to, rows |-> job.rows, used |-> job.used, left |-> job.left]
      /\ job.note.channels \in Seq(Channels) /\ IsInjective(job.note.channels)
      /\ job.users \in Seq(Texts \ {""}) /\ IsInjective(job.users)
  BY <1>1 DEF RoutingInv, JobHolds
<1>3. used \in Seq(Channels) /\ IsInjective(used)
  BY <1>2, ResolvedOnce
<1> HIDE DEF used
<1>4. job' = [item |-> job.item, note |-> job.note, users |-> Tail(job.users),
              to |-> Head(job.users), rows |-> rows, used |-> used, left |-> used]
  BY <1>1, <1>2
<1>5. /\ job' # <<>> /\ job'.note = job.note /\ job'.users = Tail(job.users)
      /\ job'.to = Head(job.users) /\ job'.rows = rows /\ job'.used = used /\ job'.left = used
  BY <1>4, JobIsNotEmpty
<1>6. /\ Head(job.users) \in ToSet(job.users) /\ Head(job.users) \notin ToSet(Tail(job.users))
      /\ Tail(job.users) \in Seq(Texts \ {""}) /\ IsInjective(Tail(job.users))
      /\ ToSet(Tail(job.users)) \subseteq ToSet(job.users)
  BY <1>1, <1>2, HeadAndTail
<1>7. Provided' /\ Idle' /\ OneSendEach'
  BY <1>1, <1>5 DEF RoutingInv, Provided, Configured, Idle, OneSendEach
<1>8. JobHolds'
  <2>1. job' = [item |-> job'.item, note |-> job'.note, users |-> job'.users, to |-> job'.to,
                rows |-> job'.rows, used |-> job'.used, left |-> job'.left]
    BY <1>4
  <2>2. job'.used = resolveChannels(job'.rows, job'.note)
    BY <1>5 DEF used
  <2> QED
    BY <1>2, <1>3, <1>5, <1>6, <2>1, <2>2 DEF JobHolds
<1>9. \A i \in DOMAIN sent : sent[i].to \notin ToSet(job.users)
  BY <1>1 DEF RoutingInv, StillToCome
<1>10. \A i \in DOMAIN sent' : sent'[i].to # job'.to /\ sent'[i].to \notin ToSet(job'.users)
  BY <1>1, <1>5, <1>6, <1>9
<1>11. StillToCome' /\ DefaultsNeverFail'
  BY <1>5, <1>6, <1>10 DEF StillToCome, DefaultsNeverFail
<1> QED
  BY <1>7, <1>8, <1>11 DEF RoutingInv

\* What excuses a send that fails on channel c: the preference or the
\* notification named something of their own.
Excused(c, note, prefs) ==
    LET pref == IF prefs[c].stored THEN prefs[c].config ELSE EmptyConfig IN
    \/ ~pref.ok
    \/ c = "site" /\ {Trim[note.target], Trim[pref.target]} # {""}
    \/ c = "telegram" /\ \/ {Trim[note.bot], Trim[pref.bot]} # {""}
                         \/ Trim[pref.chat] = ""

AllExcused(list, to, note, prefs) ==
    \A i \in DOMAIN list :
        list[i].to = to /\ list[i].where = "" => Excused(list[i].channel, note, prefs)

\* DefaultsNeverFail, said of the values it reads.
LEMMA DefaultsBySend ==
  /\ DefaultsNeverFail <=> AllExcused(sent, job.to, job.note, job.rows)
  /\ DefaultsNeverFail' <=> AllExcused(sent', job'.to, job'.note, job'.rows)
BY DEF DefaultsNeverFail, AllExcused, Excused, Config

\* The recipient, its rows and the notification stay; one channel less is left,
\* and it is the one sent on.
LEMMA NextChannelKeeps ==
  ASSUME RoutingInv, NextChannel
  PROVE  RoutingInv'
<1> DEFINE c == Head(job.left)
           where == CASE c = "site"     -> resolveTarget(job.note, Config(c))
                      [] c = "telegram" -> resolveBot(job.note, Config(c))
           new == [to |-> job.to, channel |-> c, where |-> where]
<1>1. /\ job # <<>> /\ job.left # <<>>
      /\ UNCHANGED <<service, config, site, tg, queue>>
      /\ job' = [job EXCEPT !.left = Tail(@)]
      /\ sent' = IF Configured(c) THEN Append(sent, new) ELSE sent
  BY DEF NextChannel, startVars, prefVars
<1>2. /\ job = [item |-> job.item, note |-> job.note, users |-> job.users,
                to |-> job.to, rows |-> job.rows, used |-> job.used, left |-> job.left]
      /\ job.note.channels \in Seq(Channels) /\ IsInjective(job.note.channels)
      /\ job.users \in Seq(Texts \ {""}) /\ IsInjective(job.users)
      /\ job.left \in Seq(Channels) /\ IsInjective(job.left)
      /\ job.to # "" => job.used = resolveChannels(job.rows, job.note)
  BY <1>1 DEF RoutingInv, JobHolds
<1>3. service = "up"
  BY <1>1 DEF RoutingInv, Idle
<1>4. /\ c \in Channels /\ c \in ToSet(job.left) /\ c \notin ToSet(Tail(job.left))
      /\ Tail(job.left) \in Seq(Channels) /\ IsInjective(Tail(job.left))
      /\ ToSet(Tail(job.left)) \subseteq ToSet(job.left)
  BY <1>1, <1>2, HeadAndTail
<1>5. Configured(c) =>
        \/ c = "site" /\ where = resolveTarget(job.note, Config(c))
        \/ c = "telegram" /\ where = resolveBot(job.note, Config(c))
  BY DEF Configured
<1>6. new.to = job.to /\ new.channel = c /\ new.where = where
  OBVIOUS
<1>7. job' = [item |-> job.item, note |-> job.note, users |-> job.users, to |-> job.to,
              rows |-> job.rows, used |-> job.used, left |-> Tail(job.left)]
  BY <1>1, <1>2
<1>8. /\ job' # <<>> /\ job'.note = job.note /\ job'.users = job.users /\ job'.to = job.to
      /\ job'.rows = job.rows /\ job'.used = job.used /\ job'.left = Tail(job.left)
  <2>1. job' # <<>>
    BY <1>7, JobIsNotEmpty
  <2> QED
    BY <1>7, <2>1
<1> HIDE DEF c, where, new
<1>9. JobHolds'
  <2>1. job' = [item |-> job'.item, note |-> job'.note, users |-> job'.users, to |-> job'.to,
                rows |-> job'.rows, used |-> job'.used, left |-> job'.left]
    BY <1>7
  <2> QED
    BY <1>2, <1>4, <1>8, <2>1 DEF JobHolds
<1>10. /\ \A i \in DOMAIN sent : i \in DOMAIN sent' /\ sent'[i] = sent[i]
       /\ \A i \in DOMAIN sent' :
             i \in DOMAIN sent \/ (Configured(c) /\ i = Len(sent) + 1 /\ sent'[i] = new)
       /\ Len(sent) + 1 \notin DOMAIN sent
       /\ \E S : sent' \in Seq(S)
  <2>1. PICK S : sent \in Seq(S)
    BY DEF RoutingInv, Idle
  <2> DEFINE a == Append(sent, new)
  <2>2. /\ \E T : a \in Seq(T)
        /\ DOMAIN sent \subseteq DOMAIN a
        /\ \A i \in DOMAIN sent : a[i] = sent[i]
        /\ \A i \in DOMAIN a : i \in DOMAIN sent \/ (i = Len(sent) + 1 /\ a[i] = new)
        /\ Len(sent) + 1 \notin DOMAIN sent
    BY <2>1, AppendElements
  <2> HIDE DEF a
  <2>3. sent' = IF Configured(c) THEN a ELSE sent
    BY <1>1 DEF a
  <2>4. CASE Configured(c)
    BY <2>2, <2>3, <2>4
  <2>5. CASE ~Configured(c)
    BY <2>1, <2>2, <2>3, <2>5
  <2> QED
    BY <2>4, <2>5
<1>11. Provided' /\ Idle'
  BY <1>1, <1>8, <1>10 DEF RoutingInv, Provided, Configured, Idle
<1>12. \A i \in DOMAIN sent :
          /\ sent[i].to \notin ToSet(job.users)
          /\ sent[i].to = job.to => sent[i].channel \notin ToSet(job.left)
  BY <1>1 DEF RoutingInv, StillToCome
<1>13. job.to \notin ToSet(job.users)
  BY <1>1 DEF RoutingInv, StillToCome
<1>14. StillToCome'
  <2>1. ASSUME NEW i \in DOMAIN sent'
        PROVE  /\ sent'[i].to \notin ToSet(job.users)
               /\ sent'[i].to = job.to => sent'[i].channel \notin ToSet(Tail(job.left))
    <3>1. CASE i \in DOMAIN sent
      BY <1>4, <1>10, <1>12, <3>1
    <3>2. CASE sent'[i] = new
      BY <1>4, <1>6, <1>13, <3>2
    <3> QED
      BY <1>10, <3>1, <3>2
  <2> QED
    BY <1>8, <1>13, <2>1 DEF StillToCome
<1>15. OneSendEach'
  <2>1. \A i \in DOMAIN sent : ~(sent[i].to = new.to /\ sent[i].channel = new.channel)
    BY <1>4, <1>6, <1>12
  <2>2. \A i, j \in DOMAIN sent :
           sent[i].to = sent[j].to /\ sent[i].channel = sent[j].channel => i = j
    BY DEF RoutingInv, OneSendEach
  <2>3. ASSUME NEW i \in DOMAIN sent', NEW j \in DOMAIN sent',
               sent'[i].to = sent'[j].to, sent'[i].channel = sent'[j].channel
        PROVE  i = j
    <3>1. CASE i \in DOMAIN sent /\ j \in DOMAIN sent
      BY <1>10, <2>2, <2>3, <3>1
    <3>2. CASE i \in DOMAIN sent /\ j \notin DOMAIN sent
      BY <1>10, <2>1, <2>3, <3>2
    <3>3. CASE i \notin DOMAIN sent /\ j \in DOMAIN sent
      BY <1>10, <2>1, <2>3, <3>3
    <3>4. CASE i \notin DOMAIN sent /\ j \notin DOMAIN sent
      BY <1>10, <3>4
    <3> QED
      BY <3>1, <3>2, <3>3, <3>4
  <2> QED
    BY <2>3 DEF OneSendEach
<1>16. DefaultsNeverFail'
  <2> SUFFICES ASSUME NEW i \in DOMAIN sent', sent'[i].to = job.to, sent'[i].where = ""
               PROVE  Excused(sent'[i].channel, job.note, job.rows)
    BY <1>8, DefaultsBySend DEF AllExcused
  <2>1. AllExcused(sent, job.to, job.note, job.rows)
    BY DefaultsBySend DEF RoutingInv
  <2>2. CASE i \in DOMAIN sent
    BY <1>10, <2>1, <2>2 DEF AllExcused
  <2>3. CASE sent'[i] = new /\ Configured(c)
    <3>1. sent'[i].channel = c /\ where = ""
      BY <1>6, <2>3
    <3>2. CASE c = "site" /\ where = resolveTarget(job.note, Config(c))
      <4>1. site.default \in DOMAIN site.prefix /\ site.default # ""
        BY <1>3, <2>3, <3>2 DEF RoutingInv, Provided
      <4> QED
        BY <3>1, <3>2, <4>1 DEF resolveTarget, Excused, Config
    <3>3. CASE c = "telegram" /\ where = resolveBot(job.note, Config(c))
      <4>1. tg.default \in DOMAIN tg.bots /\ tg.default # ""
        BY <1>3, <2>3, <3>3 DEF RoutingInv, Provided
      <4> QED
        BY <3>1, <3>3, <4>1 DEF resolveBot, Excused, Config
    <3> QED
      BY <1>5, <2>3, <3>2, <3>3
  <2> QED
    BY <1>10, <2>2, <2>3
<1> QED
  BY <1>9, <1>11, <1>14, <1>15, <1>16 DEF RoutingInv

\* A dispatch that ends leaves nothing in hand.
LEMMA FinishKeeps ==
  ASSUME RoutingInv, Finish
  PROVE  RoutingInv'
<1>1. /\ job' = <<>> /\ sent' = <<>> /\ queue' \subseteq queue
      /\ UNCHANGED <<service, config, site, tg>>
  BY DEF Finish, startVars
<1>2. <<>> \in Seq({}) /\ DOMAIN <<>> = {}
  BY EmptyIsInjective
<1>3. Provided' /\ Idle'
  BY <1>1, <1>2 DEF RoutingInv, Provided, Configured, Idle
<1> QED
  BY <1>1, <1>2, <1>3
     DEF RoutingInv, JobHolds, StillToCome, OneSendEach, DefaultsNeverFail

\* Each step keeps the invariant.
LEMMA RoutingStep == RoutingInv /\ [Next]_vars => RoutingInv'
<1> SUFFICES ASSUME RoutingInv, [Next]_vars PROVE RoutingInv'
  OBVIOUS
<1>1. ASSUME NEW c \in Configs, Start(c) \/ RefuseToStart(c) PROVE RoutingInv'
  BY <1>1, StartKeeps
<1>2. CASE \/ \E p \in Puts : Put(p)
           \/ \E n \in Sends : Ingest(n)
           \/ UNCHANGED vars
  BY <1>2, RequestKeeps
<1>3. ASSUME NEW n \in queue, Begin(n) PROVE RoutingInv'
  BY <1>3, BeginKeeps
<1>4. CASE NextRecipient
  BY <1>4, NextRecipientKeeps
<1>5. CASE NextChannel
  BY <1>5, NextChannelKeeps
<1>6. CASE Finish
  BY <1>6, FinishKeeps
<1> QED
  BY <1>1, <1>2, <1>3, <1>4, <1>5, <1>6 DEF Next

\* The inductive invariant holds of every behaviour: what the start let
\* through, what is in hand and what was sent fit together.
THEOREM RoutingInvariance == Spec => []RoutingInv
<1> QED
  BY RoutingInitially, RoutingStep, PTL DEF Spec

-----------------------------------------------------------------------------
(* What follows.                                                           *)

\* What the dispatcher uses for a notification that names no channels is what
\* GET /notifications/preferences shows, but for the site of a user who has a
\* row for another channel (resolveChannels and MergeDefaults).
THEOREM UsedIsShown == Spec => []ShownIsUsed
<1>1. RoutingInv => ShownIsUsed
  <2> SUFFICES ASSUME RoutingInv, job # <<>>, job.to # "", job.note.channels = <<>>
               PROVE  LET shown == MergeDefaults(job.rows)
                          on    == {c \in DOMAIN shown :
                                      /\ shown[c].enabled
                                      /\ TopicMatches(shown[c].topics, job.note.topic)}
                          site_ == IF Stored(job.rows) \ {"site"} # {} /\ ~job.rows["site"].stored
                                   THEN {"site"} ELSE {}
                      IN ToSet(job.used) = on \ site_
    BY Zenon DEF ShownIsUsed
  <2>1. job.used = resolveChannels(job.rows, job.note)
    BY DEF RoutingInv, JobHolds
  <2> DEFINE rs == job.rows
             n == job.note
  <2>2. n.channels = <<>>
    OBVIOUS
  <2> HIDE DEF rs, n
  <2>3. LET shown == MergeDefaults(rs)
            on    == {c \in DOMAIN shown :
                         shown[c].enabled /\ TopicMatches(shown[c].topics, n.topic)}
            site_ == IF Stored(rs) \ {"site"} # {} /\ ~rs["site"].stored
                     THEN {"site"} ELSE {}
        IN ToSet(resolveChannels(rs, n)) = on \ site_
    BY <2>2, ResolvedIsShown
  <2> QED
    BY <2>1, <2>3, Zenon DEF rs, n
<1> QED
  BY <1>1, RoutingInvariance, PTL

\* No start, however the keys of the maps are written and in whatever order
\* they are read, leaves a provider with a default it does not know.
THEOREM DefaultsAreKnown == Spec => []DefaultsNeverFail
<1>1. RoutingInv => DefaultsNeverFail
  BY DEF RoutingInv
<1> QED
  BY <1>1, RoutingInvariance, PTL

\* A dispatch sends once to each recipient on each channel, whatever the
\* sender repeats (uniqueStrings) and the preferences say.
THEOREM SentOnce == Spec => []OneSendEach
<1>1. RoutingInv => OneSendEach
  BY DEF RoutingInv
<1> QED
  BY <1>1, RoutingInvariance, PTL
=============================================================================
