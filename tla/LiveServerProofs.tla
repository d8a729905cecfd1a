-------------------------- MODULE LiveServerProofs --------------------------
(***************************************************************************)
(* Proofs about LiveServer, for every finite set of sessions, any set of   *)
(* agents and every bound.                                                 *)
(*                                                                         *)
(* The queue is an array that the server filters, slices and appends to.   *)
(* The first part says what the filters and slices keep; the second what   *)
(* each operation of the queue makes of a server whose queue is in order;  *)
(* the third takes the steps of the specification one by one.              *)
(***************************************************************************)
EXTENDS LiveServer, TLAPS, SequenceTheorems, FiniteSetTheorems, FunctionTheorems,
        WellFoundedInduction

-----------------------------------------------------------------------------
(* What an array lists *)

Less == {ss \in Nat \X Nat : ss[1] < ss[2]}

\* A property of numbers that fails somewhere fails somewhere first.
LEMMA LeastNumber ==
  ASSUME NEW S \in SUBSET Nat, S # {}
  PROVE  \E n \in S : \A m \in S : n <= m
<1>1. IsWellFoundedOn(Less, Nat)
  BY NatLessThanWellFounded, Zenon DEF OpToRel, Less
<1>2. PICK n \in S : \A m \in S : <<m, n>> \notin Less
  BY <1>1, WFMin, Zenon
<1>3. ASSUME NEW m \in S PROVE n <= m
  <2>1. m \in Nat /\ n \in Nat
    OBVIOUS
  <2>2. ~ m < n
    BY <1>2, <2>1 DEF Less
  <2> QED BY <2>1, <2>2
<1> QED BY <1>3

\* s lists nothing twice, but for the members of X.
Once(s, X) == \A i, j \in 1..Len(s) : s[i] = s[j] /\ s[i] \notin X => i = j

LEMMA Listing ==
  ASSUME NEW T, NEW s \in Seq(T)
  PROVE  /\ \A e : e \in ToSet(s) <=> \E i \in 1..Len(s) : s[i] = e
         /\ \A e : Contains(s, e) <=> e \in ToSet(s)
         /\ ToSet(s) \subseteq T
         /\ ToSet(s) = {} <=> s = <<>>
         /\ IsInjective(s) <=> Once(s, {})
         /\ s \in Seq(ToSet(s))
<1>1. Len(s) \in Nat /\ DOMAIN s = 1..Len(s) /\ s \in [1..Len(s) -> T]
  BY LenProperties
<1>2. \A e : e \in ToSet(s) <=> \E i \in 1..Len(s) : s[i] = e
  BY <1>1 DEF ToSet
<1>3. \A e : Contains(s, e) <=> e \in ToSet(s)
  BY <1>2 DEF Contains
<1>4. ToSet(s) \subseteq T
  BY <1>1, <1>2
<1>5. ToSet(s) = {} => s = <<>>
  <2>1. SUFFICES ASSUME ToSet(s) = {}, s # <<>> PROVE FALSE
    OBVIOUS
  <2>2. 1 \in 1..Len(s)
    BY <1>1, <2>1, EmptySeq
  <2> QED BY <1>2, <2>1, <2>2
<1>6. s = <<>> => ToSet(s) = {}
  BY <1>1, <1>2, EmptySeq
<1>7. IsInjective(s) <=> Once(s, {})
  BY <1>1 DEF IsInjective, Once
<1>8. s \in Seq(ToSet(s))
  <2>1. s \in [1..Len(s) -> ToSet(s)]
    BY <1>1, <1>2
  <2> QED BY <1>1, <2>1, SeqDef
<1> QED BY <1>2, <1>3, <1>4, <1>5, <1>6, <1>7, <1>8

LEMMA ListingOfNone ==
  <<>> \in Seq({}) /\ Len(<<>>) = 0 /\ ToSet(<<>>) = {} /\ \A X : Once(<<>>, X)
<1>1. <<>> \in Seq({}) /\ Len(<<>>) = 0
  BY EmptySeq
<1>2. ToSet(<<>>) = {}
  BY <1>1, Listing
<1>3. \A X : Once(<<>>, X)
  BY <1>1 DEF Once
<1> QED BY <1>1, <1>2, <1>3

LEMMA ListingOfAppend ==
  ASSUME NEW T, NEW s \in Seq(T), NEW e \in T
  PROVE  /\ Append(s, e) \in Seq(T)
         /\ ToSet(Append(s, e)) = ToSet(s) \cup {e}
         /\ \A X : Once(s, X) /\ (e \in ToSet(s) => e \in X) => Once(Append(s, e), X)
<1> DEFINE t == Append(s, e)
<1>1. /\ t \in Seq(T) /\ Len(s) \in Nat /\ Len(t) = Len(s) + 1
      /\ \A i \in 1..Len(s) : t[i] = s[i]
      /\ t[Len(s) + 1] = e
  BY AppendProperties, LenProperties
<1>2. ASSUME NEW i \in 1..Len(t) PROVE i \in 1..Len(s) \/ i = Len(s) + 1
  BY <1>1
<1> HIDE DEF t
<1>3. ToSet(t) = ToSet(s) \cup {e}
  <2>1. /\ \A x : x \in ToSet(t) <=> \E i \in 1..Len(t) : t[i] = x
        /\ \A x : x \in ToSet(s) <=> \E i \in 1..Len(s) : s[i] = x
    BY <1>1, Listing
  <2>2. ASSUME NEW x \in ToSet(t) PROVE x \in ToSet(s) \cup {e}
    BY <1>1, <1>2, <2>1
  <2>3. Len(s) + 1 \in 1..Len(t) /\ \A i \in 1..Len(s) : i \in 1..Len(t)
    BY <1>1
  <2>4. ASSUME NEW x \in ToSet(s) \cup {e} PROVE x \in ToSet(t)
    BY <1>1, <2>1, <2>3
  <2> QED BY <2>2, <2>4
<1>4. ASSUME NEW X, Once(s, X), e \in ToSet(s) => e \in X
      PROVE  Once(t, X)
  <2>1. \A i \in 1..Len(s) : s[i] \in ToSet(s)
    BY Listing
  <2>2. ASSUME NEW i \in 1..Len(t), NEW j \in 1..Len(t), t[i] = t[j], t[i] \notin X
        PROVE  i = j
    <3>1. CASE i \in 1..Len(s) /\ j \in 1..Len(s)
      BY <1>1, <1>4, <2>2, <3>1 DEF Once
    <3>2. CASE i \in 1..Len(s) /\ j = Len(s) + 1
      BY <1>1, <1>4, <2>1, <2>2, <3>2
    <3>3. CASE i = Len(s) + 1 /\ j \in 1..Len(s)
      <4>1. t[j] = s[j] /\ t[i] = e /\ s[j] \in ToSet(s)
        BY <1>1, <2>1, <3>3
      <4> QED BY <1>4, <2>2, <4>1
    <3> QED BY <1>2, <3>1, <3>2, <3>3
  <2> QED BY <2>2 DEF Once
<1> QED BY <1>1, <1>3, <1>4 DEF t

LEMMA ListingOfConcat ==
  ASSUME NEW T, NEW s \in Seq(T), NEW t \in Seq(T)
  PROVE  /\ s \o t \in Seq(T)
         /\ ToSet(s \o t) = ToSet(s) \cup ToSet(t)
         /\ \A X : Once(s, X) /\ Once(t, X) /\ ToSet(s) \cap ToSet(t) \subseteq X
                   => Once(s \o t, X)
<1> DEFINE u == s \o t
<1>1. /\ u \in Seq(T) /\ Len(s) \in Nat /\ Len(t) \in Nat /\ Len(u) = Len(s) + Len(t)
      /\ \A i \in 1..Len(s) + Len(t) : u[i] = IF i <= Len(s) THEN s[i] ELSE t[i - Len(s)]
  BY ConcatProperties, LenProperties
<1> HIDE DEF u
<1>2. ASSUME NEW i \in 1..Len(u)
      PROVE  \/ i \in 1..Len(s) /\ u[i] = s[i]
             \/ i - Len(s) \in 1..Len(t) /\ u[i] = t[i - Len(s)]
  BY <1>1
<1>3. /\ \A i \in 1..Len(s) : i \in 1..Len(u) /\ u[i] = s[i]
      /\ \A i \in 1..Len(t) : i + Len(s) \in 1..Len(u) /\ u[i + Len(s)] = t[i]
  <2>1. ASSUME NEW i \in 1..Len(s) PROVE i \in 1..Len(u) /\ u[i] = s[i]
    BY <1>1
  <2>2. ASSUME NEW i \in 1..Len(t)
        PROVE  i + Len(s) \in 1..Len(u) /\ u[i + Len(s)] = t[i]
    <3>1. /\ i + Len(s) \in 1..Len(s) + Len(t)
          /\ ~ i + Len(s) <= Len(s)
          /\ (i + Len(s)) - Len(s) = i
      BY <1>1
    <3> QED BY <1>1, <3>1
  <2> QED BY <2>1, <2>2
<1>4. ToSet(u) = ToSet(s) \cup ToSet(t)
  <2>1. /\ \A x : x \in ToSet(u) <=> \E i \in 1..Len(u) : u[i] = x
        /\ \A x : x \in ToSet(s) <=> \E i \in 1..Len(s) : s[i] = x
        /\ \A x : x \in ToSet(t) <=> \E i \in 1..Len(t) : t[i] = x
    BY <1>1, Listing
  <2>2. ASSUME NEW x \in ToSet(u) PROVE x \in ToSet(s) \cup ToSet(t)
    <3>1. PICK i \in 1..Len(u) : u[i] = x
      BY <2>1
    <3> QED BY <1>2, <2>1, <3>1
  <2>3. ASSUME NEW x \in ToSet(s) \cup ToSet(t) PROVE x \in ToSet(u)
    BY <1>3, <2>1
  <2> QED BY <2>2, <2>3
<1>5. ASSUME NEW X, Once(s, X), Once(t, X), ToSet(s) \cap ToSet(t) \subseteq X
      PROVE  Once(u, X)
  <2>1. /\ \A i \in 1..Len(s) : s[i] \in ToSet(s)
        /\ \A i \in 1..Len(t) : t[i] \in ToSet(t)
    BY Listing
  <2>2. ASSUME NEW i \in 1..Len(u), NEW j \in 1..Len(u), u[i] = u[j], u[i] \notin X
        PROVE  i = j
    <3>1. CASE i \in 1..Len(s) /\ u[i] = s[i] /\ j \in 1..Len(s) /\ u[j] = s[j]
      BY <1>5, <2>2, <3>1 DEF Once
    <3>2. CASE /\ i - Len(s) \in 1..Len(t) /\ u[i] = t[i - Len(s)]
               /\ j - Len(s) \in 1..Len(t) /\ u[j] = t[j - Len(s)]
      <4>1. i - Len(s) = j - Len(s)
        BY <1>5, <2>2, <3>2 DEF Once
      <4> QED BY <1>1, <4>1
    <3>3. ~ (u[i] \in ToSet(s) /\ u[i] \in ToSet(t))
      BY <1>5, <2>2
    <3> QED BY <1>2, <2>1, <2>2, <3>1, <3>2, <3>3
  <2> QED BY <2>2 DEF Once
<1> QED BY <1>1, <1>4, <1>5 DEF u

LEMMA ListingOfSlice ==
  ASSUME NEW T, NEW s \in Seq(T), NEW m \in 1..Len(s) + 1, NEW n \in 0..Len(s), m <= n + 1
  PROVE  /\ SubSeq(s, m, n) \in Seq(T)
         /\ \A e : e \in ToSet(SubSeq(s, m, n)) <=> \E i \in m..n : s[i] = e
         /\ \A X : Once(s, X) => Once(SubSeq(s, m, n), X)
<1> DEFINE t == SubSeq(s, m, n)
<1>1. Len(s) \in Nat /\ m \in Int /\ n \in Int /\ \A i \in m..n : i \in 1..Len(s)
  BY LenProperties
<1>2. \A i \in m..n : s[i] \in T
  BY <1>1, ElementOfSeq
<1>3. /\ t \in Seq(T)
      /\ Len(t) = IF m <= n THEN n - m + 1 ELSE 0
      /\ \A i \in 1..n - m + 1 : t[i] = s[m + i - 1]
  BY <1>1, <1>2, SubSeqProperties
<1> HIDE DEF t
<1>4. Len(t) = n - m + 1
  BY <1>1, <1>3
<1>5. ASSUME NEW i \in 1..Len(t)
      PROVE  m + i - 1 \in m..n /\ m + i - 1 \in 1..Len(s) /\ t[i] = s[m + i - 1]
  BY <1>1, <1>3, <1>4
<1>6. ASSUME NEW i \in m..n PROVE i - m + 1 \in 1..Len(t) /\ t[i - m + 1] = s[i]
  <2>1. i - m + 1 \in 1..Len(t)
    BY <1>1, <1>4
  <2>2. m + (i - m + 1) - 1 = i
    BY <1>1
  <2> QED BY <1>5, <2>1, <2>2
<1>7. \A e : e \in ToSet(t) <=> \E i \in 1..Len(t) : t[i] = e
  BY <1>3, Listing
<1>8. \A e : e \in ToSet(t) <=> \E i \in m..n : s[i] = e
  <2>1. ASSUME NEW e \in ToSet(t) PROVE \E i \in m..n : s[i] = e
    BY <1>5, <1>7
  <2>2. ASSUME NEW i \in m..n PROVE s[i] \in ToSet(t)
    BY <1>6, <1>7
  <2> QED BY <2>1, <2>2
<1>9. ASSUME NEW X, Once(s, X) PROVE Once(t, X)
  <2>1. ASSUME NEW i \in 1..Len(t), NEW j \in 1..Len(t), t[i] = t[j], t[i] \notin X
        PROVE  i = j
    <3>1. m + i - 1 = m + j - 1
      BY <1>5, <1>9, <2>1 DEF Once
    <3> QED BY <1>1, <3>1
  <2> QED BY <2>1 DEF Once
<1> QED BY <1>3, <1>8, <1>9 DEF t

LEMMA ListingOfTail ==
  ASSUME NEW T, NEW s \in Seq(T), s # <<>>
  PROVE  /\ Tail(s) \in Seq(T)
         /\ ToSet(Tail(s)) \subseteq ToSet(s)
         /\ \A X : Once(s, X) => Once(Tail(s), X)
<1> DEFINE l == Len(s)
<1>1. Tail(s) = SubSeq(s, 2, l)
  BY TailIsSubSeq
<1>2. l \in Nat \ {0}
  BY EmptySeq
<1>3. /\ 2 \in 1..l + 1 /\ l \in 0..l /\ 2 <= l + 1
      /\ \A i \in 2..l : i \in 1..l
  BY <1>2
<1>4. \A i \in 1..l : s[i] \in ToSet(s)
  BY Listing
<1>5. /\ SubSeq(s, 2, l) \in Seq(T)
      /\ \A e : e \in ToSet(SubSeq(s, 2, l)) <=> \E i \in 2..l : s[i] = e
      /\ \A X : Once(s, X) => Once(SubSeq(s, 2, l), X)
  BY <1>3, ListingOfSlice
<1> QED BY <1>1, <1>3, <1>4, <1>5

\* SetToSeq lists every member of a finite set, and none twice.
LEMMA SetInOrder ==
  ASSUME NEW S, IsFiniteSet(S)
  PROVE  /\ Cardinality(S) \in Nat
         /\ SetToSeq(S) \in [1..Cardinality(S) -> S]
         /\ \A i, j \in 1..Cardinality(S) : SetToSeq(S)[i] = SetToSeq(S)[j] => i = j
         /\ \A x \in S : \E i \in 1..Cardinality(S) : SetToSeq(S)[i] = x
<1> DEFINE D == 1..Cardinality(S)
           f == SetToSeq(S)
<1>1. Cardinality(S) \in Nat /\ ExistsBijection(D, S)
  BY FS_CardinalityType
<1>2. PICK g : g \in Bijection(D, S)
  BY <1>1 DEF ExistsBijection
<1>3. g \in [D -> S] /\ IsInjective(g)
  <2>1. g \in [D -> S] /\ \A a, b \in D : g[a] = g[b] => a = b
    BY <1>2, Fun_BijectionProperties
  <2>2. DOMAIN g = D
    BY <2>1
  <2> QED BY <2>1, <2>2 DEF IsInjective
<1>4. f \in [D -> S] /\ IsInjective(f)
  BY <1>3 DEF SetToSeq
<1>5. f \in Injection(D, S)
  BY <1>4 DEF Injection
<1>6. IsFiniteSet(D) /\ Cardinality(D) = Cardinality(S)
  BY <1>1, FS_Interval
<1>7. f \in Surjection(D, S)
  BY <1>5, <1>6, FS_Injection
<1> HIDE DEF f, D
<1>8. /\ \A a, b \in D : f[a] = f[b] => a = b
      /\ \A x \in S : \E i \in D : f[i] = x
  BY <1>5, <1>7, Fun_InjectionProperties, Fun_SurjectionProperties
<1> QED BY <1>1, <1>4, <1>8 DEF f, D

-----------------------------------------------------------------------------
(* Filters *)

\* P holds, for each n up to k, what is kept of the first n entries of s.
IsKept(P, s, S, k) ==
  P = [n \in 0..k |-> IF n = 0 THEN <<>>
                      ELSE IF s[n] \in S THEN Append(P[n - 1], s[n]) ELSE P[n - 1]]

\* What is kept exists for every length: the first length that had none could
\* be given it from the one before.
LEMMA KeptExists ==
  ASSUME NEW s, NEW S, NEW l \in Nat
  PROVE  \E P : IsKept(P, s, S, l)
<1> DEFINE Missing == {k \in Nat : ~ \E P : IsKept(P, s, S, k)}
<1> SUFFICES ASSUME Missing # {} PROVE FALSE
  OBVIOUS
<1>1. PICK k \in Missing : \A m \in Missing : k <= m
  BY LeastNumber
<1>2. CASE k = 0
  <2>1. IsKept([n \in 0..0 |-> <<>>], s, S, 0)
    BY DEF IsKept
  <2> QED BY <1>2, <2>1
<1>3. CASE k # 0
  <2>1. k - 1 \in Nat /\ k \in Nat /\ k - 1 \notin Missing
    BY <1>1, <1>3
  <2>2. PICK P : IsKept(P, s, S, k - 1)
    BY <2>1
  <2> DEFINE next == IF s[k] \in S THEN Append(P[k - 1], s[k]) ELSE P[k - 1]
             Q == [n \in 0..k |-> IF n = k THEN next ELSE P[n]]
  <2>3. ASSUME NEW n \in 0..k
        PROVE  Q[n] = IF n = 0 THEN <<>>
                      ELSE IF s[n] \in S THEN Append(Q[n - 1], s[n]) ELSE Q[n - 1]
    <3>1. CASE n = k
      <4>1. Q[n] = next /\ Q[n - 1] = P[n - 1]
        BY <2>1, <3>1
      <4> QED BY <1>3, <3>1, <4>1
    <3>2. CASE n # k
      <4>1. n \in 0..k - 1 /\ (n # 0 => n - 1 \in 0..k - 1)
        BY <2>1, <3>2
      <4>2. P[n] = IF n = 0 THEN <<>>
                   ELSE IF s[n] \in S THEN Append(P[n - 1], s[n]) ELSE P[n - 1]
        BY <2>2, <4>1 DEF IsKept
      <4>3. Q[n] = P[n] /\ (n # 0 => Q[n - 1] = P[n - 1])
        BY <2>1, <3>2, <4>1
      <4> QED BY <4>2, <4>3
    <3> QED BY <3>1, <3>2
  <2>4. IsKept(Q, s, S, k)
    BY <2>3 DEF IsKept
  <2> QED BY <2>4
<1> QED BY <1>2, <1>3

\* Keep(s, S) is what is kept of all of s.
LEMMA KeepIsKept ==
  ASSUME NEW s, NEW S, Len(s) \in Nat
  PROVE  \E P : IsKept(P, s, S, Len(s)) /\ Keep(s, S) = P[Len(s)]
<1> DEFINE P == CHOOSE P : IsKept(P, s, S, Len(s))
<1>1. IsKept(P, s, S, Len(s))
  BY KeptExists
<1>2. Keep(s, S) = P[Len(s)]
  BY DEF Keep, IsKept
<1> QED BY <1>1, <1>2

\* q lists the members of S among the first n entries of s.
Picks(q, s, S, n) == \A e : e \in ToSet(q) <=> e \in S /\ \E i \in 1..n : s[i] = e

\* What is kept of the first n entries is those of them that are in S.
LEMMA KeptListing ==
  ASSUME NEW T, NEW s \in Seq(T), NEW S, NEW P, IsKept(P, s, S, Len(s)),
         NEW n \in 0..Len(s)
  PROVE  P[n] \in Seq(T) /\ Picks(P[n], s, S, n)
<1> DEFINE Fine(k) == P[k] \in Seq(T) /\ Picks(P[k], s, S, k)
           Bad == {k \in 0..Len(s) : ~ Fine(k)}
<1> SUFFICES ASSUME Bad # {} PROVE FALSE
  OBVIOUS
<1>1. Len(s) \in Nat
  BY LenProperties
<1>2. PICK k \in Bad : \A m \in Bad : k <= m
  <2>1. Bad \in SUBSET Nat
    BY <1>1
  <2> QED BY <2>1, LeastNumber
<1>3. P[k] = IF k = 0 THEN <<>>
             ELSE IF s[k] \in S THEN Append(P[k - 1], s[k]) ELSE P[k - 1]
  BY DEF IsKept
<1>4. CASE k = 0
  <2>1. P[k] = <<>> /\ <<>> \in Seq(T) /\ ToSet(<<>>) = {}
    BY <1>3, <1>4, ListingOfNone, EmptySeq
  <2>2. Fine(k)
    BY <1>4, <2>1 DEF Picks
  <2> QED BY <2>2
<1>5. CASE k # 0
  <2>1. k - 1 \in 0..Len(s) /\ k - 1 \notin Bad /\ k \in 1..Len(s)
    <3>1. k \in 1..Len(s) /\ k - 1 \in 0..Len(s) /\ ~ k <= k - 1
      BY <1>1, <1>5
    <3> HIDE DEF Bad
    <3> QED BY <1>2, <3>1
  <2>2. Fine(k - 1) /\ s[k] \in T
    BY <2>1, ElementOfSeq
  <2>3. \A i : i \in 1..k <=> i \in 1..(k - 1) \/ i = k
    BY <1>1, <2>1
  <2>4. CASE s[k] \in S
    <3>1. P[k] \in Seq(T) /\ ToSet(P[k]) = ToSet(P[k - 1]) \cup {s[k]}
      BY <1>3, <1>5, <2>2, <2>4, ListingOfAppend
    <3>2. Fine(k)
      BY <2>2, <2>3, <2>4, <3>1 DEF Picks
    <3> QED BY <3>2
  <2>5. CASE s[k] \notin S
    <3>1. P[k] = P[k - 1]
      BY <1>3, <1>5, <2>5
    <3>2. Fine(k)
      BY <2>2, <2>3, <2>5, <3>1 DEF Picks
    <3> QED BY <3>2
  <2> QED BY <2>4, <2>5
<1> QED BY <1>4, <1>5

\* A filter lists nothing twice that was listed once.
LEMMA KeptOnce ==
  ASSUME NEW T, NEW s \in Seq(T), NEW S, NEW P, IsKept(P, s, S, Len(s)),
         NEW X, Once(s, X), NEW n \in 0..Len(s)
  PROVE  Once(P[n], X)
<1>0. ASSUME NEW j \in 0..Len(s) PROVE P[j] \in Seq(T) /\ Picks(P[j], s, S, j)
  BY KeptListing
<1> DEFINE Bad == {k \in 0..Len(s) : ~ Once(P[k], X)}
<1> SUFFICES ASSUME Bad # {} PROVE FALSE
  OBVIOUS
<1>1. Len(s) \in Nat
  BY LenProperties
<1>2. PICK k \in Bad : \A m \in Bad : k <= m
  <2>1. Bad \in SUBSET Nat
    BY <1>1
  <2> QED BY <2>1, LeastNumber
<1>3. P[k] = IF k = 0 THEN <<>>
             ELSE IF s[k] \in S THEN Append(P[k - 1], s[k]) ELSE P[k - 1]
  BY DEF IsKept
<1>4. CASE k = 0
  BY <1>3, <1>4, ListingOfNone
<1>5. CASE k # 0
  <2>1. k - 1 \in 0..Len(s) /\ k - 1 \notin Bad /\ k \in 1..Len(s) /\ s[k] \in T
    BY <1>1, <1>2, <1>5, ElementOfSeq
  <2>2. Once(P[k - 1], X)
    BY <2>1
  <2>3. P[k - 1] \in Seq(T) /\ Picks(P[k - 1], s, S, k - 1)
    BY <1>0, <2>1
  <2>4. s[k] \in ToSet(P[k - 1]) => s[k] \in X
    <3>1. SUFFICES ASSUME s[k] \in ToSet(P[k - 1]), s[k] \notin X PROVE FALSE
      OBVIOUS
    <3>2. PICK i \in 1..(k - 1) : s[i] = s[k]
      BY <2>3, <3>1 DEF Picks
    <3>3. i \in 1..Len(s) /\ i # k /\ s[i] \notin X
      BY <1>1, <2>1, <3>1, <3>2
    <3> QED BY <2>1, <3>2, <3>3 DEF Once
  <2>5. CASE s[k] \in S
    <3> DEFINE before == P[k - 1]
    <3>1. P[k] = Append(before, s[k])
      BY <1>3, <1>5, <2>5
    <3>2. before \in Seq(T) /\ Once(before, X) /\ (s[k] \in ToSet(before) => s[k] \in X)
      BY <2>2, <2>3, <2>4
    <3> HIDE DEF before
    <3>3. Once(Append(before, s[k]), X)
      BY <2>1, <3>2, ListingOfAppend
    <3> QED BY <3>1, <3>3
  <2>6. CASE s[k] \notin S
    BY <1>3, <1>5, <2>2, <2>6
  <2> QED BY <2>5, <2>6
<1> QED BY <1>4, <1>5

\* A filter keeps the listed members of S, and no more often than before.
LEMMA KeepListing ==
  ASSUME NEW T, NEW s \in Seq(T), NEW S
  PROVE  /\ Keep(s, S) \in Seq(T)
         /\ ToSet(Keep(s, S)) = ToSet(s) \cap S
         /\ \A X : Once(s, X) => Once(Keep(s, S), X)
<1>1. Len(s) \in Nat
  BY LenProperties
<1>2. PICK P : IsKept(P, s, S, Len(s)) /\ Keep(s, S) = P[Len(s)]
  BY <1>1, KeepIsKept
<1>3. Len(s) \in 0..Len(s)
  BY <1>1
<1>4. P[Len(s)] \in Seq(T) /\ Picks(P[Len(s)], s, S, Len(s))
  BY <1>2, <1>3, KeptListing
<1>5. \A X : Once(s, X) => Once(P[Len(s)], X)
  BY <1>2, <1>3, KeptOnce
<1>6. ToSet(P[Len(s)]) = ToSet(s) \cap S
  <2>1. \A e : e \in ToSet(s) <=> \E i \in 1..Len(s) : s[i] = e
    BY Listing
  <2> QED BY <1>4, <2>1 DEF Picks
<1> QED BY <1>2, <1>4, <1>5, <1>6

LEMMA WithoutListing ==
  ASSUME NEW T, NEW s \in Seq(T), NEW x
  PROVE  /\ Without(s, x) \in Seq(T)
         /\ ToSet(Without(s, x)) = ToSet(s) \ {x}
         /\ \A X : Once(s, X) => Once(Without(s, x), X)
         /\ Once(s, {x}) => Once(Without(s, x), {})
<1>1. /\ Without(s, x) \in Seq(T)
      /\ ToSet(Without(s, x)) = ToSet(s) \ {x}
      /\ \A X : Once(s, X) => Once(Without(s, x), X)
  BY KeepListing DEF Without
<1>2. ASSUME Once(s, {x}) PROVE Once(Without(s, x), {})
  <2>1. Once(Without(s, x), {x})
    BY <1>1, <1>2
  <2>2. \A i \in 1..Len(Without(s, x)) : Without(s, x)[i] # x
    BY <1>1, Listing
  <2> QED BY <2>1, <2>2 DEF Once
<1> QED BY <1>1, <1>2


-----------------------------------------------------------------------------
(* A server in order *)

\* Besides the types: leases are of queued events, and nothing that the code
\* tells apart is queued, leased or parked twice.
Orderly(s) ==
  /\ s \in Servers
  /\ ToSet(s.leases) \subseteq ToSet(s.pendingEvents) \ {Exit}
  /\ Once(s.leases, {})
  /\ Once(s.pendingPolls, {})
  /\ Once(s.pendingEvents, {Exit})

\* What holds between two requests.  A lease always has its timer; a parked
\* poll next to deliverable work has one too; and an exit, which is never
\* leased, is not left in the queue of a server somebody polls.
Settled(s) ==
  /\ Orderly(s)
  /\ s.leases # <<>> => s.leaseTimer # Nothing
  /\ s.pendingPolls # <<>> /\ Available(s) # <<>> => s.leaseTimer # Nothing
  /\ Exit \in ToSet(s.pendingEvents) => s.pendingPolls = <<>>

\* t differs from s at most in the timer and in what the page was told.
SameQueue(s, t) ==
  /\ t.up = s.up
  /\ t.pendingEvents = s.pendingEvents
  /\ t.pendingPolls = s.pendingPolls
  /\ t.leases = s.leases

LEMMA EventFacts ==
  /\ Exit \in Events /\ Nothing \notin Events
  /\ \A e \in Events : e.id = None <=> e = Exit
  /\ \A e \in Events : e # Exit => e \in [id : Sessions, type : WorkTypes]
  BY SessionsAssumption DEF Events, Exit, Nothing, WorkTypes, None

LEMMA ServerFields ==
  ASSUME NEW s \in Servers
  PROVE  /\ s.up \in BOOLEAN
         /\ s.pendingEvents \in Seq(Events)
         /\ s.pendingPolls \in Seq(Agents)
         /\ s.leases \in Seq(Events)
         /\ s.leaseTimer \in Events \cup {Nothing}
         /\ s.told \in {None, "polling", "silent"}
  BY DEF Servers

LEMMA Broadcast ==
  ASSUME NEW s \in Servers
  PROVE  /\ broadcastAgentPollingIfChanged(s) \in Servers
         /\ SameQueue(s, broadcastAgentPollingIfChanged(s))
         /\ broadcastAgentPollingIfChanged(s).leaseTimer = s.leaseTimer
<1>1. Polling(s) \in {None, "polling", "silent"}
  BY DEF Polling
<1> QED BY <1>1 DEF broadcastAgentPollingIfChanged, SameQueue, Servers

LEMMA Schedule ==
  ASSUME NEW s \in Servers
  PROVE  /\ scheduleLeaseFlush(s) \in Servers
         /\ SameQueue(s, scheduleLeaseFlush(s))
         /\ s.leases # <<>> => scheduleLeaseFlush(s).leaseTimer # Nothing
<1> DEFINE timer == IF s.leases = <<>> THEN Nothing ELSE Head(s.leases)
<1>1. timer \in Events \cup {Nothing} /\ (s.leases # <<>> => timer # Nothing)
  BY ServerFields, HeadTailProperties, EventFacts
<1>2. scheduleLeaseFlush(s) = [s EXCEPT !.leaseTimer = timer]
  BY DEF scheduleLeaseFlush
<1> HIDE DEF timer
<1> QED BY <1>1, <1>2 DEF SameQueue, Servers

LEMMA SameQueueIsOrderly ==
  ASSUME NEW s, NEW t \in Servers, Orderly(s), SameQueue(s, t)
  PROVE  Orderly(t) /\ Available(t) = Available(s)
  BY DEF Orderly, SameQueue, Available

\* What can be handed over: the queued events that are not leased.
LEMMA AvailableListing ==
  ASSUME NEW s, Orderly(s)
  PROVE  /\ Available(s) \in Seq(Events)
         /\ ToSet(Available(s)) = ToSet(s.pendingEvents) \ ToSet(s.leases)
         /\ Once(Available(s), {Exit})
<1>1. s.pendingEvents \in Seq(Events) /\ Once(s.pendingEvents, {Exit})
  BY ServerFields DEF Orderly
<1> QED BY <1>1, KeepListing DEF Available

\* An exit is never leased, so it is there to be handed over.
LEMMA ExitIsAvailable ==
  ASSUME NEW s, Orderly(s)
  PROVE  Exit \in ToSet(Available(s)) <=> Exit \in ToSet(s.pendingEvents)
  BY AvailableListing DEF Orderly

LEMMA ServedCount ==
  ASSUME NEW s, Orderly(s)
  PROVE  /\ Served(s) \in Nat
         /\ Served(s) \in 0..Len(s.pendingPolls) /\ Served(s) \in 0..Len(Available(s))
         /\ Served(s) = Len(s.pendingPolls) \/ Served(s) = Len(Available(s))
<1>1. Len(s.pendingPolls) \in Nat /\ Len(Available(s)) \in Nat
  BY ServerFields, AvailableListing, LenProperties DEF Orderly
<1> QED BY <1>1 DEF Served

\* flushPendingPolls leaves a settled server, whatever polls and events it
\* found: polls are left over only when everything deliverable was given out.
LEMMA Flush ==
  ASSUME NEW s, Orderly(s)
  PROVE  LET t == flushPendingPolls(s)
         IN  /\ Settled(t)
             /\ t.up = s.up
             /\ ToSet(t.pendingEvents) \ {Exit} = ToSet(s.pendingEvents) \ {Exit}
             /\ t.pendingPolls = SubSeq(s.pendingPolls, Served(s) + 1, Len(s.pendingPolls))
<1> DEFINE n == Served(s)
           polls == s.pendingPolls
           given == SubSeq(Available(s), 1, n)
           after == [s EXCEPT
             !.pendingPolls = SubSeq(@, n + 1, Len(@)),
             !.leases = @ \o Without(given, Exit),
             !.pendingEvents = IF Contains(given, Exit) THEN Without(@, Exit) ELSE @]
           armed == scheduleLeaseFlush(after)
           t == flushPendingPolls(s)
<1>1. t = IF s.pendingPolls = <<>> THEN armed ELSE broadcastAgentPollingIfChanged(armed)
  BY DEF flushPendingPolls
<1>2. /\ s \in Servers /\ s.pendingEvents \in Seq(Events) /\ s.leases \in Seq(Events)
      /\ polls \in Seq(Agents)
      /\ ToSet(s.leases) \subseteq ToSet(s.pendingEvents) \ {Exit}
      /\ Once(s.leases, {}) /\ Once(polls, {}) /\ Once(s.pendingEvents, {Exit})
  BY ServerFields DEF Orderly
<1>3. /\ n \in Nat /\ n \in 0..Len(polls) /\ n \in 0..Len(Available(s))
      /\ n = Len(polls) \/ n = Len(Available(s))
      /\ Len(polls) \in Nat /\ Len(Available(s)) \in Nat
  BY <1>2, ServedCount, AvailableListing, LenProperties
<1>4. /\ Available(s) \in Seq(Events) /\ Once(Available(s), {Exit})
      /\ ToSet(Available(s)) = ToSet(s.pendingEvents) \ ToSet(s.leases)
      /\ Exit \in ToSet(Available(s)) <=> Exit \in ToSet(s.pendingEvents)
  BY AvailableListing, ExitIsAvailable
<1> HIDE DEF n
<1>5. /\ given \in Seq(Events) /\ Once(given, {Exit})
      /\ ToSet(given) \subseteq ToSet(Available(s))
      /\ n = Len(Available(s)) => ToSet(given) = ToSet(Available(s))
  <2>1. 1 \in 1..Len(Available(s)) + 1 /\ 1 <= n + 1 /\ \A i \in 1..n : i \in 1..Len(Available(s))
    BY <1>3
  <2>2. /\ given \in Seq(Events) /\ Once(given, {Exit})
        /\ \A e : e \in ToSet(given) <=> \E i \in 1..n : Available(s)[i] = e
    BY <1>3, <1>4, <2>1, ListingOfSlice
  <2>3. \A e : e \in ToSet(Available(s)) <=> \E i \in 1..Len(Available(s)) : Available(s)[i] = e
    BY <1>4, Listing
  <2> QED BY <2>1, <2>2, <2>3
<1> HIDE DEF given
<1>6. /\ Without(given, Exit) \in Seq(Events)
      /\ ToSet(Without(given, Exit)) = ToSet(given) \ {Exit}
      /\ Once(Without(given, Exit), {})
  BY <1>5, WithoutListing
<1>7. /\ after.leases \in Seq(Events)
      /\ ToSet(after.leases) = ToSet(s.leases) \cup (ToSet(given) \ {Exit})
      /\ Once(after.leases, {})
  <2>1. after.leases = s.leases \o Without(given, Exit)
    BY <1>2 DEF Servers
  <2>2. ToSet(s.leases) \cap ToSet(Without(given, Exit)) \subseteq {}
    BY <1>4, <1>5, <1>6
  <2> QED BY <1>2, <1>6, <2>1, <2>2, ListingOfConcat
<1>8. /\ after.pendingEvents \in Seq(Events)
      /\ ToSet(after.pendingEvents) = IF Exit \in ToSet(given) THEN ToSet(s.pendingEvents) \ {Exit}
                                      ELSE ToSet(s.pendingEvents)
      /\ Once(after.pendingEvents, {Exit})
  <2>1. after.pendingEvents = IF Exit \in ToSet(given) THEN Without(s.pendingEvents, Exit)
                              ELSE s.pendingEvents
    BY <1>2, <1>5, Listing DEF Servers
  <2>2. /\ Without(s.pendingEvents, Exit) \in Seq(Events)
        /\ ToSet(Without(s.pendingEvents, Exit)) = ToSet(s.pendingEvents) \ {Exit}
        /\ Once(Without(s.pendingEvents, Exit), {Exit})
    BY <1>2, WithoutListing
  <2> HIDE DEF after
  <2> QED BY <1>2, <2>1, <2>2
<1>9. /\ after.pendingPolls = SubSeq(polls, n + 1, Len(polls))
      /\ after.pendingPolls \in Seq(Agents) /\ Once(after.pendingPolls, {})
      /\ after.pendingPolls # <<>> => n = Len(Available(s))
  <2>1. after.pendingPolls = SubSeq(polls, n + 1, Len(polls))
    BY <1>2 DEF Servers
  <2>2. n + 1 \in 1..Len(polls) + 1 /\ Len(polls) \in 0..Len(polls) /\ n + 1 <= Len(polls) + 1
    BY <1>3
  <2>3. SubSeq(polls, n + 1, Len(polls)) \in Seq(Agents) /\ Once(SubSeq(polls, n + 1, Len(polls)), {})
    BY <1>2, <2>2, ListingOfSlice
  <2>4. n = Len(polls) => SubSeq(polls, n + 1, Len(polls)) = <<>>
    BY <1>3, SubSeqEmpty
  <2> QED BY <1>3, <2>1, <2>3, <2>4
<1>10. after \in Servers /\ after.up = s.up
  BY <1>2, <1>7, <1>8, <1>9 DEF Servers
<1> HIDE DEF after
<1>11. Orderly(after)
  BY <1>2, <1>4, <1>5, <1>7, <1>8, <1>9, <1>10 DEF Orderly
<1>12. armed \in Servers /\ SameQueue(after, armed) /\ (after.leases # <<>> => armed.leaseTimer # Nothing)
  BY <1>10, Schedule
<1> HIDE DEF armed
<1>13. t \in Servers /\ SameQueue(after, t) /\ (after.leases # <<>> => t.leaseTimer # Nothing)
  BY <1>1, <1>12, Broadcast DEF SameQueue
<1> HIDE DEF t
<1>14. Orderly(t) /\ Available(t) = Available(after)
  BY <1>11, <1>13, SameQueueIsOrderly
<1>15. after.pendingPolls # <<>> => Available(after) = <<>> /\ Exit \notin ToSet(after.pendingEvents)
  <2>1. SUFFICES ASSUME after.pendingPolls # <<>>
                 PROVE  Available(after) = <<>> /\ Exit \notin ToSet(after.pendingEvents)
    OBVIOUS
  <2>2. ToSet(given) = ToSet(s.pendingEvents) \ ToSet(s.leases)
    BY <1>4, <1>5, <1>9, <2>1
  <2>3. Exit \notin ToSet(after.pendingEvents)
    BY <1>2, <1>8, <2>2
  <2>4. ToSet(after.pendingEvents) \ ToSet(after.leases) = {}
    BY <1>7, <1>8, <2>2, <2>3
  <2>5. Available(after) \in Seq(Events) /\ ToSet(Available(after)) = {}
    BY <1>11, <2>4, AvailableListing
  <2> QED BY <2>3, <2>5, Listing
<1>16. Settled(t)
  BY <1>13, <1>14, <1>15 DEF Settled, SameQueue
<1>17. ToSet(t.pendingEvents) \ {Exit} = ToSet(s.pendingEvents) \ {Exit}
  BY <1>8, <1>13 DEF SameQueue
<1> QED BY <1>9, <1>10, <1>13, <1>16, <1>17 DEF SameQueue, t, n


\* A server that has just started, or is gone, is settled.
LEMMA EmptyIsSettled ==
  ASSUME NEW s \in Servers,
         s.pendingEvents = <<>>, s.pendingPolls = <<>>, s.leases = <<>>
  PROVE  Settled(s)
<1>1. Orderly(s)
  BY ListingOfNone DEF Orderly
<1> QED BY <1>1, ListingOfNone DEF Settled

\* Duplicates are dropped, so what is queued is new to the queue or an exit.
LEMMA Enqueued ==
  ASSUME NEW s, Orderly(s), NEW event \in Events, ~ IsDuplicate(s, event)
  PROVE  LET t == enqueueEvent(s, event)
         IN  /\ Orderly(t) /\ t.up = s.up /\ t.pendingPolls = s.pendingPolls
             /\ ToSet(t.pendingEvents) = ToSet(s.pendingEvents) \cup {event}
<1> DEFINE t == enqueueEvent(s, event)
           queue == Append(s.pendingEvents, event)
<1>1. s \in Servers /\ s.pendingEvents \in Seq(Events)
  BY ServerFields DEF Orderly
<1>2. t = [s EXCEPT !.pendingEvents = queue]
  BY DEF enqueueEvent
<1>3. event \in ToSet(s.pendingEvents) => event \in {Exit}
  BY <1>1, Listing, EventFacts DEF IsDuplicate
<1>4. /\ queue \in Seq(Events) /\ ToSet(queue) = ToSet(s.pendingEvents) \cup {event}
      /\ Once(queue, {Exit})
  BY <1>1, <1>3, ListingOfAppend DEF Orderly
<1> HIDE DEF queue
<1>5. /\ t \in Servers /\ t.up = s.up /\ t.pendingPolls = s.pendingPolls
      /\ t.pendingEvents = queue /\ t.leases = s.leases
  BY <1>1, <1>2, <1>4 DEF Servers
<1> HIDE DEF t
<1>6. Orderly(t)
  BY <1>4, <1>5 DEF Orderly
<1> QED BY <1>4, <1>5, <1>6 DEF t

\* EventsOf finds the queued events with the id.
LEMMA EventsOfListing ==
  ASSUME NEW s \in Servers, NEW id
  PROVE  /\ EventsOf(s, id) \in Seq(Events)
         /\ ToSet(EventsOf(s, id)) = {e \in ToSet(s.pendingEvents) : e.id = id}
         /\ EventsOf(s, id) # <<>> => /\ Head(EventsOf(s, id)) \in ToSet(s.pendingEvents)
                                      /\ Head(EventsOf(s, id)).id = id
<1> DEFINE mine == EventsOf(s, id)
<1>1. s.pendingEvents \in Seq(Events)
  BY ServerFields
<1>2. mine \in Seq(Events) /\ ToSet(mine) = {e \in ToSet(s.pendingEvents) : e.id = id}
  BY <1>1, KeepListing DEF EventsOf
<1> HIDE DEF mine
<1>3. mine # <<>> => Head(mine) \in ToSet(mine)
  BY <1>2, Listing, HeadTailProperties
<1> QED BY <1>2, <1>3 DEF mine

\* An acknowledgement takes nothing out of the queue but events of its id,
\* and the lease together with the event.
LEMMA Acknowledged ==
  ASSUME NEW s, Orderly(s), NEW id \in Sessions
  PROVE  LET t == acknowledgePendingEvent(s, id)
         IN  /\ Orderly(t) /\ t.up = s.up /\ t.pendingPolls = s.pendingPolls
             /\ ToSet(t.pendingEvents) \subseteq ToSet(s.pendingEvents)
             /\ \A e \in ToSet(s.pendingEvents) : e.id # id => e \in ToSet(t.pendingEvents)
             /\ EventsOf(s, id) = <<>> => t = s
<1> DEFINE t == acknowledgePendingEvent(s, id)
<1>1. CASE EventsOf(s, id) = <<>>
  BY <1>1 DEF acknowledgePendingEvent
<1>2. CASE EventsOf(s, id) # <<>>
  <2> DEFINE acked == Head(EventsOf(s, id))
             after == [s EXCEPT !.pendingEvents = Without(@, acked),
                                !.leases = Without(@, acked)]
  <2>1. t = broadcastAgentPollingIfChanged(scheduleLeaseFlush(after))
    BY <1>2 DEF acknowledgePendingEvent
  <2>2. /\ s \in Servers /\ s.pendingEvents \in Seq(Events) /\ s.leases \in Seq(Events)
        /\ ToSet(s.leases) \subseteq ToSet(s.pendingEvents) \ {Exit}
        /\ Once(s.leases, {}) /\ Once(s.pendingPolls, {}) /\ Once(s.pendingEvents, {Exit})
    BY ServerFields DEF Orderly
  <2>3. acked.id = id
    BY <1>2, <2>2, EventsOfListing
  <2> HIDE DEF acked
  <2>4. /\ Without(s.pendingEvents, acked) \in Seq(Events)
        /\ ToSet(Without(s.pendingEvents, acked)) = ToSet(s.pendingEvents) \ {acked}
        /\ Once(Without(s.pendingEvents, acked), {Exit})
    BY <2>2, WithoutListing
  <2>5. /\ Without(s.leases, acked) \in Seq(Events)
        /\ ToSet(Without(s.leases, acked)) = ToSet(s.leases) \ {acked}
        /\ Once(Without(s.leases, acked), {})
    BY <2>2, WithoutListing
  <2>6. /\ after \in Servers /\ after.up = s.up /\ after.pendingPolls = s.pendingPolls
        /\ after.pendingEvents = Without(s.pendingEvents, acked)
        /\ after.leases = Without(s.leases, acked)
    BY <2>2, <2>4, <2>5 DEF Servers
  <2> HIDE DEF after
  <2>7. Orderly(after)
    BY <2>2, <2>4, <2>5, <2>6 DEF Orderly
  <2>8. t \in Servers /\ SameQueue(after, t)
    BY <2>1, <2>6, Schedule, Broadcast DEF SameQueue
  <2> HIDE DEF t
  <2>9. Orderly(t)
    BY <2>7, <2>8, SameQueueIsOrderly
  <2> QED BY <1>2, <2>3, <2>4, <2>6, <2>8, <2>9 DEF SameQueue, t
<1> QED BY <1>1, <1>2

\* Cancelling the exits can leave a poll without a timer only where nothing
\* is leased; but next to a parked poll there was no exit to cancel.
LEMMA ExitsCancelled ==
  ASSUME NEW s, Settled(s)
  PROVE  LET t == cancelQueuedAnonymousExitEvents(s)
         IN  /\ Settled(t) /\ t.up = s.up /\ t.pendingPolls = s.pendingPolls
             /\ ToSet(t.pendingEvents) = ToSet(s.pendingEvents) \ {Exit}
<1> DEFINE t == cancelQueuedAnonymousExitEvents(s)
           after == [s EXCEPT !.pendingEvents = Without(@, Exit)]
<1>1. /\ s \in Servers /\ s.pendingEvents \in Seq(Events)
      /\ ToSet(s.leases) \subseteq ToSet(s.pendingEvents) \ {Exit}
      /\ Once(s.leases, {}) /\ Once(s.pendingPolls, {}) /\ Once(s.pendingEvents, {Exit})
  BY ServerFields DEF Settled, Orderly
<1>2. CASE Exit \notin ToSet(s.pendingEvents)
  <2>1. t = s
    BY <1>1, <1>2, Listing DEF cancelQueuedAnonymousExitEvents
  <2> QED BY <1>2, <2>1
<1>3. CASE Exit \in ToSet(s.pendingEvents)
  <2>1. t = broadcastAgentPollingIfChanged(scheduleLeaseFlush(after))
    BY <1>1, <1>3, Listing DEF cancelQueuedAnonymousExitEvents
  <2>2. /\ Without(s.pendingEvents, Exit) \in Seq(Events)
        /\ ToSet(Without(s.pendingEvents, Exit)) = ToSet(s.pendingEvents) \ {Exit}
        /\ Once(Without(s.pendingEvents, Exit), {Exit})
    BY <1>1, WithoutListing
  <2>3. /\ after \in Servers /\ after.up = s.up /\ after.pendingPolls = s.pendingPolls
        /\ after.pendingEvents = Without(s.pendingEvents, Exit) /\ after.leases = s.leases
    BY <1>1, <2>2 DEF Servers
  <2> HIDE DEF after
  <2>4. Orderly(after)
    BY <1>1, <2>2, <2>3 DEF Orderly
  <2>5. /\ t \in Servers /\ SameQueue(after, t)
        /\ after.leases # <<>> => t.leaseTimer # Nothing
    BY <2>1, <2>3, Schedule, Broadcast DEF SameQueue
  <2> HIDE DEF t
  <2>6. Orderly(t)
    BY <2>4, <2>5, SameQueueIsOrderly
  <2>7. t.pendingPolls = <<>>
    BY <1>3, <2>3, <2>5 DEF Settled, SameQueue
  <2> QED BY <2>2, <2>3, <2>5, <2>6, <2>7 DEF Settled, SameQueue, t
<1> QED BY <1>2, <1>3

\* The first deliverable event is leased under a timer, or is an exit, which
\* goes out of the queue.
LEMMA Leased ==
  ASSUME NEW s, Settled(s), Available(s) # <<>>
  PROVE  LET t == leaseEvent(s, Head(Available(s)))
         IN  /\ Settled(t) /\ t.up = s.up /\ t.pendingPolls = s.pendingPolls
             /\ ToSet(t.pendingEvents) \ {Exit} = ToSet(s.pendingEvents) \ {Exit}
             /\ Head(Available(s)) \in Events
<1> DEFINE event == Head(Available(s))
           t == leaseEvent(s, event)
<1>1. /\ s \in Servers /\ s.pendingEvents \in Seq(Events) /\ s.leases \in Seq(Events)
      /\ ToSet(s.leases) \subseteq ToSet(s.pendingEvents) \ {Exit}
      /\ Once(s.leases, {}) /\ Once(s.pendingPolls, {}) /\ Once(s.pendingEvents, {Exit})
      /\ Orderly(s)
  BY ServerFields DEF Settled, Orderly
<1>2. event \in ToSet(s.pendingEvents) \ ToSet(s.leases) /\ event \in Events
  <2>1. /\ Available(s) \in Seq(Events)
        /\ ToSet(Available(s)) = ToSet(s.pendingEvents) \ ToSet(s.leases)
    BY <1>1, AvailableListing
  <2>2. event \in Events /\ event = Available(s)[1] /\ 1 \in 1..Len(Available(s))
    BY <2>1, HeadTailProperties, EmptySeq
  <2>3. event \in ToSet(Available(s))
    BY <2>1, <2>2, Listing
  <2> QED BY <2>1, <2>2, <2>3
<1> HIDE DEF event
<1>3. CASE event.id = None
  <2>1. event = Exit
    BY <1>2, <1>3, EventFacts
  <2>2. t = [s EXCEPT !.pendingEvents = Without(@, Exit)]
    BY <1>3, <2>1 DEF leaseEvent
  <2>3. /\ Without(s.pendingEvents, Exit) \in Seq(Events)
        /\ ToSet(Without(s.pendingEvents, Exit)) = ToSet(s.pendingEvents) \ {Exit}
        /\ Once(Without(s.pendingEvents, Exit), {Exit})
    BY <1>1, WithoutListing
  <2>4. /\ t \in Servers /\ t.up = s.up /\ t.pendingPolls = s.pendingPolls
        /\ t.pendingEvents = Without(s.pendingEvents, Exit) /\ t.leases = s.leases
        /\ t.leaseTimer = s.leaseTimer
    BY <1>1, <2>2, <2>3 DEF Servers
  <2> HIDE DEF t
  <2>5. Orderly(t)
    BY <1>1, <2>3, <2>4 DEF Orderly
  <2>6. s.pendingPolls = <<>> /\ (s.leases # <<>> => s.leaseTimer # Nothing)
    BY <1>2, <2>1 DEF Settled
  <2>7. /\ Settled(t) /\ t.up = s.up /\ t.pendingPolls = s.pendingPolls
        /\ ToSet(t.pendingEvents) \ {Exit} = ToSet(s.pendingEvents) \ {Exit}
    BY <2>3, <2>4, <2>5, <2>6 DEF Settled
  <2> QED BY <1>2, <2>7 DEF event, t
<1>4. CASE event.id # None
  <2> DEFINE after == [s EXCEPT !.leases = Append(@, event)]
  <2>1. t = broadcastAgentPollingIfChanged(scheduleLeaseFlush(after))
    BY <1>4 DEF leaseEvent
  <2>2. /\ Append(s.leases, event) \in Seq(Events) /\ Append(s.leases, event) # <<>>
        /\ ToSet(Append(s.leases, event)) = ToSet(s.leases) \cup {event}
        /\ Once(Append(s.leases, event), {})
    BY <1>1, <1>2, ListingOfAppend, AppendProperties
  <2>3. /\ after \in Servers /\ after.up = s.up /\ after.pendingPolls = s.pendingPolls
        /\ after.pendingEvents = s.pendingEvents /\ after.leases = Append(s.leases, event)
    BY <1>1, <2>2 DEF Servers
  <2> HIDE DEF after
  <2>4. event # Exit
    BY <1>2, <1>4, EventFacts
  <2>5. Orderly(after)
    BY <1>1, <1>2, <2>2, <2>3, <2>4 DEF Orderly
  <2>6. t \in Servers /\ SameQueue(after, t) /\ t.leaseTimer # Nothing
    BY <2>1, <2>2, <2>3, Schedule, Broadcast DEF SameQueue
  <2> HIDE DEF t
  <2>7. Orderly(t)
    BY <2>5, <2>6, SameQueueIsOrderly
  <2>8. /\ Settled(t) /\ t.up = s.up /\ t.pendingPolls = s.pendingPolls
        /\ ToSet(t.pendingEvents) \ {Exit} = ToSet(s.pendingEvents) \ {Exit}
    BY <2>3, <2>6, <2>7 DEF Settled, SameQueue
  <2> QED BY <1>2, <2>8 DEF event, t
<1> QED BY <1>3, <1>4


\* A poll is parked when there is nothing to hand over.
LEMMA Parked ==
  ASSUME NEW s, Settled(s), Available(s) = <<>>,
         NEW a \in Agents, a \notin ToSet(s.pendingPolls)
  PROVE  LET t == scheduleLeaseFlush(broadcastAgentPollingIfChanged(
                    [s EXCEPT !.pendingPolls = Append(@, a)]))
         IN  /\ Settled(t) /\ t.up = s.up /\ t.pendingEvents = s.pendingEvents
             /\ ToSet(t.pendingPolls) = ToSet(s.pendingPolls) \cup {a}
<1> DEFINE after == [s EXCEPT !.pendingPolls = Append(@, a)]
           t == scheduleLeaseFlush(broadcastAgentPollingIfChanged(after))
<1>1. /\ s \in Servers /\ s.pendingPolls \in Seq(Agents)
      /\ ToSet(s.leases) \subseteq ToSet(s.pendingEvents) \ {Exit}
      /\ Once(s.leases, {}) /\ Once(s.pendingPolls, {}) /\ Once(s.pendingEvents, {Exit})
      /\ Orderly(s)
  BY ServerFields DEF Settled, Orderly
<1>2. /\ Append(s.pendingPolls, a) \in Seq(Agents)
      /\ ToSet(Append(s.pendingPolls, a)) = ToSet(s.pendingPolls) \cup {a}
      /\ Once(Append(s.pendingPolls, a), {})
  BY <1>1, ListingOfAppend
<1>3. /\ after \in Servers /\ after.up = s.up /\ after.pendingEvents = s.pendingEvents
      /\ after.pendingPolls = Append(s.pendingPolls, a) /\ after.leases = s.leases
  BY <1>1, <1>2 DEF Servers
<1> HIDE DEF after
<1>4. Orderly(after) /\ Available(after) = <<>>
  BY <1>1, <1>2, <1>3 DEF Orderly, Available
<1>5. t \in Servers /\ SameQueue(after, t) /\ (after.leases # <<>> => t.leaseTimer # Nothing)
  BY <1>3, Schedule, Broadcast DEF SameQueue
<1> HIDE DEF t
<1>6. Orderly(t) /\ Available(t) = <<>>
  BY <1>4, <1>5, SameQueueIsOrderly
<1>7. Exit \notin ToSet(s.pendingEvents)
  BY <1>1, ExitIsAvailable, ListingOfNone
<1>8. /\ Settled(t) /\ t.up = s.up /\ t.pendingEvents = s.pendingEvents
      /\ ToSet(t.pendingPolls) = ToSet(s.pendingPolls) \cup {a}
  BY <1>2, <1>3, <1>5, <1>6, <1>7 DEF Settled, SameQueue
<1> QED BY <1>8 DEF t, after

\* A poll that ends is taken from those that are parked.
LEMMA Unparked ==
  ASSUME NEW s, Settled(s), NEW a \in Agents
  PROVE  LET t == broadcastAgentPollingIfChanged(
                    [s EXCEPT !.pendingPolls = Without(@, a)])
         IN  /\ Settled(t) /\ t.up = s.up /\ t.pendingEvents = s.pendingEvents
             /\ ToSet(t.pendingPolls) = ToSet(s.pendingPolls) \ {a}
<1> DEFINE after == [s EXCEPT !.pendingPolls = Without(@, a)]
           t == broadcastAgentPollingIfChanged(after)
<1>1. /\ s \in Servers /\ s.pendingPolls \in Seq(Agents)
      /\ ToSet(s.leases) \subseteq ToSet(s.pendingEvents) \ {Exit}
      /\ Once(s.leases, {}) /\ Once(s.pendingPolls, {}) /\ Once(s.pendingEvents, {Exit})
  BY ServerFields DEF Settled, Orderly
<1>2. /\ Without(s.pendingPolls, a) \in Seq(Agents)
      /\ ToSet(Without(s.pendingPolls, a)) = ToSet(s.pendingPolls) \ {a}
      /\ Once(Without(s.pendingPolls, a), {})
  BY <1>1, WithoutListing
<1>3. /\ after \in Servers /\ after.up = s.up /\ after.pendingEvents = s.pendingEvents
      /\ after.pendingPolls = Without(s.pendingPolls, a) /\ after.leases = s.leases
      /\ after.leaseTimer = s.leaseTimer
  BY <1>1, <1>2 DEF Servers
<1> HIDE DEF after
<1>4. Orderly(after) /\ Available(after) = Available(s)
  BY <1>1, <1>2, <1>3 DEF Orderly, Available
<1>5. t \in Servers /\ SameQueue(after, t) /\ t.leaseTimer = s.leaseTimer
  BY <1>3, Broadcast
<1> HIDE DEF t
<1>6. Orderly(t) /\ Available(t) = Available(s)
  BY <1>4, <1>5, SameQueueIsOrderly
<1>7. t.pendingPolls # <<>> => s.pendingPolls # <<>>
  <2>1. s.pendingPolls = <<>> => ToSet(Without(s.pendingPolls, a)) = {}
    BY <1>2, ListingOfNone
  <2>2. t.pendingPolls = Without(s.pendingPolls, a)
    BY <1>3, <1>5 DEF SameQueue
  <2> QED BY <1>2, <2>1, <2>2, Listing
<1>8. /\ Settled(t) /\ t.up = s.up /\ t.pendingEvents = s.pendingEvents
      /\ ToSet(t.pendingPolls) = ToSet(s.pendingPolls) \ {a}
  BY <1>2, <1>3, <1>5, <1>6, <1>7 DEF Settled, SameQueue
<1> QED BY <1>8 DEF t, after

\* The timer that was armed for the leases is still there when one runs out.
LEMMA Expired ==
  ASSUME NEW s, Settled(s), s.leases # <<>>
  PROVE  LET t == [s EXCEPT !.leases = Tail(@)]
         IN  /\ Settled(t) /\ t.up = s.up /\ t.pendingEvents = s.pendingEvents
             /\ t.pendingPolls = s.pendingPolls
<1> DEFINE t == [s EXCEPT !.leases = Tail(@)]
<1>1. /\ s \in Servers /\ s.leases \in Seq(Events)
      /\ ToSet(s.leases) \subseteq ToSet(s.pendingEvents) \ {Exit}
      /\ Once(s.leases, {}) /\ Once(s.pendingPolls, {}) /\ Once(s.pendingEvents, {Exit})
  BY ServerFields DEF Settled, Orderly
<1>2. Tail(s.leases) \in Seq(Events) /\ ToSet(Tail(s.leases)) \subseteq ToSet(s.leases)
      /\ Once(Tail(s.leases), {})
  BY <1>1, ListingOfTail
<1>3. /\ t \in Servers /\ t.up = s.up /\ t.pendingEvents = s.pendingEvents
      /\ t.pendingPolls = s.pendingPolls /\ t.leases = Tail(s.leases)
      /\ t.leaseTimer = s.leaseTimer
  BY <1>1, <1>2 DEF Servers
<1> HIDE DEF t
<1>4. Orderly(t)
  BY <1>1, <1>2, <1>3 DEF Orderly
<1>5. Settled(t)
  BY <1>3, <1>4 DEF Settled
<1> QED BY <1>3, <1>5 DEF t

\* Every event the journals ask for is in a restored queue, once.
LEMMA Restored ==
  ASSUME journal \in [Sessions -> Snapshot]
  PROVE  LET t == [NewServer EXCEPT !.pendingEvents = restorePendingEventsFromStore]
         IN  /\ Settled(t) /\ t.up = TRUE /\ t.pendingPolls = <<>>
             /\ \A s \in Sessions :
                  journal[s].phase \notin COMPLETED_PHASES /\ journal[s].pendingEvent # None
                    => [id |-> s, type |-> journal[s].pendingEvent] \in ToSet(t.pendingEvents)
<1> DEFINE active == {s \in Sessions : /\ journal[s].phase \notin COMPLETED_PHASES
                                       /\ journal[s].pendingEvent # None}
           wanted(s) == [id |-> s, type |-> journal[s].pendingEvent]
           order == SetToSeq(active)
           N == Cardinality(active)
           queue == restorePendingEventsFromStore
           t == [NewServer EXCEPT !.pendingEvents = queue]
<1>1. N \in Nat /\ IsFiniteSet(active)
  <2>1. IsFiniteSet(active)
    BY SessionsAssumption, FS_Subset
  <2> QED BY <2>1, FS_CardinalityType
<1>2. /\ order \in [1..N -> active]
      /\ \A i, j \in 1..N : order[i] = order[j] => i = j
      /\ \A s \in active : \E i \in 1..N : order[i] = s
  BY <1>1, SetInOrder
<1>3. \A s \in active : wanted(s) \in Events \ {Exit}
  BY SessionsAssumption DEF Snapshot, Events, Exit
<1> HIDE DEF active, order, N
<1>4. queue = [i \in 1..N |-> wanted(order[i])]
  <2>1. queue = [i \in 1..Cardinality(active) |->
                   [id |-> SetToSeq(active)[i],
                    type |-> journal[SetToSeq(active)[i]].pendingEvent]]
    BY DEF restorePendingEventsFromStore, active
  <2> QED BY <2>1 DEF N, order
<1> HIDE DEF queue
<1>5. queue \in Seq(Events) /\ Len(queue) = N
  <2>1. queue \in [1..N -> Events]
    BY <1>2, <1>3, <1>4
  <2> QED BY <1>1, <1>4, <2>1, SeqDef, LenProperties
<1>6. Once(queue, {Exit})
  <2>1. \A i \in 1..N : queue[i].id = order[i]
    BY <1>4
  <2>2. ASSUME NEW i \in 1..Len(queue), NEW j \in 1..Len(queue), queue[i] = queue[j]
        PROVE  i = j
    <3>1. order[i] = order[j]
      BY <1>5, <2>1, <2>2
    <3> QED BY <1>2, <1>5, <3>1
  <2> QED BY <2>2 DEF Once
<1>7. ASSUME NEW s \in active PROVE wanted(s) \in ToSet(queue)
  <2>1. PICK i \in 1..N : order[i] = s
    BY <1>2
  <2>2. queue[i] = wanted(s) /\ i \in 1..Len(queue)
    BY <1>4, <1>5, <2>1
  <2> QED BY <1>5, <2>2, Listing
<1>8. \A s \in active : wanted(s) # Exit
  BY <1>3
<1>9. Exit \notin ToSet(queue)
  BY <1>2, <1>4, <1>5, <1>8, Listing
<1>10. /\ t \in Servers /\ t.up = TRUE /\ t.pendingPolls = <<>> /\ t.leases = <<>>
       /\ t.pendingEvents = queue
  BY <1>5, EmptySeq DEF NewServer, Servers
<1> HIDE DEF t
<1>11. Orderly(t)
  BY <1>6, <1>10, ListingOfNone DEF Orderly
<1>12. Settled(t)
  BY <1>10, <1>11 DEF Settled
<1> QED BY <1>7, <1>10, <1>12 DEF t, active, queue


\* The agents whose polls a flush serves have an event to work on; the others
\* wait, or do, as before; and those still parked are those still waiting.
LEMMA AnsweredAgents ==
  ASSUME NEW s, Orderly(s), agent \in [Agents -> AgentStates],
         ToSet(s.pendingPolls) = {a \in Agents : agent[a].pc = "waiting"}
  PROVE  /\ Answered(s) \in [Agents -> AgentStates]
         /\ \A a \in Agents : agent[a].pc # "waiting" => Answered(s)[a] = agent[a]
         /\ ToSet(flushPendingPolls(s).pendingPolls)
              = {a \in Agents : Answered(s)[a].pc = "waiting"}
<1> DEFINE n == Served(s)
           polls == s.pendingPolls
           l == Len(polls)
           mine(a) == {d \in ToSet(Deliveries(s)) : d.agent = a}
           new == Answered(s)
<1>1. /\ polls \in Seq(Agents) /\ Once(polls, {})
      /\ Available(s) \in Seq(Events)
      /\ n \in Nat /\ n \in 0..l /\ n \in 0..Len(Available(s)) /\ l \in Nat
  BY ServerFields, AvailableListing, ServedCount, LenProperties DEF Orderly
<1>2. flushPendingPolls(s).pendingPolls = SubSeq(polls, n + 1, l)
  BY Flush
<1>3. ToSet(Deliveries(s)) = {[agent |-> polls[i], event |-> Available(s)[i]] : i \in 1..n}
  BY DEF Deliveries, ToSet
<1>4. \A i \in 1..n : polls[i] \in Agents /\ Available(s)[i] \in Events
  <2>1. \A i \in 1..n : i \in 1..l /\ i \in 1..Len(Available(s))
    BY <1>1
  <2> QED BY <1>1, <2>1, ElementOfSeq
<1>5. ASSUME NEW a \in Agents
      PROVE  new[a] = IF mine(a) = {} THEN agent[a]
                      ELSE [pc |-> "working", event |-> (CHOOSE d \in mine(a) : TRUE).event,
                            reply |-> None]
  BY DEF Answered
<1>6. ASSUME NEW a \in Agents PROVE mine(a) = {} <=> \A i \in 1..n : polls[i] # a
  <2> DEFINE delivery(i) == [agent |-> polls[i], event |-> Available(s)[i]]
  <2>1. \A i \in 1..n : delivery(i) \in ToSet(Deliveries(s)) /\ delivery(i).agent = polls[i]
    BY <1>3
  <2>2. \A d \in mine(a) : \E i \in 1..n : d.agent = polls[i] /\ d.agent = a
    BY <1>3
  <2>3. \A i \in 1..n : polls[i] = a => delivery(i) \in mine(a)
    BY <2>1
  <2> HIDE DEF mine, n, polls, delivery
  <2> QED BY <2>2, <2>3
<1>7. ASSUME NEW a \in Agents, mine(a) # {}
      PROVE  new[a] \in [pc : {"working"}, event : Events, reply : {None}]
  <2> DEFINE d == CHOOSE d \in mine(a) : TRUE
  <2>1. d \in mine(a)
    BY <1>7
  <2>2. d \in ToSet(Deliveries(s))
    BY <2>1
  <2>3. new[a] = [pc |-> "working", event |-> d.event, reply |-> None]
    BY <1>5, <1>7
  <2> HIDE DEF d, mine, new
  <2>4. d.event \in Events
    BY <1>3, <1>4, <2>2
  <2> QED BY <2>3, <2>4
<1>8. \A e : e \in ToSet(polls) <=> \E i \in 1..l : polls[i] = e
  BY <1>1, Listing
<1>9. \A e : e \in ToSet(SubSeq(polls, n + 1, l)) <=> \E i \in n + 1..l : polls[i] = e
  <2>1. n + 1 \in 1..l + 1 /\ l \in 0..l /\ n + 1 <= l + 1
    BY <1>1
  <2> HIDE DEF n, polls
  <2> QED BY <1>1, <2>1, ListingOfSlice
<1> HIDE DEF mine, new, n, l, polls
<1>10. /\ \A i \in 1..n : i \in 1..l
       /\ \A i \in n + 1..l : i \in 1..l
       /\ \A i \in 1..l : i \in 1..n \/ i \in n + 1..l
       /\ \A i \in 1..n : i \notin n + 1..l
  BY <1>1
<1>11. new \in [Agents -> AgentStates]
  <2>1. new = [a \in Agents |-> new[a]]
    BY DEF new, Answered
  <2>2. \A a \in Agents : new[a] \in AgentStates
    BY <1>5, <1>7 DEF AgentStates
  <2> QED BY <2>1, <2>2
<1>12. ASSUME NEW a \in Agents, agent[a].pc # "waiting" PROVE new[a] = agent[a]
  <2>1. a \notin ToSet(polls)
    BY <1>12 DEF polls
  <2>2. mine(a) = {}
    BY <1>6, <1>8, <1>10, <2>1
  <2> QED BY <1>5, <2>2
<1>13. ASSUME NEW a \in Agents
       PROVE  new[a].pc = "waiting" <=> a \in ToSet(SubSeq(polls, n + 1, l))
  <2>1. CASE mine(a) # {}
    <3>1. new[a].pc # "waiting"
      BY <1>7, <2>1
    <3>2. PICK i \in 1..n : polls[i] = a
      BY <1>6, <2>1
    <3>3. a \notin ToSet(SubSeq(polls, n + 1, l))
      BY <1>1, <1>9, <1>10, <3>2 DEF Once, l
    <3> QED BY <3>1, <3>3
  <2>2. CASE mine(a) = {}
    <3>1. new[a] = agent[a]
      BY <1>5, <2>2
    <3>2. agent[a].pc = "waiting" <=> \E i \in 1..l : polls[i] = a
      BY <1>8 DEF polls
    <3>3. \A i \in 1..n : polls[i] # a
      BY <1>6, <2>2
    <3> QED BY <1>9, <1>10, <3>1, <3>2, <3>3
  <2> QED BY <2>1, <2>2
<1>14. ToSet(SubSeq(polls, n + 1, l)) \subseteq Agents
  BY <1>1, <1>8, <1>9, <1>10, Listing
<1>15. ToSet(SubSeq(polls, n + 1, l)) = {a \in Agents : new[a].pc = "waiting"}
  BY <1>13, <1>14
<1> QED BY <1>2, <1>11, <1>12, <1>15 DEF new

-----------------------------------------------------------------------------
(* What an event makes of a session's snapshot *)

\* A request is pending, and a session it is made of is not over.
LEMMA RequestApplied ==
  ASSUME NEW snapshot \in Snapshot, NEW type \in WorkTypes
  PROVE  LET next == applyEvent(snapshot, [type |-> type])
         IN  /\ next \in Snapshot
             /\ next.pendingEvent = type /\ next.phase \notin COMPLETED_PHASES
<1> DEFINE next == applyEvent(snapshot, [type |-> type])
<1>1. next = Requested(snapshot, type)
  <2> DEFINE event == [type |-> type]
  <2>1. event.type = type /\ event.type \in WorkTypes
    OBVIOUS
  <2> HIDE DEF event
  <2>2. applyEvent(snapshot, event) = Requested(snapshot, type)
    BY <2>1 DEF applyEvent, WorkTypes
  <2> QED BY <2>2 DEF event
<1>2. /\ type = "generate" \/ type = "accept" \/ type = "discard" \/ type = "steer"
  BY DEF WorkTypes
<1>3. next \in Snapshot /\ next.pendingEvent = type /\ next.phase \notin COMPLETED_PHASES
  BY <1>1, <1>2 DEF Requested, Snapshot, Phases, WorkTypes, COMPLETED_PHASES, BrowserPhases
<1> QED BY <1>3

\* A checkpoint neither answers a request nor ends or revives a session.
LEMMA CheckpointApplied ==
  ASSUME NEW snapshot \in Snapshot, NEW c \in Checkpoints
  PROVE  LET next == applyEvent(snapshot, c)
         IN  /\ next \in Snapshot
             /\ next.pendingEvent = snapshot.pendingEvent
             /\ next.phase \in COMPLETED_PHASES <=> snapshot.phase \in COMPLETED_PHASES
<1> DEFINE next == applyEvent(snapshot, c)
<1>1. /\ c.type = "checkpoint" /\ c.phase \in BrowserPhases /\ c.revision \in 0..MaxRevision
      /\ c.type \notin WorkTypes
  BY BoundsAssumption DEF Checkpoints, WorkTypes
<1>2. next = Checkpointed(snapshot, c)
  BY <1>1 DEF applyEvent
<1>3. c.phase \in Phases /\ c.phase \notin COMPLETED_PHASES
  BY <1>1 DEF Phases, BrowserPhases, COMPLETED_PHASES
<1> QED BY <1>1, <1>2, <1>3 DEF Checkpointed, Snapshot

\* A reply answers whatever was asked.
LEMMA ReplyApplied ==
  ASSUME NEW snapshot \in Snapshot, NEW id, NEW reply
  PROVE  LET next == applyEvent(snapshot, JournalEvent(id, reply))
         IN  /\ next \in Snapshot
             /\ next.pendingEvent = None
             /\ reply = "complete" => next.phase = "completed"
<1> DEFINE event == JournalEvent(id, reply)
           next == applyEvent(snapshot, event)
<1>1. /\ event.type \in {"steer_done", "discarded", "complete", "agent_error", "agent_done"}
      /\ reply = "complete" => event.type = "complete"
      /\ event.carbonize \in BOOLEAN
  BY SMT DEF JournalEvent
<1> HIDE DEF event
<1>2. event.type \notin WorkTypes /\ event.type # "checkpoint"
  BY <1>1 DEF WorkTypes
<1>3. \E phase \in Phases : /\ next = Replied(snapshot, phase)
                            /\ reply = "complete" => phase = "completed"
  BY <1>1, <1>2 DEF applyEvent, Phases
<1> QED BY <1>3 DEF Replied, Snapshot, event


-----------------------------------------------------------------------------
(* The inductive invariant *)

\* The types of everything but the server.
Typed ==
  /\ agent \in [Agents -> AgentStates]
  /\ checkpoints \subseteq Checkpoints
  /\ journal \in [Sessions -> Snapshot]
  /\ source \in [Sessions -> {"none", "variants", "restored", "carbonize", "accepted"}]
  /\ tab \in [Sessions -> {"unused", "generating", "cycling", "saving", "closed"}]
  /\ clients \in BOOLEAN /\ exitTimer \in BOOLEAN
  /\ faults \in 0..MaxFaults /\ episodes \in 0..MaxEpisodes

PollsWait == ToSet(srv.pendingPolls) = {a \in Agents : agent[a].pc = "waiting"}

\* The journal of s asks for work.
Asked(s) == journal[s].pendingEvent # None /\ journal[s].phase \notin COMPLETED_PHASES

Request(s) == [id |-> s, type |-> journal[s].pendingEvent]

AskedIsQueued ==
  srv.up => \A s \in Sessions : Asked(s) => Request(s) \in ToSet(srv.pendingEvents)

\* Nobody is parked at a server that is gone.
Unattended == ~ srv.up => srv.pendingPolls = <<>>

IInv == Typed /\ Settled(srv) /\ PollsWait /\ AskedIsQueued /\ Unattended

LEMMA RequestFacts ==
  ASSUME journal \in [Sessions -> Snapshot], NEW s \in Sessions, Asked(s)
  PROVE  Request(s) \in Events \ {Exit} /\ Request(s).id = s
  BY SessionsAssumption DEF Asked, Request, Snapshot, Events, Exit

\* What IInv says of the queue is what the properties of LiveServer say.
LEMMA InvariantImplies ==
  ASSUME IInv
  PROVE  TypeOK /\ NoLostWakeup /\ JournalPendingIsQueued
<1>1. /\ srv \in Servers /\ srv.leases \in Seq(Events) /\ srv.pendingPolls \in Seq(Agents)
      /\ srv.pendingEvents \in Seq(Events)
      /\ ToSet(srv.leases) \subseteq ToSet(srv.pendingEvents) \ {Exit}
      /\ Once(srv.leases, {}) /\ Once(srv.pendingPolls, {})
  BY ServerFields DEF IInv, Settled, Orderly
<1>2. TypeOK
  <2>1. IsInjective(srv.leases) /\ IsInjective(srv.pendingPolls)
    BY <1>1, Listing
  <2> QED BY <1>1, <2>1 DEF IInv, Typed, PollsWait, TypeOK
<1>3. NoLostWakeup
  BY DEF IInv, Settled, NoLostWakeup
<1>4. JournalPendingIsQueued
  <2>1. \A e : Contains(srv.pendingEvents, e) <=> e \in ToSet(srv.pendingEvents)
    BY <1>1, Listing
  <2> QED BY <2>1 DEF IInv, AskedIsQueued, Asked, Request, JournalPendingIsQueued
<1> QED BY <1>2, <1>3, <1>4

LEMMA InvariantHolds ==
  ASSUME Init
  PROVE  IInv
<1>1. Typed
  <2>1. IdleAgent \in AgentStates
    BY DEF IdleAgent, AgentStates
  <2>2. baseSnapshot \in Snapshot
    BY BoundsAssumption DEF baseSnapshot, Snapshot, Phases
  <2>3. agent \in [Agents -> AgentStates] /\ journal \in [Sessions -> Snapshot]
    BY <2>1, <2>2 DEF Init
  <2>4. /\ source \in [Sessions -> {"none", "variants", "restored", "carbonize", "accepted"}]
        /\ tab \in [Sessions -> {"unused", "generating", "cycling", "saving", "closed"}]
        /\ checkpoints \subseteq Checkpoints
        /\ clients \in BOOLEAN /\ exitTimer \in BOOLEAN
    BY DEF Init
  <2>5. faults \in 0..MaxFaults /\ episodes \in 0..MaxEpisodes
    BY BoundsAssumption DEF Init
  <2> QED BY <2>3, <2>4, <2>5 DEF Typed
<1>2. Settled(srv)
  <2>1. NewServer \in Servers
    BY EmptySeq DEF NewServer, Servers
  <2> QED BY <2>1, EmptyIsSettled DEF Init, NewServer
<1>3. srv.pendingPolls = <<>>
  BY DEF Init, NewServer
<1>4. PollsWait
  BY <1>3, ListingOfNone DEF Init, PollsWait, IdleAgent
<1>5. AskedIsQueued
  BY DEF Init, AskedIsQueued, Asked, baseSnapshot
<1> QED BY <1>1, <1>2, <1>3, <1>4, <1>5 DEF IInv, Unattended

-----------------------------------------------------------------------------
(* The requests of the queue as steps *)

\* Queueing an event and serving the polls that can be served.
LEMMA EnqueueStep ==
  ASSUME IInv, NEW event \in Events, Enqueue(event)
  PROVE  /\ Settled(srv')
         /\ agent' \in [Agents -> AgentStates]
         /\ PollsWait'
         /\ srv'.up = srv.up
         /\ \A e \in Events \ {Exit} : e \in ToSet(srv'.pendingEvents)
                                         <=> e \in ToSet(srv.pendingEvents) \/ e = event
<1>1. CASE IsDuplicate(srv, event)
  <2>1. srv' = srv /\ agent' = agent
    BY <1>1 DEF Enqueue
  <2>2. event \in ToSet(srv.pendingEvents)
    BY <1>1, ServerFields, Listing DEF IsDuplicate, IInv, Settled, Orderly
  <2> QED BY <2>1, <2>2 DEF IInv, Typed, PollsWait
<1>2. CASE ~ IsDuplicate(srv, event)
  <2> DEFINE s == enqueueEvent(srv, event)
  <2>1. srv' = flushPendingPolls(s) /\ agent' = Answered(s)
    BY <1>2 DEF Enqueue
  <2>2. /\ Orderly(s) /\ s.up = srv.up /\ s.pendingPolls = srv.pendingPolls
        /\ ToSet(s.pendingEvents) = ToSet(srv.pendingEvents) \cup {event}
    BY <1>2, Enqueued DEF IInv, Settled
  <2> HIDE DEF s
  <2>3. /\ Settled(srv') /\ srv'.up = s.up
        /\ ToSet(srv'.pendingEvents) \ {Exit} = ToSet(s.pendingEvents) \ {Exit}
    BY <2>1, <2>2, Flush
  <2>4. agent \in [Agents -> AgentStates]
        /\ ToSet(s.pendingPolls) = {a \in Agents : agent[a].pc = "waiting"}
    BY <2>2 DEF IInv, Typed, PollsWait
  <2>5. /\ agent' \in [Agents -> AgentStates]
        /\ ToSet(srv'.pendingPolls) = {a \in Agents : agent'[a].pc = "waiting"}
    BY <2>1, <2>2, <2>4, AnsweredAgents
  <2> QED BY <2>2, <2>3, <2>5 DEF PollsWait
<1> QED BY <1>1, <1>2

\* A request of the page is journalled and queued.
LEMMA PostStep ==
  ASSUME IInv, NEW s \in Sessions, NEW type \in WorkTypes, PostEvent(s, type)
  PROVE  /\ Settled(srv') /\ srv'.up
         /\ agent' \in [Agents -> AgentStates]
         /\ journal' \in [Sessions -> Snapshot]
         /\ PollsWait'
         /\ AskedIsQueued'
<1> DEFINE event == [id |-> s, type |-> type]
           next == applyEvent(journal[s], [type |-> type])
<1>1. journal' = [journal EXCEPT ![s] = next] /\ srv.up /\ Enqueue(event)
  BY DEF PostEvent
<1>2. event \in Events \ {Exit}
  BY SessionsAssumption DEF Events, Exit
<1>3. journal \in [Sessions -> Snapshot] /\ journal[s] \in Snapshot
  BY DEF IInv, Typed
<1>4. next \in Snapshot /\ next.pendingEvent = type
  BY <1>3, RequestApplied
<1> HIDE DEF next
<1>5. /\ journal' \in [Sessions -> Snapshot] /\ journal'[s] = next
      /\ \A q \in Sessions \ {s} : journal'[q] = journal[q]
  BY <1>1, <1>3, <1>4
<1>6. /\ Settled(srv') /\ agent' \in [Agents -> AgentStates] /\ PollsWait' /\ srv'.up
      /\ \A e \in Events \ {Exit} : e \in ToSet(srv'.pendingEvents)
                                      <=> e \in ToSet(srv.pendingEvents) \/ e = event
  BY <1>1, <1>2, EnqueueStep
<1>7. AskedIsQueued'
  <2>1. SUFFICES ASSUME NEW q \in Sessions, Asked(q)'
                 PROVE  Request(q)' \in ToSet(srv'.pendingEvents)
    BY DEF AskedIsQueued
  <2>2. CASE q = s
    <3>1. Request(q)' = event
      BY <1>4, <1>5, <2>2 DEF Request
    <3> QED BY <1>2, <1>6, <3>1
  <2>3. CASE q # s
    <3>1. Asked(q) /\ Request(q)' = Request(q)
      BY <1>5, <2>1, <2>3 DEF Asked, Request
    <3>2. Request(q) \in ToSet(srv.pendingEvents)
      BY <1>1, <3>1 DEF IInv, AskedIsQueued
    <3> QED BY <1>3, <1>6, <3>1, <3>2, RequestFacts
  <2> QED BY <2>2, <2>3
<1> QED BY <1>5, <1>6, <1>7

\* A reply takes only its own session's event out of the queue, and journals
\* that the session waits for nothing, unless it was over already.
LEMMA ReplyStep ==
  ASSUME IInv, srv.up, NEW id \in Sessions, NEW reply, handlePollPost(id, reply)
  PROVE  /\ Settled(srv')
         /\ srv'.up
         /\ journal' \in [Sessions -> Snapshot]
         /\ AskedIsQueued'
         /\ Answered(acknowledgePendingEvent(srv, id)) \in [Agents -> AgentStates]
         /\ \A a \in Agents : agent[a].pc # "waiting"
              => Answered(acknowledgePendingEvent(srv, id))[a] = agent[a]
         /\ ToSet(srv'.pendingPolls)
              = {a \in Agents : Answered(acknowledgePendingEvent(srv, id))[a].pc = "waiting"}
<1> DEFINE acked == acknowledgePendingEvent(srv, id)
           next == applyEvent(journal[id], JournalEvent(id, reply))
<1>1. /\ srv' = flushPendingPolls(acked)
      /\ journal' = IF skipJournalReply(id) THEN journal ELSE [journal EXCEPT ![id] = next]
  BY DEF handlePollPost
<1>2. /\ Orderly(acked) /\ acked.up = srv.up /\ acked.pendingPolls = srv.pendingPolls
      /\ \A e \in ToSet(srv.pendingEvents) : e.id # id => e \in ToSet(acked.pendingEvents)
  BY Acknowledged DEF IInv, Settled
<1> HIDE DEF acked
<1>3. /\ Settled(srv') /\ srv'.up = acked.up
      /\ ToSet(srv'.pendingEvents) \ {Exit} = ToSet(acked.pendingEvents) \ {Exit}
  BY <1>1, <1>2, Flush
<1>4. agent \in [Agents -> AgentStates]
      /\ ToSet(acked.pendingPolls) = {a \in Agents : agent[a].pc = "waiting"}
  BY <1>2 DEF IInv, Typed, PollsWait
<1>5. /\ Answered(acked) \in [Agents -> AgentStates]
      /\ \A a \in Agents : agent[a].pc # "waiting" => Answered(acked)[a] = agent[a]
      /\ ToSet(srv'.pendingPolls) = {a \in Agents : Answered(acked)[a].pc = "waiting"}
  BY <1>1, <1>2, <1>4, AnsweredAgents
<1>6. journal \in [Sessions -> Snapshot] /\ next \in Snapshot /\ next.pendingEvent = None
  BY ReplyApplied DEF IInv, Typed
<1> HIDE DEF next
<1>7. journal' \in [Sessions -> Snapshot]
  BY <1>1, <1>6
<1>8. AskedIsQueued'
  <2>1. SUFFICES ASSUME NEW q \in Sessions, Asked(q)'
                 PROVE  Request(q)' \in ToSet(srv'.pendingEvents)
    BY DEF AskedIsQueued
  <2>2. q # id
    <3>1. CASE skipJournalReply(id)
      BY <1>1, <2>1, <3>1 DEF skipJournalReply, Asked
    <3>2. CASE ~ skipJournalReply(id)
      BY <1>1, <1>6, <2>1, <3>2 DEF Asked
    <3> QED BY <3>1, <3>2
  <2>3. journal'[q] = journal[q]
    BY <1>1, <1>6, <2>2
  <2>4. Asked(q) /\ Request(q)' = Request(q)
    BY <2>1, <2>3 DEF Asked, Request
  <2>5. Request(q) \in ToSet(srv.pendingEvents) /\ Request(q) # Exit /\ Request(q).id # id
    BY <1>6, <2>2, <2>4, RequestFacts DEF IInv, AskedIsQueued
  <2> QED BY <1>2, <1>3, <2>4, <2>5
<1> QED BY <1>2, <1>3, <1>5, <1>7, <1>8 DEF acked


-----------------------------------------------------------------------------
(* The steps of the browser *)

\* Whatever a tab reports is a checkpoint.
LEMMA Reported ==
  ASSUME Typed, NEW s \in Sessions, NEW phase \in BrowserPhases, Report(s, phase)
  PROVE  checkpoints' \subseteq Checkpoints
<1>1. ASSUME NEW r \in 1..MaxRevision
      PROVE  [type |-> "checkpoint", id |-> s, phase |-> phase, revision |-> r] \in Checkpoints
  BY DEF Checkpoints
<1>2. ASSUME NEW c \in checkpoints', c \notin checkpoints PROVE c \in Checkpoints
  <2>1. PICK r \in 1..MaxRevision :
          c = [type |-> "checkpoint", id |-> s, phase |-> phase, revision |-> r]
    BY <1>2 DEF Report
  <2> QED BY <1>1, <2>1
<1> QED BY <1>2 DEF Typed

LEMMA BeginStep ==
  ASSUME IInv, NEW s \in Sessions, NEW type \in {"generate", "steer"}, Begin(s, type)
  PROVE  IInv'
<1>1. type \in WorkTypes
  BY DEF WorkTypes
<1>2. /\ Settled(srv') /\ agent' \in [Agents -> AgentStates] /\ srv'.up
      /\ journal' \in [Sessions -> Snapshot] /\ PollsWait' /\ AskedIsQueued'
  BY <1>1, PostStep DEF Begin
<1>3. checkpoints' \subseteq Checkpoints
  <2>1. PICK phase \in BrowserPhases : Report(s, phase)
    BY DEF Begin, BrowserPhases
  <2> QED BY <2>1, Reported DEF IInv
<1>4. tab' \in [Sessions -> {"unused", "generating", "cycling", "saving", "closed"}]
  BY DEF Begin, IInv, Typed
<1> QED BY <1>2, <1>3, <1>4 DEF Begin, IInv, Typed, Unattended

LEMMA SeeVariantsStep ==
  ASSUME IInv, NEW s \in Sessions, SeeVariants(s)
  PROVE  IInv'
<1>1. checkpoints' \subseteq Checkpoints
  <2>1. Report(s, "cycling") /\ "cycling" \in BrowserPhases
    BY DEF SeeVariants, BrowserPhases
  <2> QED BY <2>1, Reported DEF IInv
<1>2. tab' \in [Sessions -> {"unused", "generating", "cycling", "saving", "closed"}]
  BY DEF SeeVariants, IInv, Typed
<1>3. UNCHANGED <<srv, journal, agent>>
  BY DEF SeeVariants
<1> QED BY <1>1, <1>2, <1>3
        DEF SeeVariants, IInv, Typed, Unattended, PollsWait, AskedIsQueued, Asked, Request

LEMMA DecideStep ==
  ASSUME IInv, NEW s \in Sessions, NEW type \in {"accept", "discard"}, Decide(s, type)
  PROVE  IInv'
<1>1. type \in WorkTypes
  BY DEF WorkTypes
<1>2. /\ Settled(srv') /\ agent' \in [Agents -> AgentStates] /\ srv'.up
      /\ journal' \in [Sessions -> Snapshot] /\ PollsWait' /\ AskedIsQueued'
  BY <1>1, PostStep DEF Decide
<1>3. checkpoints' \subseteq Checkpoints
  <2>1. CASE type = "accept"
    <3>1. Report(s, "saving") /\ "saving" \in BrowserPhases
      BY <2>1 DEF Decide, BrowserPhases
    <3> QED BY <3>1, Reported DEF IInv
  <2>2. CASE type # "accept"
    BY <2>2 DEF Decide, IInv, Typed
  <2> QED BY <2>1, <2>2
<1>4. tab' \in [Sessions -> {"unused", "generating", "cycling", "saving", "closed"}]
  BY DEF Decide, IInv, Typed
<1> QED BY <1>2, <1>3, <1>4 DEF Decide, IInv, Typed, Unattended

LEMMA CheckpointArrivesStep ==
  ASSUME IInv, NEW c \in checkpoints, CheckpointArrives(c)
  PROVE  IInv'
<1>1. c \in Checkpoints /\ c.id \in Sessions
  BY DEF IInv, Typed, Checkpoints
<1>2. UNCHANGED <<srv, source, agent, tab, clients, exitTimer, faults, episodes>>
      /\ checkpoints' \subseteq Checkpoints
  BY DEF CheckpointArrives, IInv, Typed
<1>3. CASE ~ srv.up
  BY <1>2, <1>3
     DEF CheckpointArrives, IInv, Typed, Unattended, PollsWait, AskedIsQueued, Asked, Request
<1>4. CASE srv.up
  <2> DEFINE next == applyEvent(journal[c.id], c)
  <2>1. journal \in [Sessions -> Snapshot] /\ journal' = [journal EXCEPT ![c.id] = next]
    BY <1>4 DEF CheckpointArrives, IInv, Typed
  <2>2. /\ next \in Snapshot /\ next.pendingEvent = journal[c.id].pendingEvent
        /\ next.phase \in COMPLETED_PHASES <=> journal[c.id].phase \in COMPLETED_PHASES
    BY <1>1, <2>1, CheckpointApplied
  <2> HIDE DEF next
  <2>3. journal' \in [Sessions -> Snapshot]
    BY <1>1, <2>1, <2>2
  <2>4. ASSUME NEW s \in Sessions
        PROVE  /\ journal'[s].pendingEvent = journal[s].pendingEvent
               /\ journal'[s].phase \in COMPLETED_PHASES
                    <=> journal[s].phase \in COMPLETED_PHASES
    BY <1>1, <2>1, <2>2
  <2>5. AskedIsQueued'
    BY <1>2, <2>4 DEF IInv, AskedIsQueued, Asked, Request
  <2> QED BY <1>2, <2>3, <2>5 DEF IInv, Typed, Unattended, PollsWait
<1> QED BY <1>3, <1>4

LEMMA PageConnectsStep ==
  ASSUME IInv, PageConnects
  PROVE  IInv'
<1>1. srv' = cancelQueuedAnonymousExitEvents(srv)
  BY DEF PageConnects
<1>2. /\ Settled(srv') /\ srv'.up = srv.up /\ srv'.pendingPolls = srv.pendingPolls
      /\ ToSet(srv'.pendingEvents) = ToSet(srv.pendingEvents) \ {Exit}
  BY <1>1, ExitsCancelled DEF IInv
<1>3. UNCHANGED <<journal, agent>> /\ journal \in [Sessions -> Snapshot]
  BY DEF PageConnects, IInv, Typed
<1>4. PollsWait'
  BY <1>2, <1>3 DEF IInv, PollsWait
<1>5. AskedIsQueued'
  BY <1>2, <1>3, RequestFacts DEF IInv, AskedIsQueued, Asked, Request
<1>6. tab' \in [Sessions -> {"unused", "generating", "cycling", "saving", "closed"}]
  BY DEF PageConnects, IInv, Typed
<1> QED BY <1>2, <1>4, <1>5, <1>6 DEF PageConnects, IInv, Typed, Unattended

LEMMA PageLeavesStep ==
  ASSUME IInv, PageLeaves
  PROVE  IInv'
<1>1. srv.up \in BOOLEAN
  BY ServerFields DEF IInv, Settled, Orderly
<1>2. /\ UNCHANGED <<srv, journal, source, agent, tab, checkpoints, faults>>
      /\ clients' \in BOOLEAN /\ exitTimer' \in BOOLEAN /\ episodes' \in 0..MaxEpisodes
  <2>1. /\ UNCHANGED <<srv, journal, source, agent, tab, checkpoints, faults>>
        /\ clients' = FALSE /\ exitTimer' = srv.up
        /\ episodes < MaxEpisodes /\ episodes' = episodes + 1
    BY DEF PageLeaves
  <2>2. episodes' \in 0..MaxEpisodes
    BY <2>1, BoundsAssumption DEF IInv, Typed
  <2>3. clients' \in BOOLEAN /\ exitTimer' \in BOOLEAN
    BY <1>1, <2>1
  <2> QED BY <2>1, <2>2, <2>3
<1> QED BY <1>2 DEF IInv, Typed, Unattended, PollsWait, AskedIsQueued, Asked, Request

\* An exit in the queue is nobody's request.
LEMMA ExitStep ==
  ASSUME IInv, srv.up, Enqueue(Exit), UNCHANGED <<journal, source, tab, checkpoints, faults>>,
         clients' \in BOOLEAN, exitTimer' \in BOOLEAN, episodes' \in 0..MaxEpisodes
  PROVE  IInv'
<1>1. /\ Settled(srv') /\ agent' \in [Agents -> AgentStates] /\ PollsWait'
      /\ srv'.up = srv.up
      /\ \A e \in Events \ {Exit} : e \in ToSet(srv'.pendingEvents)
                                      <=> e \in ToSet(srv.pendingEvents) \/ e = Exit
  BY EnqueueStep, EventFacts
<1>2. AskedIsQueued'
  BY <1>1, RequestFacts DEF IInv, Typed, AskedIsQueued, Asked, Request
<1> QED BY <1>1, <1>2 DEF IInv, Typed, Unattended

LEMMA ExitTimerFiresStep ==
  ASSUME IInv, ExitTimerFires
  PROVE  IInv'
<1>1. CASE clients
  BY <1>1 DEF ExitTimerFires, IInv, Typed, Unattended, PollsWait, AskedIsQueued, Asked,
             Request
<1>2. CASE ~ clients
  <2>1. /\ Enqueue(Exit) /\ srv.up
        /\ UNCHANGED <<journal, source, tab, checkpoints, faults>>
        /\ clients' = clients /\ episodes' = episodes /\ exitTimer' = FALSE
    BY <1>2 DEF ExitTimerFires
  <2>2. clients' \in BOOLEAN /\ exitTimer' \in BOOLEAN /\ episodes' \in 0..MaxEpisodes
    BY <2>1 DEF IInv, Typed
  <2> QED BY <2>1, <2>2, ExitStep
<1> QED BY <1>1, <1>2

LEMMA PageExitsStep ==
  ASSUME IInv, PageExits
  PROVE  IInv'
<1>1. episodes' \in 0..MaxEpisodes
  BY BoundsAssumption DEF PageExits, IInv, Typed
<1> QED BY <1>1, ExitStep DEF PageExits


-----------------------------------------------------------------------------
(* The steps of the agents *)

\* An agent that was not waiting does something else; nobody else notices.
LEMMA AgentMoves ==
  ASSUME IInv, NEW a \in Agents, NEW state \in AgentStates,
         agent[a].pc # "waiting", state.pc # "waiting",
         agent' = [agent EXCEPT ![a] = state],
         srv'.pendingPolls = srv.pendingPolls
  PROVE  agent' \in [Agents -> AgentStates] /\ PollsWait'
<1>1. agent' \in [Agents -> AgentStates]
  BY DEF IInv, Typed
<1>2. \A b \in Agents : agent'[b].pc = "waiting" <=> agent[b].pc = "waiting"
  BY DEF IInv, Typed
<1> QED BY <1>1, <1>2 DEF IInv, PollsWait

LEMMA handlePollGetStep ==
  ASSUME IInv, NEW a \in Agents, handlePollGet(a)
  PROVE  IInv'
<1>1. /\ UNCHANGED <<journal, source, tab, checkpoints, clients, exitTimer, faults, episodes>>
      /\ agent[a].pc = "idle" /\ srv.up
  BY DEF handlePollGet
<1>2. /\ Settled(srv) /\ agent \in [Agents -> AgentStates] /\ agent[a] \in AgentStates
      /\ a \notin ToSet(srv.pendingPolls)
  BY <1>1 DEF IInv, Typed, PollsWait
<1>3. CASE Available(srv) # <<>>
  <2> DEFINE event == Head(Available(srv))
             state == [pc |-> "working", event |-> event, reply |-> None]
  <2>1. srv' = leaseEvent(srv, event) /\ agent' = [agent EXCEPT ![a] = state]
    BY <1>3 DEF handlePollGet
  <2>2. /\ Settled(srv') /\ srv'.up = srv.up /\ srv'.pendingPolls = srv.pendingPolls
        /\ ToSet(srv'.pendingEvents) \ {Exit} = ToSet(srv.pendingEvents) \ {Exit}
        /\ event \in Events
    BY <1>2, <1>3, <2>1, Leased
  <2>3. state \in AgentStates /\ state.pc # "waiting"
    BY <2>2 DEF AgentStates
  <2> HIDE DEF state
  <2>4. agent' \in [Agents -> AgentStates] /\ PollsWait'
    BY <1>1, <2>1, <2>2, <2>3, AgentMoves
  <2>5. AskedIsQueued'
    BY <1>1, <2>2, RequestFacts DEF IInv, Typed, AskedIsQueued, Asked, Request
  <2> QED BY <1>1, <2>2, <2>4, <2>5 DEF IInv, Typed, Unattended
<1>4. CASE Available(srv) = <<>>
  <2>1. /\ srv' = scheduleLeaseFlush(broadcastAgentPollingIfChanged(
                    [srv EXCEPT !.pendingPolls = Append(@, a)]))
        /\ agent' = [agent EXCEPT ![a].pc = "waiting"]
    BY <1>4 DEF handlePollGet
  <2>2. /\ Settled(srv') /\ srv'.up = srv.up /\ srv'.pendingEvents = srv.pendingEvents
        /\ ToSet(srv'.pendingPolls) = ToSet(srv.pendingPolls) \cup {a}
    BY <1>2, <1>4, <2>1, Parked
  <2>3. [agent[a] EXCEPT !.pc = "waiting"] \in AgentStates
    BY <1>1, <1>2 DEF AgentStates
  <2>4. agent' \in [Agents -> AgentStates]
    BY <1>2, <2>1, <2>3
  <2>5. \A b \in Agents : agent'[b].pc = "waiting" <=> agent[b].pc = "waiting" \/ b = a
    BY <1>2, <2>1 DEF AgentStates
  <2>6. PollsWait'
    BY <2>2, <2>5 DEF IInv, PollsWait
  <2>7. AskedIsQueued'
    BY <1>1, <2>2 DEF IInv, AskedIsQueued, Asked, Request
  <2> QED BY <1>1, <2>2, <2>4, <2>6, <2>7 DEF IInv, Typed, Unattended
<1> QED BY <1>3, <1>4

LEMMA PollEndsStep ==
  ASSUME IInv, NEW a \in Agents, PollEnds(a)
  PROVE  IInv'
<1>1. /\ UNCHANGED <<journal, source, tab, checkpoints, clients, exitTimer, faults, episodes>>
      /\ srv' = broadcastAgentPollingIfChanged([srv EXCEPT !.pendingPolls = Without(@, a)])
      /\ agent' = [agent EXCEPT ![a] = IdleAgent] /\ srv.up
  BY DEF PollEnds
<1>2. /\ Settled(srv') /\ srv'.up = srv.up /\ srv'.pendingEvents = srv.pendingEvents
      /\ ToSet(srv'.pendingPolls) = ToSet(srv.pendingPolls) \ {a}
  BY <1>1, Unparked DEF IInv
<1>3. IdleAgent \in AgentStates /\ IdleAgent.pc = "idle"
  BY DEF IdleAgent, AgentStates
<1>4. /\ agent' \in [Agents -> AgentStates]
      /\ \A b \in Agents : agent'[b].pc = "waiting" <=> agent[b].pc = "waiting" /\ b # a
  BY <1>1, <1>3 DEF IInv, Typed
<1>5. PollsWait'
  BY <1>2, <1>4 DEF IInv, PollsWait
<1>6. AskedIsQueued'
  BY <1>1, <1>2 DEF IInv, AskedIsQueued, Asked, Request
<1> QED BY <1>1, <1>2, <1>4, <1>5, <1>6 DEF IInv, Typed, Unattended

\* What an agent that works has been given; only a session's work is replied to.
LEMMA AgentFacts ==
  ASSUME agent \in [Agents -> AgentStates], NEW a \in Agents
  PROVE  /\ agent[a].pc = "working" => agent[a].event \in Events /\ agent[a].reply = None
         /\ agent[a].pc \in {"replying", "cleanup"}
              => /\ agent[a].event \in [id : Sessions, type : WorkTypes]
                 /\ agent[a].reply \in Replies
  BY DEF AgentStates

LEMMA WorkFacts ==
  ASSUME NEW e \in Events, e.type \in WorkTypes
  PROVE  e \in [id : Sessions, type : WorkTypes] /\ e.id \in Sessions
  BY DEF Events, Exit, WorkTypes

\* An agent that has done its work holds the reply.
LEMMA AgentDone ==
  ASSUME IInv, NEW a \in Agents, NEW reply \in Replies,
         agent[a].pc = "working", agent[a].event.type \in WorkTypes,
         agent' = [agent EXCEPT ![a].pc = "replying", ![a].reply = reply],
         UNCHANGED <<srv, journal, tab, checkpoints, clients, exitTimer, faults, episodes>>,
         source' \in [Sessions -> {"none", "variants", "restored", "carbonize", "accepted"}]
  PROVE  IInv'
<1> DEFINE state == [agent[a] EXCEPT !.pc = "replying", !.reply = reply]
<1>1. agent' = [agent EXCEPT ![a] = state]
  BY DEF IInv, Typed
<1>2. agent[a].event \in [id : Sessions, type : WorkTypes] /\ agent[a] \in AgentStates
  BY AgentFacts, WorkFacts DEF IInv, Typed
<1>3. state \in AgentStates /\ state.pc = "replying"
  BY <1>2 DEF AgentStates
<1> HIDE DEF state
<1>4. agent' \in [Agents -> AgentStates] /\ PollsWait'
  BY <1>1, <1>3, AgentMoves
<1> QED BY <1>4 DEF IInv, Typed, Unattended, AskedIsQueued, Asked, Request

LEMMA AgentEditsStep ==
  ASSUME IInv, NEW a \in Agents, AgentEdits(a)
  PROVE  IInv'
<1> DEFINE e == agent[a].event
<1>1. /\ agent[a].pc = "working" /\ e.type \in {"generate", "steer"} /\ e.type \in WorkTypes
      /\ UNCHANGED <<srv, journal, tab, checkpoints, clients, exitTimer, faults, episodes>>
  BY DEF AgentEdits, WorkTypes
<1>2. \E reply \in Replies : agent' = [agent EXCEPT ![a].pc = "replying", ![a].reply = reply]
  BY DEF AgentEdits, Replies
<1>3. source' \in [Sessions -> {"none", "variants", "restored", "carbonize", "accepted"}]
  <2>1. e.id \in Sessions
    BY <1>1, AgentFacts, WorkFacts DEF IInv, Typed
  <2>2. \/ source' = source
        \/ source' = [source EXCEPT ![e.id] = IF e.type = "generate" THEN "variants" ELSE @]
    BY DEF AgentEdits
  <2> QED BY <2>1, <2>2 DEF IInv, Typed, Unattended
<1> QED BY <1>1, <1>2, <1>3, AgentDone

LEMMA augmentEventWithAcceptHandlingStep ==
  ASSUME IInv, NEW a \in Agents, augmentEventWithAcceptHandling(a)
  PROVE  IInv'
<1> DEFINE e == agent[a].event
<1>1. /\ agent[a].pc = "working" /\ e.type \in WorkTypes
      /\ UNCHANGED <<srv, journal, tab, checkpoints, clients, exitTimer, faults, episodes>>
  BY DEF augmentEventWithAcceptHandling, WorkTypes
<1>2. PICK result \in AcceptResults(e) :
        /\ source' = [source EXCEPT ![e.id] = result.source]
        /\ agent' = [agent EXCEPT ![a].pc = "replying", ![a].reply = result.reply]
  BY DEF augmentEventWithAcceptHandling
<1>3. e.id \in Sessions
  BY <1>1, AgentFacts, WorkFacts DEF IInv, Typed
<1>4. /\ result.reply \in Replies
      /\ result.source \in {"none", "variants", "restored", "carbonize", "accepted"}
  BY <1>3 DEF AcceptResults, Replies, IInv, Typed
<1>5. source' \in [Sessions -> {"none", "variants", "restored", "carbonize", "accepted"}]
  BY <1>2, <1>3, <1>4 DEF IInv, Typed
<1> QED BY <1>1, <1>2, <1>4, <1>5, AgentDone

\* After a reply the agent that gave it does what it does next.
LEMMA AgentMovesOn ==
  ASSUME IInv, NEW a \in Agents, NEW id \in Sessions, NEW reply, NEW state \in AgentStates,
         srv.up, agent[a].pc # "waiting", state.pc # "waiting",
         handlePollPost(id, reply),
         agent' = [Answered(acknowledgePendingEvent(srv, id)) EXCEPT ![a] = state]
  PROVE  /\ Settled(srv') /\ agent' \in [Agents -> AgentStates] /\ srv'.up
         /\ journal' \in [Sessions -> Snapshot] /\ PollsWait' /\ AskedIsQueued'
<1> DEFINE new == Answered(acknowledgePendingEvent(srv, id))
<1>1. /\ Settled(srv') /\ journal' \in [Sessions -> Snapshot] /\ AskedIsQueued' /\ srv'.up
      /\ new \in [Agents -> AgentStates]
      /\ new[a] = agent[a]
      /\ ToSet(srv'.pendingPolls) = {b \in Agents : new[b].pc = "waiting"}
  BY ReplyStep
<1> HIDE DEF new
<1>2. agent' = [new EXCEPT ![a] = state]
  BY DEF new
<1>3. agent' \in [Agents -> AgentStates]
  BY <1>1, <1>2
<1>4. \A b \in Agents : agent'[b].pc = "waiting" <=> new[b].pc = "waiting"
  BY <1>1, <1>2
<1> QED BY <1>1, <1>3, <1>4 DEF PollsWait

LEMMA AgentRepliesStep ==
  ASSUME IInv, NEW a \in Agents, AgentReplies(a)
  PROVE  IInv'
<1> DEFINE next == IF agent[a].reply = "carbonize"
                   THEN [agent[a] EXCEPT !.pc = "cleanup"] ELSE IdleAgent
           id   == agent[a].event.id
<1>1. /\ UNCHANGED <<source, tab, checkpoints, clients, exitTimer, faults, episodes>>
      /\ agent[a].pc = "replying" /\ agent[a].pc # "waiting"
  BY DEF AgentReplies
<1>2. id \in Sessions /\ agent[a] \in AgentStates
  BY <1>1, AgentFacts DEF IInv, Typed
<1>3. next \in AgentStates /\ next.pc # "waiting"
  BY <1>1, <1>2 DEF AgentStates, IdleAgent
<1>4. IF srv.up
      THEN /\ handlePollPost(id, agent[a].reply)
           /\ agent' = [Answered(acknowledgePendingEvent(srv, id)) EXCEPT ![a] = next]
      ELSE agent' = [agent EXCEPT ![a] = next] /\ UNCHANGED <<srv, journal>>
  BY DEF AgentReplies
<1> HIDE DEF next, id
<1>5. CASE srv.up
  <2>1. /\ Settled(srv') /\ agent' \in [Agents -> AgentStates] /\ srv'.up
        /\ journal' \in [Sessions -> Snapshot] /\ PollsWait' /\ AskedIsQueued'
    BY <1>1, <1>2, <1>3, <1>4, <1>5, AgentMovesOn
  <2> QED BY <1>1, <2>1 DEF IInv, Typed, Unattended
<1>6. CASE ~ srv.up
  <2>1. agent' \in [Agents -> AgentStates] /\ PollsWait'
    BY <1>1, <1>3, <1>4, <1>6, AgentMoves
  <2> QED BY <1>1, <1>4, <1>6, <2>1 DEF IInv, Typed, Unattended, AskedIsQueued, Asked, Request
<1> QED BY <1>5, <1>6

LEMMA completeCliStep ==
  ASSUME IInv, NEW a \in Agents, completeCli(a)
  PROVE  IInv'
<1> DEFINE id == agent[a].event.id
<1>1. /\ UNCHANGED <<tab, checkpoints, clients, exitTimer, faults, episodes>>
      /\ agent[a].pc = "cleanup" /\ agent[a].pc # "waiting"
      /\ source' = [source EXCEPT ![id] = "accepted"]
  BY DEF completeCli
<1>2. id \in Sessions
  BY <1>1, AgentFacts DEF IInv, Typed
<1>3. source' \in [Sessions -> {"none", "variants", "restored", "carbonize", "accepted"}]
  BY <1>1, <1>2 DEF IInv, Typed
<1>4. IdleAgent \in AgentStates /\ IdleAgent.pc # "waiting"
  BY DEF AgentStates, IdleAgent
<1>5. CASE srv.up
  <2>1. /\ handlePollPost(id, "complete")
        /\ agent' = [Answered(acknowledgePendingEvent(srv, id)) EXCEPT ![a] = IdleAgent]
    BY <1>5 DEF completeCli
  <2> HIDE DEF id
  <2>2. /\ Settled(srv') /\ agent' \in [Agents -> AgentStates] /\ srv'.up
        /\ journal' \in [Sessions -> Snapshot] /\ PollsWait' /\ AskedIsQueued'
    BY <1>1, <1>2, <1>4, <1>5, <2>1, AgentMovesOn
  <2> QED BY <1>1, <1>3, <2>2 DEF IInv, Typed, Unattended
<1>6. CASE ~ srv.up
  <2> DEFINE next == applyEvent(journal[id], JournalEvent(id, "complete"))
  <2>1. /\ journal' = [journal EXCEPT ![id] = next] /\ srv' = srv
        /\ agent' = [agent EXCEPT ![a] = IdleAgent]
    BY <1>6 DEF completeCli
  <2> HIDE DEF id
  <2>2. agent' \in [Agents -> AgentStates] /\ PollsWait'
    BY <1>1, <1>4, <2>1, AgentMoves
  <2>3. next \in Snapshot
    BY <1>2, ReplyApplied DEF IInv, Typed
  <2> HIDE DEF next
  <2>4. journal' \in [Sessions -> Snapshot]
    BY <1>2, <2>1, <2>3 DEF IInv, Typed
  <2> QED BY <1>1, <1>3, <1>6, <2>1, <2>2, <2>4 DEF IInv, Typed, Unattended, AskedIsQueued
<1> QED BY <1>5, <1>6

LEMMA AgentCrashesStep ==
  ASSUME IInv, NEW a \in Agents, AgentCrashes(a)
  PROVE  IInv'
<1>1. /\ UNCHANGED <<srv, journal, source, tab, checkpoints, clients, exitTimer, episodes>>
      /\ agent[a].pc # "waiting" /\ agent' = [agent EXCEPT ![a] = IdleAgent]
      /\ faults' \in 0..MaxFaults
  BY BoundsAssumption DEF AgentCrashes, IInv, Typed
<1>2. IdleAgent \in AgentStates /\ IdleAgent.pc # "waiting"
  BY DEF AgentStates, IdleAgent
<1>3. agent' \in [Agents -> AgentStates] /\ PollsWait'
  BY <1>1, <1>2, AgentMoves
<1> QED BY <1>1, <1>3 DEF IInv, Typed, Unattended, AskedIsQueued, Asked, Request


-----------------------------------------------------------------------------
(* Time, death and start *)

LEMMA LeaseExpiresStep ==
  ASSUME IInv, LeaseExpires
  PROVE  IInv'
<1>1. /\ UNCHANGED <<journal, source, agent, tab, checkpoints, clients, exitTimer,
                     faults, episodes>>
      /\ srv' = [srv EXCEPT !.leases = Tail(@)] /\ srv.leases # <<>>
  BY DEF LeaseExpires
<1>2. /\ Settled(srv') /\ srv'.up = srv.up /\ srv'.pendingEvents = srv.pendingEvents
      /\ srv'.pendingPolls = srv.pendingPolls
  BY <1>1, Expired DEF IInv
<1> QED BY <1>1, <1>2 DEF IInv, Typed, Unattended, PollsWait, AskedIsQueued, Asked, Request

LEMMA LeaseTimerFiresStep ==
  ASSUME IInv, LeaseTimerFires
  PROVE  IInv'
<1> DEFINE s == flushPendingPolls(srv)
<1>1. /\ UNCHANGED <<journal, source, tab, checkpoints, clients, exitTimer, faults, episodes>>
      /\ srv' = broadcastAgentPollingIfChanged(s) /\ agent' = Answered(srv) /\ srv.up
  BY DEF LeaseTimerFires
<1>2. Orderly(srv) /\ agent \in [Agents -> AgentStates]
      /\ ToSet(srv.pendingPolls) = {a \in Agents : agent[a].pc = "waiting"}
  BY DEF IInv, Settled, Typed, PollsWait
<1>3. /\ Settled(s) /\ s.up = srv.up
      /\ ToSet(s.pendingEvents) \ {Exit} = ToSet(srv.pendingEvents) \ {Exit}
  BY <1>2, Flush
<1>4. /\ agent' \in [Agents -> AgentStates]
      /\ ToSet(s.pendingPolls) = {a \in Agents : agent'[a].pc = "waiting"}
  BY <1>1, <1>2, AnsweredAgents
<1> HIDE DEF s
<1>5. srv' \in Servers /\ SameQueue(s, srv') /\ srv'.leaseTimer = s.leaseTimer
  BY <1>1, <1>3, Broadcast DEF Settled, Orderly
<1>6. Settled(srv')
  <2>1. Orderly(srv') /\ Available(srv') = Available(s)
    BY <1>3, <1>5, SameQueueIsOrderly DEF Settled
  <2> QED BY <1>3, <1>5, <2>1 DEF Settled, SameQueue
<1>7. PollsWait'
  BY <1>4, <1>5 DEF PollsWait, SameQueue
<1>8. AskedIsQueued'
  <2>1. srv'.up = srv.up /\ srv'.pendingEvents = s.pendingEvents
    BY <1>3, <1>5 DEF SameQueue
  <2> QED BY <1>1, <1>3, <2>1, RequestFacts
          DEF IInv, Typed, Unattended, AskedIsQueued, Asked, Request
<1>9. srv'.up
  BY <1>1, <1>3, <1>5 DEF SameQueue
<1> QED BY <1>1, <1>4, <1>6, <1>7, <1>8, <1>9 DEF IInv, Typed, Unattended

\* When the server goes, nobody waits for it any more.
LEMMA ServerGoneStep ==
  ASSUME IInv, ServerGone, NEW S \in SUBSET Agents,
         agent' = [b \in Agents |-> IF b \in S \/ agent[b].pc = "waiting"
                                    THEN IdleAgent ELSE agent[b]],
         UNCHANGED <<journal, source, tab, checkpoints, episodes>>,
         faults' \in 0..MaxFaults
  PROVE  IInv'
<1>1. /\ srv' = [NewServer EXCEPT !.up = FALSE] /\ clients' = FALSE /\ exitTimer' = FALSE
  BY DEF ServerGone
<1>2. /\ srv' \in Servers /\ srv'.pendingEvents = <<>> /\ srv'.pendingPolls = <<>>
      /\ srv'.leases = <<>> /\ ~ srv'.up
  BY <1>1, EmptySeq DEF NewServer, Servers
<1>3. Settled(srv')
  BY <1>2, EmptyIsSettled
<1>4. IdleAgent \in AgentStates /\ IdleAgent.pc = "idle"
  BY DEF IdleAgent, AgentStates
<1>5. agent' \in [Agents -> AgentStates] /\ \A b \in Agents : agent'[b].pc # "waiting"
  BY <1>4 DEF IInv, Typed
<1>6. PollsWait'
  BY <1>2, <1>5, ListingOfNone DEF PollsWait
<1> QED BY <1>1, <1>2, <1>3, <1>5, <1>6 DEF IInv, Typed, Unattended, AskedIsQueued

LEMMA shutdownStep ==
  ASSUME IInv, NEW a \in Agents, shutdown(a)
  PROVE  IInv'
<1>1. /\ UNCHANGED <<journal, source, tab, checkpoints, faults, episodes>>
      /\ agent' = [b \in Agents |->
           IF b = a \/ agent[b].pc = "waiting" THEN IdleAgent ELSE agent[b]]
      /\ agent[a].pc = "working"
  BY DEF shutdown
<1>2. CASE srv.up
  <2>1. /\ ServerGone /\ faults' \in 0..MaxFaults
    BY <1>1, <1>2 DEF shutdown, IInv, Typed
  <2>2. agent' = [b \in Agents |-> IF b \in {a} \/ agent[b].pc = "waiting"
                                    THEN IdleAgent ELSE agent[b]]
    BY <1>1
  <2>3. UNCHANGED <<journal, source, tab, checkpoints, episodes>>
    BY <1>1
  <2> QED BY <2>1, <2>2, <2>3, ServerGoneStep
<1>3. CASE ~ srv.up
  <2>1. UNCHANGED <<srv, clients, exitTimer>>
    BY <1>3 DEF shutdown
  <2>2. \A b \in Agents : agent[b].pc # "waiting"
    BY <1>3, ListingOfNone DEF IInv, Unattended, PollsWait
  <2>3. IdleAgent \in AgentStates /\ IdleAgent.pc # "waiting"
    BY DEF IdleAgent, AgentStates
  <2>4. agent' = [agent EXCEPT ![a] = IdleAgent]
    BY <1>1, <2>2 DEF IInv, Typed
  <2>5. agent' \in [Agents -> AgentStates] /\ PollsWait'
    BY <2>1, <2>2, <2>3, <2>4, AgentMoves
  <2> QED BY <1>1, <2>1, <2>5 DEF IInv, Typed, Unattended, AskedIsQueued, Asked, Request
<1> QED BY <1>2, <1>3

LEMMA ServerDiesStep ==
  ASSUME IInv, ServerDies
  PROVE  IInv'
<1>1. /\ ServerGone /\ UNCHANGED <<journal, source, tab, checkpoints, episodes>>
      /\ faults' \in 0..MaxFaults
      /\ agent' = [b \in Agents |-> IF agent[b].pc = "waiting" THEN IdleAgent ELSE agent[b]]
  BY BoundsAssumption DEF ServerDies, IInv, Typed
<1>2. agent' = [b \in Agents |-> IF b \in {} \/ agent[b].pc = "waiting"
                                  THEN IdleAgent ELSE agent[b]]
  BY <1>1
<1>3. {} \in SUBSET Agents
  OBVIOUS
<1> QED BY <1>1, <1>2, <1>3, ServerGoneStep, Zenon

LEMMA ServerStartsStep ==
  ASSUME IInv, ServerStarts
  PROVE  IInv'
<1>1. /\ UNCHANGED <<journal, source, agent, tab, checkpoints, clients, exitTimer,
                     faults, episodes>>
      /\ srv' = [NewServer EXCEPT !.pendingEvents = restorePendingEventsFromStore]
      /\ journal \in [Sessions -> Snapshot]
  BY DEF ServerStarts, IInv, Typed
<1>2. /\ Settled(srv') /\ srv'.pendingPolls = <<>>
      /\ \A s \in Sessions :
           journal[s].phase \notin COMPLETED_PHASES /\ journal[s].pendingEvent # None
             => [id |-> s, type |-> journal[s].pendingEvent] \in ToSet(srv'.pendingEvents)
  BY <1>1, Restored
<1>3. AskedIsQueued'
  BY <1>1, <1>2 DEF AskedIsQueued, Asked, Request
<1>4. PollsWait'
  <2>1. srv.pendingPolls = <<>>
    BY DEF ServerStarts, IInv, Unattended
  <2> QED BY <1>1, <1>2, <2>1 DEF IInv, PollsWait
<1> QED BY <1>1, <1>2, <1>3, <1>4 DEF IInv, Typed, Unattended


-----------------------------------------------------------------------------
(* The theorems *)

LEMMA InvariantIsKept ==
  ASSUME IInv, [Next]_vars
  PROVE  IInv'
<1>1. ASSUME NEW s \in Sessions, NEW type \in {"generate", "steer"}, Begin(s, type)
      PROVE  IInv'
  BY <1>1, BeginStep
<1>2. ASSUME NEW s \in Sessions, SeeVariants(s) PROVE IInv'
  BY <1>2, SeeVariantsStep
<1>3. ASSUME NEW s \in Sessions, NEW type \in {"accept", "discard"}, Decide(s, type)
      PROVE  IInv'
  BY <1>3, DecideStep
<1>4. ASSUME NEW c \in checkpoints, CheckpointArrives(c) PROVE IInv'
  BY <1>4, CheckpointArrivesStep
<1>5. CASE PageConnects
  BY <1>5, PageConnectsStep
<1>6. CASE PageLeaves
  BY <1>6, PageLeavesStep
<1>7. CASE PageExits
  BY <1>7, PageExitsStep
<1>8. ASSUME NEW a \in Agents, AgentSteps(a) \/ PollEnds(a) \/ AgentCrashes(a)
      PROVE  IInv'
  <2>1. CASE handlePollGet(a)
    BY <2>1, handlePollGetStep
  <2>2. CASE AgentEdits(a)
    BY <2>2, AgentEditsStep
  <2>3. CASE augmentEventWithAcceptHandling(a)
    BY <2>3, augmentEventWithAcceptHandlingStep
  <2>4. CASE AgentReplies(a)
    BY <2>4, AgentRepliesStep
  <2>5. CASE completeCli(a)
    BY <2>5, completeCliStep
  <2>6. CASE shutdown(a)
    BY <2>6, shutdownStep
  <2>7. CASE PollEnds(a)
    BY <2>7, PollEndsStep
  <2>8. CASE AgentCrashes(a)
    BY <2>8, AgentCrashesStep
  <2> QED BY <1>8, <2>1, <2>2, <2>3, <2>4, <2>5, <2>6, <2>7, <2>8 DEF AgentSteps
<1>9. CASE LeaseExpires
  BY <1>9, LeaseExpiresStep
<1>10. CASE LeaseTimerFires
  BY <1>10, LeaseTimerFiresStep
<1>11. CASE ExitTimerFires
  BY <1>11, ExitTimerFiresStep
<1>12. CASE ServerDies
  BY <1>12, ServerDiesStep
<1>13. CASE ServerStarts
  BY <1>13, ServerStartsStep
<1>14. CASE UNCHANGED vars
  BY <1>14 DEF vars, IInv, Typed, Unattended, PollsWait, AskedIsQueued, Asked, Request
<1> QED BY <1>1, <1>2, <1>3, <1>4, <1>5, <1>6, <1>7, <1>8, <1>9, <1>10, <1>11, <1>12,
           <1>13, <1>14 DEF Next, Browser, Timers

LEMMA InvariantAlways == Spec => []IInv
<1>1. Init => IInv
  BY InvariantHolds
<1>2. IInv /\ [Next]_vars => IInv'
  BY InvariantIsKept
<1> QED BY <1>1, <1>2, PTL DEF Spec

\* The server's memory, the agents and the journals have their types; every
\* lease is of a queued event and unique; and the parked polls are exactly
\* those of the agents that wait (leaseEvent, flushPendingPolls,
\* acknowledgePendingEvent).
THEOREM TypeCorrect == Spec => []TypeOK
<1>1. IInv => TypeOK
  BY InvariantImplies
<1> QED BY <1>1, InvariantAlways, PTL

\* No agent stays parked next to work that could be handed to it without a
\* timer that will look again (scheduleLeaseFlush, flushPendingPolls).
THEOREM WakeupsAreNotLost == Spec => []NoLostWakeup
<1>1. IInv => NoLostWakeup
  BY InvariantImplies
<1> QED BY <1>1, InvariantAlways, PTL

\* What a restart would requeue from the journals is in the queue of a running
\* server, across posts, replies, checkpoints, deaths and restarts
\* (restorePendingEventsFromStore, handlePollPost).
THEOREM JournalIsQueued == Spec => []JournalPendingIsQueued
<1>1. IInv => JournalPendingIsQueued
  BY InvariantImplies
<1> QED BY <1>1, InvariantAlways, PTL

\* How a step changes a journal: by a request, a checkpoint, a reply somebody
\* waited for or a reply to a session that is not over, or live-complete.mjs.
Journalled(s) ==
  \/ journal'[s] = journal[s]
  \/ \E type \in WorkTypes : journal'[s] = applyEvent(journal[s], [type |-> type])
  \/ \E c \in Checkpoints : journal'[s] = applyEvent(journal[s], c)
  \/ \E reply \in Replies :
       /\ journal'[s] = applyEvent(journal[s], JournalEvent(s, reply))
       /\ reply = "complete" \/ ~ skipJournalReply(s)

LEMMA OnlyJournalled ==
  ASSUME IInv, [Next]_vars, NEW s \in Sessions
  PROVE  Journalled(s)
<1>1. journal \in [Sessions -> Snapshot]
  BY DEF IInv, Typed
<1>2. CASE UNCHANGED journal
  BY <1>2 DEF Journalled
<1>3. ASSUME NEW q \in Sessions, NEW type \in WorkTypes, PostEvent(q, type)
      PROVE  Journalled(s)
  <2>1. journal'[s] = IF s = q THEN applyEvent(journal[s], [type |-> type]) ELSE journal[s]
    BY <1>1, <1>3 DEF PostEvent
  <2> QED BY <2>1 DEF Journalled
<1>4. ASSUME NEW c \in checkpoints, CheckpointArrives(c) PROVE Journalled(s)
  <2>1. c \in Checkpoints
    BY DEF IInv, Typed
  <2>2. journal'[s] = journal[s] \/ journal'[s] = applyEvent(journal[s], c)
    BY <1>1, <1>4 DEF CheckpointArrives
  <2> QED BY <2>1, <2>2 DEF Journalled
<1>5. ASSUME NEW id \in Sessions, NEW reply \in Replies, handlePollPost(id, reply)
      PROVE  Journalled(s)
  <2>1. CASE skipJournalReply(id) \/ s # id
    <3>1. journal'[s] = journal[s]
      BY <1>1, <1>5, <2>1 DEF handlePollPost
    <3> QED BY <3>1 DEF Journalled
  <2>2. CASE ~ skipJournalReply(id) /\ s = id
    <3>1. journal'[s] = applyEvent(journal[s], JournalEvent(s, reply))
      BY <1>1, <1>5, <2>2 DEF handlePollPost
    <3> QED BY <2>2, <3>1 DEF Journalled
  <2> QED BY <2>1, <2>2
<1>6. ASSUME NEW a \in Agents, AgentReplies(a) PROVE Journalled(s)
  <2>1. /\ agent[a].event.id \in Sessions /\ agent[a].reply \in Replies
    BY <1>6, AgentFacts DEF AgentReplies, IInv, Typed
  <2> QED BY <1>2, <1>5, <1>6, <2>1 DEF AgentReplies
<1>7. ASSUME NEW a \in Agents, completeCli(a) PROVE Journalled(s)
  <2> DEFINE id == agent[a].event.id
  <2>1. id \in Sessions /\ "complete" \in Replies
    BY <1>7, AgentFacts DEF completeCli, IInv, Typed, Replies
  <2>2. CASE srv.up
    BY <1>5, <1>7, <2>1, <2>2 DEF completeCli
  <2>3. CASE ~ srv.up
    <3>1. journal' = [journal EXCEPT ![id] = applyEvent(@, JournalEvent(id, "complete"))]
      BY <1>7, <2>3 DEF completeCli
    <3> HIDE DEF id
    <3>2. CASE s # id
      BY <1>1, <3>1, <3>2 DEF Journalled
    <3>3. CASE s = id
      <4>1. journal'[s] = applyEvent(journal[s], JournalEvent(s, "complete"))
        BY <1>1, <3>1, <3>3
      <4> QED BY <2>1, <4>1 DEF Journalled
    <3> QED BY <3>2, <3>3
  <2> QED BY <2>2, <2>3
<1>8. \/ UNCHANGED journal
      \/ \E q \in Sessions, type \in WorkTypes : PostEvent(q, type)
      \/ \E c \in checkpoints : CheckpointArrives(c)
      \/ \E a \in Agents : AgentReplies(a) \/ completeCli(a)
  <2>1. ASSUME NEW q \in Sessions, NEW type \in {"generate", "steer"}, Begin(q, type)
        PROVE  \E t \in WorkTypes : PostEvent(q, t)
    BY <2>1 DEF Begin, WorkTypes
  <2>2. ASSUME NEW q \in Sessions, NEW type \in {"accept", "discard"}, Decide(q, type)
        PROVE  \E t \in WorkTypes : PostEvent(q, t)
    BY <2>2 DEF Decide, WorkTypes
  <2>3. ASSUME NEW q \in Sessions, SeeVariants(q) PROVE UNCHANGED journal
    BY <2>3 DEF SeeVariants
  <2>4. ASSUME PageConnects \/ PageLeaves \/ PageExits PROVE UNCHANGED journal
    BY <2>4 DEF PageConnects, PageLeaves, PageExits
  <2>5. ASSUME NEW a \in Agents,
               \/ handlePollGet(a) \/ AgentEdits(a) \/ augmentEventWithAcceptHandling(a)
               \/ shutdown(a) \/ PollEnds(a) \/ AgentCrashes(a)
        PROVE  UNCHANGED journal
    BY <2>5 DEF handlePollGet, AgentEdits, augmentEventWithAcceptHandling, shutdown,
                PollEnds, AgentCrashes
  <2>6. ASSUME Timers \/ ServerDies \/ ServerStarts \/ UNCHANGED vars
        PROVE  UNCHANGED journal
    BY <2>6 DEF Timers, LeaseExpires, LeaseTimerFires, ExitTimerFires, ServerDies,
                ServerStarts, vars
  <2> QED BY <2>1, <2>2, <2>3, <2>4, <2>5, <2>6 DEF Next, Browser, AgentSteps
<1> QED BY <1>2, <1>3, <1>4, <1>6, <1>7, <1>8

\* A session that is over comes back to life only by a new request or by the
\* reply to an event of it that was still queued; a late checkpoint or a reply
\* nobody waits for changes nothing (Checkpointed, skipJournalReply).
THEOREM FinishedSessionsStayFinished == Spec => OverIsOver
<1> DEFINE Step == \A s \in Sessions :
                     /\ journal[s].phase \in COMPLETED_PHASES
                     /\ journal'[s].phase \notin COMPLETED_PHASES
                     => EventsOf(srv, s) # <<>> \/ journal'[s].pendingEvent # None
<1>1. IInv /\ [Next]_vars => Step
  <2>1. SUFFICES ASSUME IInv, [Next]_vars, NEW s \in Sessions,
                        journal[s].phase \in COMPLETED_PHASES,
                        journal'[s].phase \notin COMPLETED_PHASES,
                        EventsOf(srv, s) = <<>>
                 PROVE  journal'[s].pendingEvent # None
    OBVIOUS
  <2>2. journal[s] \in Snapshot /\ skipJournalReply(s)
    BY <2>1 DEF IInv, Typed, skipJournalReply
  <2>3. journal'[s] # journal[s]
    BY <2>1
  <2>4. ASSUME NEW type \in WorkTypes, journal'[s] = applyEvent(journal[s], [type |-> type])
        PROVE  journal'[s].pendingEvent # None
    <3>1. journal'[s].pendingEvent = type
      BY <2>2, <2>4, RequestApplied
    <3> QED BY <3>1 DEF WorkTypes, None
  <2>5. ASSUME NEW c \in Checkpoints, journal'[s] = applyEvent(journal[s], c)
        PROVE  FALSE
    BY <2>1, <2>2, <2>5, CheckpointApplied
  <2>6. ASSUME journal'[s] = applyEvent(journal[s], JournalEvent(s, "complete"))
        PROVE  FALSE
    <3>1. journal'[s].phase = "completed"
      BY <2>2, <2>6, ReplyApplied
    <3> QED BY <2>1, <3>1 DEF COMPLETED_PHASES
  <2>7. Journalled(s)
    BY <2>1, OnlyJournalled
  <2> QED BY <2>2, <2>3, <2>4, <2>5, <2>6, <2>7 DEF Journalled
<1>2. [][Step]_vars <=> OverIsOver
  BY PTL DEF OverIsOver
<1> QED BY <1>1, <1>2, InvariantAlways, PTL DEF Spec

===============================================================================
