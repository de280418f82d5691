------------------------------- MODULE Queues -------------------------------
(***************************************************************************)
(* The sequences of verbs a phase owes: how they are picked and put in     *)
(* order, and what is true of every verb of a sequence that is put         *)
(* together from others.                                                   *)
(***************************************************************************)
EXTENDS Naturals, FiniteSets, SequencesExt, FiniteSetTheorems, SequenceTheorems,
        WellFoundedInduction, TLAPS

\* The elements of a sequence that are in K, in their order.
Only(s, K) == FlattenSeq([i \in 1..Len(s) |-> IF s[i] \in K THEN <<s[i]>> ELSE << >>])

\* A finite set of numbers, the lowest first.
InOrder(S) ==
  CHOOSE s \in [1..Cardinality(S) -> S] : \A i, j \in 1..Cardinality(S) : i < j => s[i] < s[j]

-----------------------------------------------------------------------------
(* A set of numbers has a least one, by which what follows is induction. *)

LEMMA SomeLeast ==
  ASSUME NEW S, S \subseteq Nat, S # {}
  PROVE  \E i \in S : \A j \in S : ~(j < i)
  <1>1. PICK i \in S : \A j \in S : <<j, i>> \notin OpToRel(<, Nat)
    BY WFMin, NatLessThanWellFounded, Zenon
  <1> QED BY <1>1, Zenon DEF OpToRel

LEMMA MinIn ==
  ASSUME NEW S, S \subseteq Nat, S # {}
  PROVE  Min(S) \in S /\ \A j \in S : Min(S) <= j
  <1>1. PICK i \in S : \A j \in S : ~(j < i)
    BY SomeLeast
  <1>2. \A j \in S : i <= j
    BY <1>1
  <1> QED BY <1>2 DEF Min

\* A finite one has a greatest, found by taking one number away after another.
LEMMA MaxIn ==
  ASSUME NEW S, S \subseteq Nat, S # {}, IsFiniteSet(S)
  PROVE  Max(S) \in S /\ \A j \in S : j <= Max(S)
  <1> DEFINE Topless == {n \in Nat : \E T \in SUBSET Nat :
                           /\ IsFiniteSet(T) /\ Cardinality(T) = n /\ T # {}
                           /\ ~\E m \in T : \A j \in T : j <= m}
  <1>1. Topless = {}
    <2> SUFFICES ASSUME Topless # {} PROVE FALSE
      OBVIOUS
    <2>1. PICK n \in Topless : \A j \in Topless : ~(j < n)
      <3>1. Topless \subseteq Nat
        OBVIOUS
      <3> HIDE DEF Topless
      <3> QED BY <3>1, SomeLeast
    <2>2. PICK T \in SUBSET Nat : /\ IsFiniteSet(T) /\ Cardinality(T) = n /\ T # {}
                                  /\ ~\E m \in T : \A j \in T : j <= m
      BY <2>1
    <2>3. PICK x \in T : TRUE
      BY <2>2
    <2>4. n \in Nat /\ IsFiniteSet(T \ {x}) /\ Cardinality(T \ {x}) = n - 1
      BY <2>1, <2>2, <2>3, FS_RemoveElement
    <2>5. CASE T \ {x} = {}
      <3>1. \A j \in T : j <= x
        BY <2>2, <2>3, <2>5
      <3> QED BY <2>2, <2>3, <3>1
    <2>6. CASE T \ {x} # {}
      <3>1. n - 1 \in Nat /\ n - 1 < n
        BY <2>4, FS_CardinalityType
      <3>2. PICK m \in T \ {x} : \A j \in T \ {x} : j <= m
        BY <2>1, <2>2, <2>4, <2>6, <3>1
      <3>3. \A j \in T : j <= IF x > m THEN x ELSE m
        BY <2>2, <2>3, <3>2
      <3> QED BY <2>2, <2>3, <3>2, <3>3
    <2> QED BY <2>5, <2>6
  <1>2. Cardinality(S) \in Nat
    BY FS_CardinalityType
  <1>3. PICK m \in S : \A j \in S : j <= m
    BY <1>1, <1>2
  <1>4. \A j \in S : m >= j
    BY <1>3
  <1>5. Max(S) \in S /\ \A j \in S : Max(S) >= j
    BY <1>4 DEF Max
  <1> QED BY <1>5

-----------------------------------------------------------------------------
(* Whatever holds of each part of a flattened sequence and survives a        *)
(* concatenation holds of the whole.                                         *)

LEMMA Flattened ==
  ASSUME NEW n \in Nat, n # 0, NEW s
  PROVE  \E g : g = [i \in 1..n |-> IF i = 1 THEN s[i] ELSE g[i-1] \o s[i]]
  <1> DEFINE Flat(g, k) == g = [i \in 1..k |-> IF i = 1 THEN s[i] ELSE g[i-1] \o s[i]]
             Without == {k \in Nat : k # 0 /\ ~\E g : Flat(g, k)}
  <1>1. Without = {}
    <2> SUFFICES ASSUME Without # {} PROVE FALSE
      OBVIOUS
    <2>1. PICK k \in Without : \A j \in Without : ~(j < k)
      BY SomeLeast
    <2>2. CASE k = 1
      <3>1. Flat([i \in 1..1 |-> s[i]], 1)
        OBVIOUS
      <3> QED BY <2>1, <2>2, <3>1
    <2>3. CASE k # 1
      <3>1. k - 1 \in Nat /\ k - 1 # 0 /\ k - 1 < k
        BY <2>1, <2>3
      <3>2. PICK g : Flat(g, k - 1)
        BY <2>1, <3>1
      <3> DEFINE h == [i \in 1..k |-> IF i = k THEN g[k-1] \o s[k] ELSE g[i]]
      <3>3. \A i \in 1..k : h[i] = IF i = 1 THEN s[i] ELSE h[i-1] \o s[i]
        <4> TAKE i \in 1..k
        <4>1. CASE i = k
          <5>1. k - 1 \in 1..k /\ k - 1 # k
            BY <2>1, <3>1
          <5>2. h[k-1] = g[k-1] /\ h[k] = g[k-1] \o s[k]
            BY <4>1, <5>1
          <5> QED BY <2>3, <4>1, <5>2
        <4>2. CASE i # k
          <5>1. i \in 1..(k-1)
            BY <3>1, <4>2
          <5>2. h[i] = g[i]
            BY <4>2
          <5>3. g[i] = IF i = 1 THEN s[i] ELSE g[i-1] \o s[i]
            BY <3>2, <5>1
          <5>4. i # 1 => i - 1 \in 1..k /\ i - 1 # k
            BY <3>1, <5>1
          <5>5. i # 1 => h[i-1] = g[i-1]
            BY <5>4
          <5> QED BY <5>2, <5>3, <5>5
        <4> QED BY <4>1, <4>2
      <3>4. Flat(h, k)
        BY <3>3
      <3> QED BY <2>1, <3>4
    <2> QED BY <2>2, <2>3
  <1> QED BY <1>1

LEMMA FlattenIn ==
  ASSUME NEW S, << >> \in S, \A s, t \in S : s \o t \in S,
         NEW n \in Nat, NEW parts \in [1..n -> S]
  PROVE  FlattenSeq(parts) \in S
  <1>0. Len(parts) = n /\ DOMAIN parts = 1..n
    OBVIOUS
  <1>1. CASE n = 0
    <2>1. parts = << >>
      BY <1>1
    <2> QED BY <1>0, <1>1, <2>1 DEF FlattenSeq
  <1>2. CASE n # 0
    <2> DEFINE f == CHOOSE g : g = [i \in 1..n |-> IF i = 1 THEN parts[i] ELSE g[i-1] \o parts[i]]
               Outside == {i \in 1..n : f[i] \notin S}
    <2>1. f = [i \in 1..n |-> IF i = 1 THEN parts[i] ELSE f[i-1] \o parts[i]]
      <3>1. \E g : g = [i \in 1..n |-> IF i = 1 THEN parts[i] ELSE g[i-1] \o parts[i]]
        BY <1>2, Flattened
      <3> QED BY <3>1
    <2>2. FlattenSeq(parts) = f[n]
      BY <1>0, <1>2 DEF FlattenSeq
    <2> HIDE DEF f
    <2>3. Outside = {}
      <3> SUFFICES ASSUME Outside # {} PROVE FALSE
        OBVIOUS
      <3>1. PICK i \in Outside : \A j \in Outside : ~(j < i)
        <4>1. Outside \subseteq Nat
          OBVIOUS
        <4> HIDE DEF Outside
        <4> QED BY <4>1, SomeLeast
      <3>2. i \in 1..n /\ f[i] \notin S /\ parts[i] \in S
        BY <3>1
      <3>3. f[i] = IF i = 1 THEN parts[i] ELSE f[i-1] \o parts[i]
        BY <2>1, <3>2
      <3>4. CASE i = 1
        BY <3>2, <3>3, <3>4
      <3>5. CASE i # 1
        <4>1. i - 1 \in 1..n /\ i - 1 < i
          BY <3>2, <3>5
        <4>2. f[i-1] \in S
          BY <3>1, <4>1
        <4> QED BY <3>2, <3>3, <3>5, <4>2
      <3> QED BY <3>4, <3>5
    <2> QED BY <1>2, <2>2, <2>3
  <1> QED BY <1>1, <1>2

LEMMA OnlyIn ==
  ASSUME NEW S, << >> \in S, \A s, t \in S : s \o t \in S,
         NEW T, NEW q \in Seq(T), NEW K, \A x \in T \cap K : <<x>> \in S
  PROVE  Only(q, K) \in S
  <1> DEFINE parts == [i \in 1..Len(q) |-> IF q[i] \in K THEN <<q[i]>> ELSE << >>]
  <1>1. Len(q) \in Nat /\ \A i \in 1..Len(q) : q[i] \in T
    OBVIOUS
  <1>2. parts \in [1..Len(q) -> S]
    BY <1>1
  <1> HIDE DEF parts
  <1>3. FlattenSeq(parts) \in S
    BY <1>1, <1>2, FlattenIn
  <1> QED BY <1>3 DEF Only, parts

\* What is picked keeps its order: what came before it and is picked too still does.
LEMMA OnlyAfter ==
  ASSUME NEW T, NEW q \in Seq(T), NEW K
  PROVE  /\ Only(q, K) \in Seq(T \cap K)
         /\ \A i \in 1..Len(Only(q, K)) : \E k \in 1..Len(q) :
              /\ q[k] = Only(q, K)[i]
              /\ \A j \in 1..(k-1) : q[j] \in K => \E m \in 1..(i-1) : Only(q, K)[m] = q[j]
  <1> DEFINE n == Len(q)
             parts == [i \in 1..n |-> IF q[i] \in K THEN <<q[i]>> ELSE << >>]
             Kept(s, k) == /\ s \in Seq(T \cap K)
                           /\ \A i \in 1..Len(s) : \E l \in 1..k :
                                /\ q[l] = s[i]
                                /\ \A j \in 1..(l-1) : q[j] \in K => \E m \in 1..(i-1) : s[m] = q[j]
                           /\ \A j \in 1..k : q[j] \in K => \E m \in 1..Len(s) : s[m] = q[j]
  <1>1. n \in Nat /\ \A i \in 1..n : q[i] \in T
    OBVIOUS
  <1>2. Len(parts) = n /\ \A i \in 1..n : parts[i] = IF q[i] \in K THEN <<q[i]>> ELSE << >>
    BY <1>1
  <1>3. Only(q, K) = FlattenSeq(parts)
    BY DEF Only
  <1> HIDE DEF parts, n
  <1>4. CASE n = 0
    <2>1. Only(q, K) = << >>
      BY <1>2, <1>3, <1>4 DEF FlattenSeq, parts
    <2> QED BY <1>4, <2>1 DEF n
  <1>5. CASE n # 0
    <2> DEFINE f == CHOOSE g : g = [i \in 1..n |-> IF i = 1 THEN parts[i] ELSE g[i-1] \o parts[i]]
               Lost == {i \in 1..n : ~Kept(f[i], i)}
    <2>1. f = [i \in 1..n |-> IF i = 1 THEN parts[i] ELSE f[i-1] \o parts[i]]
      <3>1. \E g : g = [i \in 1..n |-> IF i = 1 THEN parts[i] ELSE g[i-1] \o parts[i]]
        BY <1>1, <1>5, Flattened
      <3> QED BY <3>1
    <2>2. Only(q, K) = f[n]
      BY <1>2, <1>3, <1>5 DEF FlattenSeq
    <2> HIDE DEF f
    <2>3. Lost = {}
      <3> SUFFICES ASSUME Lost # {} PROVE FALSE
        OBVIOUS
      <3>1. PICK i \in Lost : \A j \in Lost : ~(j < i)
        <4>1. Lost \subseteq Nat
          BY <1>1
        <4> HIDE DEF Lost
        <4> QED BY <4>1, SomeLeast
      <3>2. i \in 1..n /\ ~Kept(f[i], i) /\ i \in Nat
        BY <1>1, <3>1
      <3>3. f[i] = IF i = 1 THEN parts[i] ELSE f[i-1] \o parts[i]
        BY <2>1, <3>2
      <3> DEFINE s == IF i = 1 THEN << >> ELSE f[i-1]
      <3>4. Kept(s, i - 1)
        <4>1. CASE i = 1
          BY <4>1
        <4>2. CASE i # 1
          <5>1. i - 1 \in 1..n /\ i - 1 < i
            BY <1>1, <3>2, <4>2
          <5> HIDE DEF Kept
          <5>2. Kept(f[i-1], i - 1)
            BY <3>1, <5>1
          <5> QED BY <4>2, <5>2
        <4> QED BY <4>1, <4>2
      <3>5. f[i] = s \o parts[i]
        <4>1. i = 1 => << >> \o parts[i] = parts[i]
          <5>1. q[i] \in T /\ <<q[i]>> \in Seq(T) /\ << >> \in Seq(T)
            BY <1>1, <3>2
          <5>2. parts[i] \in Seq(T)
            BY <1>2, <3>2, <5>1
          <5> QED BY <5>2
        <4> QED BY <3>3, <4>1
      <3> HIDE DEF s
      <3>6. s \in Seq(T \cap K) /\ Len(s) \in Nat
        BY <3>4
      <3>7. CASE q[i] \notin K
        <4>1. f[i] = s
          BY <1>2, <3>2, <3>5, <3>6, <3>7
        <4>2. Kept(s, i)
          <5>1. \A j \in 1..i : q[j] \in K => j \in 1..(i-1)
            BY <3>2, <3>7
          <5>2. 1..(i-1) \subseteq 1..i
            BY <3>2
          <5> QED BY <3>4, <5>1, <5>2
        <4> QED BY <3>2, <4>1, <4>2
      <3>8. CASE q[i] \in K
        <4> DEFINE t == s \o <<q[i]>>
                   l == Len(s)
        <4>1. f[i] = t /\ q[i] \in T \cap K
          BY <1>1, <1>2, <3>2, <3>5, <3>8
        <4>2. /\ t \in Seq(T \cap K) /\ Len(t) = l + 1 /\ l \in Nat
              /\ t[l+1] = q[i] /\ \A m \in 1..l : t[m] = s[m]
          BY <3>6, <4>1
        <4> HIDE DEF t, l
        <4>3. \A j \in 1..(i-1) : q[j] \in K => \E m \in 1..l : t[m] = q[j]
          BY <3>4, <4>2 DEF l
        <4>4. ASSUME NEW x \in 1..(l+1)
              PROVE  \E k \in 1..i : /\ q[k] = t[x]
                                     /\ \A j \in 1..(k-1) : q[j] \in K => \E m \in 1..(x-1) : t[m] = q[j]
          <5>1. CASE x = l + 1
            <6>1. i \in 1..i /\ x - 1 = l
              BY <3>2, <4>2, <5>1
            <6> QED BY <4>2, <4>3, <5>1, <6>1
          <5>2. CASE x \in 1..l
            <6>1. PICK k \in 1..(i-1) : /\ q[k] = s[x]
                    /\ \A j \in 1..(k-1) : q[j] \in K => \E m \in 1..(x-1) : s[m] = q[j]
              BY <3>4, <5>2 DEF l
            <6>2. k \in 1..i /\ 1..(x-1) \subseteq 1..l
              BY <3>2, <4>2, <5>2
            <6> QED BY <4>2, <5>2, <6>1, <6>2
          <5> QED BY <4>2, <5>1, <5>2
        <4>5. ASSUME NEW j \in 1..i, q[j] \in K PROVE \E m \in 1..(l+1) : t[m] = q[j]
          <5>1. CASE j = i
            BY <4>2, <5>1
          <5>2. CASE j # i
            <6>1. j \in 1..(i-1) /\ 1..l \subseteq 1..(l+1)
              BY <3>2, <4>2, <5>2
            <6> QED BY <4>3, <4>5, <6>1
          <5> QED BY <5>1, <5>2
        <4>6. Kept(t, i)
          BY <4>2, <4>4, <4>5
        <4> QED BY <3>2, <4>1, <4>6
      <3> QED BY <3>7, <3>8
    <2>4. Kept(f[n], n)
      <3>1. n \in 1..n
        BY <1>1, <1>5
      <3> QED BY <2>3, <3>1
    <2> QED BY <2>2, <2>4 DEF n
  <1> QED BY <1>4, <1>5

-----------------------------------------------------------------------------
(* The sequences of a set's elements. *)

LEMMA SetToSeqIn ==
  ASSUME NEW S, IsFiniteSet(S)
  PROVE  /\ Cardinality(S) \in Nat /\ SetToSeq(S) \in [1..Cardinality(S) -> S]
         /\ \A x \in S : \E i \in 1..Cardinality(S) : SetToSeq(S)[i] = x
  <1> DEFINE n == Cardinality(S)
  <1>1. n \in Nat /\ ExistsBijection(1..n, S)
    BY FS_CardinalityType
  <1>2. PICK f \in Bijection(1..n, S) : TRUE
    BY <1>1 DEF ExistsBijection
  <1>3. f \in [1..n -> S] /\ IsInjective(f)
    BY <1>2 DEF Bijection, Injection, IsInjective
  <1>4. SetToSeq(S) \in [1..n -> S] /\ IsInjective(SetToSeq(S))
    BY <1>3 DEF SetToSeq
  <1>5. SetToSeq(S) \in Injection(1..n, S)
    BY <1>4 DEF Injection
  <1>6. Cardinality(1..n) = n
    BY <1>1, FS_Interval
  <1>7. SetToSeq(S) \in Surjection(1..n, S)
    BY <1>5, <1>6, FS_Injection
  <1> HIDE DEF n
  <1>8. \A x \in S : \E i \in 1..n : SetToSeq(S)[i] = x
    BY <1>7 DEF Surjection
  <1> QED BY <1>1, <1>4, <1>8 DEF n

LEMMA InOrderIn ==
  ASSUME NEW S, S \subseteq Nat, IsFiniteSet(S)
  PROVE  /\ Cardinality(S) \in Nat /\ InOrder(S) \in [1..Cardinality(S) -> S]
         /\ \A i, j \in 1..Cardinality(S) : i < j => InOrder(S)[i] < InOrder(S)[j]
  <1> DEFINE Rising(s, n) == \A i, j \in 1..n : i < j => s[i] < s[j]
             Unsorted == {n \in Nat : \E T \in SUBSET Nat : /\ IsFiniteSet(T) /\ Cardinality(T) = n
                                                             /\ ~\E s \in [1..n -> T] : Rising(s, n)}
  <1>1. Unsorted = {}
    <2> SUFFICES ASSUME Unsorted # {} PROVE FALSE
      OBVIOUS
    <2>1. PICK n \in Unsorted : \A j \in Unsorted : ~(j < n)
      <3>1. Unsorted \subseteq Nat
        OBVIOUS
      <3> HIDE DEF Unsorted
      <3> QED BY <3>1, SomeLeast
    <2>2. PICK T \in SUBSET Nat : /\ IsFiniteSet(T) /\ Cardinality(T) = n
                                  /\ ~\E s \in [1..n -> T] : Rising(s, n)
      BY <2>1
    <2>3. n \in Nat
      BY <2>1
    <2>4. CASE n = 0
      <3>1. << >> \in [1..n -> T] /\ Rising(<< >>, n)
        BY <2>4
      <3> QED BY <2>2, <3>1
    <2>5. CASE n # 0
      <3>1. T # {}
        BY <2>2, <2>5, FS_EmptySet
      <3>2. PICK m \in T : \A j \in T : ~(j < m)
        BY <2>2, <3>1, SomeLeast
      <3>3. IsFiniteSet(T \ {m}) /\ Cardinality(T \ {m}) = n - 1 /\ n - 1 \in Nat /\ n - 1 < n
        BY <2>2, <2>3, <2>5, <3>2, FS_RemoveElement
      <3>4. PICK s \in [1..(n-1) -> T \ {m}] : Rising(s, n - 1)
        BY <2>1, <2>2, <3>3
      <3> DEFINE t == [i \in 1..n |-> IF i = 1 THEN m ELSE s[i-1]]
      <3>5. \A i \in 1..n : i # 1 => i - 1 \in 1..(n-1) /\ t[i] = s[i-1] /\ t[i] \in T \ {m}
        BY <2>3, <3>4
      <3>6. t \in [1..n -> T]
        BY <3>2, <3>5
      <3>7. Rising(t, n)
        <4> SUFFICES ASSUME NEW i \in 1..n, NEW j \in 1..n, i < j PROVE t[i] < t[j]
          OBVIOUS
        <4>1. j # 1 /\ t[j] \in T \ {m} /\ t[j] = s[j-1] /\ j - 1 \in 1..(n-1)
          BY <2>3, <3>5
        <4>2. CASE i = 1
          <5>1. t[i] = m /\ m \in Nat /\ t[j] \in Nat /\ t[j] # m /\ ~(t[j] < m)
            BY <2>2, <3>2, <4>1, <4>2
          <5> QED BY <5>1
        <4>3. CASE i # 1
          <5>1. t[i] = s[i-1] /\ i - 1 \in 1..(n-1) /\ i - 1 < j - 1
            BY <2>3, <3>5, <4>3
          <5> QED BY <3>4, <4>1, <5>1
        <4> QED BY <4>2, <4>3
      <3> HIDE DEF t
      <3> QED BY <2>2, <3>6, <3>7
    <2> QED BY <2>4, <2>5
  <1>2. Cardinality(S) \in Nat
    BY FS_CardinalityType
  <1>3. \E s \in [1..Cardinality(S) -> S] : Rising(s, Cardinality(S))
    BY <1>1, <1>2
  <1> QED BY <1>2, <1>3 DEF InOrder

-----------------------------------------------------------------------------
(* A sequence that grows at its end and is taken back from there. *)

LEMMA Grown ==
  ASSUME NEW T, NEW s \in Seq(T), NEW x \in T
  PROVE  s \o <<x>> \in Seq(T) /\ ToSet(s \o <<x>>) = ToSet(s) \cup {x}
  <1>1. /\ s \o <<x>> \in Seq(T) /\ Len(s \o <<x>>) = Len(s) + 1 /\ Len(s) \in Nat
        /\ \A i \in 1..(Len(s) + 1) : (s \o <<x>>)[i] = IF i <= Len(s) THEN s[i] ELSE x
    OBVIOUS
  <1>2. DOMAIN (s \o <<x>>) = 1..(Len(s) + 1) /\ DOMAIN s = 1..Len(s)
    BY <1>1
  <1> QED BY <1>1, <1>2 DEF ToSet

LEMMA TakenBack ==
  ASSUME NEW T, NEW s \in Seq(T), s # << >>
  PROVE  /\ Front(s) \in Seq(T) /\ Last(s) \in T
         /\ ToSet(s) = ToSet(Front(s)) \cup {Last(s)}
  <1>1. Len(s) \in Nat /\ Len(s) # 0 /\ \A i \in 1..Len(s) : s[i] \in T
    OBVIOUS
  <1>2. /\ Front(s) \in Seq(T) /\ Len(Front(s)) = Len(s) - 1
        /\ \A i \in 1..(Len(s) - 1) : Front(s)[i] = s[i]
    <2>1. Front(s) = [i \in 1..(Len(s) - 1) |-> s[i]]
      BY <1>1 DEF Front
    <2> QED BY <1>1, <2>1
  <1>3. DOMAIN Front(s) = 1..(Len(s) - 1) /\ DOMAIN s = 1..Len(s)
    BY <1>1, <1>2
  <1>4. 1..Len(s) = 1..(Len(s) - 1) \cup {Len(s)}
    BY <1>1
  <1> QED BY <1>1, <1>2, <1>3, <1>4 DEF ToSet, Last

-----------------------------------------------------------------------------
(* How many elements of a sequence are of a kind.                            *)

Hits(q, K) == {i \in 1..Len(q) : q[i] \in K}

LEMMA Shifted ==
  ASSUME NEW S, S \subseteq Nat, IsFiniteSet(S), NEW m \in Nat
  PROVE  /\ IsFiniteSet({i + m : i \in S})
         /\ Cardinality({i + m : i \in S}) = Cardinality(S)
  <1> DEFINE T == {i + m : i \in S}
             f == [i \in S |-> i + m]
  <1>1. f \in [S -> T]
    OBVIOUS
  <1>2. \A i, j \in S : f[i] = f[j] => i = j
    OBVIOUS
  <1>3. \A x \in T : \E i \in S : f[i] = x
    OBVIOUS
  <1> HIDE DEF f, T
  <1>4. f \in Bijection(S, T)
    BY <1>1, <1>2, <1>3 DEF Bijection, Injection, IsInjective, Surjection
  <1>5. ExistsBijection(S, T)
    BY <1>4 DEF ExistsBijection
  <1>6. IsFiniteSet(T) /\ Cardinality(T) = Cardinality(S)
    BY <1>5, FS_Bijection
  <1> QED BY <1>6 DEF T

LEMMA HitsIn ==
  ASSUME NEW T, NEW q \in Seq(T), NEW K
  PROVE  /\ IsFiniteSet(Hits(q, K)) /\ Cardinality(Hits(q, K)) \in Nat
         /\ Hits(q, K) \subseteq Nat
  <1>1. Len(q) \in Nat /\ 1 \in Int
    OBVIOUS
  <1>2. IsFiniteSet(1..Len(q))
    BY <1>1, FS_Interval
  <1>3. Hits(q, K) \subseteq 1..Len(q) /\ 1..Len(q) \subseteq Nat
    BY DEF Hits
  <1>4. IsFiniteSet(Hits(q, K))
    BY <1>2, <1>3, FS_Subset
  <1> QED BY <1>3, <1>4, FS_CardinalityType

LEMMA HitsConcat ==
  ASSUME NEW T, NEW s \in Seq(T), NEW t \in Seq(T), NEW K
  PROVE  Cardinality(Hits(s \o t, K)) = Cardinality(Hits(s, K)) + Cardinality(Hits(t, K))
  <1> DEFINE u == s \o t
             m == Len(s)
             n == Len(t)
             A == Hits(s, K)
             B == Hits(t, K)
             C == {i + m : i \in B}
  <1>1. /\ m \in Nat /\ n \in Nat /\ u \in Seq(T) /\ Len(u) = m + n
        /\ \A i \in 1..(m + n) : u[i] = IF i <= m THEN s[i] ELSE t[i-m]
    OBVIOUS
  <1> HIDE DEF u
  <1>2. IsFiniteSet(A) /\ IsFiniteSet(B) /\ B \subseteq Nat /\ Cardinality(A) \in Nat /\ Cardinality(B) \in Nat
    BY HitsIn
  <1>3. IsFiniteSet(C) /\ Cardinality(C) = Cardinality(B)
    <2> HIDE DEF B, m
    <2> QED BY <1>1, <1>2, Shifted
  <1>4. Hits(u, K) = A \cup C
    <2>1. ASSUME NEW i \in Hits(u, K) PROVE i \in A \cup C
      <3>1. i \in 1..(m + n) /\ u[i] \in K
        BY <1>1 DEF Hits
      <3>2. CASE i <= m
        <4>1. i \in A
          BY <1>1, <3>1, <3>2 DEF Hits
        <4> QED BY <4>1
      <3>3. CASE ~(i <= m)
        <4>1. i - m \in B /\ i = (i - m) + m
          BY <1>1, <3>1, <3>3 DEF Hits
        <4> QED BY <4>1
      <3> QED BY <3>2, <3>3
    <2>2. ASSUME NEW i \in A PROVE i \in Hits(u, K)
      <3>1. i \in 1..m /\ s[i] \in K
        BY DEF Hits
      <3>2. i \in 1..(m + n) /\ i <= m
        BY <1>1, <3>1
      <3> HIDE DEF m, n
      <3> QED BY <1>1, <3>1, <3>2 DEF Hits
    <2>3. ASSUME NEW i \in B PROVE i + m \in Hits(u, K)
      <3>1. i \in 1..n /\ t[i] \in K
        BY DEF Hits
      <3>2. i + m \in 1..(m + n) /\ ~(i + m <= m) /\ (i + m) - m = i
        BY <1>1, <3>1
      <3> HIDE DEF m, n
      <3> QED BY <1>1, <3>1, <3>2 DEF Hits
    <2> HIDE DEF A, B
    <2> QED BY <2>1, <2>2, <2>3
  <1>5. A \cap C = {}
    <2> SUFFICES ASSUME NEW i \in A, NEW j \in B, i = j + m PROVE FALSE
      OBVIOUS
    <2>1. i \in 1..m /\ j \in 1..n
      BY DEF Hits
    <2> QED BY <1>1, <2>1
  <1> HIDE DEF A, B, C
  <1>6. Cardinality(A \cup C) = Cardinality(A) + Cardinality(C) - Cardinality(A \cap C)
    BY <1>2, <1>3, FS_Union
  <1>7. Cardinality(A \cap C) = 0
    BY <1>5, FS_EmptySet
  <1>8. Cardinality(Hits(u, K)) = Cardinality(A) + Cardinality(B)
    BY <1>2, <1>3, <1>4, <1>6, <1>7
  <1> QED BY <1>8 DEF u, A, B

LEMMA HitsTail ==
  ASSUME NEW T, NEW q \in Seq(T), q # << >>, NEW K
  PROVE  /\ q[1] \in K => Cardinality(Hits(q, K)) = Cardinality(Hits(Tail(q), K)) + 1
         /\ q[1] \notin K => Cardinality(Hits(q, K)) = Cardinality(Hits(Tail(q), K))
  <1> DEFINE h == <<q[1]>>
             t == Tail(q)
  <1>1. h \in Seq(T) /\ t \in Seq(T) /\ q = h \o t
    OBVIOUS
  <1>2. Len(h) = 1 /\ h[1] = q[1] /\ 1..1 = {1}
    OBVIOUS
  <1> HIDE DEF h, t
  <1>3. Cardinality(Hits(q, K)) = Cardinality(Hits(h, K)) + Cardinality(Hits(t, K))
    BY <1>1, HitsConcat
  <1>4. Cardinality(Hits(t, K)) \in Nat
    BY <1>1, HitsIn
  <1>5. q[1] \in K => Cardinality(Hits(h, K)) = 1
    <2>1. q[1] \in K => Hits(h, K) = {1}
      BY <1>2 DEF Hits
    <2>2. Cardinality({1}) = 1
      BY FS_Singleton
    <2> QED BY <2>1, <2>2
  <1>6. q[1] \notin K => Cardinality(Hits(h, K)) = 0
    <2>1. q[1] \notin K => Hits(h, K) = {}
      BY <1>2 DEF Hits
    <2> QED BY <2>1, FS_EmptySet
  <1> QED BY <1>3, <1>4, <1>5, <1>6 DEF t

\* Parts that hit no more often than their tokens, no token counted twice.
Whole(w, n) == UNION {w[i] : i \in 1..n}
Separate(w, n) == \A i, j \in 1..n : i # j => w[i] \cap w[j] = {}
Paid(parts, w, n, K) == \A i \in 1..n : Cardinality(Hits(parts[i], K)) <= Cardinality(w[i])

LEMMA FlattenHits ==
  ASSUME NEW T, NEW K, NEW n \in Nat, NEW parts \in [1..n -> Seq(T)],
         NEW W, IsFiniteSet(W), NEW w \in [1..n -> SUBSET W],
         Separate(w, n), Paid(parts, w, n, K)
  PROVE  /\ FlattenSeq(parts) \in Seq(T)
         /\ Cardinality(Hits(FlattenSeq(parts), K)) <= Cardinality(Whole(w, n))
  <1> USE DEF Whole, Separate, Paid
  <1> DEFINE U(i) == UNION {w[j] : j \in 1..i}
  <1>0. Len(parts) = n /\ DOMAIN parts = 1..n
    OBVIOUS
  <1>1. \A i \in 1..n : w[i] \subseteq W /\ IsFiniteSet(w[i]) /\ Cardinality(w[i]) \in Nat
    <2> TAKE i \in 1..n
    <2>1. w[i] \subseteq W
      OBVIOUS
    <2> QED BY <2>1, FS_Subset, FS_CardinalityType
  <1>2. \A i \in 0..n : U(i) \subseteq W /\ IsFiniteSet(U(i)) /\ Cardinality(U(i)) \in Nat
    <2> TAKE i \in 0..n
    <2>1. \A j \in 1..i : w[j] \subseteq W
      BY <1>1
    <2>2. U(i) \subseteq W
      BY <2>1
    <2> HIDE DEF U
    <2> QED BY <2>2, FS_Subset, FS_CardinalityType
  <1>3. CASE n = 0
    <2>1. parts = << >>
      BY <1>3
    <2>2. FlattenSeq(parts) = << >>
      BY <1>0, <1>3, <2>1 DEF FlattenSeq
    <2>3. << >> \in Seq(T) /\ Hits(<< >>, K) = {}
      BY DEF Hits
    <2>4. Cardinality(U(n)) \in Nat
      BY <1>2, <1>3
    <2>5. Cardinality(Hits(<< >>, K)) = 0
      BY <2>3, FS_EmptySet
    <2>6. Cardinality(Hits(FlattenSeq(parts), K)) <= Cardinality(U(n))
      <3> HIDE DEF U
      <3> QED BY <2>2, <2>4, <2>5
    <2> QED BY <2>2, <2>3, <2>6
  <1>4. CASE n # 0
    <2> DEFINE f == CHOOSE g : g = [i \in 1..n |-> IF i = 1 THEN parts[i] ELSE g[i-1] \o parts[i]]
               Good(i) == f[i] \in Seq(T) /\ Cardinality(Hits(f[i], K)) <= Cardinality(U(i))
               Bad == {i \in 1..n : ~Good(i)}
    <2>1. f = [i \in 1..n |-> IF i = 1 THEN parts[i] ELSE f[i-1] \o parts[i]]
      <3>1. \E g : g = [i \in 1..n |-> IF i = 1 THEN parts[i] ELSE g[i-1] \o parts[i]]
        BY <1>4, Flattened
      <3> QED BY <3>1
    <2>2. FlattenSeq(parts) = f[n]
      BY <1>0, <1>4 DEF FlattenSeq
    <2> HIDE DEF f
    <2>3. Bad = {}
      <3> SUFFICES ASSUME Bad # {} PROVE FALSE
        OBVIOUS
      <3>1. PICK i \in Bad : \A j \in Bad : ~(j < i)
        <4>1. Bad \subseteq Nat
          OBVIOUS
        <4> HIDE DEF Bad
        <4> QED BY <4>1, SomeLeast
      <3>2. i \in 1..n /\ ~Good(i) /\ parts[i] \in Seq(T)
        BY <3>1
      <3>3. f[i] = IF i = 1 THEN parts[i] ELSE f[i-1] \o parts[i]
        BY <2>1, <3>2
      <3>4. Cardinality(Hits(parts[i], K)) <= Cardinality(w[i])
        BY <3>2
      <3>5. CASE i = 1
        <4>1. U(i) = w[i]
          <5>1. 1..i = {i}
            BY <3>5
          <5> QED BY <5>1
        <4> HIDE DEF U
        <4> QED BY <3>2, <3>3, <3>4, <3>5, <4>1
      <3>6. CASE i # 1
        <4>1. i - 1 \in 1..n /\ i - 1 < i /\ i - 1 \in 0..n /\ i \in 0..n
          BY <3>2, <3>6
        <4>2. Good(i - 1)
          BY <3>1, <4>1
        <4>3. U(i) = U(i-1) \cup w[i]
          <5>1. 1..i = 1..(i-1) \cup {i}
            BY <3>2
          <5> QED BY <5>1
        <4>4. U(i-1) \cap w[i] = {}
          <5>1. \A j \in 1..(i-1) : j \in 1..n /\ j # i
            BY <3>2
          <5> QED BY <3>2, <5>1
        <4>5. f[i] = f[i-1] \o parts[i] /\ f[i-1] \in Seq(T)
          BY <3>3, <3>6, <4>2
        <4>6. f[i] \in Seq(T)
          BY <3>2, <4>5
        <4> DEFINE a == U(i-1)
                   c == w[i]
        <4>7. IsFiniteSet(a) /\ IsFiniteSet(c) /\ Cardinality(a) \in Nat /\ Cardinality(c) \in Nat
          BY <1>1, <1>2, <3>2, <4>1
        <4>8. U(i) = a \cup c /\ a \cap c = {} /\ Cardinality(Hits(f[i-1], K)) <= Cardinality(a)
          BY <4>2, <4>3, <4>4
        <4>9. Cardinality(Hits(parts[i], K)) <= Cardinality(c)
          BY <3>4
        <4> HIDE DEF a, c, U
        <4>10. Cardinality(a \cup c) = Cardinality(a) + Cardinality(c)
          <5>1. Cardinality(a \cup c) = Cardinality(a) + Cardinality(c) - Cardinality(a \cap c)
            BY <4>7, FS_Union
          <5>2. Cardinality(a \cap c) = 0
            BY <4>8, FS_EmptySet
          <5> QED BY <4>7, <5>1, <5>2
        <4>11. Cardinality(Hits(f[i], K)) = Cardinality(Hits(f[i-1], K)) + Cardinality(Hits(parts[i], K))
          BY <3>2, <4>5, HitsConcat
        <4>12. Cardinality(Hits(f[i-1], K)) \in Nat /\ Cardinality(Hits(parts[i], K)) \in Nat
          BY <3>2, <4>5, HitsIn
        <4>13. Cardinality(Hits(f[i], K)) <= Cardinality(U(i))
          BY <4>7, <4>8, <4>9, <4>10, <4>11, <4>12
        <4> QED BY <3>2, <4>6, <4>13
      <3> QED BY <3>5, <3>6
    <2>4. n \in 1..n
      BY <1>4
    <2> QED BY <2>2, <2>3, <2>4
  <1> QED BY <1>3, <1>4

-----------------------------------------------------------------------------
(* Two sequences in a row, one verb more, one less. *)

\* Where the elements of two sequences are in the two put together.
LEMMA Joint ==
  ASSUME NEW T, NEW s \in Seq(T), NEW t \in Seq(T)
  PROVE  /\ s \o t \in Seq(T) /\ Len(s) \in Nat /\ Len(t) \in Nat
         /\ Len(s \o t) = Len(s) + Len(t)
         /\ \A i \in 1..Len(s) : (s \o t)[i] = s[i] /\ i \in 1..Len(s \o t)
         /\ \A i \in 1..Len(t) : (s \o t)[i + Len(s)] = t[i] /\ i + Len(s) \in 1..Len(s \o t)
         /\ \A i \in 1..Len(s \o t) :
              i \in 1..Len(s) \/ (i - Len(s) \in 1..Len(t) /\ i = (i - Len(s)) + Len(s))
  <1> DEFINE m == Len(s)
             n == Len(t)
             u == s \o t
  <1>1. /\ u \in Seq(T) /\ m \in Nat /\ n \in Nat /\ Len(u) = m + n
        /\ \A i \in 1..(m + n) : u[i] = IF i <= m THEN s[i] ELSE t[i - m]
    OBVIOUS
  <1> HIDE DEF m, n, u
  <1>2. \A i \in 1..m : i \in 1..(m + n) /\ i <= m
    BY <1>1
  <1>3. \A i \in 1..n : i + m \in 1..(m + n) /\ ~(i + m <= m) /\ (i + m) - m = i
    BY <1>1
  <1>4. ASSUME NEW i \in 1..(m + n), i \notin 1..m PROVE i - m \in 1..n /\ i = (i - m) + m
    BY <1>1, <1>4
  <1>5. \A i \in 1..n : u[i + m] = t[i]
    BY <1>1, <1>3
  <1> QED BY <1>1, <1>2, <1>3, <1>4, <1>5 DEF m, n, u

\* Where an element of u, that is s and then t, comes from, and what is before it.
InFirst(s, u, i) ==
  i \in 1..Len(s) /\ u[i] = s[i] /\ (i > 1 => u[i-1] = s[i-1]) /\ \A j \in 1..(i-1) : u[j] = s[j]
InSecond(s, t, u, i) ==
  \E k \in 1..Len(t) : /\ u[i] = t[k] /\ (k > 1 => i > 1 /\ u[i-1] = t[k-1])
                       /\ \A j \in 1..(k-1) : j + Len(s) \in 1..(i-1) /\ u[j + Len(s)] = t[j]

LEMMA Splits ==
  ASSUME NEW T, NEW s \in Seq(T), NEW t \in Seq(T)
  PROVE  /\ s \o t \in Seq(T)
         /\ \A i \in 1..Len(s \o t) : InFirst(s, s \o t, i) \/ InSecond(s, t, s \o t, i)
  <1> DEFINE m == Len(s)
             n == Len(t)
             u == s \o t
  <1>1. /\ u \in Seq(T) /\ m \in Nat /\ n \in Nat /\ Len(u) = m + n
        /\ \A i \in 1..m : u[i] = s[i]
        /\ \A k \in 1..n : u[k + m] = t[k]
        /\ \A i \in 1..(m + n) : i \in 1..m \/ (i - m \in 1..n /\ i = (i - m) + m)
    BY Joint
  <1> HIDE DEF m, n, u
  <1>2. ASSUME NEW i \in 1..m PROVE InFirst(s, u, i)
    <2>1. (\A j \in 1..(i-1) : j \in 1..m) /\ (i > 1 => i - 1 \in 1..m)
      BY <1>1
    <2> QED BY <1>1, <2>1 DEF InFirst, m
  <1>3. ASSUME NEW k \in 1..n PROVE InSecond(s, t, u, k + m)
    <2>1. /\ \A j \in 1..(k-1) : j \in 1..n /\ j + m \in 1..((k + m)-1)
          /\ k > 1 => k - 1 \in 1..n /\ (k - 1) + m = (k + m) - 1 /\ k + m > 1
      BY <1>1
    <2>2. k > 1 => k + m > 1 /\ u[(k + m)-1] = t[k-1]
      BY <1>1, <2>1
    <2>3. \A j \in 1..(k-1) : j + m \in 1..((k + m)-1) /\ u[j + m] = t[j]
      BY <1>1, <2>1
    <2> QED BY <1>1, <2>2, <2>3 DEF InSecond, m, n
  <1>4. ASSUME NEW i \in 1..(m + n) PROVE InFirst(s, u, i) \/ InSecond(s, t, u, i)
    <2>1. CASE i \in 1..m
      BY <1>2, <2>1
    <2>2. CASE i \notin 1..m
      <3>1. PICK k \in 1..n : i = k + m
        BY <1>1, <2>2
      <3> QED BY <1>3, <3>1
    <2> QED BY <2>1, <2>2
  <1> QED BY <1>1, <1>4 DEF u

\* Whatever is in one of two sequences is in both put together.
LEMMA JoinHas ==
  ASSUME NEW T, NEW s \in Seq(T), NEW t \in Seq(T)
  PROVE  ToSet(s) \subseteq ToSet(s \o t) /\ ToSet(t) \subseteq ToSet(s \o t)
  <1> DEFINE u == s \o t
  <1>1. /\ u \in Seq(T)
        /\ \A i \in 1..Len(s) : u[i] = s[i] /\ i \in 1..Len(u)
        /\ \A i \in 1..Len(t) : u[i + Len(s)] = t[i] /\ i + Len(s) \in 1..Len(u)
    BY Joint
  <1> HIDE DEF u
  <1>2. DOMAIN s = 1..Len(s) /\ DOMAIN t = 1..Len(t) /\ DOMAIN u = 1..Len(u)
    BY <1>1
  <1>3. \A i \in DOMAIN s : s[i] \in ToSet(u)
    BY <1>1, <1>2 DEF ToSet
  <1>4. \A i \in DOMAIN t : t[i] \in ToSet(u)
    BY <1>1, <1>2 DEF ToSet
  <1> QED BY <1>3, <1>4 DEF ToSet, u

\* A sequence and one more.
LEMMA Lasting ==
  ASSUME NEW T, NEW w \in Seq(T), NEW x \in T
  PROVE  /\ w \o <<x>> \in Seq(T) /\ Len(w) \in Nat /\ Len(w \o <<x>>) = Len(w) + 1
         /\ \A i \in 1..Len(w) : (w \o <<x>>)[i] = w[i]
         /\ (w \o <<x>>)[Len(w) + 1] = x
  OBVIOUS

\* Sequences of three and of two.
LEMMA ThreeLong ==
  ASSUME NEW S, NEW x \in S, NEW y \in S, NEW w \in S
  PROVE  LET z == <<x>> \o <<y, w>>
         IN z \in Seq(S) /\ Len(z) = 3 /\ z[1] = x /\ z[2] = y /\ z[3] = w
  <1> DEFINE one == <<x>>
             two == <<y, w>>
             z == one \o two
  <1>1. /\ one \in Seq(S) /\ two \in Seq(S)
        /\ Len(one) = 1 /\ Len(two) = 2 /\ one[1] = x /\ two[1] = y /\ two[2] = w
    OBVIOUS
  <1> HIDE DEF one, two
  <1>2. /\ z \in Seq(S) /\ Len(z) = Len(one) + Len(two)
        /\ \A i \in 1..(Len(one) + Len(two)) :
             z[i] = IF i <= Len(one) THEN one[i] ELSE two[i - Len(one)]
    BY <1>1, ConcatProperties
  <1> HIDE DEF z
  <1>3. Len(z) = 3 /\ \A i \in 1..3 : z[i] = IF i <= 1 THEN one[i] ELSE two[i - 1]
    BY <1>1, <1>2
  <1>4. 1 \in 1..3 /\ 2 \in 1..3 /\ 3 \in 1..3 /\ 2 - 1 = 1 /\ 3 - 1 = 2 /\ ~(2 <= 1) /\ ~(3 <= 1)
    OBVIOUS
  <1>5. z[1] = x /\ z[2] = y /\ z[3] = w
    BY <1>1, <1>3, <1>4
  <1> QED BY <1>2, <1>3, <1>5 DEF z, one, two

LEMMA TwoLong ==
  ASSUME NEW S, NEW x \in S, NEW y \in S
  PROVE  LET z == <<x>> \o <<y>>
         IN z \in Seq(S) /\ Len(z) = 2 /\ z[1] = x /\ z[2] = y
  <1> DEFINE one == <<x>>
             two == <<y>>
             z == one \o two
  <1>1. /\ one \in Seq(S) /\ two \in Seq(S)
        /\ Len(one) = 1 /\ Len(two) = 1 /\ one[1] = x /\ two[1] = y
    OBVIOUS
  <1> HIDE DEF one, two
  <1>2. /\ z \in Seq(S) /\ Len(z) = Len(one) + Len(two)
        /\ \A i \in 1..Len(one) : z[i] = one[i]
        /\ \A i \in 1..Len(two) : z[i + Len(one)] = two[i]
    BY <1>1, Joint
  <1> HIDE DEF z
  <1>3. Len(z) = 2 /\ z[1] = one[1] /\ z[1+1] = two[1]
    BY <1>1, <1>2
  <1> QED BY <1>1, <1>2, <1>3 DEF z, one, two

\* A sequence loses its head.
LEMMA Behead ==
  ASSUME NEW T, NEW q \in Seq(T), q # << >>
  PROVE  /\ Tail(q) \in Seq(T) /\ Len(q) \in Nat /\ Len(q) # 0 /\ Len(Tail(q)) = Len(q) - 1
         /\ \A i \in 1..(Len(q) - 1) : Tail(q)[i] = q[i+1] /\ i + 1 \in 1..Len(q)
         /\ q[1] \in T /\ 1 \in 1..Len(q)
  OBVIOUS

\* Whatever is in a part is in the whole.
LEMMA FlattenKeeps ==
  ASSUME NEW T, NEW n \in Nat, NEW parts \in [1..n -> Seq(T)]
  PROVE  \A i \in 1..n : ToSet(parts[i]) \subseteq ToSet(FlattenSeq(parts))
  <1> SUFFICES ASSUME NEW i \in 1..n, NEW k \in DOMAIN parts[i]
               PROVE  parts[i][k] \in ToSet(FlattenSeq(parts))
    BY DEF ToSet
  <1>0. /\ Len(parts) = n /\ DOMAIN parts = 1..n /\ n # 0
        /\ k \in 1..Len(parts[i])
    OBVIOUS
  <1> DEFINE x == parts[i][k]
             f == CHOOSE g : g = [j \in 1..n |-> IF j = 1 THEN parts[j] ELSE g[j-1] \o parts[j]]
             Holds(j) == f[j] \in Seq(T) /\ (i <= j => \E m \in 1..Len(f[j]) : f[j][m] = x)
             Lost == {j \in 1..n : ~Holds(j)}
  <1>1. f = [j \in 1..n |-> IF j = 1 THEN parts[j] ELSE f[j-1] \o parts[j]]
    <2>1. \E g : g = [j \in 1..n |-> IF j = 1 THEN parts[j] ELSE g[j-1] \o parts[j]]
      BY <1>0, Flattened
    <2> QED BY <2>1
  <1>2. FlattenSeq(parts) = f[n]
    BY <1>0 DEF FlattenSeq
  <1> HIDE DEF f
  <1>3. Lost = {}
    <2> SUFFICES ASSUME Lost # {} PROVE FALSE
      OBVIOUS
    <2>1. PICK j \in Lost : \A l \in Lost : ~(l < j)
      <3>1. Lost \subseteq Nat
        OBVIOUS
      <3> HIDE DEF Lost
      <3> QED BY <3>1, SomeLeast
    <2>2. j \in 1..n /\ ~Holds(j) /\ parts[j] \in Seq(T)
      BY <2>1
    <2>3. f[j] = IF j = 1 THEN parts[j] ELSE f[j-1] \o parts[j]
      BY <1>1, <2>2
    <2>4. CASE j = 1
      <3>1. f[j] \in Seq(T) /\ (i <= j => i = j)
        BY <2>2, <2>3, <2>4
      <3> QED BY <2>2, <2>3, <2>4, <3>1
    <2>5. CASE j # 1
      <3>1. j - 1 \in 1..n /\ j - 1 < j
        BY <2>2, <2>5
      <3>2. Holds(j - 1)
        BY <2>1, <3>1
      <3> DEFINE s == f[j-1]
                 t == parts[j]
      <3>3. /\ s \in Seq(T) /\ t \in Seq(T) /\ f[j] = s \o t
            /\ (i <= j - 1 => \E m \in 1..Len(s) : s[m] = x)
        BY <2>2, <2>3, <2>5, <3>2
      <3>4. i = j => \E m \in 1..Len(t) : t[m] = x
        OBVIOUS
      <3> HIDE DEF s, t, x
      <3>5. /\ s \o t \in Seq(T) /\ Len(s \o t) = Len(s) + Len(t) /\ Len(s) \in Nat /\ Len(t) \in Nat
            /\ \A m \in 1..Len(s) : (s \o t)[m] = s[m]
            /\ \A m \in 1..Len(t) : (s \o t)[Len(s) + m] = t[m]
        BY <3>3
      <3>6. i <= j => \E m \in 1..(Len(s) + Len(t)) : (s \o t)[m] = x
        <4>1. ASSUME i <= j - 1 PROVE \E m \in 1..(Len(s) + Len(t)) : (s \o t)[m] = x
          <5>1. PICK m \in 1..Len(s) : s[m] = x
            BY <3>3, <4>1
          <5>2. m \in 1..(Len(s) + Len(t))
            BY <3>5
          <5> QED BY <3>5, <5>1, <5>2
        <4>2. ASSUME i = j PROVE \E m \in 1..(Len(s) + Len(t)) : (s \o t)[m] = x
          <5>1. PICK m \in 1..Len(t) : t[m] = x
            BY <3>4, <4>2
          <5>2. Len(s) + m \in 1..(Len(s) + Len(t))
            BY <3>5
          <5> QED BY <3>5, <5>1, <5>2
        <4>3. i <= j => i <= j - 1 \/ i = j
          BY <2>2
        <4> QED BY <4>1, <4>2, <4>3
      <3> QED BY <2>2, <3>3, <3>5, <3>6
    <2> QED BY <2>4, <2>5
  <1>4. n \in 1..n /\ i <= n
    BY <1>0
  <1>5. Holds(n)
    BY <1>3, <1>4
  <1>6. f[n] \in Seq(T) /\ \E m \in 1..Len(f[n]) : f[n][m] = x
    BY <1>4, <1>5
  <1> QED BY <1>2, <1>6 DEF ToSet

\* Whatever is to be picked is.
LEMMA OnlyHas ==
  ASSUME NEW T, NEW q \in Seq(T), NEW K
  PROVE  ToSet(q) \cap K \subseteq ToSet(Only(q, K))
  <1> SUFFICES ASSUME NEW i \in 1..Len(q), q[i] \in K
               PROVE  q[i] \in ToSet(Only(q, K))
    BY DEF ToSet
  <1> DEFINE n == Len(q)
             parts == [j \in 1..n |-> IF q[j] \in K THEN <<q[j]>> ELSE << >>]
  <1>1. n \in Nat /\ i \in 1..n /\ \A j \in 1..n : q[j] \in T
    OBVIOUS
  <1>2. parts \in [1..n -> Seq(T)] /\ parts[i] = <<q[i]>>
    BY <1>1
  <1>3. q[i] \in ToSet(parts[i])
    BY <1>2 DEF ToSet
  <1> HIDE DEF parts, n
  <1>4. ToSet(parts[i]) \subseteq ToSet(FlattenSeq(parts))
    BY <1>1, <1>2, FlattenKeeps
  <1> QED BY <1>3, <1>4 DEF Only, parts, n

\* The lowest of one.
LEMMA MinOne ==
  ASSUME NEW h \in Nat
  PROVE  Min({h}) = h
  BY MinIn
=============================================================================
