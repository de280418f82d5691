--------------------------- MODULE CryptoRun_proofs ---------------------------
(***************************************************************************)
(* What is proved of the dpseci population: at every command of a pass,     *)
(* whatever the portal answers, whatever fails or is cut short, it judges   *)
(* on full evidence only, never leaves a tenant short by a replacement,     *)
(* calls converged what is, and removes nothing but what is its own.        *)
(***************************************************************************)
EXTENDS CryptoRun, Queues

-----------------------------------------------------------------------------
(* Counting. *)

LEMMA Fewer ==
  ASSUME NEW A, NEW B, IsFiniteSet(A), IsFiniteSet(B), Cardinality(A) <= Cardinality(B)
  PROVE  \E h : h \in Injection(A, B)
  <1>1. Cardinality(A) \in Nat /\ Cardinality(B) \in Nat
    BY FS_CardinalityType
  <1>2. PICK f \in Bijection(1..Cardinality(A), A) : TRUE
    BY FS_CardinalityType DEF ExistsBijection
  <1>3. PICK g \in Bijection(1..Cardinality(B), B) : TRUE
    BY FS_CardinalityType DEF ExistsBijection
  <1>4. \A a \in A : \E i \in 1..Cardinality(A) : f[i] = a
    BY <1>2 DEF Bijection, Surjection
  <1>5. /\ g \in [1..Cardinality(B) -> B]
        /\ \A i, j \in 1..Cardinality(B) : g[i] = g[j] => i = j
    BY <1>3 DEF Bijection, Injection, IsInjective
  <1> DEFINE at(a) == CHOOSE i \in 1..Cardinality(A) : f[i] = a
             h == [a \in A |-> g[at(a)]]
  <1>6. \A a \in A : at(a) \in 1..Cardinality(A) /\ f[at(a)] = a
    BY <1>4
  <1>7. \A a \in A : at(a) \in 1..Cardinality(B)
    BY <1>1, <1>6
  <1> HIDE DEF at
  <1>8. h \in [A -> B]
    BY <1>5, <1>7
  <1>9. \A a, c \in A : h[a] = h[c] => a = c
    <2> SUFFICES ASSUME NEW a \in A, NEW c \in A, h[a] = h[c] PROVE a = c
      OBVIOUS
    <2>1. at(a) = at(c)
      BY <1>5, <1>7
    <2> QED BY <2>1, <1>6
  <1> HIDE DEF h
  <1> QED BY <1>8, <1>9 DEF Injection, IsInjective

\* As many of each value, as many in all.
Fiber(S, f, v) == {x \in S : f[x] = v}

LEMMA Fibers ==
  ASSUME NEW A, NEW B, NEW f, NEW g, IsFiniteSet(A), IsFiniteSet(B),
         \A a \in A : Cardinality(Fiber(A, f, f[a])) <= Cardinality(Fiber(B, g, f[a]))
  PROVE  Cardinality(A) <= Cardinality(B)
  <1> USE DEF Fiber
  <1> DEFINE left(v) == Fiber(A, f, v)
             right(v) == Fiber(B, g, v)
             into(v) == CHOOSE h : h \in Injection(left(v), right(v))
             all == [a \in A |-> into(f[a])[a]]
  <1>1. \A v : left(v) \subseteq A /\ right(v) \subseteq B
    OBVIOUS
  <1>2. \A v : IsFiniteSet(left(v)) /\ IsFiniteSet(right(v))
    <2> HIDE DEF left, right
    <2> QED BY <1>1, FS_Subset
  <1>3. \A a \in A : into(f[a]) \in Injection(left(f[a]), right(f[a]))
    <2> SUFFICES ASSUME NEW a \in A PROVE \E h : h \in Injection(left(f[a]), right(f[a]))
      OBVIOUS
    <2>1. Cardinality(left(f[a])) <= Cardinality(right(f[a]))
      OBVIOUS
    <2> HIDE DEF left, right
    <2> QED BY <2>1, <1>2, Fewer
  <1> HIDE DEF into
  <1>4. \A a \in A : /\ into(f[a]) \in [left(f[a]) -> right(f[a])]
                     /\ \A x, y \in left(f[a]) : into(f[a])[x] = into(f[a])[y] => x = y
    <2> HIDE DEF left, right
    <2> QED BY <1>3 DEF Injection, IsInjective
  <1>5. \A a \in A : into(f[a])[a] \in B /\ g[into(f[a])[a]] = f[a]
    <2> SUFFICES ASSUME NEW a \in A PROVE into(f[a])[a] \in right(f[a])
      OBVIOUS
    <2>1. a \in left(f[a])
      OBVIOUS
    <2> HIDE DEF left, right
    <2> QED BY <2>1, <1>4
  <1>6. \A a, c \in A : all[a] = all[c] => a = c
    <2> SUFFICES ASSUME NEW a \in A, NEW c \in A, all[a] = all[c] PROVE a = c
      OBVIOUS
    <2>1. f[a] = f[c]
      BY <1>5
    <2>2. a \in left(f[a]) /\ c \in left(f[a])
      BY <2>1
    <2>3. into(f[a])[a] = into(f[a])[c]
      BY <2>1
    <2> QED BY <1>4, <2>2, <2>3
  <1>7. all \in [A -> B]
    BY <1>5
  <1>8. all \in Injection(A, B)
    <2> HIDE DEF all
    <2> QED BY <1>6, <1>7 DEF Injection, IsInjective
  <1> HIDE DEF all
  <1> QED BY <1>8, FS_Injection

\* Of a finite set of numbers, as many come first as are asked for.
LEMMA FirstFew ==
  ASSUME NEW S, S \subseteq Nat, IsFiniteSet(S), NEW n \in Nat, n <= Cardinality(S)
  PROVE  Cardinality({i \in S : Cardinality({j \in S : j <= i}) <= n}) = n
  <1> DEFINE N == Cardinality(S)
             s == InOrder(S)
  <1>1. N \in Nat /\ s \in [1..N -> S] /\ \A i, j \in 1..N : i < j => s[i] < s[j]
    BY InOrderIn
  <1> HIDE DEF s
  <1>2. \A i, j \in 1..N : s[i] \in Nat /\ (s[i] <= s[j] <=> i <= j)
    <2> SUFFICES ASSUME NEW i \in 1..N, NEW j \in 1..N
                 PROVE  s[i] \in Nat /\ (s[i] <= s[j] <=> i <= j)
      OBVIOUS
    <2>1. s[i] \in Nat /\ s[j] \in Nat
      BY <1>1
    <2>2. i < j => s[i] < s[j]
      BY <1>1
    <2>3. j < i => s[j] < s[i]
      BY <1>1
    <2>4. i < j \/ j < i \/ i = j
      BY <1>1
    <2> QED BY <2>1, <2>2, <2>3, <2>4
  <1>3. \A k \in 0..N : Cardinality({s[i] : i \in 1..k}) = k
    <2> SUFFICES ASSUME NEW k \in 0..N PROVE Cardinality({s[i] : i \in 1..k}) = k
      OBVIOUS
    <2> DEFINE t == [i \in 1..k |-> s[i]]
               T == {s[i] : i \in 1..k}
    <2>1. k \in Nat /\ 1..k \subseteq 1..N
      BY <1>1
    <2>2. t \in [1..k -> T] /\ \A i, j \in 1..k : t[i] = t[j] => i = j
      BY <2>1, <1>2
    <2>3. \A x \in T : \E i \in 1..k : t[i] = x
      OBVIOUS
    <2>4. t \in Bijection(1..k, T)
      <3> HIDE DEF t, T
      <3> QED BY <2>2, <2>3 DEF Bijection, Injection, Surjection, IsInjective
    <2> HIDE DEF t, T
    <2>5. ExistsBijection(1..k, T)
      BY <2>4 DEF ExistsBijection
    <2>6. Cardinality(T) = k
      BY <2>1, <2>5, FS_CountingElements
    <2> QED BY <2>6 DEF T
  <1>4. {s[i] : i \in 1..N} = S
    <2> DEFINE T == {s[i] : i \in 1..N}
    <2>1. T \subseteq S
      BY <1>1
    <2>2. Cardinality(T) = N
      BY <1>1, <1>3
    <2> HIDE DEF T
    <2>3. T = S
      BY <2>1, <2>2, FS_Subset
    <2> QED BY <2>3 DEF T
  <1>5. \A k \in 1..N : Cardinality({j \in S : j <= s[k]}) = k
    <2> SUFFICES ASSUME NEW k \in 1..N PROVE Cardinality({j \in S : j <= s[k]}) = k
      OBVIOUS
    <2>1. {j \in S : j <= s[k]} = {s[i] : i \in 1..k}
      BY <1>1, <1>2, <1>4
    <2> QED BY <2>1, <1>3, <1>1
  <1>6. {i \in S : Cardinality({j \in S : j <= i}) <= n} = {s[i] : i \in 1..n}
    BY <1>1, <1>4, <1>5
  <1>7. n \in 0..N
    BY <1>1
  <1> HIDE DEF N
  <1>8. Cardinality({s[i] : i \in 1..n}) = n
    BY <1>3, <1>7
  <1> QED BY <1>6, <1>8

-----------------------------------------------------------------------------
(* Signatures. *)

Sigs == [queues : Nat, flags : SUBSET DpseciOpt]

LEMMA Ranked == ASSUME NEW sig \in Sigs PROVE Rank(sig) \in Nat
  <1> DEFINE F == sig.flags
  <1>1. F \subseteq DpseciOpt /\ sig.queues \in Nat
    BY DEF Sigs
  <1>2. \E i \in 1..8 : FlagOrder[i] = F
    <2> DEFINE cg == "HasCg" \in F
               opr == "HasOpr" \in F
               shared == "OprShared" \in F
    <2>1. CASE ~cg /\ ~opr /\ ~shared
      <3>1. F = {} BY <1>1, <2>1 DEF DpseciOpt
      <3> QED BY <3>1 DEF FlagOrder
    <2>2. CASE cg /\ ~opr /\ ~shared
      <3>1. F = {"HasCg"} BY <1>1, <2>2 DEF DpseciOpt
      <3> QED BY <3>1 DEF FlagOrder
    <2>3. CASE cg /\ opr /\ ~shared
      <3>1. F = {"HasCg", "HasOpr"} BY <1>1, <2>3 DEF DpseciOpt
      <3> QED BY <3>1 DEF FlagOrder
    <2>4. CASE cg /\ opr /\ shared
      <3>1. F = {"HasCg", "HasOpr", "OprShared"} BY <1>1, <2>4 DEF DpseciOpt
      <3> QED BY <3>1 DEF FlagOrder
    <2>5. CASE cg /\ ~opr /\ shared
      <3>1. F = {"HasCg", "OprShared"} BY <1>1, <2>5 DEF DpseciOpt
      <3> QED BY <3>1 DEF FlagOrder
    <2>6. CASE ~cg /\ opr /\ ~shared
      <3>1. F = {"HasOpr"} BY <1>1, <2>6 DEF DpseciOpt
      <3> QED BY <3>1 DEF FlagOrder
    <2>7. CASE ~cg /\ opr /\ shared
      <3>1. F = {"HasOpr", "OprShared"} BY <1>1, <2>7 DEF DpseciOpt
      <3> QED BY <3>1 DEF FlagOrder
    <2>8. CASE ~cg /\ ~opr /\ shared
      <3>1. F = {"OprShared"} BY <1>1, <2>8 DEF DpseciOpt
      <3> QED BY <3>1 DEF FlagOrder
    <2> QED BY <2>1, <2>2, <2>3, <2>4, <2>5, <2>6, <2>7, <2>8
  <1> DEFINE place == CHOOSE i \in 1..8 : FlagOrder[i] = F
  <1>3. place \in 1..8
    BY <1>2
  <1>4. Rank(sig) = 8 * sig.queues + place
    BY DEF Rank
  <1> HIDE DEF place
  <1> QED BY <1>1, <1>3, <1>4

LEMMA FirstInIn ==
  ASSUME NEW S, S \subseteq Nat, S # {}, NEW sigs, \A i \in S : sigs[i] \in Sigs
  PROVE  FirstIn(S, sigs) \in S
  <1> DEFINE ranks == {Rank(sigs[i]) : i \in S}
             lows == {i \in S : Rank(sigs[i]) = Min(ranks)}
  <1>1. ranks \subseteq Nat /\ ranks # {}
    BY Ranked
  <1>2. Min(ranks) \in ranks
    <2> HIDE DEF ranks
    <2> QED BY <1>1, MinIn
  <1>3. lows # {} /\ lows \subseteq Nat /\ lows \subseteq S
    BY <1>2
  <1>4. FirstIn(S, sigs) = Min(lows)
    BY DEF FirstIn
  <1>5. Min(lows) \in lows
    <2> HIDE DEF lows
    <2> QED BY <1>3, MinIn
  <1> HIDE DEF lows
  <1> QED BY <1>3, <1>4, <1>5

LEMMA Counted ==
  ASSUME NEW sigs, IsFiniteSet(DOMAIN sigs), NEW sig
  PROVE  /\ Count(sigs, sig) \in Nat
         /\ sig \notin Range(sigs) => Count(sigs, sig) = 0
  <1> DEFINE S == {i \in DOMAIN sigs : sigs[i] = sig}
  <1>1. S \subseteq DOMAIN sigs
    OBVIOUS
  <1>2. IsFiniteSet(S)
    <2> HIDE DEF S
    <2> QED BY <1>1, FS_Subset
  <1>3. sig \notin Range(sigs) => S = {}
    BY DEF Range
  <1>4. Count(sigs, sig) = Cardinality(S)
    BY DEF Count
  <1> HIDE DEF S
  <1> QED BY <1>2, <1>3, <1>4, FS_CardinalityType, FS_EmptySet

\* Of each signature, what one side has more of is what comes first of it.
LEMMA FirstsCount ==
  ASSUME NEW a, NEW b, IsFiniteSet(DOMAIN a), IsFiniteSet(DOMAIN b), DOMAIN a \subseteq Nat, NEW sig
  PROVE  Cardinality({i \in Firsts(a, Over(a, b)) : a[i] = sig})
           = IF Count(a, sig) > Count(b, sig) THEN Count(a, sig) - Count(b, sig) ELSE 0
  <1> DEFINE S == {i \in DOMAIN a : a[i] = sig}
             T == {i \in Firsts(a, Over(a, b)) : a[i] = sig}
             n == IF Count(a, sig) > Count(b, sig) THEN Count(a, sig) - Count(b, sig) ELSE 0
  <1>1. /\ Count(a, sig) \in Nat /\ Count(b, sig) \in Nat
        /\ sig \notin Range(a) => Count(a, sig) = 0
    BY Counted
  <1>2. n \in Nat /\ n <= Count(a, sig)
    BY <1>1
  <1>3. S \subseteq Nat /\ IsFiniteSet(S) /\ Count(a, sig) = Cardinality(S)
    <2>1. S \subseteq DOMAIN a
      OBVIOUS
    <2>2. IsFiniteSet(S)
      <3> HIDE DEF S
      <3> QED BY <2>1, FS_Subset
    <2> QED BY <2>2 DEF Count
  <1>4. CASE sig \in Range(a)
    <2>1. Over(a, b)[sig] = n
      BY <1>4 DEF Over
    <2>2. \A i \in S : {j \in DOMAIN a : j <= i /\ a[j] = a[i]} = {j \in S : j <= i}
      OBVIOUS
    <2>3. T = {i \in S : Cardinality({j \in S : j <= i}) <= n}
      <3> HIDE DEF n
      <3> QED BY <2>1, <2>2 DEF Firsts
    <2> HIDE DEF S, n
    <2>4. Cardinality({i \in S : Cardinality({j \in S : j <= i}) <= n}) = n
      BY <1>2, <1>3, FirstFew
    <2>5. Cardinality(T) = n
      BY <2>3, <2>4
    <2> QED BY <2>5 DEF n
  <1>5. CASE sig \notin Range(a)
    <2>1. T = {}
      BY <1>5 DEF Range, Firsts
    <2>2. n = 0
      BY <1>1, <1>5
    <2>3. Cardinality(T) = 0
      <3> HIDE DEF T
      <3> QED BY <2>1, FS_EmptySet
    <2> QED BY <2>2, <2>3
  <1> QED BY <1>4, <1>5

-----------------------------------------------------------------------------
(* What a reading says of a board. *)

Sane(b) ==
  /\ b \in Boards /\ b.plugged \subseteq b.live /\ b.held \subseteq b.plugged
  /\ \A o \in b.live : b.cfg[o] \in Blocks
  /\ \A o \in Ids \ b.live : b.label[o] = None

\* Nothing a reading shows has changed.
Same(b, n) == n.live = b.live /\ n.cfg = b.cfg /\ n.odd = b.odd /\ n.label = b.label

\* What was read is true, and holds nothing without a name.
Fits(b, f) == \A o \in DOMAIN f : f[o] = Sig(b.cfg[o]) /\ b.odd[o] = {}

LEMMA Owned ==
  ASSUME NEW b, Sane(b)
  PROVE  /\ OwnRows(b) \subseteq Ids /\ OwnRows(b) \subseteq b.live
         /\ IsFiniteSet(OwnRows(b)) /\ OwnRows(b) \subseteq Nat
         /\ \A o \in OwnRows(b) : Sig(b.cfg[o]) \in Sigs
  <1>1. /\ OwnRows(b) \subseteq Ids /\ OwnRows(b) \subseteq b.live
        /\ \A o \in OwnRows(b) : Sig(b.cfg[o]) \in Sigs
    BY DEF Sane, Boards, OwnRows, Sig, Sigs, Blocks
  <1>2. IsFiniteSet(Ids) /\ Ids \subseteq Nat
    BY CryptoAssumption
  <1> QED BY <1>1, <1>2, FS_Subset

LEMMA SameRows ==
  ASSUME NEW b, NEW n, Same(b, n)
  PROVE  /\ OwnRows(n) = OwnRows(b)
         /\ \A f : Fits(n, f) <=> Fits(b, f)
         /\ \A o : Raw(n, o) = Raw(b, o)
         /\ AsMany(n) <=> AsMany(b)
  BY DEF Same, OwnRows, Fits, Raw, AsMany

LEMMA PlanFacts ==
  ASSUME planned \in Plans
  PROVE  /\ DOMAIN planned = 1..Len(planned) /\ Len(planned) \in Nat
         /\ DOMAIN PlannedSigs = DOMAIN planned
         /\ IsFiniteSet(DOMAIN planned) /\ Cardinality(DOMAIN planned) = Len(planned)
         /\ DOMAIN planned \subseteq Nat
         /\ \A i \in DOMAIN planned : /\ planned[i] \in Blocks
                                      /\ PlannedSigs[i] = Sig(planned[i]) /\ Sig(planned[i]) \in Sigs
  <1>1. planned \in Seq(Blocks)
    BY CryptoAssumption
  <1>2. /\ DOMAIN planned = 1..Len(planned) /\ Len(planned) \in Nat
        /\ \A i \in DOMAIN planned : planned[i] \in Blocks
    BY <1>1
  <1>3. IsFiniteSet(1..Len(planned)) /\ Cardinality(1..Len(planned)) = Len(planned)
    BY <1>2, FS_Interval
  <1>4. \A i \in DOMAIN planned : Sig(planned[i]) \in Sigs
    BY <1>2 DEF Sig, Sigs, Blocks
  <1> QED BY <1>2, <1>3, <1>4 DEF PlannedSigs

\* The mask the portal answers names the options of the block, and what it has
\* beside them has no name.
LEMMA FaceTrue ==
  ASSUME NEW b, Sane(b), NEW o \in b.live, NEW q, NEW raw,
         q = None \/ q = b.cfg[o].queues, raw = None \/ raw = Raw(b, o), Face(q, raw) # None
  PROVE  Face(q, raw) = Sig(b.cfg[o]) /\ b.odd[o] = {}
  <1>1. raw = Raw(b, o) /\ q = b.cfg[o].queues
    BY DEF Face
  <1> DEFINE opts1 == b.cfg[o].options
  <1>2. o \in Ids /\ b.cfg[o] \in Blocks /\ opts1 \subseteq DpseciOpt /\ b.odd[o] \in Oddities \cup {{}}
    BY DEF Sane, Boards, Blocks
  <1>3. b.odd[o] \cap Mask(DpseciOpt) = {}
    BY <1>2, CryptoAssumption
  <1>4. \A x, y \in DpseciOpt : OptBit[x] = OptBit[y] => x = y
    BY DEF OptBit, DpseciOpt
  <1>5. {opt \in DpseciOpt : OptBit[opt] \in Raw(b, o)} = opts1
    BY <1>2, <1>3, <1>4 DEF Raw, Mask
  <1>6. Raw(b, o) \ {OptBit[opt] : opt \in DpseciOpt} = b.odd[o]
    BY <1>2, <1>3 DEF Raw, Mask
  <1>7. Decode(raw).flags = opts1 /\ Decode(raw).escapes = b.odd[o]
    BY <1>1, <1>5, <1>6 DEF Decode
  <1>8. Face(q, raw) = [queues |-> q, flags |-> Decode(raw).flags] /\ Decode(raw).escapes = {}
    BY DEF Face
  <1> QED BY <1>1, <1>7, <1>8 DEF Sig

\* The delta of a true reading is empty just when the board is right.
LEMMA DeltaExact ==
  ASSUME NEW b, Sane(b), NEW f, DOMAIN f = OwnRows(b), Fits(b, f), planned \in Plans
  PROVE  /\ IsEmpty(Delta(PlannedSigs, f)) <=> AsMany(b)
         /\ \A sig : Count(f, sig) = Cardinality({o \in OwnRows(b) : Sig(b.cfg[o]) = sig})
  <1> DEFINE own == OwnRows(b)
             P(sig) == Count(PlannedSigs, sig)
             B(sig) == Count(f, sig)
  <1>1. \A sig : {o \in DOMAIN f : f[o] = sig} = {o \in own : Sig(b.cfg[o]) = sig}
    BY DEF Fits
  <1>2. \A sig : B(sig) = Cardinality({o \in own : Sig(b.cfg[o]) = sig})
    BY <1>1 DEF Count
  <1>3. \A sig : {i \in DOMAIN PlannedSigs : PlannedSigs[i] = sig}
                   = {i \in DOMAIN planned : Sig(planned[i]) = sig}
    BY PlanFacts
  <1>4. \A sig : P(sig) = Cardinality({i \in DOMAIN planned : Sig(planned[i]) = sig})
    BY <1>3 DEF Count
  <1>5. \A sig : /\ P(sig) \in Nat /\ B(sig) \in Nat
                 /\ sig \notin Range(PlannedSigs) => P(sig) = 0
                 /\ sig \notin Range(f) => B(sig) = 0
    BY Owned, PlanFacts, Counted
  <1>6. Range(f) = {Sig(b.cfg[o]) : o \in own}
    BY DEF Range, Fits
  <1>7. AsMany(b) <=> \A sig \in Range(f) \cup Range(PlannedSigs) : B(sig) = P(sig)
    <2>1. own = {o \in b.live : b.label[o] = Own}
      BY DEF OwnRows
    <2> HIDE DEF B, P, own
    <2> QED BY <1>2, <1>4, <1>6, <2>1 DEF AsMany
  <1>8. /\ \A sig \in Range(PlannedSigs) : Over(PlannedSigs, f)[sig] = 0 <=> P(sig) <= B(sig)
        /\ \A sig \in Range(f) : Over(f, PlannedSigs)[sig] = 0 <=> B(sig) <= P(sig)
    BY <1>5 DEF Over
  <1>9. /\ DOMAIN Over(PlannedSigs, f) = Range(PlannedSigs) /\ DOMAIN Over(f, PlannedSigs) = Range(f)
        /\ Delta(PlannedSigs, f).creates = Over(PlannedSigs, f)
        /\ Delta(PlannedSigs, f).destroys = Over(f, PlannedSigs)
    BY DEF Over, Delta
  <1> HIDE DEF P, B
  <1>10. IsEmpty(Delta(PlannedSigs, f))
           <=> /\ \A sig \in Range(PlannedSigs) : P(sig) <= B(sig)
               /\ \A sig \in Range(f) : B(sig) <= P(sig)
    BY <1>8, <1>9 DEF IsEmpty
  <1>11. (\A sig \in Range(f) \cup Range(PlannedSigs) : B(sig) = P(sig))
           <=> /\ \A sig \in Range(PlannedSigs) : P(sig) <= B(sig)
               /\ \A sig \in Range(f) : B(sig) <= P(sig)
    <2>1. ASSUME NEW sig \in Range(f) \cup Range(PlannedSigs),
                 sig \in Range(PlannedSigs) => P(sig) <= B(sig), sig \in Range(f) => B(sig) <= P(sig)
          PROVE  B(sig) = P(sig)
      BY <1>5, <2>1
    <2> QED BY <1>5, <2>1
  <1> QED BY <1>2, <1>7, <1>10, <1>11 DEF B

-----------------------------------------------------------------------------
(* The inductive invariant. *)

Reading == {"row", "open", "attr", "version", "close", "judge"}
Steps == {"idle", "list", "judged", "dispatch", "rest", "unwind"} \cup Reading

IsRead(r) ==
  r = [obj |-> r.obj, queues |-> r.queues, attr |-> r.attr, raw |-> r.raw, version |-> r.version]

Shape ==
  /\ TypeOK /\ Sane(board) /\ Sane(before)
  /\ IsRead(read)
  /\ pc \in Steps /\ phase \in {"plan", "after"} /\ verdict \in {"none", "dark", "census"}
  /\ pc # "idle" => opts \in Options
  /\ pc = "idle" => journal = << >> /\ unreversed = {} /\ phase = "plan"
  /\ pc # "dispatch" => due = NothingDue /\ fresh = None
  /\ pc = "judged" => verdict # "none"
  /\ pc = "dispatch" => phase = "plan" /\ verdict = "census"
  /\ pc = "unwind" => outcome = "failing"

\* The row being read is one of the tenant's, and what was answered is true of it.
RowTrue ==
  pc \in Reading \ {"row"} =>
    /\ read.obj \in rows
    /\ read.queues = None \/ read.queues = board.cfg[read.obj].queues
    /\ read.raw = None \/ read.raw = Raw(board, read.obj)

\* What has been read is true, and all there is once there is a verdict.
ReadTrue ==
  /\ pc \in Reading => DOMAIN faces \cup rows = OwnRows(board) /\ Fits(board, faces)
  /\ pc \in {"judged", "rest"} /\ verdict = "census" =>
       DOMAIN faces = OwnRows(board) /\ Fits(board, faces)
  /\ pc = "rest" /\ verdict = "census" => IsEmpty(Census)

\* Before the dispatch nothing a reading shows has changed.
NothingYet ==
  pc \notin {"idle", "dispatch", "unwind"} /\ phase = "plan" =>
    Same(before, board) /\ journal = << >> /\ unreversed = {}

\* A dispatch goes by a true reading of a board that is not right.
OnEvidence ==
  pc = "dispatch" =>
    /\ DOMAIN faces = OwnRows(before) /\ Fits(before, faces)
    /\ ~AsMany(before)
    /\ due.destroy \subseteq OwnRows(board)
    /\ due.create # {} => OwnRows(before) \subseteq OwnRows(board) /\ ToSet(journal) \subseteq OwnRows(board)
    /\ fresh # None => due.create # {} /\ board.label[fresh] = None /\ board.cfg[fresh] = planned[NextBlock]

\* Of each signature, what is there to stay and what is still to be created are
\* no fewer than what is planned.
Staying(sig) == {o \in OwnRows(board) \ due.destroy : Sig(board.cfg[o]) = sig}
Coming(sig) == {i \in due.create : PlannedSigs[i] = sig}
Covered ==
  pc = "dispatch" \/ (phase = "after" /\ pc # "unwind") =>
    \A sig \in Range(PlannedSigs) :
      Cardinality(Staying(sig)) + Cardinality(Coming(sig)) >= Count(PlannedSigs, sig)

\* What the run has made and named is on record, but for the one whose create erred
\* once its label was on, and what is on record is its own.
Unrecorded == OwnRows(board) \ (before.live \cup ToSet(journal) \cup unreversed)
Recorded ==
  /\ pc \notin {"idle", "unwind"} => Unrecorded = {}
  /\ pc = "unwind" => \A o, p \in Unrecorded : o = p
  /\ \A o \in ToSet(journal) \cap board.live : board.label[o] = Own

IInv ==
  /\ Shape /\ SessionClosed /\ RowTrue /\ ReadTrue /\ NothingYet /\ OnEvidence
  /\ Covered /\ Recorded

-----------------------------------------------------------------------------
(* What each command does to a board. *)

LEMMA MintedSane ==
  ASSUME NEW b, Sane(b), NEW o \in Ids \ b.live, NEW cfg \in Blocks, NEW odd \in Oddities \cup {{}}
  PROVE  LET n == Minted(b, o, cfg, odd)
         IN /\ Sane(n) /\ OwnRows(n) = OwnRows(b) /\ o \in n.live /\ b.live \subseteq n.live
            /\ n.cfg = [b.cfg EXCEPT ![o] = cfg] /\ n.label = b.label /\ n.label[o] = None
            /\ n.plugged = b.plugged /\ n.held = b.held
  <1> DEFINE n == Minted(b, o, cfg, odd)
  <1>1. None # Own
    BY CryptoAssumption
  <1>2. /\ n.live = b.live \cup {o} /\ n.cfg = [b.cfg EXCEPT ![o] = cfg] /\ n.label = b.label
        /\ n.plugged = b.plugged /\ n.held = b.held /\ n.label[o] = None
    BY DEF Minted, Sane, Boards
  <1>3. n \in Boards
    BY DEF Minted, Sane, Boards
  <1>4. \A x \in n.live : n.cfg[x] \in Blocks
    BY <1>2 DEF Sane, Boards
  <1>5. OwnRows(n) = OwnRows(b)
    BY <1>1, <1>2 DEF OwnRows
  <1> HIDE DEF n
  <1>6. Sane(n)
    BY <1>2, <1>3, <1>4 DEF Sane
  <1> QED BY <1>2, <1>5, <1>6 DEF n

LEMMA LabelledSane ==
  ASSUME NEW b, Sane(b), NEW o \in b.live, NEW who \in Labels
  PROVE  LET n == [b EXCEPT !.label[o] = who]
         IN /\ Sane(n) /\ n.live = b.live /\ n.cfg = b.cfg
            /\ n.label = [b.label EXCEPT ![o] = who]
            /\ who = Own => OwnRows(n) = OwnRows(b) \cup {o}
  <1> DEFINE n == [b EXCEPT !.label[o] = who]
  <1>1. o \in Ids
    BY DEF Sane, Boards
  <1>2. /\ n.live = b.live /\ n.cfg = b.cfg /\ n.label = [b.label EXCEPT ![o] = who]
        /\ n.plugged = b.plugged /\ n.held = b.held
    BY DEF Sane, Boards
  <1>3. n \in Boards
    BY <1>1 DEF Sane, Boards
  <1>4. b.label \in [Ids -> Labels]
    BY DEF Sane, Boards
  <1>5. who = Own => OwnRows(n) = OwnRows(b) \cup {o}
    BY <1>1, <1>2, <1>4 DEF OwnRows
  <1> HIDE DEF n
  <1>6. Sane(n)
    BY <1>1, <1>2, <1>3, <1>4 DEF Sane
  <1> QED BY <1>2, <1>5, <1>6 DEF n

LEMMA GoneSane ==
  ASSUME NEW b, Sane(b), NEW o \in Ids
  PROVE  LET n == Gone(b, o)
         IN /\ Sane(n) /\ OwnRows(n) = OwnRows(b) \ {o} /\ n.live = b.live \ {o}
            /\ \A x \in Ids \ {o} : n.cfg[x] = b.cfg[x] /\ n.label[x] = b.label[x]
  <1> DEFINE n == Gone(b, o)
  <1>1. /\ n.live = b.live \ {o} /\ n.cfg = [b.cfg EXCEPT ![o] = None]
        /\ n.label = [b.label EXCEPT ![o] = None]
        /\ n.plugged = b.plugged \ {o} /\ n.held = b.held \ {o}
    BY DEF Gone, Sane, Boards
  <1>2. n \in Boards
    BY DEF Gone, Sane, Boards, Labels
  <1>3. b.cfg \in [Ids -> Blocks \cup {None}] /\ b.label \in [Ids -> Labels] /\ b.live \subseteq Ids
    BY DEF Sane, Boards
  <1>4. /\ \A x \in Ids \ {o} : n.cfg[x] = b.cfg[x] /\ n.label[x] = b.label[x]
        /\ n.label[o] = None
    BY <1>1, <1>3
  <1>5. OwnRows(n) = OwnRows(b) \ {o}
    BY <1>1, <1>3, <1>4 DEF OwnRows
  <1> HIDE DEF n
  <1>6. Sane(n)
    BY <1>1, <1>2, <1>3, <1>4 DEF Sane
  <1> QED BY <1>1, <1>4, <1>5, <1>6 DEF n

LEMMA PluggedSane ==
  ASSUME NEW b, Sane(b), NEW o \in b.live
  PROVE  LET n == [b EXCEPT !.plugged = @ \cup {o}]
         IN Sane(n) /\ Same(b, n)
  BY DEF Sane, Boards, Same

LEMMA TurnedSane ==
  ASSUME NEW b, Sane(b)
  PROVE  /\ LET n == [b EXCEPT !.node = ~@] IN Sane(n) /\ Same(b, n)
         /\ \A o \in b.plugged :
              LET n == [b EXCEPT !.held = IF o \in @ THEN @ \ {o} ELSE @ \cup {o}]
              IN Sane(n) /\ Same(b, n)
  BY DEF Sane, Boards, Same

LEMMA LowestFree ==
  ASSUME Ids \ board.live # {}
  PROVE  Min(Free(board)) \in Ids \ board.live
  <1>1. Free(board) \subseteq Nat /\ Free(board) # {}
    BY CryptoAssumption DEF Free
  <1> HIDE DEF Free
  <1>2. Min(Free(board)) \in Free(board)
    BY <1>1, MinIn
  <1> QED BY <1>2 DEF Free

LEMMA NextBlockIn ==
  ASSUME planned \in Plans, due.create \subseteq DOMAIN planned, due.create # {}
  PROVE  NextBlock \in due.create /\ planned[NextBlock] \in Blocks
  <1>1. due.create \subseteq Nat /\ \A i \in due.create : PlannedSigs[i] \in Sigs
    BY PlanFacts
  <1>2. NextBlock \in due.create
    BY <1>1, FirstInIn DEF NextBlock
  <1> QED BY <1>2, PlanFacts

LEMMA NextVictimIn ==
  ASSUME NEW b, Sane(b), due.destroy \subseteq DOMAIN faces, due.destroy # {},
         DOMAIN faces = OwnRows(b), Fits(b, faces)
  PROVE  NextVictim \in due.destroy
  <1>1. due.destroy \subseteq Nat /\ \A o \in due.destroy : faces[o] \in Sigs
    BY Owned DEF Fits
  <1> QED BY <1>1, FirstInIn DEF NextVictim

-----------------------------------------------------------------------------
(* Ends, failures, and what no reading shows. *)

Budgeted == edits \in 0..MaxEdits /\ turns \in 0..MaxTurns /\ faults \in 0..MaxFaults

LEMMA InjectedBudget ==
  ASSUME TypeOK, UNCHANGED <<edits, turns>>, Injected \/ UNCHANGED faults
  PROVE  Budgeted'
  BY CryptoAssumption DEF TypeOK, Injected, Budgeted

LEMMA EmptySane == Sane(Empty) /\ IsRead(NoRead)
  BY DEF Sane, Empty, Boards, Labels, IsRead, NoRead

LEMMA EndKeeps ==
  ASSUME Sane(board'), planned' \in Plans, Budgeted', NEW how, End(how)
  PROVE  IInv'
  <1>1. /\ pc' = "idle" /\ opts' = None /\ phase' = "plan" /\ read' = NoRead /\ session' = None
        /\ verdict' = "none" /\ due' = NothingDue /\ fresh' = None
        /\ journal' = << >> /\ unreversed' = {} /\ before' = Empty
    BY DEF End
  <1>2. due'.create = {} /\ due'.destroy = {}
    BY <1>1 DEF NothingDue
  <1>3. ToSet(journal') = {} /\ journal' \in Seq(Ids)
    BY <1>1 DEF ToSet
  <1>4. TypeOK'
    BY <1>1, <1>2, <1>3 DEF TypeOK, Sane, Budgeted
  <1>5. Shape'
    BY <1>1, <1>4, EmptySane DEF Shape, Steps
  <1>6. SessionClosed' /\ RowTrue' /\ ReadTrue' /\ NothingYet' /\ OnEvidence' /\ Covered'
    BY <1>1 DEF SessionClosed, RowTrue, ReadTrue, NothingYet, OnEvidence, Covered, Reading
  <1>7. Recorded'
    BY <1>1, <1>3 DEF Recorded
  <1> QED BY <1>5, <1>6, <1>7 DEF IInv

\* A failing verb changes nothing a rollback goes by but the label of one object.
LEMMA FailKeeps ==
  ASSUME IInv, pc \notin {"idle", "unwind"}, Fail, planned' = planned, Budgeted', Sane(board'),
         board'.live \subseteq board.live, NEW x, OwnRows(board') \subseteq OwnRows(board) \cup {x},
         \A o \in board'.live : board'.label[o] \in {board.label[o], Own}
  PROVE  IInv'
  <1>1. planned' \in Plans
    BY DEF IInv, Shape, TypeOK
  <1>2. CASE \E how : End(how)
    BY <1>1, <1>2, EndKeeps
  <1>3. CASE /\ pc' = "unwind" /\ outcome' = "failing"
             /\ rows' = {} /\ read' = NoRead /\ session' = None /\ faces' = << >>
             /\ verdict' = "none" /\ due' = NothingDue /\ fresh' = None
             /\ UNCHANGED <<opts, phase, journal, unreversed, before>>
    <2>1. due'.create = {} /\ due'.destroy = {}
      BY <1>3 DEF NothingDue
    <2>2. TypeOK'
      BY <1>1, <1>3, <2>1 DEF IInv, Shape, TypeOK, Sane, Budgeted
    <2>3. Shape'
      BY <1>3, <2>2, EmptySane DEF IInv, Shape, Steps
    <2>4. SessionClosed' /\ RowTrue' /\ ReadTrue' /\ NothingYet' /\ OnEvidence' /\ Covered'
      BY <1>3 DEF SessionClosed, RowTrue, ReadTrue, NothingYet, OnEvidence, Covered, Reading
    <2>5. Unrecorded = {} /\ \A o \in ToSet(journal) \cap board.live : board.label[o] = Own
      BY DEF IInv, Recorded
    <2>6. Unrecorded' \subseteq {x}
      BY <1>3, <2>5 DEF Unrecorded
    <2>7. Recorded'
      BY <1>3, <2>5, <2>6 DEF Recorded
    <2> QED BY <2>3, <2>4, <2>7 DEF IInv
  <1> QED BY <1>2, <1>3 DEF Fail

\* Nor does a change of the board that no reading shows.
LEMMA SameKeeps ==
  ASSUME IInv, Sane(board'), Same(board, board'), Budgeted',
         UNCHANGED <<planned, pc, opts, phase, reading, dispatching, outcome, before>>
  PROVE  IInv'
  <1>1. /\ planned' = planned /\ pc' = pc /\ opts' = opts /\ phase' = phase /\ rows' = rows
        /\ read' = read /\ session' = session /\ faces' = faces /\ verdict' = verdict /\ due' = due
        /\ fresh' = fresh /\ journal' = journal /\ unreversed' = unreversed /\ outcome' = outcome
        /\ before' = before
    BY DEF reading, dispatching
  <1>2. board'.live = board.live /\ board'.cfg = board.cfg /\ board'.odd = board.odd /\ board'.label = board.label
    BY DEF Same
  <1>3. /\ OwnRows(board') = OwnRows(board)
        /\ \A f : Fits(board', f) <=> Fits(board, f)
        /\ \A o : Raw(board', o) = Raw(board, o)
    BY SameRows
  <1>4. PlannedSigs' = PlannedSigs /\ Census' = Census /\ NextBlock' = NextBlock
    BY <1>1 DEF PlannedSigs, Census, NextBlock
  <1>5. TypeOK'
    BY <1>1, <1>2 DEF IInv, Shape, TypeOK, Sane, Budgeted
  <1>6. Shape'
    BY <1>1, <1>5 DEF IInv, Shape
  <1>7. SessionClosed'
    BY <1>1 DEF IInv, SessionClosed
  <1>8. RowTrue'
    BY <1>1, <1>2, <1>3 DEF IInv, RowTrue
  <1>9. ReadTrue'
    BY <1>1, <1>3, <1>4 DEF IInv, ReadTrue
  <1>10. NothingYet'
    BY <1>1, <1>2 DEF IInv, NothingYet, Same
  <1>11. AsMany(before)' <=> AsMany(before)
    BY <1>1, <1>4 DEF AsMany
  <1>12. OnEvidence'
    BY <1>1, <1>2, <1>3, <1>4, <1>11 DEF IInv, OnEvidence
  <1>13. \A sig : Staying(sig)' = Staying(sig) /\ Coming(sig)' = Coming(sig)
    BY <1>1, <1>2, <1>3, <1>4 DEF Staying, Coming
  <1>14. Covered'
    BY <1>1, <1>4, <1>13 DEF IInv, Covered
  <1>15. Recorded'
    BY <1>1, <1>2, <1>3 DEF IInv, Recorded, Unrecorded
  <1> QED BY <1>6, <1>7, <1>8, <1>9, <1>10, <1>12, <1>14, <1>15 DEF IInv

\* Away from the dispatch and the unwind only the reading moves.
Away == {"list", "judged", "rest"} \cup Reading

LEMMA AwayKeeps ==
  ASSUME IInv, pc \in Away, pc' \in Away, RowUnchanged, Budgeted', IsRead(read)',
         verdict' \in {"none", "dark", "census"}, pc' = "judged" => verdict' # "none",
         session' \in board.live \cup {None}, SessionClosed', RowTrue', ReadTrue'
  PROVE  IInv'
  <1>1. /\ board' = board /\ planned' = planned /\ opts' = opts /\ phase' = phase /\ due' = due
        /\ fresh' = fresh /\ journal' = journal /\ unreversed' = unreversed /\ before' = before
    BY DEF RowUnchanged, dispatching
  <1>2. /\ pc \notin {"idle", "dispatch", "unwind"} /\ pc' \notin {"idle", "dispatch", "unwind"}
        /\ pc \in Steps /\ pc' \in Steps
    BY DEF Away, Steps, Reading
  <1>3. due = NothingDue /\ fresh = None /\ opts \in Options
    BY <1>2 DEF IInv, Shape
  <1>4. due.create = {} /\ due.destroy = {}
    BY <1>3 DEF NothingDue
  <1>5. TypeOK'
    BY <1>1, <1>2, <1>3, <1>4, CryptoAssumption DEF IInv, Shape, TypeOK, Budgeted
  <1>6. Shape'
    BY <1>1, <1>2, <1>3, <1>5 DEF IInv, Shape
  <1>7. NothingYet' /\ OnEvidence' /\ Recorded'
    BY <1>1, <1>2 DEF IInv, NothingYet, OnEvidence, Recorded, Unrecorded
  <1>8. PlannedSigs' = PlannedSigs
    BY <1>1 DEF PlannedSigs
  <1>9. \A sig : Staying(sig)' = Staying(sig) /\ Coming(sig)' = Coming(sig)
    BY <1>1, <1>8 DEF Staying, Coming
  <1>10. Covered'
    BY <1>1, <1>2, <1>8, <1>9 DEF IInv, Covered
  <1> QED BY <1>6, <1>7, <1>10 DEF IInv

-----------------------------------------------------------------------------
(* The reading. *)

\* While it reads, a judgment holds the tenant's rows, read or still to be read.
LEMMA RowsOwn ==
  ASSUME IInv, pc \in Reading
  PROVE  /\ rows \subseteq OwnRows(board) /\ rows \subseteq board.live /\ rows \subseteq Nat
         /\ DOMAIN faces \cup rows = OwnRows(board) /\ Fits(board, faces)
         /\ IsRead(read) /\ Sane(board)
  <1>1. DOMAIN faces \cup rows = OwnRows(board) /\ Fits(board, faces) /\ IsRead(read) /\ Sane(board)
    BY DEF IInv, ReadTrue, Shape
  <1> QED BY <1>1, Owned

LEMMA ListKeeps == ASSUME IInv, List PROVE IInv'
  <1>1. /\ pc = "list" /\ pc' = "row" /\ rows' = OwnRows(board) /\ faces' = << >> /\ verdict' = "none"
        /\ UNCHANGED <<board, planned, opts, phase, read, session, dispatching, outcome, before, budgets>>
    BY DEF List
  <1>2. session = None
    BY <1>1 DEF IInv, SessionClosed
  <1>3. DOMAIN faces' = {}
    BY <1>1
  <1>4. Fits(board, faces')
    BY <1>3 DEF Fits
  <1>5. SessionClosed' /\ RowTrue' /\ ReadTrue'
    BY <1>1, <1>2, <1>3, <1>4 DEF SessionClosed, RowTrue, ReadTrue, Reading
  <1>6. Budgeted' /\ IsRead(read)'
    BY <1>1 DEF IInv, Shape, TypeOK, Budgeted, budgets
  <1>7. RowUnchanged /\ pc \in Away /\ pc' \in Away /\ session' \in board.live \cup {None}
    BY <1>1, <1>2 DEF RowUnchanged, Away, Reading, budgets
  <1> QED BY <1>1, <1>5, <1>6, <1>7, AwayKeeps

\* A step within the reading of one row.
LEMMA RowKeeps ==
  ASSUME IInv, pc \in Reading, pc' \in Reading, RowUnchanged, Injected \/ UNCHANGED faults,
         UNCHANGED <<faces, rows, verdict>>, IsRead(read)', session' \in board.live \cup {None},
         SessionClosed', RowTrue'
  PROVE  IInv'
  <1>1. board' = board /\ faces' = faces /\ rows' = rows /\ verdict' = verdict
    BY DEF RowUnchanged
  <1>2. ReadTrue'
    BY <1>1 DEF IInv, ReadTrue, Reading
  <1>3. Budgeted'
    BY InjectedBudget DEF IInv, Shape, RowUnchanged
  <1>4. pc \in Away /\ pc' \in Away /\ pc' # "judged"
    BY DEF Away, Reading
  <1>5. verdict' \in {"none", "dark", "census"}
    BY <1>1 DEF IInv, Shape
  <1> QED BY <1>2, <1>3, <1>4, <1>5, AwayKeeps

LEMMA InfoKeeps == ASSUME IInv, Info PROVE IInv'
  <1> DEFINE o == Min(rows)
  <1>1. /\ pc = "row" /\ rows # {} /\ pc' = "open" /\ UNCHANGED <<rows, session, faces, verdict>>
        /\ RowUnchanged /\ (Injected \/ UNCHANGED faults)
        /\ \/ read' = [NoRead EXCEPT !.obj = o, !.queues = board.cfg[o].queues]
           \/ read' = [NoRead EXCEPT !.obj = o]
    BY DEF Info
  <1>2. pc \in Reading /\ pc' \in Reading
    BY <1>1 DEF Reading
  <1>3. o \in rows
    BY <1>1, <1>2, RowsOwn, MinIn
  <1> HIDE DEF o
  <1>4. /\ read'.obj = o /\ read'.raw = None /\ IsRead(read)'
        /\ read'.queues = None \/ read'.queues = board.cfg[o].queues
    BY <1>1 DEF NoRead, IsRead
  <1>5. board' = board
    BY <1>1 DEF RowUnchanged
  <1>6. RowTrue'
    BY <1>1, <1>3, <1>4, <1>5 DEF RowTrue
  <1>7. session = None
    BY <1>1 DEF IInv, SessionClosed
  <1>8. SessionClosed' /\ session' \in board.live \cup {None}
    BY <1>1, <1>7 DEF SessionClosed
  <1> QED BY <1>1, <1>2, <1>4, <1>6, <1>8, RowKeeps

\* An unreadable row ends the judgment without a verdict on anything.
LEMMA DarkKeeps ==
  ASSUME IInv, pc \in Reading, Darken, session' = None, RowUnchanged, UNCHANGED faults
  PROVE  IInv'
  <1>1. pc' = "judged" /\ verdict' = "dark" /\ IsRead(read)'
    BY EmptySane DEF Darken
  <1>2. SessionClosed' /\ RowTrue' /\ ReadTrue'
    BY <1>1 DEF SessionClosed, RowTrue, ReadTrue, Reading
  <1>3. pc \in Away /\ pc' \in Away
    BY <1>1 DEF Away
  <1>4. Budgeted'
    BY InjectedBudget DEF IInv, Shape, RowUnchanged
  <1> QED BY <1>1, <1>2, <1>3, <1>4, AwayKeeps

LEMMA OpenKeeps == ASSUME IInv, Open PROVE IInv'
  <1>1. pc = "open" /\ UNCHANGED faults /\ RowUnchanged /\ pc \in Reading
    BY DEF Open, Reading
  <1>2. session = None
    BY <1>1 DEF IInv, SessionClosed
  <1>3. CASE session' = read.obj /\ pc' = "attr" /\ UNCHANGED <<rows, read, faces, verdict>>
    <2>1. board' = board
      BY <1>1 DEF RowUnchanged
    <2>2. RowTrue' /\ read.obj \in rows
      BY <1>1, <1>3, <2>1 DEF IInv, RowTrue, Reading
    <2>3. session' \in board.live
      BY <1>1, <1>3, <2>2, RowsOwn
    <2>4. SessionClosed' /\ pc' \in Reading /\ IsRead(read)'
      BY <1>3 DEF SessionClosed, Reading, IInv, Shape
    <2> QED BY <1>1, <1>3, <2>2, <2>3, <2>4, RowKeeps
  <1>4. CASE Darken /\ UNCHANGED session
    BY <1>1, <1>2, <1>4, DarkKeeps
  <1> QED BY <1>3, <1>4 DEF Open

\* What the portal answers is true of the object, or is nothing.
LEMMA AnswersKeep ==
  ASSUME IInv, pc \in {"attr", "version"}, pc' \in {"version", "close"}, NEW field \in {"attr", "version"},
         NEW raw, raw = None \/ raw = Raw(board, read.obj), Answers(field, raw),
         UNCHANGED <<rows, session, faces, verdict>>, RowUnchanged
  PROVE  IInv'
  <1>1. Injected \/ UNCHANGED faults
    BY DEF Answers
  <1>2. \/ read' = [read EXCEPT ![field] = "ok", !.raw = raw]
        \/ read' = [read EXCEPT ![field] = "dark"]
        \/ read' = [read EXCEPT ![field] = "refused"]
    BY DEF Answers
  <1>3. pc \in Reading /\ pc' \in Reading /\ pc # "row" /\ pc' # "row"
    BY DEF Reading
  <1>4. IsRead(read)
    BY DEF IInv, Shape
  <1>5. /\ IsRead(read)' /\ read'.obj = read.obj /\ read'.queues = read.queues
        /\ read'.raw = read.raw \/ read'.raw = raw
    BY <1>2, <1>4 DEF IsRead
  <1>6. board' = board
    BY DEF RowUnchanged
  <1>7. RowTrue'
    BY <1>3, <1>5, <1>6 DEF IInv, RowTrue
  <1>8. session' \in board.live \cup {None} /\ SessionClosed'
    BY DEF IInv, Shape, TypeOK, SessionClosed
  <1> QED BY <1>1, <1>3, <1>5, <1>7, <1>8, RowKeeps

LEMMA GetAttributesKeeps == ASSUME IInv, GetAttributes PROVE IInv'
  BY AnswersKeep DEF GetAttributes

LEMMA GetApiVersionKeeps == ASSUME IInv, GetApiVersion PROVE IInv'
  <1>1. pc = "version" /\ pc' = "close" /\ Answers("version", read.raw)
        /\ UNCHANGED <<rows, session, faces, verdict>> /\ RowUnchanged
    BY DEF GetApiVersion
  <1>2. read.raw = None \/ read.raw = Raw(board, read.obj)
    BY <1>1 DEF IInv, RowTrue, Reading
  <1> QED BY <1>1, <1>2, AnswersKeep

LEMMA CloseKeeps == ASSUME IInv, Close PROVE IInv'
  <1>1. /\ pc = "close" /\ pc' = "judge" /\ session' = None /\ RowUnchanged
        /\ UNCHANGED <<rows, read, faces, verdict, faults>>
    BY DEF Close
  <1>2. board' = board /\ pc \in Reading /\ pc' \in Reading
    BY <1>1 DEF RowUnchanged, Reading
  <1>3. RowTrue' /\ SessionClosed' /\ IsRead(read)'
    BY <1>1, <1>2 DEF IInv, RowTrue, SessionClosed, Shape
  <1> QED BY <1>1, <1>2, <1>3, RowKeeps

LEMMA JudgeRowKeeps == ASSUME IInv, JudgeRow PROVE IInv'
  <1> DEFINE face == Face(read.queues, Mapped)
  <1>1. pc = "judge" /\ UNCHANGED <<session, faults>> /\ RowUnchanged /\ pc \in Reading
    BY DEF JudgeRow, Reading
  <1>2. session = None
    BY <1>1 DEF IInv, SessionClosed
  <1>3. CASE face = None
    <2>1. Darken
      BY <1>3 DEF JudgeRow
    <2> QED BY <1>1, <1>2, <2>1, DarkKeeps
  <1>4. CASE face # None
    <2>1. /\ faces' = [o \in DOMAIN faces \cup {read.obj} |-> IF o = read.obj THEN face ELSE faces[o]]
          /\ pc' = "row" /\ rows' = rows \ {read.obj} /\ read' = NoRead /\ verdict' = verdict
      BY <1>4 DEF JudgeRow
    <2>2. /\ read.obj \in rows /\ (read.queues = None \/ read.queues = board.cfg[read.obj].queues)
          /\ read.raw = None \/ read.raw = Raw(board, read.obj)
      BY <1>1 DEF IInv, RowTrue
    <2>3. Mapped = None \/ Mapped = Raw(board, read.obj)
      BY <2>2 DEF Mapped
    <2>4. /\ rows \subseteq board.live /\ DOMAIN faces \cup rows = OwnRows(board)
          /\ Fits(board, faces) /\ Sane(board)
      BY <1>1, RowsOwn
    <2>5. face = Sig(board.cfg[read.obj]) /\ board.odd[read.obj] = {}
      <3> DEFINE q == read.queues
                 o == read.obj
      <3>1. o \in board.live /\ (q = None \/ q = board.cfg[o].queues)
        BY <2>2, <2>4
      <3>2. face = Face(q, Mapped) /\ (Mapped = None \/ Mapped = Raw(board, o))
        BY <2>3
      <3> HIDE DEF q, o, face
      <3>3. face = Sig(board.cfg[o]) /\ board.odd[o] = {}
        BY <1>4, <2>4, <3>1, <3>2, FaceTrue
      <3> QED BY <3>3 DEF o
    <2> HIDE DEF face
    <2>6. DOMAIN faces' \cup rows' = OwnRows(board) /\ Fits(board, faces')
      <3>1. DOMAIN faces' = DOMAIN faces \cup {read.obj} /\ rows' = rows \ {read.obj}
        BY <2>1
      <3>2. \A o \in DOMAIN faces' : faces'[o] = IF o = read.obj THEN face ELSE faces[o]
        BY <2>1
      <3>3. DOMAIN faces' \cup rows' = OwnRows(board)
        BY <3>1, <2>2, <2>4
      <3>4. Fits(board, faces')
        BY <3>1, <3>2, <2>4, <2>5 DEF Fits
      <3> QED BY <3>3, <3>4
    <2>7. board' = board
      BY <1>1 DEF RowUnchanged
    <2>8. SessionClosed' /\ RowTrue' /\ ReadTrue'
      BY <1>1, <1>2, <2>1, <2>6, <2>7 DEF SessionClosed, RowTrue, ReadTrue, Reading
    <2>9. IsRead(read)' /\ pc \in Away /\ pc' \in Away
      BY <1>1, <2>1, EmptySane DEF Away, Reading
    <2>10. Budgeted' /\ verdict' \in {"none", "dark", "census"}
      BY <1>1, <2>1, InjectedBudget DEF IInv, Shape, RowUnchanged
    <2> QED BY <1>1, <1>2, <2>1, <2>8, <2>9, <2>10, AwayKeeps
  <1> QED BY <1>3, <1>4

LEMMA RowsReadKeeps == ASSUME IInv, RowsRead PROVE IInv'
  <1>1. /\ pc = "row" /\ rows = {} /\ verdict' = "census" /\ pc' = "judged"
        /\ UNCHANGED <<rows, read, session, faces, faults>> /\ RowUnchanged
    BY DEF RowsRead
  <1>2. pc \in Reading /\ board' = board /\ session = None
    BY <1>1 DEF Reading, RowUnchanged, IInv, SessionClosed
  <1>3. DOMAIN faces = OwnRows(board) /\ Fits(board, faces) /\ IsRead(read)
    BY <1>1, <1>2, RowsOwn
  <1>4. SessionClosed' /\ RowTrue' /\ ReadTrue' /\ IsRead(read)'
    BY <1>1, <1>2, <1>3 DEF SessionClosed, RowTrue, ReadTrue, Reading
  <1>5. Budgeted' /\ pc \in Away /\ pc' \in Away
    BY <1>1, InjectedBudget DEF IInv, Shape, RowUnchanged, Away, Reading
  <1> QED BY <1>1, <1>2, <1>4, <1>5, AwayKeeps

\* A read the portal refuses fails the run where it stands.
LEMMA StoppedKeeps ==
  ASSUME IInv, pc \notin {"idle", "unwind"}, Fail, UNCHANGED <<board, planned, edits, turns>>, Injected \/ UNCHANGED faults
  PROVE  IInv'
  <1>1. Budgeted' /\ board' = board /\ planned' = planned
    BY InjectedBudget DEF IInv, Shape
  <1>2. Sane(board')
    BY <1>1 DEF IInv, Shape
  <1> QED BY <1>1, <1>2, FailKeeps

LEMMA ReadsKeep == ASSUME IInv, Reads PROVE IInv'
  <1>1. CASE OpenRefused
    BY <1>1, StoppedKeeps DEF OpenRefused
  <1>2. CASE SessionFails
    BY <1>2, StoppedKeeps DEF SessionFails, budgets
  <1> QED BY <1>1, <1>2, ListKeeps, InfoKeeps, OpenKeeps, GetAttributesKeeps, GetApiVersionKeeps,
             CloseKeeps, JudgeRowKeeps, RowsReadKeeps DEF Reads

-----------------------------------------------------------------------------
(* The judgments. *)

\* A judgment that asks for nothing lets the run go on.
LEMMA RestKeeps ==
  ASSUME IInv, pc = "judged", FaceConverged, pc' = "rest",
         UNCHANGED <<board, planned, opts, phase, reading, dispatching, outcome, before, budgets>>
  PROVE  IInv'
  <1>1. /\ board' = board /\ planned' = planned /\ session' = session /\ read' = read
        /\ faces' = faces /\ verdict' = verdict
    BY DEF reading
  <1>2. session = None
    BY DEF IInv, SessionClosed
  <1>3. IsEmpty(Census)' <=> IsEmpty(Census)
    BY <1>1 DEF IsEmpty, Census, Delta, Over, Count, PlannedSigs
  <1>4. verdict = "census" => IsEmpty(Census) /\ DOMAIN faces = OwnRows(board) /\ Fits(board, faces)
    BY DEF FaceConverged, IInv, ReadTrue
  <1>5. SessionClosed' /\ RowTrue' /\ ReadTrue'
    BY <1>1, <1>2, <1>3, <1>4 DEF SessionClosed, RowTrue, ReadTrue, Reading
  <1>6. Budgeted' /\ IsRead(read)' /\ verdict' \in {"none", "dark", "census"}
    BY <1>1 DEF IInv, Shape, TypeOK, Budgeted, budgets
  <1>7. RowUnchanged /\ pc \in Away /\ pc' \in Away
    BY DEF RowUnchanged, Away, budgets
  <1> QED BY <1>1, <1>2, <1>5, <1>6, <1>7, AwayKeeps

\* What a dispatch is to do, and why: the board is not right, and what is left of
\* it with what is created covers the plan.
LEMMA OwedFacts ==
  ASSUME NEW b, Sane(b), DOMAIN faces = OwnRows(b), Fits(b, faces), planned \in Plans
  PROVE  LET owed == Owed(Census)
         IN /\ owed.create \subseteq DOMAIN planned /\ owed.destroy \subseteq OwnRows(b)
            /\ \A sig \in Range(PlannedSigs) :
                 Cardinality({o \in OwnRows(b) \ owed.destroy : Sig(b.cfg[o]) = sig})
                   + Cardinality({i \in owed.create : PlannedSigs[i] = sig}) >= Count(PlannedSigs, sig)
  <1> DEFINE create == Firsts(PlannedSigs, Over(PlannedSigs, faces))
             destroy == Firsts(faces, Over(faces, PlannedSigs))
  <1>1. Owed(Census) = [create |-> create, destroy |-> destroy]
    BY DEF Owed, Census, Delta
  <1>2. create \subseteq DOMAIN planned /\ destroy \subseteq OwnRows(b)
    BY PlanFacts DEF Firsts
  <1>3. IsFiniteSet(OwnRows(b)) /\ OwnRows(b) \subseteq Nat /\ IsFiniteSet(DOMAIN faces) /\ DOMAIN faces \subseteq Nat
    BY Owned
  <1>4. ASSUME NEW sig \in Range(PlannedSigs)
        PROVE  Cardinality({o \in OwnRows(b) \ destroy : Sig(b.cfg[o]) = sig})
                 + Cardinality({i \in create : PlannedSigs[i] = sig}) >= Count(PlannedSigs, sig)
    <2> DEFINE P == Count(PlannedSigs, sig)
               B == Count(faces, sig)
               held == {o \in OwnRows(b) : Sig(b.cfg[o]) = sig}
               lost == {o \in destroy : faces[o] = sig}
               kept == {o \in OwnRows(b) \ destroy : Sig(b.cfg[o]) = sig}
               made == {i \in create : PlannedSigs[i] = sig}
    <2>1. P \in Nat /\ B \in Nat
      BY <1>3, PlanFacts, Counted
    <2>2. B = Cardinality(held)
      BY DeltaExact
    <2>3. Cardinality(made) = IF P > B THEN P - B ELSE 0
      <3>1. IsFiniteSet(DOMAIN PlannedSigs) /\ DOMAIN PlannedSigs \subseteq Nat
        BY PlanFacts
      <3> QED BY <3>1, <1>3, FirstsCount
    <2>4. Cardinality(lost) = IF B > P THEN B - P ELSE 0
      <3>1. IsFiniteSet(DOMAIN PlannedSigs)
        BY PlanFacts
      <3> QED BY <3>1, <1>3, FirstsCount
    <2>5. lost \subseteq held /\ kept = held \ lost
      BY <1>2 DEF Fits
    <2>6. held \subseteq OwnRows(b)
      OBVIOUS
    <2> HIDE DEF held, lost, kept, made, P, B
    <2>7. IsFiniteSet(held) /\ IsFiniteSet(lost)
      BY <1>3, <2>5, <2>6, FS_Subset
    <2>8. Cardinality(kept) = Cardinality(held) - Cardinality(held \cap lost)
      BY <2>5, <2>7, FS_Difference
    <2>9. held \cap lost = lost
      BY <2>5
    <2>10. Cardinality(kept) = B - Cardinality(lost)
      BY <2>2, <2>8, <2>9
    <2>11. P > B => Cardinality(kept) + Cardinality(made) >= P
      BY <2>1, <2>3, <2>4, <2>10
    <2>12. ~(P > B) => Cardinality(kept) + Cardinality(made) >= P
      BY <2>1, <2>3, <2>4, <2>10
    <2>13. Cardinality(kept) + Cardinality(made) >= P
      BY <2>11, <2>12
    <2> QED BY <2>13 DEF kept, made, P
  <1> HIDE DEF create, destroy
  <1> QED BY <1>1, <1>2, <1>4

LEMMA PlanDispatchKeeps == ASSUME IInv, PlanDispatch PROVE IInv'
  <1>1. /\ pc = "judged" /\ phase = "plan" /\ ~FaceConverged /\ due' = Owed(Census) /\ pc' = "dispatch"
        /\ board' = board /\ planned' = planned /\ opts' = opts /\ phase' = phase /\ rows' = rows
        /\ read' = read /\ session' = session /\ faces' = faces /\ verdict' = verdict /\ fresh' = fresh
        /\ journal' = journal /\ unreversed' = unreversed /\ before' = before /\ outcome' = outcome
        /\ edits' = edits /\ turns' = turns /\ faults' = faults
    BY DEF PlanDispatch, reading, budgets
  <1>2. verdict = "census" /\ ~IsEmpty(Census)
    BY <1>1 DEF FaceConverged, IInv, Shape
  <1>3. /\ DOMAIN faces = OwnRows(board) /\ Fits(board, faces) /\ Sane(board) /\ Sane(before)
        /\ planned \in Plans /\ session = None /\ fresh = None /\ opts \in Options
    BY <1>1, <1>2 DEF IInv, ReadTrue, Shape, TypeOK, SessionClosed
  <1>4. ~AsMany(board)
    BY <1>2, <1>3, DeltaExact DEF Census
  <1>5. Same(before, board) /\ journal = << >> /\ unreversed = {}
    BY <1>1 DEF IInv, NothingYet
  <1>6. /\ OwnRows(board) = OwnRows(before) /\ Fits(before, faces) /\ ~AsMany(before)
    BY <1>3, <1>4, <1>5, SameRows
  <1>7. AsMany(before)' <=> AsMany(before)
    BY <1>1 DEF AsMany, PlannedSigs
  <1>8. due'.create \subseteq DOMAIN planned /\ due'.destroy \subseteq OwnRows(board)
    BY <1>1, <1>3, OwedFacts
  <1>9. ToSet(journal) = {}
    BY <1>5 DEF ToSet
  <1>10. TypeOK'
    BY <1>1, <1>3, <1>8, CryptoAssumption DEF IInv, Shape, TypeOK
  <1>11. Shape'
    BY <1>1, <1>2, <1>3, <1>10 DEF IInv, Shape, Steps
  <1>12. SessionClosed' /\ RowTrue' /\ ReadTrue' /\ NothingYet'
    BY <1>1, <1>3 DEF SessionClosed, RowTrue, ReadTrue, NothingYet, Reading
  <1>13. OnEvidence'
    BY <1>1, <1>3, <1>6, <1>7, <1>8, <1>9 DEF OnEvidence
  <1>14. PlannedSigs' = PlannedSigs
    BY <1>1 DEF PlannedSigs
  <1>15. \A sig \in Range(PlannedSigs) :
           Cardinality({o \in OwnRows(board) \ due'.destroy : Sig(board.cfg[o]) = sig})
             + Cardinality({i \in due'.create : PlannedSigs[i] = sig}) >= Count(PlannedSigs, sig)
    BY <1>1, <1>3, OwedFacts
  <1>16. Covered'
    BY <1>1, <1>14, <1>15 DEF Covered, Staying, Coming
  <1>17. Recorded'
    BY <1>1 DEF IInv, Recorded, Unrecorded
  <1> QED BY <1>11, <1>12, <1>13, <1>16, <1>17 DEF IInv

\* A pass that is refused or done ends where it stands.
LEMMA DoneKeeps ==
  ASSUME IInv, NEW how, End(how), UNCHANGED <<board, planned, edits, turns>>, Injected \/ UNCHANGED faults
  PROVE  IInv'
  <1>1. Budgeted' /\ board' = board /\ planned' = planned
    BY InjectedBudget DEF IInv, Shape
  <1>2. Sane(board') /\ planned' \in Plans
    BY <1>1 DEF IInv, Shape, TypeOK
  <1> QED BY <1>1, <1>2, EndKeeps

LEMMA JudgedAgainKeeps == ASSUME IInv, JudgedAgain PROVE IInv'
  <1>1. CASE FaceConverged
    <2>1. /\ pc = "judged" /\ pc' = "rest"
          /\ UNCHANGED <<board, planned, opts, phase, reading, dispatching, outcome, before, budgets>>
      BY <1>1 DEF JudgedAgain
    <2> QED BY <1>1, <2>1, RestKeeps
  <1>2. CASE ~FaceConverged
    <2>1. /\ pc \notin {"idle", "unwind"} /\ Fail
          /\ UNCHANGED <<board, planned, edits, turns>> /\ UNCHANGED faults
      BY <1>2 DEF JudgedAgain, budgets
    <2> QED BY <2>1, StoppedKeeps
  <1> QED BY <1>1, <1>2

-----------------------------------------------------------------------------
(* The dispatch. *)

LEMMA Dispatching ==
  ASSUME IInv, pc = "dispatch"
  PROVE  /\ Sane(board) /\ Sane(before) /\ planned \in Plans /\ opts \in Options
         /\ session = None /\ phase = "plan" /\ verdict = "census" /\ pc \in Steps
         /\ due.create \subseteq DOMAIN planned /\ due.destroy \subseteq DOMAIN faces
         /\ DOMAIN faces = OwnRows(before) /\ Fits(before, faces) /\ ~AsMany(before)
         /\ due.destroy \subseteq OwnRows(board)
         /\ journal \in Seq(Ids) /\ IsRead(read)
         /\ \A o \in ToSet(journal) \cap board.live : board.label[o] = Own
         /\ \A o \in OwnRows(board) : o \in before.live \cup ToSet(journal) \cup unreversed
         /\ due.create = {} => fresh = None
  BY DEF IInv, Shape, TypeOK, SessionClosed, OnEvidence, Recorded, Unrecorded

\* One command of the dispatch: what it does to the board, to what is due and to
\* the record.
LEMMA IssuedKeeps ==
  ASSUME IInv, pc = "dispatch", Issued, Injected \/ UNCHANGED faults,
         Sane(board'), fresh' \in board'.live \cup {None}, journal' \in Seq(Ids),
         due'.create \subseteq due.create, due'.destroy \subseteq due.destroy,
         due'.destroy \subseteq OwnRows(board'),
         due'.create # {} => OwnRows(board) \subseteq OwnRows(board') /\ ToSet(journal') \subseteq OwnRows(board'),
         fresh' # None => due'.create # {} /\ board'.label[fresh'] = None
                          /\ board'.cfg[fresh'] = planned[FirstIn(due'.create, PlannedSigs)],
         \A sig \in Range(PlannedSigs) :
           Cardinality({o \in OwnRows(board') \ due'.destroy : Sig(board'.cfg[o]) = sig})
             + Cardinality({i \in due'.create : PlannedSigs[i] = sig}) >= Count(PlannedSigs, sig),
         \A o \in OwnRows(board') : o \in OwnRows(board) \cup ToSet(journal'),
         ToSet(journal) \subseteq ToSet(journal'),
         \A o \in ToSet(journal') \cap board'.live : board'.label[o] = Own
  PROVE  IInv'
  <1>1. /\ planned' = planned /\ pc' = pc /\ opts' = opts /\ phase' = phase /\ rows' = rows
        /\ read' = read /\ session' = session /\ faces' = faces /\ verdict' = verdict
        /\ unreversed' = unreversed /\ outcome' = outcome /\ before' = before
    BY DEF Issued, reading
  <1>2. /\ Sane(before) /\ planned \in Plans /\ opts \in Options
        /\ session = None /\ phase = "plan" /\ verdict = "census" /\ pc \in Steps
        /\ due.create \subseteq DOMAIN planned /\ due.destroy \subseteq DOMAIN faces
        /\ DOMAIN faces = OwnRows(before) /\ Fits(before, faces) /\ ~AsMany(before)
        /\ IsRead(read)
        /\ \A o \in OwnRows(board) : o \in before.live \cup ToSet(journal) \cup unreversed
    BY Dispatching
  <1>3. Budgeted' /\ unreversed \subseteq Ids
    BY InjectedBudget DEF IInv, Shape, Issued, TypeOK
  <1>4. None \notin Options
    BY CryptoAssumption
  <1>5. TypeOK'
    BY <1>1, <1>2, <1>3, <1>4 DEF TypeOK, Sane, Budgeted
  <1>6. Shape'
    BY <1>1, <1>2, <1>5 DEF Shape
  <1>7. SessionClosed' /\ RowTrue' /\ ReadTrue' /\ NothingYet'
    BY <1>1, <1>2 DEF SessionClosed, RowTrue, ReadTrue, NothingYet, Reading
  <1>8. PlannedSigs' = PlannedSigs
    BY <1>1 DEF PlannedSigs
  <1>9. AsMany(before)' <=> AsMany(before)
    BY <1>1, <1>8 DEF AsMany
  <1>10. due.create # {} => OwnRows(before) \subseteq OwnRows(board)
    BY DEF IInv, OnEvidence
  <1>11. due'.create # {} => OwnRows(before) \subseteq OwnRows(board')
    BY <1>10
  <1>12. OnEvidence'
    BY <1>1, <1>2, <1>8, <1>9, <1>11 DEF OnEvidence, NextBlock
  <1>13. Covered'
    BY <1>1, <1>8 DEF Covered, Staying, Coming
  <1>14. Recorded'
    BY <1>1, <1>2 DEF Recorded, Unrecorded
  <1> QED BY <1>6, <1>7, <1>12, <1>13, <1>14 DEF IInv

LEMMA MintKeeps == ASSUME IInv, Mint PROVE IInv'
  <1>1. /\ pc = "dispatch" /\ due.create # {} /\ fresh = None /\ Free(board) # {}
        /\ fresh' = Min(Free(board)) /\ Issued /\ due' = due /\ journal' = journal
        /\ Injected \/ UNCHANGED faults
    BY DEF Mint, Creating
  <1>2. PICK odd \in Oddities \cup {{}} : board' = Minted(board, fresh', planned[NextBlock], odd)
    BY DEF Mint
  <1>3. fresh' \in Ids \ board.live
    BY <1>1, LowestFree DEF Free
  <1>4. /\ Sane(board) /\ planned \in Plans /\ due.create \subseteq DOMAIN planned
        /\ due.destroy \subseteq OwnRows(board) /\ journal \in Seq(Ids)
        /\ \A o \in ToSet(journal) \cap board.live : board.label[o] = Own
    BY <1>1, Dispatching
  <1>5. planned[NextBlock] \in Blocks
    BY <1>1, <1>4, NextBlockIn
  <1> DEFINE block == planned[NextBlock]
             n == Minted(board, fresh', block, odd)
  <1>6. /\ Sane(n) /\ OwnRows(n) = OwnRows(board) /\ fresh' \in n.live /\ board.live \subseteq n.live
        /\ n.cfg = [board.cfg EXCEPT ![fresh'] = block] /\ n.label = board.label /\ n.label[fresh'] = None
    <2>1. block \in Blocks
      BY <1>5
    <2> HIDE DEF block
    <2> QED BY <2>1, <1>3, <1>4, MintedSane
  <1>7. board' = n
    BY <1>2
  <1> HIDE DEF n
  <1>8. board.cfg \in [Ids -> Blocks \cup {None}]
    BY <1>4 DEF Sane, Boards
  <1>9. OwnRows(board) \subseteq board.live
    BY DEF OwnRows
  <1>10. \A o \in OwnRows(board) : board'.cfg[o] = board.cfg[o]
    <2>1. \A o \in OwnRows(board) : o \in Ids /\ o # fresh'
      BY <1>3, <1>4, <1>9, Owned
    <2> QED BY <2>1, <1>6, <1>7, <1>8
  <1>11. board'.cfg[fresh'] = block
    BY <1>3, <1>6, <1>7, <1>8
  <1>12. ToSet(journal) \subseteq OwnRows(board)
    BY <1>1 DEF IInv, OnEvidence
  <1>13. \A sig \in Range(PlannedSigs) :
           Cardinality({o \in OwnRows(board') \ due'.destroy : Sig(board'.cfg[o]) = sig})
             + Cardinality({i \in due'.create : PlannedSigs[i] = sig}) >= Count(PlannedSigs, sig)
    <2>1. \A sig : {o \in OwnRows(board') \ due'.destroy : Sig(board'.cfg[o]) = sig} = Staying(sig)
      BY <1>1, <1>6, <1>7, <1>10 DEF Staying
    <2>2. \A sig : {i \in due'.create : PlannedSigs[i] = sig} = Coming(sig)
      BY <1>1 DEF Coming
    <2> QED BY <1>1, <2>1, <2>2 DEF IInv, Covered
  <1>14. \A o \in ToSet(journal') \cap board'.live : board'.label[o] = Own
    BY <1>1, <1>4, <1>6, <1>7, <1>9, <1>12
  <1>15. /\ Sane(board') /\ fresh' \in board'.live \cup {None} /\ journal' \in Seq(Ids)
         /\ due'.destroy \subseteq OwnRows(board') /\ OwnRows(board') = OwnRows(board)
         /\ ToSet(journal') \subseteq OwnRows(board') /\ ToSet(journal) \subseteq ToSet(journal')
         /\ board'.label[fresh'] = None
    BY <1>1, <1>4, <1>6, <1>7, <1>12
  <1>16. board'.cfg[fresh'] = planned[FirstIn(due'.create, PlannedSigs)]
    BY <1>1, <1>11 DEF NextBlock
  <1> QED BY <1>1, <1>13, <1>14, <1>15, <1>16, IssuedKeeps

LEMMA PlugKeeps == ASSUME IInv, Plug PROVE IInv'
  <1>1. /\ fresh # None /\ board' = [board EXCEPT !.plugged = @ \cup {fresh}]
        /\ Issued /\ UNCHANGED <<due, fresh, journal, faults>>
    BY DEF Plug
  <1>2. Sane(board) /\ fresh \in board.live
    BY <1>1 DEF IInv, Shape, TypeOK
  <1>3. Sane(board') /\ Same(board, board')
    BY <1>1, <1>2, PluggedSane
  <1>4. /\ UNCHANGED <<planned, pc, opts, phase, reading, dispatching, outcome, before>>
        /\ UNCHANGED <<edits, turns>>
    BY <1>1 DEF Issued, dispatching
  <1>5. Budgeted'
    BY <1>1, <1>4, InjectedBudget DEF IInv, Shape
  <1> QED BY <1>3, <1>4, <1>5, SameKeeps

\* A stamp moves one block from what is to come to what is there.
LEMMA StampKeeps == ASSUME IInv, Stamp PROVE IInv'
  <1>1. /\ pc = "dispatch" /\ due.create # {} /\ fresh \in board.plugged
        /\ board' = Labelled(fresh)
        /\ journal' = Append(journal, fresh) /\ fresh' = None
        /\ due' = [due EXCEPT !.create = @ \ {NextBlock}] /\ Issued /\ UNCHANGED faults
    BY DEF Stamp, Creating, Record
  <1>2. /\ Sane(board) /\ planned \in Plans /\ due.create \subseteq DOMAIN planned
        /\ due.destroy \subseteq OwnRows(board) /\ journal \in Seq(Ids)
        /\ \A o \in ToSet(journal) \cap board.live : board.label[o] = Own
    BY <1>1, Dispatching
  <1>3. fresh \in board.live /\ fresh \in Ids /\ fresh # None
    BY <1>1, <1>2, CryptoAssumption DEF Sane, Boards
  <1>4. board.label[fresh] = None /\ board.cfg[fresh] = planned[NextBlock] /\ ToSet(journal) \subseteq OwnRows(board)
    BY <1>1, <1>3 DEF IInv, OnEvidence
  <1>5. NextBlock \in due.create
    BY <1>1, <1>2, NextBlockIn
  <1>6. /\ Sane(board') /\ board'.live = board.live /\ board'.cfg = board.cfg
        /\ board'.label = [board.label EXCEPT ![fresh] = Own] /\ OwnRows(board') = OwnRows(board) \cup {fresh}
    <2> DEFINE n == [board EXCEPT !.label[fresh] = Own]
    <2>1. Own \in Labels
      BY DEF Labels
    <2>2. /\ Sane(n) /\ n.live = board.live /\ n.cfg = board.cfg
          /\ n.label = [board.label EXCEPT ![fresh] = Own] /\ OwnRows(n) = OwnRows(board) \cup {fresh}
      BY <1>2, <1>3, <2>1, LabelledSane
    <2>3. board' = n
      BY <1>1 DEF Labelled
    <2> HIDE DEF n
    <2> QED BY <2>2, <2>3
  <1>7. fresh \notin OwnRows(board)
    BY <1>4, CryptoAssumption DEF OwnRows
  <1>8. ToSet(journal') = ToSet(journal) \cup {fresh} /\ journal' \in Seq(Ids)
    <2>1. /\ journal' \in Seq(Ids) /\ Len(journal') = Len(journal) + 1 /\ Len(journal) \in Nat
          /\ \A i \in 1..(Len(journal) + 1) :
               journal'[i] = IF i <= Len(journal) THEN journal[i] ELSE fresh
      BY <1>1, <1>2, <1>3
    <2>2. DOMAIN journal' = 1..(Len(journal) + 1) /\ DOMAIN journal = 1..Len(journal)
      BY <1>2, <2>1
    <2> QED BY <2>1, <2>2 DEF ToSet
  <1>9. due'.create = due.create \ {NextBlock} /\ due'.destroy = due.destroy
    BY <1>1 DEF IInv, Shape
  <1>10. ASSUME NEW sig \in Range(PlannedSigs)
         PROVE  Cardinality({o \in OwnRows(board') \ due'.destroy : Sig(board'.cfg[o]) = sig})
                  + Cardinality({i \in due'.create : PlannedSigs[i] = sig}) >= Count(PlannedSigs, sig)
    <2> DEFINE stay == {o \in OwnRows(board') \ due'.destroy : Sig(board'.cfg[o]) = sig}
               come == {i \in due'.create : PlannedSigs[i] = sig}
               S == Staying(sig)
               C == Coming(sig)
               P == Count(PlannedSigs, sig)
    <2>1. Cardinality(S) + Cardinality(C) >= P
      BY <1>1 DEF IInv, Covered
    <2>2. S \subseteq OwnRows(board) /\ C \subseteq DOMAIN planned
      BY <1>2 DEF Staying, Coming
    <2>3. IsFiniteSet(OwnRows(board)) /\ IsFiniteSet(DOMAIN planned) /\ IsFiniteSet(DOMAIN PlannedSigs)
      BY <1>2, Owned, PlanFacts
    <2>4. PlannedSigs[NextBlock] = Sig(board.cfg[fresh])
      BY <1>2, <1>4, <1>5, PlanFacts
    <2>5. Sig(board.cfg[fresh]) = sig => stay = S \cup {fresh} /\ come = C \ {NextBlock} /\ NextBlock \in C
      BY <1>2, <1>5, <1>6, <1>7, <1>9, <2>4 DEF Staying, Coming
    <2>6. Sig(board.cfg[fresh]) # sig => stay = S /\ come = C
      BY <1>6, <1>9, <2>4 DEF Staying, Coming
    <2>7. fresh \notin S
      BY <1>7, <2>2
    <2>8. P \in Nat
      BY <2>3, Counted
    <2> HIDE DEF stay, come, S, C, P
    <2>9. IsFiniteSet(S) /\ IsFiniteSet(C)
      BY <2>2, <2>3, FS_Subset
    <2>10. Cardinality(S) \in Nat /\ Cardinality(C) \in Nat
      BY <2>9, FS_CardinalityType
    <2>11. Cardinality(S \cup {fresh}) = Cardinality(S) + 1
      BY <2>7, <2>9, FS_AddElement
    <2>12. NextBlock \in C => Cardinality(C \ {NextBlock}) = Cardinality(C) - 1
      BY <2>9, FS_RemoveElement
    <2>13. Sig(board.cfg[fresh]) = sig => Cardinality(stay) + Cardinality(come) >= P
      <3>1. SUFFICES ASSUME Sig(board.cfg[fresh]) = sig PROVE Cardinality(stay) + Cardinality(come) >= P
        OBVIOUS
      <3>2. Cardinality(stay) = Cardinality(S) + 1 /\ Cardinality(come) = Cardinality(C) - 1
        BY <3>1, <2>5, <2>11, <2>12
      <3> QED BY <3>2, <2>1, <2>8, <2>10
    <2>14. Sig(board.cfg[fresh]) # sig => Cardinality(stay) + Cardinality(come) >= P
      BY <2>1, <2>6
    <2>15. Cardinality(stay) + Cardinality(come) >= P
      BY <2>13, <2>14
    <2> QED BY <2>15 DEF stay, come, P
  <1>11. \A o \in ToSet(journal') \cap board'.live : board'.label[o] = Own
    BY <1>6, <1>8, <1>4 DEF OwnRows
  <1>12. /\ due'.create \subseteq due.create /\ due'.destroy \subseteq due.destroy
         /\ due'.destroy \subseteq OwnRows(board') /\ OwnRows(board) \subseteq OwnRows(board')
         /\ ToSet(journal') \subseteq OwnRows(board') /\ ToSet(journal) \subseteq ToSet(journal')
         /\ \A o \in OwnRows(board') : o \in OwnRows(board) \cup ToSet(journal')
    BY <1>2, <1>4, <1>6, <1>8, <1>9
  <1> QED BY <1>1, <1>6, <1>8, <1>10, <1>11, <1>12, IssuedKeeps

\* What a dispatch destroys next is one of the tenant's.
LEMMA VictimOwn ==
  ASSUME IInv, Destroying
  PROVE  NextVictim \in due.destroy /\ NextVictim \in OwnRows(board) /\ NextVictim \in Ids
  <1>1. /\ Sane(board) /\ Sane(before) /\ due.destroy \subseteq DOMAIN faces /\ due.destroy # {}
        /\ DOMAIN faces = OwnRows(before) /\ Fits(before, faces) /\ due.destroy \subseteq OwnRows(board)
    BY Dispatching DEF Destroying
  <1>2. NextVictim \in due.destroy
    BY <1>1, NextVictimIn
  <1> QED BY <1>1, <1>2, Owned

LEMMA DestroyKeeps == ASSUME IInv, Destroy PROVE IInv'
  <1> DEFINE v == NextVictim
  <1>1. /\ pc = "dispatch" /\ due.create = {} /\ board' = Gone(board, v)
        /\ due' = [due EXCEPT !.destroy = @ \ {v}] /\ Issued /\ UNCHANGED <<fresh, journal, faults>>
    BY DEF Destroy, Destroying
  <1>2. v \in due.destroy /\ v \in OwnRows(board) /\ v \in Ids
    BY VictimOwn DEF Destroy
  <1> HIDE DEF v
  <1>3. /\ Sane(board) /\ due.destroy \subseteq OwnRows(board) /\ journal \in Seq(Ids) /\ fresh = None
        /\ \A o \in ToSet(journal) \cap board.live : board.label[o] = Own
    BY <1>1, Dispatching
  <1>4. /\ Sane(board') /\ OwnRows(board') = OwnRows(board) \ {v} /\ board'.live = board.live \ {v}
        /\ \A x \in Ids \ {v} : board'.cfg[x] = board.cfg[x] /\ board'.label[x] = board.label[x]
    BY <1>1, <1>2, <1>3, GoneSane
  <1>5. due'.create = {} /\ due'.destroy = due.destroy \ {v}
    BY <1>1
  <1>6. OwnRows(board) \subseteq Ids /\ board.live \subseteq Ids
    BY <1>3, Owned DEF Sane, Boards
  <1>7. \A sig \in Range(PlannedSigs) :
          Cardinality({o \in OwnRows(board') \ due'.destroy : Sig(board'.cfg[o]) = sig})
            + Cardinality({i \in due'.create : PlannedSigs[i] = sig}) >= Count(PlannedSigs, sig)
    <2>1. \A sig : {o \in OwnRows(board') \ due'.destroy : Sig(board'.cfg[o]) = sig} = Staying(sig)
      BY <1>2, <1>4, <1>5, <1>6 DEF Staying
    <2>2. \A sig : {i \in due'.create : PlannedSigs[i] = sig} = Coming(sig)
      BY <1>1, <1>5 DEF Coming
    <2> QED BY <1>1, <2>1, <2>2 DEF IInv, Covered
  <1>8. \A o \in ToSet(journal) \cap board'.live : board'.label[o] = Own
    BY <1>3, <1>4, <1>6
  <1> QED BY <1>1, <1>3, <1>4, <1>5, <1>7, <1>8, IssuedKeeps

\* A verb that is refused, or fails once its last spawn has taken effect.
LEMMA BrokenKeeps ==
  ASSUME IInv, pc \notin {"idle", "unwind"}, Fail, UNCHANGED <<planned, edits, turns>>,
         Injected \/ UNCHANGED faults,
         \/ board' = board
         \/ Creating /\ fresh \in board.plugged /\ board' = Labelled(fresh)
         \/ Destroying /\ board' = Gone(board, NextVictim)
  PROVE  IInv'
  <1>1. CASE board' = board
    BY <1>1, StoppedKeeps
  <1>2. CASE Destroying /\ board' = Gone(board, NextVictim)
    <2> DEFINE v == NextVictim
    <2>1. v \in Ids /\ Sane(board) /\ board' = Gone(board, v)
      BY <1>2, VictimOwn DEF IInv, Shape
    <2> HIDE DEF v
    <2>2. /\ Sane(board') /\ OwnRows(board') = OwnRows(board) \ {v} /\ board'.live = board.live \ {v}
          /\ \A x \in Ids \ {v} : board'.cfg[x] = board.cfg[x] /\ board'.label[x] = board.label[x]
      BY <2>1, GoneSane
    <2>3. board.live \subseteq Ids
      BY <2>1 DEF Sane, Boards
    <2>4. Budgeted'
      BY InjectedBudget DEF IInv, Shape
    <2> QED BY <2>2, <2>3, <2>4, FailKeeps
  <1>3. CASE Creating /\ fresh \in board.plugged /\ board' = Labelled(fresh)
    <2>1. Sane(board) /\ fresh \in board.live /\ Own \in Labels
      BY <1>3 DEF IInv, Shape, Sane, Labels
    <2>2. /\ Sane(board') /\ OwnRows(board') = OwnRows(board) \cup {fresh} /\ board'.live = board.live
          /\ board'.label = [board.label EXCEPT ![fresh] = Own]
      BY <1>3, <2>1, LabelledSane DEF Labelled
    <2>3. board.label \in [Ids -> Labels] /\ board.live \subseteq Ids
      BY <2>1 DEF Sane, Boards
    <2>4. Budgeted' /\ planned' = planned
      BY InjectedBudget DEF IInv, Shape
    <2>5. \A o \in board'.live : board'.label[o] \in {board.label[o], Own}
      BY <2>2, <2>3
    <2> QED BY <2>2, <2>4, <2>5, FailKeeps
  <1> QED BY <1>1, <1>2, <1>3

LEMMA DispatchedKeeps == ASSUME IInv, Dispatched PROVE IInv'
  <1>1. /\ pc = "dispatch" /\ due = NothingDue /\ phase' = "after" /\ pc' = "list"
        /\ board' = board /\ planned' = planned /\ opts' = opts /\ rows' = rows /\ read' = read
        /\ session' = session /\ faces' = faces /\ verdict' = verdict /\ due' = due /\ fresh' = fresh
        /\ journal' = journal /\ unreversed' = unreversed /\ before' = before /\ outcome' = outcome
        /\ edits' = edits /\ turns' = turns /\ faults' = faults
    BY DEF Dispatched, reading, dispatching, budgets
  <1>2. due.create = {} /\ due.destroy = {}
    BY <1>1 DEF NothingDue
  <1>3. session = None /\ fresh = None /\ opts \in Options /\ verdict = "census"
    BY <1>1, <1>2, Dispatching
  <1>4. TypeOK'
    BY <1>1, <1>3, CryptoAssumption DEF IInv, Shape, TypeOK
  <1>5. Shape'
    BY <1>1, <1>3, <1>4 DEF IInv, Shape, Steps
  <1>6. SessionClosed' /\ RowTrue' /\ ReadTrue' /\ NothingYet' /\ OnEvidence'
    BY <1>1, <1>3 DEF SessionClosed, RowTrue, ReadTrue, NothingYet, OnEvidence, Reading
  <1>7. PlannedSigs' = PlannedSigs
    BY <1>1 DEF PlannedSigs
  <1>8. \A sig : Staying(sig)' = Staying(sig) /\ Coming(sig)' = Coming(sig)
    BY <1>1, <1>7 DEF Staying, Coming
  <1>9. Covered' /\ Recorded'
    BY <1>1, <1>7, <1>8 DEF IInv, Covered, Recorded, Unrecorded
  <1> QED BY <1>5, <1>6, <1>9 DEF IInv

LEMMA DispatchesKeep == ASSUME IInv, Dispatches PROVE IInv'
  <1>1. CASE JudgedConverged
    BY <1>1, RestKeeps DEF JudgedConverged
  <1>2. CASE GateRefuses
    BY <1>2, DoneKeeps DEF GateRefuses, budgets
  <1>3. CASE MintUnheld
    BY <1>3, StoppedKeeps DEF MintUnheld, Creating, budgets
  <1>4. CASE DestroyRefused
    BY <1>4, BrokenKeeps DEF DestroyRefused, Destroying
  <1>5. CASE RunConverged
    BY <1>5, DoneKeeps DEF RunConverged, budgets
  <1> QED BY <1>1, <1>2, <1>3, <1>4, <1>5, PlanDispatchKeeps, MintKeeps, PlugKeeps, StampKeeps,
             DestroyKeeps, DispatchedKeeps, JudgedAgainKeeps DEF Dispatches

-----------------------------------------------------------------------------
(* The unwind, the operator, and the run as a whole. *)

LEMMA UnwindingFacts ==
  ASSUME IInv, pc = "unwind", journal # << >>
  PROVE  /\ LastRow \in Ids /\ Front(journal) \in Seq(Ids)
         /\ ToSet(journal) = ToSet(Front(journal)) \cup {LastRow}
  <1>1. journal \in Seq(Ids)
    BY DEF IInv, Shape, TypeOK
  <1>2. LastRow = Last(journal)
    BY DEF LastRow, Last
  <1> QED BY <1>1, <1>2, TakenBack

\* One row of the record is taken back, or noted as what could not be.
LEMMA UnwoundKeeps ==
  ASSUME IInv, pc = "unwind", journal # << >>, NEW undone \in BOOLEAN, Unwound(undone),
         Injected \/ UNCHANGED faults, Sane(board'), board'.live \subseteq board.live,
         OwnRows(board') \subseteq OwnRows(board), undone => LastRow \notin board'.live,
         \A o \in board'.live : board'.label[o] = board.label[o]
  PROVE  IInv'
  <1>1. /\ pc = "unwind" /\ planned' = planned /\ pc' = pc /\ opts' = opts /\ phase' = phase
        /\ rows' = rows /\ read' = read /\ session' = session /\ faces' = faces /\ verdict' = verdict
        /\ due' = due /\ fresh' = fresh /\ outcome' = outcome /\ before' = before
        /\ journal' = Front(journal) /\ edits' = edits /\ turns' = turns
        /\ unreversed' = IF undone THEN unreversed ELSE unreversed \cup {LastRow}
    BY DEF Unwound, reading
  <1>2. /\ LastRow \in Ids /\ journal' \in Seq(Ids)
        /\ ToSet(journal) = ToSet(journal') \cup {LastRow}
    BY <1>1, UnwindingFacts
  <1>3. session = None /\ fresh = None /\ due = NothingDue /\ opts \in Options
    BY <1>1 DEF IInv, SessionClosed, Shape
  <1>4. due.create = {} /\ due.destroy = {}
    BY <1>3 DEF NothingDue
  <1>5. Budgeted'
    BY InjectedBudget, <1>1 DEF IInv, Shape
  <1>6. unreversed' \subseteq Ids
    BY <1>1, <1>2 DEF IInv, Shape, TypeOK
  <1>7. TypeOK'
    BY <1>1, <1>2, <1>3, <1>4, <1>5, <1>6, CryptoAssumption DEF IInv, Shape, TypeOK, Sane, Budgeted
  <1>8. Shape'
    BY <1>1, <1>3, <1>7 DEF IInv, Shape, Steps
  <1>9. SessionClosed' /\ RowTrue' /\ ReadTrue' /\ NothingYet' /\ OnEvidence' /\ Covered'
    BY <1>1, <1>3 DEF SessionClosed, RowTrue, ReadTrue, NothingYet, OnEvidence, Covered, Reading
  <1>10. OwnRows(board') \subseteq board'.live
    BY DEF OwnRows
  <1>11. /\ \A o, p \in Unrecorded : o = p
         /\ \A o \in ToSet(journal) \cap board.live : board.label[o] = Own
    BY <1>1 DEF IInv, Recorded
  <1>12. Unrecorded' \subseteq Unrecorded
    BY <1>1, <1>2, <1>10 DEF Unrecorded
  <1>13. Recorded'
    BY <1>1, <1>2, <1>11, <1>12 DEF Recorded
  <1> QED BY <1>8, <1>9, <1>13 DEF IInv

LEMMA UnwindsKeep == ASSUME IInv, Unwinds PROVE IInv'
  <1>1. CASE UnwindRow
    <2>1. /\ pc = "unwind" /\ journal # << >> /\ Unwound(TRUE) /\ UNCHANGED faults
          /\ board' = Gone(board, LastRow)
      BY <1>1 DEF UnwindRow
    <2>2. LastRow \in Ids /\ Sane(board)
      BY <2>1, UnwindingFacts DEF IInv, Shape
    <2>3. /\ Sane(board') /\ OwnRows(board') = OwnRows(board) \ {LastRow} /\ board'.live = board.live \ {LastRow}
          /\ \A x \in Ids \ {LastRow} : board'.cfg[x] = board.cfg[x] /\ board'.label[x] = board.label[x]
      BY <2>1, <2>2, GoneSane
    <2>4. board.live \subseteq Ids
      BY <2>2 DEF Sane, Boards
    <2>5. LastRow \notin board'.live /\ \A o \in board'.live : board'.label[o] = board.label[o]
      BY <2>3, <2>4
    <2> QED BY <2>1, <2>3, <2>5, UnwoundKeeps
  <1>2. CASE UnwindRowFails
    <2>1. /\ pc = "unwind" /\ journal # << >> /\ Unwound(FALSE) /\ (Injected \/ UNCHANGED faults)
          /\ board' = board
      BY <1>2 DEF UnwindRowFails
    <2>2. Sane(board')
      BY <2>1 DEF IInv, Shape
    <2> QED BY <2>1, <2>2, UnwoundKeeps
  <1>3. CASE UnwindDone
    BY <1>3, DoneKeeps DEF UnwindDone, budgets
  <1> QED BY <1>1, <1>2, <1>3 DEF Unwinds

LEMMA InitKeeps == ASSUME Init PROVE IInv
  <1>1. /\ board = Empty /\ before = Empty /\ planned \in Plans /\ pc = "idle" /\ opts = None
        /\ phase = "plan" /\ read = NoRead /\ session = None /\ verdict = "none" /\ due = NothingDue
        /\ fresh = None /\ journal = << >> /\ unreversed = {} /\ edits = 0 /\ turns = 0 /\ faults = 0
    BY DEF Init
  <1>2. due.create = {} /\ due.destroy = {} /\ ToSet(journal) = {} /\ journal \in Seq(Ids)
    BY <1>1 DEF NothingDue, ToSet
  <1>3. board.live = {}
    BY <1>1 DEF Empty
  <1>4. TypeOK
    BY <1>1, <1>2, EmptySane, CryptoAssumption DEF TypeOK, Sane
  <1>5. Shape
    BY <1>1, <1>4, EmptySane DEF Shape, Steps
  <1>6. SessionClosed /\ RowTrue /\ ReadTrue /\ NothingYet /\ OnEvidence /\ Covered
    BY <1>1 DEF SessionClosed, RowTrue, ReadTrue, NothingYet, OnEvidence, Covered, Reading
  <1>7. Recorded
    BY <1>1, <1>2 DEF Recorded
  <1> QED BY <1>5, <1>6, <1>7 DEF IInv

LEMMA StartKeeps == ASSUME IInv, Start PROVE IInv'
  <1>1. /\ pc = "idle" /\ opts' \in Options /\ pc' = "list" /\ phase' = "plan" /\ before' = board
        /\ board' = board /\ planned' = planned /\ rows' = rows /\ read' = read /\ session' = session
        /\ faces' = faces /\ verdict' = verdict /\ due' = due /\ fresh' = fresh /\ journal' = journal
        /\ unreversed' = unreversed /\ edits' = edits /\ turns' = turns /\ faults' = faults
    BY DEF Start, reading, dispatching, budgets
  <1>2. session = None /\ journal = << >> /\ unreversed = {} /\ Sane(board) /\ due = NothingDue /\ fresh = None
    BY <1>1 DEF IInv, SessionClosed, Shape
  <1>3. TypeOK'
    BY <1>1, CryptoAssumption DEF IInv, Shape, TypeOK
  <1>4. Shape'
    BY <1>1, <1>2, <1>3 DEF IInv, Shape, Steps
  <1>5. SessionClosed' /\ RowTrue' /\ ReadTrue' /\ NothingYet' /\ OnEvidence' /\ Covered'
    BY <1>1, <1>2 DEF SessionClosed, RowTrue, ReadTrue, NothingYet, OnEvidence, Covered, Reading, Same
  <1>6. ToSet(journal) = {} /\ OwnRows(board) \subseteq board.live
    BY <1>2 DEF ToSet, OwnRows
  <1>7. Recorded'
    BY <1>1, <1>6 DEF Recorded, Unrecorded
  <1> QED BY <1>4, <1>5, <1>7 DEF IInv

\* Between two runs whatever becomes of the board and the plan is a place to start.
LEMMA IdleKeeps ==
  ASSUME IInv, pc = "idle", Sane(board'), planned' \in Plans, Budgeted',
         UNCHANGED <<pc, opts, phase, reading, dispatching, before>>
  PROVE  IInv'
  <1>1. /\ pc' = pc /\ opts' = opts /\ phase' = phase /\ rows' = rows
        /\ read' = read /\ session' = session /\ faces' = faces /\ verdict' = verdict /\ due' = due
        /\ fresh' = fresh /\ journal' = journal /\ unreversed' = unreversed /\ before' = before
    BY DEF reading, dispatching
  <1>2. session = None /\ journal = << >> /\ unreversed = {} /\ due = NothingDue /\ fresh = None /\ phase = "plan"
    BY DEF IInv, SessionClosed, Shape
  <1>3. due.create = {} /\ due.destroy = {} /\ ToSet(journal) = {}
    BY <1>2 DEF NothingDue, ToSet
  <1>4. TypeOK'
    BY <1>1, <1>2, <1>3 DEF IInv, Shape, TypeOK, Sane, Budgeted
  <1>5. Shape'
    BY <1>1, <1>2, <1>4 DEF IInv, Shape
  <1>6. SessionClosed' /\ RowTrue' /\ ReadTrue' /\ NothingYet' /\ OnEvidence' /\ Covered'
    BY <1>1, <1>2 DEF SessionClosed, RowTrue, ReadTrue, NothingYet, OnEvidence, Covered, Reading
  <1>7. Recorded'
    BY <1>1, <1>3 DEF Recorded
  <1> QED BY <1>5, <1>6, <1>7 DEF IInv

LEMMA EditsKeep == ASSUME IInv, OperatorEdits PROVE IInv'
  <1>1. /\ pc = "idle" /\ edits < MaxEdits /\ edits' = edits + 1 /\ Edited
        /\ UNCHANGED <<pc, opts, phase, reading, dispatching, outcome, before, turns, faults>>
    BY DEF OperatorEdits
  <1>2. Sane(board) /\ planned \in Plans
    BY DEF IInv, Shape, TypeOK
  <1>3. Budgeted'
    BY <1>1, CryptoAssumption DEF IInv, Shape, TypeOK, Budgeted
  <1>4. CASE \E plan \in Plans : planned' = plan /\ UNCHANGED board
    <2>1. Sane(board') /\ planned' \in Plans
      BY <1>2, <1>4
    <2> QED BY <1>1, <1>3, <2>1, IdleKeeps
  <1>5. CASE /\ Free(board) # {}
             /\ \E plan \in Plans, who \in {Own, Stranger, None} :
                  /\ plan # << >>
                  /\ LET o == Min(Free(board))
                     IN board' = [Minted(board, o, Head(plan), {}) EXCEPT !.label[o] = who]
             /\ UNCHANGED planned
    <2> DEFINE o == Min(Free(board))
    <2>1. PICK plan \in Plans, who \in Labels :
             plan # << >> /\ board' = [Minted(board, o, Head(plan), {}) EXCEPT !.label[o] = who]
      BY <1>5 DEF Labels
    <2>2. o \in Ids \ board.live
      BY <1>5, LowestFree DEF Free
    <2> HIDE DEF o
    <2>3. Head(plan) \in Blocks
      <3>1. plan \in Seq(Blocks)
        BY CryptoAssumption
      <3> QED BY <2>1, <3>1
    <2> DEFINE block == Head(plan)
               odd == {}
               n == Minted(board, o, block, odd)
               m == [n EXCEPT !.label[o] = who]
    <2>4. Sane(n) /\ o \in n.live
      <3>1. block \in Blocks /\ odd \in Oddities \cup {{}}
        BY <2>3
      <3> HIDE DEF block, odd
      <3> QED BY <1>2, <2>2, <3>1, MintedSane
    <2>5. board' = m
      BY <2>1
    <2> HIDE DEF n
    <2>6. Sane(m)
      BY <2>1, <2>4, LabelledSane
    <2> HIDE DEF m
    <2>7. Sane(board') /\ planned' \in Plans
      BY <1>2, <1>5, <2>5, <2>6
    <2> QED BY <1>1, <1>3, <2>7, IdleKeeps
  <1>6. CASE \E o \in board.live :
               /\ \/ board' = Gone(board, o)
                  \/ \E who \in {Own, Stranger, None} : board' = [board EXCEPT !.label[o] = who]
               /\ UNCHANGED planned
    <2>1. PICK o \in board.live :
             \/ board' = Gone(board, o)
             \/ \E who \in Labels : board' = [board EXCEPT !.label[o] = who]
      BY <1>6 DEF Labels
    <2>2. o \in Ids
      BY <1>2 DEF Sane, Boards
    <2>3. CASE board' = Gone(board, o)
      <3>1. Sane(board') /\ planned' \in Plans
        BY <1>2, <1>6, <2>2, <2>3, GoneSane
      <3> QED BY <1>1, <1>3, <3>1, IdleKeeps
    <2>4. CASE \E who \in Labels : board' = [board EXCEPT !.label[o] = who]
      <3>1. PICK who \in Labels : board' = [board EXCEPT !.label[o] = who]
        BY <2>4
      <3>2. Sane(board') /\ planned' \in Plans
        BY <1>2, <1>6, <3>1, LabelledSane
      <3> QED BY <1>1, <1>3, <3>2, IdleKeeps
    <2> QED BY <2>1, <2>3, <2>4
  <1> QED BY <1>1, <1>4, <1>5, <1>6 DEF Edited

\* The device node and the drivers change nothing a reading shows.
LEMMA TurnsKeep == ASSUME IInv, NodeTurns \/ DriverTurns PROVE IInv'
  <1>1. Sane(board)
    BY DEF IInv, Shape
  <1>2. /\ UNCHANGED <<planned, pc, opts, phase, reading, dispatching, outcome, before>>
        /\ turns < MaxTurns /\ turns' = turns + 1 /\ UNCHANGED <<edits, faults>>
    BY DEF NodeTurns, DriverTurns, TurnUnchanged
  <1>3. Budgeted'
    BY <1>2, CryptoAssumption DEF IInv, Shape, TypeOK, Budgeted
  <1>4. CASE NodeTurns
    <2> DEFINE n == [board EXCEPT !.node = ~@]
    <2>1. Sane(n) /\ Same(board, n)
      BY <1>1, TurnedSane
    <2>2. board' = n
      BY <1>4 DEF NodeTurns
    <2> HIDE DEF n
    <2> QED BY <1>2, <1>3, <2>1, <2>2, SameKeeps
  <1>5. CASE DriverTurns
    <2>1. PICK o \in board.plugged :
             board' = [board EXCEPT !.held = IF o \in @ THEN @ \ {o} ELSE @ \cup {o}]
      BY <1>5 DEF DriverTurns
    <2> DEFINE n == [board EXCEPT !.held = IF o \in @ THEN @ \ {o} ELSE @ \cup {o}]
    <2>2. Sane(n) /\ Same(board, n)
      BY <1>1, <2>1, TurnedSane
    <2>3. board' = n
      BY <2>1
    <2> HIDE DEF n
    <2> QED BY <1>2, <1>3, <2>2, <2>3, SameKeeps
  <1> QED BY <1>4, <1>5

LEMMA NextKeeps == ASSUME IInv, [Next]_vars PROVE IInv'
  <1>1. CASE GuardRefuses
    <2>1. /\ pc = "idle" /\ UNCHANGED <<board, planned, pc, opts, phase, reading, dispatching, before, budgets>>
      BY <1>1 DEF GuardRefuses
    <2>2. Sane(board') /\ planned' \in Plans /\ Budgeted'
      BY <2>1 DEF IInv, Shape, TypeOK, Budgeted, budgets
    <2> QED BY <2>1, <2>2, IdleKeeps
  <1>2. CASE VerbFails
    <2>1. /\ pc \notin {"idle", "unwind"} /\ Injected /\ Fail /\ UNCHANGED <<planned, edits, turns>>
          /\ \/ board' = board
             \/ Creating /\ fresh \in board.plugged /\ board' = Labelled(fresh)
             \/ Destroying /\ board' = Gone(board, NextVictim)
      BY <1>2 DEF VerbFails
    <2> QED BY <2>1, BrokenKeeps
  <1>3. CASE Killed
    <2>1. End("killed") /\ Injected /\ UNCHANGED <<board, planned, edits, turns>>
      BY <1>3 DEF Killed
    <2> QED BY <2>1, DoneKeeps
  <1>4. CASE UNCHANGED vars
    <2>1. UNCHANGED <<board, planned, pc, opts, phase, reading, dispatching, outcome, before, budgets>>
      BY <1>4 DEF vars, reading, dispatching, budgets
    <2>2. Sane(board') /\ Same(board, board') /\ Budgeted'
      BY <2>1 DEF IInv, Shape, TypeOK, Budgeted, budgets, Same
    <2> QED BY <2>1, <2>2, SameKeeps
  <1> QED BY <1>1, <1>2, <1>3, <1>4, StartKeeps, ReadsKeep, DispatchesKeep, UnwindsKeep, EditsKeep,
             TurnsKeep DEF Next, Tool

-----------------------------------------------------------------------------
(* The theorems. *)

\* A tenant in the middle of a replacement is no shorter than it was or is to be.
LEMMA ShortOfNothing == ASSUME IInv PROVE NeverShort
  <1> SUFFICES ASSUME pc \notin {"idle", "unwind"}
               PROVE  \/ Cardinality(OwnRows(board)) >= Cardinality(OwnRows(before))
                      \/ Cardinality(OwnRows(board)) >= Len(planned)
    BY DEF NeverShort, OwnRows
  <1> DEFINE had == OwnRows(before)
             has == OwnRows(board)
  <1>1. IsFiniteSet(had) /\ IsFiniteSet(has)
    BY Owned DEF IInv, Shape
  <1>2. CASE had \subseteq has
    <2>1. Cardinality(had) <= Cardinality(has)
      BY <1>1, <1>2, FS_Subset
    <2>2. Cardinality(had) \in Nat /\ Cardinality(has) \in Nat
      BY <1>1, FS_CardinalityType
    <2> QED BY <2>1, <2>2
  <1>3. CASE ~(had \subseteq has)
    <2>1. planned \in Plans
      BY DEF IInv, Shape, TypeOK
    <2>2. pc = "dispatch" \/ phase = "after"
      <3>1. CASE pc # "dispatch" /\ phase = "plan"
        <4>1. Same(before, board)
          BY <3>1 DEF IInv, NothingYet
        <4>2. had = has
          BY <4>1, SameRows
        <4> QED BY <1>3, <4>2
      <3> QED BY <3>1 DEF IInv, Shape
    <2>3. due.create = {}
      BY <1>3 DEF IInv, OnEvidence, Shape, NothingDue
    <2>4. \A sig \in Range(PlannedSigs) :
            Cardinality(Staying(sig)) + Cardinality(Coming(sig)) >= Count(PlannedSigs, sig)
      BY <2>2 DEF IInv, Covered
    <2>5. IsFiniteSet(DOMAIN PlannedSigs) /\ Cardinality(DOMAIN PlannedSigs) = Len(planned) /\ Len(planned) \in Nat
      BY <2>1, PlanFacts
    <2> DEFINE sigs == [o \in has |-> Sig(board.cfg[o])]
    <2>6. ASSUME NEW i \in DOMAIN PlannedSigs
          PROVE  Cardinality(Fiber(DOMAIN PlannedSigs, PlannedSigs, PlannedSigs[i]))
                   <= Cardinality(Fiber(has, sigs, PlannedSigs[i]))
      <3> DEFINE sig == PlannedSigs[i]
                 stay == Staying(sig)
                 all == Fiber(has, sigs, sig)
                 asked == Fiber(DOMAIN PlannedSigs, PlannedSigs, sig)
      <3>1. sig \in Range(PlannedSigs)
        BY DEF Range
      <3>2. Coming(sig) = {}
        BY <2>3 DEF Coming
      <3>3. Cardinality(Coming(sig)) = 0
        BY <3>2, FS_EmptySet
      <3>4. stay \subseteq all /\ all \subseteq has
        BY DEF Staying, Fiber
      <3>5. Cardinality(stay) + 0 >= Count(PlannedSigs, sig)
        BY <2>4, <3>1, <3>3
      <3>6. Count(PlannedSigs, sig) = Cardinality(asked)
        BY DEF Count, Fiber
      <3>7. Count(PlannedSigs, sig) \in Nat
        BY <2>5, Counted
      <3> HIDE DEF stay, all, sig, asked
      <3>8. IsFiniteSet(stay) /\ IsFiniteSet(all) /\ Cardinality(stay) <= Cardinality(all)
        BY <1>1, <3>4, FS_Subset
      <3>9. Cardinality(stay) \in Nat /\ Cardinality(all) \in Nat
        BY <3>8, FS_CardinalityType
      <3>10. Cardinality(asked) <= Cardinality(all)
        BY <3>5, <3>6, <3>7, <3>8, <3>9
      <3> QED BY <3>10 DEF all, asked, sig
    <2>7. Cardinality(DOMAIN PlannedSigs) <= Cardinality(has)
      <3> HIDE DEF has, sigs
      <3> QED BY <1>1, <2>5, <2>6, Fibers
    <2>8. Cardinality(has) \in Nat
      BY <1>1, FS_CardinalityType
    <2> QED BY <2>5, <2>7, <2>8
  <1> QED BY <1>2, <1>3

LEMMA Implied == ASSUME IInv PROVE CryptoInv
  <1>1. TypeOK /\ SessionClosed
    BY DEF IInv, Shape
  <1>2. JudgesOnlyTheSeen
    BY DEF IInv, OnEvidence, Fits, OwnRows, JudgesOnlyTheSeen
  <1>3. NoChurn
    BY DEF IInv, OnEvidence, NoChurn
  <1>4. ConvergedExact
    <2> SUFFICES ASSUME pc = "rest", verdict = "census" PROVE AsMany(board)
      BY DEF ConvergedExact
    <2>1. Sane(board) /\ DOMAIN faces = OwnRows(board) /\ Fits(board, faces) /\ planned \in Plans /\ IsEmpty(Census)
      BY DEF IInv, Shape, TypeOK, ReadTrue
    <2> QED BY <2>1, DeltaExact DEF Census
  <1> QED BY <1>1, <1>2, <1>3, <1>4, ShortOfNothing DEF CryptoInv

\* At every command of a dpseci pass (populate.rs judge_dpseci and
\* dispatch_child_population, restool.rs read_dpseci_over_portal): the portal
\* session is closed whenever anything is judged or changed, a verb is issued on a
\* full reading of a board that is not right, a replacement never leaves the
\* tenant short, and a pass that goes on as converged holds the planned multiset.
THEOREM CryptoKept == Spec => []CryptoInv
  <1>1. Init => IInv
    BY InitKeeps
  <1>2. IInv /\ [Next]_vars => IInv'
    BY NextKeeps
  <1>3. IInv => CryptoInv
    BY Implied
  <1> QED BY <1>1, <1>2, <1>3, PTL DEF Spec

\* The commands that take an object off the board.
LEMMA Lost ==
  ASSUME IInv, [Next]_vars, pc # "idle"
  PROVE  \/ board.live \subseteq board'.live
         \/ Destroying /\ board'.live = board.live \ {NextVictim}
         \/ pc = "unwind" /\ journal # << >> /\ board'.live = board.live \ {LastRow}
  <1> DEFINE Taken == Destroying /\ board' = Gone(board, NextVictim)
             Unmade == pc = "unwind" /\ journal # << >> /\ board' = Gone(board, LastRow)
  <1>1. Sane(board)
    BY DEF IInv, Shape
  <1>2. CASE Mint
    <2>1. PICK odd \in Oddities \cup {{}} : board' = Minted(board, fresh', planned[NextBlock], odd)
      BY <1>2 DEF Mint
    <2> DEFINE cfg == planned[NextBlock]
    <2>2. board' = Minted(board, fresh', cfg, odd)
      BY <2>1
    <2> HIDE DEF cfg
    <2>3. board'.live = board.live \cup {fresh'}
      BY <2>2 DEF Minted
    <2> QED BY <2>3
  <1>3. CASE Plug
    BY <1>3 DEF Plug
  <1>4. CASE board' = Labelled(fresh)
    BY <1>4 DEF Labelled
  <1>5. CASE Taken
    BY <1>5 DEF Gone
  <1>6. CASE Unmade
    BY <1>6 DEF Gone
  <1>7. CASE NodeTurns \/ DriverTurns
    <2>1. board'.live = board.live
      BY <1>1, <1>7 DEF NodeTurns, DriverTurns, Sane, Boards
    <2> QED BY <2>1
  <1>8. CASE board' = board
    BY <1>8
  <1>9. Reads => board' = board
    BY DEF Reads, List, Info, Open, OpenRefused, GetAttributes, GetApiVersion, Close, SessionFails,
           JudgeRow, RowsRead, RowUnchanged
  <1>10. Dispatches => Mint \/ Plug \/ board' = Labelled(fresh) \/ Taken \/ board' = board
    BY DEF Dispatches, Stamp, JudgedConverged, GateRefuses, PlanDispatch, MintUnheld, Destroy, DestroyRefused,
           Dispatched, JudgedAgain, RunConverged
  <1>11. Unwinds => Unmade \/ board' = board
    BY DEF Unwinds, UnwindRow, UnwindRowFails, UnwindDone
  <1>12. ~Start /\ ~OperatorEdits /\ ~GuardRefuses
    BY DEF Start, OperatorEdits, GuardRefuses
  <1>13. VerbFails \/ Killed => Taken \/ board' = Labelled(fresh) \/ board' = board
    BY DEF VerbFails, Killed
  <1>14. UNCHANGED vars => board' = board
    BY DEF vars
  <1> QED BY <1>2, <1>3, <1>4, <1>5, <1>6, <1>7, <1>8, <1>9, <1>10, <1>11, <1>12, <1>13, <1>14 DEF Next, Tool

\* How a rollback comes to be called clean.
LEMMA CalledClean ==
  ASSUME IInv, [Next]_vars, pc = "unwind", outcome' = "rolledBack"
  PROVE  journal = << >> /\ unreversed = {} /\ board' = board
  <1>1. outcome = "failing"
    BY DEF IInv, Shape
  <1>2. ~Reads
    BY DEF Reads, List, Info, Open, OpenRefused, GetAttributes, GetApiVersion, Close, SessionFails,
           JudgeRow, RowsRead
  <1>3. ~Dispatches
    BY DEF Dispatches, JudgedConverged, GateRefuses, PlanDispatch, Mint, MintUnheld, Plug, Stamp, Destroy,
           DestroyRefused, Dispatched, JudgedAgain, RunConverged, Creating, Destroying
  <1>4. ~Start /\ ~OperatorEdits /\ ~GuardRefuses /\ ~VerbFails
    BY DEF Start, OperatorEdits, GuardRefuses, VerbFails
  <1>5. ~Killed
    BY DEF Killed, End
  <1>6. ~NodeTurns /\ ~DriverTurns
    BY <1>1 DEF NodeTurns, DriverTurns, TurnUnchanged
  <1>7. ~UnwindRow /\ ~UnwindRowFails
    BY <1>1 DEF UnwindRow, UnwindRowFails, Unwound
  <1>8. ~UNCHANGED vars
    BY <1>1 DEF vars
  <1>9. UnwindDone
    BY <1>2, <1>3, <1>4, <1>5, <1>6, <1>7, <1>8 DEF Next, Tool, Unwinds
  <1> QED BY <1>9 DEF UnwindDone, End, budgets

\* A dpseci pass destroys nothing that does not bear its tenant's name, in the
\* dispatch or in the unwind, and a rollback called clean leaves the tenant none
\* of the objects the run made but at most the one whose create erred once its label
\* was on (populate.rs judge_dpseci: the label filter;
\* rollback_exec.rs execute).
THEOREM OwnRemoved == Spec => RemovesItsOwn
  <1> DEFINE Kept == pc # "idle" => \A o \in board.live \ board'.live : board.label[o] = Own
             Made == outcome' = "rolledBack" /\ pc = "unwind" =>
                       \A o, p \in board'.live \ before.live :
                         board'.label[o] = Own /\ board'.label[p] = Own => o = p
  <1>1. Init => IInv
    BY InitKeeps
  <1>2. IInv /\ [Next]_vars => IInv'
    BY NextKeeps
  <1>3. ASSUME IInv, [Next]_vars PROVE Kept
    <2> SUFFICES ASSUME pc # "idle", NEW o \in board.live \ board'.live PROVE board.label[o] = Own
      OBVIOUS
    <2>1. CASE Destroying /\ board'.live = board.live \ {NextVictim}
      <3>1. o = NextVictim /\ NextVictim \in OwnRows(board)
        BY <1>3, <2>1, VictimOwn
      <3> QED BY <3>1 DEF OwnRows
    <2>2. CASE pc = "unwind" /\ journal # << >> /\ board'.live = board.live \ {LastRow}
      <3>1. o = LastRow /\ LastRow \in ToSet(journal)
        BY <1>3, <2>2, UnwindingFacts
      <3> QED BY <1>3, <3>1 DEF IInv, Recorded
    <2> QED BY <1>3, <2>1, <2>2, Lost
  <1>4. ASSUME IInv, [Next]_vars PROVE Made
    <2> SUFFICES ASSUME outcome' = "rolledBack", pc = "unwind",
                        NEW o \in board'.live \ before.live, NEW p \in board'.live \ before.live,
                        board'.label[o] = Own, board'.label[p] = Own
                 PROVE  o = p
      OBVIOUS
    <2>1. journal = << >> /\ unreversed = {} /\ board' = board
      BY <1>4, CalledClean
    <2>2. o \in Unrecorded /\ p \in Unrecorded
      BY <2>1 DEF OwnRows, ToSet, Unrecorded
    <2>3. \A x, y \in Unrecorded : x = y
      BY <1>4 DEF IInv, Recorded
    <2> QED BY <2>2, <2>3
  <1>5. IInv /\ [Next]_vars => [Kept]_vars /\ [Made]_vars
    BY <1>3, <1>4
  <1>6. Spec => [][Kept]_vars /\ [][Made]_vars
    <2> HIDE DEF Kept, Made
    <2> QED BY <1>1, <1>2, <1>5, PTL DEF Spec
  <1> QED BY <1>6 DEF RemovesItsOwn, StrangersKept, RollbackRemovesMade
=============================================================================
