-------------------------- MODULE PoolCustody_proofs --------------------------
(***************************************************************************)
(* Theorems of pool custody, for any boot layout, custody, requirement,    *)
(* transport and number of disturbances.                                   *)
(***************************************************************************)
EXTENDS PoolCustody, FiniteSetTheorems, FunctionTheorems, TLAPS

-----------------------------------------------------------------------------
(* Counting. *)

LEMMA SomeLeast ==
  ASSUME NEW S, S \subseteq Nat, S # {}
  PROVE  \E i \in S : \A j \in S : ~(j < i)
  <1>1. PICK i \in S : \A j \in S : <<j, i>> \notin OpToRel(<, Nat)
    BY WFMin, NatLessThanWellFounded, Zenon
  <1> QED BY <1>1, Zenon DEF OpToRel

LEMMA LeastIn ==
  ASSUME NEW S, S \subseteq Nat, S # {}
  PROVE  Least1(S) \in S
  <1>1. PICK i \in S : \A j \in S : ~(j < i)
    BY SomeLeast
  <1>2. \A j \in S : i <= j
    BY <1>1
  <1> QED BY <1>2 DEF Least1

\* A set split in two.
LEMMA Split ==
  ASSUME NEW S, IsFiniteSet(S), NEW T, T \subseteq S
  PROVE  /\ IsFiniteSet(T) /\ IsFiniteSet(S \ T)
         /\ Cardinality(S) \in Nat /\ Cardinality(T) \in Nat /\ Cardinality(S \ T) \in Nat
         /\ Cardinality(S) = Cardinality(T) + Cardinality(S \ T)
  <1>1. T = S \cap T
    OBVIOUS
  <1>2. IsFiniteSet(T)
    BY FS_Subset
  <1>4. IsFiniteSet(S \ T) /\ Cardinality(S \ T) = Cardinality(S) - Cardinality(S \cap T)
    BY FS_Difference
  <1>3. Cardinality(S) \in Nat /\ Cardinality(T) \in Nat /\ Cardinality(S \ T) \in Nat
    BY <1>2, <1>4, FS_CardinalityType
  <1> QED BY <1>1, <1>2, <1>3, <1>4

\* The row of an object.
RowOf(i) == [object |-> i, label |-> label[i], plugged |-> i \in plugged,
             drawn |-> how.reads /\ i \in drawn]

LEMMA RowsCounted ==
  ASSUME NEW A, IsFiniteSet(A)
  PROVE  /\ IsFiniteSet({RowOf(i) : i \in A})
         /\ Cardinality({RowOf(i) : i \in A}) = Cardinality(A)
  <1> DEFINE B == {RowOf(i) : i \in A}
             f == [i \in A |-> RowOf(i)]
  <1>1. f \in [A -> B]
    OBVIOUS
  <1>2. \A i, j \in A : f[i] = f[j] => i = j
    BY DEF RowOf
  <1>3. \A r \in B : \E i \in A : f[i] = r
    OBVIOUS
  <1>4. f \in Bijection(A, B)
    BY <1>1, <1>2, <1>3, Fun_IsBij
  <1>5. ExistsBijection(A, B)
    BY <1>4, Fun_ExistsBij
  <1> QED BY <1>5, FS_Bijection

-----------------------------------------------------------------------------
(* The census. *)

\* What the transport shows as drawn, and the objects by label and draw.
InUse == IF how.reads THEN drawn ELSE {}
FreeOf(name) == {i \in live \ InUse : label[i] = name}
TakenOf(name) == {i \in live \cap InUse : label[i] = name}

Typed ==
  /\ live \subseteq Ids /\ plugged \subseteq live
  /\ label \in [Ids -> Labels]
  /\ how \in [scope : {"root", "child"}, kind : {"counted", "observed", "unknown"},
             reads : BOOLEAN]

LEMMA CensusCounts ==
  ASSUME Typed
  PROVE  /\ IsFiniteSet(live) /\ IsFiniteSet(Rows)
         /\ Census.population = Cardinality(live)
         /\ Census.free = Cardinality(live \ InUse)
         /\ Census.drawn = Cardinality(live \cap InUse)
         /\ Census.born = Cardinality(FreeOf(""))
         /\ Census.born_drawn = Cardinality(TakenOf(""))
         /\ Census.foreign_free = Cardinality(FreeOf("theirs"))
         /\ Census.foreign_drawn = Cardinality(TakenOf("theirs"))
         /\ Census.foreign_free_plugged = Cardinality(FreeOf("theirs") \cap plugged)
         /\ Census.labeled_plugged = Cardinality({i \in plugged : label[i] # ""})
  <1>1. IsFiniteSet(live) /\ \A A \in SUBSET live : IsFiniteSet(A)
    BY CustodyAssumption, FS_Subset DEF Typed
  <1>2. /\ Rows = {RowOf(i) : i \in live}
        /\ \A i : /\ RowOf(i).label = label[i] /\ (RowOf(i).plugged <=> i \in plugged)
                  /\ (RowOf(i).drawn <=> i \in InUse)
                  /\ RowOf(i).drawn \in BOOLEAN
    BY DEF Rows, RowOf, InUse, Typed
  <1>3. \A i \in live : /\ label[i] \in {"", "ours", "theirs"}
                         /\ (Membership(RowOf(i)) = "DplBorn" <=> label[i] = "")
                         /\ (Membership(RowOf(i)) = "Foreign" <=> label[i] = "theirs")
    BY <1>2 DEF Membership, LabelMembership, Typed, Labels
  <1>4. \A A \in SUBSET live : Count({RowOf(i) : i \in A}) = Cardinality(A)
    BY <1>1, RowsCounted DEF Count
  <1>5. /\ {r \in Rows : ~r.drawn} = {RowOf(i) : i \in live \ InUse}
        /\ {r \in Rows : r.drawn} = {RowOf(i) : i \in live \cap InUse}
    BY <1>2
  <1>6. /\ Of(Rows, "DplBorn", FALSE) = {RowOf(i) : i \in FreeOf("")}
        /\ Of(Rows, "DplBorn", TRUE) = {RowOf(i) : i \in TakenOf("")}
    BY <1>2, <1>3, ZenonT(40) DEF Of, FreeOf, TakenOf
  <1>7. /\ Of(Rows, "Foreign", FALSE) = {RowOf(i) : i \in FreeOf("theirs")}
        /\ Of(Rows, "Foreign", TRUE) = {RowOf(i) : i \in TakenOf("theirs")}
    BY <1>2, <1>3, ZenonT(40) DEF Of, FreeOf, TakenOf
  <1>8. {r \in Of(Rows, "Foreign", FALSE) : r.plugged} = {RowOf(i) : i \in FreeOf("theirs") \cap plugged}
    BY <1>2, <1>7
  <1>9. {r \in Rows : r.plugged /\ r.label # ""} = {RowOf(i) : i \in {j \in plugged : label[j] # ""}}
    <2>1. \A j \in live : RowOf(j).plugged /\ RowOf(j).label # "" <=> j \in plugged /\ label[j] # ""
      BY <1>2
    <2>2. plugged \subseteq live
      BY DEF Typed
    <2>3. {r \in Rows : r.plugged /\ r.label # ""} =
            {RowOf(i) : i \in {j \in live : j \in plugged /\ label[j] # ""}}
      BY <1>2, <2>1
    <2>4. {j \in live : j \in plugged /\ label[j] # ""} = {j \in plugged : label[j] # ""}
      BY <2>2
    <2> QED BY <2>3, <2>4
  <1>10. /\ live \ InUse \in SUBSET live /\ live \cap InUse \in SUBSET live
         /\ \A name : FreeOf(name) \in SUBSET live /\ TakenOf(name) \in SUBSET live
         /\ FreeOf("theirs") \cap plugged \in SUBSET live
         /\ {j \in plugged : label[j] # ""} \in SUBSET live
    BY DEF FreeOf, TakenOf, Typed
  <1>11. IsFiniteSet(Rows)
    BY <1>1, <1>2, RowsCounted
  <1>12. /\ Census.population = Cardinality(live)
         /\ Census.free = Cardinality(live \ InUse)
         /\ Census.drawn = Cardinality(live \cap InUse)
    BY <1>2, <1>4, <1>5, <1>10 DEF Census, CensusOf
  <1>13. /\ Census.born = Cardinality(FreeOf(""))
         /\ Census.born_drawn = Cardinality(TakenOf(""))
         /\ Census.foreign_free = Cardinality(FreeOf("theirs"))
         /\ Census.foreign_drawn = Cardinality(TakenOf("theirs"))
    BY <1>4, <1>6, <1>7, <1>10 DEF Census, CensusOf
  <1>14. /\ Census.foreign_free_plugged = Cardinality(FreeOf("theirs") \cap plugged)
         /\ Census.labeled_plugged = Cardinality({i \in plugged : label[i] # ""})
    BY <1>4, <1>8, <1>9, <1>10 DEF Census, CensusOf
  <1> QED BY <1>1, <1>11, <1>12, <1>13, <1>14

\* What the counts of a census say once it is known which groups they count:
\* own free, own taken, foreign free unplugged.
LEMMA CensusSums ==
  ASSUME NEW c, NEW of \in Nat, NEW ot \in Nat, NEW fu \in Nat,
         c.born \in Nat, c.born_drawn \in Nat, c.foreign_free \in Nat, c.foreign_drawn \in Nat,
         c.foreign_free_plugged \in Nat,
         c.free = c.born + (c.foreign_free + of),
         c.drawn = c.born_drawn + (c.foreign_drawn + ot),
         c.population = c.free + c.drawn,
         c.foreign_free = c.foreign_free_plugged + fu
  PROVE  /\ c.population \in Nat
         /\ ManagedOf(c) = of + ot /\ ManagedFree(c) = of
         /\ ForeignFreeUnplugged(c) = fu /\ (c.foreign_free = 0 => fu = 0)
         /\ DrawnManaged(c) \in Nat /\ (c.drawn = 0 => DrawnManaged(c) = 0)
  <1>1. c.population \in Nat /\ c.free \in Nat /\ c.drawn \in Nat
    OBVIOUS
  <1>2. ManagedOf(c) = of + ot
    BY <1>1 DEF ManagedOf
  <1>3. ManagedFree(c) = of
    BY <1>1 DEF ManagedFree
  <1>4. ForeignFreeUnplugged(c) = fu /\ (c.foreign_free = 0 => fu = 0)
    BY <1>1 DEF ForeignFreeUnplugged
  <1>5. DrawnManaged(c) \in Nat /\ (c.drawn = 0 => DrawnManaged(c) = 0)
    BY <1>1 DEF DrawnManaged
  <1> QED BY <1>1, <1>2, <1>3, <1>4, <1>5

\* The counts of the objects themselves.
LEMMA ObjectCounts ==
  ASSUME Typed
  PROVE  /\ Census.free + Census.drawn = Census.population
         /\ ManagedOf(Census) = Cardinality(Ours)
         /\ ManagedFree(Census) = Cardinality(Ours \ InUse)
         /\ ForeignFreeUnplugged(Census) = Cardinality(Theirs \ (plugged \cup InUse))
         /\ DrawnManaged(Census) \in Nat /\ Census.population \in Nat
         /\ Census.foreign_free \in Nat /\ Census.foreign_free_plugged \in Nat
         /\ Census.foreign_free = 0 => ForeignFreeUnplugged(Census) = 0
         /\ IsFiniteSet(Ours) /\ Cardinality(Ours) \in Nat /\ Cardinality(Ours \ InUse) \in Nat
         /\ Cardinality(Theirs \ (plugged \cup InUse)) \in Nat
         /\ ~how.reads => DrawnManaged(Census) = 0
  <1> DEFINE free == live \ InUse
             taken == live \cap InUse
  <1>1. IsFiniteSet(live)
    BY CensusCounts
  <1>2. /\ taken = live \ free /\ free \subseteq live
        /\ free \ FreeOf("") = FreeOf("ours") \cup FreeOf("theirs")
        /\ taken \ TakenOf("") = TakenOf("ours") \cup TakenOf("theirs")
        /\ (free \ FreeOf("")) \ FreeOf("theirs") = FreeOf("ours")
        /\ (taken \ TakenOf("")) \ TakenOf("theirs") = TakenOf("ours")
        /\ FreeOf("") \subseteq free /\ FreeOf("theirs") \subseteq free \ FreeOf("")
        /\ TakenOf("") \subseteq taken /\ TakenOf("theirs") \subseteq taken \ TakenOf("")
    BY DEF FreeOf, TakenOf, Typed, Labels
  <1>3. /\ FreeOf("ours") = Ours \ InUse /\ TakenOf("ours") = Ours \ FreeOf("ours")
        /\ FreeOf("ours") \subseteq Ours /\ Ours \subseteq live
        /\ FreeOf("theirs") \ (FreeOf("theirs") \cap plugged) = Theirs \ (plugged \cup InUse)
        /\ FreeOf("theirs") \cap plugged \subseteq FreeOf("theirs")
    BY DEF FreeOf, TakenOf, Ours, Theirs
  <1>4. /\ IsFiniteSet(free) /\ IsFiniteSet(taken) /\ IsFiniteSet(Ours)
        /\ Cardinality(free) \in Nat /\ Cardinality(taken) \in Nat /\ Cardinality(live) \in Nat
        /\ Cardinality(live) = Cardinality(free) + Cardinality(taken)
    <2>1. /\ IsFiniteSet(free) /\ IsFiniteSet(live \ free)
          /\ Cardinality(free) \in Nat /\ Cardinality(live \ free) \in Nat /\ Cardinality(live) \in Nat
          /\ Cardinality(live) = Cardinality(free) + Cardinality(live \ free)
      BY <1>1, <1>2, Split
    <2>2. IsFiniteSet(Ours)
      BY <1>1, <1>3, Split
    <2> QED BY <1>2, <2>1, <2>2
  <1>5. /\ IsFiniteSet(free \ FreeOf("")) /\ Cardinality(free \ FreeOf("")) \in Nat
        /\ Cardinality(FreeOf("")) \in Nat
        /\ Cardinality(free) = Cardinality(FreeOf("")) + Cardinality(free \ FreeOf(""))
    BY <1>2, <1>4, Split
  <1>6. /\ IsFiniteSet(FreeOf("theirs")) /\ Cardinality(FreeOf("theirs")) \in Nat
        /\ Cardinality(FreeOf("ours")) \in Nat
        /\ Cardinality(free \ FreeOf("")) = Cardinality(FreeOf("theirs")) + Cardinality(FreeOf("ours"))
    BY <1>2, <1>5, Split, ZenonT(40)
  <1>7. /\ IsFiniteSet(taken \ TakenOf("")) /\ Cardinality(taken \ TakenOf("")) \in Nat
        /\ Cardinality(TakenOf("")) \in Nat
        /\ Cardinality(taken) = Cardinality(TakenOf("")) + Cardinality(taken \ TakenOf(""))
    BY <1>2, <1>4, Split
  <1>8. /\ Cardinality(TakenOf("theirs")) \in Nat /\ Cardinality(TakenOf("ours")) \in Nat
        /\ Cardinality(taken \ TakenOf("")) = Cardinality(TakenOf("theirs")) + Cardinality(TakenOf("ours"))
    BY <1>2, <1>7, Split, ZenonT(40)
  <1>9. /\ Cardinality(Ours) \in Nat
        /\ Cardinality(Ours) = Cardinality(FreeOf("ours")) + Cardinality(TakenOf("ours"))
    <2>1. /\ Cardinality(Ours) \in Nat
          /\ Cardinality(Ours) = Cardinality(FreeOf("ours")) + Cardinality(Ours \ FreeOf("ours"))
      BY <1>3, <1>4, Split
    <2> QED BY <1>3, <2>1
  <1>10. /\ Cardinality(FreeOf("theirs") \cap plugged) \in Nat
         /\ Cardinality(Theirs \ (plugged \cup InUse)) \in Nat
         /\ Cardinality(FreeOf("theirs")) = Cardinality(FreeOf("theirs") \cap plugged)
                                            + Cardinality(Theirs \ (plugged \cup InUse))
    <2> DEFINE all == FreeOf("theirs")
               part == FreeOf("theirs") \cap plugged
    <2>1. /\ Cardinality(part) \in Nat /\ Cardinality(all \ part) \in Nat
          /\ Cardinality(all) = Cardinality(part) + Cardinality(all \ part)
      <3> HIDE DEF all, part
      <3> QED BY <1>3, <1>6, Split DEF all, part
    <2> QED BY <1>3, <2>1
  <1>11. ~how.reads => taken = {}
    BY DEF InUse
  <1>12. taken = {} => Cardinality(taken) = 0
    BY FS_EmptySet
  <1>13. ~how.reads => Cardinality(taken) = 0
    BY <1>11, <1>12
  <1>c. /\ Census.population = Cardinality(live) /\ Census.free = Cardinality(free)
        /\ Census.drawn = Cardinality(taken)
        /\ Census.born = Cardinality(FreeOf("")) /\ Census.born_drawn = Cardinality(TakenOf(""))
        /\ Census.foreign_free = Cardinality(FreeOf("theirs"))
        /\ Census.foreign_drawn = Cardinality(TakenOf("theirs"))
        /\ Census.foreign_free_plugged = Cardinality(FreeOf("theirs") \cap plugged)
    BY CensusCounts
  <1>14. /\ Census.free = Census.born + (Census.foreign_free + Cardinality(FreeOf("ours")))
         /\ Census.drawn = Census.born_drawn + (Census.foreign_drawn + Cardinality(TakenOf("ours")))
         /\ Census.population = Census.free + Census.drawn
         /\ Census.foreign_free = Census.foreign_free_plugged
                                   + Cardinality(Theirs \ (plugged \cup InUse))
    BY <1>4, <1>5, <1>6, <1>7, <1>8, <1>10, <1>c
  <1>15. /\ Census.born \in Nat /\ Census.born_drawn \in Nat /\ Census.foreign_free \in Nat
         /\ Census.foreign_drawn \in Nat /\ Census.foreign_free_plugged \in Nat
    BY <1>5, <1>6, <1>7, <1>8, <1>10, <1>c
  <1>16. /\ Census.population \in Nat
         /\ ManagedOf(Census) = Cardinality(FreeOf("ours")) + Cardinality(TakenOf("ours"))
         /\ ManagedFree(Census) = Cardinality(FreeOf("ours"))
         /\ ForeignFreeUnplugged(Census) = Cardinality(Theirs \ (plugged \cup InUse))
         /\ (Census.foreign_free = 0 => Cardinality(Theirs \ (plugged \cup InUse)) = 0)
         /\ DrawnManaged(Census) \in Nat /\ (Census.drawn = 0 => DrawnManaged(Census) = 0)
    <2> DEFINE c == Census
               of == Cardinality(FreeOf("ours"))
               ot == Cardinality(TakenOf("ours"))
               fu == Cardinality(Theirs \ (plugged \cup InUse))
    <2>1. of \in Nat /\ ot \in Nat /\ fu \in Nat
      BY <1>6, <1>8, <1>10
    <2> HIDE DEF c, of, ot, fu
    <2>2. /\ c.free = c.born + (c.foreign_free + of)
          /\ c.drawn = c.born_drawn + (c.foreign_drawn + ot)
          /\ c.population = c.free + c.drawn
          /\ c.foreign_free = c.foreign_free_plugged + fu
          /\ c.born \in Nat /\ c.born_drawn \in Nat /\ c.foreign_free \in Nat
          /\ c.foreign_drawn \in Nat /\ c.foreign_free_plugged \in Nat
      BY <1>14, <1>15 DEF c, of, ot, fu
    <2>3. /\ c.population \in Nat
          /\ ManagedOf(c) = of + ot /\ ManagedFree(c) = of
          /\ ForeignFreeUnplugged(c) = fu /\ (c.foreign_free = 0 => fu = 0)
          /\ DrawnManaged(c) \in Nat /\ (c.drawn = 0 => DrawnManaged(c) = 0)
      BY <2>1, <2>2, CensusSums
    <2> QED BY <2>3 DEF c, of, ot, fu
  <1> QED BY <1>3, <1>4, <1>6, <1>9, <1>10, <1>13, <1>14, <1>15, <1>16, <1>c

-----------------------------------------------------------------------------
(* What the planner emits. *)

\* Nothing is owed beyond the need, on either side of it.
LEMMA DeltasNeeded ==
  ASSUME NEW c, NEW requirement \in Nat, NEW ceiling, NEW scope \in {"root", "child"},
         ManagedOf(c) \in Nat, ManagedFree(c) \in Nat, ForeignFreeUnplugged(c) \in Nat,
         c.population \in Nat, c.foreign_free \in Nat,
         c.foreign_free = 0 => ForeignFreeUnplugged(c) = 0,
         ceiling.kind \in {"counted", "observed", "unknown"}, ceiling.n \in Nat,
         NEW d, d = Deltas(c, requirement, ceiling, scope)
  PROVE  /\ d \in [create : Nat, destroy : Nat, prune : Nat]
         /\ d.create > 0 => ManagedOf(c) + d.create <= requirement
         /\ d.destroy > 0 => scope = "child" /\ ManagedOf(c) >= requirement + d.destroy
         /\ d.create > 0 <=> GrowEnabled(c, requirement, ceiling)
         /\ scope = "child" => (d.destroy > 0 <=> ShrinkEnabled(c, requirement))
         /\ ConvergedAt(c, requirement) => IsEmpty(d)
  <1> USE DEF AtLeastZero, Least
  <1> DEFINE n == ManagedOf(c)
             m == ManagedFree(c)
             create == CreateOf(c, requirement, ceiling)
             destroy == IF scope = "child" THEN DestroyOf(c, requirement) ELSE 0
             prune == IF scope = "child" THEN c.foreign_free ELSE ForeignFreeUnplugged(c)
  <1>1. d = [create |-> create, destroy |-> destroy, prune |-> prune]
    BY DEF Deltas
  <1>2. n \in Nat /\ m \in Nat
    OBVIOUS
  <1> HIDE DEF n, m
  <1>3. /\ create \in Nat
        /\ create > 0 => n + create <= requirement
        /\ create > 0 <=> n < requirement /\ AdmitsCreate(c, ceiling)
        /\ n = requirement => create = 0
    <2>1. CASE ceiling.kind = "counted"
      BY <1>2, <2>1 DEF CreateOf, AdmitsCreate, n
    <2>2. CASE ceiling.kind = "observed"
      BY <1>2, <2>2 DEF CreateOf, AdmitsCreate, n
    <2>3. CASE ceiling.kind = "unknown"
      BY <1>2, <2>3 DEF CreateOf, AdmitsCreate, n
    <2> QED BY <2>1, <2>2, <2>3
  <1>4. /\ destroy \in Nat
        /\ destroy > 0 => scope = "child" /\ n >= requirement + destroy
        /\ scope = "child" => (destroy > 0 <=> n > requirement /\ m > 0)
        /\ n = requirement => destroy = 0
    BY <1>2 DEF DestroyOf, n, m
  <1>5. prune \in Nat /\ (c.foreign_free = 0 => prune = 0)
    OBVIOUS
  <1> HIDE DEF create, destroy, prune
  <1>6. d.create = create /\ d.destroy = destroy /\ d.prune = prune
    BY <1>1
  <1> QED BY <1>1, <1>3, <1>4, <1>5, <1>6 DEF GrowEnabled, ShrinkEnabled, ConvergedAt, IsEmpty, n, m

\* The same of the census of the objects that stand.
LEMMA DeltasOwed ==
  ASSUME Typed, units \in Nat, required \in Nat,
         NEW d, d = Deltas(Census, required, Ceiling, how.scope)
  PROVE  /\ d \in [create : Nat, destroy : Nat, prune : Nat]
         /\ d.create > 0 => Cardinality(Ours) + d.create <= required
         /\ d.destroy > 0 => how.scope = "child" /\ Cardinality(Ours) >= required + d.destroy
         /\ d.create > 0 <=> GrowEnabled(Census, required, Ceiling)
         /\ how.scope = "child" => (d.destroy > 0 <=> ShrinkEnabled(Census, required))
         /\ ConvergedAt(Census, required) => IsEmpty(d)
  <1>1. /\ ManagedOf(Census) \in Nat /\ ManagedFree(Census) \in Nat
        /\ ForeignFreeUnplugged(Census) \in Nat
        /\ Census.population \in Nat /\ Census.foreign_free \in Nat
        /\ Census.foreign_free = 0 => ForeignFreeUnplugged(Census) = 0
        /\ ManagedOf(Census) = Cardinality(Ours)
    BY ObjectCounts
  <1>2. Ceiling.kind \in {"counted", "observed", "unknown"} /\ Ceiling.n \in Nat
    BY CustodyAssumption DEF Ceiling, Typed
  <1>3. how.scope \in {"root", "child"}
    BY DEF Typed
  <1>4. /\ d \in [create : Nat, destroy : Nat, prune : Nat]
        /\ d.create > 0 => ManagedOf(Census) + d.create <= required
        /\ d.destroy > 0 => how.scope = "child" /\ ManagedOf(Census) >= required + d.destroy
        /\ d.create > 0 <=> GrowEnabled(Census, required, Ceiling)
        /\ how.scope = "child" => (d.destroy > 0 <=> ShrinkEnabled(Census, required))
        /\ ConvergedAt(Census, required) => IsEmpty(d)
    BY <1>1, <1>2, <1>3, DeltasNeeded
  <1> QED BY <1>1, <1>4

\* The arithmetic says what the objects say.
LEMMA CensusTrue == ASSUME Typed, units \in Nat, required \in Nat PROVE CensusExact
  <1>1. \A d : d = Deltas(Census, required, Ceiling, how.scope) =>
          /\ d.create > 0 <=> GrowEnabled(Census, required, Ceiling)
          /\ how.scope = "child" => (d.destroy > 0 <=> ShrinkEnabled(Census, required))
          /\ ConvergedAt(Census, required) => IsEmpty(d)
    BY DeltasOwed
  <1>2. RebootRequired(Census.labeled_plugged, required) <=>
          Cardinality({i \in plugged : label[i] # ""}) > required
    BY CensusCounts DEF RebootRequired
  <1> QED BY <1>1, <1>2, ObjectCounts DEF CensusExact, InUse

-----------------------------------------------------------------------------
(* The inductive invariant. *)

Shape ==
  /\ Typed /\ TypeOK /\ required \in Nat
  /\ pc \in {"idle", "grow", "plug", "stamp", "destroy", "reap", "prune", "reapForeign", "readBack"}
  /\ seen \subseteq [object : Ids, label : Labels, plugged : BOOLEAN, drawn : BOOLEAN]
  /\ IsFiniteSet(seen)
  /\ pc = "idle" => todo = Nothing
  /\ pc \in {"idle", "grow", "plug", "stamp"} => seen = {} /\ tried = {}

\* The boot layout stands, under no name.
BootStands == \A i \in Born : i \in plugged /\ label[i] = ""

\* What is between two spawns: one to be named, or one already unplugged.
InHand ==
  /\ pc \in {"plug", "stamp"} =>
       hand \in live /\ label[hand] = "" /\ hand \notin Born /\ todo.create > 0
  /\ pc = "reap" =>
       hand \in live \ plugged /\ hand \in tried /\ label[hand] = "ours" /\ todo.destroy > 0
  /\ pc = "reapForeign" =>
       hand \in live \ plugged /\ hand \in tried /\ label[hand] = "theirs" /\ todo.prune > 0

\* Of the rows the victims are picked from, those not yet tried are still true,
\* but for the draw: an ordinal given back is one that was tried.
ReadingFresh ==
  \A r \in seen : r.object \notin tried =>
    r.object \in live /\ r.label = label[r.object] /\ (r.plugged <=> r.object \in plugged)

Structure == Shape /\ HeldStands /\ BootStands /\ InHand /\ ReadingFresh

\* The MC's units are the ones not given out.
Conserved == units + Cardinality(live) = UnitsAtBoot + Cardinality(Born \cup Left)

\* Blind to the draw, a reading shows every managed object free, and all of them.
BlindReading ==
  ~how.reads =>
    /\ \A r \in seen : ~r.drawn
    /\ pc \in {"destroy", "reap"} =>
         \A i \in Ours : \E r \in seen : r.object = i /\ r.label = "ours"

OwedIsNeeded ==
  /\ todo.create > 0 => Cardinality(Ours) + todo.create <= required
  /\ todo.destroy > 0 => how.scope = "child" /\ Cardinality(Ours) >= required + todo.destroy

RefusalExceeds == refusal # Nobody /\ ~how.reads => refusal > required

CInv == Structure /\ Conserved /\ BlindReading /\ OwedIsNeeded /\ RefusalExceeds

-----------------------------------------------------------------------------
(* One step. *)

\* There is an ordinal for every unit.
LEMMA RoomLeft ==
  ASSUME Shape, Conserved, units > 0
  PROVE  Least1(Ids \ live) \in Ids \ live
  <1> DEFINE boot == Born \cup Left
  <1>1. /\ IsFiniteSet(Ids) /\ boot \subseteq Ids /\ live \subseteq Ids /\ units \in Nat
        /\ UnitsAtBoot \in Nat /\ UnitsAtBoot <= Cardinality(Ids \ boot)
    BY CustodyAssumption DEF Shape, Typed, TypeOK
  <1>2. /\ Cardinality(Ids) = Cardinality(boot) + Cardinality(Ids \ boot)
        /\ Cardinality(boot) \in Nat /\ Cardinality(Ids \ boot) \in Nat
    <2> HIDE DEF boot
    <2> QED BY <1>1, Split
  <1>3. Cardinality(Ids) = Cardinality(live) + Cardinality(Ids \ live) /\ Cardinality(live) \in Nat
    BY <1>1, Split
  <1>4. units + Cardinality(live) = UnitsAtBoot + Cardinality(boot)
    BY DEF Conserved
  <1>5. Cardinality(Ids \ live) # 0
    <2> HIDE DEF boot
    <2> QED BY <1>1, <1>2, <1>3, <1>4
  <1>6. Ids \ live # {}
    BY <1>5, FS_EmptySet
  <1> QED BY <1>6, LeastIn, CustodyAssumption

\* How a pass ends, moves on, or acts.
LEMMA StepKinds ==
  ASSUME [Next]_vars
  PROVE  \/ /\ UNCHANGED <<world, how, required>> /\ pc # "idle"
            /\ End(Nobody) \/ (pc = "readBack" /\ End(refusal))
         \/ JudgeRefuses \/ JudgeEmpty \/ Judge
         \/ CreateSpawn \/ PlugSpawn \/ StampSpawn \/ Grown
         \/ DestroyUnplugs \/ DestroySkipsHeld \/ ReapManaged \/ Destroyed
         \/ PruneUnplugs \/ ReapForeign \/ Pruned
         \/ (\E i \in Ids : Draw(i) \/ Return(i)) \/ Intrude \/ Retarget
         \/ UNCHANGED vars
  <1>1. CASE CreateRefused \/ PruneFailsHeld \/ ReadBack \/ Fail
    BY <1>1 DEF CreateRefused, PruneFailsHeld, ReadBack, Fail
  <1> QED BY <1>1 DEF Next, Pass, Spawn

LEMMA EndStep ==
  ASSUME Structure, UNCHANGED <<world, how, required>>, NEW n \in Nat \cup {Nobody}, End(n)
  PROVE  Structure'
  <1>1. /\ pc' = "idle" /\ seen' = {} /\ tried' = {} /\ hand' = Nobody
        /\ todo' = Nothing /\ refusal' = n
    BY DEF End
  <1>2. /\ live' = live /\ plugged' = plugged /\ drawn' = drawn /\ label' = label
        /\ units' = units /\ how' = how /\ required' = required
    BY DEF world
  <1>3. IsFiniteSet({})
    BY FS_EmptySet
  <1>4. Shape'
    BY <1>1, <1>2, <1>3 DEF Structure, Shape, Typed, TypeOK, Nothing
  <1> QED BY <1>1, <1>2, <1>4 DEF Structure, HeldStands, BootStands, InHand, ReadingFresh

\* Victims are rows of the reading, still true, of what the scope may take.
LEMMA VictimFacts ==
  ASSUME Structure, NEW membership \in {"Managed", "Foreign"}, NEW r \in Victims(membership)
  PROVE  /\ r \in seen /\ ~r.drawn /\ r.object \in live /\ r.object \notin tried
         /\ r.label = label[r.object] /\ (r.plugged <=> r.object \in plugged)
         /\ label[r.object] = IF membership = "Managed" THEN "ours" ELSE "theirs"
         /\ membership = "Foreign" /\ how.scope = "root" => ~r.plugged
  <1>1. r \in seen /\ ~r.drawn /\ Membership(r) = membership /\ r.object \notin tried
    BY DEF Victims, SelectReclaimable
  <1>2. r.label \in Labels
    BY <1>1 DEF Structure, Shape
  <1>3. r.label = IF membership = "Managed" THEN "ours" ELSE "theirs"
    BY <1>1, <1>2 DEF Membership, LabelMembership, Labels
  <1>4. membership = "Foreign" /\ how.scope = "root" => ~r.plugged
    BY <1>1 DEF Victims, SelectReclaimable, PrunableAt
  <1> QED BY <1>1, <1>3, <1>4 DEF Structure, ReadingFresh

LEMMA UnplugStep ==
  ASSUME Structure, NEW membership \in {"Managed", "Foreign"}, NEW r \in Victims(membership),
         ~Held(r), NEW next, Unplug(r, next), next = IF membership = "Managed" THEN "reap" ELSE "reapForeign",
         IF membership = "Managed" THEN todo.destroy > 0 ELSE todo.prune > 0,
         pc \in {"destroy", "prune"}
  PROVE  Structure'
  <1>1. /\ r \in seen /\ r.object \in live /\ r.object \notin tried /\ r.object \in Ids
        /\ (r.plugged <=> r.object \in plugged)
        /\ label[r.object] = IF membership = "Managed" THEN "ours" ELSE "theirs"
    BY VictimFacts DEF Structure, Shape, Typed
  <1>2. /\ plugged' = plugged \ {r.object} /\ hand' = r.object /\ tried' = tried \cup {r.object}
        /\ pc' = next /\ refusal' = refusal
        /\ UNCHANGED <<live, drawn, label, units, how, required, todo, seen>>
    BY <1>1 DEF Unplug, Goto
  <1>3. r.object \notin drawn
    BY <1>1 DEF Held, Structure, HeldStands
  <1>4. Shape'
    BY <1>1, <1>2 DEF Structure, Shape, Typed, TypeOK
  <1>5. HeldStands' /\ BootStands'
    BY <1>1, <1>2, <1>3 DEF Structure, HeldStands, BootStands
  <1>6. InHand'
    BY <1>1, <1>2 DEF InHand
  <1>7. ReadingFresh'
    BY <1>2 DEF Structure, ReadingFresh
  <1> QED BY <1>4, <1>5, <1>6, <1>7 DEF Structure

\* An object is gone that nothing holds and that was tried.
LEMMA ReapStep ==
  ASSUME Structure, NEW next, Reap(next), pc \in {"reap", "reapForeign"}, next \in {"destroy", "prune"},
         todo' \in [create : Nat, destroy : Nat, prune : Nat]
  PROVE  Structure'
  <1>1. /\ live' = live \ {hand} /\ units' = units + 1 /\ hand' = Nobody
        /\ pc' = next /\ refusal' = refusal
        /\ UNCHANGED <<plugged, drawn, label, how, required, seen, tried>>
    BY DEF Reap, Goto
  <1>2. hand \in live \ plugged /\ hand \in tried
    BY DEF Structure, InHand
  <1>3. Shape'
    BY <1>1, <1>2 DEF Structure, Shape, Typed, TypeOK
  <1>4. HeldStands' /\ BootStands' /\ InHand'
    BY <1>1, <1>2 DEF Structure, HeldStands, BootStands, InHand
  <1>5. ReadingFresh'
    BY <1>1, <1>2 DEF Structure, ReadingFresh
  <1> QED BY <1>3, <1>4, <1>5 DEF Structure

\* How many of the victims tried still stand.
LEMMA SurvivorsCount ==
  ASSUME Shape
  PROVE  /\ Survivors \in Nat
         /\ Survivors = Cardinality({r \in SelectReclaimable("Managed") : r.object \in live})
         /\ IsFiniteSet({r \in SelectReclaimable("Managed") : r.object \in live})
  <1> DEFINE all == SelectReclaimable("Managed")
             gone == {r \in all : r.object \notin live}
             left == {r \in all : r.object \in live}
  <1>1. IsFiniteSet(all)
    BY FS_Subset DEF SelectReclaimable, Shape
  <1>2. gone \subseteq all /\ left = all \ gone
    OBVIOUS
  <1>3. /\ IsFiniteSet(all \ gone)
        /\ Cardinality(all) \in Nat /\ Cardinality(gone) \in Nat /\ Cardinality(all \ gone) \in Nat
        /\ Cardinality(all) = Cardinality(gone) + Cardinality(all \ gone)
    <2> HIDE DEF all, gone
    <2> QED BY <1>1, <1>2, Split
  <1>4. Survivors = Cardinality(all) - Cardinality(gone)
    BY DEF Survivors
  <1> HIDE DEF all, gone, left
  <1>5. Survivors = Cardinality(left) /\ Survivors \in Nat /\ IsFiniteSet(left)
    BY <1>2, <1>3, <1>4
  <1> QED BY <1>5 DEF left, all

LEMMA StructureStep ==
  ASSUME Structure, Conserved, [Next]_vars
  PROVE  Structure'
  <1>1. CASE UNCHANGED <<world, how, required>> /\ End(Nobody)
    BY <1>1, EndStep
  <1>2. CASE UNCHANGED <<world, how, required>> /\ End(refusal)
    BY <1>2, EndStep DEF Structure, Shape, TypeOK
  <1>3. CASE JudgeRefuses
    <2>1. DrawnManaged(Census) \in Nat
      BY ObjectCounts DEF Structure, Shape
    <2> QED BY <1>3, <2>1, EndStep DEF JudgeRefuses
  <1>4. CASE JudgeEmpty
    BY <1>4, EndStep DEF JudgeEmpty
  <1>5. CASE Judge
    <2>1. /\ UNCHANGED <<live, plugged, drawn, label, units, how, required, seen, tried, hand>>
          /\ pc = "idle" /\ pc' = "grow" /\ refusal' = Nobody
          /\ todo' = Deltas(Census, required, Ceiling, how.scope)
      BY <1>5 DEF Judge, world
    <2>2. todo' \in [create : Nat, destroy : Nat, prune : Nat]
      BY <2>1, DeltasOwed DEF Structure, Shape, TypeOK
    <2>3. Shape'
      BY <2>1, <2>2 DEF Structure, Shape, Typed, TypeOK
    <2> QED BY <2>1, <2>3 DEF Structure, HeldStands, BootStands, InHand, ReadingFresh
  <1>6. CASE CreateSpawn
    <2>1. /\ pc = "grow" /\ todo.create > 0 /\ units > 0
          /\ hand' = Least1(Ids \ live) /\ live' = live \cup {hand'} /\ units' = units - 1
          /\ label' = [label EXCEPT ![hand'] = ""] /\ pc' = "plug" /\ refusal' = refusal
          /\ UNCHANGED <<plugged, drawn, how, required, todo, seen, tried>>
      BY <1>6 DEF CreateSpawn, Goto
    <2>2. hand' \in Ids \ live
      BY <2>1, RoomLeft DEF Structure
    <2>l. label' \in [Ids -> Labels] /\ label'[hand'] = "" /\ \A j \in Ids : j # hand' => label'[j] = label[j]
      <3>1. Typed /\ hand' \in Ids
        BY <2>2 DEF Structure, Shape
      <3>2. label' = [label EXCEPT ![hand'] = ""]
        BY <2>1
      <3> QED BY <3>1, <3>2 DEF Typed, Labels
    <2>n. units' \in Nat
      <3>1. units' = units - 1 /\ units > 0
        BY <2>1
      <3>2. units \in Nat
        BY DEF Structure, Shape, TypeOK
      <3> QED BY <3>1, <3>2
    <2>u. units' \in Nat /\ live' \subseteq Ids /\ hand' \in live' /\ plugged' \subseteq live'
      BY <2>1, <2>2, <2>n DEF Structure, Shape, Typed
    <2>3. Shape'
      BY <2>1, <2>l, <2>u DEF Structure, Shape, Typed, TypeOK
    <2>4. HeldStands' /\ BootStands' /\ InHand'
      BY <2>1, <2>2, <2>l, CustodyAssumption DEF Structure, Shape, Typed, HeldStands, BootStands, InHand
    <2>5. ReadingFresh'
      BY <2>1 DEF Structure, Shape, ReadingFresh
    <2> QED BY <2>3, <2>4, <2>5 DEF Structure
  <1>7. CASE PlugSpawn
    <2>1. /\ pc = "plug" /\ plugged' = plugged \cup {hand} /\ pc' = "stamp" /\ refusal' = refusal
          /\ UNCHANGED <<live, drawn, label, units, how, required, todo, seen, tried, hand>>
      BY <1>7 DEF PlugSpawn, Goto, pass
    <2>2. Shape'
      BY <2>1 DEF Structure, Shape, Typed, TypeOK, InHand
    <2>3. HeldStands' /\ BootStands' /\ InHand' /\ ReadingFresh'
      BY <2>1 DEF Structure, Shape, HeldStands, BootStands, InHand, ReadingFresh
    <2> QED BY <2>2, <2>3 DEF Structure
  <1>8. CASE StampSpawn
    <2>1. /\ pc = "stamp" /\ label' = [label EXCEPT ![hand] = "ours"]
          /\ todo' = [todo EXCEPT !.create = @ - 1] /\ hand' = Nobody
          /\ pc' = "grow" /\ refusal' = refusal
          /\ UNCHANGED <<live, plugged, drawn, units, how, required, seen, tried>>
      BY <1>8 DEF StampSpawn, Goto
    <2>h. hand \in live /\ hand \in Ids /\ hand \notin Born /\ todo.create > 0
      BY <2>1 DEF Structure, InHand, Shape, Typed
    <2>l. label' \in [Ids -> Labels] /\ \A j \in Ids : j # hand => label'[j] = label[j]
      <3>1. Typed /\ hand \in Ids
        BY <2>h DEF Structure, Shape
      <3>2. label' = [label EXCEPT ![hand] = "ours"]
        BY <2>1
      <3> QED BY <3>1, <3>2 DEF Typed, Labels
    <2>t. todo' \in [create : Nat, destroy : Nat, prune : Nat]
      BY <2>1, <2>h DEF Structure, Shape, TypeOK
    <2>2. Shape'
      BY <2>1, <2>l, <2>t DEF Structure, Shape, Typed, TypeOK
    <2>3. HeldStands' /\ BootStands' /\ InHand' /\ ReadingFresh'
      BY <2>1, <2>h, <2>l, CustodyAssumption DEF Structure, Shape, Typed, HeldStands, BootStands, InHand, ReadingFresh
    <2> QED BY <2>2, <2>3 DEF Structure
  <1>9. CASE Grown
    <2>1. /\ pc = "grow" /\ pc' \in {"readBack", "destroy"} /\ seen' \in {seen, Rows} /\ refusal' = refusal
          /\ UNCHANGED <<live, plugged, drawn, label, units, how, required, todo, tried, hand>>
      BY <1>9 DEF Grown, Goto, world
    <2>r. /\ Rows = {RowOf(i) : i \in live}
          /\ \A i : /\ RowOf(i).object = i /\ RowOf(i).label = label[i]
                    /\ RowOf(i).plugged <=> i \in plugged
      BY DEF Rows, RowOf
    <2>b. \A i : (i \in plugged) \in BOOLEAN /\ (how.reads /\ i \in drawn) \in BOOLEAN
      OBVIOUS
    <2>d. \A i \in live : i \in Ids /\ label[i] \in Labels
      BY DEF Structure, Shape, Typed
    <2>e. \A i \in live : RowOf(i) \in [object : Ids, label : Labels, plugged : BOOLEAN, drawn : BOOLEAN]
      BY <2>b, <2>d DEF RowOf
    <2>2. Rows \subseteq [object : Ids, label : Labels, plugged : BOOLEAN, drawn : BOOLEAN]
      BY <2>r, <2>e
    <2>3. IsFiniteSet(Rows)
      BY CensusCounts DEF Structure, Shape
    <2>4. Shape'
      BY <2>1, <2>2, <2>3 DEF Structure, Shape, Typed, TypeOK
    <2>5. \A r \in Rows : r.object \in live /\ r.label = label[r.object] /\ (r.plugged <=> r.object \in plugged)
      BY <2>r
    <2>6. ReadingFresh'
      BY <2>1, <2>5 DEF Structure, ReadingFresh
    <2>7. HeldStands' /\ BootStands' /\ InHand'
      BY <2>1 DEF Structure, HeldStands, BootStands, InHand
    <2> QED BY <2>4, <2>6, <2>7 DEF Structure
  <1>10. CASE DestroyUnplugs
    BY <1>10, UnplugStep DEF DestroyUnplugs
  <1>11. CASE PruneUnplugs
    BY <1>11, UnplugStep DEF PruneUnplugs
  <1>12. CASE DestroySkipsHeld
    <2>1. /\ tried \subseteq tried' /\ pc' = "destroy" /\ refusal' = refusal /\ pc = "destroy"
          /\ UNCHANGED <<live, plugged, drawn, label, units, how, required, todo, seen, hand>>
      BY <1>12 DEF DestroySkipsHeld, Goto, world
    <2>2. Shape'
      BY <2>1 DEF Structure, Shape, Typed, TypeOK
    <2> QED BY <2>1, <2>2 DEF Structure, HeldStands, BootStands, InHand, ReadingFresh
  <1>13. CASE ReapManaged
    <2>1. todo' \in [create : Nat, destroy : Nat, prune : Nat]
      BY <1>13 DEF ReapManaged, Structure, Shape, TypeOK, InHand
    <2> QED BY <1>13, <2>1, ReapStep DEF ReapManaged
  <1>14. CASE ReapForeign
    <2>1. todo' \in [create : Nat, destroy : Nat, prune : Nat]
      BY <1>14 DEF ReapForeign, Structure, Shape, TypeOK, InHand
    <2> QED BY <1>14, <2>1, ReapStep DEF ReapForeign
  <1>15. CASE Destroyed \/ Pruned
    <2>1. /\ pc' \in {"prune", "readBack"} /\ refusal' \in {refusal, Survivors} /\ pc \in {"destroy", "prune"}
          /\ UNCHANGED <<live, plugged, drawn, label, units, how, required, todo, seen, tried, hand>>
      BY <1>15 DEF Destroyed, Pruned, Goto, world, pass
    <2>2. Shape'
      BY <2>1, SurvivorsCount DEF Structure, Shape, Typed, TypeOK
    <2> QED BY <2>1, <2>2 DEF Structure, HeldStands, BootStands, InHand, ReadingFresh
  <1>16. ASSUME NEW i \in Ids, Draw(i) \/ Return(i) PROVE Structure'
    <2>1. /\ drawn' \subseteq drawn \cup (IF i \in plugged THEN {i} ELSE {})
          /\ UNCHANGED <<live, plugged, label, units, how, required, pc, todo, seen, tried, hand, refusal>>
      BY <1>16 DEF Draw, Return, pass
    <2>2. Shape'
      BY <2>1 DEF Structure, Shape, Typed, TypeOK
    <2> QED BY <2>1, <2>2 DEF Structure, Shape, Typed, HeldStands, BootStands, InHand, ReadingFresh
  <1>17. CASE Intrude
    <2> DEFINE i == Least1(Ids \ live)
    <2>1. /\ units > 0 /\ units' = units - 1 /\ live' = live \cup {i}
          /\ plugged' \in {plugged, plugged \cup {i}}
          /\ label' = [label EXCEPT ![i] = "theirs"]
          /\ UNCHANGED <<drawn, how, required, pc, todo, seen, tried, hand, refusal>>
      BY <1>17 DEF Intrude, pass
    <2>2. i \in Ids \ live
      BY <2>1, RoomLeft DEF Structure
    <2> HIDE DEF i
    <2>l. label' \in [Ids -> Labels] /\ \A j \in Ids : j # i => label'[j] = label[j]
      <3>1. Typed /\ i \in Ids
        BY <2>2 DEF Structure, Shape
      <3>2. label' = [label EXCEPT ![i] = "theirs"]
        BY <2>1
      <3> QED BY <3>1, <3>2 DEF Typed, Labels
    <2>u. /\ units' \in Nat /\ live' \subseteq Ids /\ plugged' \subseteq live' /\ live \subseteq live'
          /\ plugged \subseteq plugged' /\ plugged' \subseteq plugged \cup {i}
      BY <2>1, <2>2 DEF Structure, Shape, Typed, TypeOK
    <2>3. Shape'
      BY <2>1, <2>l, <2>u DEF Structure, Shape, Typed, TypeOK
    <2>i. i \notin live /\ Born \subseteq live /\ plugged \subseteq live /\ live \subseteq Ids
      BY <2>2 DEF Structure, Shape, Typed, BootStands
    <2>4. HeldStands' /\ BootStands'
      BY <2>1, <2>2, <2>l, <2>u, <2>i DEF Structure, HeldStands, BootStands
    <2>6. InHand'
      BY <2>1, <2>2, <2>l, <2>u, <2>i DEF Structure, InHand
    <2>5. ReadingFresh'
      BY <2>1, <2>2, <2>l, <2>u, <2>i DEF Structure, ReadingFresh
    <2> QED BY <2>3, <2>4, <2>5, <2>6 DEF Structure
  <1>18. CASE Retarget
    <2>1. /\ required' \in Nat /\ refusal' = Nobody
          /\ UNCHANGED <<live, plugged, drawn, label, units, how, pc, todo, seen, tried, hand>>
      BY <1>18, CustodyAssumption DEF Retarget, world, pass
    <2>2. Shape'
      BY <2>1 DEF Structure, Shape, Typed, TypeOK
    <2> QED BY <2>1, <2>2 DEF Structure, HeldStands, BootStands, InHand, ReadingFresh
  <1>19. CASE UNCHANGED vars
    <2>1. Shape'
      BY <1>19 DEF Structure, Shape, Typed, TypeOK, vars
    <2> QED BY <1>19, <2>1 DEF vars, Structure, HeldStands, BootStands, InHand, ReadingFresh
  <1> QED BY <1>1, <1>2, <1>3, <1>4, <1>5, <1>6, <1>7, <1>8, <1>9, <1>10, <1>11, <1>12, <1>13,
             <1>14, <1>15, <1>16, <1>17, <1>18, <1>19, StepKinds

-----------------------------------------------------------------------------
(* What a step does to the objects that stand, and to ours among them. *)

LEMMA LiveStep ==
  ASSUME Structure, Conserved, [Next]_vars
  PROVE  \/ live' = live /\ units' = units
         \/ /\ units' = units - 1 /\ \E i \in Ids \ live : live' = live \cup {i}
         \/ /\ units' = units + 1 /\ \E i \in live : live' = live \ {i}
  <1>1. CASE CreateSpawn
    <2>1. units > 0 /\ live' = live \cup {Least1(Ids \ live)} /\ units' = units - 1
      BY <1>1 DEF CreateSpawn
    <2> QED BY <2>1, RoomLeft DEF Structure
  <1>2. CASE Intrude
    <2>1. units > 0 /\ live' = live \cup {Least1(Ids \ live)} /\ units' = units - 1
      BY <1>2 DEF Intrude
    <2> QED BY <2>1, RoomLeft DEF Structure
  <1>3. CASE ReapManaged \/ ReapForeign
    BY <1>3 DEF ReapManaged, ReapForeign, Reap, Structure, InHand
  <1>4. CASE PlugSpawn \/ StampSpawn \/ DestroyUnplugs \/ PruneUnplugs \/ Grown \/ Judge
    BY <1>4 DEF PlugSpawn, StampSpawn, DestroyUnplugs, PruneUnplugs, Unplug, Grown, Judge, world
  <1>5. CASE JudgeRefuses \/ JudgeEmpty \/ DestroySkipsHeld \/ Destroyed \/ Pruned \/ Retarget
    BY <1>5 DEF JudgeRefuses, JudgeEmpty, DestroySkipsHeld, Destroyed, Pruned, Retarget, world
  <1>6. CASE UNCHANGED <<world, how, required>> \/ UNCHANGED vars \/ \E i \in Ids : Draw(i) \/ Return(i)
    BY <1>6 DEF world, vars, Draw, Return
  <1> QED BY <1>1, <1>2, <1>3, <1>4, <1>5, <1>6, StepKinds

LEMMA ConservedStep == ASSUME Structure, Conserved, [Next]_vars PROVE Conserved'
  <1>1. IsFiniteSet(live) /\ Cardinality(live) \in Nat /\ units \in Nat
    BY CensusCounts, FS_CardinalityType DEF Structure, Shape, TypeOK
  <1>2. units' + Cardinality(live') = units + Cardinality(live)
    <2>1. CASE live' = live /\ units' = units
      BY <2>1
    <2>2. ASSUME NEW i \in Ids \ live, live' = live \cup {i}, units' = units - 1
          PROVE  units' + Cardinality(live') = units + Cardinality(live)
      <3>1. Cardinality(live') = Cardinality(live) + 1
        BY <1>1, <2>2, FS_AddElement
      <3> QED BY <1>1, <2>2, <3>1
    <2>3. ASSUME NEW i \in live, live' = live \ {i}, units' = units + 1
          PROVE  units' + Cardinality(live') = units + Cardinality(live)
      <3>1. Cardinality(live') = Cardinality(live) - 1
        BY <1>1, <2>3, FS_RemoveElement
      <3> QED BY <1>1, <2>3, <3>1
    <2> QED BY <2>1, <2>2, <2>3, LiveStep
  <1> QED BY <1>2 DEF Conserved

\* Ours changes by the object in hand, and only where a pass owes the change.
LEMMA OursStep ==
  ASSUME Structure, Conserved, [Next]_vars
  PROVE  \/ Ours' = Ours
         \/ /\ StampSpawn /\ hand \notin Ours /\ Ours' = Ours \cup {hand} /\ todo.create > 0
         \/ /\ ReapManaged /\ hand \in Ours /\ Ours' = Ours \ {hand} /\ todo.destroy > 0
  <1>1. CASE CreateSpawn
    <2>1. /\ units > 0 /\ hand' = Least1(Ids \ live) /\ live' = live \cup {hand'}
          /\ label' = [label EXCEPT ![hand'] = ""]
      BY <1>1 DEF CreateSpawn
    <2>2. hand' \in Ids \ live
      BY <2>1, RoomLeft DEF Structure
    <2>3. label'[hand'] = "" /\ \A j \in live : label'[j] = label[j]
      BY <2>1, <2>2 DEF Structure, Shape, Typed
    <2> QED BY <2>1, <2>2, <2>3 DEF Ours
  <1>2. CASE Intrude
    <2> DEFINE i == Least1(Ids \ live)
    <2>1. /\ units > 0 /\ live' = live \cup {i} /\ label' = [label EXCEPT ![i] = "theirs"]
      BY <1>2 DEF Intrude
    <2>2. i \in Ids \ live
      BY <2>1, RoomLeft DEF Structure
    <2> HIDE DEF i
    <2>3. label'[i] = "theirs" /\ \A j \in live : label'[j] = label[j]
      BY <2>1, <2>2 DEF Structure, Shape, Typed
    <2> QED BY <2>1, <2>2, <2>3 DEF Ours
  <1>3. CASE StampSpawn
    <2>1. /\ hand \in live /\ label[hand] = "" /\ live' = live /\ todo.create > 0
          /\ label' = [label EXCEPT ![hand] = "ours"]
      BY <1>3 DEF StampSpawn, Structure, InHand
    <2>2. label'[hand] = "ours" /\ \A j \in live : j # hand => label'[j] = label[j]
      BY <2>1 DEF Structure, Shape, Typed
    <2> QED BY <1>3, <2>1, <2>2 DEF Ours
  <1>4. CASE ReapManaged
    BY <1>4 DEF ReapManaged, Reap, Structure, InHand, Ours
  <1>5. CASE ReapForeign
    <2>1. label[hand] = "theirs" /\ live' = live \ {hand} /\ label' = label
      BY <1>5 DEF ReapForeign, Reap, Structure, InHand
    <2> QED BY <2>1 DEF Ours
  <1>6. CASE live' = live /\ label' = label
    BY <1>6 DEF Ours
  <1>7. CASE PlugSpawn \/ DestroyUnplugs \/ PruneUnplugs \/ Grown \/ Judge
    BY <1>6, <1>7 DEF PlugSpawn, DestroyUnplugs, PruneUnplugs, Unplug, Grown, Judge, world
  <1>8. CASE JudgeRefuses \/ JudgeEmpty \/ DestroySkipsHeld \/ Destroyed \/ Pruned \/ Retarget
    BY <1>6, <1>8 DEF JudgeRefuses, JudgeEmpty, DestroySkipsHeld, Destroyed, Pruned, Retarget, world
  <1>9. CASE UNCHANGED <<world, how, required>> \/ UNCHANGED vars \/ \E i \in Ids : Draw(i) \/ Return(i)
    BY <1>6, <1>9 DEF world, vars, Draw, Return
  <1> QED BY <1>1, <1>2, <1>3, <1>4, <1>5, <1>7, <1>8, <1>9, StepKinds

\* The same as counts.
LEMMA CountStep ==
  ASSUME Structure, Conserved, [Next]_vars
  PROVE  /\ Cardinality(Ours) \in Nat
         /\ \/ Cardinality(Ours') = Cardinality(Ours)
            \/ /\ Cardinality(Ours') = Cardinality(Ours) + 1 /\ todo.create > 0
               /\ todo' = [todo EXCEPT !.create = @ - 1]
               /\ required' = required /\ how' = how
            \/ /\ Cardinality(Ours') = Cardinality(Ours) - 1 /\ todo.destroy > 0
               /\ todo' = [todo EXCEPT !.destroy = @ - 1]
               /\ required' = required /\ how' = how
  <1>1. IsFiniteSet(Ours) /\ Cardinality(Ours) \in Nat
    BY ObjectCounts DEF Structure, Shape
  <1>2. CASE Ours' = Ours
    BY <1>1, <1>2
  <1>3. CASE StampSpawn /\ hand \notin Ours /\ Ours' = Ours \cup {hand} /\ todo.create > 0
    <2>1. Cardinality(Ours') = Cardinality(Ours) + 1
      BY <1>1, <1>3, FS_AddElement
    <2> QED BY <1>1, <1>3, <2>1 DEF StampSpawn
  <1>4. CASE ReapManaged /\ hand \in Ours /\ Ours' = Ours \ {hand} /\ todo.destroy > 0
    <2>1. Cardinality(Ours') = Cardinality(Ours) - 1
      BY <1>1, <1>4, FS_RemoveElement
    <2> QED BY <1>1, <1>4, <2>1 DEF ReapManaged, Reap
  <1> QED BY <1>2, <1>3, <1>4, OursStep

\* What is owed only falls between two judgements.
LEMMA TodoStep ==
  ASSUME Structure, [Next]_vars
  PROVE  \/ todo' = Nothing
         \/ Judge
         \/ /\ required' = required /\ how' = how
            /\ todo'.create <= todo.create /\ todo'.destroy <= todo.destroy
  <1>1. /\ todo \in [create : Nat, destroy : Nat, prune : Nat]
        /\ todo.create \in Nat /\ todo.destroy \in Nat
    BY DEF Structure, Shape, TypeOK
  <1>2. CASE End(Nobody) \/ End(refusal)
    BY <1>2 DEF End
  <1>3. CASE JudgeRefuses \/ JudgeEmpty
    BY <1>3 DEF JudgeRefuses, JudgeEmpty, End
  <1>4. CASE Retarget
    BY <1>4 DEF Retarget, pass, Structure, Shape
  <1>5. CASE StampSpawn
    <2>1. todo' = [todo EXCEPT !.create = @ - 1] /\ required' = required /\ how' = how
      BY <1>5 DEF StampSpawn
    <2>2. todo'.create = todo.create - 1 /\ todo'.destroy = todo.destroy
      BY <1>1, <2>1
    <2> QED BY <1>1, <2>1, <2>2
  <1>6. CASE ReapManaged
    <2>1. todo' = [todo EXCEPT !.destroy = @ - 1] /\ required' = required /\ how' = how
      BY <1>6 DEF ReapManaged, Reap
    <2>2. todo'.create = todo.create /\ todo'.destroy = todo.destroy - 1
      BY <1>1, <2>1
    <2> QED BY <1>1, <2>1, <2>2
  <1>7. CASE ReapForeign
    <2>1. todo' = [todo EXCEPT !.prune = @ - 1] /\ required' = required /\ how' = how
      BY <1>7 DEF ReapForeign, Reap
    <2>2. todo'.create = todo.create /\ todo'.destroy = todo.destroy
      BY <1>1, <2>1
    <2> QED BY <1>1, <2>1, <2>2
  <1>8. CASE todo' = todo /\ required' = required /\ how' = how
    BY <1>1, <1>8
  <1>9. CASE CreateSpawn \/ PlugSpawn \/ Grown \/ DestroyUnplugs \/ PruneUnplugs
    BY <1>8, <1>9 DEF CreateSpawn, PlugSpawn, Grown, DestroyUnplugs, PruneUnplugs, Unplug, pass
  <1>10. CASE DestroySkipsHeld \/ Destroyed \/ Pruned \/ Intrude \/ UNCHANGED vars
    BY <1>8, <1>10 DEF DestroySkipsHeld, Destroyed, Pruned, Intrude, vars, pass
  <1>11. CASE \E i \in Ids : Draw(i) \/ Return(i)
    BY <1>8, <1>11 DEF Draw, Return, pass
  <1> QED BY <1>2, <1>3, <1>4, <1>5, <1>6, <1>7, <1>9, <1>10, <1>11, StepKinds

LEMMA OwedStep ==
  ASSUME Structure, Conserved, OwedIsNeeded, [Next]_vars
  PROVE  OwedIsNeeded'
  <1>1. /\ todo \in [create : Nat, destroy : Nat, prune : Nat]
        /\ todo.create \in Nat /\ todo.destroy \in Nat /\ required \in Nat
    BY DEF Structure, Shape, TypeOK
  <1>2. Cardinality(Ours) \in Nat
    BY CountStep
  <1>3. CASE todo' = Nothing
    BY <1>3 DEF OwedIsNeeded, Nothing
  <1>4. CASE Judge
    <2>1. /\ pc = "idle" /\ todo' = Deltas(Census, required, Ceiling, how.scope)
          /\ required' = required /\ how' = how /\ live' = live /\ label' = label
      BY <1>4 DEF Judge, world
    <2>2. Ours' = Ours
      BY <2>1 DEF Ours
    <2>3. /\ todo'.create > 0 => Cardinality(Ours) + todo'.create <= required
          /\ todo'.destroy > 0 => how.scope = "child" /\ Cardinality(Ours) >= required + todo'.destroy
      BY <2>1, DeltasOwed DEF Structure, Shape, TypeOK
    <2> QED BY <2>1, <2>2, <2>3 DEF OwedIsNeeded
  <1>5. ASSUME required' = required, how' = how, Cardinality(Ours') = Cardinality(Ours),
               todo'.create <= todo.create, todo'.destroy <= todo.destroy
        PROVE  OwedIsNeeded'
    <2>1. Structure'
      BY StructureStep
    <2>2. todo'.create \in Nat /\ todo'.destroy \in Nat
      BY <2>1 DEF Structure, Shape, TypeOK
    <2> QED BY <1>1, <1>2, <1>5, <2>2 DEF OwedIsNeeded
  <1>6. CASE /\ Cardinality(Ours') = Cardinality(Ours) + 1 /\ todo.create > 0
             /\ todo' = [todo EXCEPT !.create = @ - 1]
             /\ required' = required /\ how' = how
    <2>1. todo'.create = todo.create - 1 /\ todo'.destroy = todo.destroy
      BY <1>1, <1>6
    <2>2. Cardinality(Ours') + todo'.create <= required'
      BY <1>1, <1>2, <1>6, <2>1 DEF OwedIsNeeded
    <2>3. todo'.destroy > 0 => how'.scope = "child" /\ Cardinality(Ours') >= required' + todo'.destroy
      BY <1>1, <1>2, <1>6, <2>1 DEF OwedIsNeeded
    <2> QED BY <2>2, <2>3 DEF OwedIsNeeded
  <1>7. CASE /\ Cardinality(Ours') = Cardinality(Ours) - 1 /\ todo.destroy > 0
             /\ todo' = [todo EXCEPT !.destroy = @ - 1]
             /\ required' = required /\ how' = how
    <2>1. todo'.create = todo.create /\ todo'.destroy = todo.destroy - 1
      BY <1>1, <1>7
    <2>2. todo'.create > 0 => Cardinality(Ours') + todo'.create <= required'
      BY <1>1, <1>2, <1>7, <2>1 DEF OwedIsNeeded
    <2>3. how'.scope = "child" /\ Cardinality(Ours') >= required' + todo'.destroy
      BY <1>1, <1>2, <1>7, <2>1 DEF OwedIsNeeded
    <2> QED BY <2>2, <2>3 DEF OwedIsNeeded
  <1> QED BY <1>3, <1>4, <1>5, <1>6, <1>7, CountStep, TodoStep

\* Where a reading comes from and how long it is used.
LEMMA ReadingStep ==
  ASSUME [Next]_vars
  PROVE  /\ how' = how
         /\ seen' \in {{}, seen, Rows}
         /\ pc' \in {"destroy", "reap"} =>
              \/ pc = "grow" /\ seen' = Rows /\ live' = live /\ label' = label
              \/ pc \in {"destroy", "reap"} /\ seen' = seen
  <1>1. CASE UNCHANGED <<world, how, required>> /\ (End(Nobody) \/ End(refusal))
    BY <1>1 DEF End
  <1>2. CASE JudgeRefuses \/ JudgeEmpty \/ Judge
    BY <1>2 DEF JudgeRefuses, JudgeEmpty, Judge, End
  <1>3. CASE CreateSpawn \/ PlugSpawn \/ StampSpawn
    BY <1>3 DEF CreateSpawn, PlugSpawn, StampSpawn, Goto, pass
  <1>4. CASE Grown
    BY <1>4 DEF Grown, Goto, world
  <1>5. CASE DestroyUnplugs \/ PruneUnplugs
    BY <1>5 DEF DestroyUnplugs, PruneUnplugs, Unplug, Goto
  <1>6. CASE ReapManaged \/ ReapForeign
    BY <1>6 DEF ReapManaged, ReapForeign, Reap, Goto
  <1>7. CASE DestroySkipsHeld \/ Destroyed \/ Pruned
    BY <1>7 DEF DestroySkipsHeld, Destroyed, Pruned, Goto, pass
  <1>8. CASE Intrude \/ Retarget \/ UNCHANGED vars
    BY <1>8 DEF Intrude, Retarget, vars, pass
  <1>9. CASE \E i \in Ids : Draw(i) \/ Return(i)
    BY <1>9 DEF Draw, Return, pass
  <1> QED BY <1>1, <1>2, <1>3, <1>4, <1>5, <1>6, <1>7, <1>8, <1>9, StepKinds

LEMMA BlindStep ==
  ASSUME Structure, Conserved, BlindReading, [Next]_vars
  PROVE  BlindReading'
  <1> SUFFICES ASSUME ~how.reads
               PROVE  /\ \A r \in seen' : ~r.drawn
                      /\ pc' \in {"destroy", "reap"} =>
                           \A i \in Ours' : \E r \in seen' : r.object = i /\ r.label = "ours"
    BY ReadingStep DEF BlindReading
  <1>1. /\ \A r \in Rows : ~r.drawn
        /\ \A i \in live : \E r \in Rows : r.object = i /\ r.label = label[i]
    <2>1. /\ Rows = {RowOf(i) : i \in live}
          /\ \A i : RowOf(i).object = i /\ RowOf(i).label = label[i] /\ ~RowOf(i).drawn
      BY DEF Rows, RowOf
    <2> QED BY <2>1
  <1>2. \A r \in seen' : ~r.drawn
    BY <1>1, ReadingStep DEF BlindReading
  <1>3. ASSUME pc = "grow", seen' = Rows, live' = live, label' = label
        PROVE  \A i \in Ours' : \E r \in seen' : r.object = i /\ r.label = "ours"
    BY <1>1, <1>3 DEF Ours
  <1>4. ASSUME pc \in {"destroy", "reap"}, seen' = seen
        PROVE  \A i \in Ours' : \E r \in seen' : r.object = i /\ r.label = "ours"
    <2>1. ~StampSpawn
      BY <1>4 DEF StampSpawn
    <2>2. Ours' \subseteq Ours
      BY <2>1, OursStep
    <2> QED BY <1>4, <2>2 DEF BlindReading
  <1> QED BY <1>2, <1>3, <1>4, ReadingStep

\* Where every managed object was tried and stands in the way, the survivors
\* are all of ours.
LEMMA AllSurvive ==
  ASSUME Structure, BlindReading, ~how.reads, pc = "destroy", Victims("Managed") = {}
  PROVE  Survivors >= Cardinality(Ours)
  <1> DEFINE left == {r \in SelectReclaimable("Managed") : r.object \in live}
             rowOf == [i \in Ours |-> CHOOSE r \in left : r.object = i]
  <1>1. Survivors = Cardinality(left) /\ IsFiniteSet(left)
    BY SurvivorsCount DEF Structure
  <1>2. \A i \in Ours : \E r \in left : r.object = i
    <2>1. TAKE i \in Ours
    <2>2. PICK r \in seen : r.object = i /\ r.label = "ours"
      BY DEF BlindReading
    <2>3. Membership(r) = "Managed"
      BY <2>2 DEF Membership, LabelMembership
    <2>4. r \in SelectReclaimable("Managed")
      BY <2>3 DEF SelectReclaimable, PrunableAt, BlindReading
    <2> QED BY <2>2, <2>4 DEF Ours
  <1>3. \A i \in Ours : rowOf[i] \in left /\ rowOf[i].object = i
    BY <1>2
  <1> HIDE DEF left
  <1>4. rowOf \in [Ours -> left]
    BY <1>3
  <1>5. rowOf \in Injection(Ours, left)
    BY <1>3, <1>4, Fun_IsInj
  <1>6. Cardinality(Ours) <= Cardinality(left)
    BY <1>1, <1>5, FS_Injection, Fun_ExistsInj
  <1>7. Cardinality(Ours) \in Nat /\ Survivors \in Nat
    BY ObjectCounts, SurvivorsCount DEF Structure, Shape
  <1> QED BY <1>1, <1>6, <1>7

LEMMA RefusalStep ==
  ASSUME Structure, Conserved, BlindReading, OwedIsNeeded, RefusalExceeds, [Next]_vars
  PROVE  RefusalExceeds'
  <1> SUFFICES ASSUME ~how.reads, refusal' # Nobody PROVE refusal' > required'
    BY ReadingStep DEF RefusalExceeds
  <1>1. CASE refusal' = refusal /\ required' = required
    BY <1>1 DEF RefusalExceeds
  <1>2. CASE JudgeRefuses
    <2>1. DrawnManaged(Census) = 0 /\ required \in Nat
      BY ObjectCounts DEF Structure, Shape
    <2> QED BY <1>2, <2>1 DEF JudgeRefuses, Refuses, ShrinksBelowDraw
  <1>3. CASE Destroyed
    <2>1. CASE todo.destroy > 0
      <3>1. pc = "destroy" /\ Victims("Managed") = {} /\ refusal' = Survivors /\ required' = required
        BY <1>3, <2>1 DEF Destroyed
      <3>2. Survivors >= Cardinality(Ours)
        BY <3>1, AllSurvive
      <3>3. Cardinality(Ours) >= required + todo.destroy
        BY <2>1 DEF OwedIsNeeded
      <3>4. Cardinality(Ours) \in Nat /\ Survivors \in Nat /\ required \in Nat /\ todo.destroy \in Nat
        BY ObjectCounts, SurvivorsCount DEF Structure, Shape, TypeOK
      <3> QED BY <2>1, <3>1, <3>2, <3>3, <3>4
    <2>2. CASE ~(todo.destroy > 0)
      BY <1>1, <1>3, <2>2 DEF Destroyed
    <2> QED BY <2>1, <2>2
  <1>4. CASE UNCHANGED <<world, how, required>> /\ (End(Nobody) \/ End(refusal))
    BY <1>1, <1>4 DEF End
  <1>5. CASE JudgeEmpty \/ Judge \/ Retarget
    BY <1>5 DEF JudgeEmpty, Judge, Retarget, End
  <1>6. CASE CreateSpawn \/ PlugSpawn \/ StampSpawn \/ Grown \/ DestroyUnplugs \/ PruneUnplugs
    BY <1>1, <1>6 DEF CreateSpawn, PlugSpawn, StampSpawn, Grown, DestroyUnplugs, PruneUnplugs, Unplug, Goto
  <1>7. CASE ReapManaged \/ ReapForeign \/ DestroySkipsHeld \/ Pruned \/ Intrude \/ UNCHANGED vars
    BY <1>1, <1>7 DEF ReapManaged, ReapForeign, Reap, DestroySkipsHeld, Pruned, Intrude, Goto, vars
  <1>8. CASE \E i \in Ids : Draw(i) \/ Return(i)
    BY <1>1, <1>8 DEF Draw, Return
  <1> QED BY <1>2, <1>3, <1>4, <1>5, <1>6, <1>7, <1>8, StepKinds

-----------------------------------------------------------------------------
(* The theorems. *)

LEMMA CInit == Init => CInv
  <1> SUFFICES ASSUME Init PROVE CInv
    OBVIOUS
  <1>1. /\ live = Born \cup Left /\ plugged = live /\ drawn = {} /\ units = UnitsAtBoot
        /\ label = [i \in Ids |-> IF i \in Left THEN "theirs" ELSE ""]
        /\ pc = "idle" /\ refusal = Nobody /\ todo = Nothing
        /\ seen = {} /\ tried = {} /\ hand = Nobody /\ required \in Requirements
    BY DEF Init
  <1>2. how \in [scope : {"root", "child"}, kind : {"counted", "observed", "unknown"}, reads : BOOLEAN]
    <2>1. PICK c \in Custodies, reads \in Readings :
            how = [scope |-> c.scope, kind |-> c.kind, reads |-> reads]
      BY DEF Init
    <2>2. c.scope \in {"root", "child"} /\ c.kind \in {"counted", "observed", "unknown"} /\ reads \in BOOLEAN
      BY CustodyAssumption
    <2> QED BY <2>1, <2>2
  <1>3. label \in [Ids -> Labels]
    BY <1>1 DEF Labels
  <1>4. Typed
    BY <1>1, <1>2, <1>3, CustodyAssumption DEF Typed
  <1>5. IsFiniteSet({})
    BY FS_EmptySet
  <1>6. required \in Nat /\ units \in Nat
    BY <1>1, CustodyAssumption
  <1>7. Shape
    BY <1>1, <1>3, <1>4, <1>5, <1>6 DEF Shape, Typed, TypeOK, Nothing
  <1>8. HeldStands /\ BootStands /\ InHand /\ ReadingFresh
    BY <1>1, CustodyAssumption DEF HeldStands, BootStands, InHand, ReadingFresh
  <1>9. Conserved
    BY <1>1 DEF Conserved
  <1>10. BlindReading /\ OwedIsNeeded /\ RefusalExceeds
    <2>1. todo.create = 0 /\ todo.destroy = 0
      BY <1>1 DEF Nothing
    <2>2. OwedIsNeeded
      BY <2>1 DEF OwedIsNeeded
    <2> QED BY <1>1, <2>2 DEF BlindReading, RefusalExceeds
  <1> QED BY <1>7, <1>8, <1>9, <1>10 DEF CInv, Structure

LEMMA CNext == CInv /\ [Next]_vars => CInv'
  BY StructureStep, ConservedStep, BlindStep, OwedStep, RefusalStep DEF CInv

LEMMA CInductive == Spec => []CInv
  BY CInit, CNext, PTL DEF Spec

\* At every moment of every pass, between any two spawns, whatever consumers
\* draw and return, other tools create, operators ask and processes survive:
\* the census arithmetic says what the objects say, what is held stands plugged,
\* and a refusal the probes discovered names a count the requirement is below.
THEOREM CustodyKept == Spec => []CustodyInv
  <1>1. CInv => CustodyInv
    <2> SUFFICES ASSUME CInv PROVE CustodyInv
      OBVIOUS
    <2>1. TypeOK /\ HeldStands
      BY DEF CInv, Structure, Shape
    <2>2. CensusExact
      BY CensusTrue DEF CInv, Structure, Shape, TypeOK
    <2>3. RefusalAddsUp
      BY DEF CInv, RefusalExceeds, RefusalAddsUp
    <2> QED BY <2>1, <2>2, <2>3 DEF CustodyInv
  <1> QED BY <1>1, CInductive, PTL

LEMMA CountsByNeed ==
  ASSUME CInv, [Next]_vars
  PROVE  /\ Cardinality(Ours') > Cardinality(Ours) => Cardinality(Ours') <= required
         /\ Cardinality(Ours') < Cardinality(Ours) => Cardinality(Ours) > required
  <1>1. required \in Nat /\ todo.create \in Nat /\ todo.destroy \in Nat
    BY DEF CInv, Structure, Shape, TypeOK
  <1>2. /\ Cardinality(Ours) \in Nat
        /\ \/ Cardinality(Ours') = Cardinality(Ours)
           \/ Cardinality(Ours') = Cardinality(Ours) + 1 /\ todo.create > 0
           \/ Cardinality(Ours') = Cardinality(Ours) - 1 /\ todo.destroy > 0
    BY CountStep DEF CInv
  <1> QED BY <1>1, <1>2 DEF CInv, OwedIsNeeded

LEMMA BootAndRootKept ==
  ASSUME CInv, [Next]_vars
  PROVE  /\ Born \subseteq live' /\ Born \subseteq plugged'
         /\ how.scope = "root" => plugged \subseteq plugged'
  <1>1. Structure' /\ Structure
    BY CNext DEF CInv
  <1>2. Born \subseteq live' /\ Born \subseteq plugged'
    BY <1>1 DEF Structure, BootStands, Shape, Typed
  <1>3. CASE DestroyUnplugs
    BY <1>2, <1>3 DEF DestroyUnplugs, CInv, OwedIsNeeded
  <1>4. CASE PruneUnplugs
    <2>1. PICK r \in Victims("Foreign") : Unplug(r, "reapForeign")
      BY <1>4 DEF PruneUnplugs
    <2>2. how.scope = "root" => ~r.plugged
      BY <1>1, VictimFacts
    <2> QED BY <1>2, <2>1, <2>2 DEF Unplug
  <1>5. CASE PlugSpawn \/ Intrude \/ \E i \in Ids : Draw(i) \/ Return(i)
    BY <1>2, <1>5 DEF PlugSpawn, Intrude, Draw, Return
  <1>6. CASE plugged' = plugged
    BY <1>2, <1>6
  <1>7. CASE UNCHANGED <<world, how, required>> \/ JudgeRefuses \/ JudgeEmpty \/ Judge
    BY <1>6, <1>7 DEF world, JudgeRefuses, JudgeEmpty, Judge
  <1>8. CASE CreateSpawn \/ StampSpawn \/ Grown \/ DestroySkipsHeld \/ ReapManaged \/ ReapForeign
    BY <1>6, <1>8 DEF world, CreateSpawn, StampSpawn, Grown, DestroySkipsHeld, ReapManaged, ReapForeign, Reap
  <1>9. CASE Destroyed \/ Pruned \/ Retarget \/ UNCHANGED vars
    BY <1>6, <1>9 DEF world, Destroyed, Pruned, Retarget, vars
  <1> QED BY <1>2, <1>3, <1>4, <1>5, <1>7, <1>8, <1>9, StepKinds

\* Over any sequence of passes, failed and killed ones included, no managed
\* object is created over the requirement and none destroyed at it or below; the
\* boot layout is never touched, nor what is plugged in the root.
THEOREM SurplusOnly == Spec => TakesOnlySurplus
  <1>1. CInv /\ [Next]_vars =>
          [/\ Cardinality(Ours') > Cardinality(Ours) => Cardinality(Ours') <= required
           /\ Cardinality(Ours') < Cardinality(Ours) => Cardinality(Ours) > required]_vars
    BY CountsByNeed
  <1>2. CInv /\ [Next]_vars =>
          [/\ Born \subseteq live' /\ Born \subseteq plugged'
           /\ how.scope = "root" => plugged \subseteq plugged']_vars
    BY BootAndRootKept
  <1> QED BY <1>1, <1>2, CInductive, PTL DEF Spec, TakesOnlySurplus, SizedByNeed, BootAndRootStay

=============================================================================
