--------------------------- MODULE PoolRun_proofs ---------------------------
(***************************************************************************)
(* Theorems of the root pool phases, for any requirement, any boot layout, *)
(* any number of ordinals, units, failures, drains and edits.              *)
(***************************************************************************)
EXTENDS PoolRun, FiniteSetTheorems, TLAPS

-----------------------------------------------------------------------------
(* Counting. *)

LEMMA ObjFacts ==
  /\ IsFiniteSet(Objs)
  /\ \A o \in Objs : Family(o) \in Families /\ o # None
  /\ None \notin Objs
  <1>1. IsFiniteSet({"dpmcp"} \cup {"dpbp"} \cup {"dpcon"})
    BY FS_Singleton, FS_Union
  <1>2. IsFiniteSet(Families)
    <2>1. Families = {"dpmcp"} \cup {"dpbp"} \cup {"dpcon"}
      BY DEF Families
    <2> QED BY <1>1, <2>1
  <1>3. IsFiniteSet(Objs)
    BY <1>2, FS_Product, PoolAssumption DEF Objs
  <1>4. \A o \in Objs : Family(o) \in Families
    BY DEF Objs, Family
  <1> QED BY <1>3, <1>4, RunAssumption

LEMMA CountFacts ==
  ASSUME NEW b \in Boards, NEW f \in Families
  PROVE  /\ CensusFree(b, f) \in Nat
         /\ IsFiniteSet(Ours(b, f))
         /\ Managed(b, f) \in Nat
  <1>1. Rows(b, f) \in SUBSET Objs /\ Ours(b, f) \in SUBSET Objs
    BY DEF Rows, Ours, Boards
  <1>2. IsFiniteSet(Rows(b, f)) /\ IsFiniteSet(Ours(b, f))
    BY <1>1, FS_Subset, ObjFacts
  <1> QED BY <1>2, FS_CardinalityType DEF CensusFree, Managed

\* What a grow plan asks for: no more than the deficit, no more than the
\* listing shows, and nothing only where nothing is due or nothing is left.
LEMMA PlanFacts ==
  ASSUME NEW b \in Boards, NEW f \in Families, Managed(b, f) <= Required[f]
  PROVE  /\ Create(b, f) \in Nat
         /\ Managed(b, f) + Create(b, f) <= Required[f]
         /\ f \in Listed => Create(b, f) <= b.free[f]
         /\ Create(b, f) = 0 => Managed(b, f) = Required[f] \/ SpentOut(b, f)
  <1>1. CensusFree(b, f) \in Nat /\ Managed(b, f) \in Nat
        /\ Required[f] \in Nat /\ b.free[f] \in Nat
    BY CountFacts, PoolAssumption DEF Boards
  <1>2. Deficit(b, f) = Required[f] - Managed(b, f) /\ Deficit(b, f) \in Nat
    BY <1>1 DEF Deficit, Positive
  <1>3. Headroom(b, f) \in Nat /\ Headroom(b, f) <= b.free[f]
    BY <1>1 DEF Headroom, Positive
  <1> QED BY <1>1, <1>2, <1>3 DEF Create, Lesser, SpentOut

-----------------------------------------------------------------------------
(* What each effect on the board preserves. *)

\* An object that is not there wears no label, and none of ours is unplugged.
WellBorn(b) ==
  /\ b \in Boards /\ b.plugged \subseteq b.live
  /\ \A o \in Objs \ b.live : b.label[o] = "none"
  /\ \A o \in b.live : b.label[o] = "ours" => o \in b.plugged

LEMMA MintedFacts ==
  ASSUME NEW b, WellBorn(b), NEW o \in Objs \ b.live, Spendable(b, Family(o))
  PROVE  /\ WellBorn(Minted(b, o))
         /\ \A f \in Families : Managed(Minted(b, o), f) = Managed(b, f)
         /\ Minted(b, o).live = b.live \cup {o}
         /\ Minted(b, o).label = b.label
         /\ Minted(b, o).seats = b.seats
         /\ \A f \in Families :
              Minted(b, o).free[f] =
                IF f \in Listed /\ f = Family(o) THEN b.free[f] - 1 ELSE b.free[f]
  <1> DEFINE m == Minted(b, o)
  <1>0. Family(o) \in Families /\ b \in Boards /\ b.free \in [Families -> Nat]
    BY ObjFacts DEF WellBorn, Boards
  <1>1. m.live = b.live \cup {o} /\ m.label = b.label /\ m.seats = b.seats
        /\ m.plugged = b.plugged
    BY <1>0 DEF Minted, Spent, Boards
  <1>2. \A f \in Families :
          m.free[f] = IF f \in Listed /\ f = Family(o) THEN b.free[f] - 1 ELSE b.free[f]
    BY <1>0 DEF Minted, Spent, Boards
  <1>3. m \in Boards
    <2>1. CASE Family(o) \in Listed
      <3>1. b.free[Family(o)] - 1 \in Nat
        BY <1>0, <2>1 DEF Spendable
      <3> QED BY <1>0, <2>1, <3>1 DEF Minted, Spent, Boards
    <2>2. CASE Family(o) \notin Listed
      BY <1>0, <2>2 DEF Minted, Spent, Boards
    <2> QED BY <2>1, <2>2
  <1>4. WellBorn(m)
    BY <1>1, <1>3 DEF WellBorn
  <1>5. b.label[o] = "none"
    BY DEF WellBorn
  <1>6. \A f \in Families : Ours(m, f) = Ours(b, f)
    BY <1>1, <1>5 DEF Ours, Rows
  <1> QED BY <1>1, <1>2, <1>4, <1>6 DEF Managed

LEMMA PluggedFacts ==
  ASSUME NEW b, WellBorn(b), NEW o \in b.live
  PROVE  /\ WellBorn(Plugged(b, o))
         /\ \A f \in Families : Managed(Plugged(b, o), f) = Managed(b, f)
         /\ Plugged(b, o).live = b.live /\ Plugged(b, o).label = b.label
         /\ Plugged(b, o).seats = b.seats /\ Plugged(b, o).free = b.free
  <1> DEFINE p == Plugged(b, o)
  <1>1. p.live = b.live /\ p.label = b.label /\ p.seats = b.seats /\ p.free = b.free
        /\ p.plugged = b.plugged \cup {o}
    BY DEF Plugged, WellBorn, Boards
  <1>2. p \in Boards
    BY DEF Plugged, WellBorn, Boards
  <1>3. WellBorn(p)
    BY <1>1, <1>2 DEF WellBorn
  <1>4. \A f \in Families : Ours(p, f) = Ours(b, f)
    BY <1>1 DEF Ours, Rows
  <1> QED BY <1>1, <1>3, <1>4 DEF Managed

LEMMA StampedFacts ==
  ASSUME NEW b, WellBorn(b), NEW o \in b.plugged, b.label[o] = "none"
  PROVE  /\ WellBorn(Stamped(b, o))
         /\ \A f \in Families :
              Managed(Stamped(b, o), f) =
                IF f = Family(o) THEN Managed(b, f) + 1 ELSE Managed(b, f)
         /\ Stamped(b, o).live = b.live
         /\ Stamped(b, o).seats = b.seats /\ Stamped(b, o).free = b.free
  <1> DEFINE s == Stamped(b, o)
  <1>0. b \in Boards /\ o \in b.live /\ o \in Objs
    BY DEF WellBorn, Boards
  <1>1. s.live = b.live /\ s.plugged = b.plugged /\ s.seats = b.seats /\ s.free = b.free
    BY <1>0 DEF Stamped, Boards
  <1>2. \A x \in Objs : s.label[x] = IF x = o THEN "ours" ELSE b.label[x]
    BY <1>0 DEF Stamped, Boards
  <1>3. s \in Boards
    BY <1>0 DEF Stamped, Boards, Labels
  <1>4. WellBorn(s)
    <2>1. \A x \in Objs \ s.live : s.label[x] = "none"
      BY <1>0, <1>1, <1>2 DEF WellBorn
    <2>2. \A x \in s.live : s.label[x] = "ours" => x \in s.plugged
      BY <1>0, <1>1, <1>2 DEF WellBorn, Boards
    <2> QED BY <1>1, <1>3, <2>1, <2>2 DEF WellBorn
  <1>5. ASSUME NEW f \in Families, f = Family(o)
        PROVE  Managed(s, f) = Managed(b, f) + 1
    <2>1. Ours(s, f) = Ours(b, f) \cup {o}
      BY <1>0, <1>1, <1>2, <1>5 DEF Ours, Rows, Boards
    <2>2. o \notin Ours(b, f)
      BY DEF Ours
    <2> QED BY <1>0, <2>1, <2>2, FS_AddElement, CountFacts DEF Managed
  <1>6. ASSUME NEW f \in Families, f # Family(o)
        PROVE  Managed(s, f) = Managed(b, f)
    <2>1. Ours(s, f) = Ours(b, f)
      BY <1>0, <1>1, <1>2, <1>6 DEF Ours, Rows, Boards
    <2> QED BY <2>1 DEF Managed
  <1> QED BY <1>1, <1>4, <1>5, <1>6

LEMMA DestroyedFacts ==
  ASSUME NEW b, WellBorn(b), NEW g \in Families, NEW o \in Prunable(b, g)
  PROVE  /\ WellBorn(Destroyed(b, o))
         /\ \A f \in Families : Managed(Destroyed(b, o), f) = Managed(b, f)
         /\ Destroyed(b, o).seats = b.seats
         /\ Destroyed(b, o).live = b.live \ {o}
  <1> DEFINE d == Destroyed(b, o)
  <1>0. b \in Boards /\ o \in b.live /\ o \in Objs /\ b.label[o] = "foreign"
        /\ Family(o) \in Families
    BY ObjFacts DEF WellBorn, Boards, Prunable, ForeignRows, Rows
  <1>1. d.live = b.live \ {o} /\ d.plugged = b.plugged \ {o} /\ d.seats = b.seats
    BY <1>0 DEF Destroyed, Credited, Boards
  <1>2. \A x \in Objs : d.label[x] = IF x = o THEN "none" ELSE b.label[x]
    BY <1>0 DEF Destroyed, Credited, Boards
  <1>3. d \in Boards
    <2>1. Credited(b, Family(o)) \in Boards
      <3>1. b.free[Family(o)] + 1 \in Nat
        BY <1>0 DEF Boards
      <3> QED BY <1>0, <3>1 DEF Credited, Boards
    <2>2. \A c \in Boards :
            [c EXCEPT !.live = @ \ {o}, !.plugged = @ \ {o}, !.label[o] = "none"] \in Boards
      BY DEF Boards, Labels
    <2> QED BY <2>1, <2>2 DEF Destroyed
  <1>4. WellBorn(d)
    <2>1. \A x \in Objs \ d.live : d.label[x] = "none"
      BY <1>0, <1>1, <1>2 DEF WellBorn
    <2>2. \A x \in d.live : d.label[x] = "ours" => x \in d.plugged
      BY <1>0, <1>1, <1>2 DEF WellBorn, Boards
    <2>3. d.plugged \subseteq d.live
      BY <1>1 DEF WellBorn
    <2> QED BY <1>3, <2>1, <2>2, <2>3 DEF WellBorn
  <1>5. \A f \in Families : Ours(d, f) = Ours(b, f)
    BY <1>0, <1>1, <1>2 DEF Ours, Rows, Boards
  <1> QED BY <1>1, <1>4, <1>5 DEF Managed

LEMMA SeatedFacts ==
  ASSUME NEW b, WellBorn(b)
  PROVE  /\ WellBorn(Seated(b))
         /\ \A f \in Families : Managed(Seated(b), f) = Managed(b, f)
         /\ Seated(b).live = b.live /\ Seated(b).label = b.label
         /\ Seated(b).free = b.free /\ Seated(b).seats = b.seats + 1
  <1> DEFINE s == Seated(b)
  <1>1. s.live = b.live /\ s.label = b.label /\ s.free = b.free /\ s.plugged = b.plugged
        /\ s.seats = b.seats + 1
    BY DEF Seated, WellBorn, Boards
  <1>2. s \in Boards
    BY DEF Seated, WellBorn, Boards
  <1>3. WellBorn(s)
    BY <1>1, <1>2 DEF WellBorn
  <1>4. \A f \in Families : Ours(s, f) = Ours(b, f)
    BY <1>1 DEF Ours, Rows
  <1> QED BY <1>1, <1>3, <1>4 DEF Managed

LEMMA DrainedFacts ==
  ASSUME NEW b, WellBorn(b), NEW g \in Families, b.free[g] > 0,
         NEW c, c = [b EXCEPT !.free[g] = @ - 1]
  PROVE  /\ WellBorn(c)
         /\ \A f \in Families : Managed(c, f) = Managed(b, f)
         /\ c.live = b.live /\ c.label = b.label /\ c.seats = b.seats
  <1>1. c.live = b.live /\ c.label = b.label /\ c.plugged = b.plugged /\ c.seats = b.seats
    BY DEF WellBorn, Boards
  <1>2. c \in Boards
    <2>1. b.free[g] - 1 \in Nat
      BY DEF WellBorn, Boards
    <2> QED BY <2>1 DEF WellBorn, Boards
  <1>3. WellBorn(c)
    BY <1>1, <1>2 DEF WellBorn
  <1>4. \A f \in Families : Ours(c, f) = Ours(b, f)
    BY <1>1 DEF Ours, Rows
  <1> QED BY <1>1, <1>3, <1>4 DEF Managed

LEMMA EditedFacts ==
  ASSUME NEW b, WellBorn(b), NEW o \in Objs \ b.live, Spendable(b, Family(o)),
         NEW plug \in BOOLEAN,
         NEW c, c = Foreigner(b, o, plug)
  PROVE  /\ WellBorn(c)
         /\ \A f \in Families : Managed(c, f) = Managed(b, f)
         /\ b.live \subseteq c.live
  <1> DEFINE m == Minted(b, o)
  <1>0. /\ WellBorn(m) /\ m \in Boards
        /\ \A f \in Families : Managed(m, f) = Managed(b, f)
        /\ m.live = b.live \cup {o} /\ m.label = b.label /\ b.label[o] = "none"
    BY MintedFacts DEF WellBorn
  <1>1. c.live = m.live /\ m.plugged \subseteq c.plugged /\ c.plugged \subseteq m.plugged \cup {o}
    BY <1>0 DEF Foreigner, Boards
  <1>2. \A x \in Objs : c.label[x] = IF x = o THEN "foreign" ELSE m.label[x]
    BY <1>0 DEF Foreigner, Boards
  <1>3. c \in Boards
    BY <1>0 DEF Foreigner, Boards, Labels
  <1>4. WellBorn(c)
    <2>1. \A x \in Objs \ c.live : c.label[x] = "none"
      BY <1>0, <1>1, <1>2 DEF WellBorn
    <2>2. \A x \in c.live : c.label[x] = "ours" => x \in c.plugged
      BY <1>0, <1>1, <1>2 DEF WellBorn, Boards
    <2>3. c.plugged \subseteq c.live
      BY <1>0, <1>1 DEF WellBorn
    <2> QED BY <1>3, <2>1, <2>2, <2>3 DEF WellBorn
  <1>5. \A f \in Families : Ours(c, f) = Ours(m, f)
    BY <1>0, <1>1, <1>2 DEF Ours, Rows, Boards
  <1> QED BY <1>0, <1>1, <1>4, <1>5 DEF Managed

-----------------------------------------------------------------------------
(* The inductive invariant. *)

\* The object in hand is owed to its family and wears no name yet.
HandOwed ==
  hand # None =>
    /\ pc = "grow" /\ Family(hand) \in unjudged /\ todo[Family(hand)] > 0
    /\ board.label[hand] = "none"

\* What stands and what is still owed fit the requirement.
OwedFits == \A f \in Families : Managed(board, f) + todo[f] <= Required[f]

\* A family off the list is stocked, or was spent when the plan was made.
OffListStocked ==
  /\ pc = "grow" =>
       \A f \in Families \ unjudged : Managed(board, f) = Required[f] \/ f \in spent
  /\ pc \in {"between", "shrink", "reclaim"} =>
       \A f \in Families : Managed(board, f) = Required[f] \/ f \in spent

SeatsCounted ==
  /\ pc = "grow" => board.seats + seatTodo >= SeatsRequired
  /\ pc \in {"between", "shrink", "reclaim"} => board.seats >= SeatsRequired

\* Unless another container took one, the units owed are there: the object in
\* hand has taken its own.
UnitsThere ==
  pc = "grow" /\ ~drained =>
    \A f \in Listed :
      todo[f] <= board.free[f] + (IF hand # None /\ Family(hand) = f THEN 1 ELSE 0)

IInv ==
  /\ TypeOK /\ WellBorn(board)
  /\ HandOwed /\ OwedFits /\ OffListStocked /\ SeatsCounted /\ UnitsThere

-----------------------------------------------------------------------------
(* Every step keeps it. *)

LEMMA InitInv == Init => IInv
  <1> SUFFICES ASSUME Init PROVE IInv
    OBVIOUS
  <1>1. board \in Boards /\ WellBorn(board)
    BY RunAssumption DEF Init, WellBorn, Boards, Labels
  <1>2. \A f \in Families : Ours(board, f) = {}
    BY RunAssumption DEF Init, Ours, Rows
  <1>3. \A f \in Families : Managed(board, f) = 0
    BY <1>2, FS_EmptySet DEF Managed
  <1>4. TypeOK
    <2>1. todo \in [Families -> Nat] /\ opts \in [disruptive : BOOLEAN, prune : BOOLEAN]
      BY DEF Init, NothingOwed, NoOptions
    <2>2. edits \in 0 .. MaxEdits /\ drains \in 0 .. MaxDrains /\ faults \in 0 .. MaxFaults
      BY RunAssumption DEF Init
    <2>3. board \in Boards /\ board.plugged \subseteq board.live
      BY <1>1 DEF WellBorn
    <2> QED BY <2>1, <2>2, <2>3 DEF Init, TypeOK
  <1>5. OwedFits
    BY <1>3, PoolAssumption DEF Init, OwedFits, NothingOwed
  <1> QED BY <1>1, <1>4, <1>5
          DEF Init, IInv, HandOwed, OffListStocked, SeatsCounted, UnitsThere

\* A run ends on a well-formed board that holds no more than is required.
LEMMA EndKeeps ==
  ASSUME IInv, NEW how \in {"infeasible", "headroom", "gateRefused", "short", "converged",
                            "failed", "overcommit"},
         End(how), WellBorn(board)',
         \A f \in Families : Managed(board, f)' <= Required[f],
         edits' \in 0 .. MaxEdits, drains' \in 0 .. MaxDrains, faults' \in 0 .. MaxFaults
  PROVE  IInv'
  <1>1. TypeOK'
    BY DEF End, TypeOK, NothingOwed, NoOptions, WellBorn
  <1>2. OwedFits'
    <2>1. \A f \in Families : Managed(board, f)' \in Nat /\ Required[f] \in Nat
      BY CountFacts, PoolAssumption DEF WellBorn
    <2>2. \A f \in Families : todo'[f] = 0
      BY DEF End, NothingOwed
    <2> QED BY <2>1, <2>2 DEF OwedFits
  <1> QED BY <1>1, <1>2 DEF End, IInv, HandOwed, OffListStocked, SeatsCounted, UnitsThere

LEMMA Bounded ==
  ASSUME IInv, NEW f \in Families
  PROVE  /\ Managed(board, f) \in Nat /\ Required[f] \in Nat /\ todo[f] \in Nat
         /\ Managed(board, f) <= Required[f]
  <1>1. Managed(board, f) \in Nat
    BY CountFacts DEF IInv, WellBorn
  <1> QED BY <1>1, PoolAssumption DEF IInv, OwedFits, TypeOK

\* The runs that stop where they stand.
LEMMA RefusalKeeps ==
  ASSUME IInv,
         \/ CompileRefused \/ AdmitRefused \/ GrowRefused \/ ShrinkRefused
         \/ ShrinkNothing \/ ShrinkDone \/ Overcommitted
         \/ \E f \in Families : GrowShort(f)
  PROVE  IInv'
  <1>1. board' = board /\ UNCHANGED budgets
    BY DEF CompileRefused, AdmitRefused, GrowRefused, ShrinkRefused, ShrinkNothing,
           ShrinkDone, Overcommitted, GrowShort
  <1>2. \E how \in {"infeasible", "headroom", "gateRefused", "short", "converged",
                     "failed", "overcommit"} : End(how)
    BY DEF CompileRefused, AdmitRefused, GrowRefused, ShrinkRefused, ShrinkNothing,
           ShrinkDone, Overcommitted, GrowShort
  <1>3. WellBorn(board)'
    BY <1>1 DEF IInv, WellBorn
  <1>4. \A f \in Families : Managed(board, f)' <= Required[f]
    BY <1>1, Bounded DEF Managed, Ours, Rows
  <1> QED BY <1>1, <1>2, <1>3, <1>4, EndKeeps DEF IInv, TypeOK, budgets

\* Only the place moves: the options, the compile and the admission.
LEMMA EntryKeeps ==
  ASSUME IInv, Compiled \/ AdmitPasses
  PROVE  IInv'
  <1>1. TypeOK'
    BY RunAssumption
       DEF IInv, TypeOK, Compiled, AdmitPasses, Goto, Options, work, history, budgets
  <1>2. UNCHANGED <<board, todo, seatTodo, unjudged, hand, drained, spent>>
        /\ pc' \in {"admit", "plan"} /\ pc \in {"idle", "admit"}
    BY DEF Compiled, AdmitPasses, Goto, work, history
  <1> QED BY <1>1, <1>2 DEF IInv, WellBorn, HandOwed, OwedFits, OffListStocked, SeatsCounted,
                            UnitsThere, Managed, Ours, Rows

LEMMA GrowNothingKeeps ==
  ASSUME IInv, GrowNothing
  PROVE  IInv'
  <1>1. UNCHANGED <<board, todo, seatTodo, unjudged, hand, opts, outcome, budgets>>
        /\ pc = "plan" /\ pc' = "between" /\ Planned /\ ~GrowWork(board)
    BY DEF GrowNothing, Goto, work
  <1>2. TypeOK'
    BY <1>1 DEF IInv, TypeOK, Planned, budgets
  <1>3. \A f \in Families : Managed(board, f) = Required[f] \/ f \in spent'
    <2> SUFFICES ASSUME NEW f \in Families
                 PROVE  Managed(board, f) = Required[f] \/ f \in spent'
      OBVIOUS
    <2>1. Create(board, f) \in Nat
          /\ (Create(board, f) = 0 => Managed(board, f) = Required[f] \/ SpentOut(board, f))
      BY PlanFacts, Bounded DEF IInv, WellBorn
    <2>2. ~(Create(board, f) > 0)
      BY <1>1 DEF GrowWork
    <2> QED BY <1>1, <2>1, <2>2 DEF Planned
  <1>4. board.seats >= SeatsRequired
    BY <1>1, PoolAssumption DEF GrowWork, SeatDeficit, Positive, IInv, WellBorn, Boards
  <1>5. hand = None
    BY <1>1 DEF IInv, HandOwed
  <1> QED BY <1>1, <1>2, <1>3, <1>4, <1>5
          DEF IInv, WellBorn, HandOwed, OwedFits, OffListStocked, SeatsCounted, UnitsThere,
              Managed, Ours, Rows

LEMMA GrowPlannedKeeps ==
  ASSUME IInv, GrowPlanned
  PROVE  IInv'
  <1>1. UNCHANGED <<board, hand, opts, outcome, budgets>> /\ pc = "plan" /\ pc' = "grow"
        /\ Planned /\ drained' = FALSE
    BY DEF GrowPlanned, Planned
  <1>2. \A f \in Families :
          /\ Create(board, f) \in Nat
          /\ Managed(board, f) + Create(board, f) <= Required[f]
          /\ f \in Listed => Create(board, f) <= board.free[f]
          /\ Create(board, f) = 0 => Managed(board, f) = Required[f] \/ f \in spent'
    BY <1>1, PlanFacts, Bounded DEF IInv, WellBorn, Planned
  <1>3. todo' \in [Families -> Nat] /\ (\A f \in Families : todo'[f] = Create(board, f))
    BY <1>2 DEF GrowPlanned
  <1>4. hand = None
    BY <1>1 DEF IInv, HandOwed
  <1>5. seatTodo' \in Nat /\ board.seats + seatTodo' >= SeatsRequired
    BY PoolAssumption DEF GrowPlanned, SeatDeficit, Positive, IInv, WellBorn, Boards
  <1>6. TypeOK'
    BY <1>1, <1>3, <1>5 DEF IInv, TypeOK, GrowPlanned, Planned, budgets
  <1>7. \A f \in Families \ unjudged' : Create(board, f) = 0
    BY <1>2 DEF GrowPlanned
  <1>8. OwedFits' /\ OffListStocked'
    BY <1>1, <1>2, <1>3, <1>7 DEF OwedFits, OffListStocked, Managed, Ours, Rows
  <1>9. UnitsThere'
    <2>1. hand' = None /\ board' = board
      BY <1>1, <1>4
    <2>2. \A f \in Listed : todo'[f] <= board.free[f] /\ board.free[f] \in Nat
      BY <1>2, <1>3, PoolAssumption DEF IInv, WellBorn, Boards
    <2>3. \A f \in Listed : todo'[f] <= board.free[f] + 0
      BY <2>2
    <2> QED BY <2>1, <2>3 DEF UnitsThere
  <1> QED BY <1>1, <1>4, <1>5, <1>6, <1>8, <1>9
          DEF IInv, WellBorn, HandOwed, SeatsCounted

LEMMA CreateKeeps ==
  ASSUME IInv, NEW f \in Families, CreateSpawn(f)
  PROVE  IInv'
  <1>1. PICK o \in Objs \ board.live : Family(o) = f /\ board' = Minted(board, o) /\ hand' = o
    BY DEF CreateSpawn
  <1>2. /\ UNCHANGED <<pc, opts, todo, seatTodo, unjudged, outcome, drained, spent,
                       edits, drains, faults>>
        /\ pc = "grow" /\ f \in unjudged /\ todo[f] > 0 /\ hand = None
        /\ Spendable(board, Family(o))
    BY <1>1 DEF CreateSpawn, Turn, history, budgets
  <1>3. /\ WellBorn(board')
        /\ \A g \in Families : Managed(board', g) = Managed(board, g)
        /\ board'.live = board.live \cup {o} /\ board'.label = board.label
        /\ board'.seats = board.seats
        /\ \A g \in Families :
             board'.free[g] =
               IF g \in Listed /\ g = Family(o) THEN board.free[g] - 1 ELSE board.free[g]
    BY <1>1, <1>2, MintedFacts DEF IInv
  <1>4. board'.label[o] = "none" /\ o # None
    BY <1>3, ObjFacts DEF IInv, WellBorn
  <1>5. TypeOK'
    BY <1>1, <1>2, <1>3 DEF IInv, TypeOK, WellBorn
  <1>6. HandOwed'
    BY <1>1, <1>2, <1>4 DEF HandOwed
  <1>7. OwedFits' /\ OffListStocked' /\ SeatsCounted'
    BY <1>2, <1>3 DEF IInv, OwedFits, OffListStocked, SeatsCounted
  <1>8. UnitsThere'
    <2> SUFFICES ASSUME ~drained, NEW g \in Listed
                 PROVE  todo[g] <= board'.free[g] + (IF Family(o) = g THEN 1 ELSE 0)
      BY <1>1, <1>2, <1>4 DEF UnitsThere
    <2>1. g \in Families /\ board.free[g] \in Nat /\ todo[g] \in Nat
      BY PoolAssumption DEF IInv, TypeOK, Boards
    <2>2. todo[g] <= board.free[g]
      BY <1>2, <2>1 DEF IInv, UnitsThere
    <2> QED BY <1>3, <2>1, <2>2
  <1> QED BY <1>3, <1>5, <1>6, <1>7, <1>8 DEF IInv

LEMMA PlugKeeps ==
  ASSUME IInv, PlugSpawn
  PROVE  IInv'
  <1>1. /\ UNCHANGED <<pc, opts, todo, seatTodo, unjudged, hand, outcome, drained, spent,
                       edits, drains, faults>>
        /\ board' = Plugged(board, hand) /\ hand \in board.live
    BY DEF PlugSpawn, work, history, budgets, IInv, TypeOK
  <1>2. /\ WellBorn(board')
        /\ \A g \in Families : Managed(board', g) = Managed(board, g)
        /\ board'.live = board.live /\ board'.label = board.label
        /\ board'.seats = board.seats /\ board'.free = board.free
    BY <1>1, PluggedFacts DEF IInv
  <1>3. TypeOK'
    BY <1>1, <1>2 DEF IInv, TypeOK, WellBorn
  <1> QED BY <1>1, <1>2, <1>3
          DEF IInv, HandOwed, OwedFits, OffListStocked, SeatsCounted, UnitsThere

LEMMA StampKeeps ==
  ASSUME IInv, StampSpawn
  PROVE  IInv'
  <1> DEFINE f == Family(hand)
  <1>1. /\ UNCHANGED <<pc, opts, seatTodo, unjudged, outcome, drained, spent,
                       edits, drains, faults>>
        /\ board' = Stamped(board, hand) /\ hand \in board.plugged /\ hand' = None
        /\ pc = "grow" /\ todo' = [todo EXCEPT ![f] = @ - 1]
    BY DEF StampSpawn, history, budgets
  <1>2. f \in Families /\ f \in unjudged /\ todo[f] > 0 /\ hand # None
        /\ board.label[hand] = "none" /\ todo \in [Families -> Nat]
    BY <1>1, ObjFacts DEF IInv, HandOwed, TypeOK, StampSpawn, Boards
  <1>3. /\ WellBorn(board')
        /\ \A g \in Families :
             Managed(board', g) = IF g = f THEN Managed(board, g) + 1 ELSE Managed(board, g)
        /\ board'.seats = board.seats /\ board'.free = board.free
    BY <1>1, <1>2, StampedFacts DEF IInv
  <1>4. /\ todo' \in [Families -> Nat]
        /\ \A g \in Families : todo'[g] = IF g = f THEN todo[g] - 1 ELSE todo[g]
    BY <1>1, <1>2
  <1>5. TypeOK'
    BY <1>1, <1>3, <1>4 DEF IInv, TypeOK, WellBorn
  <1>6. OwedFits'
    <2> SUFFICES ASSUME NEW g \in Families PROVE Managed(board', g) + todo'[g] <= Required[g]
      BY DEF OwedFits
    <2>1. Managed(board, g) + todo[g] <= Required[g] /\ Managed(board, g) \in Nat
          /\ Required[g] \in Nat /\ todo[g] \in Nat
      BY Bounded DEF IInv, OwedFits
    <2> QED BY <1>3, <1>4, <2>1
  <1>7. OffListStocked' /\ SeatsCounted'
    BY <1>1, <1>2, <1>3 DEF IInv, OffListStocked, SeatsCounted
  <1>8. UnitsThere'
    <2> SUFFICES ASSUME ~drained, NEW g \in Listed PROVE todo'[g] <= board'.free[g] + 0
      BY <1>1 DEF UnitsThere
    <2>1. g \in Families /\ board.free[g] \in Nat /\ todo[g] \in Nat
      BY PoolAssumption DEF IInv, TypeOK, Boards
    <2>2. todo[g] <= board.free[g] + (IF f = g THEN 1 ELSE 0)
      BY <1>1, <1>2 DEF IInv, UnitsThere
    <2> QED BY <1>3, <1>4, <2>1, <2>2
  <1> QED BY <1>1, <1>3, <1>5, <1>6, <1>7, <1>8 DEF IInv, HandOwed

LEMMA GrowJudgedKeeps ==
  ASSUME IInv, NEW f \in Families, GrowJudged(f)
  PROVE  IInv'
  <1>1. /\ UNCHANGED <<board, pc, opts, todo, seatTodo, hand, outcome, drained, spent,
                       edits, drains, faults>>
        /\ unjudged' = unjudged \ {f} /\ Managed(board, f) = Required[f] /\ hand = None
    BY DEF GrowJudged, FamilyDispatched, Stocked, history, budgets
  <1>2. TypeOK'
    BY <1>1 DEF IInv, TypeOK
  <1>3. OffListStocked'
    BY <1>1 DEF IInv, OffListStocked, Managed, Ours, Rows
  <1> QED BY <1>1, <1>2, <1>3
          DEF IInv, WellBorn, HandOwed, OwedFits, SeatsCounted, UnitsThere, Managed, Ours, Rows

LEMMA SeatKeeps ==
  ASSUME IInv, SeatCreate
  PROVE  IInv'
  <1>1. /\ UNCHANGED <<pc, opts, todo, unjudged, hand, outcome, drained, spent,
                       edits, drains, faults>>
        /\ board' = Seated(board) /\ seatTodo > 0 /\ seatTodo' = seatTodo - 1 /\ pc = "grow"
    BY DEF SeatCreate, history, budgets
  <1>2. /\ WellBorn(board')
        /\ \A g \in Families : Managed(board', g) = Managed(board, g)
        /\ board'.live = board.live /\ board'.label = board.label
        /\ board'.free = board.free /\ board'.seats = board.seats + 1
    BY <1>1, SeatedFacts DEF IInv
  <1>3. TypeOK' /\ SeatsCounted'
    BY <1>1, <1>2, PoolAssumption DEF IInv, TypeOK, WellBorn, SeatsCounted, Boards
  <1> QED BY <1>1, <1>2, <1>3 DEF IInv, HandOwed, OwedFits, OffListStocked, UnitsThere

\* The halves of the run meet, and the shrink half begins.
LEMMA PlaceKeeps ==
  ASSUME IInv,
         GrowDone \/ Proceed \/ ShrinkPlanned \/ \E f \in Families : ReclaimJudged(f)
  PROVE  IInv'
  <1>1. /\ UNCHANGED <<board, opts, todo, seatTodo, hand, outcome, drained, spent,
                       edits, drains, faults>>
        /\ pc' \in {"between", "shrink", "reclaim"} /\ unjudged' \subseteq Families
    BY DEF GrowDone, Proceed, ShrinkPlanned, ReclaimJudged, Reclaiming, Goto, work, history,
           budgets, IInv, TypeOK
  <1>2. \/ pc = "grow" /\ unjudged = {} /\ seatTodo = 0
        \/ pc \in {"between", "shrink", "reclaim"}
    BY DEF GrowDone, Proceed, ShrinkPlanned, ReclaimJudged, Reclaiming
  <1>3. hand = None
    BY <1>2 DEF IInv, HandOwed
  <1>4. TypeOK'
    BY <1>1 DEF IInv, TypeOK
  <1>5. \A f \in Families : Managed(board, f) = Required[f] \/ f \in spent
    BY <1>2 DEF IInv, OffListStocked
  <1>6. board.seats >= SeatsRequired
    BY <1>2 DEF IInv, SeatsCounted, WellBorn, Boards
  <1>7. OffListStocked' /\ SeatsCounted'
    BY <1>1, <1>5, <1>6 DEF OffListStocked, SeatsCounted, Managed, Ours, Rows
  <1> QED BY <1>1, <1>3, <1>4, <1>7
          DEF IInv, WellBorn, HandOwed, OwedFits, UnitsThere, Managed, Ours, Rows

LEMMA ReclaimKeeps ==
  ASSUME IInv, NEW f \in Families, Reclaim(f)
  PROVE  IInv'
  <1>1. PICK o \in Prunable(board, f) : board' = Destroyed(board, o)
    BY DEF Reclaim
  <1>2. /\ UNCHANGED <<pc, opts, todo, seatTodo, unjudged, hand, outcome, drained, spent,
                       edits, drains, faults>>
        /\ pc = "reclaim"
    BY DEF Reclaim, Reclaiming, work, history, budgets
  <1>3. /\ WellBorn(board')
        /\ \A g \in Families : Managed(board', g) = Managed(board, g)
        /\ board'.seats = board.seats
    BY <1>1, DestroyedFacts DEF IInv
  <1>4. hand = None
    BY <1>2 DEF IInv, HandOwed
  <1>5. TypeOK'
    BY <1>2, <1>3, <1>4 DEF IInv, TypeOK, WellBorn
  <1> QED BY <1>2, <1>3, <1>4, <1>5
          DEF IInv, HandOwed, OwedFits, OffListStocked, SeatsCounted, UnitsThere

\* What a failed or killed spawn may have left.
LEMMA AfterSpawnFacts ==
  ASSUME IInv, NEW b \in AfterSpawn
  PROVE  /\ WellBorn(b)
         /\ \A f \in Families : Managed(b, f) <= Required[f]
         /\ ~(board.live \subseteq b.live) => pc = "reclaim"
  <1>0. WellBorn(board)
    BY DEF IInv
  <1>1. CASE b = board
    BY <1>0, <1>1, Bounded
  <1>2. ASSUME NEW o \in Objs \ board.live, Spendable(board, Family(o)), b = Minted(board, o)
        PROVE  WellBorn(b) /\ (\A f \in Families : Managed(b, f) <= Required[f])
               /\ board.live \subseteq b.live
    BY <1>0, <1>2, MintedFacts, Bounded
  <1>3. CASE hand # None /\ hand \in board.plugged /\ b = Stamped(board, hand)
    <2>1. board.label[hand] = "none" /\ todo[Family(hand)] > 0 /\ Family(hand) \in Families
      BY <1>3, ObjFacts DEF IInv, HandOwed, TypeOK, WellBorn, Boards
    <2>2. WellBorn(b) /\ b.live = board.live
          /\ \A f \in Families :
               Managed(b, f) = IF f = Family(hand) THEN Managed(board, f) + 1 ELSE Managed(board, f)
      BY <1>0, <1>3, <2>1, StampedFacts
    <2>3. \A f \in Families : Managed(b, f) <= Required[f]
      <3> SUFFICES ASSUME NEW f \in Families PROVE Managed(b, f) <= Required[f]
        OBVIOUS
      <3>1. Managed(board, f) + todo[f] <= Required[f]
        BY DEF IInv, OwedFits
      <3> QED BY <2>1, <2>2, <3>1, Bounded
    <2> QED BY <2>2, <2>3
  <1>4. CASE hand # None /\ hand \notin board.plugged /\ b = Plugged(board, hand)
    <2>1. hand \in board.live
      BY <1>4 DEF IInv, TypeOK
    <2> QED BY <1>0, <1>4, <2>1, PluggedFacts, Bounded
  <1>5. CASE b = Seated(board)
    BY <1>0, <1>5, SeatedFacts, Bounded
  <1>6. ASSUME NEW o \in board.live, Reclaiming(Family(o)), o \in Prunable(board, Family(o)),
               b = Destroyed(board, o)
        PROVE  WellBorn(b) /\ (\A f \in Families : Managed(b, f) <= Required[f])
               /\ pc = "reclaim"
    <2>1. Family(o) \in Families
      BY <1>0, ObjFacts DEF WellBorn, Boards
    <2> QED BY <1>0, <1>6, <2>1, DestroyedFacts, Bounded DEF Reclaiming
  <1> QED BY <1>1, <1>2, <1>3, <1>4, <1>5, <1>6 DEF AfterSpawn

LEMMA FailsKeeps ==
  ASSUME IInv, Fails
  PROVE  IInv'
  <1>1. End("failed") /\ board' \in AfterSpawn /\ UNCHANGED <<edits, drains>>
        /\ faults' \in 0 .. MaxFaults
    BY RunAssumption DEF Fails, Injected, IInv, TypeOK
  <1>2. WellBorn(board)' /\ \A f \in Families : Managed(board, f)' <= Required[f]
    BY <1>1, AfterSpawnFacts
  <1> QED BY <1>1, <1>2, EndKeeps DEF IInv, TypeOK

LEMMA OthersKeep ==
  ASSUME IInv,
         \/ \E f \in Families : Drain(f)
         \/ \E o \in Objs, plug \in BOOLEAN : EditAdd(o, plug)
  PROVE  IInv'
  <1>1. ASSUME NEW f \in Families, Drain(f) PROVE IInv'
    <2>1. /\ UNCHANGED <<pc, opts, todo, seatTodo, unjudged, hand, outcome, spent, edits, faults>>
          /\ drained' = TRUE /\ drains' \in 0 .. MaxDrains
          /\ board.free[f] > 0 /\ board' = [board EXCEPT !.free[f] = @ - 1]
      BY <1>1, RunAssumption DEF Drain, work, IInv, TypeOK
    <2>2. /\ WellBorn(board')
          /\ \A g \in Families : Managed(board', g) = Managed(board, g)
          /\ board'.live = board.live /\ board'.label = board.label
          /\ board'.seats = board.seats
      BY <2>1, DrainedFacts DEF IInv
    <2>3. TypeOK'
      BY <2>1, <2>2 DEF IInv, TypeOK, WellBorn
    <2> QED BY <2>1, <2>2, <2>3
            DEF IInv, HandOwed, OwedFits, OffListStocked, SeatsCounted, UnitsThere
  <1>2. ASSUME NEW o \in Objs, NEW plug \in BOOLEAN, EditAdd(o, plug) PROVE IInv'
    <2>1. /\ UNCHANGED <<pc, opts, todo, seatTodo, unjudged, hand, drained, spent, drains, faults>>
          /\ pc = "idle" /\ outcome' = "none" /\ edits' \in 0 .. MaxEdits
          /\ o \in Objs \ board.live /\ Spendable(board, Family(o))
          /\ board' = Foreigner(board, o, plug)
      BY <1>2, RunAssumption DEF EditAdd, work, history, IInv, TypeOK
    <2>2. /\ WellBorn(board')
          /\ \A g \in Families : Managed(board', g) = Managed(board, g)
          /\ board.live \subseteq board'.live
      BY <2>1, EditedFacts DEF IInv
    <2>3. hand = None
      BY <2>1 DEF IInv, HandOwed
    <2>4. TypeOK'
      BY <2>1, <2>2, <2>3 DEF IInv, TypeOK, WellBorn
    <2> QED BY <2>1, <2>2, <2>3, <2>4
            DEF IInv, HandOwed, OwedFits, OffListStocked, SeatsCounted, UnitsThere
  <1> QED BY <1>1, <1>2

-----------------------------------------------------------------------------
(* Theorems. *)

LEMMA Inductive ==
  /\ Init => IInv
  /\ IInv /\ [Next]_vars => IInv'
  <1>1. ASSUME IInv, UNCHANGED vars PROVE IInv'
    <2>1. UNCHANGED <<board, pc, opts, todo, seatTodo, unjudged, hand, outcome, drained, spent,
                      edits, drains, faults>>
      BY <1>1 DEF vars
    <2>2. TypeOK'
      BY <1>1, <2>1 DEF IInv, TypeOK
    <2>3. WellBorn(board)' /\ HandOwed' /\ UnitsThere' /\ SeatsCounted'
      BY <1>1, <2>1 DEF IInv, WellBorn, HandOwed, UnitsThere, SeatsCounted
    <2>4. OwedFits' /\ OffListStocked'
      BY <1>1, <2>1 DEF IInv, OwedFits, OffListStocked, Managed, Ours, Rows
    <2> QED BY <2>2, <2>3, <2>4 DEF IInv
  <1>2. ASSUME IInv, Tool PROVE IInv'
    BY <1>2, RefusalKeeps, EntryKeeps, GrowNothingKeeps, GrowPlannedKeeps, CreateKeeps,
       PlugKeeps, StampKeeps, GrowJudgedKeeps, SeatKeeps, PlaceKeeps, ReclaimKeeps DEF Tool
  <1>3. ASSUME IInv, Environment PROVE IInv'
    BY <1>3, FailsKeeps, OthersKeep DEF Environment
  <1> QED BY InitInv, <1>1, <1>2, <1>3 DEF Next

\* Every variable keeps its domain in every run: no plan owes a negative
\* count, no listing goes below zero, what is in hand stands.
THEOREM TypeCorrect == Spec => []TypeOK
  <1>1. IInv => TypeOK
    BY DEF IInv
  <1> QED BY <1>1, Inductive, PTL DEF Spec

\* Whatever fails and however often runs are repeated, a grow tops up: it
\* reads the managed count again and never exceeds the requirement
\* (converge_pools, drift_disposition).
THEOREM NeverOvershoots == Spec => []GrowNeverOvershoots
  <1>1. IInv => GrowNeverOvershoots
    BY Bounded DEF GrowNeverOvershoots
  <1> QED BY <1>1, Inductive, PTL DEF Spec

\* A run that leaves the grow half has the stock plugged and labelled, except
\* for families the MC had no unit of when the plan was made.
THEOREM Stock == Spec => []GrownIsStocked
  <1>1. ASSUME IInv, NEW f \in Families PROVE Poolable(board, f) = Managed(board, f)
    <2>1. Ours(board, f) \cap board.plugged = Ours(board, f)
      BY <1>1 DEF IInv, WellBorn, Ours, Rows
    <2> QED BY <2>1 DEF Poolable, Managed
  <1>2. IInv => GrownIsStocked
    BY <1>1, Bounded DEF IInv, OffListStocked, SeatsCounted, GrownIsStocked
  <1> QED BY <1>2, Inductive, PTL DEF Spec

\* The two of them: in no state of any run is a stock exceeded or claimed short.
THEOREM StockKept == Spec => []StockInv
  BY NeverOvershoots, Stock, PTL DEF StockInv

\* Nothing is taken from a root whose requirement could still be met: the
\* reclaim comes after the grow, in every run.
THEOREM ReclaimLast == Spec => ReclaimAfterStock
  <1>1. IInv /\ [Next]_vars =>
          [~(board.live \subseteq board'.live) =>
             /\ \A f \in Families : Stocked(f) \/ f \in spent
             /\ board.seats >= SeatsRequired]_vars
    <2> SUFFICES ASSUME IInv, [Next]_vars, ~(board.live \subseteq board'.live)
                 PROVE  pc = "reclaim"
      BY DEF IInv, OffListStocked, SeatsCounted, Stocked
    <2>1. CASE Fails
      BY <2>1, AfterSpawnFacts DEF Fails
    <2>2. CASE \E f \in Families : Reclaim(f)
      BY <2>2 DEF Reclaim, Reclaiming
    <2>3. CASE PlugSpawn \/ StampSpawn \/ SeatCreate \/ \E f \in Families : Drain(f)
      BY <2>3 DEF PlugSpawn, StampSpawn, SeatCreate, Drain, Plugged, Stamped, Seated,
                  IInv, WellBorn, Boards
    <2>4. CASE \E f \in Families : CreateSpawn(f)
      BY <2>4, MintedFacts DEF CreateSpawn, IInv
    <2>5. CASE \E o \in Objs, plug \in BOOLEAN : EditAdd(o, plug)
      BY <2>5, EditedFacts DEF EditAdd, IInv
    <2>6. CASE board' = board
      BY <2>6
    <2> QED BY <2>1, <2>2, <2>3, <2>4, <2>5, <2>6
            DEF Next, Tool, Environment, vars, CompileRefused, Compiled, AdmitRefused,
                AdmitPasses, GrowRefused, GrowNothing, GrowPlanned, GrowJudged, GrowShort,
                GrowDone, Proceed, ShrinkRefused, ShrinkNothing, ShrinkPlanned,
                ReclaimJudged, ShrinkDone, Overcommitted
  <1> QED BY <1>1, Inductive, PTL DEF Spec, ReclaimAfterStock

\* A create the MC refuses for want of units is another container's doing: the
\* plan never asks for more than the listing showed.
THEOREM Overcommit == Spec => OvercommitIsForeign
  <1>1. IInv /\ [Next]_vars =>
          [outcome' = "overcommit" /\ outcome = "running" => drained]_vars
    <2> SUFFICES ASSUME IInv, Next, outcome' = "overcommit", outcome = "running"
                 PROVE  drained
      BY DEF vars
    <2>1. Overcommitted
      BY DEF Next, Tool, Environment, CompileRefused, Compiled, AdmitRefused, AdmitPasses,
             GrowRefused, GrowNothing, GrowPlanned, PlugSpawn, StampSpawn, CreateSpawn,
             GrowJudged, GrowShort, SeatCreate, GrowDone, Proceed, ShrinkRefused,
             ShrinkNothing, ShrinkPlanned, Reclaim, ReclaimJudged, ShrinkDone, Fails, Drain,
             EditAdd, End, Goto
    <2>2. PICK f \in Families : pc = "grow" /\ todo[f] > 0 /\ hand = None /\ f \in Listed
                                /\ ~(board.free[f] > 0)
      BY <2>1 DEF Overcommitted, Turn, Spendable
    <2>3. ~drained => todo[f] <= board.free[f] + 0
      BY <2>2 DEF IInv, UnitsThere
    <2> QED BY <2>2, <2>3 DEF IInv, TypeOK, Boards
  <1> QED BY <1>1, Inductive, PTL DEF Spec, OvercommitIsForeign
=============================================================================
