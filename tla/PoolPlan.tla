------------------------------ MODULE PoolPlan ------------------------------
(***************************************************************************)
(* The root pool and what the planner makes of it: the census of the       *)
(* allocator trio by label (pool_lifecycle.rs), the grow and prune deltas  *)
(* at root scope (drift_disposition), the compiler's feasibility rule      *)
(* (refuse/mod.rs) and the admission verdict (admission.rs).  Pure         *)
(* operators on one observed board, as in the code.                        *)
(***************************************************************************)
EXTENDS Integers, FiniteSets

Families == {"dpmcp", "dpbp", "dpcon"}

\* The traversal order of the trio: everything draws a dpmcp.
Order == [dpmcp |-> 1, dpbp |-> 2, dpcon |-> 3]

CONSTANTS
  Ordinals,       \* ordinals the MC can hand out, of each family
  Required,       \* the compiled count of each family at root
  Elsewhere,      \* the compiled count of each family in child containers
  SeatsRequired,  \* the compiled count of root dpio seats
  Listed          \* families whose free units the MC-global listing names

ASSUME PoolAssumption ==
  /\ IsFiniteSet(Ordinals)
  /\ Required \in [Families -> Nat]
  /\ Elsewhere \in [Families -> Nat]
  /\ SeatsRequired \in Nat
  /\ Listed \subseteq Families

Objs == Families \X Ordinals
Family(o) == o[1]

\* "none" is the empty label column, read as DPL-born; "ours" any declared
\* construct name; "foreign" any other.
Labels == {"none", "ours", "foreign"}

Boards ==
  [live    : SUBSET Objs,
   plugged : SUBSET Objs,           \* what the kernel's allocator can lend
   label   : [Objs -> Labels],
   free    : [Families -> Nat],     \* units left, as the listing shows them
   seats   : Nat]                   \* root dpios: a count is all that is read

Rows(b, f) == {o \in b.live : Family(o) = f}

\* restool shows no draw: every row of a census reads free.
CensusFree(b, f) == Cardinality(Rows(b, f))

Ours(b, f) == {o \in Rows(b, f) : b.label[o] = "ours"}
Managed(b, f) == Cardinality(Ours(b, f))

\* The root prune reaches only what was never plugged (ADR-0020).
ForeignRows(b, f) == {o \in Rows(b, f) : b.label[o] = "foreign"}
Prunable(b, f) == ForeignRows(b, f) \ b.plugged

Positive(n) == IF n > 0 THEN n ELSE 0
Lesser(m, n) == IF m <= n THEN m ELSE n

\* Ceiling::Counted is the live free count itself; Ceiling::Observed (dpmcp
\* alone) is read as a bracket the population grows into.
HeadroomSigned(b, f) ==
  IF f = "dpmcp" THEN b.free[f] - CensusFree(b, f) ELSE b.free[f]
Headroom(b, f) ==
  IF f = "dpmcp" THEN Positive(b.free[f] - CensusFree(b, f)) ELSE b.free[f]

DeficitOfAll(b, f) == Required[f]
DeficitByCensus(b, f) == Positive(Required[f] - CensusFree(b, f))
Deficit(b, f) == Positive(Required[f] - Managed(b, f))

CreateUnclamped(b, f) == Deficit(b, f)
Create(b, f) ==
  IF f \in Listed THEN Lesser(Deficit(b, f), Headroom(b, f)) ELSE Deficit(b, f)

SeatDeficit(b) == Positive(SeatsRequired - b.seats)

GrowWork(b) == SeatDeficit(b) > 0 \/ \E f \in Families : Create(b, f) > 0
ShrinkWork(b) == \E f \in Families : Prunable(b, f) # {}

\* refuse/mod.rs rule 10: the whole plan against the listed number.
Feasible(b) == \A f \in Listed : Required[f] + Elsewhere[f] <= b.free[f]

\* Counted families: the listing is a live free count, destroy gives it back.
Counted == Listed \ {"dpmcp"}

\* The two ledgers: the census row of the container, the MC-global row.
Admitted(b) ==
  \A f \in Families : Create(b, f) > 0 =>
    /\ Create(b, f) <= CensusFree(b, f)
    /\ f \in Counted => Create(b, f) <= b.free[f]
=============================================================================
