----------------------------- MODULE PoolCensus -----------------------------
(* The law of one container's pool of one family, at the level of counts      *)
(* (families/pool_lifecycle.rs): rows as observed, the census they add up to, *)
(* and what the planner emits for it in the root and in a child container.    *)
EXTENDS Integers, FiniteSets

\* Floors at zero and caps, as max(0) and min do.
AtLeastZero(n) == IF n > 0 THEN n ELSE 0
Least(m, n) == IF m <= n THEN m ELSE n

Count(rows) == Cardinality(rows)

\* A row is [object, label, plugged, drawn]; "" is the empty label column,
\* "ours" any declared name, "theirs" any other.
Labels == {"", "ours", "theirs"}

LabelMembership(label) ==
    CASE label = ""       -> "DplBorn"
      [] label = "ours"   -> "Managed"
      [] label = "theirs" -> "Foreign"

Membership(row) == LabelMembership(row.label)

PrunableAt(row, scope) ==
    Membership(row) # "Foreign" \/ scope = "child" \/ ~row.plugged

Of(rows, membership, drawn) ==
    {r \in rows : Membership(r) = membership /\ r.drawn = drawn}

CensusOf(rows) ==
    [population           |-> Count(rows),
     free                 |-> Count({r \in rows : ~r.drawn}),
     drawn                |-> Count({r \in rows : r.drawn}),
     born                 |-> Count(Of(rows, "DplBorn", FALSE)),
     born_drawn           |-> Count(Of(rows, "DplBorn", TRUE)),
     foreign_free         |-> Count(Of(rows, "Foreign", FALSE)),
     foreign_drawn        |-> Count(Of(rows, "Foreign", TRUE)),
     foreign_free_plugged |-> Count({r \in Of(rows, "Foreign", FALSE) : r.plugged}),
     labeled_plugged      |-> Count({r \in rows : r.plugged /\ r.label # ""})]

ManagedOf(c) ==
    c.population - c.born - c.foreign_free - c.born_drawn - c.foreign_drawn

ManagedFree(c) == c.free - c.born - c.foreign_free

DrawnManaged(c) == c.drawn - c.born_drawn

ForeignFreeUnplugged(c) == c.foreign_free - c.foreign_free_plugged

\* A ceiling is [kind, n]: a live free count, a bracket the population grows
\* into, or unknown.
AdmitsCreate(c, ceiling) ==
    \/ ceiling.kind = "counted" /\ ceiling.n > 0
    \/ ceiling.kind = "observed" /\ c.population < ceiling.n
    \/ ceiling.kind = "unknown"

GrowEnabled(c, requirement, ceiling) ==
    ManagedOf(c) < requirement /\ AdmitsCreate(c, ceiling)

ShrinkEnabled(c, requirement) == ManagedOf(c) > requirement /\ ManagedFree(c) > 0

ConvergedAt(c, requirement) == ManagedOf(c) = requirement /\ c.foreign_free = 0

ShrinksBelowDraw(c, requirement) == requirement < DrawnManaged(c)

CreateOf(c, requirement, ceiling) ==
    LET deficit == AtLeastZero(requirement - ManagedOf(c))
    IN  CASE ceiling.kind = "counted"  -> Least(deficit, AtLeastZero(ceiling.n))
          [] ceiling.kind = "observed" -> Least(deficit, AtLeastZero(ceiling.n - c.population))
          [] ceiling.kind = "unknown"  -> deficit

\* Not the code: the surplus of everything that stands.
SurplusOfAll(c, requirement) == Least(AtLeastZero(c.population - requirement), ManagedFree(c))

DestroyOf(c, requirement) ==
    Least(AtLeastZero(ManagedOf(c) - requirement), ManagedFree(c))

Refuses(c, requirement, scope) == scope = "child" /\ ShrinksBelowDraw(c, requirement)

\* drift_disposition, where it does not refuse.
Deltas(c, requirement, ceiling, scope) ==
    [create  |-> CreateOf(c, requirement, ceiling),
     destroy |-> IF scope = "child" THEN DestroyOf(c, requirement) ELSE 0,
     prune   |-> IF scope = "child" THEN c.foreign_free ELSE ForeignFreeUnplugged(c)]

IsEmpty(deltas) == deltas.create = 0 /\ deltas.destroy = 0 /\ deltas.prune = 0

\* The residue a grow-only root reports: a reboot is the way back.
RebootRequired(observed, required) == observed > required
=============================================================================
