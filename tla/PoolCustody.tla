----------------------------- MODULE PoolCustody -----------------------------
(* One (container, pool family) pair in the hands of the count-to-individual  *)
(* dispatch (dpaa2-mc pool.rs dispatch_pool_deltas): creates spawn by spawn,  *)
(* then victims picked from one reading and reclaimed by unplug and destroy,  *)
(* while consumers draw and return objects and another tool adds its own.     *)
(* The MC refuses to unplug an object a consumer holds; that refusal is the   *)
(* only sign of a draw the restool shim has.                                  *)
(*                                                                           *)
(* The population dispatches a tenant's container so (dispatch_child_         *)
(* population); the root's two halves dispatch the same function with the     *)
(* other half masked, PoolRun has them apart and here they follow each other. *)
EXTENDS PoolCensus

CONSTANTS
    Ids,           \* the ordinals the MC mints, least first
    Born,          \* objects of the boot layout, plugged and unlabelled
    Left,          \* plugged objects another tool made before
    UnitsAtBoot,   \* units of the family the MC has left
    Bracket,       \* the n of an observed ceiling
    Requirements,  \* the counts a plan may derive
    Custodies,     \* the custody scopes, each with the kind of its ceiling
    Readings,      \* whether the transport reads the draw: a set of BOOLEANs
    MaxDraws, MaxIntrusions, MaxEdits, MaxFaults

ASSUME CustodyAssumption ==
    /\ Ids \subseteq Nat /\ IsFiniteSet(Ids) /\ Born \subseteq Ids
    /\ Left \subseteq Ids \ Born
    /\ UnitsAtBoot \in Nat /\ Bracket \in Nat /\ Requirements \subseteq Nat
    /\ UnitsAtBoot <= Cardinality(Ids \ (Born \cup Left))
    /\ Custodies \subseteq [scope : {"root", "child"},
                            kind : {"counted", "observed", "unknown"}]
    /\ Readings \subseteq BOOLEAN

Nobody == -1

VARIABLES
    live, plugged, drawn, label,  \* the container's objects of the family
    units,      \* units left to the MC
    how,        \* [scope, kind, reads]: scope, ceiling kind, transport
    required,   \* the derived requirement
    pc,         \* where the pass stands
    todo,       \* the deltas it still owes
    seen,       \* the rows its victims are picked from
    tried,      \* victims already handled
    hand,       \* the object between two spawns of its create or reclaim
    refusal,    \* the drawn count the last pass refused with, or Nobody
    draws, intrusions, edits, faults

world == <<live, plugged, drawn, label, units>>
pass == <<todo, seen, tried, hand>>
budgets == <<draws, intrusions, edits, faults>>
vars == <<live, plugged, drawn, label, units, how, required, pc, todo, seen, tried,
          hand, refusal, draws, intrusions, edits, faults>>

Nothing == [create |-> 0, destroy |-> 0, prune |-> 0]

Init ==
    /\ live = Born \cup Left /\ plugged = live /\ drawn = {}
    /\ label = [i \in Ids |-> IF i \in Left THEN "theirs" ELSE ""]
    /\ units = UnitsAtBoot
    /\ \E c \in Custodies, reads \in Readings :
        how = [scope |-> c.scope, kind |-> c.kind, reads |-> reads]
    /\ required \in Requirements
    /\ pc = "idle" /\ refusal = Nobody
    /\ todo = Nothing /\ seen = {} /\ tried = {} /\ hand = Nobody
    /\ draws = 0 /\ intrusions = 0 /\ edits = 0 /\ faults = 0

\* The rows as the transport reports them.
Rows == {[object |-> i, label |-> label[i], plugged |-> i \in plugged,
          drawn |-> how.reads /\ i \in drawn] : i \in live}

Ceiling == [kind |-> how.kind, n |-> IF how.kind = "counted" THEN units ELSE Bracket]

Census == CensusOf(Rows)

End(drawnCount) ==
    /\ pc' = "idle" /\ refusal' = drawnCount
    /\ todo' = Nothing /\ seen' = {} /\ tried' = {} /\ hand' = Nobody

Goto(place) == pc' = place /\ UNCHANGED refusal

---------------------------------------------------------------------------
(* Judge the census.                                                        *)

JudgeRefuses ==
    /\ pc = "idle" /\ Refuses(Census, required, how.scope)
    /\ End(DrawnManaged(Census))
    /\ UNCHANGED <<world, how, required, budgets>>

JudgeEmpty ==
    /\ pc = "idle" /\ ~Refuses(Census, required, how.scope)
    /\ IsEmpty(Deltas(Census, required, Ceiling, how.scope))
    /\ End(Nobody)
    /\ UNCHANGED <<world, how, required, budgets>>

Judge ==
    /\ pc = "idle" /\ ~Refuses(Census, required, how.scope)
    /\ todo' = Deltas(Census, required, Ceiling, how.scope)
    /\ ~IsEmpty(todo')
    /\ pc' = "grow" /\ refusal' = Nobody
    /\ UNCHANGED <<world, how, required, seen, tried, hand, budgets>>

---------------------------------------------------------------------------
(* Grow: create, plug, stamp; the first error ends the pass.                *)

Least1(S) == CHOOSE i \in S : \A j \in S : i <= j

CreateSpawn ==
    /\ pc = "grow" /\ todo.create > 0 /\ units > 0
    /\ hand' = Least1(Ids \ live)
    /\ live' = live \cup {hand'} /\ units' = units - 1
    /\ label' = [label EXCEPT ![hand'] = ""]
    /\ Goto("plug")
    /\ UNCHANGED <<plugged, drawn, how, required, todo, seen, tried, budgets>>

CreateRefused ==
    /\ pc = "grow" /\ todo.create > 0 /\ units = 0
    /\ End(Nobody)
    /\ UNCHANGED <<world, how, required, budgets>>

PlugSpawn ==
    /\ pc = "plug"
    /\ plugged' = plugged \cup {hand}
    /\ Goto("stamp")
    /\ UNCHANGED <<live, drawn, label, units, how, required, pass, budgets>>

StampSpawn ==
    /\ pc = "stamp"
    /\ label' = [label EXCEPT ![hand] = "ours"]
    /\ todo' = [todo EXCEPT !.create = @ - 1]
    /\ hand' = Nobody
    /\ Goto("grow")
    /\ UNCHANGED <<live, plugged, drawn, units, how, required, seen, tried, budgets>>

Grown ==
    /\ pc = "grow" /\ todo.create = 0
    /\ IF todo.destroy = 0 /\ todo.prune = 0
       THEN Goto("readBack") /\ UNCHANGED seen
       ELSE Goto("destroy") /\ seen' = Rows
    /\ UNCHANGED <<world, how, required, todo, tried, hand, budgets>>

---------------------------------------------------------------------------
(* Reclaim: unplug, which the MC refuses for an object in use, then destroy. *)

SelectReclaimable(membership) ==
    {r \in seen : ~r.drawn /\ Membership(r) = membership /\ PrunableAt(r, how.scope)}

\* Victims go in listing order; which order that is does not matter, so any.
Victims(membership) == {r \in SelectReclaimable(membership) : r.object \notin tried}

\* Not the code: a reading that shows no draw is believed.
HeldAsSeen(r) == r.drawn

Held(r) == r.plugged /\ r.object \in drawn

Unplug(r, next) ==
    /\ plugged' = IF r.plugged THEN plugged \ {r.object} ELSE plugged
    /\ hand' = r.object
    /\ tried' = tried \cup {r.object}
    /\ Goto(next)
    /\ UNCHANGED <<live, drawn, label, units, how, required, todo, seen, budgets>>

DestroyUnplugs ==
    /\ pc = "destroy" /\ todo.destroy > 0
    /\ \E r \in Victims("Managed") : ~Held(r) /\ Unplug(r, "reap")

\* Not the code: a victim in use is an error like any other.
DestroyFailsHeld ==
    /\ pc = "destroy" /\ todo.destroy > 0
    /\ \E r \in Victims("Managed") : Held(r)
    /\ End(Nobody)
    /\ UNCHANGED <<world, how, required, budgets>>

DestroySkipsHeld ==
    /\ pc = "destroy" /\ todo.destroy > 0
    /\ \E r \in Victims("Managed") : Held(r) /\ tried' = tried \cup {r.object}
    /\ Goto("destroy")
    /\ UNCHANGED <<world, how, required, todo, seen, hand, budgets>>

Reap(next) ==
    /\ live' = live \ {hand} /\ units' = units + 1
    /\ hand' = Nobody
    /\ Goto(next)
    /\ UNCHANGED <<plugged, drawn, label, how, required, seen, tried, budgets>>

ReapManaged ==
    /\ pc = "reap"
    /\ todo' = [todo EXCEPT !.destroy = @ - 1]
    /\ Reap("destroy")

\* Those that stand of the ones tried, once the quota stays unmet.
Survivors == Cardinality(SelectReclaimable("Managed")) -
             Cardinality({r \in SelectReclaimable("Managed") : r.object \notin live})

Destroyed ==
    /\ pc = "destroy"
    /\ todo.destroy = 0 \/ Victims("Managed") = {}
    /\ refusal' = IF todo.destroy > 0 THEN Survivors ELSE refusal
    /\ pc' = "prune"
    /\ UNCHANGED <<world, how, required, pass, budgets>>

PruneUnplugs ==
    /\ pc = "prune" /\ todo.prune > 0
    /\ \E r \in Victims("Foreign") : ~Held(r) /\ Unplug(r, "reapForeign")

PruneFailsHeld ==
    /\ pc = "prune" /\ todo.prune > 0
    /\ \E r \in Victims("Foreign") : Held(r)
    /\ End(Nobody)
    /\ UNCHANGED <<world, how, required, budgets>>

ReapForeign ==
    /\ pc = "reapForeign"
    /\ todo' = [todo EXCEPT !.prune = @ - 1]
    /\ Reap("prune")

Pruned ==
    /\ pc = "prune" /\ (todo.prune = 0 \/ Victims("Foreign") = {})
    /\ Goto("readBack")
    /\ UNCHANGED <<world, how, required, pass, budgets>>

ReadBack ==
    /\ pc = "readBack"
    /\ End(refusal)
    /\ UNCHANGED <<world, how, required, budgets>>

Spawn == CreateSpawn \/ PlugSpawn \/ StampSpawn \/ DestroyUnplugs \/ PruneUnplugs
         \/ ReapManaged \/ ReapForeign

Pass ==
    \/ JudgeRefuses \/ JudgeEmpty \/ Judge \/ CreateRefused \/ Spawn \/ Grown
    \/ DestroySkipsHeld \/ Destroyed \/ PruneFailsHeld \/ Pruned \/ ReadBack

---------------------------------------------------------------------------
(* Everyone else.                                                           *)

\* A verb fails, or the process is killed: what stands is left standing.
Fail ==
    /\ pc # "idle" /\ faults < MaxFaults /\ faults' = faults + 1
    /\ End(Nobody)
    /\ UNCHANGED <<world, how, required, draws, intrusions, edits>>

Draw(i) ==
    /\ i \in plugged \ drawn /\ draws < MaxDraws
    /\ drawn' = drawn \cup {i} /\ draws' = draws + 1
    /\ UNCHANGED <<live, plugged, label, units, how, required, pc, pass, refusal,
                   intrusions, edits, faults>>

Return(i) ==
    /\ i \in drawn
    /\ drawn' = drawn \ {i}
    /\ UNCHANGED <<live, plugged, label, units, how, required, pc, pass, refusal,
                   budgets>>

\* Another tool creates an object under a name of its own.
Intrude ==
    /\ intrusions < MaxIntrusions /\ intrusions' = intrusions + 1
    /\ units > 0 /\ units' = units - 1
    /\ LET i == Least1(Ids \ live)
       IN  /\ live' = live \cup {i}
           /\ plugged' \in {plugged, plugged \cup {i}}
           /\ label' = [label EXCEPT ![i] = "theirs"]
    /\ UNCHANGED <<drawn, how, required, pc, pass, refusal, draws, edits, faults>>

\* The operator's next plan derives another count.
Retarget ==
    /\ pc = "idle" /\ edits < MaxEdits /\ edits' = edits + 1
    /\ required' \in Requirements \ {required}
    /\ refusal' = Nobody
    /\ UNCHANGED <<world, how, pc, pass, draws, intrusions, faults>>

Next == Pass \/ Fail \/ Intrude \/ Retarget \/ \E i \in Ids : Draw(i) \/ Return(i)

Spec == Init /\ [][Next]_vars /\ WF_vars(Pass)

---------------------------------------------------------------------------

Ours == {i \in live : label[i] = "ours"}
Theirs == {i \in live : label[i] = "theirs"}

\* The types of the variables; no count a pass owes is negative.
TypeOK ==
    /\ live \subseteq Ids /\ plugged \subseteq live
    /\ label \in [Ids -> Labels]
    /\ units \in Nat
    /\ todo \in [create : Nat, destroy : Nat, prune : Nat]
    /\ hand \in live \cup {Nobody}
    /\ refusal \in Nat \cup {Nobody}

\* The arithmetic on counts says what the objects themselves say, whatever
\* mix of drawn, foreign and boot objects stands: how many are ours, how many
\* of those may be destroyed, and what the root may prune; an empty emission
\* and the converged judgement agree (PoolCensus, drift_disposition).
CensusExact ==
    LET c == Census
        held == IF how.reads THEN drawn ELSE {}
    IN  /\ c.free + c.drawn = c.population
        /\ ManagedOf(c) = Cardinality(Ours)
        /\ ManagedFree(c) = Cardinality(Ours \ held)
        /\ ForeignFreeUnplugged(c) = Cardinality(Theirs \ (plugged \cup held))
        /\ ~Refuses(c, required, how.scope) =>
            LET d == Deltas(c, required, Ceiling, how.scope)
            IN  /\ d.create > 0 <=> GrowEnabled(c, required, Ceiling)
                /\ how.scope = "child" => (d.destroy > 0 <=> ShrinkEnabled(c, required))
                /\ ConvergedAt(c, required) => IsEmpty(d)
        /\ RebootRequired(c.labeled_plugged, required) <=>
            Cardinality({i \in plugged : label[i] # ""}) > required

\* What a consumer holds stays plugged and alive, though victims are picked
\* from a reading in which every row looked free (reclaim).
HeldStands == drawn \subseteq plugged /\ drawn \subseteq live

\* No pass touches the boot layout; at the root none takes away an object the
\* allocator has bound, foreign ones included (select_reclaimable).
BootAndRootStay ==
    [][/\ Born \subseteq live' /\ Born \subseteq plugged'
       /\ how.scope = "root" => plugged \subseteq plugged']_vars

\* Over repeated, failed and killed passes no managed object is created over
\* the requirement and none destroyed at it or below.
SizedByNeed ==
    [][/\ Cardinality(Ours') > Cardinality(Ours) => Cardinality(Ours') <= required
       /\ Cardinality(Ours') < Cardinality(Ours) => Cardinality(Ours) > required]_vars

\* A refusal the probes discovered names a count the requirement is below:
\* what the operator reads adds up (dispatch_pool_deltas).
RefusalAddsUp == pc = "idle" /\ refusal # Nobody /\ ~how.reads => refusal > required

\* Once consumers, operators and failures leave it alone, the container comes
\* to hold the count the plan derives, unless more than that is in use, the
\* ceiling admits no create, or the surplus stands in a grow-only root.
Sized ==
    LET n == Cardinality(Ours)
    IN  \/ n = required
        \/ n < required /\ (units = 0 \/ ~AdmitsCreate(Census, Ceiling))
        \/ n > required /\ how.scope = "root"
        \/ how.scope = "child" /\ Cardinality({i \in drawn : label[i] # ""}) > required

EventuallySized == <>[]Sized

-----------------------------------------------------------------------------
\* What holds between any two spawns of a pass: the counts say what the objects
\* say, what is in use stands, a refusal adds up (PoolCensus, reclaim).
CustodyInv == TypeOK /\ CensusExact /\ HeldStands /\ RefusalAddsUp

\* A pass takes only its own surplus: creates and destroys stop at the
\* requirement, the boot layout and the root's bound objects stay.
TakesOnlySurplus == SizedByNeed /\ BootAndRootStay
=============================================================================
