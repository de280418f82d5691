------------------------------- MODULE PoolRun -------------------------------
(***************************************************************************)
(* The pool phases of `dpaa2ctl ensure` at the root container: compile and *)
(* admission, the grow half that opens a run, the shrink half that ends it *)
(* (engine.rs converge_pools, dpaa2-mc pool.rs), each create spawn by      *)
(* spawn.  Every phase reads the board again; another container's creates  *)
(* move the MC-global units at any time, an operator edits the root        *)
(* between runs, a spawn may fail and the process may be killed.           *)
(*                                                                         *)
(* A root pool object has an irreversible row in the reversal table        *)
(* (rollback.rs), so the failure policy changes nothing here and the       *)
(* journal is left out.                                                    *)
(***************************************************************************)
EXTENDS PoolPlan

CONSTANTS
  Born,        \* objects of the boot-time layout: plugged, never labelled
  FreeAtBoot,  \* units left at boot, by family
  SeatsAtBoot,
  Allows,      \* whether a run may be given --allow disruptive: a set of BOOLEANs
  Prunes,      \* the --prune values a run may be given
  MaxEdits, MaxDrains, MaxFaults

None == <<"none", "none">>

ASSUME RunAssumption ==
  /\ Born \subseteq Objs
  /\ FreeAtBoot \in [Families -> Nat]
  /\ SeatsAtBoot \in Nat
  /\ Allows \subseteq BOOLEAN /\ Prunes \subseteq BOOLEAN
  /\ MaxEdits \in Nat /\ MaxDrains \in Nat /\ MaxFaults \in Nat
  /\ None \notin Objs

VARIABLES
  board,     \* the root pool and the MC-global units
  pc,        \* where the run stands
  opts,      \* [disruptive, prune]: --allow disruptive, --prune
  todo,      \* objects the dispatch under way still owes, by family
  seatTodo,  \* dpio seats it still owes
  unjudged,  \* families dispatched and not yet read back
  hand,      \* the object between its create and its stamp
  outcome,   \* how the last run ended
  drained,   \* history: another container took a unit since the grow plan
  spent,     \* history: families the grow plan found without a unit left
  edits, drains, faults

vars == <<board, pc, opts, todo, seatTodo, unjudged, hand, outcome, drained,
          spent, edits, drains, faults>>
work == <<todo, seatTodo, unjudged, hand>>
history == <<drained, spent>>
budgets == <<edits, drains, faults>>

Options == [disruptive : Allows, prune : Prunes]
NoOptions == [disruptive |-> FALSE, prune |-> FALSE]
NothingOwed == [f \in Families |-> 0]

Init ==
  /\ board = [live |-> Born, plugged |-> Born, label |-> [o \in Objs |-> "none"],
              free |-> FreeAtBoot, seats |-> SeatsAtBoot]
  /\ pc = "idle" /\ outcome = "none" /\ opts = NoOptions
  /\ todo = NothingOwed /\ seatTodo = 0 /\ unjudged = {} /\ hand = None
  /\ drained = FALSE /\ spent = {}
  /\ edits = 0 /\ drains = 0 /\ faults = 0

End(how) ==
  /\ pc' = "idle" /\ outcome' = how
  /\ todo' = NothingOwed /\ seatTodo' = 0 /\ unjudged' = {} /\ hand' = None
  /\ opts' = NoOptions /\ drained' = FALSE /\ spent' = {}

Goto(place) == pc' = place /\ UNCHANGED <<opts, outcome>>

-----------------------------------------------------------------------------
(* Before any verb: compile against one reading, admit against another. *)

CompileRefused ==
  /\ pc = "idle" /\ ~Feasible(board)
  /\ End("infeasible")
  /\ UNCHANGED <<board, budgets>>

Compiled ==
  /\ pc = "idle" /\ Feasible(board)
  /\ pc' = "admit" /\ opts' \in Options /\ outcome' = "running"
  /\ UNCHANGED <<board, work, history, budgets>>

AdmitRefused ==
  /\ pc = "admit" /\ ~Admitted(board)
  /\ End("headroom")
  /\ UNCHANGED <<board, budgets>>

AdmitPassesToShrink ==
  /\ pc = "admit" /\ Admitted(board)
  /\ Goto("shrink")
  /\ UNCHANGED <<board, work, history, budgets>>

AdmitPasses ==
  /\ pc = "admit" /\ Admitted(board)
  /\ Goto("plan")
  /\ UNCHANGED <<board, work, history, budgets>>

-----------------------------------------------------------------------------
(* The grow half. *)

SpentOut(b, f) == f \in Listed /\ Headroom(b, f) = 0

\* What the histories note when the grow half reads the board.
Planned == drained' = FALSE /\ spent' = {f \in Families : SpentOut(board, f)}

GrowRefused ==
  /\ pc = "plan" /\ GrowWork(board) /\ ~opts.disruptive
  /\ End("gateRefused")
  /\ UNCHANGED <<board, budgets>>

GrowNothing ==
  /\ pc = "plan" /\ ~GrowWork(board)
  /\ Goto("between") /\ Planned
  /\ UNCHANGED <<board, work, budgets>>

GrowPlanned ==
  /\ pc = "plan" /\ GrowWork(board) /\ opts.disruptive
  /\ pc' = "grow" /\ Planned
  /\ todo' = [f \in Families |-> Create(board, f)]
  /\ seatTodo' = SeatDeficit(board)
  /\ unjudged' = {f \in Families : Create(board, f) > 0}
  /\ UNCHANGED <<board, opts, hand, outcome, budgets>>

\* The family whose turn it is: the first not yet read back.
Turn(f) ==
  /\ pc = "grow" /\ f \in unjudged
  /\ \A g \in unjudged : Order[f] <= Order[g]

Spendable(b, f) == f \in Listed => b.free[f] > 0
Spent(b, f) == IF f \in Listed THEN [b EXCEPT !.free[f] = @ - 1] ELSE b

Minted(b, o) == [Spent(b, Family(o)) EXCEPT !.live = @ \cup {o}]
Plugged(b, o) == [b EXCEPT !.plugged = @ \cup {o}]
Stamped(b, o) == [b EXCEPT !.label[o] = "ours"]

\* create_and_plug, first spawn.
CreateSpawn(f) ==
  /\ Turn(f) /\ todo[f] > 0 /\ hand = None /\ Spendable(board, f)
  /\ \E o \in Objs \ board.live :
       /\ Family(o) = f
       /\ board' = Minted(board, o) /\ hand' = o
  /\ UNCHANGED <<pc, opts, todo, seatTodo, unjudged, outcome, history, budgets>>

\* Second spawn: plug, before any name is on the object.
PlugSpawn ==
  /\ pc = "grow" /\ hand # None /\ hand \notin board.plugged
  /\ board' = Plugged(board, hand)
  /\ UNCHANGED <<pc, opts, work, outcome, history, budgets>>

\* Third spawn: the stamp that makes the census count it.
StampSpawn ==
  /\ pc = "grow" /\ hand # None /\ hand \in board.plugged
  /\ board' = Stamped(board, hand)
  /\ todo' = [todo EXCEPT ![Family(hand)] = @ - 1]
  /\ hand' = None
  /\ UNCHANGED <<pc, opts, seatTodo, unjudged, outcome, history, budgets>>

FamilyDispatched(f) == Turn(f) /\ todo[f] = 0 /\ hand = None

\* The read-back verdict of a family.
Stocked(f) == Managed(board, f) = Required[f]

GrowJudged(f) ==
  /\ FamilyDispatched(f) /\ Stocked(f)
  /\ unjudged' = unjudged \ {f}
  /\ UNCHANGED <<board, pc, opts, todo, seatTodo, hand, outcome, history, budgets>>

GrowShort(f) ==
  /\ FamilyDispatched(f) /\ ~Stocked(f)
  /\ End("short")
  /\ UNCHANGED <<board, budgets>>

\* A dpio seat: the row appears with its first spawn, the rest is wording.
Seated(b) == [b EXCEPT !.seats = @ + 1]

SeatCreate ==
  /\ pc = "grow" /\ unjudged = {} /\ seatTodo > 0
  /\ board' = Seated(board)
  /\ seatTodo' = seatTodo - 1
  /\ UNCHANGED <<pc, opts, todo, unjudged, hand, outcome, history, budgets>>

GrowDone ==
  /\ pc = "grow" /\ unjudged = {} /\ seatTodo = 0
  /\ Goto("between")
  /\ UNCHANGED <<board, work, history, budgets>>

\* The consumer phases run here: they are other components.
Proceed ==
  /\ pc = "between"
  /\ Goto("shrink")
  /\ UNCHANGED <<board, work, history, budgets>>

-----------------------------------------------------------------------------
(* The shrink half: at root, only the never-plugged foreign rows go. *)

ShrinkRefused ==
  /\ pc = "shrink" /\ ShrinkWork(board) /\ ~opts.disruptive
  /\ End("gateRefused")
  /\ UNCHANGED <<board, budgets>>

ShrinkNothing ==
  /\ pc = "shrink" /\ ~ShrinkWork(board)
  /\ End("converged")
  /\ UNCHANGED <<board, budgets>>

ShrinkPlanned ==
  /\ pc = "shrink" /\ ShrinkWork(board) /\ opts.disruptive
  /\ pc' = "reclaim"
  /\ unjudged' = {f \in Families : Prunable(board, f) # {}}
  /\ UNCHANGED <<board, opts, todo, seatTodo, hand, outcome, history, budgets>>

\* A destroyed object gives its unit back, but an MC portal is never returned.
Credited(b, f) ==
  IF f \in Counted THEN [b EXCEPT !.free[f] = @ + 1] ELSE b

Destroyed(b, o) ==
  [Credited(b, Family(o)) EXCEPT !.live = @ \ {o}, !.plugged = @ \ {o}, !.label[o] = "none"]

Reclaiming(f) ==
  /\ pc = "reclaim" /\ f \in unjudged
  /\ \A g \in unjudged : Order[f] <= Order[g]

Reclaim(f) ==
  /\ Reclaiming(f)
  /\ \E o \in Prunable(board, f) : board' = Destroyed(board, o)
  /\ UNCHANGED <<pc, opts, work, outcome, history, budgets>>

ReclaimJudged(f) ==
  /\ Reclaiming(f) /\ Prunable(board, f) = {}
  /\ unjudged' = unjudged \ {f}
  /\ UNCHANGED <<board, pc, opts, todo, seatTodo, hand, outcome, history, budgets>>

ShrinkDone ==
  /\ pc = "reclaim" /\ unjudged = {}
  /\ End("converged")
  /\ UNCHANGED <<board, budgets>>

-----------------------------------------------------------------------------
(* Failures: what the spawn did before it errored stays on the board. *)

Injected == faults < MaxFaults /\ faults' = faults + 1

\* The MC has no unit left for the create: an overcommit.
Overcommitted ==
  /\ \E f \in Families : Turn(f) /\ todo[f] > 0 /\ hand = None /\ ~Spendable(board, f)
  /\ End("overcommit")
  /\ UNCHANGED <<board, budgets>>

Owing(f) == Turn(f) /\ todo[f] > 0 /\ hand = None

\* The boards an errored (or killed) spawn may leave.
AfterSpawn ==
  {board}
    \cup {Minted(board, o) : o \in {o \in Objs \ board.live :
                                      Owing(Family(o)) /\ Spendable(board, Family(o))}}
    \cup (IF pc = "grow" /\ hand # None
          THEN {IF hand \in board.plugged THEN Stamped(board, hand) ELSE Plugged(board, hand)}
          ELSE {})
    \cup (IF pc = "grow" /\ unjudged = {} /\ seatTodo > 0 THEN {Seated(board)} ELSE {})
    \cup {Destroyed(board, o) : o \in {o \in board.live :
                                        Reclaiming(Family(o)) /\ o \in Prunable(board, Family(o))}}

\* A verb or a read errors, or the process is killed: alike, since nothing
\* of a root pool is undone.
Fails ==
  /\ pc # "idle"
  /\ Injected
  /\ board' \in AfterSpawn
  /\ End("failed")
  /\ UNCHANGED <<edits, drains>>

-----------------------------------------------------------------------------
(* The others. *)

\* Another container's create takes a unit.
Drain(f) ==
  /\ drains < MaxDrains /\ drains' = drains + 1
  /\ f \in Listed /\ board.free[f] > 0
  /\ board' = [board EXCEPT !.free[f] = @ - 1]
  /\ drained' = TRUE
  /\ UNCHANGED <<pc, opts, work, outcome, spent, edits, faults>>

\* The operator makes an object of their own at root, plugged or not, between
\* runs.
Foreigner(b, o, plug) ==
  [Minted(b, o) EXCEPT !.label[o] = "foreign", !.plugged = IF plug THEN @ \cup {o} ELSE @]

EditAdd(o, plug) ==
  /\ pc = "idle" /\ edits < MaxEdits /\ edits' = edits + 1
  /\ o \notin board.live /\ Spendable(board, Family(o))
  /\ board' = Foreigner(board, o, plug)
  /\ outcome' = "none"
  /\ UNCHANGED <<pc, opts, work, history, drains, faults>>

Tool ==
  \/ CompileRefused \/ Compiled \/ AdmitRefused \/ AdmitPasses
  \/ GrowRefused \/ GrowNothing \/ GrowPlanned
  \/ PlugSpawn \/ StampSpawn
  \/ \E f \in Families : CreateSpawn(f) \/ GrowJudged(f) \/ GrowShort(f)
  \/ SeatCreate \/ GrowDone \/ Proceed
  \/ ShrinkRefused \/ ShrinkNothing \/ ShrinkPlanned
  \/ \E f \in Families : Reclaim(f) \/ ReclaimJudged(f)
  \/ ShrinkDone \/ Overcommitted

Environment ==
  \/ Fails
  \/ \E f \in Families : Drain(f)
  \/ \E o \in Objs, plug \in BOOLEAN : EditAdd(o, plug)

Next == Tool \/ Environment

Spec == Init /\ [][Next]_vars

\* The unit is re-run (udev, systemd), and a run under way goes on.
FairSpec == Spec /\ WF_vars(Tool)

-----------------------------------------------------------------------------
TypeOK ==
  /\ board \in Boards /\ board.plugged \subseteq board.live
  /\ pc \in {"idle", "admit", "plan", "grow", "between", "shrink", "reclaim"}
  /\ opts \in [disruptive : BOOLEAN, prune : BOOLEAN]
  /\ todo \in [Families -> Nat] /\ seatTodo \in Nat /\ unjudged \subseteq Families
  /\ hand \in board.live \cup {None}
  /\ outcome \in {"none", "running", "infeasible", "headroom", "gateRefused", "short",
                  "converged", "failed", "overcommit"}
  /\ drained \in BOOLEAN /\ spent \subseteq Families
  /\ edits \in 0 .. MaxEdits /\ drains \in 0 .. MaxDrains /\ faults \in 0 .. MaxFaults

\* However runs fail and are repeated, the root never gets more managed
\* objects of a family than the plan derives: a grow tops up, it does not
\* start over (pool.rs module docs, "Fail-fast, no rollback chain").  Root
\* capacity cannot be reclaimed, so an overshoot would stand until reboot.
GrowNeverOvershoots == \A f \in Families : Managed(board, f) <= Required[f]

Poolable(b, f) == Cardinality(Ours(b, f) \cap b.plugged)

\* A run that goes on to the consumers has what the kernel's binds will draw:
\* the derived count of every family plugged, not merely labelled, and the
\* seats; it is short only of a family the MC showed no unit of.
GrownIsStocked ==
  pc \in {"between", "shrink"} =>
    /\ \A f \in Families : Poolable(board, f) >= Required[f] \/ f \in spent
    /\ board.seats >= SeatsRequired

(* A stock is neither exceeded nor claimed short, in any state of any run.    *)
StockInv == GrowNeverOvershoots /\ GrownIsStocked

\* Grow-first, shrink-last: no run takes an object away from a root whose
\* requirement could still be met (engine.rs converge_pools, main.rs ensure).
ReclaimAfterStock ==
  [][~(board.live \subseteq board'.live) =>
       /\ \A f \in Families : Stocked(f) \/ f \in spent
       /\ board.seats >= SeatsRequired]_vars

\* A create the MC refuses for want of units is always another container's
\* doing, since the plan of this run was read: the run's own planning never
\* asks for more than the listing shows.
OvercommitIsForeign ==
  [][outcome' = "overcommit" /\ outcome = "running" => drained]_vars

\* The MC shows less than the root still wants.
Starved(f) == f \in Listed /\ HeadroomSigned(board, f) < Deficit(board, f)

\* If runs keep being given consent, then once the disturbances stop the root
\* is stocked for good, whatever failed on the way, except with what the MC
\* has no units for, or a plan the compile or the admission turns away.
EventuallyStocked ==
  []<>opts.disruptive =>
    <>[](Feasible(board) /\ Admitted(board) => \A f \in Families : Stocked(f) \/ Starved(f))
=============================================================================
