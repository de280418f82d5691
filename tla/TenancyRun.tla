----------------------------- MODULE TenancyRun -----------------------------
(***************************************************************************)
(* The container phases of `dpaa2ctl ensure` (engine.rs                    *)
(* converge_containers, converge_population, prune_containers), spawn by   *)
(* spawn, and the failure seam of main.rs above them.  Each phase reads    *)
(* the board once, plans its verbs and issues them in order; the bus scan  *)
(* and the consumers move on their own, a verb may fail, the process may   *)
(* be killed, an operator edits the board between runs.  The port, link,   *)
(* switch and pool phases around these are other modules.                  *)
(***************************************************************************)
EXTENDS TenancyPlan

CONSTANT
  Sites   \* [board, roll, options, budget]: boards the system may start from, the
          \* intent it is run with, the options of its runs, how much goes wrong

\* The options of a run; disruption classes are 0 hitless, 2 disruptive.
Options == [allow : 0..2, prune : BOOLEAN, policy : {"rollback", "abort"}]

\* The bounds on edits by others and on failures and kills.
Budgets == [edits : Nat, faults : Nat]

ASSUME RunAssumption ==
  /\ \A s \in Sites : /\ s.board \in Boards /\ Consistent(s.board)
                      /\ s.roll \in Rolls /\ s.options \subseteq Options
                      /\ s.budget \in Budgets

VARIABLES
  board,
  choices,     \* the options runs are started with
  budget,      \* the bounds on the two counters below
  pc,          \* the phase under way
  opts,        \* [allow, prune, policy]
  queue,       \* the verbs the phase still owes
  hand,        \* the object or container the phase just created
  journal,     \* recorded actuations of this run, oldest first
  unreversed,  \* rollback rows that could not be undone
  refused,     \* prune: a candidate was refused
  outcome,     \* how the last run ended
  before,      \* history: the board when the run started
  made,        \* history: what this run recorded as created
  edits, faults

given == <<roll, choices, budget>>
vars == <<given, board, pc, opts, queue, hand, journal, unreversed, refused, outcome,
          before, made, edits, faults>>
engine == <<opts, queue, hand, journal, unreversed, refused>>
history == <<before, made>>
budgets == <<edits, faults>>

Init ==
  /\ \E s \in Sites : /\ board = s.board /\ roll = s.roll
                      /\ choices = s.options /\ budget = s.budget
  /\ pc = "idle" /\ outcome = "none" /\ opts = None
  /\ queue = << >> /\ hand = None /\ journal = << >> /\ unreversed = {}
  /\ refused = FALSE /\ before = NoBoard /\ made = {}
  /\ edits = 0 /\ faults = 0

End(how) ==
  /\ pc' = "idle" /\ outcome' = how /\ opts' = None
  /\ queue' = << >> /\ hand' = None /\ journal' = << >> /\ unreversed' = {}
  /\ refused' = FALSE /\ before' = NoBoard /\ made' = {}

\* main.rs run_ensure: any error reaches the failure policy.
Fail ==
  IF opts.policy = "abort" THEN End("failed")
  ELSE /\ pc' = "unwind" /\ outcome' = "failed" /\ queue' = << >> /\ hand' = None
       /\ UNCHANGED <<opts, journal, unreversed, refused, history>>

Start ==
  /\ pc = "idle"
  /\ opts' \in choices /\ pc' = "containers" /\ outcome' = "running"
  /\ before' = board
  /\ UNCHANGED <<board, queue, hand, journal, unreversed, refused, made, budgets>>

-----------------------------------------------------------------------------
(* The three phases: plan on one reading, or refuse before any verb. *)

Planning(phase) == pc = phase /\ queue = << >>
Owes(verbs) == queue' = verbs /\ hand' = None
PhaseUnchanged == UNCHANGED <<board, pc, opts, journal, unreversed, outcome, history, budgets>>

PlanContainers ==
  /\ Planning("containers")
  /\ MissingTenants(board) # << >> => opts.allow = 2
  /\ Owes(ContainerVerbs(board))
  /\ PhaseUnchanged /\ UNCHANGED refused

ContainersRefused ==
  /\ Planning("containers")
  /\ MissingTenants(board) # << >> /\ opts.allow < 2
  /\ End("gateRefused")
  /\ UNCHANGED <<board, budgets>>

\* Blind drift refuses the run, then the disruption gate.
PopulationRefused(b, o) ==
  \/ Drifted(b, o.allow)
  \/ PopulationDisruptive(b) /\ o.allow < 2

PlanPopulation ==
  /\ Planning("population")
  /\ ~PopulationRefused(board, opts)
  /\ Owes(PopulationVerbs(board))
  /\ PhaseUnchanged /\ UNCHANGED refused

RefusePopulation ==
  /\ Planning("population")
  /\ PopulationRefused(board, opts)
  /\ End("driftOrGateRefused")
  /\ UNCHANGED <<board, budgets>>

\* Nothing to prune, or --prune withheld: reported, never dispatched.
NothingToPrune(b, o) == Candidates(b) = {} \/ ~o.prune

PruneNothing ==
  /\ Planning("prune")
  /\ NothingToPrune(board, opts)
  /\ End("converged")
  /\ UNCHANGED <<board, budgets>>

PruneGateRefused ==
  /\ Planning("prune")
  /\ ~NothingToPrune(board, opts) /\ opts.allow < 2
  /\ End("gateRefused")
  /\ UNCHANGED <<board, budgets>>

PlanPrune ==
  /\ Planning("prune")
  /\ ~NothingToPrune(board, opts) /\ opts.allow = 2
  /\ Owes(PruneVerbs(board))
  /\ PhaseUnchanged /\ UNCHANGED refused

-----------------------------------------------------------------------------
(* The verbs, head of the queue first. *)

Next1(op) == queue # << >> /\ Head(queue).op = op
V == Head(queue)
Target == IF V.obj = None THEN hand ELSE V.obj

Record(rows) == journal' = journal \o rows
Row(kind, on, obj) == [kind |-> kind, on |-> on, obj |-> obj]
Recorded == UNCHANGED journal

Advance == queue' = Tail(queue) /\ UNCHANGED <<pc, opts, unreversed, outcome, before, budgets>>

\* dprc_create: one spawn, labelled by it.
Spawn ==
  /\ Next1("spawn") /\ Dprcs \ board.live # {}
  /\ LET c == NextId(Dprcs \ board.live)
     IN /\ board' = Spawned(board, c, V.arg)
        /\ Record(<<Row("dprc", c, None)>>) /\ made' = made \cup {c}
  /\ Advance /\ UNCHANGED <<hand, refused>>

Verdict ==
  /\ Next1("verdict") /\ Handle(board, V.arg) # None
  /\ Advance /\ UNCHANGED <<board, hand, journal, refused, made>>

MintUnheld(op, kind) ==
  /\ Next1(op) /\ V.on \notin board.locked /\ FreeIds(board, kind) # {}
  /\ board' = Minted(board, NextId(FreeIds(board, kind)), V.on)
  /\ Advance /\ UNCHANGED <<hand, journal, refused, made>>

Mint(op, kind) ==
  /\ Next1(op) /\ V.on \notin board.locked /\ FreeIds(board, kind) # {}
  /\ hand' = NextId(FreeIds(board, kind))
  /\ board' = Minted(board, hand', V.on)
  /\ Advance /\ UNCHANGED <<journal, refused, made>>

\* The last spawn of a create returns to the recorder, which writes its row.
Created(last, kind) ==
  IF last
  THEN Record(<<Row(kind, V.on, hand)>>) /\ made' = made \cup {hand}
  ELSE Recorded /\ UNCHANGED made

Stamp ==
  /\ Next1("stamp")
  /\ board' = Stamped(board, hand, V.arg)
  /\ Created(hand \in Pool, "pool")
  /\ Advance /\ UNCHANGED <<hand, refused>>

Plug ==
  /\ Next1("plug")
  /\ board' = PluggedIn(board, hand)
  /\ Created(hand \in Dpnis, "dpni")
  /\ Advance /\ UNCHANGED <<hand, refused>>

Connect ==
  /\ Next1("connect") /\ CanConnect(board, Target, V.arg)
  /\ board' = Joined(board, Target, V.arg)
  /\ Record(<<Row("edge", V.on, Target)>>)
  /\ Advance /\ UNCHANGED <<hand, refused, made>>

\* reclaim: unplug (the probe of a draw), then destroy; a held victim is skipped.
Reclaimable(b, c) == Managed(b, c) \ b.drawn

Reclaim ==
  /\ Next1("reclaim") /\ V.on \notin board.locked
  /\ \E o \in Reclaimable(board, V.on) : board' = Gone(board, {o})
  /\ Advance /\ UNCHANGED <<hand, journal, refused, made>>

\* Every candidate was held: what is not ours still goes, then the typed
\* below-draw refusal ends the run.
Below(c) == Verb("belowDraw", c, None, None)

ReclaimRefused ==
  /\ Next1("reclaim") /\ V.on \notin board.locked /\ Reclaimable(board, V.on) = {}
  /\ queue' = Only(queue, {v \in ToSet(queue) : v.op = "pruneForeign" /\ v.on = V.on})
                 \o <<Below(V.on)>>
  /\ UNCHANGED <<board, pc, opts, hand, journal, unreversed, refused, outcome, history, budgets>>

BelowDraw ==
  /\ Next1("belowDraw")
  /\ End("shrinkRefused")
  /\ UNCHANGED <<board, budgets>>

\* The same for one that is not ours, but a held victim ends the phase.
PruneForeign ==
  /\ Next1("pruneForeign") /\ V.on \notin board.locked
  /\ \E o \in Foreign(board, V.on) \ board.drawn : board' = Gone(board, {o})
  /\ Advance /\ UNCHANGED <<hand, journal, refused, made>>

\* The read-back of a populated child; a stray dpni counts as one of its own.
JudgedGood(b, t, c) ==
  /\ Cardinality(DpniRows(b, c)) >= Len(Ports[t])
  /\ CensusConverged(b, t, c)

JudgeChild ==
  /\ Next1("judge") /\ JudgedGood(board, V.arg, V.on)
  /\ Advance /\ UNCHANGED <<board, hand, journal, refused, made>>

\* dprc_kernel_bind: override, then bind; an unscanned child is left for later.
KernelBind ==
  /\ Next1("kernelBind")
  /\ board' = IF V.on \in board.scanned /\ board.driver[V.on] = "none"
              THEN Bound(Overridden(board, V.on, "kernel"), V.on, "kernel")
              ELSE board
  /\ Record(<<Row("bound", V.on, None)>>)
  /\ Advance /\ UNCHANGED <<hand, refused, made>>

Override ==
  /\ Next1("override") /\ V.on \in board.scanned
  /\ board' = Overridden(board, V.on, "vfio")
  /\ Record(<<Row("bound", V.on, None)>>)
  /\ Advance /\ UNCHANGED <<hand, refused, made>>

Bind ==
  /\ Next1("bind") /\ CanBind(board, V.on, "vfio")
  /\ board' = Bound(board, V.on, "vfio")
  /\ Record(<<Row("bound", V.on, None)>>)
  /\ Advance /\ UNCHANGED <<hand, refused, made>>

\* vfio_unbind: unbind, then clear the override.
VfioUnbound(b, c) == Overridden(Unbound(b, c), c, "none")

Unbind ==
  /\ Next1("unbind") /\ board.driver[V.on] = "vfio"
  /\ board' = VfioUnbound(board, V.on)
  /\ Advance /\ UNCHANGED <<hand, journal, refused, made>>

\* release_child_bindings: whatever driver holds the child.
Release ==
  /\ Next1("release")
  /\ board' = IF board.driver[V.on] = "none" THEN board ELSE Unbound(board, V.on)
  /\ Advance /\ UNCHANGED <<hand, journal, refused, made>>

Sever ==
  /\ Next1("sever")
  /\ board' = Severed(board, V.obj)
  /\ Advance /\ UNCHANGED <<hand, journal, refused, made>>

UnplugResident ==
  /\ Next1("unplug") /\ CanUnplug(board, V.obj)
  /\ board' = Unplugged(board, V.obj)
  /\ Advance /\ UNCHANGED <<hand, journal, refused, made>>

Destroy ==
  /\ Next1("destroy") /\ CanDestroy(board, V.on)
  /\ board' = Removed(board, V.on)
  /\ Advance /\ UNCHANGED <<hand, journal, refused, made>>

\* An attributable refusal of a teardown verb (0x10, 0x4): the candidate is
\* given up, the others still go.
TeardownRefused ==
  /\ \/ Next1("unplug") /\ ~CanUnplug(board, V.obj)
     \/ Next1("destroy") /\ ~CanDestroy(board, V.on)
  /\ queue' = Only(queue, {v \in ToSet(queue) : v.on # V.on})
  /\ refused' = TRUE
  /\ UNCHANGED <<board, pc, opts, hand, journal, unreversed, outcome, history, budgets>>

PruneDone ==
  /\ Next1("pruneVerdict")
  /\ End(IF refused THEN "pruneRefused" ELSE "converged")
  /\ UNCHANGED <<board, budgets>>

PhaseDone ==
  /\ Next1("done")
  /\ pc' = IF pc = "containers" THEN "population" ELSE "prune"
  /\ queue' = << >> /\ hand' = None
  /\ UNCHANGED <<board, opts, journal, unreversed, refused, outcome, history, budgets>>

-----------------------------------------------------------------------------
(* What goes wrong. *)

\* The board refuses the verb, or the read-back contradicts it.
Refusal ==
  \/ Next1("spawn") /\ Dprcs \subseteq board.live
  \/ Next1("verdict") /\ Handle(board, V.arg) = None
  \/ Next1("mintDpni") /\ (V.on \in board.locked \/ FreeIds(board, Dpnis) = {})
  \/ Next1("mintPool") /\ (V.on \in board.locked \/ FreeIds(board, Pool) = {})
  \/ Next1("connect") /\ ~CanConnect(board, Target, V.arg)
  \/ Next1("reclaim") /\ V.on \in board.locked
  \/ Next1("pruneForeign") /\ (V.on \in board.locked \/ Foreign(board, V.on) \cap board.drawn # {})
  \/ Next1("judge") /\ ~JudgedGood(board, V.arg, V.on)
  \/ Next1("override") /\ V.on \notin board.scanned
  \/ Next1("bind") /\ ~CanBind(board, V.on, "vfio")
  \/ Next1("unbind") /\ board.driver[V.on] # "vfio"

Refused ==
  /\ Refusal
  /\ Fail
  /\ UNCHANGED <<board, budgets>>

Injected == faults < budget.faults /\ faults' = faults + 1

\* Any read or spawn may fail.
VerbFails ==
  /\ pc \in {"containers", "population", "prune"}
  /\ Fail /\ Injected
  /\ UNCHANGED <<board, edits>>

\* What the last spawn of a recorded verb does to the board.
LastSpawn ==
  \/ /\ Next1("spawn") /\ Dprcs \ board.live # {}
     /\ board' = Spawned(board, NextId(Dprcs \ board.live), V.arg)
  \/ Next1("stamp") /\ hand \in Pool /\ board' = Stamped(board, hand, V.arg)
  \/ Next1("plug") /\ hand \in Dpnis /\ board' = PluggedIn(board, hand)
  \/ /\ Next1("connect") /\ CanConnect(board, Target, V.arg)
     /\ board' = Joined(board, Target, V.arg)

\* A spawn that dies after its command took effect, or a sync that fails behind a
\* connect: the verb errs, and what errs has no row in the journal.
ErrsAfterEffect ==
  /\ LastSpawn
  /\ Fail /\ Injected
  /\ UNCHANGED edits

Killed ==
  /\ pc # "idle"
  /\ End("killed") /\ Injected
  /\ UNCHANGED <<board, edits>>

-----------------------------------------------------------------------------
(* Rollback: the journal backwards through the reversal table. *)

LastRow == Last(journal)
Rest == Front(journal)

\* A created object is unbound from its own driver, then destroyed; a bind of
\* any kind is undone by vfio_unbind.
Undone(b, row) ==
  CASE row.kind = "dprc" -> Removed(b, row.on)
    [] row.kind \in {"dpni", "pool"} -> Gone(b, {row.obj})
    [] row.kind = "edge" -> Severed(b, row.obj)
    [] row.kind = "bound" -> VfioUnbound(b, row.on)

Undoable(b, row) ==
  CASE row.kind = "dprc" -> row.on \in b.live /\ CanDestroy(b, row.on)
    [] row.kind \in {"dpni", "pool"} -> b.home[row.obj] \notin b.locked \cup {None} /\ row.obj \notin b.drawn
    [] row.kind = "edge" -> b.edge[row.obj] # None
    [] row.kind = "bound" -> b.driver[row.on] = "vfio"

UnwindRow ==
  /\ pc = "unwind" /\ journal # << >> /\ Undoable(board, LastRow)
  /\ board' = Undone(board, LastRow) /\ journal' = Rest
  /\ UNCHANGED <<pc, opts, queue, hand, unreversed, refused, outcome, history, budgets>>

\* Reported unreversed, and the unwind goes on.
UnwindRowFails ==
  /\ pc = "unwind" /\ journal # << >>
  /\ IF Undoable(board, LastRow) THEN Injected ELSE UNCHANGED faults
  /\ unreversed' = unreversed \cup {LastRow} /\ journal' = Rest
  /\ UNCHANGED <<board, pc, opts, queue, hand, refused, outcome, history, edits>>

UnwindDone ==
  /\ pc = "unwind" /\ journal = << >>
  /\ End("rolledBack")
  /\ UNCHANGED <<board, budgets>>

-----------------------------------------------------------------------------
(* The bus, the consumers, the operator. *)

Environment == UNCHANGED <<given, pc, engine, outcome, history, faults>>

Scan(c) ==
  /\ c \in board.live \ board.scanned
  /\ board' = [board EXCEPT !.scanned = @ \cup {c}]
  /\ Environment /\ UNCHANGED edits

\* A bound consumer takes up a companion it can see.
Draw(o) ==
  /\ o \in board.plugged \ (board.drawn \cup board.hidden)
  /\ board.home[o] # None /\ board.driver[board.home[o]] # "none"
  /\ board' = [board EXCEPT !.drawn = @ \cup {o}]
  /\ Environment /\ UNCHANGED edits

\* What another tool, or an edit of the intent seen from the board, does
\* between two runs: a label rewritten, an object removed or added, a lock or an
\* unlock, an unbind.
Open == board.live \ board.locked

Edited ==
  {[board EXCEPT !.name[c] = n] : c \in board.live, n \in Names \ Peers}
    \cup {Gone(board, {o}) : o \in {x \in Objs : board.home[x] \in Open /\ x \notin board.drawn}}
    \cup {PluggedIn(Stamped(Minted(board, x[1], x[2]), x[1], n), x[1]) :
            x \in ({Max(FreeIds(board, Pool) \cup {0})} \ {0}) \X Open, n \in Names \ Peers}
    \cup {[board EXCEPT !.locked = @ \cup {c}] : c \in Open}
    \cup {[board EXCEPT !.locked = @ \ {c}] : c \in board.locked}
    \cup {Unbound(board, c) : c \in {x \in board.live : board.driver[x] # "none"}}

OperatorEdits ==
  /\ pc = "idle" /\ edits < budget.edits /\ edits' = edits + 1
  /\ board' \in Edited
  /\ Environment

-----------------------------------------------------------------------------
Phases ==
  \/ PlanContainers \/ ContainersRefused \/ PlanPopulation \/ RefusePopulation
  \/ PruneNothing \/ PruneGateRefused \/ PlanPrune \/ PhaseDone

Populating ==
  \/ Spawn \/ Verdict \/ Mint("mintDpni", Dpnis) \/ Mint("mintPool", Pool)
  \/ Stamp \/ Plug \/ Connect \/ Reclaim \/ ReclaimRefused \/ BelowDraw \/ PruneForeign
  \/ JudgeChild \/ KernelBind \/ Override \/ Bind \/ Unbind

Pruning ==
  \/ Release \/ Sever \/ UnplugResident \/ Destroy \/ TeardownRefused \/ PruneDone

Unwind == UnwindRow \/ UnwindRowFails \/ UnwindDone

Tool == Start \/ Phases \/ Populating \/ Pruning \/ Refused \/ Unwind

Next ==
  /\ \/ Tool \/ VerbFails \/ ErrsAfterEffect \/ Killed
     \/ \E c \in Dprcs : Scan(c)
     \/ \E o \in Pool : Draw(o)
     \/ OperatorEdits
  /\ UNCHANGED given

Spec == Init /\ [][Next]_vars

\* The tool keeps being run, and a created container comes to be scanned.  Some
\* Tool action is enabled in every state, so its weak fairness is []<>.
FairSpec == Spec /\ []<><<Tool>>_vars /\ \A c \in Dprcs : WF_vars(Scan(c))

-----------------------------------------------------------------------------
(* Properties. *)

Rows == [kind : {"dprc", "dpni", "pool", "edge", "bound"},
         on : Dprcs \cup {None}, obj : Objs \cup {None}]

\* Every variable stays in its domain.
TypeOK ==
  /\ board \in Boards /\ before \in Boards
  /\ pc \in {"idle", "containers", "population", "prune", "unwind"}
  /\ choices \subseteq Options /\ opts \in choices \cup {None}
  /\ \A i \in DOMAIN queue : queue[i].on \in Dprcs \cup {None}
  /\ hand \in Objs \cup {None}
  /\ \A i \in DOMAIN journal : journal[i] \in Rows
  /\ unreversed \subseteq Rows
  /\ refused \in BOOLEAN
  /\ made \subseteq Dprcs \cup Objs
  /\ budget \in Budgets /\ edits \in Nat /\ faults \in Nat

\* What the operator asked for, stated on the board alone.
Served(b, t) ==
  LET c == Handle(b, t)
  IN /\ c # None
     /\ PlanConverged(b, t, c)
     /\ Regime[t] = "vfio" => b.driver[c] = "vfio"

\* A run that ends converged leaves every declared tenant its container, its
\* wired ports, its companions and its consumer, through the prune at the end.
ConvergedServes ==
  [][pc # "idle" /\ outcome' = "converged" => \A t \in Tenants : Served(board', t)]_vars

\* The gate (ADR-0015 decision 12): a run that allows less than disruptive takes
\* nothing that stood before it: no container or resident made, removed or
\* relabelled, no edge severed, no consumer unbound, rollback included.
GateHolds ==
  pc # "idle" /\ opts.allow < 2 =>
    /\ board.live = before.live /\ board.name = before.name
    /\ board.home = before.home /\ board.tag = before.tag
    /\ board.plugged = before.plugged
    /\ \A d \in Dpnis : before.edge[d] # None => board.edge[d] = before.edge[d]
    /\ \A c \in before.live :
          before.driver[c] # "none" => board.driver[c] = before.driver[c]

\* Containers no run may touch: unlabelled ones, a second one under a declared
\* name, and a stray unless both gates are open.
Shielded(c) ==
  /\ c \in before.live
  /\ \/ before.name[c] = None
     \/ before.name[c] \in Tenants /\ c # Handle(before, before.name[c])
     \/ before.name[c] \notin Tenants /\ ~(opts.prune /\ opts.allow = 2)

Snapshot(b, c) ==
  [name |-> b.name[c], driver |-> b.driver[c], over |-> b.over[c],
   residents |-> Residents(b, c),
   labels |-> {<<o, b.tag[o]>> : o \in Residents(b, c)},
   plugged |-> Residents(b, c) \cap b.plugged,
   edges |-> {<<d, b.edge[d]>> : d \in DpniRows(b, c)}]

\* A container the run has no business with is the same all through the run,
\* its residents, edges and consumer included (ADR-0001 section 4).
UnmanagedUntouched ==
  pc # "idle" =>
    \A c \in Dprcs : Shielded(c) =>
      c \in board.live /\ Snapshot(board, c) = Snapshot(before, c)

\* Consumers before pools (pool-objects design D11): a container that stood
\* before the run goes only once nothing holds it and no dpni in it is wired.
NoDangling ==
  [][\A c \in board.live \ board'.live :
       pc = "prune" => /\ board.driver[c] = "none"
                       /\ \A d \in DpniRows(board, c) : board.edge[d] = None]_vars

\* Populate, then bind (ADR-0017): a container is handed to VFIO only with the
\* residents and the edges of its tenant in place.
PopulateThenBind ==
  [][\A c \in Dprcs : board.driver[c] # "vfio" /\ board'.driver[c] = "vfio" =>
       \E t \in Tenants : c = Handle(board, t) /\ PlanConverged(board, t, c)]_vars

\* The dpnis on an edge that was not there before the run.
Rewired == {d \in Dpnis : board.edge[d] \notin {None, before.edge[d]}}

\* A rollback that could undo every row but the binds has removed all the run
\* recorded as created, and left one edge at most that was not there: that of a
\* connect which took effect before it erred.
RollbackRestores ==
  pc = "unwind" /\ journal = << >> /\ (\A r \in unreversed : r.kind = "bound") =>
    /\ made \cap (board.live \cup {o \in Objs : board.home[o] # None}) = {}
    /\ \A d, e \in Rewired : d = e

\* The rollback table's promise (plan/rollback.rs): one vfio_unbind reverses every
\* kind of bind, so that after the row of a bind no driver holds the container.
BindsReversed ==
  [][pc = "unwind" /\ journal # << >> /\ LastRow.kind = "bound"
       /\ journal' # journal /\ faults' = faults
       => board'.driver[LastRow.on] = "none"]_vars

\* A port's dpni the run did not make, and found unplugged or hidden: what an
\* earlier run left that was killed between two spawns or refused an id.
LeftBehind(d) ==
  d \in Objs \ made /\ before.home[d] # None /\ d \notin before.plugged \ before.hidden

\* ADR-0017 decision 2: converged is what a scan would show.  A run that ends
\* converged leaves no port of a tenant unplugged or hidden, whatever earlier runs
\* went through, but for one it found so: population does not look at either.
ConvergedVisible ==
  [][pc # "idle" /\ outcome' = "converged" =>
       \A t \in Tenants : \A p \in ToSet(Ports[t]) :
         LET d == PortRow(board', Handle(board', t), p)
         IN d \in board'.plugged \ board'.hidden \/ LeftBehind(d)]_vars

\* What the phases promise of each container: the lifecycle of the typestate.
PhaseOf(c) ==
  IF c \notin board.live THEN "absent"
  ELSE IF board.driver[c] = "vfio" THEN "bound"
  ELSE IF Residents(board, c) = {} THEN "created" ELSE "populated"

Life == INSTANCE DprcLife WITH
  phase <- [c \in Dprcs |-> PhaseOf(c)],
  locked <- board.locked,
  members <- [c \in Dprcs |-> Residents(board, c)],
  up <- board.plugged

\* Whatever a run issues, and wherever it is cut short, each container goes
\* through the lifecycle of families/dprc.rs.
\* One step is not of that lifecycle: an unwind that could not undo the bind of a
\* container goes on, and destroys it from under its consumer.
Forced ==
  /\ pc = "unwind"
  /\ \E r \in unreversed : /\ r.kind = "bound" /\ board.driver[r.on] = "vfio"
                           /\ board' = Removed(board, r.on)

ImplementsLife == Life!LifeInit /\ [][Life!LifeNext \/ Forced]_(Life!lifeVars)

\* Every run ends.
RunsEnd == pc # "idle" ~> pc = "idle"

\* What no run resolves on its own: a lock, a dpmac another dpni holds, a child
\* dpni wired elsewhere, a child under the other regime's driver, a surplus in use.
Obstructed(t) ==
  LET c == Handle(board, t)
  IN \/ \E d \in Dpnis : /\ board.edge[d] \in ToSet(Ports[t])
                         /\ c = None \/ d # PortRow(board, c, board.edge[d])
     \/ c # None /\ \/ c \in board.locked
                    \/ board.driver[c] \notin {"none", Regime[t]}
                    \/ /\ PoolRows(board, c) \cap board.drawn # {}
                       /\ ~CensusConverged(board, t, c)

\* Once nothing disturbs the board, whatever was killed, failed or edited
\* before, the declared tenants come to be served and stay served.
EventuallyServed ==
  <>[]((\A t \in Tenants : ~Obstructed(t)) => \A t \in Tenants : Served(board, t))

\* Once nothing disturbs the board, whatever is labelled and declared by nobody
\* comes to be pruned, unless it is locked.
StraysPruned ==
  <>[]((\A t \in Tenants : ~Obstructed(t)) => Candidates(board) \subseteq board.locked)

-----------------------------------------------------------------------------
\* What holds in every state of a run, whatever it does: the variables stay in
\* their domains, a gate that is shut and a container that is nobody's of the
\* intent are respected (main.rs: the gate before each phase; engine.rs prune),
\* and a clean rollback leaves nothing the run recorded, and one added edge at most.
TenancyInv == TypeOK /\ GateHolds /\ UnmanagedUntouched /\ RollbackRestores

\* What a converged verdict is worth: every tenant served, and its ports shown
\* to its consumer (engine.rs: the verdict after the last phase).
ConvergedHonest == ConvergedServes /\ ConvergedVisible

\* A container goes through its lifecycle and is taken down drained (families/dprc.rs,
\* engine.rs: the order of the verbs of a dispatch).
LifeKept == ImplementsLife /\ NoDangling

\* What the runs owe once nothing disturbs the board, when all are started with
\* both gates open and under abort: each ends, the tenants are served and what
\* nobody declares is gone (main.rs: the run, started again).
Consenting == \A o \in choices : o.allow = 2 /\ o.prune /\ o.policy = "abort"
EventuallySettled == Consenting => RunsEnd /\ EventuallyServed /\ StraysPruned
=============================================================================
