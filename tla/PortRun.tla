------------------------------- MODULE PortRun -------------------------------
(***************************************************************************)
(* Runs of `dpaa2ctl ensure` over the port facet: the converge loop        *)
(* (engine.rs ensure, apply), the root-dpni prune that ends a run, the     *)
(* recording journal and the failure policy (main.rs run_ensure,           *)
(* rollback.rs, rollback_exec.rs), with the restool verbs spawn by spawn   *)
(* where a failure between two spawns leaves something behind.             *)
(*                                                                         *)
(* Runs follow one another without end, each from re-observation alone.    *)
(* A run may be killed at any point; a verb may fail at any point; between *)
(* two runs an operator may edit the board.                                *)
(***************************************************************************)
EXTENDS Reconcile, Sequences

CONSTANTS
  Allows,      \* the --allow classes a run may be given
  Prunes,      \* the --prune values
  Policies,    \* the --on-failure values, out of {"rollback", "abort"}
  Deadlines,   \* passes a run gets before its wall-clock budget is spent
  ReadBacks,   \* what a freshly created dpni's cfg may read back as
  MaxEdits,    \* bound on the operator's edits
  MaxFaults    \* bound on injected failures and kills

ASSUME RunAssumption ==
  /\ Allows \subseteq Classes
  /\ Prunes \subseteq BOOLEAN
  /\ Policies \subseteq {"rollback", "abort"}
  /\ Deadlines \subseteq Nat
  /\ ReadBacks \subseteq CfgReads
  /\ MaxEdits \in Nat
  /\ MaxFaults \in Nat

VARIABLES
  board,       \* the MC and the kernel
  pc,          \* where the run stands
  opts,        \* the options of the run
  due,         \* transitions still due, by port; Sweep is the root prune's
  seen,        \* the dpni the last observation showed on the port
  created,     \* engine.rs `created`: port -> dpni of this run
  cands,       \* root-prune candidates not yet torn down
  passes,      \* passes taken by this run
  journal,     \* recorded actuations of this run, oldest first
  unreversed,  \* rollback rows that could not be undone
  outcome,     \* how the last run ended
  before,      \* history: the board when the run under way started
  edits, faults

vars == <<board, pc, opts, due, seen, created, cands, passes, journal,
          unreversed, outcome, before, edits, faults>>

engine == <<opts, due, seen, created, cands, passes, journal, unreversed>>
budgets == <<edits, faults>>

Sweep == 0
Keys == Ports \cup {Sweep}

Options == [allow : Allows, prune : Prunes, policy : Policies, deadline : Deadlines]

RunCreated == {created[p] : p \in Ports} \ {None}

\* What ensure hands the planner as run_created.
NoFence == {}
Fence == RunCreated

NothingDue == [k \in Keys |-> {}]
NoneSeen == [k \in Keys |-> None]
NoneCreated == [p \in Ports |-> None]

Init ==
  /\ board = BootBoard /\ before = BootBoard
  /\ pc = "idle" /\ outcome = "none"
  /\ opts = None
  /\ due = NothingDue /\ seen = NoneSeen /\ created = NoneCreated
  /\ cands = {} /\ passes = 0
  /\ journal = << >> /\ unreversed = {}
  /\ edits = 0 /\ faults = 0

-----------------------------------------------------------------------------
(* The end of a run: what it held in memory dies with it. *)

End(how) ==
  /\ pc' = "idle" /\ outcome' = how
  /\ due' = NothingDue /\ seen' = NoneSeen /\ cands' = {} /\ passes' = 0
  /\ opts' = None /\ created' = NoneCreated
  /\ journal' = << >> /\ unreversed' = {} /\ before' = BootBoard

Start ==
  /\ pc = "idle"
  /\ opts' \in Options
  /\ pc' = "pass" /\ outcome' = "running"
  /\ before' = board
  /\ UNCHANGED <<board, due, seen, created, cands, passes, journal, unreversed, budgets>>

-----------------------------------------------------------------------------
(* One pass of the loop: observe, plan, and leave or go on to apply. *)

Planned == [k \in Keys |->
              IF k = Sweep THEN {} ELSE PlanPort(board, k, opts.prune, Fence)]

Converged == \A p \in Ports : Planned[p] = {}

PassConverged ==
  /\ pc = "pass"
  /\ Converged /\ Refusals(board, Fence) = {}
  /\ pc' = "prune" /\ outcome' = "converged"
  /\ UNCHANGED <<board, engine, before, budgets>>

PassRebuildRefused ==
  /\ pc = "pass"
  /\ Refusals(board, Fence) # {}
  /\ End("rebuildRefused")
  /\ UNCHANGED <<board, budgets>>

PassGateRefused ==
  /\ pc = "pass"
  /\ Refusals(board, Fence) = {}
  /\ ~Within(Planned, opts.allow)
  /\ End("gateRefused")
  /\ UNCHANGED <<board, budgets>>

PassDeadline ==
  /\ pc = "pass"
  /\ ~Converged /\ Refusals(board, Fence) = {}
  /\ Within(Planned, opts.allow)
  /\ passes >= opts.deadline
  /\ pc' = "prune" /\ outcome' = "deadline"
  /\ UNCHANGED <<board, engine, before, budgets>>

PassPlanned ==
  /\ pc = "pass"
  /\ ~Converged /\ Refusals(board, Fence) = {}
  /\ Within(Planned, opts.allow)
  /\ passes < opts.deadline
  /\ pc' = "apply"
  /\ due' = Planned
  /\ seen' = [k \in Keys |-> IF k = Sweep THEN None ELSE ConnectedTo(board, k)]
  /\ passes' = passes + 1
  /\ UNCHANGED <<board, opts, created, cands, journal, unreversed, outcome, before, budgets>>

-----------------------------------------------------------------------------
(* Applying: the transition whose turn it is, ports in order. *)

Applying == pc \in {"apply", "sweep"}

Turn(k, kind) ==
  /\ Applying
  /\ kind \in due[k]
  /\ \A other \in due[k] : Rank[kind] <= Rank[other]
  /\ \A q \in Keys : q < k => due[q] = {}

ResolveCreatedOnly(k) == IF k \in Ports THEN created[k] ELSE None

\* engine.rs resolve: the run's own dpni first, then the observed one.
Resolve(k) == IF k \in Ports /\ created[k] # None THEN created[k] ELSE seen[k]

\* The transition is done; the last one of a pass hands over to the next pass.
Advance(k, kind) ==
  LET rest == [due EXCEPT ![k] = @ \ {kind}] IN
  /\ due' = rest
  /\ pc' = IF pc = "apply" /\ (\A q \in Keys : rest[q] = {}) THEN "pass" ELSE pc

Record(kind, d) == journal' = Append(journal, [kind |-> kind, dpni |-> d])

Unchanged == UNCHANGED <<opts, seen, cands, passes, unreversed, outcome, before, budgets>>

\* create_dpni: create, then stamp the construct name; unplugged.
DoCreate(k) ==
  /\ Turn(k, "create")
  /\ \E d \in Dpnis \ board.live, read \in ReadBacks :
       /\ board' = Stamped(Minted(board, d, read), d, k)
       /\ created' = [created EXCEPT ![k] = d]
       /\ Record("created", d)
  /\ Advance(k, "create") /\ Unchanged

DoSetMac(k) ==
  /\ Turn(k, "setmac")
  /\ board' = Addressed(board, Resolve(k))
  /\ Advance(k, "setmac") /\ Unchanged /\ UNCHANGED <<created, journal>>

CanConnect(d, p) == board.peer[d] = None /\ ~Wired(board, p)

\* connect: plug, connect, sync.
DoConnect(k) ==
  LET d == Resolve(k) IN
  /\ Turn(k, "connect")
  /\ CanConnect(d, k)
  /\ board' = Joined(PluggedIn(board, d), d, k)
  /\ Record("connected", d)
  /\ Advance(k, "connect") /\ Unchanged /\ UNCHANGED created

\* bind: a best-effort nudge, recorded whatever came of it.
DoBind(k) ==
  LET d == Resolve(k) IN
  /\ Turn(k, "bind")
  /\ board' = Nudged(board, d)
  /\ Record("bound", d)
  /\ Advance(k, "bind") /\ Unchanged /\ UNCHANGED created

DoDisconnect(k) ==
  /\ Turn(k, "disconnect")
  /\ board' = Severed(board, seen[k])
  /\ Advance(k, "disconnect") /\ Unchanged /\ UNCHANGED <<created, journal>>

DoUnbind(k) ==
  /\ Turn(k, "unbind")
  /\ board' = Unbound(board, seen[k])
  /\ Advance(k, "unbind") /\ Unchanged /\ UNCHANGED <<created, journal>>

\* restool refuses to destroy a dpni a driver holds.
DoDestroy(k) ==
  /\ Turn(k, "destroy")
  /\ seen[k] \notin board.bound
  /\ board' = Destroyed(board, seen[k])
  /\ Advance(k, "destroy") /\ Unchanged /\ UNCHANGED <<created, journal>>

DoSetLabel(k) ==
  /\ Turn(k, "setlabel")
  /\ board' = Stamped(board, seen[k], k)
  /\ Advance(k, "setlabel") /\ Unchanged /\ UNCHANGED <<created, journal>>

-----------------------------------------------------------------------------
(* The root-dpni prune: undeclared labelled dpnis, after the port loop. *)

Candidates == {d \in board.live : board.label[d] \notin Ports \cup {None}}

\* Nothing to prune, or --prune withheld: the run ends with its outcome.
PruneNothing ==
  /\ pc = "prune"
  /\ Candidates = {} \/ ~opts.prune
  /\ End(outcome)
  /\ UNCHANGED <<board, budgets>>

PruneRefused ==
  /\ pc = "prune"
  /\ Candidates # {} /\ opts.prune /\ opts.allow < 2
  /\ End("gateRefused")
  /\ UNCHANGED <<board, budgets>>

PrunePlanned ==
  /\ pc = "prune"
  /\ Candidates # {} /\ opts.prune /\ opts.allow = 2
  /\ pc' = "sweep" /\ cands' = Candidates
  /\ UNCHANGED <<board, opts, due, seen, created, passes, journal, unreversed,
                 outcome, before, budgets>>

\* Each candidate: disconnect if the observation showed an edge, unbind
\* (a no-op on one no driver holds), destroy.
SweepNext ==
  /\ pc = "sweep" /\ due[Sweep] = {}
  /\ \E d \in cands :
       /\ cands' = cands \ {d}
       /\ seen' = [seen EXCEPT ![Sweep] = d]
       /\ due' = [due EXCEPT ![Sweep] =
                    {"unbind", "destroy"} \cup If(board.peer[d] # None, {"disconnect"})]
  /\ UNCHANGED <<board, pc, opts, created, passes, journal, unreversed,
                 outcome, before, budgets>>

SweepDone ==
  /\ pc = "sweep" /\ due[Sweep] = {} /\ cands = {}
  /\ End(outcome)
  /\ UNCHANGED <<board, budgets>>

-----------------------------------------------------------------------------
(* A verb that errors: what its spawns did stays on the board, the last one  *)
(* included (a restool a signal ended, a sync that failed), without a row.   *)

\* The boards a failed (or interrupted) transition of port or sweep k leaves.
Partial(k, kind) ==
  {board}
    \cup (IF kind = "create"
          THEN {Minted(board, d, read) : d \in Dpnis \ board.live, read \in ReadBacks}
                 \cup {Stamped(Minted(board, d, read), d, k) :
                         d \in Dpnis \ board.live, read \in ReadBacks}
          ELSE {})
    \cup (IF kind = "setmac" THEN {Addressed(board, Resolve(k))} ELSE {})
    \cup (IF kind = "connect" THEN {PluggedIn(board, Resolve(k))} ELSE {})
    \cup (IF kind = "connect" /\ CanConnect(Resolve(k), k)
          THEN {Joined(PluggedIn(board, Resolve(k)), Resolve(k), k)} ELSE {})
    \cup (IF kind = "setlabel" THEN {Stamped(board, seen[k], k)} ELSE {})
    \cup (IF kind = "destroy" /\ seen[k] \notin board.bound
          THEN {Destroyed(board, seen[k])} ELSE {})

\* bind is best-effort: it never fails.
Fallible == Kinds \ {"bind"}

\* The refusals the MC or restool must give, whatever the environment does.
MustFail(k, kind) ==
  \/ kind = "connect" /\ ~CanConnect(Resolve(k), k)
  \/ kind = "destroy" /\ seen[k] \in board.bound
  \/ kind = "create" /\ Dpnis \subseteq board.live

\* run_ensure: the policy over the journal, whatever the failure was.
FailurePolicy ==
  IF opts.policy = "rollback"
  THEN /\ pc' = "unwind" /\ outcome' = "failed"
       /\ due' = NothingDue /\ seen' = NoneSeen /\ cands' = {} /\ passes' = 0
       /\ UNCHANGED <<opts, created, journal, unreversed, before>>
  ELSE End("aborted")

Injected == faults < MaxFaults /\ faults' = faults + 1

VerbFails ==
  /\ \E k \in Keys, kind \in Fallible :
       /\ Turn(k, kind)
       /\ board' \in Partial(k, kind)
       /\ IF MustFail(k, kind) THEN UNCHANGED faults ELSE Injected
  /\ FailurePolicy
  /\ UNCHANGED edits

\* A read that fails ends the run through the same policy.
ReadFails ==
  /\ pc \in {"pass", "prune"}
  /\ Injected
  /\ FailurePolicy
  /\ UNCHANGED <<board, edits>>

\* The process is killed (systemd's start timeout, a crash, a power cut that
\* leaves the MC up): no policy runs, and a verb under way is cut short.
Killed ==
  /\ pc # "idle"
  /\ Injected
  /\ \/ UNCHANGED board
     \/ \E k \in Keys, kind \in Kinds : Turn(k, kind) /\ board' \in Partial(k, kind)
  /\ End("killed")
  /\ UNCHANGED edits

-----------------------------------------------------------------------------
(* The rollback executor: the journal in reverse through the reversal table. *)

LastRow == journal[Len(journal)]
Rest == SubSeq(journal, 1, Len(journal) - 1)

\* A created dpni is unbound first, then destroyed.
Undone(row) ==
  CASE row.kind = "created"   -> Destroyed(Unbound(board, row.dpni), row.dpni)
    [] row.kind = "connected" -> Severed(board, row.dpni)
    [] row.kind = "bound"     -> Unbound(board, row.dpni)

\* A disconnect of an unconnected dpni is refused by the MC.
UndoRefused(row) == row.kind = "connected" /\ board.peer[row.dpni] = None

HalfUndone(row) ==
  {board} \cup (IF row.kind = "created"
                THEN {Unbound(board, row.dpni), Undone(row)} ELSE {})

UnwindRow ==
  /\ pc = "unwind" /\ journal # << >>
  /\ ~UndoRefused(LastRow)
  /\ board' = Undone(LastRow)
  /\ journal' = Rest
  /\ UNCHANGED <<pc, opts, due, seen, created, cands, passes, unreversed,
                 outcome, before, budgets>>

\* A failed undo is reported and the unwind goes on.
UnwindRowFails ==
  /\ pc = "unwind" /\ journal # << >>
  /\ board' \in HalfUndone(LastRow)
  /\ IF UndoRefused(LastRow) THEN UNCHANGED faults ELSE Injected
  /\ unreversed' = unreversed \cup {LastRow}
  /\ journal' = Rest
  /\ UNCHANGED <<pc, opts, due, seen, created, cands, passes, outcome, before, edits>>

UnwindDone ==
  /\ pc = "unwind" /\ journal = << >>
  /\ End("rolledBack")
  /\ UNCHANGED <<board, budgets>>

-----------------------------------------------------------------------------
(* The kernel, at any time; an operator or the DPL, between runs. *)

Probe(d) ==
  /\ CanProbe(board, d)
  /\ board' = Probed(board, d)
  /\ UNCHANGED <<pc, engine, outcome, before, budgets>>

Edited ==
  {Destroyed(Unbound(board, d), d) : d \in board.live}
    \cup {Stamped(board, d, name) : d \in board.live, name \in Dpmacs \cup {None}}
    \cup {[Stamped(Minted(board, d, read), d, name) EXCEPT !.plugged = @ \cup {d}] :
            d \in Dpnis \ board.live, read \in CfgReads, name \in Dpmacs \cup {None}}
    \cup {Joined(PluggedIn(board, x[1]), x[1], x[2]) :
            x \in {y \in board.live \X Dpmacs : CanConnect(y[1], y[2])}}
    \cup {[board EXCEPT !.held = @ \cup {p}] : p \in {q \in Dpmacs : ~Wired(board, q)}}

OperatorEdits ==
  /\ pc = "idle" /\ edits < MaxEdits
  /\ edits' = edits + 1
  /\ board' \in Edited
  /\ UNCHANGED <<pc, engine, outcome, before, faults>>

-----------------------------------------------------------------------------
Do(k) ==
  \/ DoCreate(k) \/ DoSetMac(k) \/ DoConnect(k) \/ DoBind(k)
  \/ DoDisconnect(k) \/ DoUnbind(k) \/ DoDestroy(k) \/ DoSetLabel(k)

Pass ==
  \/ PassConverged \/ PassRebuildRefused \/ PassGateRefused
  \/ PassDeadline \/ PassPlanned

Prune ==
  \/ PruneNothing \/ PruneRefused \/ PrunePlanned \/ SweepNext \/ SweepDone

Unwind == UnwindRow \/ UnwindRowFails \/ UnwindDone

Tool == Start \/ Pass \/ (\E k \in Keys : Do(k)) \/ VerbFails \/ Prune \/ Unwind

Next ==
  \/ Tool \/ ReadFails \/ Killed
  \/ \E d \in Dpnis : Probe(d)
  \/ OperatorEdits

Spec == Init /\ [][Next]_vars

\* The tool keeps running (udev and systemd start it again), and a driver
\* probe that is due and stays due is eventually served.
FairSpec ==
  /\ Spec
  /\ WF_vars(Tool)
  /\ \A d \in Dpnis : WF_vars(Probe(d))

-----------------------------------------------------------------------------
(* Properties. *)

JournalRows == [kind : {"created", "connected", "bound"}, dpni : Dpnis]

\* Every variable stays in its domain.
TypeOK ==
  /\ board \in Boards /\ before \in Boards
  /\ pc \in {"idle", "pass", "apply", "prune", "sweep", "unwind"}
  /\ opts \in Options \cup {None}
  /\ due \in [Keys -> SUBSET Kinds]
  /\ seen \in [Keys -> Dpnis \cup {None}]
  /\ created \in [Ports -> Dpnis \cup {None}]
  /\ cands \subseteq Dpnis
  /\ passes \in Nat
  /\ journal \in Seq(JournalRows)
  /\ unreversed \subseteq JournalRows
  /\ outcome \in {"none", "running", "converged", "rebuildRefused", "gateRefused",
                  "deadline", "failed", "aborted", "rolledBack", "killed"}
  /\ edits \in Nat /\ faults \in Nat

\* No churn (ADR-0008 section 9): while it converges or prunes, a run never
\* destroys a dpni it created itself, even when ids are handed out again.
NoChurn ==
  [][Applying => \A d \in RunCreated : d \in board.live => d \in board'.live]_vars

\* Sever before unbind (ADR-0008 section 8): converging or pruning, finished or
\* cut short at any spawn, never leaves a driven wired port without a driver.
PortKeepsDriver ==
  [][Applying => \A p \in Phy : Driven(board, p) => Driven(board', p)]_vars

\* The gate (ADR-0015 decision 12): a run that allows less than disruptive never
\* makes, removes, wires or unwires a dpni, and one that allows only hitless
\* never relabels one, rollback included.
GateHolds ==
  [][pc # "idle" =>
       /\ opts.allow < 2 => board'.live = board.live /\ board'.peer = board.peer
       /\ opts.allow < 1 => board'.label = board.label]_vars

\* A dpni that stood at the start of the run, wired to no declared port and not
\* a candidate the run may prune, is the same object all through the run.
Foreign(d) ==
  /\ d \in before.live
  /\ before.peer[d] \notin Ports
  /\ \/ before.label[d] \in Ports \cup {None}
     \/ ~opts.prune \/ opts.allow < 2

ForeignUntouched ==
  pc # "idle" =>
    \A d \in Dpnis : Foreign(d) =>
      /\ d \in board.live
      /\ board.peer[d] = before.peer[d]
      /\ board.label[d] = before.label[d]
      /\ board.cfg[d] = before.cfg[d]

\* What the operator asked for, stated on the board alone.
Served(p) ==
  \E d \in board.live :
    /\ board.peer[d] = p
    /\ board.label[d] = p
    /\ p \in Sized => board.cfg[d] # "drift"
    /\ p \in Phy => d \in board.bound
    /\ p \in Actuate => board.mac[d] # "other"

\* A run reported converged leaves every declared port served, through the
\* prune that follows the loop.
ConvergedServes ==
  pc # "idle" /\ outcome = "converged" => \A p \in Ports \ Absent : Served(p)

\* Whenever `status` is asked, in the middle of a run too, and says converged,
\* the ports are served, and what it shows of each is so: the driver that holds
\* a PHY port is the one named and not also the other, its carrier is read from
\* a netdev that is there, and a declared MAC is not called somebody else's.
StatusHonest ==
  ~HasDiverged(board) =>
    \A p \in Ports \ Absent :
      /\ Served(p)
      /\ p \in Phy =>
           /\ Lifecycle(board, p) = "Bound"
           /\ StandaloneBoundFor(PeerObservationFromRoot(board, p)) <=> p \in board.macdrv
           /\ CarrierReadable(board, CarrierSource(board, p))
      /\ p \in Actuate => \A burnedIn \in MacReads :
           JudgeMacRelation(board, p, burnedIn) \in {"Pending", "Overridden"}

\* A rollback that reports nothing unreversed has removed every dpni the run
\* holds in `created`: none of them is stranded by a destroy refused while bound.
RollbackRemovesCreated ==
  pc = "unwind" /\ journal = << >> /\ unreversed = {} => RunCreated \cap board.live = {}

\* What a rollback that undid every row leaves behind is at most the one dpni
\* whose create erred: without an edge, so that no later run takes it for a
\* declared port's, and without a name but a declared port's, so that the root
\* prune of a later run keeps off it.
LeakIsUnwired ==
  pc = "unwind" /\ journal = << >> /\ unreversed = {} =>
    \A d \in board.live \ before.live :
      /\ board.peer[d] = None /\ board.label[d] \in Ports \cup {None}
      /\ board.live \ before.live = {d}

(* What any run, of any ending, owes the ports: the named parts above, the    *)
(* status of each port among them.                                            *)
PortInv ==
    /\ ForeignUntouched /\ ConvergedServes /\ StatusHonest
    /\ RollbackRemovesCreated /\ LeakIsUnwired

\* Every run ends.
RunsEnd == pc # "idle" ~> pc = "idle"

\* Whatever was killed, failed or edited before, once nothing disturbs the board
\* the declared ports come to be served and stay served, unless the operator
\* has wired one of them to something else.
EventuallyServed ==
  <>[](board.held \cap Ports = {} => \A p \in Ports \ Absent : Served(p))

\* What the runs owe once nothing disturbs the board: each ends, and the declared
\* ports come to be served (engine.rs ensure: plan, apply, plan again).
EventuallySettled == RunsEnd /\ EventuallyServed
=============================================================================
