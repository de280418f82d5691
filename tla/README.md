# A formal model of the DPAA2 control plane

This directory models `dpaa2ctl`, the level-triggered reconciler that brings the
objects of an NXP Management Complex (dpni, dpmac, dprc, dpsw, dpio, dpbp, dpcon,
dpmcp, dpseci) to a declared intent.  The modules are TLA+; TLC checks them on
small boards and TLAPS proves the theorems listed below for every board.

Paths in this file are relative to the repository's root.

## 1. The system

### 1.1 How it works

`dpaa2ctl ensure` compiles `topology.toml` into a plan, then runs a fixed
sequence of phases (`crates/dpaa2-tools/src/main.rs`, `ensure`): admission, root
pool grow, the port loop, containers, population, links, switches, container
prune, switch prune, root-dpni prune, root pool shrink, link files.  Each phase
observes the board, plans with a pure function, gates the plan on its disruption
class, and actuates.  Nothing is persisted: the Management Complex (MC) and the
kernel are the only state, and a run that fails is followed by another that
starts from observation.  Inside one run a journal of successful actuations is
kept; a verb that errors sends the run through the failure policy (`rollback`
replays the journal in reverse, `abort` leaves the prefix standing).

The board is driven through two seams: `McControl` (implemented over the
`restool` command, one process per spawn, several spawns per verb) and
`KernelControl` (sysfs).  Both are fallible at every spawn, and the kernel acts
on its own: a plugged dpni is probed by `fsl_dpaa2_eth` whenever the bus rescans.

### 1.2 Components

| component | code | state | operations | hard behaviour | modules |
|---|---|---|---|---|---|
| port planner | `dpaa2-api/src/plan/reconcile.rs`, `report.rs`, `transition.rs` | none (pure) | `reconcile_with` | no-churn fence, bind-window transients | `Reconcile` |
| port loop | `dpaa2-tools/src/engine.rs` `ensure`, `apply` | `created` map, deadline | observe, plan, gate, apply | probes between observe and apply, killed runs | `PortBoard`, `PortRun` |
| root-dpni prune | `engine.rs` `prune_root_dpnis` | candidate list | sever, unbind, destroy | must spare foreign and declared objects | `PortRun` |
| status | `dpaa2-tools/src/status.rs`, `families/dpmac.rs` | none | divergence, owner, carrier, MAC of a port | asked in the middle of a run | the status part of `Reconcile` |
| root pool | `engine.rs` `converge_pools`, `plan/pool.rs`, `plan/admission.rs`, `plan/capacity.rs` | none between runs | grow, shrink, admit | budgets race with other tools | `PoolPlan`, `PoolRun` |
| pool custody | `families/pool_lifecycle.rs`, `dpaa2-mc/src/pool.rs` | none | census, dispositions, create, reclaim | which objects are in use is not shown | `PoolCensus`, `PoolCustody` |
| containers | `engine.rs` `converge_containers`, `prune_containers`, `plan/dprc.rs`, `families/dprc.rs` | none | create, release, drain, destroy | locked and bound children | `TenancyBoard`, `TenancyPlan`, `TenancyRun`, `DprcLife` |
| population | `engine.rs` `converge_population`, `plan/populate.rs`, `dpaa2-mc/src/populate.rs` | none | child dpnis, companions, crypto blocks, VFIO handoff | order against the handoff | the same, `PoolCustody`, `CryptoRun` |
| dpseci planner | `plan/dpseci.rs`, `families/dpseci.rs` | none | census by signature, creates, destroys | reads through a portal that goes dark | `CryptoRun` |
| links | `engine.rs` `converge_links`, `plan/connect.rs` | none | resolve ends, connect, plug | two passes may make one end | `DpswBlock`, `FabricPlan`, `FabricRun` |
| switched domains | `engine.rs` `converge_switches`, `plan/dpsw.rs`, `families/dpsw.rs` | none | interpose, create, connect, plug, recreate, prune | severing under a live port | `DpswBlock` and the same |
| matcher | `plan/matcher.rs` | none (pure) | keep, rename, create, destroy | label ambiguity, swaps | `Matcher`, `MatchRun` |
| recording, rollback | `contract/recording.rs`, `plan/rollback.rs`, `plan/rollback_exec.rs` | the journal | record, reverse, execute | undo order, undo failure | every run module |
| intent compiler | `dpaa2-api/src/intent/*` | none (pure) | derive, refuse | totals, collisions, names | `IntentDerive`, `IntentRefuse`, `IntentFile` |
| config parser | `dpaa2-config` | none (pure) | raw document to intent | checks written twice | `IntentParse`, `IntentFile` |
| families | `dpaa2-api/src/families/*` | typestates | lifecycle, create blocks, judgments | predicted read-backs | `DprcLife`, `DpniBlock`, `DpswBlock`, `CryptoRun` |
| restool adapter | `dpaa2-mc/src/restool.rs`, `runner.rs` | none | verbs of several spawns | partial verbs, one opener per portal | `VerbScript`, `VerbLife`, `PortalVerb` |
| kernel adapter | `dpaa2-mc/src/kernel.rs` | none | bind, unbind, overrides | lost release races | `PortRun`, `TenancyRun` |
| HAL | `dpaa2-hal` | none | sysfs, MC portal | a session that stays open | `CryptoRun` (the session) |
| board suites | `dpaa2-verify/src/board/adapter.rs`, `generate.rs`, `safety.rs`, `driver.rs` | script position, names read, transcript | generate, drive, tear down, judge | cut anywhere, on a board others share | `SuiteMachine`, `SuiteAdapter`, `SuiteGen`, `SuiteRun` |

What makes each correct: the planner must not plan to destroy what the run just
created; the loop must end, serve the declared ports and leave the rest alone;
the pool must never shrink below what is drawn; a container must be empty before
it goes, complete before it is handed over and untouched while a guest holds it;
no edge that is not the intent's may be cut, and a device is shown to a driver
only when its edges stand; a rename moves a label and no hardware; a plan never
names what it does not make; a verb's commands reach the MC at most once; a
rollback must remove what the run recorded as made and nothing else, and leave no more
than the effect of the verb that failed.

### 1.3 How the parts interact

* A phase *calls* its planner on one observation; the planner is pure, so every
  fact it used may be stale by the time the phase actuates.
* Phases share nothing but the board and, through `RecordingMc` and
  `RecordingKernel`, the journal.  What one phase leaves behind (a dpni plugged
  but not connected, a pool object without a stamp) the next observes.
* The port loop, the population and the switches all draw on the root pool that
  the grow half stocked, which is why grow runs first and shrink last.
* Population wires the child's side of a link and the link pass the root's; the
  two look for the same ends on two readings.
* The kernel *calls back*: a plug, a connect or a nudge makes a driver probe due,
  and the probe binds the dpni, claims the MAC of its port and may give an unset
  dpni an address, at any time from then on.  A new container is scanned some
  time after its create; a driver that takes a container draws its companions.
* Other containers share the MC-global units with the root; the operator, the
  boot layout (DPL) and other tools share the objects, and other restool
  processes the portal.

## 2. Plan

In the order of how much a defect would cost on a running board.

| # | modules | composes | abstract specification | state |
|---|---|---|---|---|
| 1 | `PortBoard`, `Reconcile`, `PortRun` | the planner on the board, under the loop, the journal and the failure policy; status asked at any time | a run *serves* each declared port or leaves it alone (`Served`) | every safety property of the runs proved |
| 2 | `PoolPlan`, `PoolRun` | the pool planner under the grow and shrink halves | the stock of a family goes up to its requirement and never past it | every safety property proved |
| 3 | `TenancyBoard`, `Queues`, `TenancyPlan`, `TenancyRun` | containers, population, handoff and prune under the failure policy | `DprcLife`, the lifecycle of the typestate, implemented | every safety property and the refinement proved |
| 4 | `DpswBlock`, `FabricPlan`, `FabricRun` | population's half of links, the link pass, the switch pass and its prune | | every safety property proved |
| 5 | `VerbScript`, `PortalVerb` | the scripts of the verbs under spawn, retry and answer | `VerbLife`, what the other modules assume of a verb, implemented | every safety property and the refinement proved |
| 6 | `IntentParse`, `IntentDerive`, `IntentRefuse`, `IntentFile`, with `DpniBlock`, `DpswBlock` | the file through parser, completion and compiler to the create blocks and the edges | reference definitions of what a plan owes | checked |
| 7 | `Matcher`, `MatchRun` | the matching under edits and drift | | checked |
| 8 | `PoolCensus`, `PoolCustody` | the law of counts under the dispatch to individuals | what the objects themselves say (`CensusExact`) | every safety property proved |
| 9 | `CryptoRun` | the dpseci read-back under the portal session, the census and the dispatch | as many objects of each signature as planned (`AsMany`) | every safety property proved |
| 10 | `SuiteMachine`, `SuiteAdapter`, `SuiteGen`, `SuiteRun` | the generator's suite on the board, under its trap or its online driver | the model's trace, which a passing verdict implies of the board | checked |

Section 6.8 says what is only model-checked, and why.

## 3. The modules and the code

### 3.1 The port facet

`PortBoard` is the external part: the objects and edges of the Management Complex
and the two drivers that may hold a port, as `dpaa2-mc` uses them and
`docs/adr/0008-*` measured them.  A board is one record.  `Driven(b, p)` is the
fact of ADR-0008 section 8: a wired port is driven by the standalone MAC driver
or by the netdev of its own bound dpni.  `Severed` re-attaches the standalone
driver at once when the dpni is bound; `Unbound` asks for it but the probe defers
while the edge stands, so nothing is re-attached.  `CanProbe`/`Probed` is
`fsl_dpaa2_eth` taking a plugged dpni that is due a probe.

`Reconcile` is `reconcile_with`: a port's transition list is a *set* of kinds,
since every list the code builds names each kind at most once and follows one
order (`Rank`).  `CfgReads` says what the typed configuration read-back amounts
to (`DpniBlock` says how it comes about); `opaque` is a read-back the shim could
not map, which is no drift.  `Refusals` is the no-churn fence and `Within` the
disruption gate.

`PortRun` is the run.

| state | code |
|---|---|
| `pc` | where `ensure` stands: `pass` (about to observe), `apply`, `prune` (loop left), `sweep` (pruning), `unwind` (rolling back) |
| `opts` | `--allow`, `--prune`, `--on-failure` and the deadline of the run |
| `due`, `seen` | the transitions of the pass not yet applied, and the dpni the observation showed; key 0 is the root prune's |
| `created` | the `created` map of `ensure`; `Resolve` is `resolve` |
| `cands` | the victims `prune_root_dpnis` has yet to tear down |
| `journal`, `unreversed` | `RecordingMc`/`RecordingKernel` rows; the rows the executor could not undo |
| `before` | history: the board when the run started |

| actions | code |
|---|---|
| `PassConverged` .. `PassPlanned` | one turn of the `ensure` loop, one action per way out of it |
| `DoCreate` .. `DoSetLabel` | the arms of `apply`, each with the restool spawns it makes |
| `PruneNothing` .. `SweepDone` | `prune_root_dpnis` |
| `VerbFails` | a verb that errors, on every board the spawns it executed can have left, all of them included (`Partial`), followed by the policy of `run_ensure` |
| `ReadFails`, `Killed` | a failed observation; a killed process, between verbs or inside one |
| `UnwindRow`, `UnwindRowFails`, `UnwindDone` | `execute_rollback` over `reverse` |
| `Probe` | the kernel |
| `OperatorEdits` | between runs: a dpni destroyed, made, relabelled, connected, or a dpmac wired to another family |

The refusals the MC or restool must give (`MustFail`) cost nothing from the fault
budget: connecting what is connected, destroying what a driver holds, creating
with no id left.  Ids are handed out again after a destroy.

The status part of `Reconcile` is `dpaa2ctl status --detail`: a pure reading of the
board, so it has no action of its own, and `StatusHonest` asks it in every state of
a run.

### 3.2 The root pool

`PoolPlan` is the census (`census_of`), the disposition at root scope
(`drift_disposition`), rule 10 of the compiler (`feasibility_refusals`) and
`admit`.  restool shows no draw, so every row reads free; a dpmcp ceiling is
`Observed` and read as a bracket, the others are `Counted`.

`PoolRun` is one phase after another: compile and admission (`idle`, `admit`),
the grow half (`plan`, `grow`), the consumers (`between`), the shrink half
(`shrink`, `reclaim`).  A create is three spawns (`CreateSpawn`, `PlugSpawn`,
`StampSpawn`), `hand` being the object in between.  `GrowJudged` and `GrowShort`
are the two verdicts of the read-back.  `Drain` is another container's create,
enabled at every moment; `EditAdd` the operator's object, between runs; `Fails`
an errored spawn, a failed read or a kill, which are alike because the reversal
table makes every root pool row irreversible.  `drained` and `spent` are
histories: whether another container took a unit since the grow plan, and which
families the plan found without one.

### 3.3 Containers and their population

`TenancyBoard` is external: child DPRCs with a label, a lock, a driver, an
override and whether the bus has scanned them; their residents with a label, a
plug and whether a consumer drew them or the driver of the container has yet to
see them (`hidden`); the edges of child dpnis to root dpmacs.  Binding scans the
container and shows every resident; what is plugged into a container that VFIO
already holds stays hidden until a rebind.

`TenancyPlan` is each planner on one reading of the board, as the *sequence of
verbs* the engine then issues: `ContainerVerbs` (`plan/dprc.rs`), `ChildVerbs`
(`plan_child_population` and `dispatch_child_population`: port dpnis in plan
order, then companions, then the judgment, then the handoff), `BindVerbs` (what
`converge_population` does with the regime and the driver found), `TeardownVerbs`
and `PruneVerbs`.  Companions are one class of residents here; `PoolCustody` has
their counts object by object.  `Queues` has the two ways the planners pick and sort
(`Only`, `InOrder`) and what is true of a queue put together from others.  The verdict that follows a rebind is not there:
`vfio_unbind` clears `driver_override`, so the bind of the cycle always fails
before it (section 4.3).

`TenancyRun` keeps `queue` (the verbs owed) and `hand` (the object just created)
beside the state of `PortRun`; each verb is one action, each refusal the board
must give is `Refusal`, a failure before the effect of a spawn is `VerbFails`, one
behind the last spawn of a recorded verb is `ErrsAfterEffect` (`LastSpawn` lists
them: the effect stays, no row is written), and a teardown refusal only gives up its candidate
(`TeardownRefused`).  A companion a consumer holds is no victim of a reclaim; when
none is left to take, what is foreign in that container still goes and the run ends
below its draw (`ReclaimRefused`, `BelowDraw`).  `budget` bounds the edits and the
faults of a behaviour.  `Scan` and `Draw` are the bus and the consumers.  The undo
of every bind, a kernel one included, is `vfio_unbind`, as in `reverse`.

`DprcLife` is the abstract specification: the phases and verbs of
`Container<Declared/Created/Populated/Bound>` in `families/dprc.rs`, with the lock
and the plugs.  `TenancyRun` implements it under `PhaseOf` (`ImplementsLife`), but
for one step: the unwind goes on past a row it could not undo (`rollback_exec.rs`), so
that it may destroy a container the VFIO driver still holds (`Forced`), which takes a
failure, a second one in the unbind of the rollback, and residents that are gone by then.  The
typestate is advice to a caller that holds a handle, while a run re-reads the
board and may be cut anywhere, so that its verbs stay inside the lifecycle is not
a matter of types.

### 3.4 Links and switched domains

The first half of `FabricPlan` is external: dpnis in the root and in children, root
dpsws, their interfaces, and edges between any two ends.  The second is what each phase owes:
population's children's ends (`dpaa2-mc/src/populate.rs`), `plan_wire` and
`converge_links`, the verdicts on a switch and `RaiseVerbs` (interposition:
sever the uplink's peer, create, stamp, connect every port, plug), the recreate of
a drifted switch and the prune.  `FabricRun` is one phase after another like
`TenancyRun`, `LastSpawn` and `ErrsAfterEffect` included.  A port row of the journal undoes itself with its switch.

`DpswBlock` also holds the table of `plan/connect.rs`: which families and ports may face
each other and what making and breaking the edge takes.  `DpswBlock` is a
switch's create block, from the compiled fabric through the arguments of restool
to the lines `dpsw info` prints and back through the census; in `FabricRun` all
of it is the bit `drifted`.  The interface faces and counters of a switch are
display only and left out.  What the firmware answers (`DpswInfo`) is external.

### 3.5 The intent

`IntentParse` is what the parser refuses before there is an intent and the intent
it hands on; `IntentRefuse` every rule of `intent/refuse`, all run on every intent
and united; `IntentDerive` the object plan, its edges, provenance and slices.  An
intent is a record of sets, since a TOML table is keyed by name; crypto blocks and
fabric members are sequences.  `IntentFile` edits a file one construct at a time
and compiles it after each edit, the kernel completion of the shell in between.

`DpniBlock` takes a planned dpni from the consumer that asked for it to the
arguments and the options mask, through what the firmware answers (external,
after `docs/baseline/dpni.md`) to the drift `reconcile_with` judges.  A block
without a size takes the host's queue count and is never judged; only port dpnis
are judged, because only they are compared; a read-back with a bit the shim has no
name for cannot be judged at all.

### 3.6 The matcher

`Matcher` is `match_board` rung by rung over one accumulator, the ambiguity
refusal, the class of a pair and the headline; `MatchRun` a history of edits
(intents the compiler accepts), drift of the board, and converges.  `knownAs` and
`honest` are histories: what the board last knew a construct by, and whether
anything but declared renames has happened since.

### 3.7 Pool custody

`PoolCensus` is the law of counts in `pool_lifecycle.rs`; `PoolCustody` is one
(container, family) pair under `dispatch_pool_deltas`: creates spawn by spawn,
victims picked from one reading and probed by their unplug, the foreign prune.
The population dispatches a tenant's container so, with an unknown ceiling; the
root's two halves dispatch the same function with the other half masked, which
`PoolRun` keeps apart and `PoolCustody` runs one after the other.  `how` says the
scope, the kind of ceiling and whether the transport shows the draw (the in-tree
one does not).

### 3.8 Crypto blocks

The first half of `CryptoRun` is the create block, the options mask and what is
decoded from it; the second the census of one tenant's container.  Each row is an `info` spawn and
then a session over the root's portal, command by command (`Open`,
`GetAttributes`, `GetApiVersion`, `Close`), which may go dark or be refused at any
of them; one unreadable row and the container is not judged.  What a dispatch owes
(`Owed`) is a set of the plan's blocks and a set of the objects read; `FirstIn`
picks the next of either in the order of the signatures, which is the order of the
two `BTreeMap`s.  The stamp a create ends with and a destroy may take effect and the
verb err all the same (`VerbFails`).  Creates run before destroys, and the read-back is the verdict.  `ensure` itself refuses every plan
with a dpseci (`GuardRefuses`, the reify guard); the pass is reached by the
callers that come after it, hence `Callers`.

### 3.9 The portal and the verbs

`VerbScript` lists each verb of the adapter as its spawns in order, and what a
spawn does to the object.  `PortalVerb` runs them: a spawn opens the portal or
finds it taken, executes, exits with one of six outcomes, and `run_verb` answers
or, after a failed open alone, tries again.  The MC may report the success of a
destroy it did not carry out, and a create's echo may be unreadable.  Back-off
time is not modelled; another shell may keep the portal for ever.

`VerbLife` is what every other module assumes of a verb (`Partial` of `PortRun`,
the spawn-wise creates of the others): spawns take effect one after the other,
each at most once, and an error may come after any, the last one included: a
restool that a signal ends after its command (`restool.rs`:1166), a `sync` that fails
behind a connect (`restool.rs`:1600).  `Recording` writes a row for what returned `Ok` alone,
so such a verb leaves its effect and no row: `Partial`, `ErrsAfterEffect` and the
`VerbFails` of `CryptoRun` are that case.  `PortalVerb` implements it.

### 3.10 The board suites

`dpaa2-verify` turns a trace of the generic object model into a suite that a board
is driven with.  `SuiteMachine` is that model's machine as the board obeys it:
guards and effects of the actions on a record of objects and edges.
`SuiteAdapter` is `adapter.rs`, the commands of an action, the probes that read
it back, what they are expected to say and the judgment of one answer.
`SuiteGen` is `safety.rs` and `generate.rs`: the safety envelope, the stitching of
several faces into one trace, the gates, the steps, the teardown trap with the
wiring it restores, and the offline verdict.  What `SuiteMachine` does to a
board stands for the MC and the kernel when a command is executed on it, and for
the generator's model when a trace is replayed.

`SuiteRun` is a suite under way, as the script or under the online driver.

| state | code |
|---|---|
| `case`, `suite`, `boot`, `final` | the trace and its specification, what was generated from it, the board before, the model's last state |
| `phase`, `pc`, `sub` | where the script or the driver stands |
| `board`, `claimed`, `dark` | the board, the companions the allocator's driver holds, the dpmacs left dark |
| `names`, `results`, `listed` | `created.txt` or the driver's binding, the result files, the transcript |
| `cut`, `away`, `made`, `faults`, `probes` | histories |

A step is two actions, its commands (`Drives`, `Forbidden`, `Awaits`) and its
read-back (`Reads`); `Cut` and `CutInCreate` are the interrupt or the prompt
answered with abort; `Tears` is the trap, an entry at a time; `Reboots` is the
teardown of the suites that have none; `KernelProbes` the kernel on its own.

## 4. What the runs check

`tlc -config X.cfg M`, with `M` the MC module.  `PortSafe` uses symmetry over dpni
ids, which are interchangeable in every definition except `CHOOSE` in
`ConnectedTo` (edges are exclusive, so the choice is unique).  No other run does:
the MC hands out the lowest free id, and liveness does not allow it.

### 4.1 The runs

Several properties are conjunctions; their parts, named after the colon, are
stated and commented in the module.

| cfg (module) | properties and their parts | bounds | distinct states |
|---|---|---|---|
| `PortSafe` (`MCPortRun`) | `TypeOK`; `PortInv`: `ForeignUntouched`, `ConvergedServes`, `StatusHonest`, `RollbackRemovesCreated`, `LeakIsUnwired`; `NoChurn`; `GateHolds`; `PortKeepsDriver` | two declared ports (a sized, MAC-actuated PHY port and a fixed one), a PHY dpmac left to others, 4 dpnis, 2 passes; two edits between runs of every option *or* two faults in runs that may rebuild (the constraint `EditsOrFaults`) | 1,069,954 |
| `PortLive` (`MCPortRun`) | `EventuallySettled`: `RunsEnd`, `EventuallyServed` | one PHY port, 3 dpnis, one edit, one fault | 42,552 |
| `PoolStock` (`MCPoolRun`) | `TypeOK`; `StockInv`: `GrowNeverOvershoots`, `GrownIsStocked`; `ReclaimAfterStock`, `OvercommitIsForeign`, `EventuallyStocked` | a bare root (one dpmcp, one dpbp), requirement 1/2/0 and two seats, five ordinals, one unit compiled elsewhere, 3 drains, 1 edit, 1 fault, with and without consent | 487,773 |
| `Tenant` (`MCTenancyRun`) | `TenancyInv`: `TypeOK`, `GateHolds`, `UnmanagedUntouched`, `RollbackRestores`; `ConvergedHonest`: `ConvergedServes`, `ConvergedVisible`; `LifeKept`: `ImplementsLife`, `NoDangling`; `PopulateThenBind`; `EventuallySettled`: `RunsEnd`, `EventuallyServed`, `StraysPruned` | a userspace tenant with a port and a companion, alone, beside a stray or beside an unlabelled container, under both policies and every gate, and the same and a kernel-driven tenant with consent under abort, each with one edit and one fault; a first run under rollback with three faults, so that the undo of a bind fails as well | 595,568 |
| `Unwind` (`MCTenancyRun`) | `BindsReversed`, expected to fail (section 4.3) | the first run of both tenants, under rollback, nothing injected | |
| `Fabric` (`MCFabricRun`) | `FabricInv`: `TypeOK`, `GateHolds`, `ForeignEdgesKept`, `NeverDoubled`, `RollbackRestores`; `WiredWhole`: `PlugAfterWire`, `ConvergedLinked`, `ConvergedRaised`; `EventuallySettled`: `RunsEnd`, `EventuallyLinked`, `EventuallyRaised`, `SwitchesPruned` | a root-child link and a one-member domain from four boards (clean, flat, foreign peers, all at work) under every option; a child-child link, a root-root link and the domain with consent under abort, with one fault more | 318,045 |
| `PortalVerb` (`PortalVerb`) | `PortalInv`: `TypeOK`, `PluggedNamed`; `ImplementsLife`; `AnswersTrue`: `AnswersHonest`, `DestroyVerified`, `Answered` | two dpnis and a companion, one other shell, 3 attempts for the code's 5 | 1,119,780 |
| `IntentCompile` (`MCIntentFile`) | `PlanSound`: `TwinsAgree`, `EdgesJoinPlanned`, `EndsWiredOnce`, `SwitchesFit`, `EdgesLawful`, `SlicesAgree`, `Contained`, `ProvenanceClosed`; `BlocksSettle`: `DpnisSettle`, `DpswsSettle`; `EditsLocal`: `ExtrasOnlyAdd`, `StrangersKept`, `RenameInert`, `ResizesSeen`, `SwitchResizesSeen` | two files and every way to add three of 30 constructs | 7,601 |
| `MatchRun` (`MCMatchRun`) | `MatchInv`: `MatchSound`, `SettlesAtOnce`, `FrameLaw`, `NeverGuesses`, `HeadlineHonest`; `RenamesMoveNoHardware`; `EventuallySettled` | two intents of three constructs, four names, two facets, three edits or drifts | 17,367 |
| `PoolCustody` (`MCPoolCustody`) | `CustodyInv`: `CensusExact`, `HeldStands`, `RefusalAddsUp`; `TakesOnlySurplus`: `SizedByNeed`, `BootAndRootStay`; `EventuallySized` | one boot object, one of another tool, requirements of one and two, the root and a tenant's container, both transports, two draws, an intrusion, an edit, a fault | 154,623 |
| `CryptoRun` (`MCCryptoRun`) | `CryptoInv`: `SessionClosed`, `JudgesOnlyTheSeen`, `NoChurn`, `NeverShort`, `ConvergedExact`; `RemovesItsOwn`: `StrangersKept`, `RollbackRemovesMade`; `EventuallySettled`: `RunsEnd`, `EventuallyExact` | plans of up to two blocks over three ordinals, so that a replacement may find the board full; an edit, a turn of the portal or a driver, a fault | 365,760 |
| `Suite` (`MCSuiteRun`) | `TrapInv`: `BootUntouched`, `TrapLeavesNothing`, `WiringRestored`, `PortsLit`; `VerdictInv`: `ConformingPasses`, `PassMeansDone`; `Listed`; `TrapTakesOwn` | eighteen traces and all that leave one step out, as scripts and through the online driver, learning and promoted; two commands gone wrong, two probes of the kernel's own, a cut anywhere | 364,629 |

Why the bounds are enough.  The planners treat ports, tenants, links and domains
one by one, so one of each kind beside one foreign object contains every pair of
actors; a spare id or two lets an operator's object, a run's and a left-over
coexist and be handed out again.  Two passes of the port loop contain a pass that
acts and the pass that judges it, and the deadline cutting the loop after each.
Two edits make a board that no single run makes (an object, then its edge).  Two
faults are a failure and a failure of the undo, or a kill and a failure of the
run that repairs it.  In the pool, requirement 2 is the least at which a dispatch
can fail half-way through a family, two families the least at which it can fail
between families, and three drains take every unit the plan counted on.  Two crypto
blocks are the least that can be swapped, and three attempts the least that have
a first, a middle and a last.  Three edits of a file make a construct, another
that names it, and a third that collides with either.  `Absent` is empty in the
port runs because the command line never declares an absent port; `PlanAbsent` is
covered by the theorems, which hold for every value of it.

Bounds that exist only for TLC: `MaxEdits`, `MaxDrains`, `MaxDraws`,
`MaxIntrusions`, `MaxTurns`, `MaxFaults` and, in the tenancy, the `budget` of a site;
the queue, flow, FDB and ceiling of the intent (`QueueHi`, `FlowHi`, `MaxFdbs`, `FdbEntriesHi`) are scaled
down so that each is met from both sides, while `DpniBlock` and `DpswBlock` keep
the real ones.  The theorems hold for every value of the bounds.

Some operators are the definition below them with one plausible bug in it
(`NoFence`, `RankUnbindFirst`, `PlugSpawnSkipped`, `EveryUndeclared`,
`AgainAfterDeath`, `UnpluggedOnly`, `CarrierFromMac` and their like).  No specification
uses them: `PROJECT.json` pairs each with the property that fails when it takes
the definition's place.

### 4.2 What the liveness properties except

`EventuallyServed` of the ports excepts a dpmac the operator wired to something
else, which the code never takes away.  That of the tenants, `EventuallyLinked`
and `EventuallySized` name in `Obstructed` or `Sized` what no run resolves: a lock,
a dpmac or an end another object holds, a driver of the other regime, more objects
in use than are meant to be.  `EventuallyStocked` asks that consent keeps being
given and that the compile and the admission let the plan through, and excepts a
family the MC has no units for.  `EventuallyExact` asks that the portal stay, that
nobody hold the tenant's objects and that the board have room for what is missing.
`EventuallyRaised` is about boards on which nothing failed and nobody edited,
because of the switch that reads converged for ever (4.3); with `EventuallyLinked`
it still covers a domain raised over a dpni that faced its uplink.

### 4.3 Disagreements read in the code

These were met while translating.  They are stated here and in the hazards.  The
first has a run of its own, which TLC finds violated; on account of the others no
run has a property that fails: where one touches a property, the property is stated
so that it holds, and its comment or this list says what it leaves out.

* `rollback.rs`:44-46 and `recording.rs`:333 have one `vfio_unbind` reverse every kind
  of bind, `specs/rollback/spec.md`:56 has the unbind of a rollback come before the
  destroy.  `vfio_unbind` (`kernel.rs`:174-181) unbinds from `vfio-fsl-mc` alone, so that
  of a container `fsl_mc_dprc` holds fails, is reported unreversed, and the destroy of
  the next row goes ahead under the driver.  The run `Unwind` shows it (`BindsReversed`).

Documents that say something else:

* ADR-0008:290 has every flow that dismantles a netdev on a wired port sever, then
  unbind; the rollback executor replays `Created, Connected, Bound` backwards,
  unbind first, and the port is left with no driver.
* `specs/rollback/spec.md`:77 returns the board to its pre-run state up to typed
  residue.  A verb that errs is not journaled, whatever its spawns did by then
  (`recording.rs`:63-67, `restool.rs`:1166-1171 and 1600-1609), so a rollback that reports
  nothing unreversed can leave, reported by nobody, the one effect of the verb that
  failed: a dpni without a label, or with one when the `set-label` took effect before
  its restool died (`LeakIsUnwired`), an object of a tenant, labelled as its own
  (`RollbackRemovesMade`), a container, a companion, a switch or a port's dpni
  (`made` has what was recorded), and the edge of a connect between two ends that stood
  before, by its `sync` (`RollbackRestores` of `TenancyRun` and of `FabricRun`).
* ADR-0001:54, a half-finished run self-heals: a dpni created and not connected is
  invisible to the planner and spared by the prune (its label is declared), so the
  next run makes a second one of the same name.
* ADR-0020:84, reclaiming at root keeps the double gate; `converge_pools` compares
  the headline with `allow` and does not read `prune`.
* `specs/capacity-census/spec.md`:60, a converged intent re-admits; `compile`
  compares the plan's total with the units still free.  The same:101, never a silent
  zero-create plan; a bracket that equals the population leaves the create count at
  zero and the half converged.  The same:83, a counted family is judged by its live
  free count alone; `admit` also compares the draw with the census row, so a root
  that must more than double a family is refused.
* `engine.rs`:1787 heals a bound child with one rebind cycle; `vfio_unbind` clears
  the override the bind needs, so the cycle fails in its own run, its verdict is
  never reached, and the handoff of the next run finishes it.
* `populate.rs`:118 and 149 let either side of a link wire it; under the rollback
  policy a child-child link that needs both ends made can be undone and redone for
  ever, which is why the liveness of `FabricRun` is claimed under abort (`Consenting`).
* `resolve_switch_peer` expects a member dpni to stand; for a member in the root no
  pass makes one.
* INTENT_I2 (one endpoint, one edge) fails for a member listed twice, or a tenant
  beside its own software fabric: `EndsWiredOnce` excepts them.
* `PeerObservation` covers a dpni or a dpsw; `peer_observation_from_root` is given
  root dpnis only, so a port a switch or a child's dpni holds reads `Offered`.

Containers and population: a run killed between stamp and plug leaves a labelled,
unplugged dpni that reads converged; killed between population and rebind, hidden
residents; a run whose later mint the pool refuses leaves the same, with no failure
at all (`ConvergedVisible` excepts a port a run found so).  A handoff journals two
bind rows, the second undo finds nothing, and a kernel bind is never undone.  The
bindings of a locked candidate are released before the refusal.  Option drift on
a declared container is never repaired.  The VFIO handoff does not tolerate a
container not yet scanned, which under rollback can repeat.  A renamed tenant is
populated before the old container is pruned, so its connects are refused on each
run.  A change of regime is refused.  Population disconnects nothing; unlabelled
companions in a child are exempt; `pop.converged` counts stray dpnis; a below-draw
refusal stops the pass.

Links and switches: a switch killed or failed half-way under abort, or one that
lost an edge, reads converged for ever.  A root end killed between connect and
plug is never plugged.  The sever of an interposition is not journaled.  With two
peers a software fabric gives one label to several rows and only the first is
taken.  A restricted drawer that shares its child may resolve to itself.  A link
both of whose ends lie in one child and that is short of one is skipped by the link
pass as population's to repair, and the run converges (`ConvergedLinked` excepts such
links, which no instance has).  A recreate destroys first.  An undeclared switch on the uplink blocks the raise
before its own prune.

Intent: a fabric forwarded by a kernel nobody declares plans edges to a switch
that is not planned, and crypto, extras and software fabrics on it are dropped
(`EdgesJoinPlanned` excepts it); a restricted kernel-netlink drawer lives in the
root; the parser accepts `kernel` as a member, the compiler refuses it; a queue
count past its envelope degrades to zero.

Custody, matcher, crypto: a refusal's count adds up over probes that need not have
been held at one time; under a transport that shows draws it may not exceed the
requirement; a held foreign object fails every pass at its prune.  Two rename
chains of equal configuration in one edit are refused.  A full board never starts a
replacement.  Priorities are never read back, hence never actuated, though the
mismatch is classed disruptive.  A rollback after a destroy leaves the tenant with
neither object.  An object with a bit the shim cannot name silences the census for
good while the pass reads converged.

Board suites: what is severed is restored also where the trace itself made the
edge, judged by the model's last state; boot objects a trace unplugs, unbinds or
connects are not restored, nor locks.  A batch script expands the names it read
without passing them through `check_cmd`, and so do the read-backs, though
`safety.rs` has a denied object unreferenceable even in a probe.  A create the
interrupt or a failed read separates from its line in `created.txt` is lost to the
trap (`TrapLeavesNothing` excepts it).  The trap asks of a create's variable only
that it is not empty, and `board/verdict.rs`:290-296 has a refused create print a usage
dump on occasion, which would pass for a name; a create without a name is modelled
as an unset variable.  A create whose name was never read resolves to the model's
own name, which may be another object's.  Re-using a results
directory keeps what an earlier suite listed.  An aborted online transcript passes;
a truncated run is not refused, though the doc of `diff` lists it among the errors.  `bind_settle` binds,
where its doc has an awaited step mutate nothing from userspace.  A face that severs
a boot edge keeps it in the stitched expectation of that step.  The read-backs do not
tell a kernel bind from a VFIO one, and a rescan, a lock and a link change of a
switch are not observed.

Adapter and recording: the privileged read opens the portal once and a collision
is a backend error.  An observation is one spawn for the rows and one per object,
so it may be torn.  Companions are plugged before they are stamped; what a killed
create leaves plugged and unstamped reads as boot layout.  Teardown verbs leave no
journal row, a stated non-goal of the recording layer.  The shrink half picks
victims on a later reading than its deltas.  A dpni that is connected and unbound
reads kernel-owned in status and has no carrier (`StatusHonest` speaks of what
status says once it reports no divergence).

## 5. Fairness

* Weak fairness of `Tool` in `PortRun` and `PoolRun`, of `Converge` in `MatchRun`, of
  `Pass` in `PoolCustody`, of `Process` in `PortalVerb`: a run under way goes on,
  since it is one process that never waits for an event: every wait in the code is
  a bounded poll.  `TenancyRun` and `FabricRun` say `[]<><<Tool>>_vars`, which is
  the same because some `Tool` action is enabled in every state.
* A run is started again: `packaging/systemd/dpaa2-provision.service` restarts a
  run that failed (`Restart=on-failure`), the udev rule starts it when `dprc.1`
  appears, and a reload runs it again.  Weak fairness is enough, because `Start`
  (`Compiled` in the pool) stays enabled until it happens.  The unit passes
  `--allow disruptive`, so the runs it starts have the consent they need.
  `CryptoRun` also has runs without consent; there a consented start is strongly
  fair, since `Start` is disabled while another run is under way.
* `WF(Probe(d))` in `PortRun` and `WF(Scan(c))` in `TenancyRun`: the kernel's
  deferred work is done.  Without it a bind never comes.
* Nothing is assumed of failures, kills, edits, drains, draws, the portal's other
  users or an operator, except that the bounds make them finite, and in
  `PortalVerb` not even that: a shell may keep the portal for ever and the verb is
  still answered.  The liveness properties therefore say that once disturbances
  stop the board is repaired, which is the level-triggered design.

What the tenants and fabrics promise of liveness is for behaviours in which every
run is started with both gates open and under abort (`Consenting`): a run without
consent stops at the gate by design, and 4.3 says where a rollback repeats itself.

## 6. What is proved

Every theorem holds for every value of the constants: any number of dpmacs, dpnis,
containers, ports, ordinals, requirements, other processes, attempts, edits, faults
and drains, any start board and any intent within the types.  They rest on named
assumptions, which TLC evaluates in the runs:

* `BoardAssumption`, `IntentAssumption`, `RunAssumption` of the port modules: the types
  of the constants, `None` outside the ids, declared ports among the dpmacs.
* `PoolAssumption`, `RunAssumption` of the pool modules: the same, and a finite set of
  ordinals.
* `CustodyAssumption`: finitely many objects, and an ordinal for every unit the MC has
  left, since the MC numbers an object it makes.
* `ScriptAssumption`, `PortalAssumption`: finitely many objects, companions apart from
  the rest, the tool none of the other shells, at least one attempt.
* `BoardAssumption`, `PlanAssumption`, `RunAssumption` of the tenancy modules: finite
  sets of numbers that do not overlap, start boards and intents within the types.
* `BoardAssumption`, `PlanAssumption`, `RunAssumption` of the fabric modules: sets of
  numbers that do not overlap, each child once in the order of the children, no label
  on two domains (`parse.rs` keys the fabrics by name), start boards consistent, intents
  within the types.
* `CryptoAssumption`: finitely many positive ordinals, plans of blocks that the create
  block's constructor accepts, odd bits that are none of the named ones.

Each proof uses the same layout: a lemma per command of the board (what it does to
what the invariant counts or keeps), one per action or group of actions, then the
step lemma that assembles them, then the temporal theorem by PTL.

### 6.1 `PortRun_proofs`

* `TypeCorrect`: `Spec => []TypeOK`.
* `DriverKept`: `Spec => PortKeepsDriver`.  From its first plan to its last sweep,
  at every spawn and through every failed verb or kill, a run leaves no wired
  port without a driver.  The theorem stops at the unwind, which severs too late
  (section 4.3).
* `NothingChurned`: `Spec => NoChurn`.

The inductive invariant is
`TypeInv /\ SeveredBeforeUnbind /\ MadeStands /\ MadeSpared /\ Unwired(board) /\ IdleClean`.

* `TypeInv` adds to `TypeOK` that a due transition names an object
  (`DueNamesObject`): without it `seen[k]` and `Resolve(k)` may be `None` when
  applied to a board function.  `Staging` says which `pc` may have what due.
* `SeveredBeforeUnbind` is the heart of `DriverKept`: once the edge is cut and the
  unbind is still due, the edge stays cut, because every earlier port has finished
  and no later one may start.  It needs `Rank` to put the sever first, and a
  mutant that swaps the two breaks the run.
* `MadeStands` (what the run created lives, under a declared label, wired to
  nothing or to its own port) and `MadeSpared` (nothing due or in the sweep names
  it) support each other: ids are handed out again, so "the planner's fence named
  it" is not enough, the destroyed id and the created id must be told apart at
  each step.
* `Unwired(board)` says that an object that does not exist has no edge, so a
  re-used id starts unconnected; `IdleClean` that a run starts with nothing made.

The second half has the gate and what a run owes whoever did not start it.

* `GateKept`: `Spec => GateHolds`, an action property: at each step of a run, its
  rollback included.
* `PortKept`: `Spec => []PortInv`, the conjunction of `ForeignUntouched`,
  `ConvergedServes`, `StatusHonest`, `RollbackRemovesCreated` and `LeakIsUnwired`.

`Gated` strengthens the invariant above for the first: what is due is of an allowed
class, a sweep is only entered under the disruptive tier, and below it the journal
holds binds alone, which is why the unwind, an actuation nobody gates, stays within
the gate.  `SafeInv` does so for the second:

* `SweepsUndeclared`, `ForeignSpared`: what is due, in the sweep or on the journal never
  names an object that stood before and is not the intent's; `RelabelsLive`: a label
  goes to an object that exists.
* `CreatedRecorded`, `NewRecorded`: an object that was not there when the run began is
  on the journal or unreversed, unless its create erred, which happens at most once in
  a run since the run ends with it; a rollback that could undo its rows leaves at most
  that one, with or without its label and always without an edge.
* `Sound(board)` and `Unsettled`: the edges of a board are exclusive and its labels on
  live objects, and a run is converged only past its loop, which `StatusHonest` and
  `ConvergedServes` need.

### 6.2 `PoolRun_proofs`

* `TypeCorrect`, including that no plan owes a negative count.
* `NeverOvershoots`: `[]GrowNeverOvershoots`; `Stock`: `[]GrownIsStocked`; `StockKept`
  is both, the invariant the run checks.
* `ReclaimLast`: `ReclaimAfterStock`.
* `Overcommit`: `OvercommitIsForeign`.

The inductive invariant is
`TypeOK /\ WellBorn(board) /\ HandOwed /\ OwedFits /\ OffListStocked /\ SeatsCounted /\ UnitsThere`.

* `OwedFits`, `Managed + todo <= Required`, is what an interrupted dispatch keeps
  and what makes the next plan a top-up.
* `HandOwed` makes the object between its spawns one of those owed and not yet
  counted by the census.
* `OffListStocked` carries the read-back verdict of a family to the end of the
  half and to the shrink; `SeatsCounted` does so for the seats.
* `UnitsThere` bounds what is owed by what is free while no drain has happened:
  the object in hand has already taken its unit.
* `WellBorn(board)` says that a label "ours" is on a live, plugged object only,
  which turns the count of labelled objects into the count of usable ones.

### 6.3 `PortalVerb_proofs`

* `PortalKept`: `Spec => []PortalInv`.
* `AnswersKept`: `Spec => AnswersTrue`: a caller told busy met the whole bound of
  attempts and nothing was executed by the last; a destroy answered ok did happen.
* `LifeImplemented`: `Spec => ImplementsLife`, the refinement of `VerbLife` step by step.

The invariant is `TypeOK /\ Named(mc) /\ Suffix /\ Counted /\ Stamped /\ Absent`.
`Suffix` has what is left of a verb be the end of its script, so that an error leaves a
prefix of it done; `Counted` ties attempts, collisions, the reply and whether the
command was executed; `Stamped` has the object of a script named before the script
comes to plug it; `Absent` remembers that an object which a command of this verb left
out of sight was gone at some time since, which is all the verification of a destroy
can say.

### 6.4 `PoolCustody_proofs`

* `CustodyKept`: `Spec => []CustodyInv`, that is `CensusExact`, `HeldStands` and
  `RefusalAddsUp`.
* `SurplusOnly`: `Spec => TakesOnlySurplus`.

The invariant is `Structure /\ Conserved /\ BlindReading /\ OwedIsNeeded /\ RefusalExceeds`.
`Structure` ties the reading a dispatch works from to the board but for the objects it
has tried, `Conserved` counts units and objects together, `OwedIsNeeded` bounds what is
owed by the distance to the requirement, and `BlindReading` (a transport without draws
shows every managed object, all of them free) is what makes a refusal discovered by
probing name a count above the requirement (`RefusalExceeds`): every managed object was
probed, and those that were held are counted.

### 6.5 `TenancyRun_proofs`

* `TenancyKept`: `Spec => []TenancyInv`, that is `TypeOK`, `GateHolds`,
  `UnmanagedUntouched` and `RollbackRestores`.
* `LifeTaken`: `Spec => LifeKept`, that is the refinement of `DprcLife`, step by step
  (`ImplementsLife`), and `NoDangling`.
* `PopulatedFirst`: `Spec => PopulateThenBind`.
* `ConvergedProved`: `Spec => ConvergedHonest`, that is `ConvergedServes` and
  `ConvergedVisible`.

The invariant of the first is `Shape` and, within a run, `Owed`, `Journaled`, `NamesStand`,
`Untouched`, `GateHolds` and `Recordeds`.

* `Kept` are the containers the run may not touch.  A queue is `Sound` if each of its
  verbs names a container outside `Kept`, or acts on an object that lives in none of
  them, and is of a class the gate allows; `Owed` says that of what is owed and that a
  verb on "the object just made" comes after the create (`LedBy`).  `Journaled` is the
  same of the rows, since their undo is a verb as well.
* Each command of the board is `Sane` (it leaves `Kept`, its residents and their edges
  alone, when it is aimed outside) and, below the gate, `Gentle`.
* A plan is a concatenation of verbs that depend on one reading.  `Plans`, the sound
  queues, is closed under concatenation (`PlansJoin`), and one lemma per planner shows
  that what it builds is in it.  That a planner picks only containers outside `Kept`
  needs `NamesStand`: a handle is found by label, the labels that stood before are
  not changed, and what is new carries a name that no container had.
* `Recordeds` has a row, on the journal or unreversed, for all the run recorded as made
  and for each edge that is new, but that of the one connect that may have erred behind
  its effect, after which the run only unwinds.  When the journal is used up and nothing
  but binds is unreversed, no more than that edge can be left.

The second adds `LInv`.  A step of the lifecycle has a guard that no command of the board
checks: a container is bound when it holds something and destroyed when nothing is
plugged in it and VFIO does not hold it.  What makes the guard hold is spread over the run:

* The board is `Consistent`: a container that is not there has no name, no consumer and
  no resident, so a `Spawn` creates an empty one, of an id handed out again as well.
* `Fits`: a verb belongs to the phase under way, and a verb of the population names a
  container that stands.
* `Ordered`: what a verb relies on either stands already (`Prepared`) or is what the verb
  before it does (`Prepares`): the object in hand, the residents counted by the judgment
  that lets a bind go on, the override a bind needs.  An override further down the queue
  has nothing before it that shrinks its container.
* `Drained`: before each `destroy` in the queue there is the release of the consumer and
  the sever of each edge, unless the board has none.  A teardown that is refused drops
  the rest of its container from the queue, and `OnlyAfter` says that what stays keeps
  its order.
* `Recalled` is for the unwind: the containers of a run are its first rows, so the
  dpnis in one are undone before it; and one that VFIO holds has a bind on record, so
  when it is destroyed all the same that bind is unreversed, the step `Forced` names.

The last two add `SInv`.  What a converged verdict promises is not of the board while a
run goes on, it is of the board and of the verbs still owed together, and the head of the
queue moves it from the one to the other.

* `Underway` is a population from its plan to its verdict.  It promises of each tenant
  (`Willed`) that it is `Assured`: at each bind of its container and at the end, every port
  is wired or its connect comes before, the census is right or is read back before, and
  no verb that moves the census comes after the last read-back; or that it is `Doomed`:
  its bind will be refused, so the run ends and gives no verdict.  The second is the rebind
  of a bound child, whose unbind clears the override the bind needs (section 4.3).
* A bind that goes on is not of a doomed container, and nothing is ahead of the head, so
  what `Assured` says of the board is `PlanConverged`: that is `PopulatedFirst`.
* A connect wires the port a verdict looks at only if no other port bears the name.  `Fresh`
  and `Unmet` say so of each port to be made: none bears its name, or its dpmac is taken, and
  then the connect is refused.  A name borne twice thus never meets a new edge.
* `Windows` and `InHand` have the four verbs of a new port, and the three of a companion,
  stand together in the queue, so that "the object just made" is the one they are for.
* `Sighted` follows what a scan would show: each port of a tenant is plugged and not hidden,
  or in hand before its plug, or one the run found otherwise.  A port made in a bound
  container is hidden, which only a doomed container has (`Early`: the bind comes after).
* A plan is a `Course`: what its verbs are (`Meant`), what each relies on (`Well`) and what
  they do for a tenant (`Settles`).  Courses are closed under concatenation (`CourseJoin`), so
  the plan of one child (`ChildCourse`) carries over to all (`PopulationCourse`).
* Before it, `Raised` has each tenant without a container owed a verdict that it has one;
  after it, `Complete` is kept by a prune, whose verbs are `Aside`: on containers that are
  no tenant's.

TLC checked `SInv` on the boards of the run `Tenant` before it was proved.  One statement had
to be corrected on the way: a start board that hides an object no container holds is
none a scan shows, and a companion made under its id would come up hidden
(`Consistent`, `TenancyBoard`).

`Queues`, which both the tenancy and the fabric build on, holds the facts about the
operators the planners pick with and about sequences put together: `OnlyIn`, `OnlyAfter`
and `InOrderIn` (what they return is in the sequence, or the set, given, and in its
order), `OnlyHas` and `FlattenKeeps` (nothing is left out), `Joint`, `Splits` and
`JoinHas` (what two sequences in a row are made of), over `SomeLeast`, `MinIn`, `MaxIn`
and `FlattenIn`.  Where these are inductions over a length or a size, they are done
by the least counterexample, since the induction rules of the library cannot be used.

### 6.6 `CryptoRun_proofs`

* `CryptoKept`: `Spec => []CryptoInv`, that is `TypeOK`, `SessionClosed`,
  `JudgesOnlyTheSeen`, `NoChurn`, `NeverShort` and `ConvergedExact`.
* `OwnRemoved`: `Spec => RemovesItsOwn`, an action property: at each step of a pass,
  its rollback included.

The invariant is `Shape`, `SessionClosed` and six parts.

* `RowTrue` and `ReadTrue` have what was answered so far be true of the board, though
  the node and the drivers move at any command: nothing a reading shows changes
  before the dispatch (`NothingYet`), which is why a verb's evidence is the board the
  run started from (`OnEvidence`).
* `DeltaExact` has the delta of a true reading be empty just when the board is right,
  which gives `NoChurn` at the first judgment and `ConvergedExact` at the second.
* `Covered` bounds, of each signature, what stays and what is still to come by what is
  planned.  It holds when the dispatch is planned because the first few of a signature
  are as many as asked for (`FirstFew`, `FirstsCount`), each stamp moves one block from
  the second to the first, and no destroy touches either.  While creates are due the
  tenant has all it had; once none is, `Covered`, summed over the signatures
  (`Fibers`), says it has all that is planned: that is `NeverShort`.
* `Recorded` has every object of the tenant be one that stood, or one on the journal
  or unreversed, and what is on the journal be the tenant's.  An object whose create
  erred is on neither: before its stamp it has no name, after it, it is the one labelled
  object a clean rollback may leave (`Unrecorded`).

### 6.7 `FabricRun_proofs`

* `FabricKept`: `Spec => []FabricInv`, that is `TypeOK`, `GateHolds`, `ForeignEdgesKept`,
  `NeverDoubled` and `RollbackRestores`.
* `FabricWired`: `Spec => WiredWhole`, the action properties `PlugAfterWire`,
  `ConvergedLinked` and `ConvergedRaised`.

The invariant `Inv` of the first is its state properties and

* `QueueInv`: what is owed is a sequence of verbs, each of a kind its phase issues about
  objects that stand (`Fits`), each after one it may follow (`Follows`), and what the
  head relies on is there (`Ready`): an object in hand for a verb on "the object just
  made", in the place the stamp expects, on the journal before its ports; the uplink
  at the other end of the edge a sever takes.
* `HandInv`, `SparedInv`: what is in hand, on the journal or owed to a destroy did not
  stand before the run, or is a switch the run may remove (`Doomed`).  Ids are handed
  out again, so this is said of the board as the run found it, not of the ids.
* `SwitchInv`: until the switch pass plans, the switches are the ones the run found; all
  through a run a label is a declared one, none, or the one that was there.  It makes a
  verdict on the present board one on the board before.
* `GateInv`: with the gate shut nothing is owed but edges between what stands, and
  nothing else is on record.
* `RecordInv`: everything the run recorded as made, and each edge that was not there
  before, is on record or reported unreversed (`Covered`), but the edge of the one connect
  that erred behind its effect, which joins ends that faced nothing before (`Loose`); so
  an empty journal without unreversed rows leaves no more than that one.
* `CountInv`: of each container and name, the rows that stand and the stamps still owed
  together are within the number declared, or no row was added.  The stamps of a
  plan are counted by their positions in it (`Hits` of `Queues`, with `FlattenHits`: the
  hits of a flattened sequence are those of its parts), and matched with the declared
  ends (`LinkTokens`, `MemberTokens`) by an injection.

It is inductive for every board that is `Consistent`, as any reading of the MC is: an
edge is seen from both its ends, and what does not exist has no label and no edge.
TLC checked it on the instances of the run `Fabric` before it was proved.  Two statements
had to be corrected on the way.  A switch that drifted is recreated, and then the
interposition severs whatever faces the uplink, so that the edge of its uplink is one
the run may cut (`MayCut`, through `Due`).  And a label that two links, or a link
and a member, share in one container counts once for each (`PlannedEnds`).

The second rests on `Inv` and on `WiredInv`, which has one part for each phase.

* `PopulationPart`: each end of a link that lies in a child stands or is among the stamps
  still owed (`Provided`), and what was just made has no label before its stamp, so
  that the stamp takes no row from another name.  At the end of the phase every child
  end therefore stands (`EndsThere`), which is when the link pass plans.
* `LinksPart`: every link is wired or a verb to come wires it, end by end (`WiredOrOwed`),
  and the plugs at the head of the queue are of ends that face something (`PlugsWired`),
  which is `PlugAfterWire` for links.  The rows a link has just created carry its
  label before its connect (`HandNamed`), so the connect brings the link it is for.
* `SwitchesPart`: the links stay wired, and each domain is up, has its raise to come, or
  is the one being raised.  `Script` says what verb stands at each place of a raise and
  `Part` what stands of the switch when the raise comes there: its first interfaces
  face what they should, and at the plug all do.  A switch raised becomes the lowest
  of its label, hence the one the verdict looks at, because the free id a create
  takes is below those of its label (`Room`, `Cleared`): either there were none or the
  drifted first one was just destroyed.  Other raises leave it alone since labels are
  distinct and an uplink is severed only before its own raise.
* `PrunePart`: every link is wired and every domain up, and no destroy still owed is of
  a declared label.

A run says converged only at the end of its prune, so the last part is the
property.  TLC checked `WiredInv` on the instances of the run `Fabric` and on boards with
two domains and switches that drifted before it was proved.

### 6.8 Only model-checked

* Everything of `MatchRun`, `IntentFile` and `SuiteRun`.  The
  compiler, the matcher, the generator of suites and the two create blocks compute with
  recursive functions and folds over their data, so that what they return for every
  input is induction over data, which is out of this prover's reach.
* `RunsEnd`, `Answered` and every property whose name begins with `Eventually`:
  liveness under fairness, which this prover does not reach either.

## 7. What is not modelled

* The text parsers of restool's output and the observation walk: conversions.  What
  they may fail to see is in the read-backs (`opaque`, a torn `info`, an option
  without a name).
* The dry-run twin of the phases (the same planners, no verb), the wire transitions
  that nothing in `ensure` builds, the residue report, rendering, link files,
  logging: wording or dead ends.
* The dpsw FDB row of the admission.
* The assert-only MAC of a port, which is reported and never actuated; of status,
  the counters and the detail rows of links, switches and crypto blocks.
* The typestates of dpio and dpmac, and the parts of dpsw's that no pass issues.
* The TOML syntax and the lookup of the file.
* The HAL: register exchange and sysfs paths.
* The in-memory backend (`contract/fake.rs`): a test double of the board.
* Of `dpaa2-verify`: the evidence ledger, the probe plans of the driver, the fit
  check, capture and snapshot, the offline replays, the ioctl policy and the lint of
  intent traces.  They judge or store what a suite left behind, off the board.  With
  the tests inside the modules they are a large share of the repository's lines.
* `dispatch.rs` but for the reify guard: a total table that the compiler checks.
* A power cut that resets the MC: it clears the board, and `Init` covers it.
* One board under all phases at once.  Each run module keeps the part of the board
  its phases change, and the others' converged; what crosses between them (the
  stock the consumers draw on, the label a rename leaves, the dpmac two phases ask
  for) is an input of the module that meets it.
* Edits by an operator *during* a run.  The code has no lock against them; what it
  re-reads and when is the subject of the hazards of `PROJECT.json`, and what is
  frequent (drains, draws, probes, scans, the portal's other users) is allowed at
  any time.
