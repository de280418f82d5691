----------------------------- MODULE FabricRun -----------------------------
(***************************************************************************)
(* Links and switched domains in a run of `dpaa2ctl ensure`: the           *)
(* population pass as far as it concerns them, then engine.rs              *)
(* converge_links, converge_switches and prune_switches, spawn by spawn,   *)
(* and the failure seam of main.rs above them.  The child containers stand *)
(* and have no consumer here; the drivers of root objects are left out.    *)
(***************************************************************************)
EXTENDS FabricPlan

CONSTANTS
  Sites,      \* [board, links, options, faults]: boards the system may start from, the
              \* wires declared, the options of its runs, the failures and kills
  MaxEdits

\* The options of a run; disruption classes are 0 hitless, 2 disruptive.
Options == [allow : 0..2, prune : BOOLEAN, policy : {"rollback", "abort"}]

ASSUME RunAssumption ==
  /\ \A s \in Sites :
       /\ s.board \in Boards /\ Consistent(s.board)
       /\ s.links \in Intents /\ s.options \subseteq Options /\ s.faults \in Nat
  /\ MaxEdits \in Nat

VARIABLES
  board,
  choices,     \* the options runs are started with
  limit,       \* the failures and kills there may be
  pc,          \* the phase under way
  opts,        \* [allow, prune, policy]
  queue,       \* the verbs the phase still owes
  hand,        \* what the current step created, in order
  journal,     \* recorded actuations of this run, oldest first
  unreversed,  \* rollback rows that could not be undone
  outcome,     \* how the last run ended
  before,      \* history: the board when the run started
  made,        \* history: what this run recorded as created
  edits, faults

given == <<links, choices, limit>>
vars == <<given, board, pc, opts, queue, hand, journal, unreversed, outcome, before, made,
          edits, faults>>
history == <<before, made>>
budgets == <<edits, faults>>

Init ==
  /\ \E s \in Sites : board = s.board /\ links = s.links /\ choices = s.options /\ limit = s.faults
  /\ pc = "idle" /\ outcome = "none" /\ opts = None
  /\ queue = << >> /\ hand = << >> /\ journal = << >> /\ unreversed = {}
  /\ before = NoBoard /\ made = {}
  /\ edits = 0 /\ faults = 0

End(how) ==
  /\ pc' = "idle" /\ outcome' = how /\ opts' = None
  /\ queue' = << >> /\ hand' = << >> /\ journal' = << >> /\ unreversed' = {}
  /\ before' = NoBoard /\ made' = {}

\* main.rs run_ensure: any error reaches the failure policy.
Fail ==
  IF opts.policy = "abort" THEN End("failed")
  ELSE /\ pc' = "unwind" /\ outcome' = "failed" /\ queue' = << >> /\ hand' = << >>
       /\ UNCHANGED <<opts, journal, unreversed, history>>

Start ==
  /\ pc = "idle"
  /\ opts' \in choices /\ pc' = "population" /\ outcome' = "running"
  /\ before' = board
  /\ UNCHANGED <<board, queue, hand, journal, unreversed, made, budgets>>

-----------------------------------------------------------------------------
(* The phases: each plans on one reading of the board, or refuses. *)

Disruptive(b, phase) ==
  CASE phase = "population" -> PopulationDisruptive(b)
    [] phase = "links" -> LinksDisruptive(b)
    [] phase = "switches" -> SwitchDisruptive(b)
    [] phase = "prune" -> SwitchCandidates(b) # {}

Owed(b, phase) ==
  CASE phase = "population" -> PopulationVerbs(b)
    [] phase = "links" -> LinksVerbs(b)
    [] phase = "switches" -> SwitchVerbs(b)
    [] phase = "prune" -> PruneVerbs(b)

Phases == {"population", "links", "switches", "prune"}
Planning == pc \in Phases /\ queue = << >>

\* An end held by another peer refuses the link pass ahead of the gate.
RewireRefused ==
  /\ Planning /\ pc = "links" /\ LinksHeld(board)
  /\ End("rewireRefused")
  /\ UNCHANGED <<board, budgets>>

\* Nothing to prune, or --prune withheld: reported, never dispatched.
PruneNothing ==
  /\ Planning /\ pc = "prune"
  /\ SwitchCandidates(board) = {} \/ ~opts.prune
  /\ End("converged")
  /\ UNCHANGED <<board, budgets>>

Plannable ==
  /\ Planning
  /\ pc = "links" => ~LinksHeld(board)
  /\ pc = "prune" => SwitchCandidates(board) # {} /\ opts.prune

GateRefused ==
  /\ Plannable /\ Disruptive(board, pc) /\ opts.allow < 2
  /\ End("gateRefused")
  /\ UNCHANGED <<board, budgets>>

Plan ==
  /\ Plannable /\ (Disruptive(board, pc) => opts.allow = 2)
  /\ queue' = Owed(board, pc) /\ hand' = << >>
  /\ UNCHANGED <<board, pc, opts, journal, unreversed, outcome, history, budgets>>

After(phase) ==
  CASE phase = "population" -> "links" [] phase = "links" -> "switches"
    [] phase = "switches" -> "prune"

PhaseDone ==
  /\ queue # << >> /\ Head(queue).op = "done"
  /\ IF pc = "prune" THEN End("converged")
     ELSE /\ pc' = After(pc) /\ queue' = << >> /\ hand' = << >>
          /\ UNCHANGED <<opts, journal, unreversed, outcome, history>>
  /\ UNCHANGED <<board, budgets>>

-----------------------------------------------------------------------------
(* The verbs, head of the queue first. *)

Next1(op) == queue # << >> /\ Head(queue).op = op
V == Head(queue)
EndA == IF V.a = None THEN hand[1] ELSE V.a
EndB == IF V.b = None THEN hand[Len(hand)] ELSE V.b
Made == Last(hand)

Row1(kind, obj) == [kind |-> kind, obj |-> obj]
Record(kind, obj) == journal' = Append(journal, Row1(kind, obj))
Created(obj) == Record("object", obj) /\ made' = made \cup {obj}
Advance == queue' = Tail(queue) /\ UNCHANGED <<pc, opts, unreversed, outcome, before, budgets>>
Silent == UNCHANGED <<journal, made>>

Mint(op, kind) ==
  /\ Next1(op) /\ FreeIds(board, kind) # {}
  /\ hand' = Append(hand, Lowest(FreeIds(board, kind)))
  /\ board' = Minted(board, Lowest(FreeIds(board, kind)), V.at)
  /\ Advance /\ Silent

\* create_dpni and create_dpsw_in return, and are recorded, after the label;
\* create_dpni_in after the plug.
Stamp ==
  /\ Next1("stamp")
  /\ board' = Stamped(board, Made, V.arg)
  /\ IF V.at = Root THEN Created(Made) ELSE Silent
  /\ Advance /\ UNCHANGED hand

PlugNew ==
  /\ Next1("plug")
  /\ board' = PluggedIn(board, Made)
  /\ Created(Made)
  /\ Advance /\ UNCHANGED hand

\* dprc_connect of a child's end: a plain connect, whatever the peer's pass does.
Join ==
  /\ Next1("join") /\ CanJoin(board, EndA, V.b)
  /\ board' = Joined(board, EndA, V.b)
  /\ Record("edge", EndA)
  /\ Advance /\ UNCHANGED <<hand, made>>

\* converge_links judges a present end next to a created one once more before the
\* connect; nothing has moved by then.
Wire ==
  /\ Next1("wire") /\ CanJoin(board, EndA, EndB)
  /\ board' = Joined(board, EndA, EndB)
  /\ Record("edge", EndA)
  /\ Advance /\ UNCHANGED <<hand, made>>

PlugRootEnd ==
  /\ Next1("plugA") \/ Next1("plugB")
  /\ board' = PluggedIn(board, IF V.a # None THEN V.a
                               ELSE IF V.op = "plugA" THEN hand[1] ELSE Made)
  /\ Advance /\ Silent /\ UNCHANGED hand

StepDone ==
  /\ Next1("next")
  /\ hand' = << >>
  /\ Advance /\ Silent /\ UNCHANGED board

\* dispatch_switch_create: resolve the peers, then the steps.
Raise ==
  /\ Next1("raise") /\ ~Unraisable(board, Domains[V.arg])
  /\ queue' = RaiseVerbs(board, V.arg) \o Tail(queue)
  /\ UNCHANGED <<board, pc, opts, hand, journal, unreversed, outcome, history, budgets>>

Sever ==
  /\ Next1("sever")
  /\ board' = Cut(board, {V.a})
  /\ Advance /\ Silent /\ UNCHANGED hand

ConnectPort ==
  /\ Next1("port") /\ CanJoin(board, If(Made, V.arg), V.b)
  /\ board' = Joined(board, If(Made, V.arg), V.b)
  /\ Record("port", Made)
  /\ Advance /\ UNCHANGED <<hand, made>>

Destroy ==
  /\ Next1("destroy")
  /\ board' = Gone(board, V.a)
  /\ Advance /\ Silent /\ UNCHANGED hand

-----------------------------------------------------------------------------
(* What goes wrong. *)

Refusal ==
  \/ Next1("mint") /\ FreeIds(board, Dpnis) = {}
  \/ Next1("mintSwitch") /\ FreeIds(board, Switches) = {}
  \/ Next1("join") /\ ~CanJoin(board, EndA, V.b)
  \/ Next1("wire") /\ ~CanJoin(board, EndA, EndB)
  \/ Next1("raise") /\ Unraisable(board, Domains[V.arg])
  \/ Next1("port") /\ ~CanJoin(board, If(Made, V.arg), V.b)

Refused ==
  /\ Refusal
  /\ Fail
  /\ UNCHANGED <<board, budgets>>

Injected == faults < limit /\ faults' = faults + 1

VerbFails ==
  /\ pc \in Phases
  /\ Fail /\ Injected
  /\ UNCHANGED <<board, edits>>

\* What the last spawn of a recorded verb does to the board.
LastSpawn ==
  \/ Next1("stamp") /\ V.at = Root /\ board' = Stamped(board, Made, V.arg)
  \/ Next1("plug") /\ board' = PluggedIn(board, Made)
  \/ Next1("join") /\ CanJoin(board, EndA, V.b) /\ board' = Joined(board, EndA, V.b)
  \/ Next1("wire") /\ CanJoin(board, EndA, EndB) /\ board' = Joined(board, EndA, EndB)
  \/ Next1("port") /\ CanJoin(board, If(Made, V.arg), V.b)
                  /\ board' = Joined(board, If(Made, V.arg), V.b)

\* A spawn that dies after its command took effect, or a sync that fails behind a
\* connect: the verb errs, and what errs has no row in the journal.
ErrsAfterEffect ==
  /\ LastSpawn
  /\ Fail /\ Injected
  /\ UNCHANGED edits

Killed ==
  /\ pc # "idle"
  /\ End("killed") /\ Injected
  /\ UNCHANGED <<board, edits>>

-----------------------------------------------------------------------------
(* Rollback: the journal backwards through the reversal table. *)

LastRow == Last(journal)
UnwindUnchanged == UNCHANGED <<pc, opts, queue, hand, outcome, history, edits>>

UnpluggedOnly(b, row) ==
  CASE row.kind = "object" -> [b EXCEPT !.plugged = @ \ {row.obj}]
    [] row.kind = "edge" -> Cut(b, {row.obj})
    [] row.kind = "port" -> b

\* A port counts as undone with no verb: the destroy of its switch clears it.
Undone(b, row) ==
  CASE row.kind = "object" -> Gone(b, row.obj)
    [] row.kind = "edge" -> Cut(b, {row.obj})
    [] row.kind = "port" -> b

UnwindRow ==
  /\ pc = "unwind" /\ journal # << >>
  /\ board' = Undone(board, LastRow) /\ journal' = Front(journal)
  /\ UnwindUnchanged /\ UNCHANGED <<unreversed, faults>>

\* Reported unreversed, and the unwind goes on.
UnwindRowFails ==
  /\ pc = "unwind" /\ journal # << >> /\ LastRow.kind # "port" /\ Injected
  /\ unreversed' = unreversed \cup {LastRow} /\ journal' = Front(journal)
  /\ UnwindUnchanged /\ UNCHANGED board

UnwindDone ==
  /\ pc = "unwind" /\ journal = << >>
  /\ End("rolledBack")
  /\ UNCHANGED <<board, budgets>>

-----------------------------------------------------------------------------
(* The operator, and other tools, between two runs. *)

Lone(b) == {e \in Dpnis \cup Macs : b.wire[e] = None /\ (e \in Dpnis => b.home[e] # None)}

\* An edge removed, an end wired to a dpmac, a label rewritten, an object
\* removed, a switch reconfigured, a labelled switch added.
Edited ==
  {Cut(board, {e}) : e \in {x \in Dpnis : board.wire[x] # None}}
    \cup {Joined(board, d, m) : d \in Lone(board) \cap Dpnis, m \in Lone(board) \cap Macs}
    \cup {[board EXCEPT !.tag[o] = None] : o \in {x \in Living(board) : board.tag[x] # None}}
    \cup {Gone(board, o) : o \in Living(board)}
    \cup {[board EXCEPT !.drifted = @ \cup {s}] : s \in Living(board) \cap Switches}
    \cup {Stamped(Minted(board, Lowest(S), Root), Lowest(S), n) :
            S \in {FreeIds(board, Switches)} \ {{}}, n \in Names}

OperatorEdits ==
  /\ pc = "idle" /\ edits < MaxEdits /\ edits' = edits + 1
  /\ board' \in Edited
  /\ UNCHANGED <<pc, opts, queue, hand, journal, unreversed, outcome, history, faults>>

-----------------------------------------------------------------------------
Planned == RewireRefused \/ PruneNothing \/ GateRefused \/ Plan \/ PhaseDone

Dispatched ==
  \/ Mint("mint", Dpnis) \/ Mint("mintSwitch", Switches) \/ Stamp \/ PlugNew \/ Join
  \/ Wire \/ PlugRootEnd \/ StepDone \/ Raise \/ Sever \/ ConnectPort
  \/ Destroy

Unwind == UnwindRow \/ UnwindDone

Tool == Start \/ Planned \/ Dispatched \/ Refused \/ Unwind

Next ==
  /\ Tool \/ UnwindRowFails \/ VerbFails \/ ErrsAfterEffect \/ Killed \/ OperatorEdits
  /\ UNCHANGED given

Spec == Init /\ [][Next]_vars

\* The tool keeps being run: some Tool action is enabled in every state.
FairSpec == Spec /\ []<><<Tool>>_vars

-----------------------------------------------------------------------------
(* Properties. *)

\* Every variable stays in its domain.
TypeOK ==
  /\ board \in Boards /\ before \in Boards
  /\ pc \in Phases \cup {"idle", "unwind"}
  /\ choices \subseteq Options /\ opts \in choices \cup {None}
  /\ \A i \in DOMAIN queue : queue[i].at \in Homes \cup {None}
  /\ ToSet(hand) \subseteq Living(board)
  /\ \A i \in DOMAIN journal :
       journal[i].kind \in {"object", "edge", "port"} /\ journal[i].obj \in Objs
  /\ made \subseteq Objs
  /\ edits \in 0..MaxEdits /\ limit \in Nat /\ faults \in 0..limit

\* The gate (ADR-0015 decision 12): a run that allows less than disruptive makes,
\* removes and relabels nothing and cuts no edge.
GateHolds ==
  pc # "idle" /\ opts.allow < 2 =>
    /\ board.home = before.home /\ board.tag = before.tag
    /\ board.plugged = before.plugged
    /\ \A e \in Ends : before.wire[e] # None => board.wire[e] = before.wire[e]

\* The edges a run may cut: those of a declared uplink in the way of a switch to
\* raise, of a switch that drifted, of an undeclared one.
Due(b, d) == DomainSwitch(b, d) \in b.drifted \cup {None}
Doomed(b, s) == b.tag[s] # None /\ (s \in b.drifted \/ b.tag[s] \notin Labels)
MayCut(b, e) ==
  \/ \E i \in DOMAIN Domains : Domains[i].uplink = e /\ Due(b, Domains[i])
  \/ \E s \in Switches : e \in IfsOf(s) /\ Doomed(b, s)

\* Never a silent rewire (DPRC-I5): any other edge that stood before the run stands
\* all through it, failures and rollback included.
ForeignEdgesKept ==
  pc # "idle" =>
    \A e \in Dpnis \cup Macs :
      LET f == before.wire[e]
      IN f # None /\ ~MayCut(before, e) /\ ~MayCut(before, f) => board.wire[e] = f

Wired(b, l) ==
  \E x \in RowsNamed(b, l.a, l.label), y \in RowsNamed(b, l.b, l.label) : b.wire[x] = y

\* The ends of a link that share a child are population's: short of one, the pass
\* skips the edge and is converged.
Apart(l) == l.a # l.b \/ l.a = Root

\* A run that ends converged leaves every other declared link wired, end to end.
ConvergedLinked ==
  [][pc # "idle" /\ outcome' = "converged" =>
       \A i \in DOMAIN links : Apart(links[i]) => Wired(board', links[i])]_vars

Complete(b, s, d) ==
  /\ b.wire[If(s, 0)] = d.uplink /\ s \in b.plugged
  /\ \A j \in DOMAIN d.members :
       /\ b.wire[If(s, j)] \in Dpnis
       /\ b.tag[b.wire[If(s, j)]] = d.members[j].label

\* A run that ends converged leaves every domain a switch of the declared
\* signature, and the ones it raised with every port connected and plugged.
ConvergedRaised ==
  [][pc # "idle" /\ outcome' = "converged" =>
       \A i \in DOMAIN Domains :
         LET s == DomainSwitch(board', Domains[i])
         IN /\ s # None /\ s \notin board'.drifted
            /\ s \in made => Complete(board', s, Domains[i])]_vars

\* Populate, connect, plug (cross-dprc-links design D4, DPSW-I9): a root link end
\* or a switch is plugged only once its edges stand.
PlugAfterWire ==
  [][\A o \in Objs :
       o \in board'.plugged \ board.plugged /\ board.home[o] = Root /\ pc # "idle" =>
         IF o \in Dpnis THEN board.wire[o] # None
         ELSE \E i \in DOMAIN Domains :
                Complete(board', o, Domains[i])]_vars

LinkTokens(h, n) ==
  {x \in (DOMAIN links) \X {"a", "b"} : links[x[1]].label = n /\ links[x[1]][x[2]] = h}
MemberTokens(h, n) ==
  UNION {{i} \X {j \in DOMAIN Domains[i].members :
                   Domains[i].members[j] = [home |-> h, label |-> n]} : i \in DOMAIN Domains}
PlannedEnds(h, n) ==
  Cardinality(LinkTokens(h, n)) + Cardinality(MemberTokens(h, n))

\* No pass makes an end a second time: a run adds to the rows of a label only up
\* to the number declared, though two passes and two readings look for them.
NeverDoubled ==
  pc # "idle" =>
    \A h \in Homes, n \in Names :
      \/ Cardinality(RowsNamed(board, h, n)) <= PlannedEnds(h, n)
      \/ RowsNamed(board, h, n) \subseteq RowsNamed(before, h, n)

\* The edges the run added to dpnis that stood before it.
Added(e) == before.home[e] # None /\ before.wire[e] = None /\ board.wire[e] # None

\* A rollback that could undo every row leaves nothing the run recorded, no end on
\* another peer, and of the edges the run added at most one: that of a connect
\* which took effect before it erred.
RollbackRestores ==
  pc = "unwind" /\ journal = << >> /\ unreversed = {} =>
    /\ made \cap Living(board) = {}
    /\ \A e \in Dpnis \cup Macs :
         board.wire[e] # None /\ before.wire[e] # None => board.wire[e] = before.wire[e]
    /\ \A e, f \in Dpnis : Added(e) /\ Added(f) => f \in {e, board.wire[e]}

\* Every run ends.
RunsEnd == pc # "idle" ~> pc = "idle"

\* What no run resolves on its own: an end held by a foreign peer, too many rows
\* of one label, an uplink or a member on another switch.
LinkObstructed(l) ==
  LET rows == RowsNamed(board, l.a, l.label) \cup RowsNamed(board, l.b, l.label)
  IN Cardinality(rows) > 2 \/ \E x \in rows : board.wire[x] \notin rows \cup {None}

DomainObstructed(d) ==
  LET own == UNION {IfsOf(s) : s \in {DomainSwitch(board, d)} \ {None}}
      members == {MemberRow(board, m) : m \in ToSet(d.members)} \ {None}
  IN \/ board.wire[d.uplink] \notin {None} \cup Dpnis \cup own
     \/ \E e \in members : board.wire[e] \notin {None, d.uplink} \cup own

Obstructed ==
  \/ \E i \in DOMAIN links : LinkObstructed(links[i])
  \/ \E i \in DOMAIN Domains : DomainObstructed(Domains[i])

\* Once nothing disturbs the board, whatever was killed, failed or edited before,
\* every link comes to be wired and every domain to have its switch.
EventuallyLinked ==
  <>[](~Obstructed => /\ \A i \in DOMAIN links : Wired(board, links[i])
                      /\ \A i \in DOMAIN Domains : DomainSwitch(board, Domains[i]) # None)

\* A domain comes to be switched, whole, over a dpni that faced its uplink before;
\* but what a failure or an edit leaves of a labelled switch reads converged.
EventuallyRaised ==
  <>[](~Obstructed /\ faults = 0 /\ edits = 0 =>
         \A i \in DOMAIN Domains :
           LET s == DomainSwitch(board, Domains[i]) IN s # None /\ Complete(board, s, Domains[i]))

\* Once nothing disturbs the board, an undeclared switch comes to be pruned.
SwitchesPruned == <>[](~Obstructed => SwitchCandidates(board) = {})

-----------------------------------------------------------------------------
\* What holds in every state of a run, whatever it does: the variables stay in
\* their domains, a shut gate and an edge that is not the run's to cut are
\* respected, no end is made twice (main.rs: the gates; engine.rs converge_links,
\* converge_switches, prune_switches), and a clean rollback leaves nothing the
\* run recorded, and one added edge at most.
FabricInv ==
    /\ TypeOK /\ GateHolds
    /\ ForeignEdgesKept /\ NeverDoubled /\ RollbackRestores

\* Edges first, then plugs, and nothing less behind a converged verdict
\* (engine.rs: the order of the link and switch verbs, the verdicts after them).
WiredWhole == PlugAfterWire /\ ConvergedLinked /\ ConvergedRaised

\* What the runs owe once nothing disturbs the board, when all are started with
\* both gates open and under abort: each ends, the links are wired, the domains
\* raised, undeclared switches gone (main.rs: run again).
Consenting == \A o \in choices : o.allow = 2 /\ o.prune /\ o.policy = "abort"
EventuallySettled == Consenting => RunsEnd /\ EventuallyLinked /\ EventuallyRaised /\ SwitchesPruned
=============================================================================
