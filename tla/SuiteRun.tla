------------------------------ MODULE SuiteRun ------------------------------
(* A suite on the board: the generated script with its teardown trap, or the  *)
(* online driver with its operator, step by step, beside a kernel that probes *)
(* on its own, and the verdict taken from what was read.                      *)
(*                                                                           *)
(* A case is [scene, skip, spec, online]: a scene of CONSTANT Scenes, the     *)
(* steps its trace leaves out, the specification it is generated under and    *)
(* which of the two walks it. The trace of a case is a run of SuiteMachine.   *)
EXTENDS SuiteGen, SequencesExt

CONSTANTS Scenes,      \* name -> [init, site, faces]: the model's boot state, what the
                       \* board holds beside it, one sequence of actions per face
          Cases,       \* the cases tried
          MaxFaults,   \* commands that go wrong
          MaxProbes    \* probes the kernel makes of its own accord

VARIABLES case, suite,            \* what is run: the case and its generated suite
          boot, final,            \* the board it starts on, the model's last state
          phase, pc, sub,         \* how far it is: phase, step, "do" or "read"
          board, claimed,         \* the board; companions the allocator's driver holds
          dark,                   \* dpmacs left without their own driver
          made,                   \* ghost: what the run's creates put on the board
          names,                  \* created.txt, or the driver's binding
          results,                \* what each step captured
          listed,                 \* names on the transcript (online)
          cut, away,              \* whether it was cut short; ghost: what was not
                                  \* in the container that made it when it ended
          faults, probes          \* the phases a command went wrong in, and the kernel probed in
inputs == <<case, suite, boot, final>>
vars == <<inputs, phase, pc, sub, board, claimed, dark, made, names, results, listed,
          cut, away, faults, probes>>

-----------------------------------------------------------------------------
(* The traces *)
TraceFrom(init, acts) ==    \* None when an action is not enabled on the way
    LET walk[k \in 0..Len(acts)] ==
            IF k = 0 THEN [ok |-> TRUE, at |-> init, steps |-> <<>>]
            ELSE LET w == walk[k-1] a == acts[k]
                 IN  IF w.ok /\ Guard(w.at, a)
                     THEN [ok |-> TRUE, at |-> Effect(w.at, a),
                           steps |-> Append(w.steps, [action |-> a, post |-> Effect(w.at, a)])]
                     ELSE [w EXCEPT !.ok = FALSE]
        end == walk[Len(acts)]
    IN  IF end.ok THEN [init |-> init, steps |-> end.steps] ELSE None
Kept(acts, skip) ==
    FlattenSeq([i \in DOMAIN acts |-> IF i \in skip THEN <<>> ELSE <<acts[i]>>])
Played(faces) ==
    IF (\E k \in DOMAIN faces : faces[k] = None) \/ ~SameBoot(faces) THEN None
    ELSE IF Len(faces) = 1 THEN faces[1] ELSE Stitch(faces)
FacesOf(scene, skip) ==
    [k \in DOMAIN scene.faces |->
        TraceFrom(scene.init, IF k = 1 THEN Kept(scene.faces[k], skip) ELSE scene.faces[k])]
TraceOf(c) == Played(FacesOf(Scenes[c.scene], c.skip))

Boot(init, site) == [init EXCEPT !.objs = With(@, site.objs), !.edges = @ \cup site.edges]
Steps == Len(suite.steps)
step == suite.steps[pc]

-----------------------------------------------------------------------------
(* The board: what the MC, restool and the kernel do with one command *)
LeastFree(b, fam) == CHOOSE n \in 0..20 : /\ <<fam, n>> \notin Objs(b)
                                          /\ \A k \in 0..(n-1) : <<fam, k>> \in Objs(b)
Single(b, fam) ==    \* a destroy that names no object
    IF \E o \in Objs(b) : Fam(o) = fam THEN CHOOSE o \in Objs(b) : Fam(o) = fam ELSE NoName
Asked(b, cmd, ids) ==    \* the machine's action a command asks for
    LET on == CASE cmd.verb # "destroy" -> None [] ids = <<>> -> Single(b, cmd.arg)
                [] OTHER -> ids[1]
    IN  CASE cmd.verb = "create" /\ cmd.arg = "dprc" -> [op |-> "createContainer", parent |-> ids[1]]
          [] cmd.verb = "create" /\ cmd.arg # "dprc" ->
                [op |-> "createObject", fam |-> cmd.arg,
                 container |-> IF ids = <<>> THEN Root ELSE ids[1]]
          [] cmd.verb = "update" -> [op |-> "preplugMutate", obj |-> ids[1]]
          [] cmd.verb = "assign" -> [op |-> "assignChild", obj |-> ids[2], dst |-> ids[3]]
          [] cmd.verb = "unassign" -> [op |-> "assignChild", obj |-> ids[2], dst |-> ids[1]]
          [] cmd.verb = "plug" -> [op |-> IF cmd.arg THEN "plug" ELSE "unplug", obj |-> ids[2]]
          [] cmd.verb = "override" -> [op |-> "nothing"]
          [] cmd.verb = "vfio-bind" -> [op |-> "vfioBind", obj |-> ids[1]]
          [] cmd.verb = "unbind" -> [op |-> "unbind", obj |-> ids[1]]
          [] cmd.verb = "connect" -> [op |-> "connectEdge", a |-> <<ids[2], cmd.arg[1]>>,
                                      b |-> <<ids[3], cmd.arg[2]>>]
          [] cmd.verb = "disconnect" -> [op |-> "disconnectEdge", e |-> <<ids[2], cmd.arg[1]>>]
          [] cmd.verb = "sync" -> [op |-> "rescan", container |-> Root]
          [] cmd.verb = "lock" -> [op |-> "setLocked", container |-> ids[1], locked |-> cmd.arg]
          [] cmd.verb = "destroy" -> [op |-> "destroy", obj |-> on]

Pooled(b, o) == Params[Fam(o)].pooled /\ b.objs[o].plugged /\ b.objs[o].vis
Claimable(b) == {o \in Residents(b, Root) : Pooled(b, o)}
(* A driver is claimed from under a wired dpni: the port's own driver comes   *)
(* back with the edge still there, and never binds (ADR-0008, section 8).     *)
Darkened(b, o) ==
    {e[1] : e \in {x \in UNION {d \in b.edges : \E y \in d : y[1] = o} :
                     Fam(o) = "dpni" /\ Fam(x[1]) = "dpmac" /\ b.objs[o].bind = "kernel"}}

(* A command runs on the portal of the container it names: the object must be *)
(* there.                                                                     *)
Resides(b, cmd, ids) ==
    LET from == IF cmd.verb = "unassign" THEN ids[3] ELSE ids[1]
    IN  cmd.verb \in {"assign", "unassign", "plug"}
            => ids[2] \in Objs(b) /\ b.objs[ids[2]].parent = from

(* What a command does to the world and what it prints; refused, nothing.     *)
Exec(w, cmd, ids) ==
    LET a == Asked(w.board, cmd, ids)
        may == Guard(w.board, a) /\ Resides(w.board, cmd, ids)
        held == "obj" \in DOMAIN a /\ a.obj \in w.claimed
        new == <<cmd.arg, LeastFree(w.board, cmd.arg)>>
        refused == [w |-> w, ok |-> FALSE, out |-> NoName]
        done(b) == [w |-> [w EXCEPT !.board = b,
                                    !.claimed = (@ \cup IF a.op \in {"rescan", "createContainer"}
                                                        THEN Claimable(b) ELSE {}) \cap Objs(b)],
                    ok |-> TRUE, out |-> NoName]
    IN  CASE a.op = "nothing" -> [refused EXCEPT !.ok = ids[1] \in Objs(w.board)]
          [] a.op \in {"createContainer", "createObject"} ->
                IF ~may THEN refused
                ELSE [done(CreateAs(w.board, new, IF ids = <<>> THEN Root ELSE ids[1]))
                        EXCEPT !.out = new]
          [] a.op = "unbind" /\ held -> [refused EXCEPT !.w.claimed = @ \ {a.obj}, !.ok = TRUE]
          [] a.op = "unbind" /\ ~held ->
                IF ~may THEN refused
                ELSE [done(Effect(w.board, a)) EXCEPT !.w.dark = @ \cup Darkened(w.board, a.obj)]
          [] OTHER -> IF may /\ ~(held /\ a.op \in {"unplug", "destroy", "vfioBind"})
                      THEN done(Effect(w.board, a)) ELSE refused

(* The commands of a step, in order. One that goes wrong does nothing, and    *)
(* restool may exit 0 all the same.                                           *)
Ran(w, cmds, named(_)) ==
    LET after[k \in 0..Len(cmds)] ==
            IF k = 0 THEN [w |-> w, oks |-> <<>>, out |-> NoName]
            ELSE LET so == after[k-1]
                     r == Exec(so.w, cmds[k], named(cmds[k].ids))
                 IN  [w |-> r.w, oks |-> Append(so.oks, r.ok),
                      out |-> IF k = 1 THEN r.out ELSE so.out]
    IN  after[Len(cmds)]
Lost(w, cmds) == {[w |-> w, oks |-> [k \in DOMAIN cmds |-> ok], out |-> NoName] : ok \in BOOLEAN}

(* What a probe captures. restool writes a peer of a switch family in three   *)
(* parts, any other in two.                                                   *)
PeerText(e) == IF e = None THEN None
               ELSE IF Fam(e[1]) \in SpeaksPerInterface THEN e ELSE <<e[1]>>
LinkText(b, o) == CASE Fam(o) \notin RendersLinkStatus -> "none"
                    [] b.objs[o].up -> "up" [] OTHER -> "down"
Answer(w, probe, o) ==
    LET b == w.board
        there == o \in Objs(b)
    IN  CASE probe.kind = "show" -> [x \in (IF there THEN Residents(b, o) ELSE {}) |-> b.objs[x].plugged]
          [] probe.kind = "info" ->
                IF ~there THEN [exists |-> FALSE]
                ELSE [exists |-> TRUE, peer |-> PeerText(PeerAt(b, <<o, 0>>)), link |-> LinkText(b, o)]
          [] probe.kind = "iface" ->
                [p \in (IF there THEN 0..(Params[Fam(o)].ports - 1) ELSE {}) |-> PeerText(PeerAt(b, <<o, p>>))]
          [] probe.kind = "driver" -> there /\ (b.objs[o].bind # "none" \/ o \in w.claimed)

-----------------------------------------------------------------------------
World == [board |-> board, claimed |-> claimed, dark |-> dark]
Becomes(w) == board' = w.board /\ claimed' = w.claimed /\ dark' = w.dark
NameOf(o) == IF o \in DOMAIN names THEN names[o] ELSE NoName
NamesOf(ids) == [i \in DOMAIN ids |-> NameOf(ids[i])]

Init ==
    /\ case \in Cases
    /\ \E trace \in {TraceOf(case)} \ {None} :
          /\ suite = Generate(case.spec, trace, TRUE)
          /\ boot = Boot(trace.init, Scenes[case.scene].site) /\ final = FinalState(trace)
          /\ names = Seed(trace.init)
          /\ phase = IF IF case.online THEN CheckTrace(case.spec, trace) ELSE suite.ok
                     THEN "run" ELSE "refused"
    /\ pc = 1 /\ sub = "do"
    /\ board = boot /\ claimed = {} /\ dark = {} /\ made = {}
    /\ results = <<>> /\ listed = {} /\ cut = FALSE /\ away = {} /\ faults = <<>> /\ probes = <<>>

AtStep(s) == phase = "run" /\ pc <= Steps /\ sub = s
Screened(cmd) ==    \* the execution side of the envelope
    ~case.online \/ CheckText(case.spec, {NameOf(cmd.ids[i]) : i \in DOMAIN cmd.ids})
Records(oks) ==
    results' = With([i \in {pc} |-> [NotRun EXCEPT !.exits = oks,
                                      !.status = IF \A k \in DOMAIN oks : oks[k] THEN "none" ELSE "busy"]],
                    results)
ListsModelName == listed' = listed \cup ({step.created} \ {None})    \* a mutant
Listing == listed' = listed \cup ({NameOf(step.created)} \ {NoName})

(* A driven step. The name a create printed goes to created.txt, or into the  *)
(* driver's binding - which ends the drive when there is none.                *)
Apply(r, wrong) ==
    /\ Becomes(r.w) /\ Records(r.oks) /\ faults' = faults \o wrong
    /\ made' = made \cup ({r.out} \ {NoName})
    /\ IF step.created = None \/ NamesCreate(step.created, r.out)
       THEN /\ sub' = "read" /\ phase' = phase
            /\ names' = IF step.created = None THEN names ELSE Bind(names, step.created, r.out)
       ELSE /\ phase' = IF case.online THEN "error" ELSE phase
            /\ sub' = "read" /\ names' = names
    /\ UNCHANGED <<inputs, pc, listed, cut, away, probes>>
Drives ==
    /\ AtStep("do") /\ step.cmds # <<>> /\ \A k \in DOMAIN step.cmds : Screened(step.cmds[k])
    /\ \/ Apply(Ran(World, step.cmds, NamesOf), <<>>)
       \/ Len(faults) < MaxFaults /\ \E r \in Lost(World, step.cmds) : Apply(r, <<phase>>)
Forbidden ==     \* the drive ends on a command the envelope refuses
    /\ AtStep("do") /\ \E k \in DOMAIN step.cmds : ~Screened(step.cmds[k])
    /\ phase' = "error"
    /\ UNCHANGED <<inputs, pc, sub, board, claimed, dark, made, names, results, listed, cut, away, faults, probes>>

(* An awaited step: a bind the kernel takes when it can, with the script's    *)
(* settling behind it, or an instruction the operator follows - or only acks. *)
Bound(w, o) ==
    IF o \in Objs(w.board) /\ ProbeReady(w.board, o) /\ Params[Fam(o)].hotBind
    THEN [w EXCEPT !.board = BindT(@, o)] ELSE w
Kicked(w) == Exec(w, Cmd("sync", <<>>, ""), <<>>).w
Settled(w, o) ==    \* probe, then sync and probe again
    IF Bound(w, o) # w \/ (o \in Objs(w.board) /\ w.board.objs[o].bind # "none")
    THEN Bound(w, o) ELSE Bound(Kicked(w), o)
Followed(w, o) ==
    LET a == [step.action EXCEPT !.obj = o]
    IN  IF Guard(w.board, a) THEN [w EXCEPT !.board = Effect(@, a)] ELSE w
Awaits ==
    /\ AtStep("do") /\ step.cmds = <<>>
    /\ CASE step.settles ->
              LET o == NameOf(step.action.obj)
              IN  \E w \in IF case.online THEN {World, Bound(World, o)} ELSE {Settled(World, o)} :
                     Becomes(w) /\ faults' = faults
         [] step.action.op \in OperatorSteps ->
              \/ Becomes(Followed(World, NameOf(step.action.obj))) /\ faults' = faults
              \/ Len(faults) < MaxFaults /\ Becomes(World) /\ faults' = Append(faults, phase)
         [] OTHER -> Becomes(World) /\ faults' = faults
    /\ Records(<<>>) /\ sub' = "read"
    /\ UNCHANGED <<inputs, phase, pc, made, names, listed, cut, away, probes>>

(* The read-back. Nothing in the script stops on what it reads; online, a     *)
(* divergence stops a promoted run and asks the operator of any other.        *)
Captured == [m \in DOMAIN step.probes |-> Answer(World, step.probes[m], NameOf(step.probes[m].on))]
Diverged == ~Conform(step, names, [results[pc] EXCEPT !.captured = Captured])
PerStep == case.spec.learning
           \/ \E i \in 1..Steps : \E o \in Refs(suite.steps[i].action) : Fam(o) \in {"dprtc", "dpdbg"}
Reads ==
    /\ AtStep("read")
    /\ results' = [results EXCEPT ![pc].captured = Captured]
    /\ pc' = pc + 1 /\ sub' = "do"
    /\ IF case.online THEN Listing ELSE listed' = listed
    /\ \/ phase' = phase /\ (case.online /\ Diverged => PerStep)
       \/ phase' = "stopped" /\ case.online /\ Diverged
    /\ UNCHANGED <<inputs, board, claimed, dark, made, names, cut, away, faults, probes>>

(* Cut short: the operator interrupts the script, or answers a prompt of the  *)
(* driver with abort; in the middle of a create, its name is never read.      *)
Stops ==
    /\ phase' = CASE case.online -> "stopped" [] suite.reboots -> "reboot" [] OTHER -> "teardown"
    /\ pc' = 1
    /\ away' = {o \in made \cap Objs(board) : board.objs[o].owner # board.objs[o].parent}
Ends ==
    /\ phase = "run" /\ pc > Steps /\ Stops
    /\ UNCHANGED <<inputs, sub, board, claimed, dark, made, names, results, listed, cut, faults, probes>>
Prompted == sub = "do" /\ (PerStep \/ step.action.op \in OperatorSteps)
Cut ==
    /\ phase = "run" /\ pc <= Steps /\ ~cut /\ (case.online => Prompted)
    /\ cut' = TRUE /\ Stops
    /\ IF case.online THEN Listing ELSE listed' = listed
    /\ UNCHANGED <<inputs, sub, board, claimed, dark, made, names, results, faults, probes>>
CutInCreate ==
    /\ AtStep("do") /\ ~cut /\ step.created # None
    /\ \A k \in DOMAIN step.cmds : Screened(step.cmds[k])
    /\ LET r == Ran(World, step.cmds, NamesOf)
       IN  Becomes(r.w) /\ made' = made \cup ({r.out} \ {NoName})
    /\ cut' = TRUE /\ Stops
    /\ UNCHANGED <<inputs, sub, names, results, listed, faults, probes>>

(* The trap, entry by entry; the reboot, which erases all a run made.         *)
Tears ==
    /\ phase = "teardown" /\ pc <= Len(suite.trap)
    /\ LET e == suite.trap[pc]
       IN  IF e.var # None /\ NameOf(e.var) = NoName THEN Becomes(World) /\ faults' = faults
           ELSE \/ Becomes(Exec(World, e.cmd, NamesOf(e.cmd.ids)).w) /\ faults' = faults
                \/ Len(faults) < MaxFaults /\ Becomes(World) /\ faults' = Append(faults, phase)
    /\ pc' = pc + 1
    /\ UNCHANGED <<inputs, phase, sub, made, names, results, listed, cut, away, probes>>
TornDown ==
    /\ phase = "teardown" /\ pc > Len(suite.trap) /\ phase' = "done"
    /\ UNCHANGED <<inputs, pc, sub, board, claimed, dark, made, names, results, listed, cut, away, faults, probes>>
Reboots ==
    /\ phase = "reboot" /\ phase' = "done"
    /\ Becomes([board |-> boot, claimed |-> {}, dark |-> {}])
    /\ UNCHANGED <<inputs, pc, sub, made, names, results, listed, cut, away, faults, probes>>

KernelProbes ==
    /\ phase \in {"run", "teardown"} /\ Len(probes) < MaxProbes
    /\ \E o \in Residents(board, Root) : Bound(World, o) # World /\ Becomes(Bound(World, o))
    /\ probes' = Append(probes, phase)
    /\ UNCHANGED <<inputs, phase, pc, sub, made, names, results, listed, cut, away, faults>>

Next == \/ Drives \/ Forbidden \/ Awaits \/ Reads \/ Ends \/ Cut \/ CutInCreate
        \/ Tears \/ TornDown \/ Reboots \/ KernelProbes
Spec == Init /\ [][Next]_vars

-----------------------------------------------------------------------------
(* What goes wrong is one command or several, a cut, a probe of the kernel's. *)
TrapAlone == "teardown" \notin Range(faults) \cup Range(probes)
Faultless == faults = <<>> /\ probes = <<>> /\ ~cut
Scratch == case.spec.kind # Standard
Torn == phase = "done" /\ ~Scratch
RunOver == phase = "run" /\ pc > Steps
EdgesOf(b, o) == {d \in b.edges : \E e \in d : e[1] = o}

(* A recovery or persistence suite leaves every boot object and boot edge as  *)
(* it found them, and no run at all touches a denied object or its wiring,    *)
(* whatever goes wrong and wherever it is cut (safety.rs, and the gates of    *)
(* generate.rs: what a step refers to was made by an earlier one).            *)
AsFound(o) == o \in Objs(board) /\ board.objs[o] = boot.objs[o]
BootUntouched ==
    /\ Scratch => boot.edges \subseteq board.edges /\ \A o \in Objs(boot) : AsFound(o)
    /\ \A o \in Deny \cap Objs(boot) : AsFound(o) /\ EdgesOf(board, o) = EdgesOf(boot, o)

(* The trap destroys only what the run made and cuts only edges of that, also *)
(* when a name was never read or the object is a singleton it cannot name.    *)
TrapTakesOwn ==
    [][phase = "teardown" =>
          /\ Objs(board) \ Objs(board') \subseteq made
          /\ \A d \in board.edges \ board'.edges : \E e \in d : e[1] \in made]_vars

(* A trap that ran undisturbed leaves nothing whose name the script had read, *)
(* but for what was away from its own container when it began, a container    *)
(* with such a guest, and a companion made after the port that draws it.      *)
NamesRead == {names[o] : o \in DOMAIN names}
MadeAt(o) == CHOOSE i \in 1..Steps :
                suite.steps[i].created # None /\ NameOf(suite.steps[i].created) = o
LateCompanion(o) ==
    \E p \in made \cap NamesRead : MadeAt(p) < MadeAt(o) /\ Fam(o) \in Params[Fam(p)].draws
TrapLeavesNothing ==
    Torn /\ TrapAlone =>
        \A o \in made \cap Objs(board) \cap NamesRead :
           o \in away \/ Residents(board, o) \cap away # {} \/ LateCompanion(o)

(* The wiring the board booted with stands again after an undisturbed trap,   *)
(* wherever the run was cut.                                                  *)
WiringRestored == Torn /\ TrapAlone => boot.edges \subseteq board.edges

(* An undisturbed trap leaves no dpmac without a driver - the kernel may have *)
(* bound the port on its own, or the run been cut - as long as the model ends *)
(* with each dpni it wired to a dpmac still wired and bound.                  *)
JoinsMac(a) == a.op = "connectEdge" /\ Fam(a.a[1]) = "dpni" /\ Fam(a.b[1]) = "dpmac"
Carries(o) ==
    /\ o \in Objs(final) /\ final.objs[o].bind = "kernel"
    /\ \E d \in final.edges : \E x, y \in d : x[1] = o /\ Fam(y[1]) = "dpmac"
PortsLit ==
    Torn /\ TrapAlone
        /\ (\A i \in 1..Steps : LET a == suite.steps[i].action
                               IN  JoinsMac(a) /\ a.a[1] \notin Objs(boot) => Carries(a.a[1]))
    => dark = {}

(* The transcript of an online run names all it made, the create a killed     *)
(* driver was in the middle of and the one a failed drive ended on apart.     *)
Listed ==
    case.online =>
      /\ Cardinality(made \ listed) <= 1
      /\ phase = "stopped" /\ ~cut => made \subseteq listed

(* A run that reached its end and passes left the board where the model says: *)
(* every object there, plugged and bound as in the model, every edge, and     *)
(* nothing of what it destroyed - though a command had no effect, exited 0    *)
(* without one, or the kernel bound an object of its own accord (its bind,    *)
(* then, is not always read).                                                 *)
Agrees ==
    LET ends(d) == {<<NameOf(e[1]), e[2]>> : e \in d}
        same(o, n) == /\ n \in Objs(board)
                      /\ board.objs[n].plugged = final.objs[o].plugged
                      /\ probes = <<>> => (BoundIn(board, n) <=> BoundIn(final, o))
    IN  /\ \A o \in Objs(final) : same(o, NameOf(o))
        /\ \A o \in DOMAIN names \ Objs(final) : names[o] \notin Objs(board)
        /\ {ends(d) : d \in final.edges} = board.edges \ Scenes[case.scene].site.edges
PassMeansDone ==
    RunOver /\ case.spec.refusals = <<>> /\ Verdict(suite, names, results) => Agrees

(* A script in which nothing went wrong conforms at every step (online, the   *)
(* kernel may not have taken a bind yet) - but where the judge compares what  *)
(* restool does not print so: no presence in the block of an interface, a     *)
(* switch's interface 0 written in three parts, the peer of any port expected *)
(* of one.                                                                    *)
Misjudged(a) ==
    \/ a.op = "linkChange" /\ Fam(a.obj) \in SpeaksPerInterface
    \/ a.op = "connectEdge" /\ Fam(a.b[1]) \in SpeaksPerInterface /\ a.b[2] = 0
    \/ a.op = "disconnectEdge" /\ Fam(a.e[1]) \in SpeaksPerInterface
ConformingPasses ==
    RunOver /\ Faultless /\ ~case.online =>
        \A i \in 1..Steps : \/ Misjudged(suite.steps[i].action)
                          \/ Conform(suite.steps[i], names, results[i])

(* What a cut, torn down or rebooted run owes the board; what its verdict may *)
(* be taken for.                                                              *)
TrapInv == BootUntouched /\ TrapLeavesNothing /\ WiringRestored /\ PortsLit
VerdictInv == ConformingPasses /\ PassMeansDone
=============================================================================
