------------------------------ MODULE SuiteGen ------------------------------
(* board/generate.rs and board/safety.rs: from a model trace to a suite - the *)
(* gates it must pass, the steps with their read-backs, the teardown trap and *)
(* the wiring it restores - and the offline judgement of what the suite read. *)
(*                                                                           *)
(* A specification is [kind, class, flagged, hook, refusals]: `hook` the set  *)
(* of board objects a hook's text names, {NoHook} without one; `refusals` a   *)
(* function from step indices to the status each is expected to be refused    *)
(* with. A script's text is the set of board objects it names literally.      *)
EXTENDS SuiteAdapter

CONSTANTS Deny,        \* objects no text may name, whatever the class
          FlaggedMacs, \* the wired pair: link and traffic runs name it only
          Statuses     \* the names MC statuses have

NoHook == <<"no hook">>
Standard == "standard"
RecoveryVerification == "recovery"
RebootPersistence == "persistence"

-----------------------------------------------------------------------------
(* The safety envelope *)
CheckDeclared(run) == run.class # "lifecycle" => run.flagged
ScanText(text) == text \cap Deny = {}
CheckText(run, text) ==
    /\ CheckDeclared(run) /\ ScanText(text)
    /\ \A o \in text : Fam(o) = "dpmac" => (o \in FlaggedMacs <=> run.class # "lifecycle")
Literal(init, ids) == {o \in ids : o \in Objs(init)}
CheckTrace(run, trace) ==    \* runtime ids are symbolic: only boot ids are screened
    /\ CheckDeclared(run)
    /\ \A i \in DOMAIN trace.steps :
          CheckText(run, Literal(trace.init, Refs(trace.steps[i].action)))

-----------------------------------------------------------------------------
(* Stitching the traces of several faces into one: what a face creates rides  *)
(* a range of its own, and every post-state is the union of the faces before  *)
(* it with this face's own.                                                   *)
RemapObj(init, off, o) == IF o = None \/ o \in Objs(init) THEN o ELSE <<o[1], o[2] + off>>
RemapEp(init, off, e) == <<RemapObj(init, off, e[1]), e[2]>>
RemapAction(init, off, a) ==
    [f \in DOMAIN a |-> CASE f \in {"obj", "dst", "parent", "container", "consumer", "pool"} ->
                                RemapObj(init, off, a[f])
                          [] f \in {"a", "b", "e"} -> RemapEp(init, off, a[f])
                          [] OTHER -> a[f]]
MergeRemapped(base, s, init, off) ==
    LET image == {RemapObj(init, off, o) : o \in Objs(s)}
        of(n) == CHOOSE o \in Objs(s) : RemapObj(init, off, o) = n
        put(n) == [s.objs[of(n)] EXCEPT !.parent = RemapObj(init, off, @)]
    IN  [base EXCEPT
           !.objs = [n \in DOMAIN @ \cup image |-> IF n \in image THEN put(n) ELSE @[n]],
           !.edges = @ \cup {{RemapEp(init, off, e) : e \in d} : d \in s.edges}]
SameBoot(faces) == \A k \in DOMAIN faces : faces[k].init.objs = faces[1].init.objs
Stitch(faces) ==
    LET init == faces[1].init
        last(k) == IF faces[k].steps = <<>> THEN init
                   ELSE faces[k].steps[Len(faces[k].steps)].post
        base[k \in 0..Len(faces)] ==
            IF k = 0 THEN init ELSE MergeRemapped(base[k-1], last(k), init, k * 100)
        face(k) == [i \in DOMAIN faces[k].steps |->
                      [action |-> RemapAction(init, k * 100, faces[k].steps[i].action),
                       post |-> MergeRemapped(base[k-1], faces[k].steps[i].post, init, k * 100)]]
        upto[k \in 0..Len(faces)] == IF k = 0 THEN <<>> ELSE upto[k-1] \o face(k)
    IN  [init |-> init, steps |-> upto[Len(faces)]]

-----------------------------------------------------------------------------
(* The gates *)
Pre(trace, i) == IF i = 1 THEN trace.init ELSE trace.steps[i-1].post
Action(trace, i) == trace.steps[i].action
Created(trace, i) == CreatedObject(Pre(trace, i), trace.steps[i].post)
MadeBefore(trace, i) == {Created(trace, k) : k \in 1..(i-1)} \ {None}
Creates(a) == a.op \in {"createContainer", "createObject"}
Mutating(trace) == \E i \in DOMAIN trace.steps : ~Awaited(Action(trace, i))

(* A driven step that creates nothing refers to what the trace made only.     *)
OwnStep(trace, i) ==
    Creates(Action(trace, i)) \/ Action(trace, i).op \in BoardTakes
        \/ Refs(Action(trace, i)) \subseteq MadeBefore(trace, i)
CheckRebootPersistence(trace) == \A i \in DOMAIN trace.steps : OwnStep(trace, i)
(* The recovery suite also makes objects in containers of its own only.       *)
CheckScratchOnly(trace) ==
    /\ CheckRebootPersistence(trace)
    /\ \A i \in DOMAIN trace.steps :
          Action(trace, i).op = "createObject"
              => Action(trace, i).container \in MadeBefore(trace, i)

Gates(spec, trace, verified) ==
    /\ CheckTrace(spec, trace)
    /\ \A i \in DOMAIN spec.refusals : spec.refusals[i] \in Statuses /\ i <= Len(trace.steps)
    /\ spec.hook # {NoHook} => spec.kind = Standard /\ CheckText(spec, spec.hook)
    /\ CASE spec.kind = RecoveryVerification -> CheckScratchOnly(trace)
         [] spec.kind = RebootPersistence ->
               (verified \/ ~Mutating(trace)) /\ CheckRebootPersistence(trace)
         [] OTHER -> verified \/ ~Mutating(trace)
    /\ \A i \in DOMAIN trace.steps : Mappable(Action(trace, i), Pre(trace, i))

-----------------------------------------------------------------------------
(* The steps of the suite *)
OperatorSteps == {"enable", "disable", "linkChange"}
InstructionNames(a, post) ==    \* what the operator is told to act on
    LET peer == PeerOf(post, a.obj)
    IN  IF a.op = "linkChange" /\ peer # None THEN {a.obj, peer[1]} ELSE {a.obj}

PlanStep(spec, trace, i) ==
    LET a == Action(trace, i)
        post == trace.steps[i].post
        refused == i \in DOMAIN spec.refusals
    IN  [action |-> a,
         cmds |-> Drive(a, Pre(trace, i)),
         created |-> Created(trace, i),
         settles |-> a.op = "kernelBind",
         probes |-> Readback(a, Pre(trace, i), post),
         refusal |-> IF refused THEN spec.refusals[i] ELSE "none",
         expected |-> IF refused THEN Nothing ELSE Expect(a, Pre(trace, i), post)]

IdsOf(cmds) == UNION {{cmds[k].ids[m] : m \in DOMAIN cmds[k].ids} : k \in DOMAIN cmds}
StepText(trace, i, step) ==
    IdsOf(step.cmds) \cup {step.probes[m].on : m \in DOMAIN step.probes}
        \cup (IF step.action.op \in OperatorSteps
              THEN InstructionNames(step.action, trace.steps[i].post) ELSE {})
        \cup (IF step.settles THEN {step.action.obj} ELSE {})

-----------------------------------------------------------------------------
Unguarded(var, cmd) == [var |-> None, cmd |-> cmd]    \* a mutant
(* The teardown trap: what the run made, newest first; boot wiring last. An   *)
(* entry is skipped when the shell never learned the name of its `var`.       *)
Entry(var, cmd) == [var |-> var, cmd |-> cmd]
FinalState(trace) == Pre(trace, Len(trace.steps) + 1)
BoundToMac(trace, o) ==
    LET s == FinalState(trace)
    IN  /\ Fam(o) = "dpni" /\ o \in Objs(s) /\ s.objs[o].bind = "kernel"
        /\ PeerOf(s, o) # None /\ Fam(PeerOf(s, o)[1]) = "dpmac"
Release(trace, o) ==    \* a root resident may hold a driver; sever, then unbind
    (IF BoundToMac(trace, o) THEN <<Entry(o, Cmd("disconnect", <<Root, o>>, <<0>>))>> ELSE <<>>)
        \o <<Entry(o, Cmd("unbind", <<o>>, ""))>>
TrapOf(trace, i) ==
    LET o == Created(trace, i)
        parent == ParentOf(trace.steps[i].post, o)
    IN  (IF Fam(o) # "dprc" /\ parent = Root THEN Release(trace, o) ELSE <<>>)
        \o (IF Fam(o) # "dprc"
            THEN <<Entry(o, Cmd("plug", <<parent, o>>, FALSE))>> ELSE <<>>)
        \o <<Entry(o, Cmd("destroy", IF Fam(o) = "dpdbg" THEN <<>> ELSE <<o>>, Fam(o)))>>
SeveredFromPost(trace, i) ==    \* a mutant: the peer is read after the cut
    LET a == Action(trace, i)
        peer == IF a.op = "disconnectEdge" THEN PeerOf(trace.steps[i].post, a.e[1]) ELSE None
    IN  IF peer # None /\ {a.e[1], peer[1]} \subseteq Objs(trace.init)
        THEN <<Entry(None, Cmd("connect", <<Root, a.e[1], peer[1]>>, <<a.e[2], peer[2]>>))>>
        ELSE <<>>
Severed(trace, i) ==
    LET a == Action(trace, i)
        peer == IF a.op = "disconnectEdge" THEN PeerOf(Pre(trace, i), a.e[1]) ELSE None
    IN  IF peer # None /\ {a.e[1], peer[1]} \subseteq Objs(trace.init)
        THEN <<Entry(None, Cmd("connect", <<Root, a.e[1], peer[1]>>, <<a.e[2], peer[2]>>))>>
        ELSE <<>>
Teardown(trace) ==
    LET n == Len(trace.steps)
        trap[k \in 0..n] ==    \* the newest first
            IF k = 0 THEN <<>>
            ELSE (IF Created(trace, k) # None THEN TrapOf(trace, k) ELSE <<>>) \o trap[k-1]
        wiring[k \in 0..n] == IF k = 0 THEN <<>> ELSE wiring[k-1] \o Severed(trace, k)
    IN  trap[n] \o wiring[n]

(* The whole suite: a script that tears down, or one whose teardown is the    *)
(* reboot; screened once more as text before it is written.                   *)
Generate(spec, trace, verified) ==
    LET steps == [i \in DOMAIN trace.steps |-> PlanStep(spec, trace, i)]
        trap == IF spec.kind = Standard THEN Teardown(trace) ELSE <<>>
        text == Literal(trace.init,
                        UNION {StepText(trace, i, steps[i]) : i \in DOMAIN steps}
                        \cup UNION {IdsOf(<<trap[k].cmd>>) : k \in DOMAIN trap})
    IN  [ok |-> Gates(spec, trace, verified) /\ CheckText(spec, text),
         steps |-> steps, trap |-> trap, reboots |-> spec.kind # Standard]

-----------------------------------------------------------------------------
(* The offline judgement: created.txt, and per step the outputs of its probes *)
(* and the exits of its commands. A file that is not there reads as empty.    *)
Empty(probe) == CASE probe.kind = "show" -> <<>>
                  [] probe.kind = "info" -> [exists |-> FALSE]
                  [] probe.kind = "iface" -> <<>>
                  [] probe.kind = "driver" -> FALSE
Outputs(step, captured) ==
    [m \in DOMAIN step.probes |-> IF m \in DOMAIN captured THEN captured[m]
                                  ELSE Empty(step.probes[m])]
(* A name no create recorded is taken to be the model's own spelling.         *)
Resolved(created, o) == IF o \in DOMAIN created THEN created[o] ELSE o
NamesFor(created, e) ==
    LET asked == {e.object} \cup (IF "endpoint" \in DOMAIN e.want /\ e.want.endpoint # None
                                 THEN {e.want.endpoint[1]} ELSE {})
    IN  [o \in DOMAIN created \cup asked |-> Resolved(created, o)]
RefusalConforms(step, exits, status) ==
    exits # <<>> /\ (\A k \in DOMAIN exits : ~exits[k]) /\ status = step.refusal
Conform(step, created, result) ==
    IF step.refusal # "none" THEN RefusalConforms(step, result.exits, result.status)
    ELSE IF ~Asserts(step.expected) THEN TRUE      \* nothing is judged
    ELSE LET names == NamesFor(created, step.expected)
         IN  Judge(step.expected,
                   Observe(step.probes, Outputs(step, result.captured),
                           Resolved(created, step.expected.object)), names)
NotRun == [captured |-> <<>>, exits |-> <<>>, status |-> "none"]
Verdict(suite, created, results) ==
    \A i \in DOMAIN suite.steps :
       Conform(suite.steps[i], created, IF i \in DOMAIN results THEN results[i] ELSE NotRun)
=============================================================================
