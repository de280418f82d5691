---------------------------- MODULE SuiteMachine ----------------------------
(* The generic object machine the board suites are drawn from (models/core):  *)
(* containment, connect edges, pools and the lifecycle of one object, as      *)
(* operators on a state record, so that a trace's model states and the board  *)
(* the suite drives are two values of the same machine.                       *)
(*                                                                           *)
(* An object id is <<family, number>>, an endpoint <<object, port>>, an edge  *)
(* the set of its two endpoints. Every container a create makes holds SPAWN   *)
(* and OBJ_CREATE, the only permissions a guard reads, so permissions are not *)
(* carried; neither is `pristine`, which nothing here reads.                  *)
EXTENDS Naturals, FiniteSets, Sequences

CONSTANT Params   \* family -> [creatable, rootOnly, singleton, pooled, driver,
                  \*            hotBind, ports, rescans, draws]

ASSUME ParamsShape ==
    \A f \in DOMAIN Params : Params[f].ports \in Nat /\ Params[f].draws \subseteq DOMAIN Params

None == <<>>
Fam(o) == o[1]
Global == <<"dprc", 0>>
Root == <<"dprc", 1>>

Objs(s) == DOMAIN s.objs
Dprcs(s) == {o \in Objs(s) : Fam(o) = "dprc"}
Put(s, o, st) ==
    [s EXCEPT !.objs = [x \in DOMAIN @ \cup {o} |-> IF x = o THEN st ELSE @[x]]]
Over(s, S, F(_)) ==
    [s EXCEPT !.objs = [x \in DOMAIN @ |-> IF x \in S THEN F(@[x]) ELSE @[x]]]

-----------------------------------------------------------------------------
(* Containment *)
Residents(s, c) == {o \in Objs(s) : s.objs[o].parent = c}
MaxDepth == 8
Lineage(s, c) ==
    LET up[n \in 0..MaxDepth] ==
            IF n = 0 THEN {c}
            ELSE LET below == up[n-1]
                 IN  below \cup {s.objs[o].parent : o \in below \cap Objs(s)}
    IN  up[MaxDepth] \ {None}
IsGlobal(s, c) == c \in Dprcs(s) /\ s.objs[c].parent = None
IsLinuxRoot(s, c) == c \in Objs(s) /\ IsGlobal(s, s.objs[c].parent)
LockedAnywhere(s, c) == Lineage(s, c) \cap s.locked # {}
UnderOpenParent(s, o) ==
    s.objs[o].parent # None /\ ~LockedAnywhere(s, s.objs[o].parent)

CanMove(s, o, dst) ==
    /\ o \in Objs(s) /\ Fam(o) # "dprc" /\ ~Params[Fam(o)].rootOnly
    /\ dst \in Dprcs(s) /\ ~IsGlobal(s, dst)
    /\ ~s.objs[o].plugged /\ s.objs[o].bind = "none" /\ s.objs[o].by = None
    /\ ~LockedAnywhere(s, dst) /\ UnderOpenParent(s, o)
    /\ \/ s.objs[dst].parent = s.objs[o].parent          \* down one edge
       \/ s.objs[s.objs[o].parent].parent = dst          \* up one edge

-----------------------------------------------------------------------------
(* Connect edges *)
LegalPairs == {{"dpni", "dpmac"}, {"dpni"}, {"dpni", "dpsw"}, {"dpni", "dpdmux"},
               {"dpsw", "dpmac"}, {"dpdmux", "dpmac"}, {"dpci"}}
LegalPorts(a, b) == Fam(a[1]) = "dpdmux" /\ Fam(b[1]) = "dpmac" => a[2] = 0
Wired(s) == UNION s.edges
ValidEndpoint(s, e) == e[1] \in Objs(s) /\ e[2] < Params[Fam(e[1])].ports
CanConnect(s, a, b) ==
    /\ ValidEndpoint(s, a) /\ ValidEndpoint(s, b)
    /\ {Fam(a[1]), Fam(b[1])} \in LegalPairs
    /\ LegalPorts(a, b) /\ LegalPorts(b, a)
    /\ a \notin Wired(s) /\ b \notin Wired(s)
PeerAt(s, e) ==   \* the endpoint wired to e, or None
    LET d == {d \in s.edges : e \in d}
    IN  IF d = {} THEN None
        ELSE CHOOSE x \in UNION d : x # e \/ {e} \in d

-----------------------------------------------------------------------------
(* Create and allocate *)
CanCreate(s, fam, c) ==
    /\ c \in Dprcs(s) /\ ~LockedAnywhere(s, c)
    /\ Params[fam].creatable
    /\ Params[fam].rootOnly => IsLinuxRoot(s, c)
    /\ Params[fam].singleton => \A o \in Objs(s) : Fam(o) # fam
NewObj(parent) ==
    [parent |-> parent, owner |-> parent, plugged |-> FALSE, vis |-> FALSE,
     bind |-> "none", by |-> None, up |-> FALSE, enabled |-> FALSE]
FreePool(s, c, fam) ==
    {o \in Residents(s, c) : /\ Fam(o) = fam /\ Params[fam].pooled
                             /\ s.objs[o].plugged /\ s.objs[o].bind = "none"
                             /\ s.objs[o].by = None}
(* One free object of every family the probe draws: which one is free to      *)
(* vary, a choice stands for it.                                              *)
Drawn(s, o) ==
    LET c == s.objs[o].parent
    IN  {CHOOSE p \in FreePool(s, c, f) : TRUE : f \in Params[Fam(o)].draws}

-----------------------------------------------------------------------------
(* The transforms of the lifecycle *)
RescanT(s, c) == Over(s, Residents(s, c), LAMBDA st : [st EXCEPT !.vis = TRUE])
RescanRootsT(s) ==
    LET seen == {o \in Objs(s) : IsLinuxRoot(s, s.objs[o].parent)}
    IN  Over(s, seen, LAMBDA st : [st EXCEPT !.vis = TRUE])
CreateAs(s, o, c) ==
    LET made == Put(s, o, NewObj(c))
    IN  IF Params[Fam(o)].rescans THEN RescanRootsT(made) ELSE made
FreshId(s, fam) == <<fam, s.next[fam]>>
CreateT(s, fam, c) ==
    [CreateAs(s, FreshId(s, fam), c) EXCEPT !.next[fam] = @ + 1]
MarkT(s, consumer, drawn) == Over(s, drawn, LAMBDA st : [st EXCEPT !.by = consumer])
BindT(s, o) == MarkT(Over(s, {o}, LAMBDA st : [st EXCEPT !.bind = "kernel",
                                                         !.enabled = FALSE]),
                     o, Drawn(s, o))
ReleaseT(s, consumer) ==
    Over(s, {p \in Objs(s) : s.objs[p].by = consumer}, LAMBDA st : [st EXCEPT !.by = None])
UnbindT(s, o) ==
    Over(ReleaseT(s, o), {o}, LAMBDA st : [st EXCEPT !.bind = "none", !.enabled = FALSE])
MoveT(s, o, dst) ==
    Over(s, {o}, LAMBDA st : [st EXCEPT !.parent = dst, !.vis = FALSE])
CutT(s, e) == [s EXCEPT !.edges = {d \in @ : e \notin d}]
DestroyT(s, o) ==
    LET gone == {o} \cup {r \in Residents(s, o) : s.objs[r].owner = o}
        freed == ReleaseT(s, o)
        evicted == Over(freed, Residents(s, o) \ gone,
                        LAMBDA st : [st EXCEPT !.parent = s.objs[o].parent, !.vis = FALSE])
    IN  [evicted EXCEPT !.objs = [x \in DOMAIN @ \ gone |-> @[x]],
                        !.locked = @ \ gone,
                        !.edges = {d \in @ : \A e \in d : e[1] \notin gone}]

-----------------------------------------------------------------------------
(* The actions: a record [op, and its parameters], its guard and its effect.  *)
ProbeReady(s, o) ==   \* what a driver needs to attempt its probe
    /\ s.objs[o].plugged /\ s.objs[o].vis /\ s.objs[o].bind = "none"
    /\ Params[Fam(o)].driver /\ ~Params[Fam(o)].pooled
    /\ \A f \in Params[Fam(o)].draws : FreePool(s, s.objs[o].parent, f) # {}

CanDestroy(s, o) ==
    LET st == s.objs[o]
    IN  /\ UnderOpenParent(s, o)
        /\ ~(IsLinuxRoot(s, st.parent) /\ (st.bind = "kernel" \/ st.by # None))
        /\ st.owner = st.parent
        /\ Fam(o) = "dprc" =>
              \A r \in Residents(s, o) :
                 /\ Fam(r) # "dprc" /\ s.objs[r].bind = "none" /\ s.objs[r].by = None
                 /\ s.objs[r].owner = o \/ ~s.objs[r].plugged

On(s, a) == a.obj \in Objs(s)

MayMoveOrMake(s, a) ==
    \/ a.op = "createContainer" /\ a.parent \in Dprcs(s) /\ ~LockedAnywhere(s, a.parent)
    \/ a.op = "createObject" /\ a.fam # "dprc" /\ CanCreate(s, a.fam, a.container)
    \/ a.op = "preplugMutate" /\ On(s, a) /\ Fam(a.obj) # "dprc" /\ ~s.objs[a.obj].plugged
    \/ a.op = "assignChild" /\ CanMove(s, a.obj, a.dst)
    \/ a.op = "plug" /\ On(s, a) /\ ~s.objs[a.obj].plugged /\ UnderOpenParent(s, a.obj)
    \/ /\ a.op = "unplug" /\ On(s, a) /\ s.objs[a.obj].plugged
       /\ s.objs[a.obj].bind = "none" /\ s.objs[a.obj].by = None /\ UnderOpenParent(s, a.obj)
    \/ a.op = "destroy" /\ On(s, a) /\ CanDestroy(s, a.obj)
    \/ /\ a.op = "setLocked" /\ a.container \in Dprcs(s) /\ UnderOpenParent(s, a.container)

MayBindOrWire(s, a) ==
    \/ a.op = "kernelBind" /\ On(s, a) /\ s.objs[a.obj].parent # None /\ ProbeReady(s, a.obj)
    \/ /\ a.op = "vfioBind" /\ On(s, a) /\ Fam(a.obj) # "dprc"
       /\ s.objs[a.obj].plugged /\ s.objs[a.obj].vis
       /\ s.objs[a.obj].bind = "none" /\ s.objs[a.obj].by = None
    \/ a.op = "unbind" /\ On(s, a) /\ s.objs[a.obj].bind # "none"
    \/ a.op = "connectEdge" /\ CanConnect(s, a.a, a.b)
    \/ a.op = "disconnectEdge" /\ a.e \in Wired(s)
    \/ a.op = "rescan" /\ IsLinuxRoot(s, a.container)
    \/ /\ a.op = "childIrqRefresh" /\ a.container \in Dprcs(s)
       /\ ~IsLinuxRoot(s, a.container) /\ ~IsGlobal(s, a.container)
    \/ /\ a.op = "allocate" /\ a.consumer \in Objs(s) /\ s.objs[a.consumer].bind = "kernel"
       /\ a.pool \in FreePool(s, s.objs[a.consumer].parent, Fam(a.pool))
    \/ a.op = "free" /\ a.pool \in Objs(s) /\ s.objs[a.pool].by # None
    \/ a.op = "enable" /\ On(s, a) /\ s.objs[a.obj].bind # "none" /\ ~s.objs[a.obj].enabled
    \/ a.op = "disable" /\ On(s, a) /\ s.objs[a.obj].enabled
    \/ a.op = "linkChange" /\ On(s, a) /\ Params[Fam(a.obj)].ports > 0

Guard(s, a) == MayMoveOrMake(s, a) \/ MayBindOrWire(s, a)

Effect(s, a) ==
    CASE a.op = "createContainer" -> CreateT(s, "dprc", a.parent)
      [] a.op = "createObject" -> CreateT(s, a.fam, a.container)
      [] a.op = "preplugMutate" -> s
      [] a.op = "assignChild" -> MoveT(s, a.obj, a.dst)
      [] a.op = "plug" -> Over(s, {a.obj}, LAMBDA st : [st EXCEPT !.plugged = TRUE])
      [] a.op = "unplug" ->
            Over(UnbindT(s, a.obj), {a.obj}, LAMBDA st : [st EXCEPT !.plugged = FALSE])
      [] a.op = "kernelBind" -> IF Params[Fam(a.obj)].hotBind THEN BindT(s, a.obj) ELSE s
      [] a.op = "vfioBind" -> Over(s, {a.obj}, LAMBDA st : [st EXCEPT !.bind = "vfio"])
      [] a.op = "unbind" -> UnbindT(s, a.obj)
      [] a.op = "connectEdge" -> [s EXCEPT !.edges = @ \cup {{a.a, a.b}}]
      [] a.op = "disconnectEdge" -> CutT(s, a.e)
      [] a.op \in {"rescan", "childIrqRefresh"} -> RescanT(s, a.container)
      [] a.op = "allocate" -> MarkT(s, a.consumer, {a.pool})
      [] a.op = "free" -> Over(s, {a.pool}, LAMBDA st : [st EXCEPT !.by = None])
      [] a.op \in {"enable", "disable"} ->
            Over(s, {a.obj}, LAMBDA st : [st EXCEPT !.enabled = a.op = "enable"])
      [] a.op = "setLocked" ->
            [s EXCEPT !.locked = IF a.locked THEN @ \cup {a.container} ELSE @ \ {a.container}]
      [] a.op = "linkChange" -> Over(s, {a.obj}, LAMBDA st : [st EXCEPT !.up = ~@])
      [] a.op = "destroy" -> DestroyT(s, a.obj)

-----------------------------------------------------------------------------
(* The boot states *)
BootObj(parent) == [NewObj(parent) EXCEPT !.plugged = TRUE, !.vis = TRUE]
StartNum(f) == CASE f = "dprc" -> 2 [] f = "dprtc" -> 1 [] OTHER -> 0
BootState(macs) ==
    [objs |-> [o \in {Global, Root} \cup macs |->
                 BootObj(CASE o = Global -> None [] o = Root -> Global [] OTHER -> Root)],
     edges |-> {}, locked |-> {}, next |-> [f \in DOMAIN Params |-> StartNum(f)]]
WiredState(macs, mac) ==
    LET child == <<"dprc", 2>>  ni == <<"dpni", 1>>
        s == Put(Put(BootState(macs), child, [BootObj(Root) EXCEPT !.plugged = FALSE]),
                 ni, BootObj(child))
    IN  [s EXCEPT !.edges = {{<<ni, 0>>, <<mac, 0>>}},
                  !.next = [f \in DOMAIN @ |-> CASE f = "dprc" -> 3 [] f = "dpni" -> 2
                                                 [] OTHER -> @[f]]]
=============================================================================
