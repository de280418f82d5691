---------------------------- MODULE TenancyPlan ----------------------------
(***************************************************************************)
(* What the container phases compute from one reading of the board         *)
(* (plan/dprc.rs, plan/populate.rs, dpaa2-mc populate.rs), as the sequence *)
(* of verbs the engine then issues.                                        *)
(***************************************************************************)
EXTENDS TenancyBoard, Queues

CONSTANTS
  Rolls,    \* the intents tried: declared tenants that own a container, in plan order
  Regime,   \* tenant -> "vfio" or "kernel"
  Ports,    \* tenant -> its ports, in plan order; a port names its dpmac
  Need      \* tenant -> companions derived for it

ASSUME PlanAssumption ==
  /\ Rolls \subseteq Seq(Names) /\ Peers \subseteq Names
  /\ \A r \in Rolls : \A i \in DOMAIN r :
       /\ Regime[r[i]] \in {"vfio", "kernel"}
       /\ Ports[r[i]] \in Seq(Peers)
       /\ Need[r[i]] \in Nat
       /\ (Regime[r[i]] = "vfio" => Need[r[i]] > 0)   \* at least the dpmcp of a process

VARIABLE roll   \* the intent the tool is run with

Tenants == ToSet(roll)

\* Every construct name the plan places: what no label of ours lies outside of.
Declared == Tenants \cup UNION {ToSet(Ports[t]) : t \in Tenants}

\* One verb of a phase.  `on` is the container, `arg` a name, a port, a tenant
\* or a count, `obj` the object, None for the one the phase just created.
Verb(op, on, arg, obj) == [op |-> op, on |-> on, arg |-> arg, obj |-> obj]
Done == <<Verb("done", None, None, None)>>

Times(n, verbs) == FlattenSeq([i \in 1..n |-> verbs])

-----------------------------------------------------------------------------
(* Containers: matched by label, the id being the MC's. *)

Handle(b, t) ==
  LET same == {c \in b.live : b.name[c] = t}
  IN IF same = {} THEN None ELSE Min(same)

MissingTenants(b) == Only(roll, {t \in Tenants : Handle(b, t) = None})

ContainerVerbs(b) ==
  LET missing == MissingTenants(b)
  IN [i \in 1..Len(missing) |-> Verb("spawn", None, missing[i], None)]
       \o [i \in 1..Len(missing) |-> Verb("verdict", None, missing[i], None)]
       \o Done

-----------------------------------------------------------------------------
(* Population of one child. *)

DpniRows(b, c) == Residents(b, c) \cap Dpnis
PoolRows(b, c) == Residents(b, c) \cap Pool

PortRow(b, c, p) ==
  LET same == {d \in DpniRows(b, c) : b.tag[d] = p}
  IN IF same = {} THEN None ELSE Min(same)

NeedsConnect(b, c, p) ==
  PortRow(b, c, p) # None => b.edge[PortRow(b, c, p)] # p

Managed(b, c) == {o \in PoolRows(b, c) : b.tag[o] \in Declared}
Foreign(b, c) == {o \in PoolRows(b, c) : b.tag[o] \notin Declared \cup {None}}

CensusConverged(b, t, c) == Cardinality(Managed(b, c)) = Need[t] /\ Foreign(b, c) = {}

PlanConverged(b, t, c) ==
  /\ \A p \in ToSet(Ports[t]) : ~NeedsConnect(b, c, p)
  /\ CensusConverged(b, t, c)

\* Creating or removing a resident is disruptive; a missing edge alone is not.
Disruptive(b, t, c) ==
  \/ \E p \in ToSet(Ports[t]) : PortRow(b, c, p) = None
  \/ ~CensusConverged(b, t, c)

Deficit(b, t, c) ==
  IF Cardinality(Managed(b, c)) < Need[t] THEN Need[t] - Cardinality(Managed(b, c)) ELSE 0
Surplus(b, t, c) ==
  IF Cardinality(Managed(b, c)) > Need[t] THEN Cardinality(Managed(b, c)) - Need[t] ELSE 0

\* create_dpni_in stamps before it plugs, the pool creates plug before they
\* stamp; the connect is issued from the common ancestor, never plugging.
PortVerbs(b, c, p) ==
  IF PortRow(b, c, p) = None
  THEN <<Verb("mintDpni", c, p, None), Verb("stamp", c, p, None),
         Verb("plug", c, p, None), Verb("connect", c, p, None)>>
  ELSE IF NeedsConnect(b, c, p)
  THEN <<Verb("connect", c, p, PortRow(b, c, p))>>
  ELSE << >>

PoolVerbs(b, t, c) ==
  Times(Deficit(b, t, c),
        <<Verb("mintPool", c, t, None), Verb("plug", c, t, None), Verb("stamp", c, t, None)>>)
    \o Times(Surplus(b, t, c), <<Verb("reclaim", c, t, None)>>)
    \o Times(Cardinality(Foreign(b, c)), <<Verb("pruneForeign", c, t, None)>>)

NoHandoff(c) == << >>

\* Populate, then bind; a bound child whose plan was not empty is rebound.
HandoffNow(c) == <<Verb("override", c, "vfio", None), Verb("bind", c, "vfio", None)>>

\* The verdict after the rebind is never reached: the unbind clears the override
\* that the bind needs.  The next run finds the child unbound and hands it over.
Rebind(t, c) == <<Verb("unbind", c, t, None), Verb("bind", c, "vfio", None)>>

BindVerbs(b, t, c) ==
  CASE Regime[t] = "kernel" ->
         IF b.driver[c] = "kernel" THEN << >> ELSE <<Verb("kernelBind", c, t, None)>>
    [] Regime[t] = "vfio" /\ b.driver[c] = "vfio" ->
         IF PlanConverged(b, t, c) THEN << >> ELSE Rebind(t, c)
    [] OTHER -> HandoffNow(c)

Judge(b, t, c) ==
  IF Regime[t] = "kernel" \/ b.driver[c] # "vfio"
  THEN <<Verb("judge", c, t, None)>> ELSE << >>

BindFirst(b, t, c) ==
  BindVerbs(b, t, c)
    \o FlattenSeq([i \in 1..Len(Ports[t]) |-> PortVerbs(b, c, Ports[t][i])])
    \o PoolVerbs(b, t, c)

ChildVerbs(b, t, c) ==
  (IF PlanConverged(b, t, c) THEN << >>
   ELSE FlattenSeq([i \in 1..Len(Ports[t]) |-> PortVerbs(b, c, Ports[t][i])])
          \o PoolVerbs(b, t, c) \o Judge(b, t, c))
    \o BindVerbs(b, t, c)

\* A tenant without a container yet is left for the next run.
Populated(b) == Only(roll, {t \in Tenants : Handle(b, t) # None})

PopulationVerbs(b) ==
  FlattenSeq([i \in 1..Len(Populated(b)) |->
                ChildVerbs(b, Populated(b)[i], Handle(b, Populated(b)[i]))]) \o Done

\* Standing drift no run heals, or not without consent to disrupt.
Drifted(b, allow) ==
  \E t \in Tenants :
    LET c == Handle(b, t)
    IN /\ c # None /\ b.driver[c] = "vfio"
       /\ \/ Regime[t] = "kernel"
          \/ ~PlanConverged(b, t, c) /\ allow < 2

PopulationDisruptive(b) ==
  \E t \in Tenants : Handle(b, t) # None /\ Disruptive(b, t, Handle(b, t))

-----------------------------------------------------------------------------
(* Prune: what is labelled and declared by nobody. *)

EveryUndeclared(b) == {c \in b.live : b.name[c] \notin Tenants}
\* Labelled by us, declared by nobody.
Candidates(b) == {c \in b.live : b.name[c] \notin Tenants \cup {None}}

\* release_child_bindings, then the eviction-law teardown.
TeardownVerbs(b, c) ==
  LET rows == SetToSeq(DpniRows(b, c))
      plugs == SetToSeq(Residents(b, c) \cap b.plugged)
  IN <<Verb("release", c, None, None)>>
       \o [i \in 1..Len(rows) |-> Verb("sever", c, None, rows[i])]
       \o [i \in 1..Len(plugs) |-> Verb("unplug", c, None, plugs[i])]
       \o <<Verb("destroy", c, None, None)>>

PruneVerbs(b) ==
  LET order == InOrder(Candidates(b))
  IN FlattenSeq([i \in 1..Len(order) |-> TeardownVerbs(b, order[i])])
       \o <<Verb("pruneVerdict", None, None, None)>>
=============================================================================
