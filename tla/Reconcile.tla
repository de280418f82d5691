------------------------------ MODULE Reconcile ------------------------------
(***************************************************************************)
(* The pure planner of the port facet: reconcile_with and the plan report  *)
(* (dpaa2-api, plan/reconcile.rs, plan/report.rs, plan/transition.rs).     *)
(*                                                                         *)
(* Every list of transitions the code emits for a port names each kind at  *)
(* most once and is ordered by the one order Rank, so a port's list is the *)
(* SET of kinds it still has due.  The dpni that the teardown kinds and    *)
(* setlabel name is always the one the observation showed on the port.     *)
(***************************************************************************)
EXTENDS PortBoard

CONSTANTS
  Ports,      \* dpmacs the intent declares a root port for
  Absent,     \* those declared absent (library callers only)
  Sized,      \* those whose compiled block carries queue sizing
  Actuate     \* those whose declared MAC is actuated

ASSUME IntentAssumption ==
  /\ Ports \subseteq Dpmacs
  /\ Absent \subseteq Ports
  /\ Sized \subseteq Ports
  /\ Actuate \subseteq Ports

RankUnbindFirst ==
  [disconnect |-> 2, unbind |-> 1, destroy |-> 3, setlabel |-> 4,
   create |-> 5, setmac |-> 6, connect |-> 7, bind |-> 8]

\* The transitions, in the order the planner pushes them.
Rank ==
  [disconnect |-> 1, unbind |-> 2, destroy |-> 3, setlabel |-> 4,
   create |-> 5, setmac |-> 6, connect |-> 7, bind |-> 8]

Kinds == {"disconnect", "unbind", "destroy", "setlabel",
          "create", "setmac", "connect", "bind"}

If(test, kinds) == IF test THEN kinds ELSE {}

\* The dpni an observation shows on a port; edges are exclusive on the MC.
ConnectedTo(b, p) ==
  IF \E d \in b.live : b.peer[d] = p
  THEN CHOOSE d \in b.live : b.peer[d] = p
  ELSE None

PlanCreateUnwired(p) == {"create"}

PlanCreate(p) ==
  {"create", "connect"} \cup If(p \in Actuate, {"setmac"}) \cup If(p \in Phy, {"bind"})

PlanTeardown(b, d) ==
  {"disconnect", "destroy"} \cup If(d \in b.bound, {"unbind"})

PlanRepairNoLabel(b, p, d) ==
  If(p \in Actuate /\ b.mac[d] = "other", {"setmac"})
    \cup If(p \in Phy /\ d \notin b.bound, {"bind"})

\* An unset MAC read-back is the bind-window transient: not compared.
PlanRepair(b, p, d) ==
  If(b.label[d] # p, {"setlabel"})
    \cup If(p \in Actuate /\ b.mac[d] = "other", {"setmac"})
    \cup If(p \in Phy /\ d \notin b.bound, {"bind"})

\* A create-immutable difference on the read-back; an unsized block and an
\* unreadable one are no drift.
CfgDrift(b, p, d) == p \in Sized /\ b.cfg[d] = "drift"

PlanPresent(b, p, runCreated) ==
  LET d == ConnectedTo(b, p) IN
  IF d = None THEN PlanCreate(p)
  ELSE IF ~CfgDrift(b, p, d) THEN PlanRepair(b, p, d)
  ELSE IF d \in runCreated THEN {}
  ELSE PlanTeardown(b, d) \cup PlanCreate(p)

PlanAbsent(b, p, prune) ==
  LET d == ConnectedTo(b, p) IN
  If(d # None /\ prune, PlanTeardown(b, d))

PlanPort(b, p, prune, runCreated) ==
  IF p \in Absent THEN PlanAbsent(b, p, prune) ELSE PlanPresent(b, p, runCreated)

\* The same-run rebuilds the planner refuses instead of churning hardware.
Refusals(b, runCreated) ==
  {p \in Ports \ Absent :
     LET d == ConnectedTo(b, p) IN d # None /\ CfgDrift(b, p, d) /\ d \in runCreated}

\* The disruption classes: 0 hitless, 1 boundary, 2 disruptive.
Classes == 0..2

ClassOf ==
  [disconnect |-> 2, unbind |-> 2, destroy |-> 2, setlabel |-> 1,
   create |-> 2, setmac |-> 0, connect |-> 2, bind |-> 0]

WithinLowest(due, allow) ==
  \A p \in Ports : due[p] = {} \/ \E kind \in due[p] : ClassOf[kind] <= allow

\* The headline, the highest class due, is within what the run allows.
Within(due, allow) == \A p \in Ports : \A kind \in due[p] : ClassOf[kind] <= allow

-----------------------------------------------------------------------------
(* What `dpaa2ctl status --detail` says of the declared ports (dpaa2-tools    *)
(* status.rs): the lifecycle, whether the system has diverged, who owns a     *)
(* port, how its MAC relates to the declared one and which netdev its carrier *)
(* is read from, each judged by families/dpmac.rs.                            *)

Lifecycle(b, p) ==
  LET d == ConnectedTo(b, p) IN
  IF d = None THEN "Absent" ELSE IF d \in b.bound THEN "Bound" ELSE "Connected"

\* Status plans like an `ensure` without --prune that has created nothing.
HasDiverged(b) == \E p \in Ports : PlanPort(b, p, FALSE, {}) # {}

\* A peer in another container, or of another family, is not in what is read.
PeerObservationFromRoot(b, p) ==
  IF ConnectedTo(b, p) = None THEN "NoPeer" ELSE "SameContainerKernelPeer"

StandaloneBoundFor(peer) == peer \in {"NoPeer", "CrossContainerPeer"}

JudgeArbitration(peer) ==
  CASE peer = "NoPeer"                  -> "Offered"
    [] peer = "CrossContainerPeer"      -> "RemoteOwned"
    [] peer = "SameContainerKernelPeer" -> "KernelOwned"

\* The device whose netdev the carrier is read from.
CarrierSource(b, p) ==
  IF JudgeArbitration(PeerObservationFromRoot(b, p)) = "KernelOwned"
  THEN <<"dpni", ConnectedTo(b, p)>> ELSE <<"dpmac", p>>

\* That device has a netdev while its driver holds it.
CarrierReadable(b, source) ==
  IF source[1] = "dpni" THEN source[2] \in b.bound ELSE source[2] \in b.macdrv

\* An unset read-back is no observation; the declared MAC wins the tie with
\* the burned-in one.
JudgeMacRelation(b, p, burnedIn) ==
  LET mac == b.mac[ConnectedTo(b, p)] IN
  IF mac = "zero" THEN "Pending"
  ELSE IF p \in Actuate /\ mac = "want" THEN "Overridden"
  ELSE IF mac = burnedIn THEN "Inherited" ELSE "Mismatched"
=============================================================================
