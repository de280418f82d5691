---------------------------- MODULE FabricPlan ----------------------------
(***************************************************************************)
(* The board below the link and switch phases, dpnis in the root and in    *)
(* the child containers, root dpsws with their interfaces, and the edges   *)
(* between dpnis, interfaces and dpmacs, as the restool adapter uses the   *)
(* Management Complex; and what the population, link and switch phases     *)
(* compute from it for dpni-dpni links and switched domains (dpaa2-mc      *)
(* populate.rs, engine.rs, plan/connect.rs, plan/dpsw.rs), as the verbs    *)
(* the engine then issues.                                                 *)
(***************************************************************************)
EXTENDS Queues

CONSTANTS
  Dpnis, Switches, Macs,   \* ids
  Widest,                  \* the interfaces a dpsw may have: 0 .. Widest
  Root, Kids,              \* containers; the children stand already
  Names,                   \* construct names
  None,
  Create                   \* in place of an id: to be created

Homes == {Root} \cup Kids
Objs == Dpnis \cup Switches

\* An endpoint is a dpni, a dpmac, or the interface i of a dpsw s.
If(s, i) == 1000 * s + i
IfsOf(s) == {If(s, i) : i \in 0..Widest}
Ends == Dpnis \cup Macs \cup UNION {IfsOf(s) : s \in Switches}

ASSUME BoardAssumption ==
  /\ Dpnis \subseteq 1..999 /\ Switches \subseteq 1..999 /\ Macs \subseteq 1..999
  /\ Dpnis \cap Switches = {} /\ Macs \cap Dpnis = {}
  /\ Widest \in 0..999
  /\ \A x \in {None, Create} : x \notin Ends \cup Objs /\ x \notin Homes /\ x \notin Names
  /\ None # Create
  /\ Root \notin Kids

Boards ==
  [home    : [Objs -> Homes \cup {None}],
   tag     : [Objs -> Names \cup {None}],     \* the MC label
   plugged : SUBSET Objs,
   wire    : [Ends -> Ends \cup {None}],
   drifted : SUBSET Switches]                 \* reads back another signature

NoBoard ==
  [home |-> [o \in Objs |-> None], tag |-> [o \in Objs |-> None], plugged |-> {},
   wire |-> [e \in Ends |-> None], drifted |-> {}]

\* What any reading of the board shows: an edge is seen from both its ends, and what
\* does not stand has no label, no driver and no edge.
EndsOf(o) == IF o \in Switches THEN IfsOf(o) ELSE {o}
Consistent(b) ==
  /\ \A e \in Ends : b.wire[e] # None => b.wire[b.wire[e]] = e
  /\ \A o \in Objs : b.home[o] = None =>
       /\ b.tag[o] = None /\ o \notin b.plugged /\ o \notin b.drifted
       /\ \A e \in EndsOf(o) : b.wire[e] = None

Living(b) == {o \in Objs : b.home[o] # None}
FreeIds(b, kind) == {o \in kind : b.home[o] = None}
\* Ids are handed out again, the lowest first.
Lowest(S) == CHOOSE i \in S : \A j \in S : i <= j

-----------------------------------------------------------------------------
(* MC commands, through restool. *)

Minted(b, o, h) == [b EXCEPT !.home[o] = h, !.drifted = @ \ {o}]
Stamped(b, o, n) == [b EXCEPT !.tag[o] = n]
PluggedIn(b, o) == [b EXCEPT !.plugged = @ \cup {o}]

\* Both ends must stand and be unconnected (DPRC-I5, DPNI-I9).
CanJoin(b, e, f) == e # f /\ b.wire[e] = None /\ b.wire[f] = None
Joined(b, e, f) == [b EXCEPT !.wire[e] = f, !.wire[f] = e]

Cut(b, S) ==
  [b EXCEPT !.wire = [e \in Ends |-> IF e \in S \/ @[e] \in S THEN None ELSE @[e]]]

\* A connected endpoint is no obstacle to a destroy; the edge goes with it.
Gone(b, o) ==
  [Cut(b, EndsOf(o)) EXCEPT !.home[o] = None, !.tag[o] = None,
                            !.plugged = @ \ {o}, !.drifted = @ \ {o}]

-----------------------------------------------------------------------------
(* The plans. *)

CONSTANTS
  Intents,   \* the wires an intent may declare: [label, a, b], two containers, in plan order
  Domains,   \* the switched domains: [label, uplink, members], a member is
             \* [home, label]; interface 0 faces the uplink, i the i-th member
  Children   \* the children in the order of their labels

Link == [label : Names, a : Homes, b : Homes]
Member == [home : Homes, label : Names]

ASSUME PlanAssumption ==
  /\ Intents \subseteq Seq(Link)
  /\ Domains \in Seq([label : Names, uplink : Macs, members : Seq(Member)])
  /\ Children \in Seq(Kids) /\ ToSet(Children) = Kids
  /\ \A i, j \in DOMAIN Children : i # j => Children[i] # Children[j]
  /\ \A i, j \in DOMAIN Domains : i # j => Domains[i].label # Domains[j].label

VARIABLE links   \* the declared wires

\* One verb: `at` a container, `arg` a name or an index, `a` and `b` ends or
\* objects, None for what the phase just created.
Verb(op, at, arg, a, b) == [op |-> op, at |-> at, arg |-> arg, a |-> a, b |-> b]
Done == <<Verb("done", None, None, None, None)>>

RowsNamed(b, h, n) == {d \in Dpnis : b.home[d] = h /\ b.tag[d] = n}
\* A label names rows, not a row: the first of them is taken.
Row(b, h, n) == IF RowsNamed(b, h, n) = {} THEN None ELSE Lowest(RowsNamed(b, h, n))

-----------------------------------------------------------------------------
(* Population: the child dpnis a link ends in, then a domain's members. *)

LinkEndsIn(k) ==
  FlattenSeq([i \in 1..Len(links) |->
     (IF links[i].a = k THEN <<[label |-> links[i].label, peer |-> links[i].b]>> ELSE << >>)
       \o (IF links[i].b = k THEN <<[label |-> links[i].label, peer |-> links[i].a]>> ELSE << >>)])

MembersIn(k) ==
  FlattenSeq([i \in 1..Len(Domains) |-> FlattenSeq([j \in 1..Len(Domains[i].members) |->
     IF Domains[i].members[j].home = k
     THEN <<[label |-> Domains[i].members[j].label, peer |-> None]>> ELSE << >>])])

PlannedIn(k) == LinkEndsIn(k) \o MembersIn(k)

\* Read for every child before any is dispatched.
PeerOf(b, d) == IF d.peer = None THEN None ELSE Row(b, d.peer, d.label)

MintIn(op, h, n) == <<Verb(op, h, n, None, None), Verb("stamp", h, n, None, None)>>

CreateVerbs(k, d) == MintIn("mint", k, d.label) \o <<Verb("plug", k, d.label, None, None)>>

EndVerbs(b, k, d) ==
  LET peer == PeerOf(b, d)
      row == Row(b, k, d.label)
  IN (IF row = None THEN CreateVerbs(k, d) ELSE << >>)
       \o (IF peer # None /\ (row = None \/ b.wire[row] # peer)
           THEN <<Verb("join", k, d.label, row, peer)>> ELSE << >>)
       \o <<Verb("next", None, None, None, None)>>

PopulationVerbs(b) ==
  FlattenSeq([c \in 1..Len(Children) |->
     LET planned == PlannedIn(Children[c])
     IN FlattenSeq([i \in 1..Len(planned) |-> EndVerbs(b, Children[c], planned[i])])]) \o Done

\* A create is disruptive, a missing edge alone is not.
PopulationDisruptive(b) ==
  \E k \in Kids : \E d \in ToSet(PlannedIn(k)) : Row(b, k, d.label) = None

-----------------------------------------------------------------------------
(* Links: resolve the two ends of each edge, all on one reading. *)

\* Two ends that share the root are any two rows of the label.
Slots(b, l) ==
  LET rows == RowsNamed(b, l.a, l.label)
      slot(h) == IF Row(b, h, l.label) = None /\ h = Root THEN Create ELSE Row(b, h, l.label)
  IN IF l.a # l.b THEN <<slot(l.a), slot(l.b)>>
     ELSE IF rows = {} THEN <<slot(l.a), slot(l.a)>>
     ELSE IF Cardinality(rows) = 1 THEN <<Lowest(rows), IF l.a = Root THEN Create ELSE None>>
     ELSE <<Lowest(rows), Lowest(rows \ {Lowest(rows)})>>

Present(x) == x \notin {Create, None}
Pending(s) == None \in ToSet(s)

\* plan_wire: an end wired to another peer, on either side, is never rewired.
Held(b, x, y) ==
  IF b.wire[x] # None THEN b.wire[x] # y ELSE b.wire[y] # None /\ b.wire[y] # x
Fresh(b, x, y) == b.wire[x] = None /\ b.wire[y] = None

\* The lone present end of an edge whose peer is still to be created.
LoneHeld(b, s) == \E x \in ToSet(s) : Present(x) /\ b.wire[x] # None

LinkHeld(b, l) ==
  LET s == Slots(b, l)
  IN IF Pending(s) THEN FALSE
     ELSE IF Create \in ToSet(s) THEN LoneHeld(b, s)
     ELSE Held(b, s[1], s[2])

LinkWorkPresent(b, l) ==
  LET s == Slots(b, l)
  IN IF Create \in ToSet(s) \/ Pending(s) THEN FALSE ELSE Fresh(b, s[1], s[2])

LinkWork(b, l) ==
  LET s == Slots(b, l)
  IN ~Pending(s) /\ IF Create \in ToSet(s) THEN TRUE ELSE Fresh(b, s[1], s[2])

Given(x) == IF x = Create THEN None ELSE x

\* Root ends are plugged after the connect, a child's never here.
PlugRoot(b, l, s) ==
  FlattenSeq([i \in 1..2 |->
    IF (IF i = 1 THEN l.a ELSE l.b) # Root \/ (Present(s[i]) /\ s[i] \in b.plugged)
    THEN << >> ELSE <<Verb(IF i = 1 THEN "plugA" ELSE "plugB", Root, l.label, Given(s[i]), None)>>])

MintRoot(l, s) ==
  FlattenSeq([i \in 1..2 |-> IF s[i] = Create THEN MintIn("mint", Root, l.label) ELSE << >>])
WireVerb(l, s) == <<Verb("wire", Root, l.label, Given(s[1]), Given(s[2]))>>
NextLink == <<Verb("next", None, None, None, None)>>

LinkVerbs(b, l) ==
  LET s == Slots(b, l)
  IN IF ~LinkWork(b, l) THEN << >>
     ELSE MintRoot(l, s) \o WireVerb(l, s) \o PlugRoot(b, l, s) \o NextLink

LinksVerbs(b) ==
  FlattenSeq([i \in 1..Len(links) |-> LinkVerbs(b, links[i])]) \o Done

LinksHeld(b) == \E i \in DOMAIN links : LinkHeld(b, links[i])
LinksDisruptive(b) == \E i \in DOMAIN links : LinkWork(b, links[i])

-----------------------------------------------------------------------------
(* Switched domains. *)

DomainSwitch(b, d) ==
  LET same == {s \in Switches : b.home[s] = Root /\ b.tag[s] = d.label}
  IN IF same = {} THEN None ELSE Lowest(same)

\* Presence by label, drift by the observable signature; edges are not judged.
DomainVerbs(b, i) ==
  LET s == DomainSwitch(b, Domains[i])
  IN IF s = None THEN <<Verb("raise", Root, i, None, None)>>
     ELSE IF s \in b.drifted
     THEN <<Verb("destroy", Root, None, s, None), Verb("raise", Root, i, None, None)>>
     ELSE << >>

SwitchVerbs(b) == FlattenSeq([i \in 1..Len(Domains) |-> DomainVerbs(b, i)]) \o Done
SwitchDisruptive(b) == \E i \in DOMAIN Domains : DomainVerbs(b, i) # << >>

MemberRow(b, m) == Row(b, m.home, m.label)
\* A member that is not created yet, or one interface too many.
Unraisable(b, d) ==
  Len(d.members) > Widest \/ \E j \in DOMAIN d.members : MemberRow(b, d.members[j]) = None

Facing(b, m) == {x \in Dpnis : b.wire[x] = m}

RaiseNoSever(b, i) ==
  LET d == Domains[i]
  IN MintIn("mintSwitch", Root, d.label)
       \o <<Verb("port", Root, 0, None, d.uplink)>>
       \o [j \in 1..Len(d.members) |-> Verb("port", Root, j, None, MemberRow(b, d.members[j]))]
       \o <<Verb("plugA", Root, d.label, None, None), Verb("next", None, None, None, None)>>

RaiseUplinkOnly(b, i) ==
  LET d == Domains[i]
  IN (IF Facing(b, d.uplink) = {} THEN << >>
      ELSE <<Verb("sever", Root, None, Lowest(Facing(b, d.uplink)), None)>>)
       \o MintIn("mintSwitch", Root, d.label)
       \o <<Verb("port", Root, 0, None, d.uplink), Verb("plugA", Root, d.label, None, None),
            Verb("next", None, None, None, None)>>

\* The flat edge of the uplink is severed before the switch is created; the
\* ports are connected in plan order and the switch plugged last.
RaiseVerbs(b, i) ==
  LET d == Domains[i]
  IN (IF Facing(b, d.uplink) = {} \/ d.members = << >> THEN << >>
      ELSE <<Verb("sever", Root, None, Lowest(Facing(b, d.uplink)), None)>>)
       \o RaiseNoSever(b, i)

Labels == {Domains[i].label : i \in DOMAIN Domains}
EveryUndeclared(b) == {s \in Switches : b.home[s] = Root /\ b.tag[s] \notin Labels}
\* Labelled by us, declared by nobody.
SwitchCandidates(b) == {s \in EveryUndeclared(b) : b.tag[s] # None}

PruneVerbs(b) ==
  LET order == InOrder(SwitchCandidates(b))
  IN [i \in 1..Len(order) |-> Verb("destroy", Root, None, order[i], None)] \o Done
=============================================================================
