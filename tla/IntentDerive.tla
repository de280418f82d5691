---------------------------- MODULE IntentDerive ----------------------------
(* The pure half of the intent compiler: a complete object plan derived from *)
(* what the operator declared and from the number of online CPUs.  An intent *)
(* is a record of sets (a TOML table is keyed by name, so its order says     *)
(* nothing); only crypto blocks and the members of a fabric are sequences.   *)
EXTENDS Integers, Sequences, FiniteSets, SequencesExt, FiniteSetsExt, Functions

CONSTANTS NameOrder,      \* every name, in the byte order names sort by
          QueueHi,        \* NumQueues::HI
          FlowHi          \* queue pairs of one dpseci

NoName == ""
NoPriority == -1
Kernel == "kernel"

\* dpmac rate class (Gbit/s) -> workers that serve one port of it
WorkersPerPort == [r \in {10, 25} |-> IF r = 10 THEN 2 ELSE 5]

KernelTenant(cores) ==
    [name |-> Kernel, dataplane |-> "netlink", max_cores |-> cores,
     isolation |-> "public", pool |-> NoName, renamed |-> NoName, priority |-> NoPriority]

Named(S, n) == {x \in S : x.name = n}

ByName(S) ==
    LET names == SelectSeq(NameOrder, LAMBDA n : Named(S, n) # {})
    IN  [i \in DOMAIN names |-> CHOOSE x \in S : x.name = names[i]]

Member(k, n) == [kind |-> k, name |-> n]
Switched(I, how) == {f \in I.fabrics : f.switching = how}
Lists(f, m) == m \in Range(f.members)

\* The tenant a member stands for, as a set of at most one name.
MemberTenant(I, m) ==
    CASE m.kind = "tenant" -> {m.name}
      [] m.kind = "fabric" ->
            {g.forwarded_by : g \in Named(Switched(I, "software"), m.name)}
      [] m.kind = "port"   -> {}

HwSwitchedPort(I, p) == \E f \in Switched(I, "hardware") : Lists(f, Member("port", p))

\* Mutant: a port its switch terminates is wired to its tenant as well.
EveryPortTerminated(I, t) == {p \in I.ports : p.tenant = t}


TerminatedPorts(I, t) == {p \in I.ports : p.tenant = t /\ ~HwSwitchedPort(I, p.name)}

Unseeded(I, t) == \E p \in TerminatedPorts(I, t) : p.rate \notin DOMAIN WorkersPerPort

\* T = 1 main + the workers of every terminated port; 0 when a port has no
\* worker row (a refused intent's undefined derivation).
ThreadCount(I, t) ==
    IF Unseeded(I, t) THEN 0
    ELSE 1 + MapThenSumSet(LAMBDA p : WorkersPerPort[p.rate], TerminatedPorts(I, t))

OwnerAttachedViaMembers(I, f, x) ==
    \E i \in DOMAIN f.members : x \in MemberTenant(I, f.members[i])

Chains(I, f) == {g \in Switched(I, "software") : Lists(g, Member("fabric", f.name))}


AttachesToHwFabric(I, x, f) ==
    \/ OwnerAttachedViaMembers(I, f, x)
    \/ \E g \in Chains(I, f) : g.forwarded_by = x

HwOwnedFabrics(I, t) == {f \in Switched(I, "hardware") : f.forwarded_by = t}
\* Mutant: a crypto block belongs to every tenant.
EveryCryptoBlock(I, t) == I.crypto


CryptoBlocksOf(I, t) == SelectSeq(I.crypto, LAMBDA k : k.tenant = t)

----------------------------------------------------------------------------
(* Where a tenant's dpnis come from, in the order that mints their ordinals. *)

Origin(c, n, s, q) == [class |-> c, construct |-> n, side |-> s, peer |-> q]

\* The tenants a software fabric wires its forwarder to, by name, one per member.
Peers(I, g) ==
    LET times(n) == Cardinality({i \in DOMAIN g.members :
                        n \in MemberTenant(I, g.members[i]) \ {g.forwarded_by}})
    IN  FlattenSeq([k \in DOMAIN NameOrder |->
            [j \in 1..times(NameOrder[k]) |-> NameOrder[k]]])

OriginList(I, t) ==
    LET each(seq, ends(_)) == FlattenSeq([i \in DOMAIN seq |-> ends(seq[i])])
        oneIf(cond, o)     == IF cond THEN <<o>> ELSE <<>>
        fabrics            == ByName(I.fabrics)
        wires(g) == LET ps == Peers(I, g)
                    IN  [j \in DOMAIN ps |-> Origin("owner", g.name, 0, ps[j])]
    IN  each(ByName(TerminatedPorts(I, t)),
             LAMBDA p : <<Origin("port", p.name, 0, NoName)>>)
        \o each(ByName(I.links),
             LAMBDA l : oneIf(l.a = t, Origin("link", l.name, 0, NoName))
                        \o oneIf(l.b = t, Origin("link", l.name, 1, NoName)))
        \o each(fabrics,
             LAMBDA f : oneIf(f.switching = "hardware" /\ AttachesToHwFabric(I, t, f),
                              Origin("attach", f.name, 0, NoName)))
        \o each(fabrics,
             LAMBDA g : IF g.switching = "software" /\ g.forwarded_by = t
                        THEN wires(g) ELSE <<>>)
        \o each(fabrics,
             LAMBDA g : oneIf(g.switching = "software" /\ g.forwarded_by # t
                                /\ OwnerAttachedViaMembers(I, g, t),
                              Origin("member", g.name, 0, NoName)))

\* The 1-based position of the first such origin, 0 when there is none.
OrdinalWhere(list, o) ==
    LET at == {i \in DOMAIN list : list[i] = o}
    IN  IF at = {} THEN 0 ELSE Min(at)

----------------------------------------------------------------------------
(* Endpoints, and the interfaces of a switch. *)

Key(t, fam, n) == [tenant |-> t, family |-> fam, ordinal |-> n]
Surface(k, port) == [key |-> k, port |-> port]
MacEnd(d) == Surface(Key(NoName, "dpmac", d), 0)
DpniEnd(I, t, o) == Surface(Key(t, "dpni", OrdinalWhere(OriginList(I, t), o)), 0)
AttachPoint(I, t, f) == DpniEnd(I, t, Origin("attach", f.name, 0, NoName))

HwFabricAttachPoints(I, f) ==
    LET memberEnd(m) ==
            IF m.kind = "port"
            THEN SetToSeq({MacEnd(p.dpmac) : p \in Named(I.ports, m.name)})
            ELSE SetToSeq({AttachPoint(I, t, f) : t \in MemberTenant(I, m)})
        chained == ByName({g \in Chains(I, f) :
                              ~OwnerAttachedViaMembers(I, f, g.forwarded_by)})
    IN  FlattenSeq([i \in DOMAIN f.members |-> memberEnd(f.members[i])])
        \o [i \in DOMAIN chained |-> AttachPoint(I, chained[i].forwarded_by, f)]

DpswKey(I, f) ==
    LET owned == ByName(HwOwnedFabrics(I, f.forwarded_by))
    IN  Key(f.forwarded_by, "dpsw", CHOOSE i \in DOMAIN owned : owned[i].name = f.name)

MaxFdbEntries(f, ifs) == IF f.mac_table = 0 THEN 1024 ELSE f.mac_table * ifs

----------------------------------------------------------------------------
(* Sizing. *)

ExtraOf(I, t, fam) ==
    MapThenSumSet(LAMBDA e : e.count, {e \in I.extras : e.tenant = t /\ e.family = fam})


Effective(I, t, fam, request) == request + ExtraOf(I, t, fam)

HasPricing(c) == c.dataplane # "event"
Companions == {"dpio", "dpmcp", "dpbp", "dpcon"}

NumQueues(I, cpus, c) == IF c.dataplane = "netlink" THEN cpus ELSE ThreadCount(I, c.name)

\* What a tenant draws of one companion family, before any extra.
Request(I, cpus, c, fam) ==
    LET t      == c.name
        dpnis  == Len(OriginList(I, t))
        ports  == Cardinality(TerminatedPorts(I, t))
        queues == NumQueues(I, cpus, c)
        seats  == IF t = Kernel THEN cpus ELSE 0
        dpsws  == Cardinality(HwOwnedFabrics(I, t))
        dpsecis == Len(CryptoBlocksOf(I, t))
    IN  IF c.dataplane = "netlink"
        THEN CASE fam = "dpio"  -> seats
               [] fam = "dpbp"  -> dpnis + ports + dpsws
               [] fam = "dpmcp" -> seats + dpnis + ports + dpsws + dpsecis
               [] fam = "dpcon" -> dpnis * queues + ports * queues
        ELSE CASE fam = "dpio"  -> 2 * queues
               [] fam = "dpbp"  -> 2
               [] fam = "dpmcp" -> 1
               [] fam = "dpcon" -> dpnis * queues

LinkNamesKernel(I) == \E l \in I.links : Kernel \in {l.a, l.b}

\* The tenants the derivation sizes.
EffectiveTenants(I, cpus) ==
    IF LinkNamesKernel(I) /\ Named(I.tenants, Kernel) = {}
    THEN I.tenants \cup {KernelTenant(cpus)}
    ELSE I.tenants

PricedTenants(I, cpus) == {c \in EffectiveTenants(I, cpus) : HasPricing(c)}

----------------------------------------------------------------------------
(* The objects. *)

Root == "root"
ContainerOf(c) ==
    IF c.name = Kernel THEN Root
    ELSE IF c.isolation = "restricted"
         THEN IF c.pool = Kernel THEN Root ELSE c.pool
         ELSE c.name


OwnsDprc(c) == c.name # Kernel /\ c.isolation # "restricted"

Object(k, where, label, size, entries) ==
    [key |-> k, container |-> where, label |-> label, size |-> size, entries |-> entries]

\* Off the envelope a count degrades to the omitted option, 0 on the wire.
DpniQueues(n) == IF n <= QueueHi THEN n ELSE 0
DpseciQueues(n) == IF n < 1 THEN 1 ELSE IF n > FlowHi THEN FlowHi ELSE n

DpswObject(I, f) ==
    LET ifs == Len(HwFabricAttachPoints(I, f))
    IN  Object(DpswKey(I, f), IF f.forwarded_by = Kernel THEN Root ELSE f.forwarded_by,
               f.name, ifs, MaxFdbEntries(f, ifs))

TenantObjects(I, cpus, c) ==
    LET t       == c.name
        here    == ContainerOf(c)
        origins == OriginList(I, t)
        crypto  == CryptoBlocksOf(I, t)
        queues  == DpniQueues(NumQueues(I, cpus, c))
        draws(fam) == Effective(I, t, fam, Request(I, cpus, c, fam))
    IN  {Object(Key(t, "dprc", 1), Root, t, 0, 0) : x \in {y \in {c} : OwnsDprc(y)}}
        \cup UNION {{Object(Key(t, fam, n), here, t, 0, 0) : n \in 1..draws(fam)} :
                       fam \in Companions}
        \cup {Object(Key(t, "dpni", i), here, origins[i].construct, queues, 0) :
                 i \in DOMAIN origins}
        \cup {Object(Key(t, "dpseci", i), here, t, DpseciQueues(crypto[i].flows), 0) :
                 i \in DOMAIN crypto}
        \cup {DpswObject(I, f) : f \in HwOwnedFabrics(I, t)}

DprtcObject == Object(Key(Kernel, "dprtc", 1), Root, Kernel, 0, 0)

Objects(I, cpus) ==
    {DprtcObject} \cup UNION {TenantObjects(I, cpus, c) : c \in PricedTenants(I, cpus)}

----------------------------------------------------------------------------
(* The edges. *)

Edge(a, b, t, rule, construct) ==
    [a |-> a, b |-> b, provenance |-> <<t, rule, construct>>]

PortEdges(I) ==
    UNION {{Edge(DpniEnd(I, c.name, Origin("port", p.name, 0, NoName)), MacEnd(p.dpmac),
                 c.name, "port-edge", p.name) : p \in TerminatedPorts(I, c.name)} :
              c \in {c \in I.tenants : HasPricing(c)}}

LinkEdges(I, sized) ==
    {Edge(DpniEnd(I, l.a, Origin("link", l.name, 0, NoName)),
          DpniEnd(I, l.b, Origin("link", l.name, 1, NoName)),
          l.a, "link-edge", l.name) : l \in {l \in I.links : {l.a, l.b} \subseteq sized}}

FabricEdges(I) ==
    UNION {LET ends == HwFabricAttachPoints(I, f)
               dpsw == IF Named(HwOwnedFabrics(I, f.forwarded_by), f.name) = {}
                       THEN Key(f.forwarded_by, "dpsw", 0) ELSE DpswKey(I, f)
           IN  {Edge(Surface(dpsw, i - 1), ends[i], f.forwarded_by, "fabric-edge", f.name) :
                   i \in DOMAIN ends} :
              f \in Switched(I, "hardware")}

WireEdges(I, sized) ==
    UNION {{Edge(DpniEnd(I, g.forwarded_by, Origin("owner", g.name, 0, c)),
                 DpniEnd(I, c, Origin("member", g.name, 0, NoName)),
                 g.forwarded_by, "fabric-wire", g.name) :
               c \in Range(Peers(I, g)) \cap sized} :
              g \in {g \in Switched(I, "software") : g.forwarded_by \in sized}}

Edges(I, cpus) ==
    LET sized == {c.name : c \in PricedTenants(I, cpus)}
    IN  PortEdges(I) \cup LinkEdges(I, sized) \cup FabricEdges(I) \cup WireEdges(I, sized)

----------------------------------------------------------------------------
(* The provenance graph: every rule that emitted a value -> what it consumed. *)

TenantRules(I, c) ==
    LET t == c.name
        at(rule) == <<t, rule, NoName>>
        feeder == IF c.dataplane = "netlink" THEN "cpus" ELSE "T"
        node(k, inputs) == [key |-> k, inputs |-> inputs]
        kernelOnly(rules) == IF feeder = "cpus" THEN {at(r) : r \in rules} ELSE {}
    IN  {node(at("ports"), {}), node(at("dpnis"), {}),
         node(at("dpio"), {at(feeder)}), node(at("dpni-queues"), {at(feeder)}),
         node(at("dpni-options"), {at("dpni-queues")}),
         node(at("dpbp"), kernelOnly({"dpnis", "ports"})),
         node(at("dpmcp"), kernelOnly({"cpus", "dpnis", "ports"})),
         node(at("dpcon"), {at("dpnis"), at("dpni-queues")} \cup kernelOnly({"ports"})),
         node(at(feeder), IF feeder = "T" THEN {at("ports")} ELSE {})}
        \cup {node(at("dpcon-priority"), {at("dpcon")}) : x \in {y \in {c} : y.priority # NoPriority}}
        \cup {node(at("dprc"), {}) : x \in {y \in {c} : OwnsDprc(y)}}
        \cup {node(at("dpseci"), {}) : k \in Range(CryptoBlocksOf(I, t))}
        \cup UNION {{node(<<t, "dpsw", f.name>>, {}),
                     node(<<t, "mac-table", f.name>>, {<<t, "dpsw", f.name>>})} :
                       f \in HwOwnedFabrics(I, t)}
        \cup {node(<<t, "port-edge", p.name>>, {at("dpnis")}) : p \in TerminatedPorts(I, t)}


ConnectionRules(I) ==
    {[key |-> <<l.a, "link-edge", l.name>>,
      inputs |-> {<<l.a, "dpnis", NoName>>, <<l.b, "dpnis", NoName>>}] : l \in I.links}
    \cup {[key |-> <<f.forwarded_by, "fabric-edge", f.name>>,
           inputs |-> {<<f.forwarded_by, "dpsw", f.name>>}] : f \in Switched(I, "hardware")}
    \cup {[key |-> <<g.forwarded_by, "fabric-wire", g.name>>,
           inputs |-> {<<c, "dpnis", NoName>> : c \in Range(Peers(I, g)) \cup {g.forwarded_by}}] :
             g \in Switched(I, "software")}

Provenance(I, cpus) ==
    {[key |-> <<Kernel, "dprtc", NoName>>, inputs |-> {}]}
    \cup UNION {TenantRules(I, c) : c \in PricedTenants(I, cpus)}
    \cup ConnectionRules(I)

\* The provenance key an object points at.
ProvenanceOf(o) ==
    <<o.key.tenant, IF o.key.family = "dpni" THEN "dpnis" ELSE o.key.family,
      IF o.key.family = "dpsw" THEN o.label ELSE NoName>>

\* How the kernel bind of each child container is driven.
ChildRegimes(I, cpus) ==
    [t \in {c.name : c \in {c \in EffectiveTenants(I, cpus) : ContainerOf(c) = c.name}} |->
        IF \E c \in EffectiveTenants(I, cpus) : c.name = t /\ c.dataplane = "netlink"
        THEN "KernelDriven" ELSE "VfioConsumer"]

Derive(I, cpus) ==
    [objects |-> Objects(I, cpus), edges |-> Edges(I, cpus),
     provenance |-> Provenance(I, cpus), child_regimes |-> ChildRegimes(I, cpus)]
=============================================================================
