---------------------------- MODULE IntentRefuse ----------------------------
(* The other half of the compiler: the rules an intent can break.  Every     *)
(* rule runs on every intent and the refusals are their union.  A refusal is *)
(* the rule's name, the construct it is about and what it names.             *)
EXTENDS IntentDerive

CONSTANTS MaxFdbs,         \* MAX_FDBS: the field envelope of max_fdbs
          FdbEntriesHi     \* MAX_FDB_ENTRIES: the field envelope of max_fdb_entries

Refusal(rule, construct, what) == <<rule, construct, what>>

\* Every name the intent recognises as its own, prior names included.
DeclaredNames(I) ==
    LET all == I.tenants \cup I.ports \cup I.links \cup I.fabrics
    IN  {x.name : x \in all} \cup ({x.renamed : x \in all} \ {NoName})

TenantNames(I) == {c.name : c \in I.tenants}

TenantAbsent(I) ==
    LET absent(n) == n # Kernel /\ n \notin TenantNames(I)
    IN  {Refusal("TenantAbsent", p.name, p.tenant) : p \in {p \in I.ports : absent(p.tenant)}}
        \cup UNION {{Refusal("TenantAbsent", l.name, n) : n \in {n \in {l.a, l.b} : absent(n)}} :
                       l \in I.links}
        \cup {Refusal("TenantAbsent", f.name, f.forwarded_by) :
                 f \in {f \in I.fabrics : absent(f.forwarded_by)}}
        \cup {Refusal("TenantAbsent", "crypto", k.tenant) :
                 k \in {k \in Range(I.crypto) : absent(k.tenant)}}
        \cup {Refusal("TenantAbsent", "extra", e.tenant) :
                 e \in {e \in I.extras : absent(e.tenant)}}

EachMember(I, broken(_, _), rule) ==
    UNION {{Refusal(rule, f.name, m.name) : m \in {m \in Range(f.members) : broken(f, m)}} :
              f \in I.fabrics}

MemberUnresolved(I) ==
    LET unresolved(f, m) ==
            CASE m.kind = "port"   -> Named(I.ports, m.name) = {}
              [] m.kind = "tenant" -> m.name \notin TenantNames(I)
              [] m.kind = "fabric" -> Named(I.fabrics, m.name) = {}
    IN  EachMember(I, unresolved, "MemberUnresolved")

SelfMember(I) ==
    LET self(f, m) ==
            \/ /\ m.kind = "fabric" /\ m.name = f.name
            \/ /\ m.kind \in {"tenant", "fabric"} /\ f.switching = "software"
               /\ f.forwarded_by \in MemberTenant(I, m)
    IN  EachMember(I, self, "SelfMember")

\* A dpmac somebody holds is ours when it wears a name the intent declares.
AnchorRefusals(I, inv) ==
    LET offered(p) == p.dpmac \in DOMAIN inv.dpmacs
        offer(p)   == inv.dpmacs[p.dpmac]
        foreign(p) == offer(p).avail = "foreign" /\ offer(p).owner \notin DeclaredNames(I)
        free(p)    == offer(p).avail # "reserved" /\ ~foreign(p)
    IN  UNION {{Refusal("Unanchored", p.name, NoName) : x \in {y \in {p} : ~offered(y)}}
               \cup {Refusal("Reserved", p.name, NoName) :
                        x \in {y \in {p} : offered(y) /\ offer(y).avail = "reserved"}}
               \cup {Refusal("Foreign", p.name, NoName) :
                        x \in {y \in {p} : offered(y) /\ foreign(y)}}
               \cup {Refusal("OverRate", p.name, NoName) :
                        x \in {y \in {p} : offered(y) /\ free(y) /\ y.rate > offer(y).max_rate}} :
                  p \in I.ports}

DoubleClaimed(I) ==
    {Refusal("DoubleClaimed", p.name, q.name) :
        <<p, q>> \in {<<p, q>> \in I.ports \X I.ports : p # q /\ p.dpmac = q.dpmac}}
    \cup {Refusal("DoubleClaimed", f.name, g.name) :
        <<f, g>> \in {<<f, g>> \in I.fabrics \X I.fabrics :
            /\ f # g
            /\ \E m \in Range(f.members) \cap Range(g.members) : m.kind = "port"}}

FabricRules(I) ==
    LET mismatch(f, m) == /\ m.kind = "port"
                          /\ \E p \in Named(I.ports, m.name) : p.tenant # f.forwarded_by
        stacked(f, m)  == /\ m.kind = "fabric" /\ f.switching = "hardware"
                          /\ Named(Switched(I, "hardware"), m.name) # {}
    IN  {Refusal("FabricNotKernelForwarded", f.name, f.forwarded_by) :
            f \in {f \in Switched(I, "hardware") : f.forwarded_by # Kernel}}
        \cup EachMember(I, mismatch, "PortTenantMismatch")
        \cup EachMember(I, stacked, "UnsupportedEdge")

EachFabric(S, broken(_), rule) ==
    {Refusal(rule, f.name, NoName) : f \in {f \in S : broken(f)}}

NumIfs(I, f) == Len(HwFabricAttachPoints(I, f))

MacTable(I) ==
    EachFabric(Switched(I, "software"), LAMBDA f : f.mac_table # 0, "MacTableOnSoftwareFabric")
    \cup EachFabric(Switched(I, "hardware"),
                    LAMBDA f : f.mac_table # 0 /\ f.mac_table * NumIfs(I, f) > FdbEntriesHi,
                    "MacTableOverflow")

EmptyFabric(I) ==
    EachFabric(Switched(I, "hardware"), LAMBDA f : NumIfs(I, f) = 0, "EmptyFabric")


MemberCount(I) ==
    EachFabric(Switched(I, "hardware"), LAMBDA f : NumIfs(I, f) > MaxFdbs,
               "FabricMemberOverflow")

EachTenant(I, broken(_), rule) ==
    {Refusal(rule, c.name, NoName) : c \in {c \in I.tenants : broken(c)}}


\* Poll-mode tenants draw T queues under a core budget; kernel ones one per CPU.
Sizing(I, cpus) ==
    LET poll(c)   == c.dataplane = "poll"
        seeded(c) == ~Unseeded(I, c.name)
        t(c)      == ThreadCount(I, c.name)
    IN  EachTenant(I, LAMBDA c : poll(c) /\ ~seeded(c), "UnknownRateClass")
        \cup EachTenant(I, LAMBDA c : poll(c) /\ seeded(c) /\ t(c) > c.max_cores,
                        "CoreBudgetExceeded")
        \cup EachTenant(I, LAMBDA c : \/ poll(c) /\ seeded(c) /\ t(c) > QueueHi
                                      \/ c.dataplane = "netlink" /\ cpus > QueueHi,
                        "QueueEnvelopeExceeded")

ExtraRefusals(I) ==
    {Refusal("ExtraNotCompanion", e.tenant, e.family) :
        e \in {e \in I.extras : e.family \notin Companions}}
    \cup {Refusal("ExtraNotPositive", e.tenant, e.family) :
        e \in {e \in I.extras : e.count < 1}}

CryptoRefusals(I) ==
    {Refusal("CryptoFlowsNotPositive", I.crypto[i].tenant, i) :
        i \in {i \in DOMAIN I.crypto : I.crypto[i].flows < 1}}
    \cup {Refusal("CryptoFlowsOverDevice", I.crypto[i].tenant, i) :
        i \in {i \in DOMAIN I.crypto : I.crypto[i].flows > FlowHi}}

DerivedFamilies == Companions \cup {"dprc", "dpni", "dpseci", "dpsw"}
FamilyCount(plan, fam) == Cardinality({o \in plan.objects : o.key.family = fam})

\* A Counted or an Observed ceiling refuses; an unknown one (-1) cannot.
Feasibility(plan, inv) ==
    {Refusal("Infeasible", fam, NoName) :
        fam \in {fam \in DerivedFamilies :
                    inv.ceilings[fam] # -1 /\ FamilyCount(plan, fam) > inv.ceilings[fam]}}

UnpricedDataplane(I) == EachTenant(I, LAMBDA c : ~HasPricing(c), "UnpricedDataplane")


PoolRefusals(I) ==
    LET drawer(c) == c.isolation = "restricted"
        holders(c) == Named(I.tenants, c.pool)
        held(c, broken(_)) == drawer(c) /\ c.pool # Kernel /\ \E h \in holders(c) : broken(h)
    IN  EachTenant(I, LAMBDA c : /\ drawer(c)
                                 /\ IF c.pool = Kernel THEN c.dataplane # "netlink"
                                    ELSE \E h \in holders(c) : c.dataplane # h.dataplane,
                   "PoolDataplaneMismatch")
        \cup {Refusal("TenantAbsent", "pool", c.pool) :
                 c \in {c \in I.tenants : drawer(c) /\ c.pool # Kernel /\ holders(c) = {}}}
        \cup EachTenant(I, LAMBDA c : held(c, LAMBDA h : h.isolation # "public"),
                        "HolderNotPublic")
        \cup EachTenant(I, LAMBDA c : held(c, LAMBDA h : h.isolation = "restricted"),
                        "PoolChain")

LinkSelfLoop(I) == {Refusal("LinkSelfLoop", l.name, l.a) : l \in {l \in I.links : l.a = l.b}}

KernelDeclared(I) ==
    EachTenant(I, LAMBDA c : c.name = Kernel /\ c # KernelTenant(c.max_cores), "KernelDeclared")

DoubleClaimIn(S) ==
    {Refusal("RenameDoubleClaim", x.name, x.renamed) :
        x \in {x \in S : \E y \in S : y.name = x.renamed /\ y.renamed = NoName}}

RenameDoubleClaim(I) == DoubleClaimIn(I.tenants) \cup DoubleClaimIn(I.ports \cup I.links \cup I.fabrics)

Refusals(I, inv, plan) ==
    TenantAbsent(I) \cup MemberUnresolved(I) \cup SelfMember(I) \cup AnchorRefusals(I, inv)
    \cup DoubleClaimed(I) \cup FabricRules(I) \cup MacTable(I) \cup EmptyFabric(I)
    \cup MemberCount(I) \cup Sizing(I, inv.cpus) \cup ExtraRefusals(I) \cup CryptoRefusals(I)
    \cup Feasibility(plan, inv) \cup UnpricedDataplane(I) \cup PoolRefusals(I)
    \cup LinkSelfLoop(I) \cup KernelDeclared(I) \cup RenameDoubleClaim(I)

Warnings(I, inv, plan) ==
    LET rates(c) == {p.rate : p \in TerminatedPorts(I, c.name)} \cap DOMAIN WorkersPerPort
    IN  {<<"UnknownCeiling", fam>> :
            fam \in {fam \in DerivedFamilies :
                        inv.ceilings[fam] = -1 /\ FamilyCount(plan, fam) > 0}}
        \cup {<<"UnmeasuredCombination", c.name>> :
            c \in {c \in I.tenants : c.dataplane = "poll" /\ Cardinality(rates(c)) > 1}}

NoPlan == [objects |-> {}, edges |-> {}, provenance |-> {}, child_regimes |-> <<>>]

\* A plan and its warnings, or every refusal.
Answer(I, plan, rs, warnings) ==
    IF rs = {}
    THEN [verdict |-> "accepted", intent |-> I, plan |-> plan, refusals |-> {},
          warnings |-> warnings]
    ELSE [verdict |-> "refused", intent |-> I, plan |-> NoPlan, refusals |-> rs,
          warnings |-> {}]

Judged(I, inv, plan) == Answer(I, plan, Refusals(I, inv, plan), Warnings(I, inv, plan))

\* The total function.
Compile(I, inv) == Judged(I, inv, Derive(I, inv.cpus))

----------------------------------------------------------------------------
(* The two slices of an accepted plan the shell drives.  A slice panics when *)
(* its ports and the port edges it keeps do not name the same dpmacs.        *)

PortEdgesOf(edges) == {e \in edges : e.a.key.family = "dpni" /\ e.b.key.family = "dpmac"}
MacsOf(edges) == {e.b.key.ordinal : e \in PortEdgesOf(edges)}
FacetsAgree(edges, ports) == MacsOf(edges) = {p.dpmac : p \in ports}

DesiredTopology(c) ==
    [plan |-> c.plan, ports |-> {p \in c.intent.ports : ~HwSwitchedPort(c.intent, p.name)}]

InRoot(plan, key) == \E o \in plan.objects : o.key = key /\ o.container = Root

DesiredTopologyRoot(c) ==
    LET kept    == {e \in PortEdgesOf(c.plan.edges) : InRoot(c.plan, e.a.key)}
        dropped == PortEdgesOf(c.plan.edges) \ kept
        gone    == {e.a.key : e \in dropped}
    IN  [plan |-> [c.plan EXCEPT !.edges = @ \ dropped,
                                 !.objects = {o \in @ : o.key \notin gone}],
         ports |-> {p \in c.intent.ports : p.dpmac \in MacsOf(kept)}]
=============================================================================
