----------------------------- MODULE IntentFile -----------------------------
(* The operator edits the topology file one construct at a time and runs the *)
(* tool after each edit; the tool's compile pipeline answers with a plan or  *)
(* with the complete list of what is wrong.                                  *)
EXTENDS IntentParse, DpniBlock, DpswBlock

CONSTANTS Documents,       \* the files the operator starts from
          Inventories,     \* what boards offer
          Tenants, Ports, Links, Fabrics, Cryptos, Extras,   \* constructs to declare
          Renames,         \* <<name, prior name>> clauses to add
          MaxEdits         \* bound: edits of one file

VARIABLES raw,             \* the document
          inv,             \* the board's offer
          out,             \* what the pipeline last answered
          edits            \* edits so far

vars == <<raw, inv, out, edits>>

Init ==
    /\ raw \in Documents
    /\ inv \in Inventories
    /\ out = CompileIntent(raw, inv)
    /\ edits = 0

Ensure(doc) ==
    /\ edits < MaxEdits
    /\ edits' = edits + 1
    /\ raw' = doc
    /\ out' = CompileIntent(doc, inv)
    /\ UNCHANGED inv

Fresh(S, c) == Named(S, c.name) = {}

DeclareTenant == \E c \in Tenants : Fresh(raw.tenants, c) /\ Ensure([raw EXCEPT !.tenants = @ \cup {c}])
DeclarePort   == \E p \in Ports   : Fresh(raw.ports, p)   /\ Ensure([raw EXCEPT !.ports = @ \cup {p}])
DeclareLink   == \E l \in Links   : Fresh(raw.links, l)   /\ Ensure([raw EXCEPT !.links = @ \cup {l}])
DeclareFabric == \E f \in Fabrics : Fresh(raw.fabrics, f) /\ Ensure([raw EXCEPT !.fabrics = @ \cup {f}])
AppendCrypto  == \E k \in Cryptos : Ensure([raw EXCEPT !.crypto = Append(@, k)])

DeclareExtra ==
    \E e \in Extras :
        /\ ~\E x \in raw.extras : x.tenant = e.tenant /\ x.family = e.family
        /\ Ensure([raw EXCEPT !.extras = @ \cup {e}])

Renamed(S, r) == {IF x.name = r[1] THEN [x EXCEPT !.renamed = r[2]] ELSE x : x \in S}

AddRename ==
    \E r \in Renames :
        LET doc == [raw EXCEPT !.tenants = Renamed(@, r), !.ports = Renamed(@, r),
                               !.links = Renamed(@, r), !.fabrics = Renamed(@, r)]
        IN  doc # raw /\ Ensure(doc)

Next == \/ DeclareTenant \/ DeclarePort \/ DeclareLink \/ DeclareFabric
        \/ AppendCrypto \/ DeclareExtra \/ AddRename

Spec == Init /\ [][Next]_vars

----------------------------------------------------------------------------
Accepted == out.verdict = "accepted"
Kinds(refusals) == {r[1] : r \in refusals}
Planned == {o.key : o \in out.plan.objects}
EndsOf(e) == {e.a, e.b}
EdgesAt(end) == {e \in out.plan.edges : end \in EndsOf(e)}
SurfacesOf(k) == {s \in UNION {EndsOf(e) : e \in out.plan.edges} : s.key = k}

(* The answer always has the pipeline's shape: a plan that parsed and broke  *)
(* no rule, or a nonempty list of complaints and no plan.                    *)
TypeOK ==
    /\ edits \in 0..MaxEdits /\ inv \in Inventories
    /\ out.verdict \in {"accepted", "refused", "rejected"}
    /\ Accepted <=> out.refusals = {}
    /\ ~Accepted => out.plan = NoPlan

\* What only the document can get wrong: the neutral intent has no such shape.
RawOnly == {"TenantShape", "DuplicateConstruct", "MacTableRange"}

(* The parser's checks and the compiler's are twins kept apart on purpose:   *)
(* behind the parser no reference is left for the compiler to refuse but a   *)
(* drawer's holder and the kernel as a fabric member, and whatever else the  *)
(* parser refuses the compiler refuses too when handed the intent directly.  *)
TwinsAgree ==
    LET twin == {"TenantAbsent", "MemberUnresolved", "LinkSelfLoop", "KernelDeclared",
                 "RenameDoubleClaim"}
        reserved == \E c \in raw.tenants : c = KernelTenant(c.max_cores)
    IN  IF out.verdict = "rejected"
        THEN \/ Kinds(out.refusals) \cap RawOnly # {}
             \/ reserved
             \/ Compile(Cooked(raw), inv).refusals # {}
        ELSE \A r \in out.refusals :
                r[1] \in twin => \/ r[1] = "TenantAbsent" /\ r[2] = "pool"
                                 \/ r[1] = "MemberUnresolved" /\ r[3] = Kernel

\* The kernel forwards a fabric although nothing brought the kernel tenant in.
KernelMissing == Named(EffectiveTenants(out.intent, inv.cpus), Kernel) = {}

(* Every end of every edge of an accepted plan is an object the plan creates,*)
(* except under a fabric the kernel forwards while no port and no link names *)
(* the kernel: nothing materialises it then, and its switch with it.         *)
EdgesJoinPlanned ==
    \A e \in out.plan.edges : \A s \in EndsOf(e) :
        \/ s.key.family = "dpmac" \/ s.key \in Planned
        \/ /\ KernelMissing /\ s.key.tenant = Kernel
           /\ e.provenance[2] = "fabric-edge"

\* What a fabric's members and chains attach, in order, repetitions kept.
Attached(I, f) ==
    FlattenSeq([i \in DOMAIN f.members |->
        IF f.members[i].kind = "port" THEN <<f.members[i]>>
        ELSE SetToSeq({Member("tenant", t) : t \in MemberTenant(I, f.members[i])})])
    \o IF f.switching = "software" THEN <<>>
       ELSE LET g == ByName({g \in Chains(I, f) : ~OwnerAttachedViaMembers(I, f, g.forwarded_by)})
            IN  [i \in DOMAIN g |-> Member("tenant", g[i].forwarded_by)]

Repeats(I) == \E f \in I.fabrics : ~IsInjective(Attached(I, f))

(* In an accepted plan every dpni is an end of exactly one edge and no dpmac *)
(* is an end of two, although origins, interfaces and edges are computed     *)
(* apart: unless one fabric attaches a port or a tenant twice.               *)
EndsWiredOnce ==
    Accepted /\ ~KernelMissing /\ ~Repeats(out.intent) =>
        /\ \A k \in Planned : k.family = "dpni" =>
              Cardinality({e \in out.plan.edges : k \in {s.key : s \in EndsOf(e)}}) = 1
        /\ \A e \in out.plan.edges : \A s \in EndsOf(e) : EdgesAt(s) = {e}

(* Every switch of an accepted plan fits its fields and is wired on exactly  *)
(* the interfaces 0 .. num_ifs - 1.                                          *)
SwitchesFit ==
    \A o \in out.plan.objects : o.key.family = "dpsw" =>
        /\ o.size \in 1..MaxFdbs
        /\ o.entries \in 1..FdbEntriesHi
        /\ {s.port : s \in SurfacesOf(o.key)} = 0..(o.size - 1)

\* The attributes the derivation gives a fabric it switches in hardware.
SwitchOf(o) ==
    [num_ifs |-> o.size, max_fdbs |-> o.size, max_fdb_entries |-> o.entries,
     per_fdb_flooding |-> TRUE, per_fdb_broadcast |-> TRUE, ctrl_if |-> TRUE]
Dpsws(answer) == {o \in answer.plan.objects : o.key.family = "dpsw"}

\* The planned edges of a switch, as the switch pass collects them.
SwitchEdges(dpsw) ==
    SetToSeq(UNION {{[ifx |-> s.port, endpoint |-> t] :
                        s \in EndsOf(e) \cap SurfacesOf(dpsw), t \in EndsOf(e) \ SurfacesOf(dpsw)} :
                       e \in out.plan.edges})

(* Every edge of an accepted plan is one the edge table allows and knows how *)
(* to make and break: an edge to a dpmac is the one that demands a sever     *)
(* before its dpni is unbound, and a switch is raised on ports it has.       *)
EdgesLawful ==
    /\ \A e \in out.plan.edges :
         LET end(s) == [fam |-> s.key.family, port |-> s.port]
             a == end(e.a)  b == end(e.b)
         IN  /\ LegalPair(a, b) /\ LegalPorts(a, b)
             /\ \E policy \in ReificationPolicy(a, b) :
                   /\ policy.teardown \notin {"AwaitsOwnChange", "Refused"}
                   /\ (policy.teardown = "SeveredWitness") <=> EdgeDemandsSeveredWitness(a, b)
    /\ \A o \in Dpsws(out) :
         LET plan == PlanSwitchedDomain(SwitchOf(o), SwitchEdges(o.key))
         IN  plan.overflow = {} /\ Len(plan.steps) = o.size + 2

(* Neither slice the shell takes of an accepted plan can panic, and the root *)
(* slice keeps no dpni whose dpmac the population pass is to connect.        *)
SlicesAgree ==
    Accepted =>
        LET all == DesiredTopology(out)  root == DesiredTopologyRoot(out)
        IN  /\ FacetsAgree(all.plan.edges, all.ports)
            /\ FacetsAgree(root.plan.edges, root.ports)
            /\ \A o \in all.plan.objects \ root.plan.objects : o.container # Root

(* Every object of an accepted plan sits in a container that exists: the     *)
(* root for the kernel and who pools it, else a child the plan creates; an   *)
(* isolated tenant shares its child with nobody.                             *)
Contained ==
    \A o \in out.plan.objects : o.key.family # "dprc" =>
        LET owner == Named(EffectiveTenants(out.intent, inv.cpus), o.key.tenant)
        IN  IF o.container = Root
            THEN o.key.tenant = Kernel \/ \E c \in owner : c.pool = Kernel
            ELSE /\ Key(o.container, "dprc", 1) \in Planned
                 /\ o.container = o.key.tenant
                    \/ \E h \in Named(out.intent.tenants, o.container) : h.isolation = "public"

(* Whatever an accepted plan holds can be traced: each object, each edge and *)
(* each consumed value points at a rule that was recorded (the kernel-less   *)
(* fabric above is the one hole).                                            *)
ProvenanceClosed ==
    Accepted =>
        LET known == {n.key : n \in out.plan.provenance}
            inputs == UNION {n.inputs : n \in out.plan.provenance}
        IN  /\ {ProvenanceOf(o) : o \in out.plan.objects} \subseteq known
            /\ {e.provenance : e \in out.plan.edges} \subseteq known
            /\ \A k \in inputs \ known : KernelMissing /\ k[1] = Kernel

\* The create block of a planned dpni; the shim's own count is the host's.
BlockOf(answer, o) ==
    LET owner == CHOOSE c \in EffectiveTenants(answer.intent, inv.cpus) : c.name = o.key.tenant
    IN  DpniCfg(owner.dataplane, o.size)
Dpnis(answer) == {o \in answer.plan.objects : o.key.family = "dpni"}

(* A dpni created as planned reads back as planned: through the omitted      *)
(* options, the mask, what the firmware clears and fills in and the typed    *)
(* read-back, no run ever destroys and re-creates what an earlier one made.  *)
DpnisSettle ==
    \A o \in Dpnis(out) :
        LET seen == SeenOf(BlockOf(out, o), inv.cpus)
        IN  seen # None /\ ~Rebuilds(BlockOf(out, o), seen)

(* A planned dpsw is one the kernel binds; created so, it reads back as      *)
(* planned, and a line that is missing or a bit without a name stop the      *)
(* judgment, never turn it into a drift that would take the switch down.     *)
DpswsSettle ==
    \A o \in Dpsws(out) :
        LET cfg == CreateOf(SwitchOf(o))
            judged(unnamed, lost) == PlanCfgDrift(SwitchOf(o), FaceOf(cfg, unnamed, lost))
        IN  /\ CfgFromAttributes(SwitchOf(o)) = "accepted"
            /\ FaceOf(cfg, {}, {}) # {}
            /\ \A line \in Line : judged({}, {line}) = "Converged"
            /\ judged({}, {}) = "Converged" /\ judged({1}, {}) = "Converged"

(* What the plan creates reads back as planned (create_dpni, create_dpsw_in, *)
(* then the attribute reads): no run takes down what an earlier one made.    *)
BlocksSettle == DpnisSettle /\ DpswsSettle

BothAccepted == out.verdict = "accepted" /\ out'.verdict = "accepted"

(* An extra only adds: it takes away no object, moves no edge, and what it   *)
(* adds belongs to the tenant and the family it names (nothing, when that is *)
(* a kernel nothing brought in).                                             *)
ExtrasOnlyAdd ==
    [][raw'.extras # raw.extras /\ BothAccepted =>
        /\ out.plan.objects \subseteq out'.plan.objects
        /\ out'.plan.edges = out.plan.edges
        /\ \A e \in raw'.extras \ raw.extras :
              LET new == out'.plan.objects \ out.plan.objects
              IN  /\ Cardinality(new) = IF KernelMissing /\ e.tenant = Kernel THEN 0 ELSE e.count
                  /\ \A o \in new : o.key.tenant = e.tenant /\ o.key.family = e.family]_vars

(* Against what an earlier plan created, an edit that resizes a dpni shows   *)
(* wherever planning compares the two, and no other edit shows: no accepted  *)
(* plan holds a block that planning takes for unsized and leaves unjudged,   *)
(* although an off-envelope queue count degrades to one.                     *)
ResizesSeen ==
    [][BothAccepted =>
        \A o \in Dpnis(out), new \in Dpnis(out') :
            o.key = new.key =>
                (Rebuilds(BlockOf(out', new), SeenOf(BlockOf(out, o), inv.cpus))
                    <=> o.size # new.size)]_vars

(* A switch whose ports or table an edit resizes is seen to drift, any other *)
(* is not, and the census of the family says of one switch what the judgment *)
(* of the switch says.                                                       *)
SwitchResizesSeen ==
    [][BothAccepted =>
        \A o \in Dpsws(out), new \in Dpsws(out') :
            LET face  == FaceOf(CreateOf(SwitchOf(o)), {}, {})
                drift == PlanCfgDrift(SwitchOf(new), face) = "Recreate"
            IN  o.key = new.key =>
                /\ drift <=> SwitchOf(o) # SwitchOf(new)
                /\ drift <=> JudgeCensus(<<CreateOf(SwitchOf(new))>>, <<face>>) # JudgesNothing]_vars

\* Every construct that says something about a tenant.
Mentions(I, t) ==
    LET about(f) == \/ f.forwarded_by = t
                    \/ OwnerAttachedViaMembers(I, f, t)
                    \/ \E g \in Switched(I, "hardware") :
                           g.forwarded_by = t /\ f \in Chains(I, g)
    IN  [own    |-> Named(I.tenants, t),
         ports  |-> {p \in I.ports : p.tenant = t},
         links  |-> {l \in I.links : t \in {l.a, l.b}},
         fabrics |-> {f \in I.fabrics : about(f)},
         wired  |-> {g \in I.fabrics : \E f \in I.fabrics :
                        about(f) /\ Lists(f, Member("fabric", g.name))},
         crypto |-> SelectSeq(I.crypto, LAMBDA k : k.tenant = t),
         extras |-> {e \in I.extras : e.tenant = t}]

(* An edit re-keys, moves or resizes nothing of a tenant it says nothing     *)
(* about: ordinals are minted by name within one tenant, so what another     *)
(* tenant gains never makes this one's objects trade places.                 *)
StrangersKept ==
    [][BothAccepted =>
        \A c \in out.intent.tenants :
            Mentions(out.intent, c.name) = Mentions(out'.intent, c.name) =>
                {o \in out.plan.objects : o.key.tenant = c.name}
                    = {o \in out'.plan.objects : o.key.tenant = c.name}]_vars

(* A rename clause re-associates what the board already carries and derives  *)
(* nothing: it may be refused, but an accepted plan stays the plan it was.   *)
RenameInert ==
    [][(\E r \in Renames : raw'.tenants = Renamed(raw.tenants, r)
                             /\ raw'.ports = Renamed(raw.ports, r)
                             /\ raw'.links = Renamed(raw.links, r)
                             /\ raw'.fabrics = Renamed(raw.fabrics, r))
        /\ edits' # edits /\ raw'.crypto = raw.crypto /\ raw'.extras = raw.extras
        /\ BothAccepted
        => out'.plan = out.plan]_vars

-----------------------------------------------------------------------------
(* A file the pipeline accepts, and only such a file, yields a plan that can *)
(* be built: every check made on either side, every end planned and wired    *)
(* once, every object in a container that exists and traced to a rule.       *)
PlanSound ==
    /\ TypeOK /\ TwinsAgree
    /\ EdgesJoinPlanned /\ EndsWiredOnce /\ SwitchesFit /\ EdgesLawful
    /\ SlicesAgree /\ Contained /\ ProvenanceClosed

(* An edit of the file moves what it is about and nothing else: extras add,  *)
(* strangers stay, renames derive nothing, and a resize is seen as one.      *)
EditsLocal ==
    ExtrasOnlyAdd /\ StrangersKept /\ RenameInert /\ ResizesSeen /\ SwitchResizesSeen
=============================================================================
