---------------------------- MODULE IntentParse -----------------------------
(* The TOML front of the compiler: the raw document, what the parser refuses *)
(* by itself, the intent it hands on, and the completion the shell adds.  An *)
(* absent key is NoName (a name) or 0 (a number).                            *)
EXTENDS IntentRefuse

CONSTANTS MacTableHi,      \* u16::MAX, the schema bound of mac_table_size
          PriorityHi       \* DpconPriority::HI

Constructs(raw) == raw.ports \cup raw.links \cup raw.fabrics
Resolves(raw, n) == n = Kernel \/ n \in {c.name : c \in raw.tenants}
Owner(p) == IF p.tenant = NoName THEN Kernel ELSE p.tenant
ParseError(rule, construct) == <<rule, construct>>

\* The first family that declares the name speaks for it: ports, links, fabrics.
ConstructDeclaredUnrenamed(raw, n) ==
    LET first == IF Named(raw.ports, n) # {} THEN raw.ports
                 ELSE IF Named(raw.links, n) # {} THEN raw.links ELSE raw.fabrics
    IN  \E x \in Named(first, n) : x.renamed = NoName

CheckRenames(raw) ==
    {ParseError("RenamedFromDeclared", c.name) :
        c \in {c \in raw.tenants : \E d \in Named(raw.tenants, c.renamed) : d.renamed = NoName}}
    \cup {ParseError("RenamedFromDeclared", x.name) :
        x \in {x \in Constructs(raw) : ConstructDeclaredUnrenamed(raw, x.renamed)}}

ConvertTenant(raw) ==
    LET bad(c) == \/ (c.isolation = "restricted") # (c.pool # NoName)
                  \/ c.priority \notin NoPriority..PriorityHi
    IN  {ParseError("ReservedKernel", c.name) : c \in Named(raw.tenants, Kernel)}
        \cup {ParseError("TenantShape", c.name) : c \in {c \in raw.tenants : bad(c)}}

ConvertPort(raw) ==
    {ParseError("TenantAbsent", p.name) : p \in {p \in raw.ports : ~Resolves(raw, Owner(p))}}


ConvertLink(raw) ==
    {ParseError("TenantAbsent", l.name) :
        l \in {l \in raw.links : ~Resolves(raw, l.a) \/ ~Resolves(raw, l.b)}}
    \cup {ParseError("LinkSelfLoop", l.name) : l \in {l \in raw.links : l.a = l.b}}

ClassifyMember(raw, n) ==
    IF Named(raw.ports, n) # {} THEN Member("port", n)
    ELSE IF Resolves(raw, n) THEN Member("tenant", n)
    ELSE Member("fabric", n)

ConvertFabric(raw) ==
    LET lost(n) == ClassifyMember(raw, n).kind = "fabric" /\ Named(raw.fabrics, n) = {}
    IN  {ParseError("TenantAbsent", f.name) :
            f \in {f \in raw.fabrics : ~Resolves(raw, f.forwarded_by)}}
        \cup {ParseError("MemberUnresolved", f.name) :
            f \in {f \in raw.fabrics : \E n \in Range(f.members) : lost(n)}}
        \cup {ParseError("MacTableRange", f.name) :
            f \in {f \in raw.fabrics : f.mac_table > MacTableHi}}

\* Names that two of the three construct families share.
DuplicateConstruct(raw) ==
    {ParseError("DuplicateConstruct", x.name) :
        x \in {x \in Constructs(raw) : \E y \in Constructs(raw) : x # y /\ x.name = y.name}}

ConvertCrypto(raw) ==
    {ParseError("TenantAbsent", "crypto") :
        k \in {k \in Range(raw.crypto) : ~Resolves(raw, k.tenant)}}

ConvertExtra(raw) ==
    {ParseError("TenantAbsent", "extra") :
        e \in {e \in raw.extras : ~Resolves(raw, e.tenant)}}

ParseErrors(raw) ==
    CheckRenames(raw) \cup ConvertTenant(raw) \cup ConvertPort(raw) \cup ConvertLink(raw)
    \cup ConvertFabric(raw) \cup DuplicateConstruct(raw) \cup ConvertCrypto(raw)
    \cup ConvertExtra(raw)

\* The neutral intent a document stands for.
Cooked(raw) ==
    [raw EXCEPT
        !.ports   = {[p EXCEPT !.tenant = Owner(p)] : p \in @},
        !.fabrics = {[f EXCEPT !.members =
                        [i \in DOMAIN f.members |-> ClassifyMember(raw, f.members[i])]] :
                       f \in @}]

\* A port of the kernel brings the kernel tenant the file may not declare.
CompleteKernel(I, cpus) ==
    IF (\E p \in I.ports : p.tenant = Kernel) /\ Named(I.tenants, Kernel) = {}
    THEN [I EXCEPT !.tenants = @ \cup {KernelTenant(cpus)}]
    ELSE I

\* load, complete, compile: what ensure, dry-run and status all run first.
CompileIntent(raw, inv) ==
    LET errors == ParseErrors(raw)
    IN  IF errors # {}
        THEN [verdict |-> "rejected", intent |-> raw, plan |-> NoPlan,
              refusals |-> errors, warnings |-> {}]
        ELSE Compile(CompleteKernel(Cooked(raw), inv.cpus), inv)
=============================================================================
