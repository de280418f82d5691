------------------------------ MODULE DpswBlock ------------------------------
(* What a dpsw create block becomes and what is read back of it: the block   *)
(* the planner fills in from a compiled fabric and its two refusals          *)
(* (families/dpsw.rs, plan/dpsw.rs), the arguments restool is given and the  *)
(* lines `dpsw info` prints (dpaa2-mc restool.rs), the census face decoded   *)
(* from them and the drift and the multiset judged on it (plan/dpsw.rs); and  *)
(* the edge table its ports obey (plan/connect.rs).                          *)
EXTENDS Integers, FiniteSets, Sequences

CONSTANT Absent        \* a line that was not printed, or says nothing

\* The create envelope of each numeric field.
FieldLo == [num_ifs |-> 1, max_vlans |-> 0, max_fdbs |-> 0, max_fdb_entries |-> 0,
            fdb_aging_time |-> 0, max_fdb_mc_groups |-> 0]
FieldHi == [num_ifs |-> 65535, max_vlans |-> 65535, max_fdbs |-> 255,
            max_fdb_entries |-> 65535, fdb_aging_time |-> 65535,
            max_fdb_mc_groups |-> 65535]
Field == DOMAIN FieldLo
Refined(field, v) == v \in FieldLo[field]..FieldHi[field]

DpswOpt == {"FloodingDis", "MulticastDis", "CtrlIfDis", "FloodingMeteringDis",
            "MeteringEn", "BpPerIf", "LagDis"}

\* The position of a flag in the options mask.
DpswOptBit == [opt \in DpswOpt |->
    CASE opt = "FloodingDis"         -> 0 [] opt = "MulticastDis" -> 2
      [] opt = "CtrlIfDis"           -> 4 [] opt = "FloodingMeteringDis" -> 5
      [] opt = "MeteringEn"          -> 6 [] opt = "BpPerIf"      -> 7
      [] opt = "LagDis"              -> 8]
DpswOptionsMask(opts) == {DpswOptBit[opt] : opt \in opts}

-----------------------------------------------------------------------------
(* The edge table of plan/connect.rs: which families two ends of an edge may *)
(* have, which of their ports, and what making and breaking the edge takes.  *)
(* An end is [fam, port]; an edge has no direction.                          *)

LegalPairs ==
    {{"dpni", "dpmac"}, {"dpni"}, {"dpni", "dpsw"}, {"dpni", "dpdmux"},
     {"dpsw", "dpmac"}, {"dpdmux", "dpmac"}, {"dpci"}}
LegalPair(a, b) == {a.fam, b.fam} \in LegalPairs

\* A dpdmux has one uplink.
LegalPorts(a, b) ==
    \A s \in {a, b} :
        s.fam = "dpdmux" /\ {a.fam, b.fam} = {"dpdmux", "dpmac"} => s.port = 0

\* A switch has the interfaces it was created with.
DpswPortBound(end, num_ifs) == end.fam = "dpsw" => end.port < num_ifs

\* Unbinding the dpni under a standing edge would strand its dpmac.
EdgeDemandsSeveredWitness(a, b) == {a.fam, b.fam} = {"dpni", "dpmac"}

\* Where a connect is issued and what a disconnect takes; as a set, empty for
\* a pair that is no edge.
ReificationPolicy(a, b) ==
    LET defined(connect, teardown) == {[connect |-> connect, teardown |-> teardown]}
        pair == {a.fam, b.fam}
    IN  CASE pair = {"dpni", "dpmac"} ->
                defined("AncestorConnectThenKernelBind", "SeveredWitness")
          [] pair \in {{"dpni", "dpsw"}, {"dpsw", "dpmac"}, {"dpni"}} ->
                defined("AncestorConnect", "DisconnectOnly")
          [] pair = {"dpdmux", "dpmac"} -> defined("AncestorConnect", "Refused")
          [] pair \in {{"dpni", "dpdmux"}, {"dpci"}} ->
                defined("AwaitsOwnChange", "AwaitsOwnChange")
          [] OTHER -> {}

-----------------------------------------------------------------------------
(* The block and its refusals. *)

CtrlIfEnabled(c) == "CtrlIfDis" \notin c.options

KernelBindable(c) ==
    /\ CtrlIfEnabled(c)
    /\ c.flooding = "PerFdb" /\ c.broadcast = "PerFdb"
    /\ c.size.max_fdbs >= c.size.num_ifs

IsVendorRecipeShape(c) == c.flooding = "PerVlan" /\ c.broadcast = "PerObject"

\* What the constructor says of a block, the vendor's shape by its own name.
Classify(c) ==
    IF IsVendorRecipeShape(c) THEN "VendorRecipeShape"
    ELSE IF ~KernelBindable(c) THEN "UnbindableCfg" ELSE "accepted"

\* The block of a compiled fabric: what the intent does not carry takes the
\* family's defaults (the frame memory and the meters, which nothing reads
\* back, are 0 and left out).
CreateOf(attrs) ==
    [size |-> [num_ifs |-> attrs.num_ifs, max_vlans |-> 16, max_fdbs |-> attrs.max_fdbs,
               max_fdb_entries |-> attrs.max_fdb_entries, fdb_aging_time |-> 300,
               max_fdb_mc_groups |-> 32],
     options   |-> IF attrs.ctrl_if THEN {} ELSE {"CtrlIfDis"},
     component |-> "CVlan",
     flooding  |-> IF attrs.per_fdb_flooding THEN "PerFdb" ELSE "PerVlan",
     broadcast |-> IF attrs.per_fdb_broadcast THEN "PerFdb" ELSE "PerObject"]

\* Why a compiled fabric yields no block; "accepted" when it does.
CfgFromAttributes(attrs) ==
    LET c == CreateOf(attrs)
    IN  IF \E f \in Field : ~Refined(f, c.size[f]) THEN "Config" ELSE Classify(c)

\* The steps that raise a switch, in order, or the ports it does not have.
PlanSwitchedDomain(attrs, ports) ==
    LET offending == {i \in DOMAIN ports :
                        ~DpswPortBound([fam |-> "dpsw", port |-> ports[i].ifx], attrs.num_ifs)}
    IN  IF offending # {} THEN [overflow |-> {ports[i].ifx : i \in offending}, steps |-> <<>>]
        ELSE [overflow |-> {},
              steps |-> <<[do |-> "CreateSwitch", with |-> CreateOf(attrs)]>>
                        \o [i \in DOMAIN ports |-> [do |-> "ConnectPort", with |-> ports[i]]]
                        \o <<[do |-> "PlugSwitch", with |-> Absent]>>]

-----------------------------------------------------------------------------
(* Create and read back. *)

\* Every field as it stands, the mask only when it is not 0.
BuildDpswCreateArgs(cfg) ==
    [size |-> cfg.size, mask |-> DpswOptionsMask(cfg.options),
     component |-> cfg.component, flooding |-> cfg.flooding, broadcast |-> cfg.broadcast]

Line == Field \cup {"options", "component", "flooding", "broadcast"}

\* The lines printed of a switch so created.  `unnamed` are the bits a firmware
\* sets on its own, `lost` the lines it leaves out; the per-fdb broadcast is
\* printed with a letter missing.
DpswInfo(args, unnamed, lost) ==
    [line \in Line \ lost |->
        CASE line \in Field     -> args.size[line]
          [] line = "options"   -> args.mask \cup unnamed
          [] line = "component" -> args.component
          [] line = "flooding"  -> args.flooding
          [] line = "broadcast" -> IF args.broadcast = "PerFdb" THEN "Brodcast" ELSE "PerObject"]

\* The named flags of a mask and the bits left over.
DecodeDpswOptions(raw) ==
    LET named == {opt \in DpswOpt : DpswOptBit[opt] \in raw}
    IN  [named |-> named, escapes |-> raw \ DpswOptionsMask(named)]

\* The print path's spelling and the two a create takes.
DecodeBroadcastCfg(token) ==
    CASE token = "Brodcast"                  -> "PerFdb"
      [] token \in {"PerObject", "PerFdb"}   -> token
      [] OTHER                               -> Absent

\* The typed detail: a line that is absent or out of its envelope stays unknown.
AssembleDpswDetail(info) ==
    [line \in Line |->
        CASE line \notin DOMAIN info -> Absent
          [] line \in Field     -> IF Refined(line, info[line]) THEN info[line] ELSE Absent
          [] line = "options"   -> DecodeDpswOptions(info[line])
          [] line = "broadcast" -> DecodeBroadcastCfg(info[line])
          [] OTHER              -> info[line]]

-----------------------------------------------------------------------------
(* The census face and what is judged on it. *)

\* The signature: the fields with a read-back.
SigOfSwitch(cfg) == cfg

\* A face, as a set of at most one signature: one unknown line or one bit
\* without a name, and nothing can be said.
ObservedFaceOf(detail) ==
    IF (\E line \in Line : detail[line] = Absent) \/ detail["options"].escapes # {} THEN {}
    ELSE {[size |-> [f \in Field |-> detail[f]], options |-> detail["options"].named,
           component |-> detail["component"], flooding |-> detail["flooding"],
           broadcast |-> detail["broadcast"]]}

\* Drift, which plans a destroy and a create: no evidence is no drift.
ClassifyObservableMismatch(desired, face) == face # {} /\ face # {SigOfSwitch(desired)}

\* The census judge over a sequence of planned blocks and one of faces: poisoned
\* by one face without a signature, else the surplus on either side.
SigCensus(sigs, sig) == Cardinality({i \in DOMAIN sigs : sigs[i] = sig})

CensusDelta(planned, observed) ==
    LET sigs == {planned[i] : i \in DOMAIN planned} \cup {observed[i] : i \in DOMAIN observed}
        over(s, t) == {sig \in sigs : SigCensus(s, sig) > SigCensus(t, sig)}
    IN  [creates |-> over(planned, observed), destroys |-> over(observed, planned)]

\* No judgment and an empty delta are acted on alike.
JudgesNothing == [creates |-> {}, destroys |-> {}]

JudgeCensus(planned, faces) ==
    IF \E i \in DOMAIN faces : faces[i] = {} THEN JudgesNothing
    ELSE CensusDelta([i \in DOMAIN planned |-> SigOfSwitch(planned[i])],
                     [i \in DOMAIN faces |-> CHOOSE sig \in faces[i] : TRUE])

\* The face of a switch created from a block.
FaceOf(cfg, unnamed, lost) ==
    ObservedFaceOf(AssembleDpswDetail(DpswInfo(BuildDpswCreateArgs(cfg), unnamed, lost)))

\* What the switch phase does about a standing switch of a compiled fabric.
PlanCfgDrift(attrs, face) ==
    IF ClassifyObservableMismatch(CreateOf(attrs), face) THEN "Recreate" ELSE "Converged"
=============================================================================
