------------------------------ MODULE DpniBlock ------------------------------
(* What a dpni create block becomes and what is read back of it: the block   *)
(* a consumer derives (families/dpni.rs, intent/derive.rs), the arguments    *)
(* and the options mask restool is given, the attributes it prints           *)
(* (dpaa2-mc restool.rs) and the drift judged on them (plan/reconcile.rs).   *)
(* A raw mask is the set of its bit positions; 0 is an option left out.      *)
EXTENDS Integers

CONSTANT None          \* what could not be read

\* The inclusive upper bound of each numeric option's create envelope.
HI == [num_queues |-> 32, num_tcs |-> 16, mac_filter_entries |-> 80,
       vlan_filter_entries |-> 16, qos_entries |-> 64, fs_entries |-> 1024,
       num_cgs |-> 128, dist_key_size |-> 56, num_ceetm_ch |-> 32, num_opr |-> 128]

Option == DOMAIN HI
Observable == Option \ {"dist_key_size"}

InRange(opt, v) == v \in 0..HI[opt]

\* A refined option: what its constructor accepts, else the default.
OrDefault(opt, v) == IF InRange(opt, v) THEN v ELSE 0

-----------------------------------------------------------------------------
(* The block. *)

DpniOpt == {"TxFrmRelease", "NoMacFilter", "HasPolicing", "SharedCongestion",
            "HasKeyMasking", "HasOpr", "OprPerTc", "SingleSender", "CustomCg",
            "StashingDis"}
RawEscape == {"PfdrInPeb", "HasReplication"}

Block(opts, sizes) ==
    [options |-> opts,
     size |-> [opt \in Option |-> IF opt \in DOMAIN sizes THEN sizes[opt] ELSE 0]]

Pmd == Block({"SingleSender", "CustomCg", "HasKeyMasking", "HasOpr", "OprPerTc", "PfdrInPeb"},
             [num_queues |-> 16, num_tcs |-> 16, vlan_filter_entries |-> 16,
              qos_entries |-> 64, fs_entries |-> 1, num_cgs |-> 24, num_ceetm_ch |-> 1])

KernelProfile == Block({"HasKeyMasking"}, [num_queues |-> 1, num_tcs |-> 1])

\* An unpriced dataplane never gets here: its block is the kernel's, unsized.
DpniCfg(dataplane, queues) ==
    LET profile == IF dataplane = "poll" THEN Pmd ELSE KernelProfile
        sized   == [profile EXCEPT !.size.num_queues = OrDefault("num_queues", queues)]
    IN  CASE dataplane = "event"          -> KernelProfile
          [] "CustomCg" \in sized.options ->
                [sized EXCEPT !.size.num_cgs = OrDefault("num_cgs", queues + 8)]
          [] OTHER                        -> sized

-----------------------------------------------------------------------------
(* The options mask. *)

OptBit ==
    [opt \in DpniOpt \cup RawEscape |->
        CASE opt = "TxFrmRelease"     -> 0 [] opt = "NoMacFilter"    -> 1
          [] opt = "HasPolicing"      -> 2 [] opt = "SharedCongestion" -> 3
          [] opt = "HasKeyMasking"    -> 4 [] opt = "HasOpr"         -> 6
          [] opt = "OprPerTc"         -> 7 [] opt = "SingleSender"   -> 8
          [] opt = "CustomCg"         -> 9 [] opt = "StashingDis"    -> 13
          [] opt = "HasReplication"   -> 14 [] opt = "PfdrInPeb"     -> 31]

OptionsMask(opts) == {OptBit[opt] : opt \in opts}

\* The options a mask spells, as a set of at most one: with a bit that names
\* neither a flag nor PFDR_IN_PEB nothing can be said.
DecodeOptions(raw) ==
    LET named == {opt \in DpniOpt \cup {"PfdrInPeb"} : OptBit[opt] \in raw}
    IN  {opts \in {named} : OptionsMask(opts) = raw}

-----------------------------------------------------------------------------
(* Create and read back. *)

\* An unsized block takes the host's queue count.
EffectiveQueues(cfg, host) == IF cfg.size.num_queues = 0 THEN host ELSE cfg.size.num_queues

\* An option that is 0 is left off the command line.
CreateArgs(cfg, host) ==
    LET sent == [cfg.size EXCEPT !.num_queues = EffectiveQueues(cfg, host)]
    IN  [options |-> OptionsMask(cfg.options),
         flags   |-> [opt \in {o \in Option : sent[o] # 0} |-> sent[opt]]]

\* The firmware's answer to GET_ATTR after a create: two option bits it clears,
\* the defaults it fills in, the two fields it honours only under their flag.
\* The key size is not in it.
FirmwareAttr(args) ==
    LET asked(opt, fill) == IF opt \in DOMAIN args.flags THEN args.flags[opt] ELSE fill
        has(flag)        == OptBit[flag] \in args.options
    IN  [options |-> args.options \ {OptBit["SharedCongestion"], OptBit["HasReplication"]},
         size |-> [opt \in Observable |->
            CASE opt \in {"num_queues", "num_tcs", "num_ceetm_ch"} -> asked(opt, 1)
              [] opt = "mac_filter_entries" -> asked(opt, 16)
              [] opt = "fs_entries"         -> asked(opt, 64)
              [] opt = "num_cgs"  -> IF has("CustomCg") THEN asked(opt, asked("num_tcs", 1)) ELSE 1
              [] opt = "num_opr"  -> IF has("HasOpr") THEN asked(opt, 8) ELSE 0
              [] OTHER            -> asked(opt, 0)]]

\* The observation, or None where a value or a bit has no typed form.
MapObservation(attr) ==
    IF DecodeOptions(attr.options) = {}
       \/ \E opt \in Observable : ~InRange(opt, attr.size[opt])
    THEN None
    ELSE [options |-> UNION DecodeOptions(attr.options), size |-> attr.size]

-----------------------------------------------------------------------------
(* Drift. *)

\* Mutant: the read-back is expected to be the request.
EchoOfRequest(cfg) ==
    [options |-> cfg.options, size |-> [opt \in Observable |-> cfg.size[opt]]]


\* The read-back a block predicts.
Project(cfg) ==
    LET filled(opt, fill) == IF cfg.size[opt] = 0 THEN fill ELSE cfg.size[opt]
    IN  [options |-> cfg.options \ {"SharedCongestion", "HasReplication"},
         size |-> [opt \in Observable |->
            CASE opt = "mac_filter_entries" -> filled(opt, 16)
              [] opt = "fs_entries"         -> filled(opt, 64)
              [] opt = "num_ceetm_ch"       -> filled(opt, 1)
              [] opt = "num_cgs" -> IF "CustomCg" \in cfg.options THEN cfg.size[opt] ELSE 1
              [] opt = "num_opr" -> IF "HasOpr" \in cfg.options THEN filled(opt, 8) ELSE 0
              [] OTHER           -> cfg.size[opt]]]

\* Whether planning rebuilds a dpni: an unsized block and one nothing could be
\* read of are never judged.
Rebuilds(cfg, seen) ==
    cfg.size.num_queues # 0 /\ seen # None /\ Project(cfg) # seen

\* What is read of a dpni created from a block.
SeenOf(cfg, host) == MapObservation(FirmwareAttr(CreateArgs(cfg, host)))
=============================================================================
