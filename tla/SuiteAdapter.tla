---------------------------- MODULE SuiteAdapter ----------------------------
(* board/adapter.rs: how one step of a model trace reaches the board, what is *)
(* read back, what the model expects to read, and how the two are judged.     *)
(*                                                                           *)
(* A trace is [init, steps], a step [action, post]; the states are values of  *)
(* SuiteMachine. A command is [verb, ids, arg] over model ids, and a binding  *)
(* is a function from model ids to board names: rendering a command is        *)
(* renaming its ids. A board name is an id of the board's own machine, NoName *)
(* what a create left that printed none.                                      *)
EXTENDS SuiteMachine

NoName == <<"none">>

-----------------------------------------------------------------------------
(* Ids in the order of their type: family, number; endpoints by object, port *)
FamilyOrder == <<"dprc", "dpni", "dpmac", "dpbp", "dpio", "dpcon", "dpmcp", "dpseci",
                 "dpsw", "dpdmux", "dpaiop", "dpci", "dpdcei", "dpdmai", "dprtc", "dpdbg">>
Rank(f) == CHOOSE i \in DOMAIN FamilyOrder : FamilyOrder[i] = f
Weight(e) == (Rank(Fam(e[1])) * 1000 + e[1][2]) * 10 + e[2]
LowEnd(d) == CHOOSE e \in d : \A x \in d : Weight(e) <= Weight(x)
HighEnd(d) == CHOOSE e \in d : \A x \in d : Weight(e) >= Weight(x)

(* The peer on any port of o: the first edge of the ordered set that names o. *)
PeerOf(s, o) ==
    LET with == {d \in s.edges : \E e \in d : e[1] = o}
        before(d, x) == \/ Weight(LowEnd(d)) < Weight(LowEnd(x))
                        \/ LowEnd(d) = LowEnd(x) /\ Weight(HighEnd(d)) <= Weight(HighEnd(x))
        first == CHOOSE d \in with : \A x \in with : before(d, x)
    IN  IF with = {} THEN None
        ELSE IF LowEnd(first)[1] = o THEN HighEnd(first) ELSE LowEnd(first)

CreatedObject(pre, post) ==
    LET new == Objs(post) \ Objs(pre)
    IN  IF new = {} THEN None
        ELSE CHOOSE o \in new : \A x \in new : Weight(<<o, 0>>) <= Weight(<<x, 0>>)

Refs(a) == {a[f] : f \in DOMAIN a \cap {"obj", "dst", "parent", "container", "consumer", "pool"}}
      \cup {a[f][1] : f \in DOMAIN a \cap {"a", "b", "e"}}

-----------------------------------------------------------------------------
(* Binding *)
Seed(init) == [o \in Objs(init) |-> o]
Bind(names, o, n) == [x \in DOMAIN names \cup {o} |-> IF x = o THEN n ELSE names[x]]
(* bind_created refuses an output without a name, or with one of another      *)
(* family; bind_symbolic takes anything.                                      *)
NamesCreate(o, out) == out # NoName /\ Fam(out) = Fam(o)
Resolve(names, ids) == [i \in DOMAIN ids |-> names[ids[i]]]
(* An endpoint as restool is given it: port 0 is implied by the bare name.    *)
Written(names, e) == IF e[2] = 0 THEN <<names[e[1]]>> ELSE <<names[e[1]], e[2]>>

-----------------------------------------------------------------------------
(* The drive side *)
Cmd(verb, ids, arg) == [verb |-> verb, ids |-> ids, arg |-> arg]
Unmappable == Cmd("unmappable", <<>>, "")    \* the error of a trace no board can follow
BoardTakes == {"kernelBind", "childIrqRefresh", "allocate", "free",
               "enable", "disable", "linkChange"}
Awaited(a) == a.op \in BoardTakes \/ (a.op = "preplugMutate" /\ Fam(a.obj) # "dpni")

ParentOf(s, o) == s.objs[o].parent
(* assign pushes into a direct child, unassign pulls up to the container's    *)
(* parent; a longer way is no single command.                                 *)
MoveCmd(a, pre) ==
    LET from == ParentOf(pre, a.obj)
    IN  IF ParentOf(pre, a.dst) = from THEN Cmd("assign", <<from, a.obj, a.dst>>, "down")
        ELSE IF ParentOf(pre, from) = a.dst THEN Cmd("unassign", <<a.dst, a.obj, from>>, "up")
        ELSE Unmappable
PlugCmd(a, pre, plugged) == Cmd("plug", <<ParentOf(pre, a.obj), a.obj>>, plugged)
(* connect and disconnect always run on the root: a container made without    *)
(* options does not hold the topology privilege.                              *)
EdgeCmds(a) ==
    IF a.op = "connectEdge"
    THEN <<Cmd("connect", <<Root, a.a[1], a.b[1]>>, <<a.a[2], a.b[2]>>)>>
    ELSE <<Cmd("disconnect", <<Root, a.e[1]>>, <<a.e[2]>>)>>
VfioCmds(o) == <<Cmd("override", <<o>>, "vfio-fsl-mc"), Cmd("vfio-bind", <<o>>, "")>>

Drive(a, pre) ==   \* <<>> for a step that is awaited
    CASE Awaited(a) -> <<>>
      [] a.op = "createContainer" -> <<Cmd("create", <<a.parent>>, "dprc")>>
      [] a.op = "createObject" ->    \* a dpdbg names neither its container nor itself
            <<Cmd("create", IF a.fam = "dpdbg" THEN <<>> ELSE <<a.container>>, a.fam)>>
      [] a.op = "preplugMutate" -> <<Cmd("update", <<a.obj>>, "mac")>>
      [] a.op = "assignChild" -> <<MoveCmd(a, pre)>>
      [] a.op = "plug" -> <<PlugCmd(a, pre, TRUE)>>
      [] a.op = "unplug" -> <<PlugCmd(a, pre, FALSE)>>
      [] a.op = "vfioBind" -> VfioCmds(a.obj)
      [] a.op = "unbind" -> <<Cmd("unbind", <<a.obj>>, "")>>
      [] a.op \in {"connectEdge", "disconnectEdge"} -> EdgeCmds(a)
      [] a.op = "rescan" -> <<Cmd("sync", <<>>, "")>>
      [] a.op = "setLocked" -> <<Cmd("lock", <<a.container>>, a.locked)>>
      [] a.op = "destroy" ->
            <<Cmd("destroy", IF Fam(a.obj) = "dpdbg" THEN <<>> ELSE <<a.obj>>, Fam(a.obj))>>

Mappable(a, pre) == \A i \in DOMAIN Drive(a, pre) : Drive(a, pre)[i].verb # Unmappable.verb

-----------------------------------------------------------------------------
(* The read-back side *)
RendersLinkStatus == {"dpci", "dpni"}
SpeaksPerInterface == {"dpsw", "dpdmux"}
Show(c) == [kind |-> "show", on |-> c, port |-> 0]
Info(e) == [kind |-> IF Fam(e[1]) \in SpeaksPerInterface THEN "iface" ELSE "info",
            on |-> e[1], port |-> e[2]]
DriverLink(o) == [kind |-> "driver", on |-> o, port |-> 0]

LinkProbes(a, post) ==     \* the peer is captured beside it, never judged
    LET peer == PeerOf(post, a.obj)
    IN  <<Info(<<a.obj, 0>>)>> \o (IF peer = None THEN <<>> ELSE <<Info(peer)>>)

Readback(a, pre, post) ==
    CASE a.op = "createContainer" -> <<Show(a.parent)>>
      [] a.op = "createObject" -> <<Show(a.container)>>
      [] a.op = "assignChild" -> <<Show(a.dst)>>
      [] a.op = "plug" -> <<Show(ParentOf(post, a.obj))>>
      [] a.op = "unplug" -> <<Show(ParentOf(post, a.obj)), DriverLink(a.obj)>>
      [] a.op = "destroy" -> <<Show(ParentOf(pre, a.obj))>>
      [] a.op = "connectEdge" -> <<Info(a.a)>>
      [] a.op = "disconnectEdge" -> <<Info(a.e)>>
      [] a.op = "linkChange" -> LinkProbes(a, post)
      [] a.op \in {"kernelBind", "vfioBind", "unbind"} -> <<DriverLink(a.obj)>>
      [] OTHER -> <<>>

(* The expectation: the object it is about, and a value for each field asked. *)
About(o, want) == [object |-> o, want |-> want]
Nothing == About(None, <<>>)
Asserts(e) == e.object # None
BoundIn(s, o) == s.objs[o].bind # "none"
LinkWant(o, post) ==
    IF Fam(o) \in RendersLinkStatus THEN [linkUp |-> post.objs[o].up] ELSE <<>>
With(f, g) == [x \in DOMAIN f \cup DOMAIN g |-> IF x \in DOMAIN f THEN f[x] ELSE g[x]]
OnlyPresent(o, post) == [present |-> TRUE]    \* a mutant
Standing(o, post) == [present |-> TRUE, plugged |-> post.objs[o].plugged]

Expect(a, pre, post) ==
    CASE a.op \in {"createContainer", "createObject"} ->
            About(CreatedObject(pre, post), Standing(CreatedObject(pre, post), post))
      [] a.op \in {"assignChild", "plug"} -> About(a.obj, Standing(a.obj, post))
      [] a.op = "unplug" ->
            About(a.obj, With(Standing(a.obj, post), [bound |-> BoundIn(post, a.obj)]))
      [] a.op = "destroy" -> About(a.obj, [present |-> FALSE])
      [] a.op = "connectEdge" ->
            About(a.a[1], With([endpoint |-> a.b], LinkWant(a.a[1], post)))
      [] a.op = "linkChange" -> About(a.obj, With([present |-> TRUE], LinkWant(a.obj, post)))
      [] a.op = "disconnectEdge" -> About(a.e[1], [endpoint |-> PeerOf(post, a.e[1])])
      [] a.op \in {"kernelBind", "vfioBind"} -> About(a.obj, [bound |-> BoundIn(post, a.obj)])
      [] a.op = "unbind" -> About(a.obj, [bound |-> FALSE])
      [] OTHER -> Nothing

-----------------------------------------------------------------------------
(* Observation and judgement. What a probe captured, by its kind: `show` a    *)
(* function from the names listed to their plugged state, `info` [exists,     *)
(* peer, link] with link "none" where no such line is printed, `iface` a      *)
(* function from interfaces to peers, `driver` whether a driver claims it.    *)
FromShow(rows, name) ==
    With([present |-> name \in DOMAIN rows],
         IF name \in DOMAIN rows THEN [plugged |-> rows[name]] ELSE <<>>)
FromInfo(info) ==
    IF ~info.exists THEN [present |-> FALSE, endpoint |-> None]
    ELSE With([present |-> TRUE, endpoint |-> info.peer],
              IF info.link = "none" THEN <<>> ELSE [linkUp |-> info.link = "up"])
FromIface(blocks, port) == [endpoint |-> IF port \in DOMAIN blocks THEN blocks[port] ELSE None]

Observe(probes, outputs, name) ==
    LET first == {i \in DOMAIN probes : probes[i].kind = "info"}
        of(i) == CASE probes[i].kind = "show" -> FromShow(outputs[i], name)
                   [] probes[i].kind = "info" ->    \* the first info wins
                         IF \E k \in first : k < i THEN <<>> ELSE FromInfo(outputs[i])
                   [] probes[i].kind = "iface" -> FromIface(outputs[i], probes[i].port)
                   [] probes[i].kind = "driver" -> [bound |-> outputs[i]]
        upto[n \in 0..Len(probes)] == IF n = 0 THEN <<>> ELSE With(of(n), upto[n-1])
    IN  upto[Len(probes)]

(* Every field the model asserts must have been observed, with that value: a  *)
(* peer is compared as it is written.                                         *)
Judge(e, observed, names) ==
    \A f \in DOMAIN e.want :
       /\ f \in DOMAIN observed
       /\ observed[f] = IF f = "endpoint" /\ e.want[f] # None
                        THEN Written(names, e.want[f]) ELSE e.want[f]
=============================================================================
