----------------------------- MODULE MCSuiteRun -----------------------------
(* An instance of SuiteRun for TLC: the suites of models/board in small. A    *)
(* dpni and a dpsw draw one dpbp, for the dpmcp, dpbp and dpcon of the board. *)
EXTENDS SuiteRun

Plain == [creatable |-> TRUE, rootOnly |-> FALSE, singleton |-> FALSE, pooled |-> FALSE,
          driver |-> FALSE, hotBind |-> FALSE, ports |-> 0, rescans |-> FALSE, draws |-> {}]
Driven == [Plain EXCEPT !.driver = TRUE, !.hotBind = TRUE, !.draws = {"dpbp"}]
MCParams ==
    [dprc |-> [Plain EXCEPT !.rescans = TRUE],
     dpni |-> [Driven EXCEPT !.ports = 1],
     dpsw |-> [Driven EXCEPT !.ports = 2],
     dpbp |-> [Plain EXCEPT !.pooled = TRUE],
     dpmac |-> [Plain EXCEPT !.creatable = FALSE, !.rootOnly = TRUE, !.ports = 1],
     dpci |-> [Plain EXCEPT !.ports = 1],
     dpdmai |-> Plain,
     dpdbg |-> [Plain EXCEPT !.rootOnly = TRUE, !.singleton = TRUE]]

Dprc(n) == <<"dprc", n>>    Ni(n) == <<"dpni", n>>     Mac(n) == <<"dpmac", n>>
Bp(n) == <<"dpbp", n>>      Sw(n) == <<"dpsw", n>>     Ci(n) == <<"dpci", n>>
MCDeny == {Mac(3), Mac(17), Ni(0)}
MCFlagged == {Mac(7), Mac(9)}
Dbg == <<"dpdbg", 0>>
Bench == [objs |-> [o \in {Ni(0), Mac(17)} |->
                      [BootObj(Root) EXCEPT !.bind = IF o = Ni(0) THEN "kernel" ELSE "none"]],
          edges |-> {{<<Ni(0), 0>>, <<Mac(17), 0>>}}]
Unlit == [objs |-> [o \in {Mac(17)} |-> BootObj(Root)], edges |-> {}]
Debugged == [Bench EXCEPT !.objs = With(@, [o \in {Dbg} |-> [NewObj(Root) EXCEPT !.vis = TRUE]])]

Make(fam, c) == [op |-> "createObject", fam |-> fam, container |-> c]
Spawn(c) == [op |-> "createContainer", parent |-> c]
Do(op, o) == [op |-> op, obj |-> o]
Move(o, dst) == [op |-> "assignChild", obj |-> o, dst |-> dst]
JoinTo(e, b) == [op |-> "connectEdge", a |-> e, b |-> <<b, 0>>]
Join(a, b) == JoinTo(<<a, 0>>, b)
Part(a) == [op |-> "disconnectEdge", e |-> <<a, 0>>]
Scan == [op |-> "rescan", container |-> Root]
Lock(c, v) == [op |-> "setLocked", container |-> c, locked |-> v]

Bare == BootState({})
Board7 == WiredState({Mac(7)}, Mac(7))
Raised(o) == <<Do("plug", Bp(0)), Do("plug", o), Scan, Do("kernelBind", o)>>
Hand == <<Part(Ni(1)), Make("dpbp", Root), Make("dpni", Root), Join(Ni(2), Mac(7))>>
        \o Raised(Ni(2)) \o <<Do("enable", Ni(2)), Do("linkChange", Ni(2))>>
Pair == <<Make("dpci", Root), Make("dpci", Root), Join(Ci(0), Ci(1)), Do("plug", Ci(0))>>
Tree == <<Spawn(Root), Spawn(Root), Make("dpni", Dprc(2)), Move(Ni(0), Root), Move(Ni(0), Dprc(3)),
          Do("plug", Ni(0)), Do("unplug", Ni(0)), Move(Ni(0), Root), Move(Ni(0), Dprc(2)),
          Do("destroy", Ni(0)), Do("destroy", Dprc(3)), Do("destroy", Dprc(2))>>

At(init, faces) == [init |-> init, site |-> Bench, faces |-> faces]
MCScenes ==
    [life |-> At(Bare, <<<<Make("dpbp", Root), Make("dpni", Root)>> \o Raised(Ni(0))
                         \o <<Do("unbind", Ni(0))>>>>),
     late |-> At(Bare, <<<<Make("dpni", Root), Make("dpbp", Root)>> \o Raised(Ni(0))>>),
     recovery |-> At(Bare, <<<<Spawn(Root), Make("dpbp", Dprc(2)), Do("plug", Bp(0))>>>>),
     stray |-> At(Board7, <<<<Spawn(Root), Part(Ni(1)), Make("dpbp", Root)>>>>),
     persist |-> At(Bare, <<<<Make("dpdmai", Root), Make("dpni", Root), Do("preplugMutate", Ni(0))>>>>),
     hand |-> At(Board7, <<Hand>>),
     early |-> At(Board7, <<SubSeq(Hand, 1, 7)>>),
     rejoin |-> At(Board7, <<<<Part(Ni(1)), Join(Ni(1), Mac(7)), Part(Ni(1)), Make("dpni", Root),
                               Join(Ni(2), Mac(7)), Part(Ni(2))>>>>),
     tree |-> At(Bare, <<Tree>>),
     lock |-> At(Bare, <<<<Spawn(Root), Make("dpbp", Dprc(2)), Do("plug", Bp(0)),
                           Lock(Dprc(2), TRUE), Lock(Dprc(2), FALSE)>>>>),
     switch |-> At(BootState({Mac(5)}),
                   <<<<Make("dpbp", Root), Make("dpsw", Root), Join(Sw(0), Mac(5))>>
                     \o Raised(Sw(0)) \o <<Part(Mac(5))>>>>),
     patch |-> At(BootState({Mac(5)}),
                  <<<<Make("dpsw", Root), Make("dpni", Root), Join(Ni(0), Sw(0)), JoinTo(<<Sw(0), 1>>, Mac(5)),
                      Part(Sw(0)), Do("linkChange", Sw(0))>>>>),
     denied |-> At(BootState({Mac(3)}), <<<<Make("dpni", Root), Join(Ni(0), Mac(3))>>>>),
     debug |-> At(Bare, <<<<Make("dpdbg", Root), Do("destroy", Dbg)>>>>),
     taken |-> [At(Bare, <<<<Make("dpdbg", Root), Make("dpbp", Root)>>>>) EXCEPT !.site = Debugged],
     namesake |-> [At(Bare, <<<<Make("dpni", Root), Do("plug", Ni(0))>>>>) EXCEPT !.site = Unlit],
     vfio |-> At(Bare, <<<<Spawn(Root), Make("dpni", Dprc(2)), Make("dpni", Root), Do("plug", Ni(1)), Scan,
                           Do("vfioBind", Ni(1)), Do("unbind", Ni(1)), Do("unplug", Ni(1)),
                           Move(Ni(1), Dprc(2))>>>>),
     faces |-> At(Bare, <<Pair, <<Spawn(Root)>> \o Pair>>)]

(* The driver knows one kind of suite and no refusals.                        *)
SpecFor(scene, online, learning) ==
    [kind |-> CASE online -> Standard
                [] scene \in {"recovery", "stray"} -> RecoveryVerification
                [] scene = "persist" -> RebootPersistence [] OTHER -> Standard,
     class |-> IF scene \in {"hand", "early", "rejoin"} THEN "link" ELSE "lifecycle",
     flagged |-> scene \in {"hand", "early", "rejoin"},
     hook |-> {NoHook}, refusals |-> IF scene = "taken" /\ ~online THEN <<"busy">> ELSE <<>>,
     learning |-> learning]
SkipSets(scene) ==
    {{}} \cup (IF scene # "taken" THEN {{i} : i \in DOMAIN MCScenes[scene].faces[1]} ELSE {})
CasesOf(n, online) ==
    [scene : {n}, skip : SkipSets(n), online : {online},
     spec : {SpecFor(n, online, l) : l \in IF online THEN BOOLEAN ELSE {TRUE}}]
MCCases == UNION {CasesOf(n, online) : n \in DOMAIN MCScenes, online \in BOOLEAN}
=============================================================================
