---------------------------- MODULE MCTenancyRun ----------------------------
(* Instances of TenancyRun for TLC: a userspace tenant "u" with a port, a    *)
(* kernel-driven tenant "k", an undeclared container "x".                    *)
EXTENDS TenancyRun, TLC

Roll1 == <<"u">>
Roll2 == <<"k", "u">>
RegimeU == [t \in Names |-> IF t = "u" THEN "vfio" ELSE "kernel"]
PortsU == [t \in Names |-> IF t = "u" THEN <<"p">> ELSE << >>]
OneEach == [t \in Names |-> 1]

\* A child named n, as a finished run or another tool leaves it.
Child(b, c, n, drv, dpnis, pool) ==
  [b EXCEPT !.live = @ \cup {c}, !.name[c] = n, !.driver[c] = drv,
            !.over[c] = drv, !.scanned = @ \cup {c},
            !.home = [o \in Objs |-> IF o \in dpnis \cup pool THEN c ELSE @[o]],
            !.tag = [o \in Objs |-> IF o \in dpnis THEN "p"
                                    ELSE IF o \in pool THEN n ELSE @[o]],
            !.plugged = @ \cup dpnis \cup pool]

Wire(b, d) == [b EXCEPT !.edge[d] = "p"]

Clean == NoBoard
\* A tenant at work, and a bound stray with a wired dpni of its own edge "q".
Working == Wire(Child(NoBoard, 2, "u", "vfio", {21}, {11}), 21)
Stray(b) ==
  [Child(b, 3, "x", "vfio", {22}, {12}) EXCEPT !.edge[22] = "q", !.tag[22] = "x"]
Anonymous(b) == [Child(b, 3, "x", "none", {}, {12}) EXCEPT !.name[3] = None, !.tag[12] = None]

Site(r, o, b, e, f) ==
  [board |-> b, roll |-> r, options |-> o, budget |-> [edits |-> e, faults |-> f]]
Whatever == [allow : {0, 2}, prune : BOOLEAN, policy : {"rollback", "abort"}]
Consent == [allow : {2}, prune : {TRUE}, policy : {"abort"}]
Undoing == [allow : {2}, prune : {TRUE}, policy : {"rollback"}]

\* The userspace tenant alone under every option and both tenants with consent, one
\* edit and one failure; a first run under rollback, three failures, so that the
\* undo of a bind fails as well.
AllSites ==
  {Site(Roll1, Whatever, b, 1, 1) :
     b \in {Clean, Stray(NoBoard), Stray(Working), Anonymous(Working)}}
    \cup {Site(Roll2, Consent, Working, 1, 1), Site(Roll1, Undoing, Clean, 0, 3)}
AllRolls == {Roll1, Roll2}

\* The kernel-driven tenant's first run, under rollback.
KernelSites == {Site(Roll2, Undoing, Clean, 0, 0)}
=============================================================================
