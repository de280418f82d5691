---------------------------- MODULE MCIntentFile ----------------------------
(* Instances of IntentFile for TLC: two files to start from, and one         *)
(* construct of every shape the language has to add to them.                 *)
EXTENDS IntentFile, TLC

\* Every name, sorted by bytes.
Sorted == <<"aux", "dpdk", "ev", "f0", "f1", "g0", "g1", "kernel", "l0", "l1",
            "lxc", "ns", "old", "p0", "p1", "p2", "p9", "vpp">>

Tenant(n, plane, cores, how, pool, prio) ==
    [name |-> n, dataplane |-> plane, max_cores |-> cores, isolation |-> how,
     pool |-> pool, renamed |-> NoName, priority |-> prio]
Port(n, d, r, t) == [name |-> n, dpmac |-> d, rate |-> r, tenant |-> t, renamed |-> NoName]
Link(n, a, b) == [name |-> n, a |-> a, b |-> b, renamed |-> NoName]
Fabric(n, how, owner, ms, mac) ==
    [name |-> n, switching |-> how, forwarded_by |-> owner, members |-> ms,
     mac_table |-> mac, renamed |-> NoName]
Crypto(t, flows) == [tenant |-> t, flows |-> flows]
Extra(t, fam, n) == [tenant |-> t, family |-> fam, count |-> n]

Empty == [tenants |-> {}, ports |-> {}, links |-> {}, fabrics |-> {},
          crypto |-> <<>>, extras |-> {}]

\* A public and an isolated poll-mode tenant, a port each.
TwoTenants ==
    [Empty EXCEPT
        !.tenants = {Tenant("vpp", "poll", 7, "public", "", 1),
                     Tenant("dpdk", "poll", 3, "isolated", "", NoPriority)},
        !.ports = {Port("p0", 1, 10, "vpp"), Port("p1", 2, 10, "dpdk")}]

\* The same under a kernel that owns an untenanted port and switches another.
Bridged ==
    [TwoTenants EXCEPT
        !.ports = @ \cup {Port("p2", 3, 10, ""), Port("p9", 4, 10, "kernel")},
        !.fabrics = {Fabric("f0", "hardware", "kernel", <<"p9", "vpp">>, 0)}]

BothFiles == {TwoTenants, Bridged}

MoreTenants == {Tenant("aux", "poll", 2, "restricted", "vpp", NoPriority),
                Tenant("aux", "poll", 3, "restricted", "dpdk", NoPriority),
                Tenant("aux", "poll", 3, "restricted", "", 9),
                Tenant("ns", "netlink", 0, "restricted", "kernel", NoPriority),
                Tenant("lxc", "netlink", 0, "isolated", "", NoPriority),
                Tenant("ev", "event", 2, "public", "", NoPriority),
                KernelTenant(2)}
MorePorts == {Port("p2", 3, 10, "vpp"), Port("p2", 3, 25, "aux"), Port("p2", 5, 10, ""),
              Port("p9", 1, 10, "kernel"), Port("p9", 7, 10, "vpp"), Port("p9", 4, 10, "lxc"),
              Port("p2", 6, 40, "dpdk")}
MoreLinks == {Link("l0", "kernel", "vpp"), Link("l1", "dpdk", "vpp"), Link("l1", "aux", "lxc"),
              Link("l1", "vpp", "vpp"), Link("p0", "vpp", "dpdk")}
MoreFabrics == {Fabric("f1", "hardware", "kernel", <<"p2", "dpdk">>, 600),
                Fabric("f1", "hardware", "kernel", <<"vpp", "dpdk", "g0", "p2">>, 0),
                Fabric("f1", "hardware", "vpp", <<"f0", "p0">>, 0),
                Fabric("g0", "software", "vpp", <<"dpdk", "kernel">>, 0),
                Fabric("g1", "software", "dpdk", <<"f0", "f1">>, 0)}
MoreCrypto == {Crypto("vpp", 2), Crypto("aux", 3)}
MoreExtras == {Extra("vpp", "dpbp", 2), Extra("kernel", "dpcon", 1), Extra("dpdk", "dpni", 1)}
Renaming == {<<"vpp", "old">>, <<"p0", "p2">>, <<"p1", "old">>}

Offer(free, who, rate) == [avail |-> free, owner |-> who, max_rate |-> rate]
Board == [cpus |-> 2,
          dpmacs |-> (1 :> Offer("free", "", 10) @@ 2 :> Offer("foreign", "p1", 10)
                      @@ 3 :> Offer("free", "", 25) @@ 4 :> Offer("foreign", "p9", 10)
                      @@ 5 :> Offer("reserved", "", 10) @@ 7 :> Offer("foreign", "old", 10)),
          ceilings |-> [dpio |-> -1, dpmcp |-> 40, dpbp |-> 20, dpcon |-> 60, dprc |-> 4,
                        dpni |-> 9, dpseci |-> 2, dpsw |-> 2]]
OneBoard == {Board}
=============================================================================
