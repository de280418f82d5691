----------------------------- MODULE MCMatchRun -----------------------------
(* Instances of MatchRun for TLC.                                            *)
EXTENDS MatchRun, TLC

TwoFamilies == <<"dpni", "dprc">>
FourNames == <<"a", "b", "c", "d">>

Link(n, facet) ==
    [family |-> "dpni", name |-> n, anchor |-> {}, config |-> facet, from |-> NoName]
Tenant(n, facet) == [Link(n, facet) EXCEPT !.family = "dprc"]
Port(n, macs) == [Link(n, "anchored") EXCEPT !.anchor = macs]

\* Three links, two of them alike; a port and a tenant beside two links.
LinksOnly == {Link("a", "x"), Link("b", "y"), Link("c", "y")}
Mixed == {Link("a", "x"), Port("b", {7}), Tenant("c", "x")}

StartIntents == {LinksOnly, Mixed}

More == {Link("d", "x"), Link("a", "y"), Port("d", {8})}
=============================================================================
