---------------------------- MODULE MCFabricRun ----------------------------
(* Instances of FabricRun for TLC: a link "w", a switched domain "s" with a  *)
(* member "m", an undeclared switch "x".                                     *)
EXTENDS FabricRun, TLC

LinkRootChild == <<[label |-> "w", a |-> 1, b |-> 2]>>
LinkTwo == <<[label |-> "w", a |-> 2, b |-> 3], [label |-> "r", a |-> 1, b |-> 1]>>
DomainOne == <<[label |-> "s", uplink |-> 101, members |-> <<[home |-> 2, label |-> "m"]>>]>>
TwoChildren == <<2, 3>>

\* A dpni labelled n, plugged in h.
Resident(b, d, h, n) == PluggedIn(Stamped(Minted(b, d, h), d, n), d)
\* A plugged root switch labelled n, wired to the endpoints given.
Switched(b, s, n, up, d) ==
  Joined(Joined(Resident(b, s, Root, n), If(s, 0), up), If(s, 1), d)

Clean == NoBoard
\* A flat network: the member dpni faces the uplink itself.
Flat == Joined(Resident(NoBoard, 11, 2, "m"), 11, 101)
\* A foreign root dpni on the uplink, an unlabelled switch on another dpmac.
Foreign ==
  Joined(Joined(Resident(Minted(NoBoard, 12, Root), 21, Root, None), 12, 101), If(21, 0), 102)
\* The whole at work, and an undeclared switch.
Working ==
  Stamped(Minted(
    Joined(Resident(Resident(Switched(Resident(NoBoard, 11, 2, "m"), 21, "s", 101, 11),
                             12, Root, "w"), 13, 2, "w"), 12, 13),
    22, Root), 22, "x")
\* The link at work between the two children.
Linked == Joined(Resident(Resident(NoBoard, 11, 2, "w"), 12, 3, "w"), 11, 12)

Site(l, o, n, b) == [board |-> b, links |-> l, options |-> o, faults |-> n]
Whatever == [allow : {0, 2}, prune : BOOLEAN, policy : {"rollback", "abort"}]
Consent == [allow : {2}, prune : {TRUE}, policy : {"abort"}]

\* A root-child link under every option with one fault, two links with consent and
\* two faults.
AllSites ==
  {Site(LinkRootChild, Whatever, 1, b) : b \in {Clean, Flat, Foreign, Working}}
    \cup {Site(LinkTwo, Consent, 2, b) : b \in {Linked, Flat}}
AllIntents == {LinkRootChild, LinkTwo}
=============================================================================
