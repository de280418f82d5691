------------------------------ MODULE PortBoard ------------------------------
(***************************************************************************)
(* The board below the port loop: the dpni objects of the root container,  *)
(* the edges that wire them to dpmacs, and which kernel driver holds which *)
(* port.  None of it is code of this repository: it is the Management      *)
(* Complex and the kernel as the adapters (dpaa2-mc) use and document      *)
(* them.  A board is one record; every operator maps a board to a board.   *)
(***************************************************************************)
EXTENDS Naturals

CONSTANTS
  Dpmacs,     \* ordinals of the dpmacs of the board; each is also the name
              \* (and so the MC label) of the port construct anchored there
  Phy,        \* those with a PHY-typed link: a bound dpni yields a netdev
  Dpnis,      \* the dpni ids the MC can hand out, ids being reused
  None        \* no peer, no label, no dpni

ASSUME BoardAssumption ==
  /\ Dpmacs \subseteq Nat \ {0}
  /\ Phy \subseteq Dpmacs
  /\ None \notin Dpmacs
  /\ None \notin Dpnis

\* What the typed cfg read-back says against the block the intent compiled:
\* "opaque" is the read-back the shim could not map.
CfgReads == {"match", "drift", "opaque"}

\* The primary MAC read back: unset, the declared one, or any other.
MacReads == {"zero", "want", "other"}

Boards ==
  [live    : SUBSET Dpnis,                    \* objects that exist
   peer    : [Dpnis -> Dpmacs \cup {None}],   \* the dpni-dpmac edge
   label   : [Dpnis -> Dpmacs \cup {None}],
   cfg     : [Dpnis -> CfgReads],
   mac     : [Dpnis -> MacReads],
   plugged : SUBSET Dpnis,
   bound   : SUBSET Dpnis,                    \* held by fsl_dpaa2_eth
   nudged  : SUBSET Dpnis,                    \* a probe of the driver is due
   macdrv  : SUBSET Phy,                      \* dpmacs the standalone driver holds
   held    : SUBSET Dpmacs]                   \* dpmacs wired to another family

\* Clean boot: no dpni, every wired port under its standalone driver.
BootBoard ==
  [live |-> {}, peer |-> [d \in Dpnis |-> None], label |-> [d \in Dpnis |-> None],
   cfg |-> [d \in Dpnis |-> "opaque"], mac |-> [d \in Dpnis |-> "zero"],
   plugged |-> {}, bound |-> {}, nudged |-> {}, macdrv |-> Phy, held |-> {}]

Wired(b, p) == p \in b.held \/ \E d \in b.live : b.peer[d] = p

\* A wired port is driven while the standalone MAC driver or the netdev of
\* its own dpni holds it (ADR-0008 section 8).
Driven(b, p) == p \in b.macdrv \/ \E d \in b.bound : b.peer[d] = p

Minted(b, d, read) ==
  [b EXCEPT !.live = @ \cup {d}, !.cfg[d] = read]

Stamped(b, d, name) == [b EXCEPT !.label[d] = name]

\* Plugging raises the bus event that makes the kernel probe the object.
PluggedIn(b, d) == [b EXCEPT !.plugged = @ \cup {d}, !.nudged = @ \cup {d}]

\* Connecting a dpni its driver already holds runs the endpoint-changed path:
\* the ethernet driver takes the MAC away from the standalone driver.
Joined(b, d, p) ==
  [b EXCEPT !.peer[d] = p,
            !.macdrv = IF d \in b.bound THEN @ \ {p} ELSE @]

\* Severing under a bound driver re-attaches the standalone driver at once.
Severed(b, d) ==
  [b EXCEPT !.peer[d] = None,
            !.macdrv = IF d \in b.bound THEN @ \cup ({b.peer[d]} \cap Phy) ELSE @]

\* Unbinding asks for the same re-attach, but while the edge stands the
\* standalone probe defers and nothing runs it again.
Unbound(b, d) == [b EXCEPT !.bound = @ \ {d}, !.nudged = @ \ {d}]

Nudged(b, d) == [b EXCEPT !.nudged = @ \cup {d}]

Addressed(b, d) == [b EXCEPT !.mac[d] = "want"]

Destroyed(b, d) ==
  [b EXCEPT !.live = @ \ {d}, !.peer[d] = None, !.label[d] = None,
            !.cfg[d] = "opaque", !.mac[d] = "zero",
            !.plugged = @ \ {d}, !.nudged = @ \ {d}]

\* fsl_dpaa2_eth takes the dpni: it claims the MAC of a connected PHY port
\* and gives an unset dpni an address.  A fixed-link port yields no netdev.
CanProbe(b, d) ==
  /\ d \in b.live \cap b.plugged \cap b.nudged
  /\ d \notin b.bound
  /\ b.peer[d] \in Phy \cup {None}

Probed(b, d) ==
  [b EXCEPT !.bound = @ \cup {d}, !.nudged = @ \ {d},
            !.macdrv = @ \ {b.peer[d]},
            !.mac[d] = IF @ = "zero" THEN "other" ELSE @]
=============================================================================
