---------------------------- MODULE TenancyBoard ----------------------------
(***************************************************************************)
(* The board below the container phases: the child DPRCs of the root, the  *)
(* objects created in them, the edges from their dpnis to the root dpmacs, *)
(* and the sysfs view of each child DPRC.  It is the Management Complex    *)
(* and the kernel as the adapters (dpaa2-mc) use and document them.        *)
(***************************************************************************)
EXTENDS Naturals, FiniteSets

CONSTANTS
  Dprcs,    \* ids the MC can give a child DPRC
  Dpnis,    \* ids of dpnis created in children
  Pool,     \* the other residents: pool companions, one family standing for all
  Names,    \* construct names: of tenants, of their ports, of undeclared things
  Peers,    \* the root dpmacs child dpnis are wired to
  None

Objs == Dpnis \cup Pool

ASSUME BoardAssumption ==
  /\ Dprcs \subseteq Nat /\ Dpnis \subseteq Nat
  /\ Pool \subseteq Nat
  /\ IsFiniteSet(Dprcs) /\ IsFiniteSet(Dpnis) /\ IsFiniteSet(Pool)
  /\ Dpnis \cap Pool = {} /\ Dprcs \cap (Dpnis \cup Pool) = {}
  /\ None \notin Dprcs /\ None \notin Objs /\ None \notin Names /\ None \notin Peers

Drivers == {"none", "vfio", "kernel"}

Boards ==
  [live    : SUBSET Dprcs,
   name    : [Dprcs -> Names \cup {None}],    \* the MC label of the container
   driver  : [Dprcs -> Drivers],              \* the sysfs driver link
   over    : [Dprcs -> Drivers],              \* driver_override
   locked  : SUBSET Dprcs,
   scanned : SUBSET Dprcs,                    \* registered on the fsl-mc bus
   home    : [Objs -> Dprcs \cup {None}],     \* the container an object lives in
   tag     : [Objs -> Names \cup {None}],     \* the MC label of the object
   plugged : SUBSET Objs,
   edge    : [Dpnis -> Peers \cup {None}],
   drawn   : SUBSET Pool,                     \* companions a consumer holds
   hidden  : SUBSET Objs]                     \* joined a bound container since its
                                              \* bind: invisible until the next one

NoBoard ==
  [live |-> {}, name |-> [c \in Dprcs |-> None], driver |-> [c \in Dprcs |-> "none"],
   over |-> [c \in Dprcs |-> "none"], locked |-> {}, scanned |-> {},
   home |-> [o \in Objs |-> None], tag |-> [o \in Objs |-> None], plugged |-> {},
   edge |-> [d \in Dpnis |-> None], drawn |-> {}, hidden |-> {}]

\* What stands in no container is nothing to the MC, and an id that is not live
\* has neither label nor driver.
Consistent(b) ==
  /\ b.locked \subseteq b.live /\ b.scanned \subseteq b.live
  /\ \A c \in Dprcs \ b.live : b.name[c] = None /\ b.driver[c] = "none"
  /\ \A o \in Objs : b.home[o] \in b.live \/ (b.home[o] = None /\ b.tag[o] = None)
  /\ \A o \in b.plugged \cup b.hidden : b.home[o] # None
  /\ \A d \in Dpnis : b.edge[d] # None => b.home[d] # None

Residents(b, c) == {o \in Objs : b.home[o] = c}
\* Ids are handed out again, the lowest first.
NextId(S) == CHOOSE i \in S : \A j \in S : i <= j
FreeIds(b, kind) == {o \in kind : b.home[o] = None}
Wired(b, p) == \E d \in Dpnis : b.edge[d] = p

-----------------------------------------------------------------------------
(* MC commands, through restool. *)

Spawned(b, c, n) == [b EXCEPT !.live = @ \cup {c}, !.name[c] = n]

Minted(b, o, c) ==
  [b EXCEPT !.home[o] = c,
            !.hidden = IF b.driver[c] = "vfio" THEN @ \cup {o} ELSE @]

Stamped(b, o, n) == [b EXCEPT !.tag[o] = n]
PluggedIn(b, o) == [b EXCEPT !.plugged = @ \cup {o}]

\* An unplug is refused while a consumer draws the object (0x10).
CanUnplug(b, o) == o \notin b.drawn /\ b.home[o] \notin b.locked
Unplugged(b, o) == [b EXCEPT !.plugged = @ \ {o}]

\* Both endpoints must be unconnected (DPRC-I5, DPNI-I9).
CanConnect(b, d, p) == b.edge[d] = None /\ ~Wired(b, p)
Joined(b, d, p) == [b EXCEPT !.edge[d] = p]
Severed(b, d) == [b EXCEPT !.edge[d] = None]

Gone(b, S) ==
  [b EXCEPT !.home = [o \in Objs |-> IF o \in S THEN None ELSE @[o]],
            !.tag = [o \in Objs |-> IF o \in S THEN None ELSE @[o]],
            !.edge = [d \in Dpnis |-> IF d \in S THEN None ELSE @[d]],
            !.plugged = @ \ S, !.drawn = @ \ S, !.hidden = @ \ S]

\* A plugged resident refuses the destroy (0x10), a lock strips it (0x4).
CanDestroy(b, c) == Residents(b, c) \cap b.plugged = {} /\ c \notin b.locked

Removed(b, c) ==
  [Gone(b, Residents(b, c)) EXCEPT
     !.live = @ \ {c}, !.name[c] = None, !.driver[c] = "none", !.over[c] = "none",
     !.locked = @ \ {c}, !.scanned = @ \ {c}]

-----------------------------------------------------------------------------
(* The fsl-mc bus, through sysfs. *)

Overridden(b, c, drv) == [b EXCEPT !.over[c] = drv]

\* A child DPRC is never plugged, so only its driver_override matches it.
CanBind(b, c, drv) == c \in b.scanned /\ b.over[c] = drv /\ b.driver[c] = "none"

\* Binding scans the container: every resident becomes visible.
Bound(b, c, drv) ==
  [b EXCEPT !.driver[c] = drv, !.hidden = @ \ Residents(b, c)]

\* The consumer lets go of what it drew.
Unbound(b, c) ==
  [b EXCEPT !.driver[c] = "none", !.drawn = @ \ Residents(b, c),
            !.hidden = @ \ Residents(b, c)]
=============================================================================
