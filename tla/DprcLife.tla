------------------------------ MODULE DprcLife ------------------------------
(***************************************************************************)
(* The lifecycle a child DPRC has, as the typestate of families/dprc.rs    *)
(* lays it down: which commands are available in which phase and what each *)
(* leaves behind.  It is the abstract specification of the container       *)
(* phases: TenancyRun shows that whatever a run issues, interrupted        *)
(* anywhere, takes every container through this lifecycle.                 *)
(***************************************************************************)
CONSTANTS Dprcs, Objs

VARIABLES
  phase,     \* of each container; a locked one keeps its phase
  locked,
  members,   \* residents of each container
  up         \* residents that are plugged

lifeVars == <<phase, locked, members, up>>

Phases == {"absent", "created", "populated", "bound"}

LifeTypeOK ==
  /\ phase \in [Dprcs -> Phases] /\ locked \subseteq Dprcs
  /\ members \in [Dprcs -> SUBSET Objs] /\ up \subseteq Objs

\* Created holds no resident, Populated some; a bind does not change which.
Settled(c) == phase[c] \in {"created", "populated"}
Unplugged(c) == members[c] \cap up = {}
Occupied(c, S) == [phase EXCEPT ![c] = IF @ = "bound" THEN @
                                       ELSE IF S = {} THEN "created" ELSE "populated"]

LifeInit == LifeTypeOK /\ \A c \in Dprcs : phase[c] = "created" <=> Settled(c) /\ members[c] = {}

\* Container<Declared>::create: always empty.
Create(c) ==
  /\ phase[c] = "absent" /\ members[c] = {}
  /\ phase' = [phase EXCEPT ![c] = "created"]
  /\ UNCHANGED <<locked, members, up>>

\* create_resident, or create_resident_deferred in a bound container; a locked
\* one refuses both.  A create may plug what it made before anyone looks.
CreateResident(c, o) ==
  /\ phase[c] # "absent" /\ c \notin locked
  /\ \A d \in Dprcs : o \notin members[d]
  /\ members' = [members EXCEPT ![c] = @ \cup {o}]
  /\ phase' = Occupied(c, {o})
  /\ up' \in {up, up \cup {o}}
  /\ UNCHANGED locked

\* plug_resident, unplug_resident: an unlocked holder only.
SetPlugged(c, o) ==
  /\ o \in members[c]
  /\ \/ up' = up \cup {o}
     \/ up' = up \ {o} /\ c \notin locked
  /\ UNCHANGED <<phase, locked, members>>

\* A resident destroyed by its own family's verb leaves its container, which a
\* lock refuses too.
Withdraw(c, S) ==
  /\ S \subseteq members[c] /\ c \notin locked
  /\ members' = [members EXCEPT ![c] = @ \ S]
  /\ phase' = Occupied(c, members[c] \ S)
  /\ up' = up \ S
  /\ UNCHANGED locked

\* bind_vfio, unbind_vfio: only a populated container is handed over.
BindVfio(c) ==
  /\ phase[c] = "populated"
  /\ phase' = [phase EXCEPT ![c] = "bound"]
  /\ UNCHANGED <<locked, members, up>>

UnbindVfio(c) ==
  /\ phase[c] = "bound"
  /\ phase' = [phase EXCEPT ![c] = IF members[c] = {} THEN "created" ELSE "populated"]
  /\ UNCHANGED <<locked, members, up>>

Lock(c) ==
  /\ phase[c] # "absent"
  /\ locked' = locked \cup {c}
  /\ UNCHANGED <<phase, members, up>>

Unlock(c) == locked' = locked \ {c} /\ UNCHANGED <<phase, members, up>>

\* destroy: neither locked, nor bound, nor holding a plugged resident; the
\* residents created in it go with it.
Destroy(c) ==
  /\ Settled(c) /\ c \notin locked /\ Unplugged(c)
  /\ phase' = [phase EXCEPT ![c] = "absent"]
  /\ members' = [members EXCEPT ![c] = {}]
  /\ UNCHANGED <<locked, up>>

LifeNext ==
  \E c \in Dprcs :
    \/ Create(c) \/ BindVfio(c) \/ UnbindVfio(c) \/ Destroy(c)
    \/ Lock(c) \/ Unlock(c)
    \/ \E o \in Objs : CreateResident(c, o) \/ SetPlugged(c, o)
    \/ \E S \in SUBSET members[c] : Withdraw(c, S)

LifeSpec == LifeInit /\ [][LifeNext]_lifeVars
=============================================================================
