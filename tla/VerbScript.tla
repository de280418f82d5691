----------------------------- MODULE VerbScript -----------------------------
(***************************************************************************)
(* What a control verb of the restool adapter asks of the Management       *)
(* Complex (restool.rs, impl McControl): the restool processes it spawns,  *)
(* in order, and what each does to the object the verb is about.           *)
(***************************************************************************)
EXTENDS Naturals, Sequences, FiniteSets

CONSTANTS
  Objects,     \* dpnis, containers and switches the MC can hand out
  Companions,  \* dpmcps, dpbps, dpcons, dpios and dpsecis
  NoObj        \* no object yet, or none concerned

Ids == Objects \cup Companions

ASSUME ScriptAssumption ==
  /\ IsFiniteSet(Objects) /\ IsFiniteSet(Companions)
  /\ Objects \cap Companions = {} /\ NoObj \notin Ids

-----------------------------------------------------------------------------
(* The spawns of each verb.  A create is stamped before it is plugged,     *)
(* except a companion's; a disconnect alone is not followed by a sync; the *)
(* destroy of a dpseci or a dpsw reads the container again.                *)

PlugFirst == <<"create", "plug", "stamp">>
Unverified == <<"remove", "sync">>

CreateDpni == <<"create", "stamp">>
CreateDpniIn == <<"create", "stamp", "plug">>
CreateDpswIn == <<"create", "stamp">>
CreateAndPlug == <<"createCompanion", "plug", "stamp">>
DprcCreate == <<"createNamed">>
Connect == <<"plug", "wire", "sync">>
DprcConnect == <<"wire", "sync">>
DprcDisconnect == <<"sever">>
SetMac == <<"update", "sync">>
SetLabel == <<"stamp", "sync">>
DprcAssign == <<"move">>
Destroy == <<"remove", "sync">>
DestroyDpsw == <<"remove", "sync", "show">>
ReadPortal == <<"session">>

Script ==
  [create_dpni |-> CreateDpni, create_dpni_in |-> CreateDpniIn,
   create_dpsw_in |-> CreateDpswIn, create_and_plug |-> CreateAndPlug,
   dprc_create |-> DprcCreate, connect |-> Connect, dprc_connect |-> DprcConnect,
   dprc_disconnect |-> DprcDisconnect, set_mac |-> SetMac, set_label |-> SetLabel,
   dprc_assign |-> DprcAssign, destroy |-> Destroy, destroy_dpsw |-> DestroyDpsw,
   read_portal |-> ReadPortal]

Verbs == DOMAIN Script

\* The ids a create picks from.
Fresh(op, b) ==
  (IF op = "createCompanion" THEN Companions
   ELSE IF op \in {"create", "createNamed"} THEN Objects ELSE {}) \ b.live
Mints == {"create", "createNamed", "createCompanion"}
Creates == {v \in Verbs : Head(Script[v]) \in Mints}

-----------------------------------------------------------------------------
(* The Management Complex, as far as one object goes. *)

Boards ==
  [live : SUBSET Ids, plugged : SUBSET Ids, wired : SUBSET Ids,
   label : [Ids -> {"none", "ours", "foreign"}]]

Minted(b, o, name) == [b EXCEPT !.live = @ \cup {o}, !.label[o] = name]
Removed(b, o) ==
  [b EXCEPT !.live = @ \ {o}, !.plugged = @ \ {o}, !.wired = @ \ {o}, !.label[o] = "none"]

\* What the MC answers with a status, executing nothing; a driver may hold a
\* plugged object.
Refusable(op, b, o) ==
  \/ op \in Mints /\ Fresh(op, b) = {}
  \/ op \in {"stamp", "plug", "update", "move", "remove"} /\ o \notin b.live
  \/ op = "remove" /\ o \in b.plugged
  \/ op = "wire" /\ (o \notin b.live \/ o \in b.wired)
  \/ op = "sever" /\ o \notin b.wired
MustRefuse(op, b, o) == Refusable(op, b, o) /\ ~(op = "remove" /\ o \in b.live)

\* restool itself refuses to move a plugged object, before any command.
Guarded(op, b, o) == op = "move" /\ o \in b.plugged

\* The board and the object after a spawn the MC executed; a destroy in a
\* child may report success and leave the object standing.
Executed(op, b, o) ==
  CASE op \in Mints ->
         {<<Minted(b, n, IF op = "createNamed" THEN "ours" ELSE "none"), n>> : n \in Fresh(op, b)}
    [] op = "stamp" -> {<<[b EXCEPT !.label[o] = "ours"], o>>}
    [] op = "plug" -> {<<[b EXCEPT !.plugged = @ \cup {o}], o>>}
    [] op = "wire" -> {<<[b EXCEPT !.wired = @ \cup {o}], o>>}
    [] op = "sever" -> {<<[b EXCEPT !.wired = @ \ {o}], o>>}
    [] op = "remove" -> {<<Removed(b, o), o>>, <<b, o>>}
    [] OTHER -> {<<b, o>>}

\* Another restool, an operator's, does one of these while it has the portal.
Meddled(b) ==
  {b} \cup {Minted(b, o, "foreign") : o \in Ids \ b.live}
      \cup {Removed(b, o) : o \in b.live \ b.plugged}
=============================================================================
