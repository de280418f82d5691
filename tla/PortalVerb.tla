----------------------------- MODULE PortalVerb -----------------------------
(***************************************************************************)
(* A control verb over the portal of the root container: RestoolMc's       *)
(* run_verb (restool.rs) and the session of the privileged read.  The      *)
(* kernel lets one process open /dev/dprc.1, so another restool in the     *)
(* middle of a converge makes the spawn fail at open(), before any         *)
(* command: that failure alone is tried again, at once and up to a bound.  *)
(* Every other failure is answered as it is, since the command may have    *)
(* reached the MC.                                                         *)
(***************************************************************************)
EXTENDS VerbScript

CONSTANTS
  Shells,    \* other processes that open the portal
  Attempts   \* PORTAL_OPEN_ATTEMPTS

Nobody == "nobody"
Tool == "tool"

ASSUME PortalAssumption == Attempts \in Nat \ {0} /\ Nobody \notin Shells /\ Tool \notin Shells

VARIABLES
  mc,        \* the board
  holder,    \* who has the portal open
  verb,      \* the verb in hand
  left,      \* its spawns not yet answered
  target,    \* the object it is about
  phase,     \* of the spawn: "spawn", "open" (it has the portal), "exit"
  attempt,   \* run_verb's counter
  reply,     \* how the process ended
  answer,    \* what the caller got, "none" while a verb is in hand
  executed,  \* the MC executed this process's command
  collided,  \* history: open() failures of the spawn under way
  vanished   \* history: the object in hand has been absent from the board

vars == <<mc, holder, verb, left, target, phase, attempt, reply, answer, executed,
          collided, vanished>>

Init ==
  /\ mc = [live |-> {}, plugged |-> {}, wired |-> {}, label |-> [o \in Ids |-> "none"]]
  /\ holder = Nobody /\ verb = "none" /\ left = <<>> /\ target = NoObj
  /\ phase = "spawn" /\ attempt = 0 /\ reply = "none" /\ answer = "ok"
  /\ executed = FALSE /\ collided = 0 /\ vanished = FALSE

\* A fresh spawn: run_verb starts its loop.
Respawn ==
  /\ phase' = "spawn" /\ attempt' = 0 /\ reply' = "none"
  /\ executed' = FALSE /\ collided' = 0

\* The engine issues a verb about an object it made or found under its name;
\* a teardown may name what has gone since.
Subjects(v) ==
  CASE v \in Creates -> {NoObj}
    [] v \in {"destroy", "destroy_dpsw"} -> Ids
    [] OTHER -> {o \in Ids : mc.label[o] = "ours"}

Issue(v) ==
  /\ answer # "none"
  /\ verb' = v /\ left' = Script[v] /\ target' \in Subjects(v)
  /\ answer' = "none" /\ vanished' = FALSE /\ Respawn
  /\ UNCHANGED <<mc, holder>>

Op == Head(left)
Busy == answer = "none"

-----------------------------------------------------------------------------
(* One spawn. *)

Exits(how) == phase' = "exit" /\ reply' = how

Opened ==
  /\ Busy /\ phase = "spawn" /\ holder = Nobody
  /\ holder' = Tool /\ phase' = "open" /\ attempt' = attempt + 1
  /\ UNCHANGED <<mc, verb, left, target, reply, answer, executed, collided, vanished>>

\* Somebody else has it: open() fails and nothing is sent.
OpenRefused ==
  /\ Busy /\ phase = "spawn" /\ holder # Nobody
  /\ attempt' = attempt + 1 /\ collided' = collided + 1 /\ Exits("openFailed")
  /\ UNCHANGED <<mc, holder, verb, left, target, answer, executed, vanished>>

Executes ==
  /\ Busy /\ phase = "open" /\ ~executed
  /\ ~Guarded(Op, mc, target) /\ ~MustRefuse(Op, mc, target)
  /\ \E r \in Executed(Op, mc, target) : mc' = r[1] /\ target' = r[2]
  /\ executed' = TRUE /\ vanished' = (vanished \/ target' \notin mc'.live)
  /\ UNCHANGED <<holder, verb, left, phase, attempt, reply, answer, collided>>

\* destroy_dpseci and destroy_dpsw look for the object in the rows they read.
Survived == Op = "show" /\ target \in mc.live

\* The process ends and the kernel closes its portal: with what the MC made
\* of the command, at restool's own check, or by a signal, before or after
\* the command.  A create's echo may be unreadable.
Exit(how) ==
  /\ Busy /\ phase = "open"
  /\ CASE how = "ok" -> executed /\ ~Survived
       [] how = "present" -> executed /\ Survived
       [] how = "mute" -> executed /\ Op \in Mints
       [] how = "status" -> ~executed /\ ~Guarded(Op, mc, target) /\ Refusable(Op, mc, target)
       [] how = "guard" -> ~executed /\ Guarded(Op, mc, target)
       [] how = "signal" -> TRUE
  /\ holder' = Nobody /\ Exits(how)
  /\ UNCHANGED <<mc, verb, left, target, attempt, answer, executed, collided, vanished>>

-----------------------------------------------------------------------------
(* run_verb's classification of the exit. *)

Answer(how) ==
  /\ answer' = how /\ vanished' = FALSE
  /\ verb' = "none" /\ left' = <<>> /\ target' = NoObj /\ Respawn
  /\ UNCHANGED <<mc, holder>>

Exited(how) == Busy /\ phase = "exit" /\ reply = how

NextSpawn ==
  /\ Exited("ok") /\ Len(left) > 1
  /\ left' = Tail(left) /\ Respawn
  /\ UNCHANGED <<mc, holder, verb, target, answer, vanished>>

Done == Exited("ok") /\ Len(left) = 1 /\ Answer("ok")
StillThere == Exited("present") /\ Answer("backend")
Unparsed == Exited("mute") /\ Answer("parse")
Refused == Exited("status") /\ Answer("mcStatus")
GuardRefused == Exited("guard") /\ Answer("guard")
Died == Exited("signal") /\ Answer("backend")

\* The privileged read opens the portal itself and does not come back.
Retried == Op # "session"

Respun ==
  /\ phase' = "spawn" /\ reply' = "none" /\ executed' = FALSE
  /\ UNCHANGED <<mc, holder, verb, left, target, attempt, answer, collided, vanished>>

AgainAfterDeath ==
  (Exited("openFailed") \/ Exited("signal")) /\ Retried /\ attempt < Attempts /\ Respun
Again == Exited("openFailed") /\ Retried /\ attempt < Attempts /\ Respun

\* Not the code: the bound is passed before it is noticed.
GiveUpLate == Exited("openFailed") /\ Retried /\ attempt > Attempts /\ Answer("portalBusy")
GiveUp == Exited("openFailed") /\ Retried /\ attempt >= Attempts /\ Answer("portalBusy")
SessionRefused == Exited("openFailed") /\ ~Retried /\ Answer("backend")

-----------------------------------------------------------------------------
(* The others. *)

ShellOpens(s) ==
  /\ holder = Nobody /\ holder' = s
  /\ UNCHANGED <<mc, verb, left, target, phase, attempt, reply, answer, executed,
                 collided, vanished>>

ShellExits(s) ==
  /\ holder = s /\ holder' = Nobody
  /\ mc' \in Meddled(mc) /\ vanished' = (vanished \/ target \notin mc'.live)
  /\ UNCHANGED <<verb, left, target, phase, attempt, reply, answer, executed, collided>>

Process ==
  \/ Opened \/ OpenRefused \/ Executes
  \/ \E how \in {"ok", "present", "mute", "status", "guard", "signal"} : Exit(how)
  \/ NextSpawn \/ Done \/ StillThere \/ Unparsed \/ Refused \/ GuardRefused \/ Died
  \/ Again \/ GiveUp \/ SessionRefused

Next ==
  \/ \E v \in Verbs : Issue(v)
  \/ Process
  \/ \E s \in Shells : ShellOpens(s) \/ ShellExits(s)

\* A process that was started runs to its end; nothing is asked of the others.
Spec == Init /\ [][Next]_vars /\ WF_vars(Process)

-----------------------------------------------------------------------------
TypeOK ==
  /\ mc \in Boards /\ mc.plugged \subseteq mc.live /\ mc.wired \subseteq mc.live
  /\ holder \in Shells \cup {Nobody, Tool}
  /\ verb \in Verbs \cup {"none"} /\ target \in Ids \cup {NoObj}
  /\ phase \in {"spawn", "open", "exit"} /\ (phase = "open" <=> holder = Tool)
  /\ attempt \in 0 .. Attempts /\ collided \in 0 .. Attempts
  /\ executed \in BOOLEAN /\ vanished \in BOOLEAN

\* Whatever collides, dies or is tried again, a verb is what its caller takes
\* it for: its commands reach the MC in order, each at most once, and an
\* error leaves a prefix of them on the board (restool.rs run_verb: "the
\* command never reached the MC, so there is no double-create hazard").
Life == INSTANCE VerbLife WITH
  left <- IF executed THEN Tail(left) ELSE left,
  answer <- IF answer \in {"none", "ok"} THEN answer ELSE "error"
ImplementsLife == Life!Spec

\* What the caller is told is what happened to the spawn it ended on: busy
\* only after the whole bound of attempts found the portal taken, busy, a
\* status or a guard only when nothing was executed, so that a clean-up may
\* rely on it (run_verb; signal death "is neither refusal").
AnswersHonest ==
  [][Busy /\ answer' # "none" =>
       /\ answer' = "portalBusy" => collided = Attempts
       /\ answer' \in {"portalBusy", "mcStatus", "guard"} => ~executed
       /\ answer' = "ok" => executed]_vars

\* A destroy that is answered ok did happen, although the MC may report the
\* success of a destroy it did not carry out (destroy_dpseci, destroy_dpsw).
DestroyVerified ==
  [][verb = "destroy_dpsw" /\ Busy /\ answer' = "ok" => vanished]_vars

\* Nobody who gets the portal between two spawns, or after a verb that broke
\* off, finds a dpni the kernel may probe without a name on it (create_dpni_in,
\* "stamp before plug"; connect plugs what a create has stamped).
PluggedNamed == \A o \in mc.plugged \cap Objects : mc.label[o] # "none"

\* A verb ends, were the portal held for ever by somebody else (run_verb: the
\* bound of attempts).
Answered == []<>(~Busy)

-----------------------------------------------------------------------------
\* What holds between any two spawns: the variables stay in their domains and no
\* dpni stands plugged without a name (restool.rs: each verb's script).
PortalInv == TypeOK /\ PluggedNamed

\* What the caller is told is so (restool.rs run_verb and the read-back of the
\* destroys).
AnswersTrue == AnswersHonest /\ DestroyVerified
=============================================================================
