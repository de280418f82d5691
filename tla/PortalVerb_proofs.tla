-------------------------- MODULE PortalVerb_proofs --------------------------
(***************************************************************************)
(* Theorems of a control verb over the portal, for any objects, any other  *)
(* processes and any bound of attempts.                                    *)
(***************************************************************************)
EXTENDS PortalVerb, SequenceTheorems, TLAPS

-----------------------------------------------------------------------------
(* The scripts. *)

Ops == {"create", "createNamed", "createCompanion", "stamp", "plug", "wire", "sync",
        "sever", "update", "move", "remove", "show", "session"}

\* A script is one, two or three operations.
LEMMA ShortSeq ==
  /\ \A x \in Ops : <<x>> \in Seq(Ops) /\ Len(<<x>>) = 1
  /\ \A x, y \in Ops : <<x, y>> \in Seq(Ops) /\ Len(<<x, y>>) = 2
  /\ \A x, y, z \in Ops : <<x, y, z>> \in Seq(Ops) /\ Len(<<x, y, z>>) = 3
  OBVIOUS

LEMMA ScriptFacts ==
  ASSUME NEW v \in Verbs
  PROVE  /\ Script[v] \in Seq(Ops) /\ Len(Script[v]) \in 1 .. 3
         /\ \A i \in 1 .. Len(Script[v]) : Script[v][i] = "plug" =>
              \/ v = "create_dpni_in" /\ i = 3
              \/ v = "create_and_plug" /\ i = 2
              \/ v = "connect" /\ i = 1
         /\ v = "create_and_plug" => Script[v][1] = "createCompanion"
         /\ \A i \in 1 .. Len(Script[v]) : Script[v][i] \in Mints => i = 1
         /\ v = "destroy_dpsw" => Script[v][Len(Script[v])] = "show"
  <1>1. CASE v = "create_dpni"
    BY <1>1, ShortSeq DEF Script, CreateDpni, Ops, Mints
  <1>2. CASE v = "create_dpni_in"
    BY <1>2, ShortSeq DEF Script, CreateDpniIn, Ops, Mints
  <1>3. CASE v = "create_dpsw_in"
    BY <1>3, ShortSeq DEF Script, CreateDpswIn, Ops, Mints
  <1>4. CASE v = "create_and_plug"
    BY <1>4, ShortSeq DEF Script, CreateAndPlug, Ops, Mints
  <1>5. CASE v = "dprc_create"
    BY <1>5, ShortSeq DEF Script, DprcCreate, Ops, Mints
  <1>6. CASE v = "connect"
    BY <1>6, ShortSeq DEF Script, Connect, Ops, Mints
  <1>7. CASE v = "dprc_connect"
    BY <1>7, ShortSeq DEF Script, DprcConnect, Ops, Mints
  <1>8. CASE v = "dprc_disconnect"
    BY <1>8, ShortSeq DEF Script, DprcDisconnect, Ops, Mints
  <1>9. CASE v = "set_mac"
    BY <1>9, ShortSeq DEF Script, SetMac, Ops, Mints
  <1>10. CASE v = "set_label"
    BY <1>10, ShortSeq DEF Script, SetLabel, Ops, Mints
  <1>11. CASE v = "dprc_assign"
    BY <1>11, ShortSeq DEF Script, DprcAssign, Ops, Mints
  <1>12. CASE v = "destroy"
    BY <1>12, ShortSeq DEF Script, Destroy, Ops, Mints
  <1>13. CASE v = "destroy_dpsw"
    BY <1>13, ShortSeq DEF Script, DestroyDpsw, Ops, Mints
  <1>14. CASE v = "read_portal"
    BY <1>14, ShortSeq DEF Script, ReadPortal, Ops, Mints
  <1> QED BY <1>1, <1>2, <1>3, <1>4, <1>5, <1>6, <1>7, <1>8, <1>9, <1>10, <1>11, <1>12, <1>13, <1>14 DEF Verbs, Script

-----------------------------------------------------------------------------
(* The board. *)

WellFormed == {b \in Boards : b.plugged \subseteq b.live /\ b.wired \subseteq b.live}
Named(b) == \A o \in b.plugged \cap Objects : b.label[o] # "none"

\* The object minted is new, and the one removed leaves nothing behind.
LEMMA MintedFacts ==
  ASSUME NEW b \in WellFormed, NEW n \in Ids \ b.live, NEW name \in {"none", "ours", "foreign"}
  PROVE  /\ Minted(b, n, name) \in WellFormed
         /\ Named(b) => Named(Minted(b, n, name))
         /\ Minted(b, n, name).live = b.live \cup {n}
         /\ \A x \in Ids : Minted(b, n, name).label[x] = IF x = n THEN name ELSE b.label[x]
  <1> DEFINE c == Minted(b, n, name)
  <1>1. /\ c.live = b.live \cup {n} /\ c.plugged = b.plugged /\ c.wired = b.wired
        /\ c.label = [b.label EXCEPT ![n] = name]
    BY DEF Minted, WellFormed, Boards
  <1>2. b.label \in [Ids -> {"none", "ours", "foreign"}] /\ b.live \subseteq Ids
    BY DEF WellFormed, Boards
  <1>3. c \in WellFormed
    <2>1. c \in Boards
      BY DEF Minted, WellFormed, Boards
    <2> QED BY <1>1, <2>1 DEF WellFormed
  <1>4. Named(b) => Named(c)
    BY <1>1, <1>2 DEF WellFormed, Named, Ids
  <1> QED BY <1>1, <1>2, <1>3, <1>4

LEMMA RemovedFacts ==
  ASSUME NEW b \in WellFormed, NEW o \in b.live
  PROVE  /\ Removed(b, o) \in WellFormed
         /\ Named(b) => Named(Removed(b, o))
         /\ Removed(b, o).live = b.live \ {o}
         /\ \A x \in Ids \ {o} : Removed(b, o).label[x] = b.label[x]
  <1> DEFINE c == Removed(b, o)
  <1>1. /\ c.live = b.live \ {o} /\ c.plugged = b.plugged \ {o} /\ c.wired = b.wired \ {o}
        /\ c.label = [b.label EXCEPT ![o] = "none"]
    BY DEF Removed, WellFormed, Boards
  <1>2. b.label \in [Ids -> {"none", "ours", "foreign"}] /\ b.live \subseteq Ids
    BY DEF WellFormed, Boards
  <1>3. c \in WellFormed
    <2>1. c \in Boards
      BY DEF Removed, WellFormed, Boards
    <2> QED BY <1>1, <2>1 DEF WellFormed
  <1>4. Named(b) => Named(c)
    BY <1>1, <1>2 DEF WellFormed, Named, Ids
  <1> QED BY <1>1, <1>2, <1>3, <1>4

\* What one executed command leaves: a board, and the object it was about or
\* has just minted; it names no object but with "stamp", and only "plug" puts
\* one at the kernel's disposal.
LEMMA ExecutedFacts ==
  ASSUME NEW b \in WellFormed, NEW op \in Ops, NEW o \in Ids \cup {NoObj},
         ~MustRefuse(op, b, o), NEW r \in Executed(op, b, o)
  PROVE  /\ r[1] \in WellFormed /\ r[2] \in Ids \cup {NoObj}
         /\ op \in Mints => r[2] \in Ids /\ (op = "createCompanion" => r[2] \in Companions)
         /\ op \notin Mints => r[2] = o
         /\ op = "stamp" => r[1].label[o] = "ours"
         /\ op \notin {"stamp", "remove"} =>
              \A x \in b.live : r[1].label[x] = b.label[x]
         /\ op \notin Mints => r[1].live \subseteq b.live
         /\ Named(b) /\ (op = "plug" /\ o \in Objects => b.label[o] # "none") => Named(r[1])
  <1> USE DEF Ops, Mints, Refusable, MustRefuse
  <1>0. b.live \subseteq Ids /\ b \in WellFormed
    BY DEF WellFormed, Boards
  <1>1. CASE op \in Mints
    <2>1. PICK n \in Fresh(op, b) :
            r = <<Minted(b, n, IF op = "createNamed" THEN "ours" ELSE "none"), n>>
      BY <1>1 DEF Executed
    <2>2. n \in Ids \ b.live /\ (op = "createCompanion" => n \in Companions)
      BY <1>1, <2>1 DEF Fresh, Ids
    <2>3. /\ r[2] = n /\ r[1] \in WellFormed /\ (Named(b) => Named(r[1]))
          /\ \A x \in b.live : r[1].label[x] = b.label[x]
      <3> DEFINE name == IF op = "createNamed" THEN "ours" ELSE "none"
      <3>1. name \in {"none", "ours", "foreign"}
        OBVIOUS
      <3> QED BY <1>0, <2>1, <2>2, <3>1, MintedFacts
    <2> QED BY <1>1, <2>2, <2>3 DEF Ids
  <1>2. CASE op = "stamp"
    BY <1>2 DEF Executed, WellFormed, Named, Boards
  <1>3. CASE op = "plug"
    BY <1>3 DEF Executed, WellFormed, Named, Boards
  <1>4. CASE op \in {"wire", "sever"}
    BY <1>4 DEF Executed, WellFormed, Named, Boards
  <1>5. CASE op = "remove"
    <2>1. o \in b.live /\ (r = <<Removed(b, o), o>> \/ r = <<b, o>>)
      BY <1>5 DEF Executed
    <2>2. r[2] = o /\ op \notin Mints /\ r[1] \in {b, Removed(b, o)}
      BY <1>5, <2>1
    <2>3. r[1] \in WellFormed /\ (Named(b) => Named(r[1])) /\ r[1].live \subseteq b.live
      BY <1>0, <2>1, <2>2, RemovedFacts
    <2> QED BY <1>5, <2>2, <2>3
  <1>6. CASE op \in {"sync", "update", "move", "show", "session"}
    BY <1>6 DEF Executed
  <1> QED BY <1>1, <1>2, <1>3, <1>4, <1>5, <1>6

\* What another tool does to the board names what it makes, and takes away no
\* plugged object.
LEMMA MeddledFacts ==
  ASSUME NEW b \in WellFormed, NEW c \in Meddled(b)
  PROVE  /\ c \in WellFormed
         /\ \A o \in c.live : c.label[o] = "foreign" \/ (o \in b.live /\ c.label[o] = b.label[o])
         /\ Named(b) => Named(c)
  <1>0. b.live \subseteq Ids
    BY DEF WellFormed, Boards
  <1>1. CASE c = b
    BY <1>1
  <1>2. ASSUME NEW o \in Ids \ b.live, c = Minted(b, o, "foreign")
        PROVE  /\ c \in WellFormed
               /\ \A x \in c.live : c.label[x] = "foreign" \/ (x \in b.live /\ c.label[x] = b.label[x])
               /\ Named(b) => Named(c)
    <2>1. "foreign" \in {"none", "ours", "foreign"}
      OBVIOUS
    <2> QED BY <1>0, <1>2, <2>1, MintedFacts
  <1>3. ASSUME NEW o \in b.live \ b.plugged, c = Removed(b, o)
        PROVE  /\ c \in WellFormed
               /\ \A x \in c.live : c.label[x] = "foreign" \/ (x \in b.live /\ c.label[x] = b.label[x])
               /\ Named(b) => Named(c)
    BY <1>0, <1>3, RemovedFacts
  <1> QED BY <1>1, <1>2, <1>3 DEF Meddled

-----------------------------------------------------------------------------
(* The inductive invariant. *)

Replies == {"openFailed", "ok", "present", "mute", "status", "guard", "signal"}

\* What is left of a verb is the end of its script; between verbs nothing is
\* under way.
Suffix ==
  IF Busy
    THEN /\ verb \in Verbs /\ left \in Seq(Ops) /\ Len(left) \in 1 .. Len(Script[verb])
         /\ \A i \in 1 .. Len(left) : left[i] = Script[verb][Len(Script[verb]) - Len(left) + i]
    ELSE phase = "spawn" /\ left = <<>> /\ ~executed

\* Every attempt that has not opened the portal found it taken, and a reply
\* tells whether the command was executed.
Counted ==
  /\ phase = "spawn" => ~executed /\ attempt < Attempts /\ collided = attempt
  /\ phase = "exit" => reply \in Replies
  /\ phase = "exit" /\ reply = "openFailed" => ~executed /\ collided = attempt
  /\ phase = "exit" /\ reply \in {"ok", "present", "mute"} => executed
  /\ phase = "exit" /\ reply \in {"status", "guard"} => ~executed

\* A dpni about to be plugged has its name, if it still stands.
Stamped ==
  /\ Busy /\ target \in Objects \cap mc.live =>
       /\ verb = "connect" => mc.label[target] # "none"
       /\ verb = "create_dpni_in" /\ Len(left) + (IF executed THEN 0 ELSE 1) <= 2 =>
            mc.label[target] # "none"
  /\ Busy /\ verb = "create_and_plug" => target \notin Objects

\* An object an executed command left out of sight has been absent.
Absent ==
  /\ executed /\ target \notin mc.live => vanished
  /\ phase = "exit" /\ reply = "ok" /\ Head(left) = "show" => vanished

IInv == TypeOK /\ Named(mc) /\ Suffix /\ Counted /\ Stamped /\ Absent


\* A verb begins, and an answer leaves nothing under way.
LEMMA IssueKeeps == ASSUME IInv, NEW v \in Verbs, Issue(v) PROVE IInv'
  <1> USE DEF IInv, TypeOK, Issue, Respawn, Busy, Nobody, Tool
  <1>1. Script[v] \in Seq(Ops) /\ Len(Script[v]) \in 1 .. 3
    BY ScriptFacts
  <1>2. /\ v \in Creates => target' = NoObj
        /\ v \notin Creates => target' \in Ids /\ (v = "connect" => mc.label[target'] = "ours")
    <2>1. v \in Creates => v \notin {"destroy", "destroy_dpsw", "connect"}
      BY ShortSeq DEF Creates, Script, Mints, Destroy, DestroyDpsw, Connect
    <2> QED BY <2>1 DEF Subjects
  <1>3. v \in {"create_dpni_in", "create_and_plug"} => v \in Creates
    BY DEF Creates, Script, Mints, CreateDpniIn, CreateAndPlug, Verbs
  <1>4. NoObj \notin Ids /\ Objects \subseteq Ids
    BY ScriptAssumption DEF Ids
  <1>5. TypeOK' /\ Named(mc)' /\ Counted' /\ Absent'
    <2>1. target' \in Ids \cup {NoObj}
      BY <1>2
    <2>2. TypeOK'
      <3>1. 0 \in 0 .. Attempts /\ phase = "spawn"
        BY PortalAssumption DEF Suffix
      <3>2. executed' \in BOOLEAN /\ vanished' \in BOOLEAN
        OBVIOUS
      <3> QED BY <2>1, <3>1, <3>2
    <2>3. Counted' /\ Absent'
      BY PortalAssumption DEF Counted, Absent
    <2> QED BY <2>2, <2>3 DEF Named
  <1>6. Suffix'
    <2>1. \A i \in 1 .. Len(Script[v]) : Len(Script[v]) - Len(Script[v]) + i = i
      BY <1>1
    <2>2. verb' = v /\ left' = Script[v] /\ Busy'
      OBVIOUS
    <2>3. \A i \in 1 .. Len(left') : left'[i] = Script[verb'][Len(Script[verb']) - Len(left') + i]
      BY <2>1, <2>2
    <2>4. Len(Script[v]) \in 1 .. Len(Script[v])
      <3>1. \A n \in 1 .. 3 : n \in 1 .. n
        OBVIOUS
      <3> QED BY <1>1, <3>1
    <2>5. verb' \in Verbs /\ left' \in Seq(Ops) /\ Len(left') \in 1 .. Len(Script[verb'])
      BY <1>1, <2>2, <2>4
    <2> QED BY <2>2, <2>3, <2>5 DEF Suffix
  <1>7. Stamped'
    BY <1>2, <1>3, <1>4 DEF Stamped
  <1> QED BY <1>5, <1>6, <1>7

LEMMA AnswerKeeps ==
  ASSUME IInv, Busy, phase = "exit",
         NEW how \in {"ok", "backend", "parse", "mcStatus", "guard", "portalBusy"}, Answer(how)
  PROVE  IInv'
  <1> USE DEF IInv, TypeOK, Answer, Respawn, Busy, Nobody, Tool
  <1>1. TypeOK'
    <2>1. 0 \in 0 .. Attempts
      BY PortalAssumption
    <2>2. executed' \in BOOLEAN /\ vanished' \in BOOLEAN
      OBVIOUS
    <2> QED BY <2>1, <2>2
  <1>2. Counted' /\ Suffix' /\ Stamped' /\ Absent'
    BY PortalAssumption DEF Counted, Suffix, Stamped, Absent
  <1> QED BY <1>1, <1>2 DEF Named


\* The command of a spawn is executed: what is left of the script names it.
LEMMA ExecutesKeeps == ASSUME IInv, Executes PROVE IInv'
  <1> USE DEF IInv, Executes
  <1>1. PICK r \in Executed(Op, mc, target) : mc' = r[1] /\ target' = r[2]
    OBVIOUS
  <1>2. /\ Busy /\ Busy' /\ phase = "open" /\ phase' = "open" /\ executed' /\ ~executed
        /\ verb' = verb /\ left' = left
    BY DEF Busy
  <1>3. /\ mc \in WellFormed /\ Op \in Ops /\ ~MustRefuse(Op, mc, target)
        /\ left \in Seq(Ops) /\ Len(left) \in 1 .. Len(Script[verb]) /\ verb \in Verbs
        /\ Op = Script[verb][Len(Script[verb]) - Len(left) + 1]
    BY <1>2 DEF Suffix, TypeOK, WellFormed, Op
  <1>4. /\ mc' \in WellFormed /\ target' \in Ids \cup {NoObj}
        /\ Op \in Mints => target' \in Ids /\ (Op = "createCompanion" => target' \in Companions)
        /\ Op \notin Mints => target' = target /\ mc'.live \subseteq mc.live
        /\ Op = "stamp" => mc'.label[target] = "ours"
        /\ Op \notin {"stamp", "remove"} => \A x \in mc.live : mc'.label[x] = mc.label[x]
        /\ Named(mc) /\ (Op = "plug" /\ target \in Objects => mc.label[target] # "none") => Named(mc')
    BY <1>1, <1>3, ExecutedFacts DEF TypeOK
  <1>5. /\ Script[verb] \in Seq(Ops) /\ Len(Script[verb]) \in 1 .. 3
        /\ \A i \in 1 .. Len(Script[verb]) : Script[verb][i] = "plug" =>
             \/ verb = "create_dpni_in" /\ i = 3
             \/ verb = "create_and_plug" /\ i = 2
             \/ verb = "connect" /\ i = 1
        /\ verb = "create_and_plug" => Script[verb][1] = "createCompanion"
        /\ \A i \in 1 .. Len(Script[verb]) : Script[verb][i] \in Mints => i = 1
    BY <1>3, ScriptFacts
  <1>6. TypeOK'
    BY <1>2, <1>4 DEF TypeOK, WellFormed
  <1>7. Named(mc)'
    <2>1. Op = "plug" /\ target \in Objects => target \in mc.live
      BY <1>3 DEF MustRefuse, Refusable
    <2>2. Op = "plug" => verb \in {"connect", "create_and_plug"}
                           \/ (verb = "create_dpni_in" /\ Len(left) = 1)
      <3>1. PICK i \in 1 .. Len(Script[verb]) :
              Op = Script[verb][i] /\ Len(left) = Len(Script[verb]) + 1 - i
        <4>1. Len(Script[verb]) - Len(left) + 1 \in 1 .. Len(Script[verb])
          BY <1>3, <1>5
        <4> QED BY <1>3, <1>5, <4>1
      <3>2. verb = "create_dpni_in" => Len(Script[verb]) = 3
        BY ShortSeq DEF Script, CreateDpniIn, Ops
      <3>3. verb = "create_dpni_in" /\ i = 3 => Len(left) = 1
        BY <3>1, <3>2
      <3> QED BY <1>5, <3>1, <3>3
    <2>3. Op = "plug" /\ target \in Objects => mc.label[target] # "none"
      <3>1. Len(left) = 1 => Len(left) + (IF executed THEN 0 ELSE 1) <= 2
        OBVIOUS
      <3> QED BY <1>2, <2>1, <2>2, <3>1 DEF Stamped
    <2> QED BY <1>4, <2>3
  <1>8. Suffix' /\ Counted'
    BY <1>2 DEF Suffix, Counted, Busy
  <1>9. Stamped'
    <2>1. CASE verb = "connect"
      <3>1. Op \in {"plug", "wire", "sync"}
        BY <1>3, <2>1 DEF Script, Connect
      <3>2. /\ target' = target /\ mc'.live \subseteq mc.live
            /\ \A x \in mc.live : mc'.label[x] = mc.label[x]
        BY <1>4, <3>1 DEF Mints
      <3> QED BY <1>2, <2>1, <3>2 DEF Stamped
    <2>2. CASE verb = "create_dpni_in"
      <3>1. /\ Len(left) \in 1 .. 3
            /\ Len(left) = 3 => Op = "create"
            /\ Len(left) = 2 => Op = "stamp"
            /\ Len(left) = 1 => Op = "plug"
        <4>1. Script[verb] = <<"create", "stamp", "plug">> /\ Len(Script[verb]) = 3
          BY <2>2, ShortSeq DEF Script, CreateDpniIn, Ops
        <4>2. Script[verb][1] = "create" /\ Script[verb][2] = "stamp" /\ Script[verb][3] = "plug"
          BY <4>1
        <4>3. Len(left) \in 1 .. 3
          BY <1>3, <4>1
        <4>4. Len(Script[verb]) - Len(left) + 1 = 4 - Len(left)
          BY <4>1, <4>3
        <4>5. Op = Script[verb][4 - Len(left)]
          BY <1>3, <4>4
        <4>6. CASE Len(left) = 1
          BY <4>2, <4>5, <4>6
        <4>7. CASE Len(left) = 2
          BY <4>2, <4>5, <4>7
        <4>8. CASE Len(left) = 3
          BY <4>2, <4>5, <4>8
        <4> QED BY <4>3, <4>6, <4>7, <4>8
      <3>2. CASE Len(left) = 3
        BY <1>2, <2>2, <3>2 DEF Stamped
      <3>3. CASE Len(left) = 2
        BY <1>2, <1>4, <2>2, <3>1, <3>3 DEF Stamped, Mints
      <3>4. CASE Len(left) = 1
        BY <1>2, <1>4, <2>2, <3>1, <3>4 DEF Stamped, Mints
      <3> QED BY <3>1, <3>2, <3>3, <3>4
    <2>3. CASE verb = "create_and_plug"
      <3>1. Op \in {"createCompanion", "plug", "stamp"}
        BY <1>3, <2>3 DEF Script, CreateAndPlug
      <3> QED BY <1>2, <1>4, <2>3, <3>1, ScriptAssumption DEF Stamped, Mints, Ids
    <2> QED BY <1>2, <2>1, <2>2, <2>3 DEF Stamped
  <1>10. Absent'
    BY <1>2 DEF Absent
  <1> QED BY <1>6, <1>7, <1>8, <1>9, <1>10


\* A process that opens the portal, is refused it, ends or is started again
\* leaves the board alone.
LEMMA SpawnKeeps ==
  ASSUME IInv, \/ Opened \/ OpenRefused \/ Again
               \/ \E how \in {"ok", "present", "mute", "status", "guard", "signal"} : Exit(how)
  PROVE  IInv'
  <1> USE PortalAssumption DEF IInv, Busy, Nobody, Tool
  <1>1. CASE Opened
    BY <1>1 DEF Opened, TypeOK, Named, Suffix, Counted, Stamped, Absent
  <1>2. CASE OpenRefused
    BY <1>2 DEF OpenRefused, Exits, TypeOK, Named, Suffix, Counted, Replies, Stamped, Absent
  <1>3. CASE Again
    BY <1>3 DEF Again, Exited, Respun, TypeOK, Named, Suffix, Counted, Stamped, Absent
  <1>4. ASSUME NEW how \in {"ok", "present", "mute", "status", "guard", "signal"}, Exit(how)
        PROVE  IInv'
    <2> USE <1>4 DEF Exit, Exits, Survived, Op
    <2>1. TypeOK' /\ Named(mc)' /\ Suffix' /\ Stamped'
      BY DEF TypeOK, Named, Suffix, Stamped
    <2>2. Counted'
      BY DEF Counted, Replies
    <2>3. Absent'
      BY DEF Absent
    <2> QED BY <2>1, <2>2, <2>3
  <1> QED BY <1>1, <1>2, <1>3, <1>4

\* The next spawn of the script is due.
LEMMA NextSpawnKeeps == ASSUME IInv, NextSpawn PROVE IInv'
  <1> USE PortalAssumption DEF IInv, NextSpawn, Exited, Respawn, Busy, Nobody, Tool
  <1>1. executed /\ phase = "exit" /\ reply = "ok"
    BY DEF Counted
  <1>2. /\ left \in Seq(Ops) /\ Len(left) > 1 /\ left' = Tail(left)
        /\ left' \in Seq(Ops) /\ Len(left') = Len(left) - 1
        /\ \A i \in 1 .. Len(left') : left'[i] = left[i + 1]
    BY DEF Suffix
  <1>3. TypeOK'
    <2>1. 0 \in 0 .. Attempts
      OBVIOUS
    <2>2. executed' \in BOOLEAN /\ vanished' \in BOOLEAN
      BY DEF TypeOK
    <2> QED BY <1>1, <2>1, <2>2 DEF TypeOK
  <1>3a. Named(mc)' /\ Counted' /\ Absent'
    BY DEF Named, Counted, Absent
  <1>4. Suffix'
    <2>1. Script[verb] \in Seq(Ops) /\ Len(Script[verb]) \in 1 .. 3
      BY ScriptFacts DEF Suffix
    <2> QED BY <1>2, <2>1 DEF Suffix
  <1>5. Stamped'
    BY <1>1, <1>2 DEF Stamped
  <1> QED BY <1>3, <1>3a, <1>4, <1>5

\* Another process has the portal, and what it makes bears a name.
LEMMA ShellKeeps == ASSUME IInv, NEW s \in Shells, ShellOpens(s) \/ ShellExits(s) PROVE IInv'
  <1> USE PortalAssumption DEF IInv, Busy, Nobody, Tool
  <1>1. CASE ShellOpens(s)
    BY <1>1 DEF ShellOpens, TypeOK, Named, Suffix, Counted, Stamped, Absent
  <1>2. CASE ShellExits(s)
    <2> USE <1>2 DEF ShellExits
    <2>1. /\ mc' \in WellFormed /\ Named(mc')
          /\ \A o \in mc'.live :
               mc'.label[o] = "foreign" \/ (o \in mc.live /\ mc'.label[o] = mc.label[o])
      BY MeddledFacts DEF TypeOK, WellFormed
    <2>2. TypeOK' /\ Named(mc)' /\ Suffix' /\ Counted'
      BY <2>1 DEF TypeOK, WellFormed, Suffix, Counted
    <2>3. Stamped'
      BY <2>1 DEF Stamped
    <2>4. Absent'
      BY DEF Absent
    <2> QED BY <2>2, <2>3, <2>4
  <1> QED BY <1>1, <1>2


LEMMA InitKeeps == Init => IInv
  <1> SUFFICES ASSUME Init PROVE IInv
    OBVIOUS
  <1> USE DEF Init
  <1>1. mc \in Boards /\ mc.plugged = {} /\ mc.live = {} /\ mc.wired = {}
    BY DEF Boards
  <1>2. TypeOK
    <2>1. 0 \in 0 .. Attempts /\ Nobody # Tool
      BY PortalAssumption DEF Nobody, Tool
    <2>2. executed \in BOOLEAN /\ vanished \in BOOLEAN
      OBVIOUS
    <2> QED BY <1>1, <2>1, <2>2 DEF TypeOK
  <1>3. Named(mc) /\ Suffix /\ Counted /\ Stamped /\ Absent
    BY <1>1, PortalAssumption DEF Named, Suffix, Counted, Stamped, Absent, Busy
  <1> QED BY <1>2, <1>3 DEF IInv

\* Every step ends one of these ways.
LEMMA StepCases ==
  ASSUME Next
  PROVE  \/ \E v \in Verbs : Issue(v)
         \/ Executes
         \/ \/ Opened \/ OpenRefused \/ Again
            \/ \E how \in {"ok", "present", "mute", "status", "guard", "signal"} : Exit(how)
         \/ NextSpawn
         \/ \E how \in {"ok", "backend", "parse", "mcStatus", "guard", "portalBusy"} :
              Busy /\ phase = "exit" /\ Answer(how)
         \/ \E s \in Shells : ShellOpens(s) \/ ShellExits(s)
  BY DEF Next, Process, Done, StillThere, Unparsed, Refused, GuardRefused, Died, GiveUp,
         SessionRefused, Exited

LEMMA StepKeeps == IInv /\ [Next]_vars => IInv'
  <1> SUFFICES ASSUME IInv, [Next]_vars PROVE IInv'
    OBVIOUS
  <1>1. CASE UNCHANGED vars
    BY <1>1 DEF vars, IInv, TypeOK, Named, Suffix, Counted, Stamped, Absent, Busy
  <1>2. CASE Next
    <2>1. CASE \E v \in Verbs : Issue(v)
      BY <2>1, IssueKeeps
    <2>2. CASE Executes
      BY <2>2, ExecutesKeeps
    <2>3. CASE \/ Opened \/ OpenRefused \/ Again
               \/ \E how \in {"ok", "present", "mute", "status", "guard", "signal"} : Exit(how)
      BY <2>3, SpawnKeeps
    <2>4. CASE NextSpawn
      BY <2>4, NextSpawnKeeps
    <2>5. CASE \E how \in {"ok", "backend", "parse", "mcStatus", "guard", "portalBusy"} :
                 Busy /\ phase = "exit" /\ Answer(how)
      BY <2>5, AnswerKeeps
    <2>6. CASE \E s \in Shells : ShellOpens(s) \/ ShellExits(s)
      BY <2>6, ShellKeeps
    <2> QED BY <1>2, <2>1, <2>2, <2>3, <2>4, <2>5, <2>6, StepCases
  <1> QED BY <1>1, <1>2

LEMMA Inductive == Spec => []IInv
  BY InitKeeps, StepKeeps, PTL DEF Spec

-----------------------------------------------------------------------------
(* What holds of every verb. *)

\* The variables keep their domains, and no dpni stands plugged without a name
\* on it, whoever gets the portal next (restool.rs create_dpni_in).
THEOREM PortalKept == Spec => []PortalInv
  <1>1. IInv => PortalInv
    BY DEF IInv, PortalInv, Named, PluggedNamed
  <1> QED BY <1>1, Inductive, PTL

\* What the caller is told is so: busy only after every attempt found the
\* portal taken, and then, as with a status or a guard, nothing was executed; a
\* destroy of a switch that is answered ok did happen (restool.rs run_verb,
\* destroy_dpsw).
THEOREM AnswersKept == Spec => AnswersTrue
  <1> DEFINE
    H == Busy /\ answer' # "none" =>
           /\ answer' = "portalBusy" => collided = Attempts
           /\ answer' \in {"portalBusy", "mcStatus", "guard"} => ~executed
           /\ answer' = "ok" => executed
    D == verb = "destroy_dpsw" /\ Busy /\ answer' = "ok" => vanished
  <1>1. IInv /\ [Next]_vars => [H]_vars /\ [D]_vars
    <2> SUFFICES ASSUME IInv, Next, Busy, answer' # "none" PROVE H /\ D
      BY DEF vars, Busy
    <2> USE DEF Exited, Answer, IInv, Busy
    <2>1. CASE Done
      <3>1. answer' = "ok" /\ executed
        BY <2>1 DEF Done, Counted
      <3>2. ASSUME verb = "destroy_dpsw" PROVE Head(left) = "show"
        <4>1. Script[verb] \in Seq(Ops) /\ Len(Script[verb]) \in 1 .. 3
              /\ Script[verb][Len(Script[verb])] = "show"
          BY <3>2, ScriptFacts DEF Suffix
        <4>2. left \in Seq(Ops) /\ Len(left) = 1 /\ left[1] = Script[verb][Len(Script[verb]) - 1 + 1]
          BY <2>1 DEF Suffix, Done
        <4> QED BY <4>1, <4>2
      <3> QED BY <2>1, <3>1, <3>2 DEF Done, Absent
    <2>2. CASE GiveUp
      <3>1. answer' = "portalBusy" /\ attempt >= Attempts /\ collided = attempt /\ ~executed
        BY <2>2 DEF GiveUp, Counted
      <3> QED BY <3>1, PortalAssumption DEF TypeOK
    <2>3. CASE Refused \/ GuardRefused
      BY <2>3 DEF Refused, GuardRefused, Counted
    <2>4. CASE StillThere \/ Unparsed \/ Died \/ SessionRefused
      BY <2>4 DEF StillThere, Unparsed, Died, SessionRefused
    <2>5. Done \/ StillThere \/ Unparsed \/ Refused \/ GuardRefused \/ Died \/ GiveUp
            \/ SessionRefused
      BY DEF Next, Process, Issue, Opened, OpenRefused, Executes, Exit, NextSpawn, Again, Respun,
             ShellOpens, ShellExits
    <2> QED BY <2>1, <2>2, <2>3, <2>4, <2>5
  <1> QED BY <1>1, Inductive, PTL DEF Spec, AnswersTrue, AnswersHonest, DestroyVerified


\* The refined specification means the same scripts and the same board.
LEMMA SameScript ==
  Life!Script = Script /\ Life!Verbs = Verbs /\ Life!Creates = Creates /\ Life!Ids = Ids
  <1>1. Life!Script = Script
    BY DEF Script, CreateDpni, CreateDpniIn, CreateDpswIn, CreateAndPlug, DprcCreate, Connect,
       DprcConnect, DprcDisconnect, SetMac, SetLabel, DprcAssign, Destroy, DestroyDpsw, ReadPortal,
       Life!Script, Life!CreateDpni, Life!CreateDpniIn, Life!CreateDpswIn, Life!CreateAndPlug,
       Life!DprcCreate, Life!Connect, Life!DprcConnect, Life!DprcDisconnect, Life!SetMac,
       Life!SetLabel, Life!DprcAssign, Life!Destroy, Life!DestroyDpsw, Life!ReadPortal
  <1> QED BY <1>1 DEF Verbs, Creates, Mints, Ids, Life!Verbs, Life!Creates, Life!Mints, Life!Ids

LEMMA SameBoard ==
  /\ \A op, b, o : Life!Executed(op, b, o) = Executed(op, b, o)
  /\ \A b : Life!Meddled(b) = Meddled(b)
  BY DEF Executed, Life!Executed, Meddled, Life!Meddled, Minted, Life!Minted, Removed,
     Life!Removed, Fresh, Life!Fresh, Mints, Life!Mints, Ids, Life!Ids

\* A verb is what its caller takes it for, whatever collides, dies or is tried
\* again: its commands take effect in order, each at most once, and an error
\* leaves a prefix of them (restool.rs run_verb, "there is no double-create
\* hazard").
THEOREM LifeImplemented == Spec => ImplementsLife
  <1> DEFINE
    ToDo == IF executed THEN Tail(left) ELSE left
    Told == IF answer \in {"none", "ok"} THEN answer ELSE "error"
  <1>1. Init => Life!Init
    BY DEF Init, Life!Init, Ids, Life!Ids
  <1>2. IInv /\ [Next]_vars => [Life!Next]_Life!vars
    <2> SUFFICES ASSUME IInv, [Next]_vars PROVE [Life!Next]_Life!vars
      OBVIOUS
    <2>1. ASSUME NEW v \in Verbs, Issue(v) PROVE Life!Next
      <3>1. Life!Issue(v)
        <4>1. Told # "none" /\ Told' = "none" /\ ToDo' = Script[v]
          BY <2>1 DEF Issue, Respawn
        <4>2. target' \in IF v \in Creates THEN {NoObj} ELSE Ids
          <5>1. v \in Creates => v \notin {"destroy", "destroy_dpsw"}
            BY ShortSeq DEF Creates, Script, Mints, Destroy, DestroyDpsw
          <5> QED BY <2>1, <5>1 DEF Issue, Subjects
        <4> QED BY <2>1, <4>1, <4>2, SameScript DEF Issue, Life!Issue
      <3> QED BY <3>1, SameScript DEF Life!Next
    <2>2. CASE Executes
      <3>1. Told = "none" /\ Told' = "none" /\ ToDo = left /\ ToDo' = Tail(left) /\ left # <<>>
        BY <2>2 DEF Executes, IInv, Suffix, Busy
      <3>2. \E r \in Executed(Head(left), mc, target) : mc' = r[1] /\ target' = r[2]
        BY <2>2 DEF Executes, Op
      <3>3. Life!Effect
        BY <3>1, <3>2, SameBoard DEF Life!Effect
      <3> QED BY <3>3 DEF Life!Next
    <2>3. CASE Opened \/ OpenRefused \/ Again
      <3>1. UNCHANGED <<mc, left, target, answer>>
        BY <2>3 DEF Opened, OpenRefused, Again, Respun
      <3>2. ToDo' = ToDo
        BY <2>3 DEF Opened, OpenRefused, Again, Respun, Exited, IInv, Counted
      <3> QED BY <3>1, <3>2 DEF Life!vars
    <2>4. CASE \E how \in {"ok", "present", "mute", "status", "guard", "signal"} : Exit(how)
      BY <2>4 DEF Exit, Life!vars
    <2>5. CASE NextSpawn
      <3>1. ToDo' = ToDo /\ UNCHANGED <<mc, target, answer>>
        BY <2>5 DEF NextSpawn, Exited, Respawn, IInv, Counted
      <3> QED BY <3>1 DEF Life!vars
    <2>6. CASE Done
      <3>1. ToDo = <<>> /\ ToDo' = <<>> /\ Told = "none" /\ Told' = "ok"
        <4>1. Busy /\ executed /\ left \in Seq(Ops) /\ Len(left) = 1
          BY <2>6 DEF Done, Exited, IInv, Counted, Suffix
        <4>2. Tail(left) = <<>>
          <5>1. left # <<>>
            <6>1. Len(<<>>) # 1
              OBVIOUS
            <6> QED BY <4>1, <6>1
          <5>2. Tail(left) \in Seq(Ops) /\ Len(Tail(left)) = 0
            BY <4>1, <5>1, HeadTailProperties
          <5> QED BY <5>2, EmptySeq
        <4>3. left' = <<>> /\ answer' = "ok" /\ executed' = FALSE
          BY <2>6 DEF Done, Answer, Respawn
        <4> QED BY <4>1, <4>2, <4>3 DEF Busy
      <3>2. Life!Answered
        BY <2>6, <3>1 DEF Done, Answer, Life!Answered
      <3> QED BY <3>2 DEF Life!Next
    <2>7. CASE \E how \in {"backend", "parse", "mcStatus", "guard", "portalBusy"} :
                 Busy /\ phase = "exit" /\ Answer(how)
      <3>1. ToDo' = <<>> /\ Told = "none" /\ Told' = "error"
        BY <2>7 DEF Answer, Respawn, Busy
      <3>2. Life!Erred
        BY <2>7, <3>1 DEF Answer, Life!Erred
      <3> QED BY <3>2 DEF Life!Next
    <2>8. ASSUME NEW s \in Shells, ShellOpens(s) \/ ShellExits(s)
          PROVE  [Life!Next]_Life!vars
      BY <2>8, SameBoard DEF ShellOpens, ShellExits, Life!Next, Life!Other, Life!vars
    <2>9. CASE UNCHANGED vars
      BY <2>9 DEF vars, Life!vars
    <2>10. \/ \E v \in Verbs : Issue(v)
           \/ Executes \/ Opened \/ OpenRefused \/ Again \/ NextSpawn \/ Done
           \/ \E how \in {"ok", "present", "mute", "status", "guard", "signal"} : Exit(how)
           \/ \E how \in {"backend", "parse", "mcStatus", "guard", "portalBusy"} :
                Busy /\ phase = "exit" /\ Answer(how)
           \/ \E s \in Shells : ShellOpens(s) \/ ShellExits(s)
           \/ UNCHANGED vars
      BY DEF Next, Process, StillThere, Unparsed, Refused, GuardRefused, Died, GiveUp,
             SessionRefused, Exited
    <2> QED BY <2>1, <2>2, <2>3, <2>4, <2>5, <2>6, <2>7, <2>8, <2>9, <2>10
  <1> QED BY <1>1, <1>2, Inductive, PTL DEF Spec, ImplementsLife, Life!Spec

=============================================================================
