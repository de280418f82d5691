-------------------------- MODULE TenancyRun_proofs --------------------------
(***************************************************************************)
(* What is proved of the container phases: whatever fails, is cut short or *)
(* is edited between runs, a run stays in its domains, respects a shut     *)
(* gate, leaves alone the containers it has no business with, a rollback   *)
(* that could undo its rows takes back what is recorded, each container    *)
(* goes through the lifecycle of DprcLife, none is handed over before it   *)
(* is populated, and a converged verdict is of tenants served and shown.   *)
(***************************************************************************)
EXTENDS TenancyRun

\* The containers the run under way may not touch, and an object that is in
\* none of a set of them.
Kept == {c \in Dprcs : Shielded(c)}
Free(K, h) == h = None \/ h \notin K

\* A step of the board that touches no container of K nor what is in it.
Sane(K, b, n) ==
  /\ n \in Boards
  /\ \A c \in K : /\ c \in b.live => c \in n.live
                  /\ n.name[c] = b.name[c] /\ n.driver[c] = b.driver[c] /\ n.over[c] = b.over[c]
  /\ \A o \in Objs : \/ n.home[o] = b.home[o]
                     \/ Free(K, b.home[o]) /\ Free(K, n.home[o])
  /\ \A o \in Objs : ~Free(K, b.home[o]) =>
       /\ n.tag[o] = b.tag[o] /\ (o \in n.plugged <=> o \in b.plugged)
       /\ o \in Dpnis => n.edge[o] = b.edge[o]

\* A step that takes nothing away that stood on the board f: what a shut gate allows.
Gentle(f, b, n) ==
  /\ n.live = b.live /\ n.name = b.name
  /\ n.home = b.home /\ n.tag = b.tag /\ n.plugged = b.plugged
  /\ \A d \in Dpnis : f.edge[d] # None => n.edge[d] = b.edge[d]
  /\ \A c \in f.live : f.driver[c] # "none" => n.driver[c] = b.driver[c]

-----------------------------------------------------------------------------
(* What each command does to a board and to what is kept. *)

LEMMA NextIdIn ==
  ASSUME NEW S \in SUBSET Nat, S # {}
  PROVE  NextId(S) \in S
  <1>1. PICK i \in S : \A j \in S : ~(j < i) BY SomeLeast
  <1>2. \A j \in S : i <= j BY <1>1
  <1> QED BY <1>2 DEF NextId

LEMMA SpawnedSane ==
  ASSUME NEW b \in Boards, NEW K \in SUBSET Dprcs, NEW c \in Dprcs \ K, NEW t \in Names,
         NEW n, n = Spawned(b, c, t)
  PROVE  /\ Sane(K, b, n)
         /\ n.live = b.live \cup {c} /\ n.name = [b.name EXCEPT ![c] = t]
         /\ n.home = b.home /\ n.edge = b.edge
  BY BoardAssumption DEF Spawned, Sane, Boards

LEMMA MintedSane ==
  ASSUME NEW b \in Boards, NEW K \in SUBSET Dprcs, NEW c \in Dprcs \ K,
         NEW o \in Objs, b.home[o] = None, NEW n, n = Minted(b, o, c)
  PROVE  /\ Sane(K, b, n)
         /\ n.live = b.live /\ n.name = b.name /\ n.driver = b.driver
         /\ n.home = [b.home EXCEPT ![o] = c] /\ n.edge = b.edge
  BY BoardAssumption DEF Minted, Sane, Boards, Free

LEMMA StampedSane ==
  ASSUME NEW b \in Boards, NEW K \in SUBSET Dprcs, NEW o \in Objs, Free(K, b.home[o]),
         NEW t \in Names, NEW n, n = Stamped(b, o, t)
  PROVE  /\ Sane(K, b, n)
         /\ n.live = b.live /\ n.name = b.name /\ n.home = b.home /\ n.edge = b.edge
  BY BoardAssumption DEF Stamped, Sane, Boards, Free

LEMMA PluggedSane ==
  ASSUME NEW b \in Boards, NEW K \in SUBSET Dprcs, NEW o \in Objs, Free(K, b.home[o]),
         NEW n, n = PluggedIn(b, o)
  PROVE  /\ Sane(K, b, n)
         /\ n.live = b.live /\ n.name = b.name /\ n.home = b.home /\ n.edge = b.edge
  BY BoardAssumption DEF PluggedIn, Sane, Boards, Free

LEMMA UnpluggedSane ==
  ASSUME NEW b \in Boards, NEW K \in SUBSET Dprcs, NEW o \in Objs, Free(K, b.home[o]),
         NEW n, n = Unplugged(b, o)
  PROVE  /\ Sane(K, b, n)
         /\ n.live = b.live /\ n.name = b.name /\ n.home = b.home /\ n.edge = b.edge
  BY BoardAssumption DEF Unplugged, Sane, Boards, Free

LEMMA JoinedSane ==
  ASSUME NEW b \in Boards, NEW K \in SUBSET Dprcs, NEW o \in Objs, Free(K, b.home[o]),
         NEW p \in Peers, NEW n, n = Joined(b, o, p)
  PROVE  /\ Sane(K, b, n)
         /\ n.live = b.live /\ n.name = b.name /\ n.home = b.home /\ n.tag = b.tag
         /\ n.plugged = b.plugged /\ n.driver = b.driver
         /\ n.edge = [b.edge EXCEPT ![o] = p]
  BY BoardAssumption DEF Joined, Sane, Boards, Free

LEMMA SeveredSane ==
  ASSUME NEW b \in Boards, NEW K \in SUBSET Dprcs, NEW o \in Objs, Free(K, b.home[o]),
         NEW n, n = Severed(b, o)
  PROVE  /\ Sane(K, b, n)
         /\ n.live = b.live /\ n.name = b.name /\ n.home = b.home /\ n.tag = b.tag
         /\ n.plugged = b.plugged /\ n.driver = b.driver
         /\ n.edge = [b.edge EXCEPT ![o] = None]
  BY BoardAssumption DEF Severed, Sane, Boards, Free

LEMMA GoneSane ==
  ASSUME NEW b \in Boards, NEW K \in SUBSET Dprcs, NEW S \in SUBSET Objs,
         \A o \in S : Free(K, b.home[o]), NEW n, n = Gone(b, S)
  PROVE  /\ Sane(K, b, n)
         /\ n.live = b.live /\ n.name = b.name /\ n.driver = b.driver /\ n.over = b.over
         /\ n.home = [o \in Objs |-> IF o \in S THEN None ELSE b.home[o]]
         /\ n.edge = [d \in Dpnis |-> IF d \in S THEN None ELSE b.edge[d]]
         /\ n.locked = b.locked /\ n.scanned = b.scanned
  BY BoardAssumption DEF Gone, Sane, Boards, Free, Objs

LEMMA OverriddenSane ==
  ASSUME NEW b \in Boards, NEW K \in SUBSET Dprcs, NEW c \in Dprcs \ K, NEW drv \in Drivers,
         NEW n, n = Overridden(b, c, drv)
  PROVE  /\ Sane(K, b, n)
         /\ n.live = b.live /\ n.name = b.name /\ n.home = b.home /\ n.tag = b.tag
         /\ n.plugged = b.plugged /\ n.edge = b.edge /\ n.driver = b.driver
  BY BoardAssumption DEF Overridden, Sane, Boards, Free

LEMMA BoundSane ==
  ASSUME NEW b \in Boards, NEW K \in SUBSET Dprcs, NEW c \in Dprcs \ K, NEW drv \in Drivers,
         NEW n, n = Bound(b, c, drv)
  PROVE  /\ Sane(K, b, n)
         /\ n.live = b.live /\ n.name = b.name /\ n.home = b.home /\ n.tag = b.tag
         /\ n.plugged = b.plugged /\ n.edge = b.edge
         /\ n.driver = [b.driver EXCEPT ![c] = drv]
  BY BoardAssumption DEF Bound, Sane, Boards, Free

LEMMA UnboundSane ==
  ASSUME NEW b \in Boards, NEW K \in SUBSET Dprcs, NEW c \in Dprcs \ K, NEW n, n = Unbound(b, c)
  PROVE  /\ Sane(K, b, n)
         /\ n.live = b.live /\ n.name = b.name /\ n.home = b.home /\ n.tag = b.tag
         /\ n.plugged = b.plugged /\ n.edge = b.edge
         /\ n.driver = [b.driver EXCEPT ![c] = "none"]
  BY BoardAssumption DEF Unbound, Sane, Boards, Free, Drivers

LEMMA VfioUnboundSane ==
  ASSUME NEW b \in Boards, NEW K \in SUBSET Dprcs, NEW c \in Dprcs \ K,
         NEW n, n = VfioUnbound(b, c)
  PROVE  /\ Sane(K, b, n)
         /\ n.live = b.live /\ n.name = b.name /\ n.home = b.home /\ n.tag = b.tag
         /\ n.plugged = b.plugged /\ n.edge = b.edge
         /\ n.driver = [b.driver EXCEPT ![c] = "none"]
  BY BoardAssumption DEF VfioUnbound, Overridden, Unbound, Sane, Boards, Free, Drivers

\* Objects and edges only go.
Sheds(b, n) ==
  /\ \A o \in Objs : n.home[o] = b.home[o] \/ n.home[o] = None
  /\ \A d \in Dpnis : n.edge[d] = b.edge[d] \/ n.edge[d] = None

LEMMA RemovedSane ==
  ASSUME NEW b \in Boards, NEW K \in SUBSET Dprcs, NEW c \in Dprcs \ K
  PROVE  Sane(K, b, Removed(b, c))
  <1> DEFINE g == Gone(b, Residents(b, c))
  <1>1. Residents(b, c) \in SUBSET Objs /\ \A o \in Residents(b, c) : Free(K, b.home[o])
    BY DEF Residents, Free
  <1>2. /\ Sane(K, b, g)
        /\ g.live = b.live /\ g.name = b.name /\ g.driver = b.driver /\ g.over = b.over
        /\ g.home = [o \in Objs |-> IF o \in Residents(b, c) THEN None ELSE b.home[o]]
        /\ g.edge = [d \in Dpnis |-> IF d \in Residents(b, c) THEN None ELSE b.edge[d]]
    <2> HIDE DEF Sane
    <2> QED BY <1>1, GoneSane
  <1>3. g \in Boards BY <1>2 DEF Sane
  <1> HIDE DEF g
  <1> DEFINE n == Removed(b, c)
  <1>4. n = [g EXCEPT !.live = @ \ {c}, !.name[c] = None, !.driver[c] = "none",
                      !.over[c] = "none", !.locked = @ \ {c}, !.scanned = @ \ {c}]
    BY DEF Removed, g
  <1> HIDE DEF n
  <1>5. /\ n \in Boards /\ n.live = g.live \ {c} /\ n.name = [g.name EXCEPT ![c] = None]
        /\ n.driver = [g.driver EXCEPT ![c] = "none"] /\ n.over = [g.over EXCEPT ![c] = "none"]
        /\ n.home = g.home /\ n.edge = g.edge /\ n.tag = g.tag /\ n.plugged = g.plugged
    BY <1>3, <1>4 DEF Boards, Drivers
  <1>6. Sane(K, b, n)
    <2>1. ASSUME NEW k \in K
          PROVE  /\ k \in b.live => k \in n.live
                 /\ n.name[k] = b.name[k] /\ n.driver[k] = b.driver[k] /\ n.over[k] = b.over[k]
      <3>1. k \in Dprcs /\ k # c OBVIOUS
      <3> QED BY <1>2, <1>3, <1>5, <3>1 DEF Boards
    <2>2. \A o \in Objs : n.home[o] = b.home[o] \/ (Free(K, b.home[o]) /\ Free(K, n.home[o]))
      BY <1>2, <1>5 DEF Sane
    <2>3. \A o \in Objs : ~Free(K, b.home[o]) =>
            /\ n.tag[o] = b.tag[o] /\ (o \in n.plugged <=> o \in b.plugged)
            /\ o \in Dpnis => n.edge[o] = b.edge[o]
      BY <1>2, <1>5 DEF Sane
    <2> QED BY <1>5, <2>1, <2>2, <2>3 DEF Sane
  <1> QED BY <1>6 DEF n

(* The invariant. *)

Ops == {"spawn", "verdict", "done", "mintDpni", "mintPool", "stamp", "plug", "connect",
        "reclaim", "pruneForeign", "belowDraw", "judge", "kernelBind", "override", "bind",
        "unbind", "release", "sever", "unplug", "destroy", "pruneVerdict"}
Verbs == [op : Ops, on : Dprcs \cup {None}, arg : Names \cup {None, "vfio"},
          obj : Objs \cup {None}]

\* The tenants that had no container when the run started.
Unmade == {t \in Tenants : Handle(before, t) = None}

\* What a phase ph may owe: a verb on a container that is not kept, or on an
\* object in none; below the gate nothing but what adds to the board f.
SoundFor(K, h, low, f, ph, new) ==
  {v \in Verbs :
     /\ v.op = "spawn" => ph = "containers" /\ v.arg \in new
     /\ v.op \in {"unplug", "destroy"} => ph = "prune"
     /\ v.op \in {"stamp", "plug", "connect"} => ph = "population"
     /\ v.op \notin {"spawn", "verdict", "done", "pruneVerdict"} => v.on \in Dprcs \ K
     /\ v.obj # None => Free(K, h[v.obj])
     /\ v.op = "connect" => v.arg \in Peers /\ v.obj \in Dpnis \cup {None}
     /\ v.op \in {"sever", "unplug"} => v.obj # None
     /\ v.op = "stamp" => v.arg \in Names
     /\ low => /\ v.op \in {"connect", "judge", "kernelBind", "override", "bind", "done"}
               /\ v.op = "connect" => v.obj # None
               /\ v.op \in {"kernelBind", "override", "bind"} => f.driver[v.on] # "vfio"}

Sound == SoundFor(Kept, board.home, opts.allow < 2, before, pc, Unmade)

\* The rows of the journal, whose undo is a verb as well.
RowsFor(K, h, low, f) ==
  {r \in Rows :
     /\ r.kind = "dprc" => r.on \in Dprcs \ f.live
     /\ r.kind \in {"dpni", "pool", "edge"} => r.obj \in Objs /\ Free(K, h[r.obj])
     /\ r.kind = "bound" => r.on \in Dprcs \ K
     /\ low => /\ r.kind \in {"edge", "bound"}
               /\ r.kind = "edge" => r.obj \in Dpnis /\ f.edge[r.obj] = None
               /\ r.kind = "bound" => f.driver[r.on] # "vfio"}

SoundRows == RowsFor(Kept, board.home, opts.allow < 2, before)

\* A verb on the object just created comes after the verb that creates it.
Mints(v) == v.op \in {"mintDpni", "mintPool"}
NeedsHand(v) == v.op \in {"stamp", "plug"} \/ (v.op = "connect" /\ v.obj = None)
LedBy(hd, q) ==
  \A i \in 1..Len(q) : NeedsHand(q[i]) => hd # None \/ \E j \in 1..(i-1) : Mints(q[j])

Shape ==
  /\ TypeOK /\ roll \in Rolls
  /\ pc # "idle" => opts \in choices
  /\ pc \in {"idle", "unwind"} => queue = << >> /\ hand = None
  /\ pc = "idle" => journal = << >> /\ unreversed = {} /\ made = {}

Owed ==
  /\ queue \in Seq(Sound) /\ LedBy(hand, queue)
  /\ hand # None => Free(Kept, board.home[hand])

Journaled == journal \in Seq(SoundRows)

NamesStand ==
  /\ \A c \in before.live \cap board.live : board.name[c] = before.name[c]
  /\ \A c \in board.live \ before.live : board.name[c] \in Unmade
  /\ pc \in {"containers", "population"} => before.live \subseteq board.live

Untouched == \A c \in Kept : c \in board.live /\ Snapshot(board, c) = Snapshot(before, c)

\* What was made is on record until it is undone, and so is each new edge but the
\* one of the connect the run failed at.
Makes(r, x) == (r.kind = "dprc" /\ r.on = x) \/ (r.kind \in {"dpni", "pool"} /\ r.obj = x)
Wires(r, d) == r.kind = "edge" /\ r.obj = d
OnRecord == ToSet(journal) \cup unreversed
Standing == board.live \cup {o \in Objs : board.home[o] # None}
Stray == {d \in Rewired : \A r \in OnRecord : ~Wires(r, d)}
Recordeds ==
  /\ \A x \in made : pc # "unwind" \/ x \in Standing => \E r \in OnRecord : Makes(r, x)
  /\ \A d, e \in Stray : pc = "unwind" /\ d = e

RunInv ==
  pc # "idle" => Owed /\ Journaled /\ NamesStand /\ Untouched /\ GateHolds /\ Recordeds
IInv == Shape /\ RunInv

(* What survives a step that is sane. *)

LEMMA KeptSame ==
  ASSUME UNCHANGED <<before, opts, roll>>
  PROVE  Kept' = Kept /\ Unmade' = Unmade
  BY DEF Kept, Unmade, Shielded, Tenants, Handle

LEMMA KeptStood == Kept \subseteq before.live /\ Kept \subseteq Dprcs
  BY DEF Kept, Shielded

LEMMA SnapshotSame ==
  ASSUME NEW b \in Boards, NEW n, NEW K \in SUBSET Dprcs, Sane(K, b, n), NEW c \in K
  PROVE  Snapshot(n, c) = Snapshot(b, c)
  <1>0. c \in Dprcs /\ c # None BY BoardAssumption
  <1>1. n.name[c] = b.name[c] /\ n.driver[c] = b.driver[c] /\ n.over[c] = b.over[c] BY DEF Sane
  <1>2. \A o \in Objs : n.home[o] = c <=> b.home[o] = c BY <1>0 DEF Sane, Free
  <1>3. Residents(n, c) = Residents(b, c) BY <1>2 DEF Residents
  <1>4. \A o \in Residents(b, c) : /\ o \in Objs /\ n.tag[o] = b.tag[o]
                                    /\ (o \in n.plugged <=> o \in b.plugged)
                                    /\ (o \in Dpnis => n.edge[o] = b.edge[o])
    BY <1>0 DEF Sane, Free, Residents
  <1>5. {<<o, n.tag[o]>> : o \in Residents(b, c)} = {<<o, b.tag[o]>> : o \in Residents(b, c)}
    BY <1>4
  <1>6. Residents(b, c) \cap n.plugged = Residents(b, c) \cap b.plugged BY <1>4
  <1>7. {<<d, n.edge[d]>> : d \in DpniRows(b, c)} = {<<d, b.edge[d]>> : d \in DpniRows(b, c)}
    BY <1>4 DEF DpniRows
  <1>8. DpniRows(n, c) = DpniRows(b, c) BY <1>3 DEF DpniRows
  <1> QED BY <1>1, <1>3, <1>5, <1>6, <1>7, <1>8 DEF Snapshot

LEMMA SoundGrows ==
  ASSUME NEW b \in Boards, NEW n, NEW K \in SUBSET Dprcs, Sane(K, b, n),
         NEW low, NEW f, NEW ph, NEW new
  PROVE  /\ SoundFor(K, b.home, low, f, ph, new) \subseteq SoundFor(K, n.home, low, f, ph, new)
         /\ RowsFor(K, b.home, low, f) \subseteq RowsFor(K, n.home, low, f)
         /\ \A o \in Objs : Free(K, b.home[o]) => Free(K, n.home[o])
  <1>1. \A o \in Objs : Free(K, b.home[o]) => Free(K, n.home[o]) BY DEF Sane
  <1>2. SoundFor(K, b.home, low, f, ph, new) \subseteq SoundFor(K, n.home, low, f, ph, new)
    BY <1>1 DEF SoundFor, Verbs
  <1>3. RowsFor(K, b.home, low, f) \subseteq RowsFor(K, n.home, low, f) BY <1>1 DEF RowsFor
  <1> QED BY <1>1, <1>2, <1>3

LEMMA LedTail ==
  ASSUME NEW T, NEW q \in Seq(T), q # << >>, NEW hd, NEW hn, LedBy(hd, q),
         hd # None => hn # None, Mints(Head(q)) => hn # None
  PROVE  LedBy(hn, Tail(q))
  <1>1. Len(q) \in Nat /\ Len(Tail(q)) = Len(q) - 1 /\ Head(q) = q[1]
        /\ \A i \in 1..Len(Tail(q)) : Tail(q)[i] = q[i+1]
    BY HeadTailProperties
  <1> SUFFICES ASSUME NEW i \in 1..Len(Tail(q)), NeedsHand(Tail(q)[i]), hn = None
               PROVE  \E j \in 1..(i-1) : Mints(Tail(q)[j])
    BY DEF LedBy
  <1>2. i + 1 \in 1..Len(q) /\ NeedsHand(q[i+1]) BY <1>1
  <1>3. PICK j \in 1..i : Mints(q[j]) BY <1>2 DEF LedBy
  <1>4. j # 1 BY <1>1, <1>3
  <1>5. j - 1 \in 1..(i-1) /\ j - 1 \in 1..Len(Tail(q)) /\ Tail(q)[j-1] = q[j] BY <1>1, <1>4
  <1> QED BY <1>3, <1>5

LEMMA HandleIs ==
  ASSUME NEW b \in Boards, NEW t \in Names
  PROVE  /\ Handle(b, t) = None \/ (Handle(b, t) \in b.live /\ b.name[Handle(b, t)] = t)
         /\ Handle(b, t) = None <=> \A c \in b.live : b.name[c] # t
  <1> DEFINE same == {c \in b.live : b.name[c] = t}
  <1>1. same \subseteq Nat /\ b.live \subseteq Dprcs BY BoardAssumption DEF Boards
  <1>2. same # {} => Min(same) \in same BY <1>1, MinIn
  <1>3. Handle(b, t) = IF same = {} THEN None ELSE Min(same) BY DEF Handle
  <1> QED BY <1>1, <1>2, <1>3, BoardAssumption

LEMMA SaneStill ==
  ASSUME NEW b \in Boards, NEW K \in SUBSET Dprcs
  PROVE  Sane(K, b, b)
  BY DEF Sane

\* The invariant of a run under way, with the types its steps rely on.
LEMMA Running ==
  ASSUME IInv, pc # "idle"
  PROVE  /\ board \in Boards /\ before \in Boards /\ roll \in Rolls
         /\ opts \in Options /\ opts \in choices
         /\ Kept \in SUBSET Dprcs /\ Kept \subseteq board.live
         /\ board.live \subseteq Dprcs
         /\ Owed /\ Journaled /\ NamesStand /\ Untouched /\ GateHolds /\ Recordeds
         /\ hand \in Objs \cup {None} /\ made \in SUBSET (Dprcs \cup Objs)
         /\ unreversed \subseteq Rows /\ refused \in BOOLEAN /\ edits \in Nat /\ faults \in Nat
         /\ choices \subseteq Options
  <1>1. RunInv /\ Shape /\ TypeOK BY DEF IInv, Shape
  <1>2. opts \in Options /\ opts \in choices BY <1>1 DEF Shape, TypeOK
  <1>3. Kept \subseteq board.live BY <1>1 DEF RunInv, Untouched
  <1>4. board.live \subseteq Dprcs BY <1>1 DEF TypeOK, Boards
  <1> QED BY <1>1, <1>2, <1>3, <1>4, KeptStood DEF RunInv, Shape, TypeOK

\* A sane step of the board keeps what is owed, recorded and left alone.
LEMMA Carried ==
  ASSUME IInv, pc # "idle", UNCHANGED <<roll, choices, budget, opts, before>>,
         Sane(Kept, board, board')
  PROVE  /\ board' \in Boards /\ Kept' = Kept /\ Unmade' = Unmade
         /\ SoundRows \subseteq SoundRows'
         /\ pc' = pc => Sound \subseteq Sound'
         /\ \A o \in Objs : Free(Kept, board.home[o]) => Free(Kept', board'.home[o])
         /\ Untouched'
  <1>1. Kept' = Kept /\ Unmade' = Unmade BY KeptSame
  <1>2. board \in Boards /\ Kept \in SUBSET Dprcs /\ Kept \subseteq board.live /\ Untouched
    BY Running
  <1>3. board' \in Boards BY DEF Sane
  <1>4. RowsFor(Kept, board.home, opts.allow < 2, before)
          \subseteq RowsFor(Kept, board'.home, opts.allow < 2, before)
    BY <1>2, SoundGrows
  <1>5. SoundFor(Kept, board.home, opts.allow < 2, before, pc, Unmade)
          \subseteq SoundFor(Kept, board'.home, opts.allow < 2, before, pc, Unmade)
    BY <1>2, SoundGrows
  <1>6. \A o \in Objs : Free(Kept, board.home[o]) => Free(Kept, board'.home[o]) BY <1>2, SoundGrows
  <1>7. SoundRows \subseteq SoundRows' BY <1>1, <1>4 DEF SoundRows
  <1>8. pc' = pc => Sound \subseteq Sound' BY <1>1, <1>5 DEF Sound
  <1>9. ASSUME NEW c \in Kept PROVE c \in board'.live /\ Snapshot(board', c) = Snapshot(before, c)
    <2>1. Snapshot(board', c) = Snapshot(board, c) BY <1>2, SnapshotSame
    <2>2. c \in board'.live BY <1>2 DEF Sane
    <2> QED BY <1>2, <2>1, <2>2 DEF Untouched
  <1>10. Untouched' BY <1>1, <1>9 DEF Untouched
  <1> QED BY <1>1, <1>3, <1>6, <1>7, <1>8, <1>10

LEMMA NamesStill ==
  ASSUME IInv, pc # "idle", UNCHANGED <<roll, choices, budget, opts, before>>,
         pc' \in {pc, "unwind"}, board'.live = board.live, board'.name = board.name
  PROVE  NamesStand'
  <1>1. NamesStand BY Running
  <1>2. Unmade' = Unmade BY KeptSame
  <1> QED BY <1>1, <1>2 DEF NamesStand

LEMMA GateStays ==
  ASSUME IInv, pc # "idle", UNCHANGED <<opts, before>>,
         opts.allow < 2 => Gentle(before, board, board')
  PROVE  GateHolds'
  <1>1. GateHolds BY Running
  <1> QED BY <1>1 DEF GateHolds, Gentle

\* An edge that appears is recorded, what is recorded so far stays on record.
LEMMA RecordsKept ==
  ASSUME IInv, pc # "idle", pc # "unwind", UNCHANGED before,
         OnRecord \subseteq OnRecord',
         \A x \in made' \ made : \E r \in OnRecord' : Makes(r, x),
         \A d \in Dpnis : \/ board'.edge[d] = board.edge[d] \/ board'.edge[d] = None
                          \/ \E r \in OnRecord' : Wires(r, d)
  PROVE  Recordeds'
  <1>1. Recordeds BY Running
  <1>2. ASSUME NEW x \in made' PROVE \E r \in OnRecord' : Makes(r, x) BY <1>1, <1>2 DEF Recordeds
  <1>3. ASSUME NEW d \in Stray' PROVE FALSE BY <1>1, <1>3 DEF Recordeds, Stray, Rewired
  <1> QED BY <1>2, <1>3 DEF Recordeds

\* One verb of a phase: what the action owes for the invariant to hold after it.
LEMMA VerbStep ==
  ASSUME IInv, queue # << >>, Advance, UNCHANGED given, UNCHANGED refused,
         Sane(Kept, board, board'), opts.allow < 2 => Gentle(before, board, board'),
         NamesStand', Recordeds',
         hand' \in Objs \cup {None}, hand' # None => Free(Kept, board'.home[hand']),
         hand # None => hand' # None, Mints(Head(queue)) => hand' # None,
         journal' \in Seq(SoundRows'), made' \in SUBSET (Dprcs \cup Objs)
  PROVE  IInv'
  <1>0. pc \notin {"idle", "unwind"} /\ TypeOK /\ Shape BY DEF IInv, Shape
  <1>1. UNCHANGED <<roll, choices, budget, opts, before, pc, unreversed, outcome, edits, faults>>
    BY DEF Advance, given, budgets
  <1>2. /\ board' \in Boards /\ Kept' = Kept /\ SoundRows \subseteq SoundRows'
        /\ Sound \subseteq Sound' /\ Untouched'
    BY <1>0, <1>1, Carried
  <1>3. GateHolds' BY <1>0, <1>1, GateStays
  <1>4. queue \in Seq(Sound) /\ LedBy(hand, queue) BY <1>0, Running DEF Owed
  <1>5. queue' = Tail(queue) /\ Tail(queue) \in Seq(Sound) BY <1>4 DEF Advance
  <1>6. Tail(queue) \in Seq(Sound') BY <1>2, <1>5
  <1>7. LedBy(hand', Tail(queue)) BY <1>4, LedTail
  <1>8. Owed' BY <1>2, <1>5, <1>6, <1>7 DEF Owed
  <1>9. Journaled' BY DEF Journaled
  <1>10. RunInv' BY <1>3, <1>2, <1>8, <1>9 DEF RunInv
  <1>11. \A i \in DOMAIN queue' : queue'[i].on \in Dprcs \cup {None}
    <2>1. \A i \in DOMAIN Tail(queue) : Tail(queue)[i] \in Verbs BY <1>5 DEF Sound, SoundFor
    <2> QED BY <1>5, <2>1 DEF Verbs
  <1>12. \A i \in DOMAIN journal' : journal'[i] \in Rows BY DEF SoundRows, RowsFor
  <1>13. TypeOK' BY <1>0, <1>1, <1>2, <1>11, <1>12 DEF TypeOK
  <1>14. Shape' BY <1>0, <1>1, <1>13 DEF Shape
  <1> QED BY <1>10, <1>14 DEF IInv

\* A verb that creates nothing, wires nothing and records nothing.
LEMMA PlainVerb ==
  ASSUME IInv, queue # << >>, Advance, UNCHANGED given, UNCHANGED <<refused, hand, journal, made>>,
         ~Mints(Head(queue)), Sane(Kept, board, board'),
         opts.allow < 2 => Gentle(before, board, board'), NamesStand',
         \A d \in Dpnis : board'.edge[d] = board.edge[d] \/ board'.edge[d] = None
  PROVE  IInv'
  <1>0. pc # "idle" /\ pc # "unwind" BY DEF IInv, Shape
  <1>1. UNCHANGED <<roll, choices, budget, opts, before, pc, unreversed>> BY DEF Advance, given
  <1>2. /\ Kept' = Kept /\ SoundRows \subseteq SoundRows'
        /\ \A o \in Objs : Free(Kept, board.home[o]) => Free(Kept', board'.home[o])
    BY <1>0, <1>1, Carried
  <1>3. OnRecord' = OnRecord BY <1>1 DEF OnRecord
  <1>4. Recordeds' BY <1>0, <1>1, <1>3, RecordsKept
  <1>5. Owed /\ Journaled /\ hand \in Objs \cup {None} /\ made \in SUBSET (Dprcs \cup Objs)
    BY <1>0, Running
  <1>6. journal' \in Seq(SoundRows') BY <1>2, <1>5 DEF Journaled
  <1>7. hand' # None => Free(Kept, board'.home[hand']) BY <1>2, <1>5 DEF Owed
  <1> QED BY <1>4, <1>5, <1>6, <1>7, VerbStep

\* A verb that records one row of what it did.
LEMMA RowVerb ==
  ASSUME IInv, queue # << >>, Advance, UNCHANGED given, UNCHANGED <<refused, hand>>,
         ~Mints(Head(queue)), Sane(Kept, board, board'),
         opts.allow < 2 => Gentle(before, board, board'), NamesStand',
         NEW row \in SoundRows, journal' = journal \o <<row>>,
         made' \in SUBSET (Dprcs \cup Objs), \A x \in made' \ made : Makes(row, x),
         \A d \in Dpnis : board'.edge[d] = board.edge[d] \/ board'.edge[d] = None \/ Wires(row, d)
  PROVE  IInv'
  <1>0. pc # "idle" /\ pc # "unwind" BY DEF IInv, Shape
  <1>1. UNCHANGED <<roll, choices, budget, opts, before, pc, unreversed>> BY DEF Advance, given
  <1>2. /\ Kept' = Kept /\ SoundRows \subseteq SoundRows'
        /\ \A o \in Objs : Free(Kept, board.home[o]) => Free(Kept', board'.home[o])
    BY <1>0, <1>1, Carried
  <1>3. Owed /\ journal \in Seq(SoundRows) /\ hand \in Objs \cup {None}
    BY <1>0, Running DEF Journaled
  <1>4. journal' \in Seq(SoundRows) /\ ToSet(journal') = ToSet(journal) \cup {row} BY <1>3, Grown
  <1>5. OnRecord \subseteq OnRecord' /\ row \in OnRecord' BY <1>1, <1>4 DEF OnRecord
  <1>6. Recordeds' BY <1>0, <1>1, <1>5, RecordsKept
  <1>7. journal' \in Seq(SoundRows') BY <1>2, <1>4
  <1>8. hand' # None => Free(Kept, board'.home[hand']) BY <1>2, <1>3 DEF Owed
  <1> QED BY <1>3, <1>6, <1>7, <1>8, VerbStep

(* The verbs, one lemma for those that take the same argument. *)

LEMMA HeadSound ==
  ASSUME IInv, queue # << >>
  PROVE  /\ pc \notin {"idle", "unwind"} /\ V \in Sound /\ V \in Verbs
         /\ NeedsHand(V) => hand # None
         /\ V.op \notin {"spawn", "verdict", "done", "pruneVerdict"} =>
              V.on \in Dprcs /\ V.on \notin Kept
         /\ hand # None => hand \in Objs /\ Free(Kept, board.home[hand])
         /\ V.obj # None => V.obj \in Objs /\ Free(Kept, board.home[V.obj])
         /\ opts.allow < 2 => /\ V.op \in {"connect", "judge", "kernelBind", "override", "bind", "done"}
                              /\ V.op = "connect" => V.obj # None
                              /\ V.op \in {"kernelBind", "override", "bind"} =>
                                   before.driver[V.on] # "vfio"
  <1>1. pc \notin {"idle", "unwind"} BY DEF IInv, Shape
  <1>2. queue \in Seq(Sound) /\ LedBy(hand, queue) /\ hand \in Objs \cup {None}
        /\ (hand # None => Free(Kept, board.home[hand]))
    BY <1>1, Running DEF Owed
  <1>3. V \in Sound /\ Len(queue) \in Nat /\ Len(queue) # 0 /\ V = queue[1] BY <1>2 DEF V
  <1>4. NeedsHand(V) => hand # None
    <2>1. 1 \in 1..Len(queue) /\ 1..(1-1) = {} BY <1>3
    <2> QED BY <1>2, <1>3, <2>1 DEF LedBy
  <1>5. V \in Verbs BY <1>3 DEF Sound, SoundFor
  <1> HIDE DEF V
  <1> QED BY <1>1, <1>2, <1>3, <1>4, <1>5 DEF Sound, SoundFor, Verbs

\* A verb that reads back and changes nothing.
LEMMA ReadStep ==
  ASSUME IInv, Verdict \/ JudgeChild, UNCHANGED given
  PROVE  IInv'
  <1>1. /\ queue # << >> /\ Advance /\ UNCHANGED <<board, refused, hand, journal, made>>
        /\ V.op \in {"verdict", "judge"}
    BY DEF Verdict, JudgeChild, Next1, V
  <1>2. pc # "idle" /\ UNCHANGED <<roll, choices, budget, opts, before, pc>>
    BY <1>1, HeadSound DEF Advance, given
  <1>3. board \in Boards /\ Kept \in SUBSET Dprcs BY <1>2, Running
  <1>4. Sane(Kept, board, board') BY <1>1, <1>3, SaneStill
  <1>5. Gentle(before, board, board') BY <1>1 DEF Gentle
  <1>6. NamesStand' BY <1>1, <1>2, NamesStill
  <1>7. ~Mints(Head(queue)) BY <1>1 DEF Mints, V
  <1> QED BY <1>1, <1>4, <1>5, <1>6, <1>7, PlainVerb

\* What the spawns a create and a connect end with do to the board.
LEMMA SpawnBoard ==
  ASSUME IInv, Next1("spawn"), NEW c \in Dprcs \ board.live, board' = Spawned(board, c, V.arg)
  PROVE  /\ c \notin before.live /\ ~(opts.allow < 2)
         /\ Sane(Kept, board, board') /\ board'.edge = board.edge
         /\ UNCHANGED <<roll, opts, before>> => NamesStand'
  <1>1. queue # << >> /\ V.op = "spawn" BY DEF Next1, V
  <1>3. /\ board \in Boards /\ Kept \in SUBSET Dprcs /\ Kept \subseteq board.live /\ NamesStand
    BY <1>1, HeadSound, Running
  <1>4. PICK t \in Names : t = V.arg /\ t \in Unmade /\ pc = "containers"
    <2>1. V \in Sound /\ V \in Verbs BY <1>1, HeadSound
    <2>2. pc = "containers" /\ V.arg \in Unmade BY <1>1, <2>1 DEF Sound, SoundFor
    <2>3. Unmade \subseteq Names BY <2>2, Running, PlanAssumption DEF Unmade, Tenants, ToSet
    <2> QED BY <2>2, <2>3
  <1>5. c \notin before.live /\ c \in Dprcs \ Kept BY <1>3, <1>4 DEF NamesStand
  <1>6. board' = Spawned(board, c, t) BY <1>4
  <1>7. ~(opts.allow < 2) BY <1>1, HeadSound
  <1> HIDE DEF V
  <1>8. /\ Sane(Kept, board, board')
        /\ board'.live = board.live \cup {c} /\ board'.name = [board.name EXCEPT ![c] = t]
        /\ board'.home = board.home /\ board'.edge = board.edge
    <2>1. board \in Boards /\ Kept \in SUBSET Dprcs /\ t \in Names BY <1>3
    <2>2. c \in Dprcs \ Kept BY <1>5
    <2>3. Sane(Kept, board, board') BY <1>6, <2>1, <2>2, SpawnedSane
    <2>4. /\ board'.live = board.live \cup {c} /\ board'.name = [board.name EXCEPT ![c] = t]
          /\ board'.home = board.home /\ board'.edge = board.edge
      BY <1>6, <2>1 DEF Spawned, Boards
    <2> QED BY <2>3, <2>4
  <1>9. ASSUME UNCHANGED <<roll, opts, before>> PROVE NamesStand'
    <2>1. Unmade' = Unmade BY <1>9, KeptSame
    <2>2. \A k \in board'.live : /\ k = c \/ (k \in board.live /\ board'.name[k] = board.name[k])
                                 /\ k = c => board'.name[k] = t
      BY <1>3, <1>5, <1>8 DEF Boards
    <2>3. before.live \subseteq board.live BY <1>3, <1>4 DEF NamesStand
    <2> QED BY <1>3, <1>4, <1>5, <1>8, <1>9, <2>1, <2>2, <2>3 DEF NamesStand
  <1> QED BY <1>5, <1>7, <1>8, <1>9

LEMMA FinishBoard ==
  ASSUME IInv, queue # << >>,
         \/ V.op = "stamp" /\ board' = Stamped(board, hand, V.arg)
         \/ V.op = "plug" /\ board' = PluggedIn(board, hand)
  PROVE  /\ hand \in Objs /\ Free(Kept, board.home[hand]) /\ ~(opts.allow < 2)
         /\ Sane(Kept, board, board') /\ board'.live = board.live /\ board'.name = board.name
         /\ board'.home = board.home /\ board'.edge = board.edge
  <1>1. board \in Boards /\ Kept \in SUBSET Dprcs BY HeadSound, Running
  <1>2. PICK o \in Objs : o = hand /\ Free(Kept, board.home[o]) BY HeadSound DEF NeedsHand
  <1>3. /\ Sane(Kept, board, board')
        /\ board'.live = board.live /\ board'.name = board.name
        /\ board'.home = board.home /\ board'.edge = board.edge
    <2>1. CASE V.op = "stamp" /\ board' = Stamped(board, hand, V.arg)
      <3>1. PICK t \in Names : t = V.arg BY <2>1, HeadSound DEF Sound, SoundFor
      <3> QED BY <1>1, <1>2, <2>1, <3>1, BoardAssumption DEF Stamped, Sane, Boards, Free
    <2>2. CASE board' = PluggedIn(board, hand) BY <1>1, <1>2, <2>2, PluggedSane
    <2> QED BY <2>1, <2>2
  <1>4. ~(opts.allow < 2) BY HeadSound
  <1> QED BY <1>2, <1>3, <1>4

LEMMA ConnectBoard ==
  ASSUME IInv, Next1("connect"), CanConnect(board, Target, V.arg),
         board' = Joined(board, Target, V.arg)
  PROVE  /\ Target \in Objs /\ Free(Kept, board.home[Target])
         /\ opts.allow < 2 => Target \in Dpnis /\ before.edge[Target] = None
         /\ opts.allow < 2 => Gentle(before, board, board')
         /\ Sane(Kept, board, board') /\ board'.live = board.live /\ board'.name = board.name
         /\ \A d \in Dpnis : d # Target => board'.edge[d] = board.edge[d]
  <1>1. queue # << >> /\ V.op = "connect" BY DEF Next1, V
  <1>2. pc # "idle" BY <1>1, HeadSound
  <1>3. board \in Boards /\ Kept \in SUBSET Dprcs /\ GateHolds /\ before \in Boards BY <1>2, Running
  <1>4. PICK p \in Peers : p = V.arg BY <1>1, HeadSound DEF Sound, SoundFor
  <1>5. PICK o \in Objs : /\ o = Target /\ Free(Kept, board.home[o])
                          /\ opts.allow < 2 => o \in Dpnis
    <2>1. V.obj \in Dpnis \cup {None} BY <1>1, HeadSound DEF Sound, SoundFor
    <2>2. CASE V.obj = None BY <1>1, <2>2, HeadSound DEF NeedsHand, Target
    <2>3. CASE V.obj # None BY <1>1, <2>1, <2>3, HeadSound DEF Target
    <2> QED BY <2>2, <2>3
  <1>6. /\ Sane(Kept, board, board')
        /\ board'.live = board.live /\ board'.name = board.name /\ board'.home = board.home
        /\ board'.tag = board.tag /\ board'.plugged = board.plugged
        /\ board'.driver = board.driver /\ board'.edge = [board.edge EXCEPT ![o] = p]
    BY <1>3, <1>4, <1>5, JoinedSane
  <1>8. \A d \in Dpnis : d # o => board'.edge[d] = board.edge[d] BY <1>3, <1>6 DEF Boards
  <1>9. opts.allow < 2 => before.edge[o] = None
    <2>1. board.edge[o] = None BY <1>5 DEF CanConnect
    <2> QED BY <1>2, <1>3, <1>5, <2>1 DEF GateHolds
  <1>10. opts.allow < 2 => Gentle(before, board, board') BY <1>6, <1>8, <1>9 DEF Gentle
  <1> QED BY <1>5, <1>6, <1>8, <1>9, <1>10

LEMMA SpawnStep ==
  ASSUME IInv, Spawn, UNCHANGED given
  PROVE  IInv'
  <1>1. PICK c : /\ c = NextId(Dprcs \ board.live) /\ board' = Spawned(board, c, V.arg)
                 /\ journal' = journal \o <<Row("dprc", c, None)>> /\ made' = made \cup {c}
    BY DEF Spawn, Record
  <1>2. /\ queue # << >> /\ Advance /\ UNCHANGED <<refused, hand>> /\ V.op = "spawn"
        /\ Dprcs \ board.live # {} /\ Next1("spawn")
    BY DEF Spawn, Next1, V
  <1>3. pc # "idle" /\ UNCHANGED <<roll, choices, budget, opts, before, pc>>
    BY <1>2, HeadSound DEF Advance, given
  <1>4. made \in SUBSET (Dprcs \cup Objs) BY <1>3, Running
  <1>9. c \in Dprcs \ board.live BY <1>1, <1>2, NextIdIn, BoardAssumption
  <1>5. /\ c \notin before.live /\ ~(opts.allow < 2)
        /\ Sane(Kept, board, board') /\ board'.edge = board.edge /\ NamesStand'
    BY <1>1, <1>2, <1>3, <1>9, SpawnBoard
  <1>6. ~Mints(Head(queue)) BY <1>2 DEF Mints, V
  <1>7. PICK row : row = Row("dprc", c, None) OBVIOUS
  <1>8. row \in SoundRows /\ Makes(row, c)
    BY <1>5, <1>7, <1>9 DEF SoundRows, RowsFor, Rows, Row, Makes
  <1> QED BY <1>1, <1>2, <1>4, <1>5, <1>6, <1>7, <1>8, <1>9, RowVerb

LEMMA MintStep ==
  ASSUME IInv, NEW op \in {"mintDpni", "mintPool"}, NEW kind \in {Dpnis, Pool},
         Mint(op, kind), UNCHANGED given
  PROVE  IInv'
  <1> DEFINE o == NextId(FreeIds(board, kind))
  <1>1. /\ queue # << >> /\ Advance /\ UNCHANGED <<refused, journal, made>> /\ V.op = op
        /\ FreeIds(board, kind) # {} /\ hand' = o /\ board' = Minted(board, o, V.on)
    BY DEF Mint, Next1, V
  <1>2. o \in FreeIds(board, kind)
    <2>1. FreeIds(board, kind) \subseteq Nat BY BoardAssumption DEF FreeIds
    <2> QED BY <1>1, <2>1, NextIdIn
  <1> HIDE DEF o
  <1>3. o \in Objs /\ board.home[o] = None /\ o # None BY <1>2, BoardAssumption DEF FreeIds, Objs
  <1>4. pc # "idle" /\ pc # "unwind" /\ UNCHANGED <<roll, choices, budget, opts, before, pc, unreversed>>
    BY <1>1, HeadSound DEF Advance, given
  <1>5. /\ board \in Boards /\ Kept \in SUBSET Dprcs /\ made \in SUBSET (Dprcs \cup Objs)
        /\ journal \in Seq(SoundRows)
    BY <1>4, Running DEF Journaled
  <1>6. PICK c \in Dprcs \ Kept : c = V.on BY <1>1, HeadSound
  <1>7. /\ Sane(Kept, board, board')
        /\ board'.live = board.live /\ board'.name = board.name
        /\ board'.home = [board.home EXCEPT ![o] = c] /\ board'.edge = board.edge
    BY <1>1, <1>3, <1>5, <1>6, MintedSane, SMTT(30)
  <1>8. NamesStand' BY <1>4, <1>7, NamesStill
  <1>9. Recordeds'
    <2>1. OnRecord' = OnRecord BY <1>1, <1>4 DEF OnRecord
    <2> QED BY <1>1, <1>4, <1>7, <2>1, RecordsKept
  <1>10. ~(opts.allow < 2) BY <1>1, HeadSound
  <1>11. hand' \in Objs /\ hand' # None /\ Free(Kept, board'.home[hand'])
    <2>1. board'.home[o] = c BY <1>3, <1>5, <1>7 DEF Boards
    <2> QED BY <1>1, <1>3, <1>6, <2>1 DEF Free
  <1>12. journal' \in Seq(SoundRows')
    <2>1. SoundRows \subseteq SoundRows' BY <1>4, <1>7, Carried
    <2> QED BY <1>1, <1>5, <2>1
  <1> QED BY <1>1, <1>5, <1>7, <1>8, <1>9, <1>10, <1>11, <1>12, VerbStep

\* The label and the plug of the object just created; the last of the two is
\* what the recorder writes down.
LEMMA FinishStep ==
  ASSUME IInv, Stamp \/ Plug, UNCHANGED given
  PROVE  IInv'
  <1>1. /\ queue # << >> /\ Advance /\ UNCHANGED <<refused, hand>> /\ V.op \in {"stamp", "plug"}
        /\ \/ UNCHANGED <<journal, made>>
           \/ \E kind \in {"dpni", "pool"} : /\ journal' = journal \o <<Row(kind, V.on, hand)>>
                                             /\ made' = made \cup {hand}
    BY DEF Stamp, Plug, Next1, V, Created, Record, Recorded
  <1>3. pc # "idle" /\ pc # "unwind" /\ UNCHANGED <<roll, choices, budget, opts, before, pc, unreversed>>
    BY <1>1, HeadSound DEF Advance, given
  <1>4. made \in SUBSET (Dprcs \cup Objs) BY <1>3, Running
  <1>5. PICK o \in Objs : o = hand /\ Free(Kept, board.home[o]) BY <1>1, HeadSound DEF NeedsHand
  <1>6. /\ Sane(Kept, board, board') /\ ~(opts.allow < 2)
        /\ board'.live = board.live /\ board'.name = board.name
        /\ board'.home = board.home /\ board'.edge = board.edge
    BY <1>1, FinishBoard DEF Stamp, Plug, Next1, V
  <1>7. NamesStand' BY <1>3, <1>6, NamesStill
  <1>8. ~(opts.allow < 2) /\ ~Mints(Head(queue)) BY <1>1, <1>6 DEF Mints, V
  <1>9. CASE UNCHANGED <<journal, made>> BY <1>1, <1>6, <1>7, <1>8, <1>9, PlainVerb
  <1>10. CASE \E kind \in {"dpni", "pool"} : /\ journal' = journal \o <<Row(kind, V.on, hand)>>
                                             /\ made' = made \cup {hand}
    <2>1. PICK kind \in {"dpni", "pool"} : /\ journal' = journal \o <<Row(kind, V.on, hand)>>
                                           /\ made' = made \cup {hand}
      BY <1>10
    <2>2. PICK c \in Dprcs : c = V.on BY <1>1, HeadSound
    <2>3. PICK row : row = Row(kind, c, o) OBVIOUS
    <2>4. row \in SoundRows /\ Makes(row, o)
      BY <1>5, <1>8, <2>1, <2>2, <2>3 DEF SoundRows, RowsFor, Rows, Row, Makes
    <2>5. journal' = journal \o <<row>> /\ made' = made \cup {o} BY <1>5, <2>1, <2>2, <2>3
    <2> QED BY <1>1, <1>4, <1>5, <1>6, <1>7, <1>8, <2>4, <2>5, RowVerb
  <1> QED BY <1>1, <1>9, <1>10

LEMMA ConnectStep ==
  ASSUME IInv, Connect, UNCHANGED given
  PROVE  IInv'
  <1>1. /\ queue # << >> /\ Advance /\ UNCHANGED <<refused, hand, made>> /\ V.op = "connect"
        /\ journal' = journal \o <<Row("edge", V.on, Target)>>
    BY DEF Connect, Next1, Record, V
  <1>2. pc # "idle" /\ UNCHANGED <<roll, choices, budget, opts, before, pc>>
    BY <1>1, HeadSound DEF Advance, given
  <1>3. PICK o \in Objs : o = Target BY ConnectBoard DEF Connect
  <1>4. /\ Free(Kept, board.home[o]) /\ (opts.allow < 2 => o \in Dpnis /\ before.edge[o] = None)
        /\ opts.allow < 2 => Gentle(before, board, board')
        /\ Sane(Kept, board, board') /\ board'.live = board.live /\ board'.name = board.name
        /\ \A d \in Dpnis : d # o => board'.edge[d] = board.edge[d]
    BY <1>3, ConnectBoard DEF Connect
  <1>5. NamesStand' BY <1>2, <1>4, NamesStill
  <1>6. PICK row : row = Row("edge", V.on, o) OBVIOUS
  <1>7. row \in SoundRows /\ Wires(row, o)
    <2>1. V.on \in Dprcs BY <1>1, HeadSound
    <2> QED BY <1>4, <1>6, <2>1 DEF SoundRows, RowsFor, Rows, Row, Wires
  <1>8. journal' = journal \o <<row>> BY <1>1, <1>3, <1>6
  <1>9. ~Mints(Head(queue)) /\ \A x \in made' \ made : Makes(row, x) BY <1>1 DEF Mints, V
  <1>10. \A d \in Dpnis : board'.edge[d] = board.edge[d] \/ board'.edge[d] = None \/ Wires(row, d)
    BY <1>4, <1>7
  <1>11. made' \in SUBSET (Dprcs \cup Objs) BY <1>1, <1>2, Running
  <1> QED BY <1>1, <1>4, <1>5, <1>7, <1>8, <1>9, <1>10, <1>11, RowVerb

\* Below the gate only what no driver held is bound.
LEMMA BindStep ==
  ASSUME IInv, KernelBind \/ Override \/ Bind, UNCHANGED given
  PROVE  IInv'
  <1>1. /\ queue # << >> /\ Advance /\ UNCHANGED <<refused, hand, made>>
        /\ V.op \in {"kernelBind", "override", "bind"}
        /\ journal' = journal \o <<Row("bound", V.on, None)>>
    BY DEF KernelBind, Override, Bind, Next1, Record, V
  <1>2. pc # "idle" /\ UNCHANGED <<roll, choices, budget, opts, before, pc>>
    BY <1>1, HeadSound DEF Advance, given
  <1>3. /\ board \in Boards /\ Kept \in SUBSET Dprcs /\ made \in SUBSET (Dprcs \cup Objs)
        /\ GateHolds /\ before \in Boards
    BY <1>2, Running
  <1>4. PICK c \in Dprcs \ Kept : /\ c = V.on
                                  /\ opts.allow < 2 => before.driver[c] # "vfio"
    BY <1>1, HeadSound
  <1>5. /\ Sane(Kept, board, board')
        /\ board'.live = board.live /\ board'.name = board.name /\ board'.home = board.home
        /\ board'.tag = board.tag /\ board'.plugged = board.plugged /\ board'.edge = board.edge
        /\ \A k \in Dprcs : board'.driver[k] = board.driver[k] \/ board.driver[k] = "none"
    <2>0. "vfio" \in Drivers /\ "kernel" \in Drivers BY DEF Drivers
    <2>1. CASE board' = board BY <1>3, <2>1, SaneStill
    <2>2. CASE Override
      <3>1. board' = Overridden(board, c, "vfio") BY <1>4, <2>2 DEF Override
      <3> QED BY <1>3, <1>4, <2>0, <3>1, BoardAssumption
        DEF Overridden, Sane, Boards, Free
    <2>3. CASE Bind
      <3>1. board' = Bound(board, c, "vfio") /\ board.driver[c] = "none"
        BY <1>4, <2>3 DEF Bind, CanBind
      <3>2. board'.driver = [board.driver EXCEPT ![c] = "vfio"]
        BY <1>3, <1>4, <2>0, <3>1, BoundSane
      <3>3. \A k \in Dprcs : board'.driver[k] = board.driver[k] \/ board.driver[k] = "none"
        BY <1>3, <3>1, <3>2 DEF Boards
      <3> QED BY <1>3, <1>4, <2>0, <3>1, <3>3, BoardAssumption DEF Bound, Sane, Boards, Free
    <2>4. CASE board.driver[c] = "none" /\ board' = Bound(Overridden(board, c, "kernel"), c, "kernel")
      <3> DEFINE m == Overridden(board, c, "kernel")
      <3>1. /\ Sane(Kept, board, m) /\ m \in Boards
            /\ m.live = board.live /\ m.name = board.name /\ m.home = board.home /\ m.tag = board.tag
            /\ m.plugged = board.plugged /\ m.edge = board.edge /\ m.driver = board.driver
        <4>1. Sane(Kept, board, m) => m \in Boards BY DEF Sane
        <4> HIDE DEF Sane
        <4> QED BY <1>3, <1>4, <2>0, <4>1, OverriddenSane
      <3> HIDE DEF m
      <3>2. /\ Sane(Kept, m, board')
            /\ board'.live = m.live /\ board'.name = m.name /\ board'.home = m.home
            /\ board'.tag = m.tag /\ board'.plugged = m.plugged /\ board'.edge = m.edge
            /\ board'.driver = [m.driver EXCEPT ![c] = "kernel"]
        <4>1. m \in Boards /\ board' = Bound(m, c, "kernel") BY <2>4, <3>1 DEF m
        <4>2. Kept \in SUBSET Dprcs /\ c \in Dprcs \ Kept BY <1>3, <1>4
        <4> QED BY <2>0, <4>1, <4>2, BoundSane, SMTT(30)
      <3>4. \A k \in Dprcs : board'.driver[k] = board.driver[k] \/ board.driver[k] = "none"
        BY <1>3, <2>4, <3>1, <3>2 DEF Boards
      <3>5. Sane(Kept, board, board') BY <3>1, <3>2 DEF Sane, Free
      <3> QED BY <3>1, <3>2, <3>4, <3>5
    <2> QED BY <1>4, <2>1, <2>2, <2>3, <2>4 DEF KernelBind
  <1>6. opts.allow < 2 => Gentle(before, board, board')
    <2> SUFFICES ASSUME opts.allow < 2 PROVE Gentle(before, board, board') OBVIOUS
    <2>1. \A k \in before.live : k \in Dprcs /\ (before.driver[k] # "none" => board.driver[k] # "none")
      BY <1>2, <1>3 DEF GateHolds, Boards
    <2> QED BY <1>5, <2>1 DEF Gentle
  <1>7. NamesStand' BY <1>2, <1>5, NamesStill
  <1>8. PICK row : row = Row("bound", c, None) OBVIOUS
  <1>9. row \in SoundRows BY <1>4, <1>8 DEF SoundRows, RowsFor, Rows, Row
  <1>10. journal' = journal \o <<row>> /\ ~Mints(Head(queue)) BY <1>1, <1>4, <1>8 DEF Mints, V
  <1> QED BY <1>1, <1>3, <1>5, <1>6, <1>7, <1>9, <1>10, RowVerb

\* Consumers let go, edges and plugs are taken off, objects are destroyed: only
\* above the gate, and only in containers that are not kept.
LEMMA RemovalStep ==
  ASSUME IInv, queue # << >>, Advance, UNCHANGED given, UNCHANGED <<refused, hand, journal, made>>,
         V.op \in {"reclaim", "pruneForeign", "unbind", "release", "sever", "unplug"},
         Sane(Kept, board, board'), board'.live = board.live, board'.name = board.name,
         \A d \in Dpnis : board'.edge[d] = board.edge[d] \/ board'.edge[d] = None
  PROVE  IInv'
  <1>1. pc # "idle" /\ UNCHANGED <<roll, choices, budget, opts, before, pc>>
    BY HeadSound DEF Advance, given
  <1>2. NamesStand' BY <1>1, NamesStill
  <1>3. ~(opts.allow < 2) /\ ~Mints(Head(queue)) BY HeadSound DEF Mints, V
  <1> QED BY <1>2, <1>3, PlainVerb

LEMMA ShrinkStep ==
  ASSUME IInv, Reclaim \/ PruneForeign, UNCHANGED given
  PROVE  IInv'
  <1>1. /\ queue # << >> /\ Advance /\ UNCHANGED <<refused, hand, journal, made>>
        /\ V.op \in {"reclaim", "pruneForeign"}
    BY DEF Reclaim, PruneForeign, Next1, V
  <1>2. board \in Boards /\ Kept \in SUBSET Dprcs /\ V.on \in Dprcs /\ V.on \notin Kept
    BY <1>1, HeadSound, Running
  <1>3. PICK S \in SUBSET Objs : board' = Gone(board, S) /\ \A o \in S : board.home[o] = V.on
    <2>1. Managed(board, V.on) \in SUBSET Objs /\ Foreign(board, V.on) \in SUBSET Objs
      BY DEF Managed, Foreign, PoolRows, Residents
    <2>2. \A o \in Managed(board, V.on) \cup Foreign(board, V.on) : board.home[o] = V.on
      BY DEF Managed, Foreign, PoolRows, Residents
    <2>3. CASE Reclaim
      <3>1. PICK o \in Reclaimable(board, V.on) : board' = Gone(board, {o}) BY <2>3 DEF Reclaim
      <3>2. o \in Managed(board, V.on) BY <3>1 DEF Reclaimable
      <3>3. {o} \in SUBSET Objs /\ \A x \in {o} : board.home[x] = V.on BY <2>1, <2>2, <3>2
      <3> QED BY <3>1, <3>3
    <2>4. CASE PruneForeign
      <3>1. PICK o \in Foreign(board, V.on) \ board.drawn : board' = Gone(board, {o})
        BY <2>4 DEF PruneForeign
      <3>2. {o} \in SUBSET Objs /\ \A x \in {o} : board.home[x] = V.on BY <2>1, <2>2, <3>1
      <3> QED BY <3>1, <3>2
    <2> QED BY <2>3, <2>4
  <1>4. \A o \in S : Free(Kept, board.home[o]) BY <1>2, <1>3 DEF Free
  <1>5. /\ Sane(Kept, board, board')
        /\ board'.live = board.live /\ board'.name = board.name
        /\ board'.edge = [d \in Dpnis |-> IF d \in S THEN None ELSE board.edge[d]]
    <2>1. board' = Gone(board, S) /\ S \in SUBSET Objs BY <1>3
    <2> QED BY <1>2, <1>4, <2>1, BoardAssumption DEF Gone, Sane, Boards, Free, Objs
  <1>7. \A d \in Dpnis : board'.edge[d] = board.edge[d] \/ board'.edge[d] = None BY <1>5
  <1> QED BY <1>1, <1>5, <1>7, RemovalStep

LEMMA LetGoStep ==
  ASSUME IInv, Unbind \/ Release, UNCHANGED given
  PROVE  IInv'
  <1>1. /\ queue # << >> /\ Advance /\ UNCHANGED <<refused, hand, journal, made>>
        /\ V.op \in {"unbind", "release"}
    BY DEF Unbind, Release, Next1, V
  <1>2. board \in Boards /\ Kept \in SUBSET Dprcs BY <1>1, HeadSound, Running
  <1>3. PICK c \in Dprcs \ Kept : c = V.on BY <1>1, HeadSound
  <1>4. /\ Sane(Kept, board, board') /\ board'.live = board.live /\ board'.name = board.name
        /\ board'.edge = board.edge
    <2>1. CASE board' = board BY <1>2, <2>1, SaneStill
    <2>2. CASE board' = Unbound(board, c) BY <1>2, <1>3, <2>2, BoardAssumption
      DEF Unbound, Sane, Boards, Free, Drivers
    <2>3. CASE board' = VfioUnbound(board, c) BY <1>2, <1>3, <2>3, BoardAssumption
      DEF VfioUnbound, Overridden, Unbound, Sane, Boards, Free, Drivers
    <2> QED BY <1>3, <2>1, <2>2, <2>3 DEF Unbind, Release
  <1> QED BY <1>1, <1>4, RemovalStep

LEMMA DrainStep ==
  ASSUME IInv, Sever \/ UnplugResident, UNCHANGED given
  PROVE  IInv'
  <1>1. /\ queue # << >> /\ Advance /\ UNCHANGED <<refused, hand, journal, made>>
        /\ V.op \in {"sever", "unplug"}
    BY DEF Sever, UnplugResident, Next1, V
  <1>2. board \in Boards /\ Kept \in SUBSET Dprcs BY <1>1, HeadSound, Running
  <1>3. PICK o \in Objs : o = V.obj /\ Free(Kept, board.home[o])
    <2>1. V.obj # None BY <1>1, HeadSound DEF Sound, SoundFor
    <2> QED BY <1>1, <2>1, HeadSound
  <1>4. CASE Sever
    <2>1. board' = Severed(board, o) BY <1>3, <1>4 DEF Sever
    <2>2. /\ Sane(Kept, board, board') /\ board'.live = board.live /\ board'.name = board.name
          /\ board'.edge = [board.edge EXCEPT ![o] = None]
      BY <1>2, <1>3, <2>1, SeveredSane
    <2>3. \A d \in Dpnis : board'.edge[d] = board.edge[d] \/ board'.edge[d] = None
      BY <1>2, <2>2 DEF Boards
    <2> QED BY <1>1, <2>2, <2>3, RemovalStep
  <1>5. CASE UnplugResident
    <2>1. board' = Unplugged(board, o) BY <1>3, <1>5 DEF UnplugResident
    <2>2. /\ Sane(Kept, board, board')
          /\ board'.live = board.live /\ board'.name = board.name /\ board'.edge = board.edge
      BY <1>2, <1>3, <2>1, UnpluggedSane
    <2> QED BY <1>1, <2>2, RemovalStep
  <1> QED BY <1>4, <1>5

LEMMA DestroyStep ==
  ASSUME IInv, Destroy, UNCHANGED given
  PROVE  IInv'
  <1>1. /\ queue # << >> /\ Advance /\ UNCHANGED <<refused, hand, journal, made>>
        /\ V.op = "destroy" /\ board' = Removed(board, V.on)
    BY DEF Destroy, Next1, V
  <1>2. pc = "prune" /\ UNCHANGED <<roll, choices, budget, opts, before, pc>>
    BY <1>1, HeadSound DEF Advance, given, Sound, SoundFor
  <1>3. board \in Boards /\ Kept \in SUBSET Dprcs /\ NamesStand BY <1>2, Running
  <1>4. PICK c \in Dprcs \ Kept : c = V.on BY <1>1, HeadSound
  <1>5. /\ Sane(Kept, board, board')
        /\ board'.live = board.live \ {c} /\ board'.name = [board.name EXCEPT ![c] = None]
        /\ Sheds(board, board')
    <2>1. Sane(Kept, board, board') BY <1>1, <1>3, <1>4, RemovedSane
    <2> QED BY <1>1, <1>3, <1>4, <2>1 DEF Removed, Gone, Sheds, Boards
  <1>6. \A d \in Dpnis : board'.edge[d] = board.edge[d] \/ board'.edge[d] = None
    BY <1>5 DEF Sheds
  <1>7. NamesStand'
    <2>1. Unmade' = Unmade BY <1>2, KeptSame
    <2>2. \A k \in board'.live : k \in board.live /\ board'.name[k] = board.name[k]
      BY <1>3, <1>5 DEF Boards
    <2> QED BY <1>2, <1>3, <2>1, <2>2 DEF NamesStand
  <1>8. ~(opts.allow < 2) /\ ~Mints(Head(queue)) BY <1>1, HeadSound DEF Mints, V
  <1> QED BY <1>1, <1>5, <1>6, <1>7, <1>8, PlainVerb

(* The ends of a phase and of a run. *)

LEMMA NoBoardIn == NoBoard \in Boards
  BY BoardAssumption DEF NoBoard, Boards, Drivers

LEMMA EndStep ==
  ASSUME IInv, \E how : End(how), board' \in Boards, edits' \in Nat, faults' \in Nat, UNCHANGED given
  PROVE  IInv'
  <1>1. TypeOK /\ roll \in Rolls BY DEF IInv, Shape
  <1>2. /\ pc' = "idle" /\ opts' = None /\ queue' = << >> /\ hand' = None /\ journal' = << >>
        /\ unreversed' = {} /\ refused' = FALSE /\ before' = NoBoard /\ made' = {}
    BY DEF End
  <1>3. TypeOK'
    <2>1. board' \in Boards /\ before' \in Boards /\ choices' \subseteq Options
      BY <1>1, <1>2, NoBoardIn DEF TypeOK, given
    <2>2. /\ \A i \in DOMAIN queue' : queue'[i].on \in Dprcs \cup {None}
          /\ \A i \in DOMAIN journal' : journal'[i] \in Rows
      BY <1>2
    <2>3. refused' \in BOOLEAN BY <1>2
    <2> QED BY <1>1, <1>2, <2>1, <2>2, <2>3 DEF TypeOK, given
  <1> QED BY <1>1, <1>2, <1>3 DEF IInv, Shape, RunInv, given

\* Every end of a run without a rollback under way, a kill included.
LEMMA EndsStep ==
  ASSUME IInv, UNCHANGED given,
         \/ ContainersRefused \/ RefusePopulation \/ PruneNothing \/ PruneGateRefused
         \/ BelowDraw \/ PruneDone \/ UnwindDone \/ Killed
  PROVE  IInv'
  <1>1. edits \in Nat /\ faults \in Nat /\ board \in Boards BY DEF IInv, Shape, TypeOK
  <1>2. /\ \E how : End(how)
        /\ board' \in Boards /\ edits' \in Nat /\ faults' \in Nat
    BY <1>1 DEF ContainersRefused, RefusePopulation, PruneNothing, PruneGateRefused,
                BelowDraw, PruneDone, UnwindDone, Killed, Injected, budgets
  <1> QED BY <1>2, EndStep

\* A run that goes on in another phase owes nothing yet.
LEMMA TurnStep ==
  ASSUME IInv, pc # "idle", UNCHANGED given, pc' \in {"population", "prune", "unwind"},
         queue' = << >>, hand' = None,
         UNCHANGED <<opts, journal, unreversed, refused, before, made>>,
         Sane(Kept, board, board'), opts.allow < 2 => Gentle(before, board, board'),
         NamesStand', Recordeds', edits' \in Nat, faults' \in Nat
  PROVE  IInv'
  <1>1. roll \in Rolls /\ opts \in choices /\ Journaled BY Running
  <1>2. UNCHANGED <<roll, choices, budget, opts, before>> BY DEF given
  <1>4. board' \in Boards /\ SoundRows \subseteq SoundRows' /\ Untouched' BY <1>2, Carried
  <1>5. Owed'
    <2>1. queue' \in Seq(Sound') /\ LedBy(hand', queue') BY DEF LedBy
    <2> QED BY <2>1 DEF Owed
  <1>6. Journaled' BY <1>1, <1>4 DEF Journaled
  <1>8. GateHolds' BY GateStays
  <1>10. TypeOK BY DEF IInv, Shape
  <1>11. TypeOK' BY <1>2, <1>4, <1>10 DEF TypeOK
  <1>12. Shape' BY <1>1, <1>2, <1>11 DEF Shape
  <1> QED BY <1>4, <1>5, <1>6, <1>8, <1>12 DEF IInv, RunInv

LEMMA PhaseStep ==
  ASSUME IInv, pc # "idle", UNCHANGED given, pc' \in {"population", "prune", "unwind"},
         pc' = "population" => pc = "containers",
         pc' # "unwind" => pc # "unwind", queue' = << >>, hand' = None,
         UNCHANGED <<board, opts, journal, unreversed, refused, before, made>>,
         edits' \in Nat, faults' \in Nat
  PROVE  IInv'
  <1>1. board \in Boards /\ Kept \in SUBSET Dprcs /\ NamesStand /\ Recordeds BY Running
  <1>2. Sane(Kept, board, board') BY <1>1, SaneStill
  <1>3. Unmade' = Unmade BY KeptSame DEF given
  <1>4. NamesStand' BY <1>1, <1>3 DEF NamesStand
  <1>5. Recordeds' BY <1>1 DEF Recordeds, OnRecord, Standing, Stray, Rewired
  <1>6. Gentle(before, board, board') BY DEF Gentle
  <1> QED BY <1>2, <1>4, <1>5, <1>6, TurnStep

\* A refusal or a failure of a phase, under either policy.
LEMMA FailStep ==
  ASSUME IInv, Fail, pc \notin {"idle", "unwind"}, board' = board, edits' \in Nat, faults' \in Nat,
         UNCHANGED given
  PROVE  IInv'
  <1>1. CASE opts.policy = "abort" BY <1>1, EndStep DEF Fail, IInv, Shape, TypeOK
  <1>2. CASE opts.policy # "abort" BY <1>2, PhaseStep DEF Fail, history
  <1> QED BY <1>1, <1>2

\* A failure behind an effect leaves that effect, and no row of it.
LEMMA ErrStep ==
  ASSUME IInv, ErrsAfterEffect, UNCHANGED given
  PROVE  IInv'
  <1>1. /\ LastSpawn /\ Fail /\ edits' \in Nat /\ faults' \in Nat
        /\ UNCHANGED <<roll, choices, budget>>
    BY DEF IInv, Shape, TypeOK, ErrsAfterEffect, Injected, given
  <1>2. queue # << >> BY <1>1 DEF LastSpawn, Next1
  <1>3. pc \notin {"idle", "unwind"} /\ Recordeds BY <1>2, HeadSound, Running
  <1>4. /\ Sane(Kept, board, board') /\ (opts.allow < 2 => Gentle(before, board, board'))
        /\ UNCHANGED <<opts, before>> /\ pc' = "unwind" => NamesStand'
        /\ \E o : \A d \in Dpnis : d # o => board'.edge[d] = board.edge[d]
    <2>1. CASE Next1("spawn")
      <3>1. PICK c \in Dprcs \ board.live : board' = Spawned(board, c, V.arg)
        BY <1>1, <2>1, NextIdIn, BoardAssumption DEF LastSpawn, Next1
      <3> QED BY <1>1, <1>3, <2>1, <3>1, SpawnBoard
    <2>2. CASE Next1("stamp") \/ Next1("plug")
      <3>1. /\ Sane(Kept, board, board') /\ ~(opts.allow < 2) /\ board'.live = board.live
            /\ board'.name = board.name /\ board'.edge = board.edge
        BY <1>1, <1>2, <2>2, FinishBoard DEF LastSpawn, Next1, V
      <3> QED BY <1>1, <1>3, <3>1, NamesStill
    <2>3. CASE Next1("connect")
      <3>1. CanConnect(board, Target, V.arg) /\ board' = Joined(board, Target, V.arg)
        BY <1>1, <2>3 DEF LastSpawn, Next1
      <3>2. /\ opts.allow < 2 => Gentle(before, board, board')
            /\ Sane(Kept, board, board') /\ board'.live = board.live /\ board'.name = board.name
            /\ \A d \in Dpnis : d # Target => board'.edge[d] = board.edge[d]
        BY <2>3, <3>1, ConnectBoard
      <3> QED BY <1>1, <1>3, <3>2, NamesStill
    <2> QED BY <1>1, <2>1, <2>2, <2>3 DEF LastSpawn
  <1>5. CASE opts.policy = "abort" BY <1>1, <1>4, <1>5, EndStep DEF Fail, Sane
  <1>6. CASE opts.policy # "abort"
    <2>1. /\ pc' = "unwind" /\ queue' = << >> /\ hand' = None
          /\ UNCHANGED <<opts, journal, unreversed, refused, before, made>>
      BY <1>1, <1>6 DEF Fail, history
    <2>2. PICK o : \A d \in Dpnis : d # o => board'.edge[d] = board.edge[d] BY <1>4
    <2>3. OnRecord' = OnRecord BY <2>1 DEF OnRecord
    <2>4. \A d \in Stray' : d = o BY <1>3, <2>1, <2>2, <2>3 DEF Recordeds, Stray, Rewired
    <2>5. Recordeds' BY <1>3, <2>1, <2>3, <2>4 DEF Recordeds
    <2> QED BY <1>1, <1>3, <1>4, <2>1, <2>5, TurnStep
  <1> QED BY <1>5, <1>6

LEMMA StopStep ==
  ASSUME IInv, UNCHANGED given, Refused \/ VerbFails \/ PhaseDone
  PROVE  IInv'
  <1>1. edits \in Nat /\ faults \in Nat BY DEF IInv, Shape, TypeOK
  <1>2. CASE Refused
    <2>1. queue # << >> /\ Fail /\ board' = board /\ edits' = edits /\ faults' = faults
      BY <1>2 DEF Refused, Refusal, Next1, budgets
    <2> QED BY <1>1, <2>1, HeadSound, FailStep
  <1>3. CASE VerbFails BY <1>1, <1>3, FailStep DEF VerbFails, Injected
  <1>4. CASE PhaseDone
    <2>1. pc \notin {"idle", "unwind"} BY <1>4, HeadSound DEF PhaseDone, Next1
    <2> QED BY <1>1, <1>4, <2>1, PhaseStep DEF PhaseDone, history, budgets
  <1> QED BY <1>2, <1>3, <1>4

\* What is still owed was owed before: the board and the journal stand.
LEMMA CutStep ==
  ASSUME IInv, pc \notin {"idle", "unwind"}, UNCHANGED given,
         queue' \in Seq(Sound), LedBy(hand, queue'), refused' \in BOOLEAN,
         UNCHANGED <<board, pc, opts, hand, journal, unreversed, outcome, before, made, edits, faults>>
  PROVE  IInv'
  <1>3. /\ board \in Boards /\ before \in Boards /\ roll \in Rolls /\ opts \in choices
        /\ Kept \in SUBSET Dprcs /\ Owed /\ Journaled /\ NamesStand /\ GateHolds /\ Recordeds
    BY Running
  <1>4. UNCHANGED <<roll, choices, budget, opts, before>> /\ pc' = pc BY DEF given
  <1>5. Sane(Kept, board, board') BY <1>3, SaneStill
  <1>6. /\ Kept' = Kept /\ Unmade' = Unmade /\ SoundRows \subseteq SoundRows'
        /\ Sound \subseteq Sound' /\ Untouched'
    BY <1>4, <1>5, Carried
  <1>8. queue' \in Seq(Sound') BY <1>6
  <1>10. Owed' BY <1>3, <1>6, <1>8 DEF Owed
  <1>11. Journaled' BY <1>3, <1>6 DEF Journaled
  <1>12. NamesStand' /\ GateHolds' BY <1>3, <1>6 DEF NamesStand, GateHolds
  <1>13. Recordeds' BY <1>3 DEF Recordeds, OnRecord, Standing, Stray, Rewired
  <1>14. TypeOK BY DEF IInv, Shape
  <1>15. \A i \in DOMAIN queue' : queue'[i].on \in Dprcs \cup {None}
    <2>1. \A v \in Sound : v.on \in Dprcs \cup {None} BY DEF Sound, SoundFor, Verbs
    <2> QED BY <2>1
  <1>16. TypeOK' BY <1>4, <1>14, <1>15 DEF TypeOK
  <1>17. Shape' BY <1>3, <1>4, <1>16 DEF Shape
  <1> QED BY <1>6, <1>10, <1>11, <1>12, <1>13, <1>17 DEF IInv, RunInv

\* A candidate of the prune is given up.
LEMMA GivenUpStep ==
  ASSUME IInv, TeardownRefused, UNCHANGED given
  PROVE  IInv'
  <1> DEFINE K == {v \in ToSet(queue) : v.on # V.on}
  <1>1. /\ queue # << >> /\ V.op \in {"unplug", "destroy"} /\ queue' = Only(queue, K)
        /\ refused' = TRUE
        /\ UNCHANGED <<board, pc, opts, hand, journal, unreversed, outcome, before, made, edits, faults>>
    BY DEF TeardownRefused, Next1, V, history, budgets
  <1> HIDE DEF K
  <1>2. pc \notin {"idle", "unwind"} /\ pc = "prune" BY <1>1, HeadSound DEF Sound, SoundFor
  <1>7. queue' \in Seq(Sound)
    <2>1. queue \in Seq(Sound) BY <1>2, Running DEF Owed
    <2>2. << >> \in Seq(Sound) /\ (\A s, t \in Seq(Sound) : s \o t \in Seq(Sound))
          /\ \A x \in Sound \cap K : <<x>> \in Seq(Sound)
      OBVIOUS
    <2> QED BY <1>1, <2>1, <2>2, OnlyIn
  <1>9. LedBy(hand, queue')
    <2>1. \A v \in Sound : ~NeedsHand(v) BY <1>2 DEF Sound, SoundFor, NeedsHand
    <2>2. \A i \in 1..Len(queue') : queue'[i] \in Sound BY <1>7
    <2> QED BY <2>1, <2>2 DEF LedBy
  <1> QED BY <1>1, <1>2, <1>7, <1>9, CutStep

\* A shrink is refused: the prune of what is not ours and the end are all it owes.
LEMMA BelowStep ==
  ASSUME IInv, ReclaimRefused, UNCHANGED given
  PROVE  IInv'
  <1> DEFINE K == {v \in ToSet(queue) : v.op = "pruneForeign" /\ v.on = V.on}
             kept == Only(queue, K)
             below == Below(V.on)
  <1>1. /\ queue # << >> /\ V.op = "reclaim" /\ queue' = kept \o <<below>>
        /\ UNCHANGED <<board, pc, opts, hand, journal, unreversed, refused, outcome,
                       before, made, edits, faults>>
    BY DEF ReclaimRefused, Next1, V, history, budgets
  <1>2. pc \notin {"idle", "unwind"} /\ V.on \in Dprcs \ Kept /\ ~(opts.allow < 2)
    BY <1>1, HeadSound
  <1>3. below \in Sound /\ ~NeedsHand(below)
    <2>1. below.op = "belowDraw" /\ below.on = V.on /\ below.arg = None /\ below.obj = None
          /\ below \in Verbs
      BY <1>2 DEF Below, Verb, Verbs, Ops
    <2> HIDE DEF below
    <2> QED BY <1>2, <2>1 DEF Sound, SoundFor, NeedsHand
  <1>4. \A x \in K : x.op = "pruneForeign" OBVIOUS
  <1> HIDE DEF K, below
  <1>5. kept \in Seq(Sound \cap K)
    <2>1. queue \in Seq(Sound) BY <1>2, Running DEF Owed
    <2>2. << >> \in Seq(Sound \cap K)
          /\ (\A s, t \in Seq(Sound \cap K) : s \o t \in Seq(Sound \cap K))
          /\ \A x \in Sound \cap K : <<x>> \in Seq(Sound \cap K)
      OBVIOUS
    <2> QED BY <2>1, <2>2, OnlyIn
  <1> HIDE DEF kept
  <1>6. queue' \in Seq(Sound) /\ \A i \in 1..Len(queue') : ~NeedsHand(queue'[i])
    <2>1. kept \in Seq(Sound) /\ \A i \in 1..Len(kept) : kept[i] \in Sound \cap K BY <1>5
    <2>2. \A i \in 1..Len(kept) : ~NeedsHand(kept[i]) BY <1>4, <2>1 DEF NeedsHand
    <2> QED BY <1>1, <1>3, <2>1, <2>2
  <1>7. LedBy(hand, queue') BY <1>6 DEF LedBy
  <1>8. refused' \in BOOLEAN BY <1>1 DEF IInv, Shape, TypeOK
  <1> QED BY <1>1, <1>2, <1>6, <1>7, <1>8, CutStep

(* The rollback. *)

LEMMA UnwoundStep ==
  ASSUME IInv, pc = "unwind", journal # << >>, journal' = Rest, UNCHANGED given,
         UNCHANGED <<pc, opts, queue, hand, refused, before, made>>,
         unreversed' = unreversed \/ unreversed' = unreversed \cup {LastRow},
         Sane(Kept, board, board'), opts.allow < 2 => Gentle(before, board, board'),
         NamesStand', Recordeds', edits' \in Nat, faults' \in Nat
  PROVE  IInv'
  <1>1. UNCHANGED <<roll, choices, budget, opts, before>> BY DEF given
  <1>2. TypeOK /\ Shape /\ Journaled /\ Owed /\ opts \in choices BY Running DEF IInv, Shape
  <1>3. /\ board' \in Boards /\ Kept' = Kept /\ SoundRows \subseteq SoundRows' /\ Untouched'
    BY <1>1, Carried
  <1>4. GateHolds' BY <1>1, GateStays
  <1>5. journal' \in Seq(SoundRows) /\ LastRow \in SoundRows
    <2>1. journal \in Seq(SoundRows) BY <1>2 DEF Journaled
    <2> HIDE DEF SoundRows
    <2> QED BY <2>1, TakenBack DEF Rest, LastRow
  <1>6. Journaled' BY <1>3, <1>5 DEF Journaled
  <1>7. queue = << >> /\ hand = None BY <1>2 DEF Shape
  <1>8. Owed'
    <2>1. queue' \in Seq(Sound') /\ LedBy(hand', queue') BY <1>7 DEF LedBy
    <2> QED BY <1>7, <2>1 DEF Owed
  <1>9. SoundRows \subseteq Rows BY DEF SoundRows, RowsFor
  <1>10. /\ \A i \in DOMAIN journal' : journal'[i] \in Rows
         /\ unreversed' \subseteq Rows
    <2>1. unreversed \subseteq Rows BY <1>2 DEF TypeOK
    <2> HIDE DEF SoundRows, Rows
    <2>2. \A i \in DOMAIN journal' : journal'[i] \in Rows BY <1>5, <1>9
    <2>3. unreversed' \subseteq Rows BY <1>5, <1>9, <2>1
    <2> QED BY <2>2, <2>3
  <1>11. TypeOK' BY <1>1, <1>2, <1>3, <1>7, <1>10 DEF TypeOK
  <1>12. Shape' BY <1>1, <1>2, <1>7, <1>11 DEF Shape
  <1> QED BY <1>3, <1>4, <1>6, <1>8, <1>12 DEF IInv, RunInv

LEMMA LastOnRecord ==
  ASSUME IInv, pc = "unwind", journal # << >>, journal' = Rest
  PROVE  /\ LastRow \in SoundRows
         /\ ToSet(journal) = ToSet(journal') \cup {LastRow}
  <1>1. journal \in Seq(SoundRows) BY Running DEF Journaled
  <1> HIDE DEF SoundRows
  <1> QED BY <1>1, TakenBack DEF Rest, LastRow

\* What a row is undone of is not on the board any more.
LEMMA UndoneRecords ==
  ASSUME IInv, pc = "unwind", journal # << >>, journal' = Rest,
         UNCHANGED <<pc, unreversed, before, made>>,
         Sheds(board, board'), board'.live \subseteq board.live,
         \A x \in Standing' : ~Makes(LastRow, x),
         \A d \in Dpnis : Wires(LastRow, d) => board'.edge[d] = None
  PROVE  Recordeds'
  <1>1. Recordeds BY Running
  <1>2. OnRecord \subseteq OnRecord' \cup {LastRow} BY LastOnRecord DEF OnRecord
  <1>3. Standing' \subseteq Standing BY DEF Standing, Sheds
  <1>4. ASSUME NEW x \in made', x \in Standing' PROVE \E r \in OnRecord' : Makes(r, x)
    <2>1. PICK r \in OnRecord : Makes(r, x) BY <1>1, <1>3, <1>4 DEF Recordeds
    <2> QED BY <1>2, <1>4, <2>1
  <1>5. ASSUME NEW d \in Stray' PROVE d \in Stray BY <1>2, <1>5 DEF Stray, Rewired, Sheds
  <1> QED BY <1>1, <1>4, <1>5 DEF Recordeds

LEMMA UnwindStep ==
  ASSUME IInv, UnwindRow, UNCHANGED given
  PROVE  IInv'
  <1>1. /\ pc = "unwind" /\ journal # << >> /\ journal' = Rest /\ Undoable(board, LastRow)
        /\ board' = Undone(board, LastRow)
        /\ UNCHANGED <<pc, opts, queue, hand, unreversed, refused, before, made, edits, faults>>
    BY DEF UnwindRow, history, budgets
  <1>2. UNCHANGED <<roll, choices, budget, opts, before>> BY <1>1 DEF given
  <1>3. /\ board \in Boards /\ Kept \in SUBSET Dprcs /\ NamesStand /\ GateHolds
        /\ before \in Boards /\ edits \in Nat /\ faults \in Nat
    BY <1>1, Running
  <1>4. PICK row \in SoundRows : row = LastRow BY <1>1, LastOnRecord
  <1>5. row \in Rows BY <1>4 DEF SoundRows, RowsFor
  <1>6. CASE row.kind = "dprc"
    <2>1. PICK c \in Dprcs \ Kept : c = row.on /\ c \notin before.live /\ ~(opts.allow < 2)
      BY <1>4, <1>6, KeptStood DEF SoundRows, RowsFor
    <2>2. board' = Removed(board, c) BY <1>1, <1>4, <1>6, <2>1 DEF Undone
    <2>3. /\ Sane(Kept, board, board')
          /\ board'.live = board.live \ {c} /\ board'.name = [board.name EXCEPT ![c] = None]
          /\ Sheds(board, board')
      <3>1. Sane(Kept, board, board') BY <1>3, <2>1, <2>2, RemovedSane
      <3> QED BY <1>3, <2>1, <2>2, <3>1 DEF Removed, Gone, Sheds, Boards
    <2>4. NamesStand'
      <3>1. Unmade' = Unmade BY <1>2, KeptSame
      <3>2. \A k \in board'.live : k \in board.live /\ board'.name[k] = board.name[k]
        BY <1>3, <2>3 DEF Boards
      <3> QED BY <1>1, <1>3, <3>1, <3>2 DEF NamesStand
    <2>5. Recordeds'
      <3>1. \A x : Makes(row, x) => x = c BY <1>6, <2>1 DEF Makes
      <3>2. c \notin Standing' BY <2>1, <2>3, BoardAssumption DEF Standing, Objs
      <3>3. \A d \in Dpnis : ~Wires(row, d) BY <1>6 DEF Wires
      <3> QED BY <1>1, <1>4, <2>3, <3>1, <3>2, <3>3, UndoneRecords
    <2> QED BY <1>1, <1>3, <2>1, <2>3, <2>4, <2>5, UnwoundStep
  <1>7. CASE row.kind \in {"dpni", "pool"}
    <2>1. PICK o \in Objs : o = row.obj /\ Free(Kept, board.home[o]) /\ ~(opts.allow < 2)
      BY <1>4, <1>7 DEF SoundRows, RowsFor
    <2>2. board' = Gone(board, {o}) BY <1>1, <1>4, <1>7, <2>1 DEF Undone
    <2>3. /\ Sane(Kept, board, board') /\ board'.live = board.live /\ board'.name = board.name
          /\ board'.home = [x \in Objs |-> IF x \in {o} THEN None ELSE board.home[x]]
          /\ board'.edge = [d \in Dpnis |-> IF d \in {o} THEN None ELSE board.edge[d]]
      <3>1. {o} \in SUBSET Objs /\ \A x \in {o} : Free(Kept, board.home[x]) BY <2>1
      <3> QED BY <1>3, <2>2, <3>1, GoneSane
    <2>4. NamesStand' BY <1>1, <1>2, <2>3, NamesStill
    <2>5. Sheds(board, board') BY <2>3 DEF Sheds
    <2>6. Recordeds'
      <3>1. \A x : Makes(row, x) => x = o BY <1>7, <2>1 DEF Makes
      <3>2. o \notin Standing' BY <1>3, <2>1, <2>3, BoardAssumption DEF Standing, Objs, Boards
      <3>3. \A d \in Dpnis : ~Wires(row, d) BY <1>7 DEF Wires
      <3> QED BY <1>1, <1>4, <2>3, <2>5, <3>1, <3>2, <3>3, UndoneRecords
    <2> QED BY <1>1, <1>3, <2>1, <2>3, <2>4, <2>6, UnwoundStep
  <1>8. CASE row.kind = "edge"
    <2>1. PICK o \in Objs : /\ o = row.obj /\ Free(Kept, board.home[o])
                            /\ opts.allow < 2 => o \in Dpnis /\ before.edge[o] = None
      BY <1>4, <1>8 DEF SoundRows, RowsFor
    <2>2. board' = Severed(board, o) BY <1>1, <1>4, <1>8, <2>1 DEF Undone
    <2>3. /\ Sane(Kept, board, board')
          /\ board'.live = board.live /\ board'.name = board.name /\ board'.home = board.home
          /\ board'.tag = board.tag /\ board'.plugged = board.plugged
          /\ board'.driver = board.driver /\ board'.edge = [board.edge EXCEPT ![o] = None]
      BY <1>3, <2>1, <2>2, SeveredSane, SMTT(30)
    <2>4. NamesStand' BY <1>1, <1>2, <2>3, NamesStill
    <2>5. \A d \in Dpnis : board'.edge[d] = IF d = o THEN None ELSE board.edge[d]
      BY <1>3, <2>3 DEF Boards
    <2>6. Sheds(board, board') BY <2>3, <2>5 DEF Sheds
    <2>7. Recordeds'
      <3>1. \A d \in Dpnis : Wires(row, d) => board'.edge[d] = None BY <2>1, <2>5 DEF Wires
      <3>2. \A x : ~Makes(row, x) BY <1>8 DEF Makes
      <3> QED BY <1>1, <1>4, <2>3, <2>6, <3>1, <3>2, UndoneRecords
    <2>8. opts.allow < 2 => Gentle(before, board, board') BY <2>1, <2>3, <2>5 DEF Gentle
    <2> QED BY <1>1, <1>3, <2>3, <2>4, <2>7, <2>8, UnwoundStep
  <1>9. CASE row.kind = "bound"
    <2>1. PICK c \in Dprcs \ Kept : c = row.on /\ (opts.allow < 2 => before.driver[c] # "vfio")
      BY <1>4, <1>9 DEF SoundRows, RowsFor
    <2>2. board' = VfioUnbound(board, c) /\ board.driver[c] = "vfio"
      BY <1>1, <1>4, <1>9, <2>1 DEF Undone, Undoable
    <2>3. /\ Sane(Kept, board, board')
          /\ board'.live = board.live /\ board'.name = board.name /\ board'.home = board.home
          /\ board'.tag = board.tag /\ board'.plugged = board.plugged
          /\ board'.edge = board.edge /\ board'.driver = [board.driver EXCEPT ![c] = "none"]
      BY <1>3, <2>1, <2>2, VfioUnboundSane
    <2>4. NamesStand' BY <1>1, <1>2, <2>3, NamesStill
    <2>5. Recordeds'
      <3>1. (\A d \in Dpnis : ~Wires(row, d)) /\ \A x : ~Makes(row, x) BY <1>9 DEF Makes, Wires
      <3>2. Sheds(board, board') BY <2>3 DEF Sheds
      <3> QED BY <1>1, <1>4, <2>3, <3>1, <3>2, UndoneRecords
    <2>6. opts.allow < 2 => Gentle(before, board, board')
      <3> SUFFICES ASSUME opts.allow < 2 PROVE Gentle(before, board, board') OBVIOUS
      <3>1. \A k \in before.live : before.driver[k] # "none" => k # c
        BY <1>1, <1>3, <2>1, <2>2 DEF GateHolds
      <3>2. \A k \in Dprcs : k # c => board'.driver[k] = board.driver[k] BY <1>3, <2>3 DEF Boards
      <3>3. before.live \subseteq Dprcs BY <1>3 DEF Boards
      <3> QED BY <2>3, <3>1, <3>2, <3>3 DEF Gentle
    <2> QED BY <1>1, <1>3, <2>3, <2>4, <2>5, <2>6, UnwoundStep
  <1> QED BY <1>5, <1>6, <1>7, <1>8, <1>9 DEF Rows

LEMMA UnreversedStep ==
  ASSUME IInv, UnwindRowFails, UNCHANGED given
  PROVE  IInv'
  <1>1. /\ pc = "unwind" /\ journal # << >> /\ journal' = Rest
        /\ unreversed' = unreversed \cup {LastRow}
        /\ UNCHANGED <<board, pc, opts, queue, hand, refused, before, made, edits>>
        /\ faults' = faults \/ faults' = faults + 1
    BY DEF UnwindRowFails, Injected, history
  <1>2. UNCHANGED <<roll, choices, budget, opts, before>> BY <1>1 DEF given
  <1>3. /\ board \in Boards /\ Kept \in SUBSET Dprcs /\ Recordeds
        /\ edits \in Nat /\ faults \in Nat
    BY <1>1, Running
  <1>4. Sane(Kept, board, board') /\ Gentle(before, board, board')
    BY <1>1, <1>3, SaneStill DEF Gentle
  <1>5. NamesStand' BY <1>1, <1>2, NamesStill
  <1>6. OnRecord' = OnRecord BY <1>1, LastOnRecord DEF OnRecord
  <1>7. Recordeds' BY <1>1, <1>3, <1>6 DEF Recordeds, Standing, Stray, Rewired
  <1>8. edits' \in Nat /\ faults' \in Nat BY <1>1, <1>3
  <1> QED BY <1>1, <1>4, <1>5, <1>7, <1>8, UnwoundStep

(* The start of a run, and what happens around it. *)

LEMMA StartStep ==
  ASSUME IInv, Start, UNCHANGED given
  PROVE  IInv'
  <1>1. /\ pc = "idle" /\ opts' \in choices /\ pc' = "containers" /\ before' = board
        /\ UNCHANGED <<board, queue, hand, journal, unreversed, refused, made, edits, faults>>
        /\ UNCHANGED <<roll, choices, budget>>
    BY DEF Start, given, budgets
  <1>2. /\ TypeOK /\ roll \in Rolls /\ queue = << >> /\ hand = None /\ journal = << >>
        /\ unreversed = {} /\ made = {}
    BY <1>1 DEF IInv, Shape
  <1>3. TypeOK' BY <1>1, <1>2 DEF TypeOK
  <1>4. Shape' BY <1>1, <1>2, <1>3 DEF Shape
  <1>5. Owed' /\ Journaled'
    <2>1. queue' \in Seq(Sound') /\ LedBy(hand', queue') /\ journal' \in Seq(SoundRows')
      BY <1>1, <1>2 DEF LedBy
    <2> QED BY <1>1, <1>2, <2>1 DEF Owed, Journaled
  <1>6. NamesStand' /\ GateHolds' /\ Recordeds'
    BY <1>1, <1>2 DEF NamesStand, GateHolds, Recordeds, Stray, Rewired
  <1>7. Untouched' BY <1>1 DEF Untouched, Kept, Shielded
  <1> QED BY <1>4, <1>5, <1>6, <1>7, SMTT(30) DEF IInv, RunInv

\* The bus and the consumers change nothing a run promises about.
LEMMA AroundStep ==
  ASSUME IInv, UNCHANGED given,
         (\E c \in Dprcs : Scan(c)) \/ (\E o \in Pool : Draw(o))
  PROVE  IInv'
  <1>1. TypeOK /\ Shape BY DEF IInv, Shape
  <1>2. /\ board' \in Boards
        /\ board'.live = board.live /\ board'.name = board.name /\ board'.home = board.home
        /\ board'.tag = board.tag /\ board'.plugged = board.plugged /\ board'.edge = board.edge
        /\ board'.driver = board.driver /\ board'.over = board.over
    BY <1>1 DEF TypeOK, Boards, Scan, Draw
  <1>3. UNCHANGED <<roll, choices, budget, pc, opts, queue, hand, journal, unreversed, refused,
                    before, made, edits, faults>>
    BY DEF Scan, Draw, Environment, engine, history, given
  <1>4. TypeOK' BY <1>1, <1>2, <1>3 DEF TypeOK
  <1>5. Shape' BY <1>1, <1>3, <1>4 DEF Shape
  <1>6. CASE pc = "idle" BY <1>3, <1>5, <1>6 DEF IInv, RunInv
  <1>7. CASE pc # "idle"
    <2>1. /\ board \in Boards /\ Kept \in SUBSET Dprcs /\ Owed /\ Journaled /\ NamesStand
          /\ GateHolds /\ Recordeds
      BY <1>7, Running
    <2>2. Sane(Kept, board, board') /\ Gentle(before, board, board') BY <1>2, <2>1 DEF Sane, Gentle
    <2>3. /\ Kept' = Kept /\ SoundRows \subseteq SoundRows' /\ Sound \subseteq Sound'
          /\ (\A o \in Objs : Free(Kept, board.home[o]) => Free(Kept', board'.home[o]))
          /\ Untouched'
      BY <1>3, <1>7, <2>2, Carried
    <2>4. NamesStand' /\ GateHolds' BY <1>2, <1>3, <1>7, <2>2, NamesStill, GateStays
    <2>5. Journaled' BY <1>3, <2>1, <2>3 DEF Journaled
    <2>6. Owed'
      <3>1. queue' \in Seq(Sound') BY <1>3, <2>1, <2>3 DEF Owed
      <3> QED BY <1>1, <1>2, <1>3, <2>1, <2>3, <3>1 DEF Owed, TypeOK
    <2>7. Recordeds' BY <1>2, <1>3, <2>1 DEF Recordeds, OnRecord, Standing, Stray, Rewired
    <2> QED BY <1>5, <2>3, <2>4, <2>5, <2>6, <2>7 DEF IInv, RunInv
  <1> QED BY <1>6, <1>7

\* The id a stranger's companion takes, or 0 when the pool has none left.
LEMMA Spare ==
  ASSUME NEW b
  PROVE  Max(FreeIds(b, Pool) \cup {0}) \in FreeIds(b, Pool) \cup {0}
  <1> DEFINE F == FreeIds(b, Pool)
             S == F \cup {0}
  <1>1. F \subseteq Pool BY DEF FreeIds
  <1>2. Pool \subseteq Nat /\ IsFiniteSet(Pool) BY BoardAssumption
  <1> HIDE DEF F
  <1>3. IsFiniteSet(S) BY <1>1, <1>2, FS_Subset, FS_AddElement
  <1>4. S \subseteq Nat /\ S # {} BY <1>1, <1>2
  <1> HIDE DEF S
  <1>5. Max(S) \in S BY <1>3, <1>4, MaxIn
  <1> QED BY <1>5 DEF S, F

\* What an edit of others is, one disjunct per kind.
LEMMA EditedIs ==
  ASSUME board' \in Edited
  PROVE  \/ \E c \in board.live, n \in Names : board' = [board EXCEPT !.name[c] = n]
         \/ \E o \in Objs : board.home[o] \in Open /\ board' = Gone(board, {o})
         \/ \E o \in Objs, c \in Open, n \in Names :
              board.home[o] = None /\ board' = PluggedIn(Stamped(Minted(board, o, c), o, n), o)
         \/ \E c \in Open : board' = [board EXCEPT !.locked = @ \cup {c}]
         \/ \E c \in board.locked : board' = [board EXCEPT !.locked = @ \ {c}]
         \/ \E c \in board.live : board' = Unbound(board, c)
  <1> DEFINE Named == {[board EXCEPT !.name[c] = n] : c \in board.live, n \in Names \ Peers}
             Withdrawn == {Gone(board, {o}) : o \in {x \in Objs :
                             board.home[x] \in Open /\ x \notin board.drawn}}
             Added == {PluggedIn(Stamped(Minted(board, x[1], x[2]), x[1], n), x[1]) :
                x \in ({Max(FreeIds(board, Pool) \cup {0})} \ {0}) \X Open, n \in Names \ Peers}
             Locked == {[board EXCEPT !.locked = @ \cup {c}] : c \in Open}
             Unlocked == {[board EXCEPT !.locked = @ \ {c}] : c \in board.locked}
             LetGo == {Unbound(board, c) : c \in {x \in board.live : board.driver[x] # "none"}}
  <1>1. Edited = Named \cup Withdrawn \cup Added \cup Locked \cup Unlocked \cup LetGo BY DEF Edited
  <1>2. board' \in Named => \E c \in board.live, n \in Names : board' = [board EXCEPT !.name[c] = n]
    OBVIOUS
  <1>3. board' \in Withdrawn =>
          \E o \in Objs : board.home[o] \in Open /\ board' = Gone(board, {o})
    OBVIOUS
  <1>4. board' \in Added =>
          \E o \in Objs, c \in Open, n \in Names :
            board.home[o] = None /\ board' = PluggedIn(Stamped(Minted(board, o, c), o, n), o)
    <2> DEFINE F == {Max(FreeIds(board, Pool) \cup {0})} \ {0}
    <2>1. \A o \in F : o \in Objs /\ board.home[o] = None BY Spare DEF FreeIds, Objs
    <2>2. board' \in Added => \E x \in F \X Open, n \in Names :
                               board' = PluggedIn(Stamped(Minted(board, x[1], x[2]), x[1], n), x[1])
      OBVIOUS
    <2> HIDE DEF F, Added
    <2>3. \A x \in F \X Open : x[1] \in F /\ x[2] \in Open OBVIOUS
    <2> QED BY <2>1, <2>2, <2>3
  <1>5. board' \in Locked => \E c \in Open : board' = [board EXCEPT !.locked = @ \cup {c}] OBVIOUS
  <1>6. board' \in Unlocked => \E c \in board.locked : board' = [board EXCEPT !.locked = @ \ {c}]
    OBVIOUS
  <1>7. board' \in LetGo => \E c \in board.live : board' = Unbound(board, c) OBVIOUS
  <1> HIDE DEF Named, Withdrawn, Added, Locked, Unlocked, LetGo
  <1>8. \/ board' \in Named \/ board' \in Withdrawn \/ board' \in Added
        \/ board' \in Locked \/ board' \in Unlocked \/ board' \in LetGo
    BY <1>1
  <1> QED BY <1>2, <1>3, <1>4, <1>5, <1>6, <1>7, <1>8

\* The operator edits between runs only.
LEMMA EditStep ==
  ASSUME IInv, OperatorEdits, UNCHANGED given
  PROVE  IInv'
  <1>1. /\ pc = "idle" /\ board' \in Edited /\ edits' = edits + 1
        /\ UNCHANGED <<roll, choices, budget, pc, opts, queue, hand, journal, unreversed, refused,
                       before, made, faults>>
    BY DEF OperatorEdits, Environment, engine, history, given
  <1>2. TypeOK /\ Shape /\ board \in Boards BY DEF IInv, Shape, TypeOK
  <1>3. board' \in Boards
    <2>0. {} \in SUBSET Dprcs /\ board.live \subseteq Dprcs BY <1>2 DEF Boards
    <2>1. ASSUME NEW c \in board.live, NEW n \in Names
          PROVE  [board EXCEPT !.name[c] = n] \in Boards
      BY <1>2, <2>0 DEF Boards
    <2>2. ASSUME NEW o \in Objs PROVE Gone(board, {o}) \in Boards
      <3>1. {o} \in SUBSET Objs /\ \A x \in {o} : Free({}, board.home[x]) BY DEF Free
      <3>2. Sane({}, board, Gone(board, {o})) BY <1>2, <2>0, <3>1, GoneSane
      <3> QED BY <3>2 DEF Sane
    <2>3. ASSUME NEW o \in Objs, NEW c \in Open, NEW n \in Names
          PROVE  PluggedIn(Stamped(Minted(board, o, c), o, n), o) \in Boards
      <3>4. c \in Dprcs BY <2>0 DEF Open
      <3> DEFINE m == Minted(board, o, c)
      <3>5. m \in Boards BY <1>2, <3>4 DEF Minted, Boards
      <3> HIDE DEF m
      <3> DEFINE t == Stamped(m, o, n)
      <3>6. t \in Boards BY <3>5 DEF Stamped, Boards
      <3> HIDE DEF t
      <3>7. PluggedIn(t, o) \in Boards BY <3>6 DEF PluggedIn, Boards
      <3> QED BY <3>7 DEF m, t
    <2>4. ASSUME NEW c \in Dprcs
          PROVE  /\ [board EXCEPT !.locked = @ \cup {c}] \in Boards
                 /\ [board EXCEPT !.locked = @ \ {c}] \in Boards
      BY <1>2 DEF Boards
    <2>5. ASSUME NEW c \in board.live PROVE Unbound(board, c) \in Boards
      BY <1>2, <2>0 DEF Unbound, Boards, Drivers
    <2>6. Open \subseteq Dprcs /\ board.locked \subseteq Dprcs BY <1>2 DEF Open, Boards
    <2> QED BY <1>1, <2>1, <2>2, <2>3, <2>4, <2>5, <2>6, EditedIs
  <1>4. TypeOK' BY <1>1, <1>2, <1>3 DEF TypeOK
  <1>5. Shape' BY <1>1, <1>2, <1>4 DEF Shape
  <1> QED BY <1>1, <1>5 DEF IInv, RunInv

-----------------------------------------------------------------------------
(* The plans: whatever a phase computes from a reading of the board is owed *)
(* soundly, and no verb comes before the one that creates its object.       *)

Plans == {q \in Seq(Sound) : LedBy(None, q)}

LEMMA PlansJoin ==
  /\ << >> \in Plans
  /\ \A s, t \in Plans : s \o t \in Plans
  <1>1. << >> \in Plans BY DEF Plans, LedBy
  <1>2. ASSUME NEW s \in Plans, NEW t \in Plans PROVE s \o t \in Plans
    <2> DEFINE u == s \o t
    <2>1. s \in Seq(Sound) /\ t \in Seq(Sound) /\ LedBy(None, s) /\ LedBy(None, t) BY DEF Plans
    <2> HIDE DEF Sound, u
    <2>2. u \in Seq(Sound) /\ \A i \in 1..Len(u) : InFirst(s, u, i) \/ InSecond(s, t, u, i)
      BY <2>1, Splits DEF u
    <2>3. ASSUME NEW i \in 1..Len(u), NeedsHand(u[i]) PROVE \E j \in 1..(i-1) : Mints(u[j])
      <3>1. CASE InFirst(s, u, i)
        <4>1. i \in 1..Len(s) /\ NeedsHand(s[i]) /\ \A j \in 1..(i-1) : u[j] = s[j]
          BY <2>3, <3>1 DEF InFirst
        <4> QED BY <2>1, <4>1 DEF LedBy
      <3>2. CASE InSecond(s, t, u, i)
        <4>1. PICK k \in 1..Len(t) : /\ u[i] = t[k]
                /\ \A j \in 1..(k-1) : j + Len(s) \in 1..(i-1) /\ u[j + Len(s)] = t[j]
          BY <3>2 DEF InSecond
        <4>2. PICK j \in 1..(k-1) : Mints(t[j]) BY <2>1, <2>3, <4>1 DEF LedBy
        <4> QED BY <4>1, <4>2
      <3> QED BY <2>2, <3>1, <3>2
    <2>4. LedBy(None, u) BY <2>3 DEF LedBy
    <2> QED BY <2>2, <2>4 DEF Plans, u
  <1> QED BY <1>1, <1>2

LEMMA PlainPlan ==
  ASSUME NEW n \in Nat, NEW q \in [1..n -> Sound], \A i \in 1..n : ~NeedsHand(q[i])
  PROVE  q \in Plans
  <1> HIDE DEF Sound
  <1>1. q \in Seq(Sound) /\ Len(q) = n OBVIOUS
  <1> QED BY <1>1 DEF Plans, LedBy

LEMMA RepeatedPlan ==
  ASSUME NEW n \in Nat, NEW verbs, n # 0 => verbs \in Plans
  PROVE  Times(n, verbs) \in Plans
  <1> DEFINE parts == [i \in 1..n |-> verbs]
  <1>1. parts \in [1..n -> Plans] OBVIOUS
  <1> HIDE DEF parts
  <1>2. FlattenSeq(parts) \in Plans BY <1>1, FlattenIn, PlansJoin
  <1> QED BY <1>2 DEF Times, parts

\* A phase takes up a plan.
LEMMA PlanStep ==
  ASSUME IInv, pc \notin {"idle", "unwind"}, queue' \in Plans, hand' = None,
         PhaseUnchanged, UNCHANGED refused, UNCHANGED given
  PROVE  IInv'
  <1>1. /\ board \in Boards /\ before \in Boards /\ roll \in Rolls /\ opts \in choices
        /\ Kept \in SUBSET Dprcs /\ Journaled /\ NamesStand /\ GateHolds /\ Recordeds /\ Untouched
    BY Running
  <1>2. /\ UNCHANGED <<roll, choices, budget, opts, before, pc, board, journal, unreversed, refused,
                       made, edits, faults>>
    BY DEF PhaseUnchanged, given, history, budgets
  <1>3. Kept' = Kept /\ Unmade' = Unmade BY <1>2, KeptSame
  <1>4. Sound' = Sound /\ SoundRows' = SoundRows BY <1>2, <1>3 DEF Sound, SoundRows
  <1>5. queue' \in Seq(Sound) /\ LedBy(None, queue') BY DEF Plans
  <1>6. Owed' BY <1>2, <1>4, <1>5 DEF Owed
  <1>7. Journaled' /\ NamesStand' /\ GateHolds' /\ Untouched'
    BY <1>1, <1>2, <1>3, <1>4 DEF Journaled, NamesStand, GateHolds, Untouched
  <1>8. Recordeds' BY <1>1, <1>2 DEF Recordeds, OnRecord, Standing, Stray, Rewired
  <1>9. \A i \in DOMAIN queue' : queue'[i].on \in Dprcs \cup {None}
    <2>1. \A v \in Sound : v.on \in Dprcs \cup {None} BY DEF Sound, SoundFor, Verbs
    <2> QED BY <1>5, <2>1
  <1>10. TypeOK BY DEF IInv, Shape
  <1>11. TypeOK' BY <1>2, <1>9, <1>10 DEF TypeOK
  <1>12. Shape' BY <1>1, <1>2, <1>11 DEF Shape
  <1> QED BY <1>6, <1>7, <1>8, <1>12 DEF IInv, RunInv

\* The tenants of the roll, with what the intent says of each.
LEMMA TenantIs ==
  ASSUME IInv, NEW t \in Tenants
  PROVE  /\ t \in Names /\ t # None /\ Regime[t] \in {"vfio", "kernel"}
         /\ Ports[t] \in Seq(Peers) /\ Need[t] \in Nat
  <1>1. roll \in Rolls /\ roll \in Seq(Names) BY PlanAssumption DEF IInv, Shape
  <1>2. PICK i \in DOMAIN roll : t = roll[i] BY DEF Tenants, ToSet
  <1>3. t \in Names BY <1>1, <1>2
  <1> QED BY <1>1, <1>2, <1>3, PlanAssumption, BoardAssumption

LEMMA DonePlanned ==
  ASSUME IInv, pc \notin {"idle", "unwind"}
  PROVE  Done \in Plans
  <1>1. Verb("done", None, None, None) \in Sound BY DEF Sound, SoundFor, Verb, Verbs, Ops
  <1>2. Done \in [1..1 -> Sound] /\ \A i \in 1..1 : ~NeedsHand(Done[i])
    BY <1>1 DEF Done, NeedsHand, Verb
  <1> QED BY <1>2, PlainPlan

\* A tenant is missing only if it was when the run started.
LEMMA ContainersPlanned ==
  ASSUME IInv, pc = "containers", MissingTenants(board) # << >> => opts.allow = 2
  PROVE  ContainerVerbs(board) \in Plans
  <1> DEFINE missing == MissingTenants(board)
  <1>1. missing \in Seq(Unmade)
    <2> DEFINE K == {t \in Tenants : Handle(board, t) = None}
    <2>1. K \subseteq Unmade
      <3>1. ASSUME NEW t \in Tenants, Handle(board, t) = None, Handle(before, t) # None PROVE FALSE
        <4>1. board \in Boards /\ before \in Boards /\ NamesStand /\ t \in Names
          BY Running, TenantIs
        <4>2. Handle(before, t) \in before.live /\ before.name[Handle(before, t)] = t
          BY <3>1, <4>1, HandleIs
        <4>3. \A k \in board.live : board.name[k] # t BY <3>1, <4>1, HandleIs
        <4> QED BY <4>1, <4>2, <4>3 DEF NamesStand
      <3> QED BY <3>1 DEF Unmade
    <2> HIDE DEF K
    <2>2. /\ << >> \in Seq(Unmade) /\ (\A s, t \in Seq(Unmade) : s \o t \in Seq(Unmade))
          /\ \A x \in Names \cap K : <<x>> \in Seq(Unmade)
      BY <2>1
    <2>3. roll \in Seq(Names) BY PlanAssumption DEF IInv, Shape
    <2>4. Only(roll, K) \in Seq(Unmade) BY <2>2, <2>3, OnlyIn
    <2> QED BY <2>4 DEF MissingTenants, K
  <1>2. missing # << >> => ~(opts.allow < 2) OBVIOUS
  <1> HIDE DEF missing
  <1> DEFINE n == Len(missing)
             Each(op) == [i \in 1..n |-> Verb(op, None, missing[i], None)]
  <1>3. ASSUME NEW op \in {"spawn", "verdict"} PROVE Each(op) \in Plans
    <2>1. ASSUME NEW i \in 1..n
          PROVE  Verb(op, None, missing[i], None) \in Sound /\ ~NeedsHand(Verb(op, None, missing[i], None))
      <3>1. missing[i] \in Unmade /\ missing[i] \in Names /\ missing # << >>
        <4>1. missing[i] \in Unmade /\ missing # << >> BY <1>1
        <4> QED BY <4>1, TenantIs DEF Unmade
      <3>2. ~(opts.allow < 2) BY <1>2, <3>1
      <3>3. Verb(op, None, missing[i], None) \in Verbs BY <3>1 DEF Verb, Verbs, Ops
      <3> QED BY <3>1, <3>2, <3>3 DEF Sound, SoundFor, Verb, NeedsHand
    <2>2. n \in Nat BY <1>1
    <2>3. Each(op) \in [1..n -> Sound] /\ \A i \in 1..n : ~NeedsHand(Each(op)[i]) BY <2>1
    <2> HIDE DEF Each, n
    <2> QED BY <2>2, <2>3, PlainPlan
  <1>4. Each("spawn") \in Plans /\ Each("verdict") \in Plans /\ Done \in Plans BY <1>3, DonePlanned
  <1>5. ContainerVerbs(board) = Each("spawn") \o Each("verdict") \o Done
    BY DEF ContainerVerbs, missing
  <1> HIDE DEF Each
  <1> QED BY <1>4, <1>5, PlansJoin

\* A child the population phase works on is not kept: it is the one found under
\* the tenant's label, at the start of the run already if it stood then.
LEMMA ChildIs ==
  ASSUME IInv, pc = "population", NEW t \in Tenants, Handle(board, t) # None
  PROVE  /\ Handle(board, t) \in Dprcs \ Kept
         /\ Handle(board, t) \in board.live
  <1> DEFINE c == Handle(board, t)
  <1>1. board \in Boards /\ before \in Boards /\ NamesStand /\ t \in Names /\ t # None
        /\ board.live \subseteq Dprcs
    BY Running, TenantIs
  <1>2. c \in board.live /\ board.name[c] = t BY <1>1, HandleIs
  <1>3. ASSUME c \in Kept PROVE FALSE
    <2>1. c \in before.live /\ before.name[c] = t /\ c # Handle(before, t)
      BY <1>1, <1>2, <1>3 DEF Kept, Shielded, NamesStand
    <2>2. t \notin Unmade
      <3>1. Handle(before, t) # None BY <1>1, <2>1, HandleIs
      <3> QED BY <3>1 DEF Unmade
    <2>3. {k \in board.live : board.name[k] = t} = {k \in before.live : before.name[k] = t}
      <3>1. \A k \in board.live : board.name[k] = t => k \in before.live
        BY <1>1, <2>2 DEF NamesStand
      <3> QED BY <1>1, <3>1 DEF NamesStand
    <2> QED BY <2>1, <2>3 DEF Handle
  <1> QED BY <1>1, <1>2, <1>3

LEMMA PortRowIs ==
  ASSUME NEW b, NEW c, NEW p, PortRow(b, c, p) # None
  PROVE  PortRow(b, c, p) \in Dpnis /\ PortRow(b, c, p) \in Objs /\ b.home[PortRow(b, c, p)] = c
  <1> DEFINE same == {d \in DpniRows(b, c) : b.tag[d] = p}
  <1>1. same \subseteq Dpnis /\ same \subseteq Nat BY BoardAssumption DEF DpniRows
  <1>2. same # {} /\ PortRow(b, c, p) = Min(same) BY DEF PortRow
  <1>3. \A d \in same : d \in Dpnis /\ d \in Objs /\ b.home[d] = c BY DEF DpniRows, Residents
  <1> HIDE DEF same
  <1> QED BY <1>1, <1>2, <1>3, MinIn

LEMMA PortPlanned ==
  ASSUME IInv, pc = "population", NEW c \in Dprcs \ Kept, NEW p \in Peers,
         opts.allow < 2 => PortRow(board, c, p) # None
  PROVE  PortVerbs(board, c, p) \in Plans
  <1>0. p \in Names /\ p # None /\ c # None BY PlanAssumption, BoardAssumption
  <1>1. CASE PortRow(board, c, p) = None
    <2> DEFINE q == <<Verb("mintDpni", c, p, None), Verb("stamp", c, p, None),
                      Verb("plug", c, p, None), Verb("connect", c, p, None)>>
    <2>1. ~(opts.allow < 2) BY <1>1
    <2>2. ASSUME NEW op \in {"mintDpni", "stamp", "plug", "connect"}
          PROVE  Verb(op, c, p, None) \in Sound
      <3>1. Verb(op, c, p, None) \in Verbs BY <1>0 DEF Verb, Verbs, Ops
      <3> QED BY <1>0, <2>1, <3>1 DEF Sound, SoundFor, Verb
    <2>3. q \in Seq(Sound) BY <2>2
    <2>4. LedBy(None, q)
      <3>1. Mints(q[1]) /\ ~NeedsHand(q[1]) BY DEF Mints, NeedsHand, Verb
      <3>2. Len(q) = 4 OBVIOUS
      <3> HIDE DEF q
      <3>3. ASSUME NEW i \in 1..4, NeedsHand(q[i]) PROVE \E j \in 1..(i-1) : Mints(q[j])
        <4>1. i # 1 /\ 1 \in 1..(i-1) BY <3>1, <3>3
        <4> QED BY <3>1, <4>1
      <3> QED BY <3>2, <3>3 DEF LedBy
    <2>5. PortVerbs(board, c, p) = q BY <1>1 DEF PortVerbs
    <2> QED BY <2>3, <2>4, <2>5 DEF Plans
  <1>2. CASE PortRow(board, c, p) # None /\ NeedsConnect(board, c, p)
    <2>1. PICK d \in Dpnis : d = PortRow(board, c, p) /\ d \in Objs /\ d # None /\ board.home[d] = c
      BY <1>2, PortRowIs
    <2>2. Free(Kept, board.home[d]) BY <2>1 DEF Free
    <2> DEFINE v == Verb("connect", c, p, d)
    <2>3. v \in Verbs BY <1>0, <2>1 DEF Verb, Verbs, Ops
    <2>4. v \in Sound /\ ~NeedsHand(v)
      BY <1>0, <2>1, <2>2, <2>3 DEF Sound, SoundFor, Verb, NeedsHand
    <2>5. PortVerbs(board, c, p) = <<v>> BY <1>2, <2>1 DEF PortVerbs
    <2> HIDE DEF v
    <2>6. <<v>> \in [1..1 -> Sound] /\ \A i \in 1..1 : ~NeedsHand(<<v>>[i]) BY <2>4
    <2> QED BY <2>5, <2>6, PlainPlan
  <1>3. CASE PortRow(board, c, p) # None /\ ~NeedsConnect(board, c, p)
    BY <1>3, PlansJoin DEF PortVerbs
  <1> QED BY <1>1, <1>2, <1>3

LEMMA PoolPlanned ==
  ASSUME IInv, pc = "population", NEW c \in Dprcs \ Kept, NEW t \in Tenants,
         opts.allow < 2 => CensusConverged(board, t, c)
  PROVE  PoolVerbs(board, t, c) \in Plans
  <1>0. t \in Names /\ t # None /\ Need[t] \in Nat /\ c # None BY TenantIs, BoardAssumption
  <1>1. Cardinality(Managed(board, c)) \in Nat /\ Cardinality(Foreign(board, c)) \in Nat
    <2>1. IsFiniteSet(Managed(board, c)) /\ IsFiniteSet(Foreign(board, c))
      <3>1. Managed(board, c) \subseteq Pool /\ Foreign(board, c) \subseteq Pool
        BY DEF Managed, Foreign, PoolRows
      <3> QED BY <3>1, BoardAssumption, FS_Subset
    <2> QED BY <2>1, FS_CardinalityType
  <1>2. /\ Deficit(board, t, c) \in Nat /\ Surplus(board, t, c) \in Nat
        /\ opts.allow < 2 => /\ Deficit(board, t, c) = 0 /\ Surplus(board, t, c) = 0
                             /\ Cardinality(Foreign(board, c)) = 0
    BY <1>0, <1>1, FS_EmptySet DEF Deficit, Surplus, CensusConverged
  <1>3. ASSUME NEW op \in {"mintPool", "plug", "stamp", "reclaim", "pruneForeign"},
               ~(opts.allow < 2)
        PROVE  Verb(op, c, t, None) \in Sound
    <2>1. Verb(op, c, t, None) \in Verbs BY <1>0 DEF Verb, Verbs, Ops
    <2> QED BY <1>0, <1>3, <2>1 DEF Sound, SoundFor, Verb
  <1> DEFINE grow == <<Verb("mintPool", c, t, None), Verb("plug", c, t, None), Verb("stamp", c, t, None)>>
             shrink == <<Verb("reclaim", c, t, None)>>
             foreign == <<Verb("pruneForeign", c, t, None)>>
  <1>4. ASSUME ~(opts.allow < 2) PROVE grow \in Plans
    <2>1. grow \in Seq(Sound) BY <1>3, <1>4
    <2>2. LedBy(None, grow)
      <3>1. Mints(grow[1]) /\ ~NeedsHand(grow[1]) BY DEF Mints, NeedsHand, Verb
      <3>2. Len(grow) = 3 OBVIOUS
      <3> HIDE DEF grow
      <3>3. ASSUME NEW i \in 1..3, NeedsHand(grow[i]) PROVE \E j \in 1..(i-1) : Mints(grow[j])
        <4>1. i # 1 /\ 1 \in 1..(i-1) BY <3>1, <3>3
        <4> QED BY <3>1, <4>1
      <3> QED BY <3>2, <3>3 DEF LedBy
    <2> QED BY <2>1, <2>2 DEF Plans
  <1>5. ASSUME ~(opts.allow < 2), NEW op \in {"reclaim", "pruneForeign"}
        PROVE  <<Verb(op, c, t, None)>> \in Plans
    <2> DEFINE v == Verb(op, c, t, None)
    <2>1. v \in Sound /\ ~NeedsHand(v) BY <1>3, <1>5 DEF NeedsHand, Verb
    <2> HIDE DEF v
    <2>2. <<v>> \in [1..1 -> Sound] /\ \A i \in 1..1 : ~NeedsHand(<<v>>[i]) BY <2>1
    <2>3. <<v>> \in Plans BY <2>2, PlainPlan
    <2> QED BY <2>3 DEF v
  <1>6. (~(opts.allow < 2) => shrink \in Plans) /\ (~(opts.allow < 2) => foreign \in Plans) BY <1>5
  <1> HIDE DEF grow, shrink, foreign
  <1>7. Times(Deficit(board, t, c), grow) \in Plans BY <1>2, <1>4, RepeatedPlan
  <1>8. Times(Surplus(board, t, c), shrink) \in Plans BY <1>2, <1>6, RepeatedPlan
  <1>9. Times(Cardinality(Foreign(board, c)), foreign) \in Plans BY <1>1, <1>2, <1>6, RepeatedPlan
  <1>10. PoolVerbs(board, t, c) =
           Times(Deficit(board, t, c), grow) \o Times(Surplus(board, t, c), shrink)
             \o Times(Cardinality(Foreign(board, c)), foreign)
    BY DEF PoolVerbs, grow, shrink, foreign
  <1> QED BY <1>7, <1>8, <1>9, <1>10, PlansJoin

\* Below the gate only a child that no run and no driver had is handed over.
LEMMA HandPlanned ==
  ASSUME IInv, pc = "population", NEW t \in Tenants, NEW c \in Dprcs \ Kept, c \in board.live,
         opts.allow < 2 /\ board.driver[c] = "vfio" =>
           Regime[t] # "kernel" /\ PlanConverged(board, t, c)
  PROVE  Judge(board, t, c) \in Plans /\ BindVerbs(board, t, c) \in Plans
  <1>0. /\ t \in Names /\ t # None /\ c # None /\ Regime[t] \in {"vfio", "kernel"}
        /\ GateHolds /\ before \in Boards
    BY TenantIs, BoardAssumption, Running
  <1>1. opts.allow < 2 /\ board.driver[c] # "vfio" => before.driver[c] # "vfio"
    BY <1>0 DEF GateHolds
  <1>2. ASSUME NEW v \in Sound, ~NeedsHand(v) PROVE <<v>> \in Plans
    <2>1. <<v>> \in [1..1 -> Sound] /\ \A i \in 1..1 : ~NeedsHand(<<v>>[i]) BY <1>2
    <2> QED BY <2>1, PlainPlan
  <1>3. <<Verb("judge", c, t, None)>> \in Plans
    <2>1. Verb("judge", c, t, None) \in Verbs BY <1>0 DEF Verb, Verbs, Ops
    <2>2. Verb("judge", c, t, None) \in Sound /\ ~NeedsHand(Verb("judge", c, t, None))
      BY <1>0, <2>1 DEF Sound, SoundFor, Verb, NeedsHand
    <2> QED BY <1>2, <2>2
  <1>4. Judge(board, t, c) \in Plans BY <1>3, PlansJoin DEF Judge
  <1>5. ASSUME opts.allow < 2 => board.driver[c] # "vfio",
               NEW op \in {"kernelBind", "override", "bind"}, NEW a \in {t, "vfio"}
        PROVE  <<Verb(op, c, a, None)>> \in Plans
    <2>1. Verb(op, c, a, None) \in Verbs BY <1>0 DEF Verb, Verbs, Ops
    <2>2. Verb(op, c, a, None) \in Sound /\ ~NeedsHand(Verb(op, c, a, None))
      BY <1>0, <1>1, <1>5, <2>1 DEF Sound, SoundFor, Verb, NeedsHand
    <2> HIDE DEF Verb
    <2> QED BY <1>2, <2>2
  <1>6. CASE Regime[t] = "kernel"
    <2>1. <<Verb("kernelBind", c, t, None)>> \in Plans BY <1>5, <1>6
    <2>2. BindVerbs(board, t, c) = IF board.driver[c] = "kernel" THEN << >>
                                   ELSE <<Verb("kernelBind", c, t, None)>>
      BY <1>6 DEF BindVerbs
    <2> QED BY <1>4, <2>1, <2>2, PlansJoin
  <1>7. CASE Regime[t] = "vfio" /\ board.driver[c] = "vfio"
    <2>1. BindVerbs(board, t, c) = IF PlanConverged(board, t, c) THEN << >> ELSE Rebind(t, c)
      BY <1>7 DEF BindVerbs
    <2>2. CASE PlanConverged(board, t, c) BY <1>4, <2>1, <2>2, PlansJoin
    <2>3. CASE ~PlanConverged(board, t, c)
      <3>1. ~(opts.allow < 2) BY <1>7, <2>3
      <3>2. <<Verb("bind", c, "vfio", None)>> \in Plans BY <1>5, <3>1
      <3>3. <<Verb("unbind", c, t, None)>> \in Plans
        <4>1. Verb("unbind", c, t, None) \in Verbs BY <1>0 DEF Verb, Verbs, Ops
        <4>2. Verb("unbind", c, t, None) \in Sound /\ ~NeedsHand(Verb("unbind", c, t, None))
          BY <1>0, <3>1, <4>1 DEF Sound, SoundFor, Verb, NeedsHand
        <4> QED BY <1>2, <4>2
      <3>4. Rebind(t, c) = <<Verb("unbind", c, t, None)>> \o <<Verb("bind", c, "vfio", None)>>
        BY DEF Rebind
      <3> QED BY <1>4, <2>1, <2>3, <3>2, <3>3, <3>4, PlansJoin
    <2> QED BY <2>2, <2>3
  <1>8. CASE Regime[t] = "vfio" /\ board.driver[c] # "vfio"
    <2>1. BindVerbs(board, t, c) = HandoffNow(c) BY <1>8 DEF BindVerbs
    <2>2. <<Verb("override", c, "vfio", None)>> \in Plans /\ <<Verb("bind", c, "vfio", None)>> \in Plans
      BY <1>5, <1>8
    <2>3. HandoffNow(c) = <<Verb("override", c, "vfio", None)>> \o <<Verb("bind", c, "vfio", None)>>
      BY DEF HandoffNow
    <2> QED BY <1>4, <2>1, <2>2, <2>3, PlansJoin
  <1> QED BY <1>0, <1>6, <1>7, <1>8

LEMMA ChildPlanned ==
  ASSUME IInv, pc = "population", NEW t \in Tenants, Handle(board, t) # None,
         ~PopulationRefused(board, opts)
  PROVE  ChildVerbs(board, t, Handle(board, t)) \in Plans
  <1>1. PICK c \in Dprcs \ Kept : c = Handle(board, t) /\ c \in board.live BY ChildIs
  <1>2. opts.allow < 2 =>
          /\ \A p \in ToSet(Ports[t]) : PortRow(board, c, p) # None
          /\ CensusConverged(board, t, c)
          /\ board.driver[c] = "vfio" => Regime[t] # "kernel" /\ PlanConverged(board, t, c)
    <2>1. ~Drifted(board, opts.allow) /\ (opts.allow < 2 => ~PopulationDisruptive(board))
      BY DEF PopulationRefused
    <2>2. opts.allow < 2 => ~Disruptive(board, t, c) BY <1>1, <2>1 DEF PopulationDisruptive
    <2>3. board.driver[c] = "vfio" =>
            Regime[t] # "kernel" /\ (opts.allow < 2 => PlanConverged(board, t, c))
      BY <1>1, <2>1 DEF Drifted
    <2> QED BY <2>2, <2>3 DEF Disruptive
  <1>3. Judge(board, t, c) \in Plans /\ BindVerbs(board, t, c) \in Plans
    <2>1. opts.allow < 2 /\ board.driver[c] = "vfio" =>
            Regime[t] # "kernel" /\ PlanConverged(board, t, c)
      BY <1>2
    <2> QED BY <1>1, <2>1, HandPlanned
  <1>4. PoolVerbs(board, t, c) \in Plans BY <1>2, PoolPlanned
  <1> DEFINE n == Len(Ports[t])
             parts == [i \in 1..n |-> PortVerbs(board, c, Ports[t][i])]
  <1>5. FlattenSeq(parts) \in Plans
    <2>1. Ports[t] \in Seq(Peers) /\ n \in Nat BY TenantIs
    <2>2. ASSUME NEW i \in 1..n PROVE PortVerbs(board, c, Ports[t][i]) \in Plans
      <3>1. PICK p \in Peers : p = Ports[t][i] /\ p \in ToSet(Ports[t]) BY <2>1 DEF ToSet
      <3>2. opts.allow < 2 => PortRow(board, c, p) # None BY <1>2, <3>1
      <3>3. PortVerbs(board, c, p) \in Plans BY <3>2, PortPlanned
      <3> QED BY <3>1, <3>3
    <2>3. parts \in [1..n -> Plans] BY <2>2
    <2> HIDE DEF parts, n
    <2> QED BY <2>1, <2>3, FlattenIn, PlansJoin
  <1>6. ChildVerbs(board, t, c) =
          (IF PlanConverged(board, t, c) THEN << >>
           ELSE FlattenSeq(parts) \o PoolVerbs(board, t, c) \o Judge(board, t, c))
            \o BindVerbs(board, t, c)
    BY DEF ChildVerbs
  <1> HIDE DEF parts
  <1> QED BY <1>1, <1>3, <1>4, <1>5, <1>6, PlansJoin

LEMMA PopulationPlanned ==
  ASSUME IInv, pc = "population", ~PopulationRefused(board, opts)
  PROVE  PopulationVerbs(board) \in Plans
  <1> DEFINE K == {t \in Tenants : Handle(board, t) # None}
             found == Populated(board)
             n == Len(found)
             parts == [i \in 1..n |-> ChildVerbs(board, found[i], Handle(board, found[i]))]
  <1>1. found \in Seq(K)
    <2>1. /\ << >> \in Seq(K) /\ (\A s, t \in Seq(K) : s \o t \in Seq(K))
          /\ \A x \in Names \cap K : <<x>> \in Seq(K)
      OBVIOUS
    <2>2. roll \in Seq(Names) BY PlanAssumption DEF IInv, Shape
    <2> HIDE DEF K
    <2>3. Only(roll, K) \in Seq(K) BY <2>1, <2>2, OnlyIn
    <2> QED BY <2>3 DEF Populated, K
  <1>2. n \in Nat /\ \A i \in 1..n : found[i] \in Tenants /\ Handle(board, found[i]) # None
    <2>1. K \subseteq Tenants /\ \A t \in K : Handle(board, t) # None OBVIOUS
    <2> HIDE DEF K, found
    <2> QED BY <1>1, <2>1
  <1> HIDE DEF found
  <1>3. parts \in [1..n -> Plans]
    <2>1. ASSUME NEW i \in 1..n
          PROVE  ChildVerbs(board, found[i], Handle(board, found[i])) \in Plans
      BY <1>2, ChildPlanned
    <2> QED BY <2>1
  <1>4. PopulationVerbs(board) = FlattenSeq(parts) \o Done BY DEF PopulationVerbs, found
  <1> HIDE DEF parts, n
  <1>5. FlattenSeq(parts) \in Plans BY <1>2, <1>3, FlattenIn, PlansJoin
  <1> QED BY <1>4, <1>5, PlansJoin, DonePlanned

LEMMA TeardownPlanned ==
  ASSUME IInv, pc = "prune", ~(opts.allow < 2), NEW c \in Dprcs \ Kept
  PROVE  TeardownVerbs(board, c) \in Plans
  <1> DEFINE rows == SetToSeq(DpniRows(board, c))
             plugs == SetToSeq(Residents(board, c) \cap board.plugged)
             Each(op, objs) == [i \in 1..Len(objs) |-> Verb(op, c, None, objs[i])]
  <1>0. c # None /\ Free(Kept, c) BY BoardAssumption DEF Free
  <1>1. ASSUME NEW op \in {"release", "destroy"} PROVE <<Verb(op, c, None, None)>> \in Plans
    <2> DEFINE v == Verb(op, c, None, None)
    <2>1. v \in Verbs BY DEF Verb, Verbs, Ops
    <2>2. v \in Sound /\ ~NeedsHand(v) BY <1>0, <2>1 DEF Sound, SoundFor, Verb, NeedsHand
    <2> HIDE DEF v
    <2>3. <<v>> \in [1..1 -> Sound] /\ \A i \in 1..1 : ~NeedsHand(<<v>>[i]) BY <2>2
    <2>4. <<v>> \in Plans BY <2>3, PlainPlan
    <2> QED BY <2>4 DEF v
  <1>2. ASSUME NEW op \in {"sever", "unplug"}, NEW S \in SUBSET Residents(board, c)
        PROVE  Each(op, SetToSeq(S)) \in Plans
    <2>1. \A o \in S : o \in Objs /\ o # None /\ board.home[o] = c BY BoardAssumption DEF Residents
    <2>2. IsFiniteSet(S)
      <3>1. S \subseteq Objs /\ IsFiniteSet(Objs) BY <2>1, BoardAssumption, FS_Union DEF Objs
      <3> QED BY <3>1, FS_Subset
    <2> DEFINE n == Cardinality(S)
               objs == SetToSeq(S)
    <2>3. n \in Nat /\ objs \in [1..n -> S] BY <2>2, SetToSeqIn
    <2> HIDE DEF n, objs
    <2>4. Len(objs) = n BY <2>3
    <2>5. ASSUME NEW i \in 1..n
          PROVE  Verb(op, c, None, objs[i]) \in Sound /\ ~NeedsHand(Verb(op, c, None, objs[i]))
      <3>1. PICK o \in S : o = objs[i] /\ o \in Objs /\ o # None /\ Free(Kept, board.home[o])
        BY <1>0, <2>1, <2>3
      <3>2. Verb(op, c, None, o) \in Verbs BY <3>1 DEF Verb, Verbs, Ops
      <3>3. Verb(op, c, None, o) \in Sound /\ ~NeedsHand(Verb(op, c, None, o))
        BY <1>0, <3>1, <3>2 DEF Sound, SoundFor, Verb, NeedsHand
      <3> QED BY <3>1, <3>3
    <2>6. Each(op, objs) \in [1..n -> Sound] /\ \A i \in 1..n : ~NeedsHand(Each(op, objs)[i])
      BY <2>4, <2>5
    <2> HIDE DEF Each
    <2>7. Each(op, objs) \in Plans BY <2>3, <2>6, PlainPlan
    <2> QED BY <2>7 DEF objs
  <1>3. Each("sever", rows) \in Plans
    <2>1. DpniRows(board, c) \in SUBSET Residents(board, c) BY DEF DpniRows
    <2> HIDE DEF Each
    <2> QED BY <1>2, <2>1
  <1>4. Each("unplug", plugs) \in Plans
    <2>1. Residents(board, c) \cap board.plugged \in SUBSET Residents(board, c) OBVIOUS
    <2> HIDE DEF Each
    <2> QED BY <1>2, <2>1
  <1>5. <<Verb("release", c, None, None)>> \in Plans /\ <<Verb("destroy", c, None, None)>> \in Plans
    BY <1>1
  <1>6. TeardownVerbs(board, c) =
          <<Verb("release", c, None, None)>> \o Each("sever", rows) \o Each("unplug", plugs)
            \o <<Verb("destroy", c, None, None)>>
    BY DEF TeardownVerbs
  <1> HIDE DEF Each, rows, plugs
  <1> QED BY <1>3, <1>4, <1>5, <1>6, PlansJoin

\* What the prune tears down carries a label of ours that no tenant bears, as it
\* did when the run started, and both gates are open.
LEMMA PrunePlanned ==
  ASSUME IInv, pc = "prune", opts.prune, opts.allow = 2
  PROVE  PruneVerbs(board) \in Plans
  <1> DEFINE C == Candidates(board)
             n == Cardinality(C)
             order == InOrder(C)
             parts == [i \in 1..Len(order) |-> TeardownVerbs(board, order[i])]
             last == Verb("pruneVerdict", None, None, None)
  <1>1. C \subseteq Dprcs \ Kept
    <2>1. NamesStand /\ board.live \subseteq Dprcs BY Running
    <2>2. ASSUME NEW c \in C, c \in Kept PROVE FALSE
      <3>1. c \in board.live /\ board.name[c] \notin Tenants \cup {None} BY DEF Candidates
      <3>2. c \in before.live /\ before.name[c] = board.name[c]
        BY <2>1, <2>2, <3>1, KeptStood DEF NamesStand
      <3> QED BY <2>2, <3>1, <3>2 DEF Kept, Shielded
    <2>3. C \subseteq board.live BY DEF Candidates
    <2> QED BY <2>1, <2>2, <2>3
  <1>2. C \subseteq Nat /\ IsFiniteSet(C)
    <2>1. C \subseteq Dprcs BY <1>1
    <2> HIDE DEF C
    <2> QED BY <2>1, FS_Subset, BoardAssumption
  <1> HIDE DEF C
  <1>3. n \in Nat /\ order \in [1..n -> C] BY <1>2, InOrderIn
  <1> HIDE DEF n, order
  <1>4. Len(order) = n BY <1>3
  <1>5. parts \in [1..n -> Plans]
    <2>1. ASSUME NEW i \in 1..n PROVE TeardownVerbs(board, order[i]) \in Plans
      <3>1. PICK c \in Dprcs \ Kept : c = order[i] BY <1>1, <1>3
      <3>2. TeardownVerbs(board, c) \in Plans BY <3>1, TeardownPlanned
      <3> QED BY <3>1, <3>2
    <2> QED BY <1>4, <2>1
  <1>6. <<last>> \in Plans
    <2>1. last \in Verbs BY DEF Verb, Verbs, Ops
    <2>2. last \in Sound /\ ~NeedsHand(last) BY <2>1 DEF Sound, SoundFor, Verb, NeedsHand
    <2> HIDE DEF last
    <2>3. <<last>> \in [1..1 -> Sound] /\ \A i \in 1..1 : ~NeedsHand(<<last>>[i]) BY <2>2
    <2> QED BY <2>3, PlainPlan
  <1>7. PruneVerbs(board) = FlattenSeq(parts) \o <<last>> BY DEF PruneVerbs, order, C
  <1> HIDE DEF parts, last
  <1>8. FlattenSeq(parts) \in Plans BY <1>3, <1>5, FlattenIn, PlansJoin
  <1> QED BY <1>6, <1>7, <1>8, PlansJoin

LEMMA PlansStep ==
  ASSUME IInv, PlanContainers \/ PlanPopulation \/ PlanPrune, UNCHANGED given
  PROVE  IInv'
  <1>1. /\ pc \notin {"idle", "unwind"} /\ hand' = None /\ PhaseUnchanged /\ UNCHANGED refused
        /\ queue' \in Plans
    <2>1. CASE PlanContainers BY <2>1, ContainersPlanned DEF PlanContainers, Planning, Owes
    <2>2. CASE PlanPopulation BY <2>2, PopulationPlanned DEF PlanPopulation, Planning, Owes
    <2>3. CASE PlanPrune BY <2>3, PrunePlanned DEF PlanPrune, Planning, Owes, NothingToPrune
    <2> QED BY <2>1, <2>2, <2>3
  <1> QED BY <1>1, PlanStep

(* The theorem. *)

LEMMA Started == Init => IInv
  <1> SUFFICES ASSUME Init PROVE IInv OBVIOUS
  <1>1. PICK s \in Sites : /\ board = s.board /\ roll = s.roll
                           /\ choices = s.options /\ budget = s.budget
    BY DEF Init
  <1>2. board \in Boards /\ roll \in Rolls /\ choices \subseteq Options /\ budget \in Budgets
    BY <1>1, RunAssumption
  <1>3. /\ pc = "idle" /\ opts = None /\ queue = << >> /\ hand = None /\ journal = << >>
        /\ unreversed = {} /\ refused = FALSE /\ before = NoBoard /\ made = {}
        /\ edits = 0 /\ faults = 0
    BY DEF Init
  <1>4. TypeOK
    <2>1. /\ \A i \in DOMAIN queue : queue[i].on \in Dprcs \cup {None}
          /\ \A i \in DOMAIN journal : journal[i] \in Rows
      BY <1>3
    <2>2. refused \in BOOLEAN /\ edits \in Nat /\ faults \in Nat BY <1>3
    <2> QED BY <1>2, <1>3, <2>1, <2>2, NoBoardIn DEF TypeOK
  <1> QED BY <1>2, <1>3, <1>4 DEF IInv, Shape, RunInv

LEMMA Inductive == IInv /\ [Next]_vars => IInv'
  <1> SUFFICES ASSUME IInv, [Next]_vars PROVE IInv' OBVIOUS
  <1>1. CASE UNCHANGED vars
    <2>1. UNCHANGED <<roll, choices, budget, board, pc, opts, queue, hand, journal, unreversed, refused,
                      outcome, before, made, edits, faults>>
      BY <1>1 DEF vars, given
    <2>2. Kept' = Kept /\ Unmade' = Unmade BY <2>1, KeptSame
    <2>3. Sound' = Sound /\ SoundRows' = SoundRows BY <2>1, <2>2 DEF Sound, SoundRows
    <2>4. Shape' BY <2>1 DEF IInv, Shape, TypeOK
    <2>5. RunInv'
      BY <2>1, <2>2, <2>3 DEF IInv, RunInv, Owed, Journaled, NamesStand, Untouched, GateHolds,
                              Recordeds, OnRecord, Standing, Stray, Rewired
    <2> QED BY <2>4, <2>5 DEF IInv
  <1>2. CASE Next
    <2>0. UNCHANGED given BY <1>2 DEF Next
    <2>1. CASE Start BY <2>0, <2>1, StartStep
    <2>2. CASE Phases BY <2>0, <2>2, PlansStep, EndsStep, StopStep DEF Phases
    <2>3. CASE Populating
      BY <2>0, <2>3, SpawnStep, ReadStep, MintStep, FinishStep, ConnectStep, ShrinkStep,
         BelowStep, EndsStep, BindStep, LetGoStep DEF Populating
    <2>4. CASE Pruning
      BY <2>0, <2>4, LetGoStep, DrainStep, DestroyStep, GivenUpStep, EndsStep DEF Pruning
    <2>5. CASE Refused \/ VerbFails \/ ErrsAfterEffect BY <2>0, <2>5, StopStep, ErrStep
    <2>6. CASE Unwind BY <2>0, <2>6, UnwindStep, UnreversedStep, EndsStep DEF Unwind
    <2>7. CASE Killed BY <2>0, <2>7, EndsStep
    <2>8. CASE (\E c \in Dprcs : Scan(c)) \/ (\E o \in Pool : Draw(o)) BY <2>0, <2>8, AroundStep
    <2>9. CASE OperatorEdits BY <2>0, <2>9, EditStep
    <2> QED BY <1>2, <2>1, <2>2, <2>3, <2>4, <2>5, <2>6, <2>7, <2>8, <2>9 DEF Next, Tool
  <1> QED BY <1>1, <1>2

LEMMA Promised == IInv => TenancyInv
  <1> SUFFICES ASSUME IInv PROVE TenancyInv OBVIOUS
  <1>1. TypeOK BY DEF IInv, Shape
  <1>2. GateHolds BY DEF IInv, RunInv, GateHolds
  <1>3. UnmanagedUntouched BY DEF IInv, RunInv, Untouched, UnmanagedUntouched, Kept
  <1>4. RollbackRestores
    <2> SUFFICES ASSUME pc = "unwind", journal = << >>, \A r \in unreversed : r.kind = "bound"
                 PROVE  /\ made \cap (board.live \cup {o \in Objs : board.home[o] # None}) = {}
                        /\ \A d, e \in Rewired : d = e
      BY DEF RollbackRestores
    <2>1. Recordeds BY DEF IInv, RunInv
    <2>2. OnRecord = unreversed BY DEF OnRecord, ToSet
    <2>3. \A r \in OnRecord : (\A x : ~Makes(r, x)) /\ (\A d : ~Wires(r, d))
      BY <2>2 DEF Makes, Wires
    <2>4. Stray = Rewired BY <2>3 DEF Stray
    <2> QED BY <2>1, <2>3, <2>4 DEF Recordeds, Standing
  <1> QED BY <1>1, <1>2, <1>3, <1>4 DEF TenancyInv

\* Whatever fails, is killed or is edited between runs (main.rs run_ensure, the
\* container phases of engine.rs): the variables stay in their domains; a run that
\* allows less than disruptive takes nothing that stood before it; the unlabelled,
\* the second under one name and, unless both gates are open, the stray are left as
\* they were; and a rollback that undid all but binds leaves nothing of what the
\* run recorded as created, and at most one edge that was not there, that of a
\* connect which erred after it took effect.
THEOREM TenancyKept == Spec => []TenancyInv
  <1>1. Init => IInv BY Started
  <1>2. IInv /\ [Next]_vars => IInv' BY Inductive
  <1>3. IInv => TenancyInv BY Promised
  <1> QED BY <1>1, <1>2, <1>3, PTL DEF Spec

-----------------------------------------------------------------------------
(* The lifecycle.  What keeps it is the board (a container that is not there *)
(* holds nothing), the queue (each verb fits its phase, the one before it    *)
(* prepares it, and a container is drained before it is destroyed) and the   *)
(* journal (containers first, and what VFIO holds bound on record).          *)

\* The verbs of each phase.
PhaseOps(ph) ==
  CASE ph = "containers" -> {"spawn", "verdict", "done"}
    [] ph = "population" -> {"mintDpni", "mintPool", "stamp", "plug", "connect", "reclaim",
                             "pruneForeign", "belowDraw", "judge", "kernelBind", "override",
                             "bind", "unbind", "done"}
    [] OTHER -> {"release", "sever", "unplug", "destroy", "pruneVerdict"}

\* A verb of its phase, on what stands.
Fits(b, ph, v) ==
  /\ v.op \in PhaseOps(ph)
  /\ ph = "population" /\ v.op # "done" => v.on \in b.live
  /\ v.op = "connect" /\ v.obj # None => b.home[v.obj] # None

Shrinks(v) == v.op \in {"reclaim", "pruneForeign"}

\* What v relies on is what u, the verb before it, does: makes the object, sees
\* the residents counted, puts the override in its place or takes it away.
Prepares(u, v) ==
  /\ NeedsHand(v) => NeedsHand(u) \/ Mints(u)
  /\ v.op = "bind" => u.op \in {"override", "unbind"} /\ u.on = v.on
  /\ v.op = "override" => u.op = "judge" /\ u.on = v.on /\ Need[u.arg] \in Nat \ {0}

\* What v relies on stands.
Prepared(b, hd, v) ==
  /\ NeedsHand(v) => hd # None /\ b.home[hd] # None
  /\ v.op = "bind" => b.over[v.on] # "vfio" \/ Residents(b, v.on) # {}
  /\ v.op = "override" => Residents(b, v.on) # {}

Ordered(b, hd, q) ==
  \A i \in 1..Len(q) :
    \/ i > 1 /\ Prepares(q[i-1], q[i])
    \/ /\ Prepared(b, hd, q[i])
       /\ \/ i = 1
          \/ /\ q[i].op = "override"
             /\ \A j \in 1..(i-1) : Shrinks(q[j]) => q[j].on # q[i].on

\* A container is released and its edges are cut before it is destroyed.
Drained(b, q) ==
  \A i \in 1..Len(q) : q[i].op = "destroy" =>
    /\ \/ b.driver[q[i].on] = "none"
       \/ \E j \in 1..(i-1) : q[j].op = "release" /\ q[j].on = q[i].on
    /\ \A d \in DpniRows(b, q[i].on) :
         \/ b.edge[d] = None
         \/ \E j \in 1..(i-1) : q[j].op = "sever" /\ q[j].on = q[i].on /\ q[j].obj = d

\* The containers of a run are made before anything else, and one that VFIO holds
\* was bound on record.
MadeFirst ==
  /\ pc = "containers" => \A i \in 1..Len(journal) : journal[i].kind = "dprc"
  /\ \A i, j \in 1..Len(journal) : i < j /\ journal[j].kind = "dprc" => journal[i].kind = "dprc"
HeldRecorded ==
  \A i \in 1..Len(journal) :
    journal[i].kind = "dprc" /\ board.driver[journal[i].on] = "vfio" =>
      \E r \in OnRecord : r.kind = "bound" /\ r.on = journal[i].on

Queued ==
  /\ \A i \in 1..Len(queue) : Fits(board, pc, queue[i])
  /\ Ordered(board, hand, queue) /\ Drained(board, queue)
Recalled == MadeFirst /\ HeldRecorded

LInv == Consistent(board) /\ (pc # "idle" => Queued /\ Recalled)

(* What each command does to what the lifecycle tells apart. *)

\* A step of the board that keeps what stands where, and plugged or locked.
Stays(b, n) ==
  n.live = b.live /\ n.home = b.home /\ n.locked = b.locked /\ n.plugged = b.plugged

LEMMA SpawnedLife ==
  ASSUME NEW b \in Boards, Consistent(b), NEW c \in Dprcs \ b.live, NEW t \in Names,
         NEW n, n = Spawned(b, c, t)
  PROVE  /\ Consistent(n) /\ n.live = b.live \cup {c} /\ n.home = b.home
         /\ n.locked = b.locked /\ n.plugged = b.plugged /\ n.driver = b.driver
  BY BoardAssumption DEF Spawned, Consistent, Boards

LEMMA MintedLife ==
  ASSUME NEW b \in Boards, Consistent(b), NEW o \in Objs, b.home[o] = None, NEW c \in b.live,
         NEW n, n = Minted(b, o, c)
  PROVE  /\ Consistent(n) /\ n.live = b.live /\ n.home = [b.home EXCEPT ![o] = c]
         /\ n.locked = b.locked /\ n.plugged = b.plugged /\ n.driver = b.driver
         /\ n.over = b.over /\ n.tag = b.tag
  BY BoardAssumption DEF Minted, Consistent, Boards

LEMMA StampedLife ==
  ASSUME NEW b \in Boards, Consistent(b), NEW o \in Objs, b.home[o] # None, NEW t \in Names,
         NEW n, n = Stamped(b, o, t)
  PROVE  Consistent(n) /\ Stays(b, n) /\ n.driver = b.driver /\ n.over = b.over
  BY BoardAssumption DEF Stamped, Consistent, Boards, Stays

LEMMA PluggedLife ==
  ASSUME NEW b \in Boards, Consistent(b), NEW o \in Objs, b.home[o] # None,
         NEW n, n = PluggedIn(b, o)
  PROVE  /\ Consistent(n) /\ n.live = b.live /\ n.home = b.home
         /\ n.locked = b.locked /\ n.plugged = b.plugged \cup {o} /\ n.driver = b.driver
         /\ n.over = b.over
  BY BoardAssumption DEF PluggedIn, Consistent, Boards

LEMMA UnpluggedLife ==
  ASSUME NEW b \in Boards, Consistent(b), NEW o \in Objs, NEW n, n = Unplugged(b, o)
  PROVE  /\ Consistent(n) /\ n.live = b.live /\ n.home = b.home /\ n.edge = b.edge
         /\ n.locked = b.locked /\ n.plugged = b.plugged \ {o} /\ n.driver = b.driver
  BY BoardAssumption DEF Unplugged, Consistent, Boards

LEMMA JoinedLife ==
  ASSUME NEW b \in Boards, Consistent(b), NEW o \in Objs, b.home[o] # None, NEW p \in Peers,
         NEW n, n = Joined(b, o, p)
  PROVE  Consistent(n) /\ Stays(b, n) /\ n.driver = b.driver /\ n.over = b.over
  BY BoardAssumption DEF Joined, Consistent, Boards, Stays

LEMMA SeveredLife ==
  ASSUME NEW b \in Boards, Consistent(b), NEW o \in Objs, NEW n, n = Severed(b, o)
  PROVE  /\ Consistent(n) /\ Stays(b, n) /\ n.driver = b.driver
         /\ n.edge = [b.edge EXCEPT ![o] = None]
  BY BoardAssumption DEF Severed, Consistent, Boards, Stays

LEMMA GoneLife ==
  ASSUME NEW b \in Boards, Consistent(b), NEW S \in SUBSET Objs, NEW n, n = Gone(b, S)
  PROVE  /\ n \in Boards /\ Consistent(n) /\ n.live = b.live
         /\ n.home = [o \in Objs |-> IF o \in S THEN None ELSE b.home[o]]
         /\ n.edge = [d \in Dpnis |-> IF d \in S THEN None ELSE b.edge[d]]
         /\ n.locked = b.locked /\ n.plugged = b.plugged \ S /\ n.driver = b.driver
         /\ n.over = b.over /\ n.scanned = b.scanned /\ n.name = b.name
         /\ n.tag = [o \in Objs |-> IF o \in S THEN None ELSE b.tag[o]]
  BY BoardAssumption DEF Gone, Consistent, Boards, Objs

LEMMA OverriddenLife ==
  ASSUME NEW b \in Boards, Consistent(b), NEW c \in Dprcs, NEW drv \in Drivers,
         NEW n, n = Overridden(b, c, drv)
  PROVE  /\ n \in Boards /\ Consistent(n) /\ Stays(b, n) /\ n.driver = b.driver
         /\ n.over[c] = drv /\ n.edge = b.edge
  BY BoardAssumption DEF Overridden, Consistent, Boards, Stays

LEMMA BoundLife ==
  ASSUME NEW b \in Boards, Consistent(b), NEW c \in b.live, NEW drv \in Drivers,
         NEW n, n = Bound(b, c, drv)
  PROVE  /\ Consistent(n) /\ Stays(b, n) /\ n.driver = [b.driver EXCEPT ![c] = drv]
         /\ n.over = b.over
  BY BoardAssumption DEF Bound, Consistent, Boards, Stays

LEMMA UnboundLife ==
  ASSUME NEW b \in Boards, Consistent(b), NEW c \in Dprcs, NEW n, n = Unbound(b, c)
  PROVE  /\ n \in Boards /\ Consistent(n) /\ Stays(b, n)
         /\ n.driver = [b.driver EXCEPT ![c] = "none"] /\ n.edge = b.edge /\ n.over = b.over
  BY BoardAssumption DEF Unbound, Consistent, Boards, Stays, Drivers

LEMMA VfioUnboundLife ==
  ASSUME NEW b \in Boards, Consistent(b), NEW c \in Dprcs, NEW n, n = VfioUnbound(b, c)
  PROVE  /\ Consistent(n) /\ Stays(b, n) /\ n.over[c] = "none"
         /\ n.driver = [b.driver EXCEPT ![c] = "none"]
  <1>1. /\ Unbound(b, c) \in Boards /\ Consistent(Unbound(b, c)) /\ Stays(b, Unbound(b, c))
        /\ Unbound(b, c).driver = [b.driver EXCEPT ![c] = "none"]
    BY UnboundLife
  <1> QED BY <1>1, OverriddenLife DEF VfioUnbound, Stays, Drivers

LEMMA RemovedLife ==
  ASSUME NEW b \in Boards, Consistent(b), NEW c \in Dprcs,
         NEW n, n = Removed(b, c), NEW S, S = Residents(b, c)
  PROVE  /\ Consistent(n) /\ n.live = b.live \ {c}
         /\ n.home = [o \in Objs |-> IF o \in S THEN None ELSE b.home[o]]
         /\ n.edge = [d \in Dpnis |-> IF d \in S THEN None ELSE b.edge[d]]
         /\ n.locked = b.locked \ {c} /\ n.plugged = b.plugged \ S
         /\ n.driver = [b.driver EXCEPT ![c] = "none"]
  <1> DEFINE g == Gone(b, S)
  <1>1. S \in SUBSET Objs /\ \A o \in Objs : o \in S <=> b.home[o] = c BY DEF Residents
  <1>2. /\ g \in Boards /\ Consistent(g) /\ g.live = b.live
        /\ g.home = [o \in Objs |-> IF o \in S THEN None ELSE b.home[o]]
        /\ g.edge = [d \in Dpnis |-> IF d \in S THEN None ELSE b.edge[d]]
        /\ g.locked = b.locked /\ g.plugged = b.plugged \ S /\ g.driver = b.driver
    BY <1>1, BoardAssumption DEF Gone, Consistent, Boards, Objs
  <1> HIDE DEF g
  <1>3. n = [g EXCEPT !.live = @ \ {c}, !.name[c] = None, !.driver[c] = "none",
                      !.over[c] = "none", !.locked = @ \ {c}, !.scanned = @ \ {c}]
    BY DEF Removed, g
  <1>4. /\ n.live = g.live \ {c} /\ n.name = [g.name EXCEPT ![c] = None]
        /\ n.driver = [g.driver EXCEPT ![c] = "none"] /\ n.home = g.home /\ n.edge = g.edge
        /\ n.locked = g.locked \ {c} /\ n.scanned = g.scanned \ {c} /\ n.tag = g.tag
        /\ n.plugged = g.plugged /\ n.hidden = g.hidden
    BY <1>2, <1>3 DEF Boards
  <1>5. \A k \in Dprcs \ n.live : n.name[k] = None /\ n.driver[k] = "none"
    BY <1>2, <1>4 DEF Consistent, Boards
  <1>6. \A o \in Objs : n.home[o] \in n.live \/ (n.home[o] = None /\ n.tag[o] = None)
    <2>1. \A o \in Objs : g.home[o] # c BY <1>1, <1>2, BoardAssumption
    <2> QED BY <1>2, <1>4, <2>1 DEF Consistent
  <1>7. Consistent(n) BY <1>2, <1>4, <1>5, <1>6 DEF Consistent
  <1> QED BY <1>2, <1>4, <1>7

(* The steps of the lifecycle, told from the board. *)

LEMMA LifeStays ==
  ASSUME board'.live = board.live, board'.home = board.home, board'.locked = board.locked,
         board'.plugged = board.plugged,
         \A c \in Dprcs : board'.driver[c] = "vfio" <=> board.driver[c] = "vfio"
  PROVE  UNCHANGED Life!lifeVars
  <1>1. [c \in Dprcs |-> Residents(board, c)]' = [c \in Dprcs |-> Residents(board, c)]
    BY DEF Residents
  <1>2. [c \in Dprcs |-> PhaseOf(c)]' = [c \in Dprcs |-> PhaseOf(c)] BY DEF PhaseOf, Residents
  <1> QED BY <1>1, <1>2 DEF Life!lifeVars

LEMMA NoneIn ==
  ASSUME Consistent(board), NEW c \in Dprcs \ board.live
  PROVE  Residents(board, c) = {} /\ board.driver[c] # "vfio"
  BY BoardAssumption DEF Consistent, Residents

\* The members of one container change at most.
LEMMA MembersSame ==
  ASSUME board'.home = board.home
  PROVE  [c \in Dprcs |-> Residents(board, c)]' = [c \in Dprcs |-> Residents(board, c)]
  BY DEF Residents

LEMMA LifeCreate ==
  ASSUME Consistent(board), NEW c \in Dprcs \ board.live, board'.live = board.live \cup {c},
         UNCHANGED <<board.home, board.locked, board.plugged, board.driver>>
  PROVE  Life!LifeNext
  <1>1. Residents(board, c) = {} /\ board.driver[c] # "vfio" /\ board'.home = board.home BY NoneIn
  <1>2. PhaseOf(c) = "absent" BY DEF PhaseOf
  <1>3. [k \in Dprcs |-> PhaseOf(k)]' = [[k \in Dprcs |-> PhaseOf(k)] EXCEPT ![c] = "created"]
    BY <1>1 DEF PhaseOf, Residents
  <1>4. Life!Create(c) BY <1>1, <1>2, <1>3, MembersSame DEF Life!Create
  <1> QED BY <1>4 DEF Life!LifeNext

LEMMA LifeResident ==
  ASSUME board \in Boards, NEW c \in board.live \ board.locked, NEW o \in Objs, board.home[o] = None,
         board'.home = [board.home EXCEPT ![o] = c],
         board'.plugged \in {board.plugged, board.plugged \cup {o}},
         UNCHANGED <<board.live, board.locked, board.driver>>
  PROVE  Life!LifeNext
  <1>1. c \in Dprcs /\ c # None /\ board.home \in [Objs -> Dprcs \cup {None}] /\ None \notin Dprcs
    BY BoardAssumption DEF Boards
  <1>2. \A k \in Dprcs : Residents(board', k) = IF k = c THEN Residents(board, c) \cup {o}
                                                ELSE Residents(board, k)
    BY <1>1 DEF Residents
  <1>3. [k \in Dprcs |-> Residents(board, k)]'
          = [[k \in Dprcs |-> Residents(board, k)] EXCEPT ![c] = @ \cup {o}]
    BY <1>1, <1>2
  <1>4. [k \in Dprcs |-> PhaseOf(k)]' = [[k \in Dprcs |-> PhaseOf(k)] EXCEPT
                                            ![c] = IF @ = "bound" THEN @ ELSE "populated"]
    <2>1. Residents(board', c) # {} BY <1>1, <1>2
    <2> QED BY <1>1, <1>2, <2>1 DEF PhaseOf
  <1>5. PhaseOf(c) # "absent" /\ \A k \in Dprcs : o \notin Residents(board, k)
    BY <1>1 DEF PhaseOf, Residents
  <1>6. Life!CreateResident(c, o) BY <1>1, <1>3, <1>4, <1>5 DEF Life!CreateResident, Life!Occupied
  <1> QED BY <1>1, <1>6 DEF Life!LifeNext

LEMMA LifePlug ==
  ASSUME Consistent(board), board \in Boards, NEW o \in Objs, board.home[o] # None,
         \/ board'.plugged = board.plugged \cup {o}
         \/ board'.plugged = board.plugged \ {o} /\ board.home[o] \notin board.locked,
         UNCHANGED <<board.live, board.home, board.locked, board.driver>>
  PROVE  Life!LifeNext
  <1>1. PICK c \in Dprcs : c = board.home[o] BY DEF Boards
  <1>2. o \in Residents(board, c) BY <1>1 DEF Residents
  <1>3. [k \in Dprcs |-> PhaseOf(k)]' = [k \in Dprcs |-> PhaseOf(k)] BY DEF PhaseOf, Residents
  <1>4. Life!SetPlugged(c, o) BY <1>1, <1>2, <1>3, MembersSame DEF Life!SetPlugged
  <1> QED BY <1>4 DEF Life!LifeNext

LEMMA LifeWithdraw ==
  ASSUME Consistent(board), board \in Boards, NEW o \in Objs,
         board.home[o] # None, board.home[o] \notin board.locked,
         board'.home = [x \in Objs |-> IF x \in {o} THEN None ELSE board.home[x]],
         board'.plugged = board.plugged \ {o},
         UNCHANGED <<board.live, board.locked, board.driver>>
  PROVE  Life!LifeNext
  <1>1. PICK c \in Dprcs : c = board.home[o] BY DEF Boards
  <1>2. c \in board.live /\ None \notin Dprcs BY <1>1, BoardAssumption DEF Consistent
  <1>3. \A k \in Dprcs : Residents(board', k) = IF k = c THEN Residents(board, c) \ {o}
                                                ELSE Residents(board, k)
    BY <1>1, <1>2 DEF Residents
  <1>4. [k \in Dprcs |-> Residents(board, k)]'
          = [[k \in Dprcs |-> Residents(board, k)] EXCEPT ![c] = @ \ {o}]
    BY <1>3
  <1>5. [k \in Dprcs |-> PhaseOf(k)]' =
          [[k \in Dprcs |-> PhaseOf(k)] EXCEPT
             ![c] = IF @ = "bound" THEN @ ELSE IF Residents(board, c) \ {o} = {} THEN "created"
                                               ELSE "populated"]
    BY <1>2, <1>3 DEF PhaseOf
  <1>6. {o} \in SUBSET Residents(board, c) BY <1>1 DEF Residents
  <1>7. Life!Withdraw(c, {o}) BY <1>1, <1>4, <1>5, <1>6 DEF Life!Withdraw, Life!Occupied
  <1>8. {o} \in SUBSET [k \in Dprcs |-> Residents(board, k)][c] BY <1>6
  <1> QED BY <1>7, <1>8 DEF Life!LifeNext

LEMMA LifeBind ==
  ASSUME board \in Boards, NEW c \in board.live, board.driver[c] # "vfio", Residents(board, c) # {},
         board'.driver = [board.driver EXCEPT ![c] = "vfio"],
         UNCHANGED <<board.live, board.home, board.locked, board.plugged>>
  PROVE  Life!LifeNext
  <1>1. c \in Dprcs /\ PhaseOf(c) = "populated" BY DEF PhaseOf, Boards
  <1>2. [k \in Dprcs |-> PhaseOf(k)]' = [[k \in Dprcs |-> PhaseOf(k)] EXCEPT ![c] = "bound"]
    <2>1. \A k \in Dprcs : Residents(board', k) = Residents(board, k) BY DEF Residents
    <2>2. \A k \in Dprcs : board'.driver[k] = IF k = c THEN "vfio" ELSE board.driver[k]
      BY DEF Boards
    <2> QED BY <2>1, <2>2 DEF PhaseOf
  <1>3. Life!BindVfio(c) BY <1>1, <1>2, MembersSame DEF Life!BindVfio
  <1> QED BY <1>1, <1>3 DEF Life!LifeNext

LEMMA LifeUnbind ==
  ASSUME board \in Boards, NEW c \in board.live, board.driver[c] = "vfio",
         NEW drv \in {"none", "kernel"}, board'.driver = [board.driver EXCEPT ![c] = drv],
         UNCHANGED <<board.live, board.home, board.locked, board.plugged>>
  PROVE  Life!LifeNext
  <1>1. c \in Dprcs /\ PhaseOf(c) = "bound" BY DEF PhaseOf, Boards
  <1>2. [k \in Dprcs |-> PhaseOf(k)]' =
          [[k \in Dprcs |-> PhaseOf(k)] EXCEPT
             ![c] = IF Residents(board, c) = {} THEN "created" ELSE "populated"]
    <2>1. \A k \in Dprcs : Residents(board', k) = Residents(board, k) BY DEF Residents
    <2>2. \A k \in Dprcs : board'.driver[k] = IF k = c THEN drv ELSE board.driver[k] BY DEF Boards
    <2> QED BY <2>1, <2>2 DEF PhaseOf
  <1>3. Life!UnbindVfio(c) BY <1>1, <1>2, MembersSame DEF Life!UnbindVfio
  <1> QED BY <1>1, <1>3 DEF Life!LifeNext

LEMMA LifeDestroy ==
  ASSUME board \in Boards, NEW c \in board.live \ board.locked, board.driver[c] # "vfio",
         Residents(board, c) \cap board.plugged = {},
         board'.live = board.live \ {c}, board'.locked = board.locked \ {c},
         board'.home = [o \in Objs |-> IF o \in Residents(board, c) THEN None ELSE board.home[o]],
         board'.plugged = board.plugged \ Residents(board, c),
         board'.driver = [board.driver EXCEPT ![c] = "none"]
  PROVE  Life!LifeNext
  <1>1. c \in Dprcs /\ c # None /\ None \notin Dprcs BY BoardAssumption DEF Boards
  <1>2. \A k \in Dprcs : Residents(board', k) = IF k = c THEN {} ELSE Residents(board, k)
    BY <1>1 DEF Residents
  <1>3. [k \in Dprcs |-> Residents(board, k)]'
          = [[k \in Dprcs |-> Residents(board, k)] EXCEPT ![c] = {}]
    BY <1>2
  <1>4. [k \in Dprcs |-> PhaseOf(k)]' = [[k \in Dprcs |-> PhaseOf(k)] EXCEPT ![c] = "absent"]
    BY <1>2 DEF PhaseOf, Boards
  <1>5. PhaseOf(c) \in {"created", "populated"} BY DEF PhaseOf
  <1>6. board'.locked = board.locked /\ board'.plugged = board.plugged OBVIOUS
  <1>7. Life!Destroy(c)
    BY <1>1, <1>3, <1>4, <1>5, <1>6 DEF Life!Destroy, Life!Settled, Life!Unplugged
  <1> QED BY <1>1, <1>7 DEF Life!LifeNext

LEMMA LifeLock ==
  ASSUME board \in Boards, NEW c \in board.live,
         board'.locked \in {board.locked \cup {c}, board.locked \ {c}},
         UNCHANGED <<board.live, board.home, board.plugged, board.driver>>
  PROVE  Life!LifeNext
  <1>1. c \in Dprcs /\ PhaseOf(c) # "absent" BY DEF PhaseOf, Boards
  <1>2. [k \in Dprcs |-> PhaseOf(k)]' = [k \in Dprcs |-> PhaseOf(k)] BY DEF PhaseOf, Residents
  <1>3. Life!Lock(c) \/ Life!Unlock(c) BY <1>1, <1>2, MembersSame DEF Life!Lock, Life!Unlock
  <1> QED BY <1>1, <1>3 DEF Life!LifeNext

(* What a verb owes for the rest of the queue to stay in order. *)

\* What the board may lose in each phase while v takes effect.
Spares(b, n, v) ==
  /\ b.live \subseteq n.live
  /\ \A d \in Dpnis : b.home[d] # None => n.home[d] # None
  /\ \A c \in Dprcs : Residents(b, c) # {} =>
       Residents(n, c) # {} \/ (Shrinks(v) /\ v.on = c)
Eases(b, n, v) ==
  /\ \A c \in Dprcs : b.driver[c] = "none" \/ (v.op = "release" /\ v.on = c) => n.driver[c] = "none"
  /\ \A o \in Objs : n.home[o] = b.home[o] \/ n.home[o] = None
  /\ \A d \in Dpnis : b.edge[d] = None \/ (v.op = "sever" /\ v.obj = d) => n.edge[d] = None

LEMMA QueueIs ==
  ASSUME IInv, queue # << >>
  PROVE  /\ queue \in Seq(Verbs) /\ Len(queue) \in Nat /\ Len(queue) # 0 /\ V = queue[1]
         /\ Len(Tail(queue)) = Len(queue) - 1
         /\ \A i \in 1..(Len(queue) - 1) : Tail(queue)[i] = queue[i+1]
  <1>1. queue \in Seq(Sound) BY HeadSound, Running DEF Owed
  <1>2. Sound \subseteq Verbs BY DEF Sound, SoundFor
  <1> HIDE DEF Sound
  <1>3. queue \in Seq(Verbs) BY <1>1, <1>2
  <1> QED BY <1>3 DEF V

LEMMA HeadLife ==
  ASSUME IInv, LInv, queue # << >>
  PROVE  /\ Consistent(board) /\ Recalled
         /\ Fits(board, pc, V) /\ Prepared(board, hand, V)
         /\ V.op = "destroy" => /\ board.driver[V.on] = "none"
                                /\ \A d \in DpniRows(board, V.on) : board.edge[d] = None
  <1>1. pc # "idle" /\ Len(queue) \in Nat /\ Len(queue) # 0 /\ V = queue[1] BY HeadSound, QueueIs
  <1>2. 1 \in 1..Len(queue) /\ ~(1 > 1) /\ 1..(1-1) = {} BY <1>1
  <1>3. Consistent(board) /\ Recalled /\ Queued BY <1>1 DEF LInv
  <1> QED BY <1>1, <1>2, <1>3 DEF Queued, Ordered, Drained

LEMMA StillFits ==
  ASSUME NEW b, NEW n, NEW v \in Verbs, NEW ph, Fits(b, ph, v),
         ph = "population" => /\ b.live \subseteq n.live
                              /\ \A d \in Dpnis : b.home[d] # None => n.home[d] # None,
         v.op = "connect" => v.obj \in Dpnis \cup {None}
  PROVE  Fits(n, ph, v)
  BY DEF Fits, PhaseOps

LEMMA TailKeeps ==
  ASSUME IInv, LInv, queue # << >>, queue' = Tail(queue), pc' = pc,
         \A w \in Verbs : Prepares(V, w) => Prepared(board', hand', w),
         pc = "population" => Spares(board, board', V),
         pc = "prune" => Eases(board, board', V)
  PROVE  Queued'
  <1> DEFINE m == Len(queue) - 1
  <1>1. /\ Len(queue) \in Nat /\ m \in Nat /\ V = queue[1] /\ Len(queue') = m
        /\ \A i \in 1..m : queue'[i] = queue[i+1] /\ i + 1 \in 1..Len(queue)
        /\ \A i \in 1..Len(queue) : queue[i] \in Verbs
        /\ queue \in Seq(Sound)
    BY QueueIs, HeadSound, Running DEF Owed
  <1>2. pc # "idle" /\ Queued BY HeadSound DEF LInv
  <1> HIDE DEF V
  <1>3. ASSUME NEW i \in 1..m PROVE Fits(board', pc', queue'[i])
    <2> DEFINE v == queue[i+1]
    <2>1. v \in Sound /\ v \in Verbs /\ Fits(board, pc, v) BY <1>1, <1>2 DEF Queued
    <2>2. v.op = "connect" => v.obj \in Dpnis \cup {None} BY <2>1 DEF Sound, SoundFor
    <2> HIDE DEF v
    <2>3. Fits(board', pc, v) BY <2>1, <2>2, StillFits DEF Spares
    <2> QED BY <1>1, <2>3 DEF v
  <1>4. ASSUME NEW i \in 1..m
        PROVE  \/ i > 1 /\ Prepares(queue'[i-1], queue'[i])
               \/ /\ Prepared(board', hand', queue'[i])
                  /\ \/ i = 1
                     \/ /\ queue'[i].op = "override"
                        /\ \A j \in 1..(i-1) : Shrinks(queue'[j]) => queue'[j].on # queue'[i].on
    <2> DEFINE v == queue[i+1]
    <2>1. v \in Verbs /\ v = queue'[i] /\ i + 1 > 1 /\ i + 1 # 1 /\ (i + 1) - 1 = i
          /\ i + 1 \in 1..Len(queue)
      BY <1>1
    <2>2. \/ Prepares(queue[i], v)
          \/ /\ Prepared(board, hand, v) /\ v.op = "override"
             /\ \A j \in 1..i : Shrinks(queue[j]) => queue[j].on # v.on
      BY <1>2, <2>1 DEF Queued, Ordered
    <2> HIDE DEF v
    <2>3. CASE Prepares(queue[i], v)
      <3>1. CASE i = 1 BY <1>1, <2>1, <2>3, <3>1
      <3>2. CASE i # 1
        <4>1. i - 1 \in 1..m /\ queue'[i-1] = queue[i] /\ i > 1
          <5>1. i - 1 \in 1..m /\ (i - 1) + 1 = i BY <1>1, <3>2
          <5>2. queue'[i-1] = queue[(i-1)+1] BY <1>1, <5>1
          <5> QED BY <5>1, <5>2, <3>2
        <4> QED BY <2>1, <2>3, <4>1
      <3> QED BY <3>1, <3>2
    <2>4. CASE /\ Prepared(board, hand, v) /\ v.op = "override"
               /\ \A j \in 1..i : Shrinks(queue[j]) => queue[j].on # v.on
      <3>1. pc = "population" /\ v.on \in Dprcs
        <4>1. Fits(board, pc, v) /\ v \in Sound BY <1>1, <1>2, <2>1 DEF Queued, v
        <4>2. pc = "population" BY <2>4, <4>1 DEF Fits, PhaseOps
        <4> QED BY <2>4, <4>1, <4>2 DEF Sound, SoundFor
      <3>2. Residents(board, v.on) # {} BY <2>4 DEF Prepared
      <3>3. 1 \in 1..i BY <1>1
      <3>4. Residents(board', v.on) # {} BY <1>1, <2>4, <3>1, <3>2, <3>3 DEF Spares
      <3>5. Prepared(board', hand', v) BY <2>4, <3>4 DEF Prepared, NeedsHand
      <3>6. \A j \in 1..(i-1) : Shrinks(queue'[j]) => queue'[j].on # v.on
        <4>1. \A j \in 1..(i-1) : j \in 1..m /\ j + 1 \in 1..i BY <1>1
        <4> QED BY <1>1, <2>4, <4>1
      <3> QED BY <2>1, <2>4, <3>5, <3>6
    <2> QED BY <2>2, <2>3, <2>4
  <1>5. ASSUME NEW i \in 1..m, queue'[i].op = "destroy"
        PROVE  /\ \/ board'.driver[queue'[i].on] = "none"
                  \/ \E j \in 1..(i-1) : queue'[j].op = "release" /\ queue'[j].on = queue'[i].on
               /\ \A d \in DpniRows(board', queue'[i].on) :
                    \/ board'.edge[d] = None
                    \/ \E j \in 1..(i-1) : /\ queue'[j].op = "sever" /\ queue'[j].on = queue'[i].on
                                           /\ queue'[j].obj = d
    <2> DEFINE v == queue[i+1]
    <2>1. v \in Sound /\ v = queue'[i] /\ i + 1 \in 1..Len(queue) /\ (i + 1) - 1 = i /\ v.op = "destroy"
      BY <1>1, <1>5
    <2>2. /\ \/ board.driver[v.on] = "none"
             \/ \E j \in 1..i : queue[j].op = "release" /\ queue[j].on = v.on
          /\ \A d \in DpniRows(board, v.on) :
               \/ board.edge[d] = None
               \/ \E j \in 1..i : queue[j].op = "sever" /\ queue[j].on = v.on /\ queue[j].obj = d
          /\ Fits(board, pc, v)
      BY <1>2, <2>1 DEF Queued, Drained
    <2> HIDE DEF v
    <2>3. pc = "prune" /\ v.on \in Dprcs BY <2>1, <2>2 DEF Fits, PhaseOps, Sound, SoundFor
    <2>4. Eases(board, board', V) BY <2>3
    <2>5. \A j \in 1..i : j = 1 \/ (j - 1 \in 1..(i-1) /\ queue'[j-1] = queue[j])
      <3>1. ASSUME NEW j \in 1..i, j # 1 PROVE j - 1 \in 1..(i-1) /\ queue'[j-1] = queue[j]
        <4>1. j - 1 \in 1..m /\ (j - 1) + 1 = j /\ j - 1 \in 1..(i-1) BY <1>1, <3>1
        <4>2. queue'[j-1] = queue[(j-1)+1] BY <1>1, <4>1
        <4> QED BY <4>1, <4>2
      <3> QED BY <3>1
    <2>6. \/ board'.driver[v.on] = "none"
          \/ \E j \in 1..(i-1) : queue'[j].op = "release" /\ queue'[j].on = v.on
      <3>1. CASE board.driver[v.on] = "none" BY <2>3, <2>4, <3>1 DEF Eases
      <3>2. CASE \E j \in 1..i : queue[j].op = "release" /\ queue[j].on = v.on
        BY <1>1, <2>3, <2>4, <2>5, <3>2 DEF Eases
      <3> QED BY <2>2, <3>1, <3>2
    <2>7. ASSUME NEW d \in DpniRows(board', v.on)
          PROVE  \/ board'.edge[d] = None
                 \/ \E j \in 1..(i-1) : queue'[j].op = "sever" /\ queue'[j].on = v.on /\ queue'[j].obj = d
      <3>1. d \in Dpnis /\ d \in DpniRows(board, v.on)
        BY <2>3, <2>4, BoardAssumption DEF Eases, DpniRows, Residents
      <3>2. CASE board.edge[d] = None BY <2>4, <3>1, <3>2 DEF Eases
      <3>3. CASE \E j \in 1..i : queue[j].op = "sever" /\ queue[j].on = v.on /\ queue[j].obj = d
        BY <1>1, <2>4, <2>5, <3>1, <3>3, SMTT(30) DEF Eases
      <3> QED BY <2>2, <3>1, <3>2, <3>3
    <2> QED BY <2>1, <2>6, <2>7
  <1> HIDE DEF m
  <1>6. Len(queue') = m BY <1>1
  <1>7. Ordered(board, hand, queue)' BY <1>4, <1>6 DEF Ordered
  <1>8. Drained(board, queue)' BY <1>5, <1>6 DEF Drained
  <1> QED BY <1>3, <1>6, <1>7, <1>8 DEF Queued

LEMMA JournalSame ==
  ASSUME IInv, Recalled, pc # "idle", UNCHANGED <<journal, unreversed>>, pc' \in {pc, "unwind"},
         \A c \in Dprcs : board'.driver[c] = "vfio" => board.driver[c] = "vfio"
  PROVE  Recalled'
  <1>1. \A i \in 1..Len(journal) : journal[i].kind = "dprc" => journal[i].on \in Dprcs
    <2>1. journal \in Seq(SoundRows) BY Running DEF Journaled
    <2>2. \A r \in SoundRows : r.kind = "dprc" => r.on \in Dprcs BY DEF SoundRows, RowsFor
    <2> QED BY <2>1, <2>2
  <1>2. MadeFirst' BY DEF Recalled, MadeFirst
  <1>3. HeldRecorded' BY <1>1 DEF Recalled, HeldRecorded, OnRecord
  <1> QED BY <1>2, <1>3 DEF Recalled

LEMMA JournalGrown ==
  ASSUME IInv, Recalled, pc # "idle", UNCHANGED <<pc, unreversed>>,
         NEW row \in Rows, journal' = journal \o <<row>>,
         row.kind = "dprc" => pc = "containers" /\ board'.driver[row.on] # "vfio",
         row.kind # "dprc" => pc # "containers",
         \A c \in Dprcs : board'.driver[c] = "vfio" =>
           board.driver[c] = "vfio" \/ (row.kind = "bound" /\ row.on = c)
  PROVE  Recalled'
  <1> DEFINE m == Len(journal)
  <1>0. journal \in Seq(SoundRows) /\ SoundRows \subseteq Rows
    BY Running DEF Journaled, SoundRows, RowsFor
  <1>1. /\ m \in Nat /\ Len(journal') = m + 1
        /\ \A i \in 1..m : journal'[i] = journal[i] /\ i \in 1..(m+1)
        /\ journal'[m+1] = row
        /\ \A i \in 1..(m+1) : i \in 1..m \/ i = m + 1
    BY <1>0
  <1>2. OnRecord' = OnRecord \cup {row}
    <2>1. journal \in Seq(Rows) BY <1>0
    <2>2. ToSet(journal') = ToSet(journal) \cup {row} BY <2>1, Grown
    <2> QED BY <2>2 DEF OnRecord
  <1>3. \A i \in 1..m : journal[i].kind = "dprc" => journal[i].on \in Dprcs
    <2>1. \A r \in SoundRows : r.kind = "dprc" => r.on \in Dprcs BY DEF SoundRows, RowsFor
    <2> QED BY <1>0, <2>1
  <1>4. MadeFirst'
    <2>1. pc = "containers" => \A i \in 1..(m+1) : journal'[i].kind = "dprc"
      BY <1>1 DEF Recalled, MadeFirst
    <2>2. ASSUME NEW i \in 1..(m+1), NEW j \in 1..(m+1), i < j, journal'[j].kind = "dprc"
          PROVE  journal'[i].kind = "dprc"
      <3>1. CASE j = m + 1 BY <1>1, <2>1, <2>2, <3>1
      <3>2. CASE j \in 1..m
        <4>1. i \in 1..m BY <1>1, <2>2, <3>2
        <4> QED BY <1>1, <2>2, <3>2, <4>1 DEF Recalled, MadeFirst
      <3> QED BY <1>1, <3>1, <3>2
    <2> QED BY <1>1, <2>1, <2>2 DEF MadeFirst
  <1>5. HeldRecorded'
    <2> SUFFICES ASSUME NEW i \in 1..(m+1), journal'[i].kind = "dprc",
                        board'.driver[journal'[i].on] = "vfio"
                 PROVE  \E r \in OnRecord' : r.kind = "bound" /\ r.on = journal'[i].on
      BY <1>1 DEF HeldRecorded
    <2>1. i \in 1..m /\ journal[i] = journal'[i] /\ journal[i].on \in Dprcs BY <1>1, <1>3
    <2> QED BY <1>2, <2>1 DEF Recalled, HeldRecorded
  <1> QED BY <1>4, <1>5 DEF Recalled

LEMMA VerbLife ==
  ASSUME IInv, LInv, queue # << >>, Advance, UNCHANGED given, Consistent(board'), Recalled',
         \A w \in Verbs : Prepares(V, w) => Prepared(board', hand', w),
         pc = "population" => Spares(board, board', V),
         pc = "prune" => Eases(board, board', V)
  PROVE  LInv'
  <1>1. queue' = Tail(queue) /\ pc' = pc BY DEF Advance
  <1>2. Queued' BY <1>1, TailKeeps
  <1> QED BY <1>2 DEF LInv

(* The verbs. *)

\* A prune takes down only what is released and cut.
Drains ==
  \A c \in board.live \ board'.live :
    pc = "prune" => /\ board.driver[c] = "none"
                    /\ \A d \in DpniRows(board, c) : board.edge[d] = None

\* A step the lifecycle knows, or the forced one.
Taken == [Life!LifeNext \/ Forced]_(Life!lifeVars) /\ Drains

\* What most verbs leave for the next to rely on: nothing.
LEMMA Unrelied ==
  ASSUME NEW u, u.op \notin {"mintDpni", "mintPool", "stamp", "plug", "connect", "override",
                             "unbind", "judge"},
         NEW n, NEW hd, NEW w, Prepares(u, w)
  PROVE  Prepared(n, hd, w)
  BY DEF Prepares, Prepared, NeedsHand, Mints

LEMMA PhaseIs ==
  ASSUME IInv, LInv, queue # << >>
  PROVE  /\ V.op \in {"spawn", "verdict"} => pc = "containers"
         /\ V.op \in {"mintDpni", "mintPool", "stamp", "plug", "connect", "reclaim",
                      "pruneForeign", "belowDraw", "judge", "kernelBind", "override",
                      "bind", "unbind"} => pc = "population" /\ V.on \in board.live
         /\ V.op \in {"release", "sever", "unplug", "destroy", "pruneVerdict"} =>
              pc = "prune" /\ (V.op # "pruneVerdict" => V.on \in Dprcs)
         /\ pc \in {"containers", "population", "prune"} /\ board \in Boards
         /\ board.live \subseteq Dprcs
  <1>1. Fits(board, pc, V) /\ pc \notin {"idle", "unwind"} BY HeadLife, HeadSound
  <1>2. pc \in {"containers", "population", "prune"} BY <1>1 DEF IInv, Shape, TypeOK
  <1>3. board \in Boards /\ board.live \subseteq Dprcs BY <1>1, Running
  <1>4. V.op \notin {"spawn", "verdict", "done", "pruneVerdict"} => V.on \in Dprcs BY HeadSound
  <1> HIDE DEF V
  <1> QED BY <1>1, <1>2, <1>3, <1>4 DEF Fits, PhaseOps

\* Verbs that read back.
LEMMA ReadLife ==
  ASSUME IInv, LInv, Verdict \/ JudgeChild, UNCHANGED given
  PROVE  LInv' /\ Taken
  <1>1. /\ queue # << >> /\ Advance /\ UNCHANGED <<board, hand, journal>>
        /\ V.op \in {"verdict", "judge"}
        /\ V.op = "judge" => JudgedGood(board, V.arg, V.on)
    BY DEF Verdict, JudgeChild, Next1, V
  <1>2. /\ Consistent(board) /\ Recalled /\ pc \in {"containers", "population", "prune"}
        /\ pc # "prune"
    BY <1>1, HeadLife, PhaseIs
  <1>3. Recalled' BY <1>1, <1>2, JournalSame DEF Advance
  <1>4. ASSUME NEW w \in Verbs, Prepares(V, w) PROVE Prepared(board', hand', w)
    <2>1. CASE V.op = "verdict" BY <1>4, <2>1, Unrelied
    <2>2. CASE V.op = "judge"
      <3>1. ~NeedsHand(V) /\ ~Mints(V) BY <2>2 DEF NeedsHand, Mints
      <3>2. ~NeedsHand(w) /\ w.op # "bind" BY <1>4, <2>2, <3>1 DEF Prepares
      <3>3. w.op = "override" => Residents(board, w.on) # {}
        <4>1. w.op = "override" => w.on = V.on /\ Need[V.arg] \in Nat \ {0} BY <1>4 DEF Prepares
        <4>2. Cardinality(Managed(board, V.on)) = Need[V.arg]
          BY <1>1, <2>2 DEF JudgedGood, CensusConverged
        <4>3. w.op = "override" => Managed(board, V.on) # {} BY <4>1, <4>2, FS_EmptySet
        <4> QED BY <4>1, <4>3 DEF Managed, PoolRows
      <3> QED BY <1>1, <3>2, <3>3 DEF Prepared
    <2> QED BY <1>1, <2>1, <2>2
  <1>5. Spares(board, board', V) BY <1>1 DEF Spares
  <1>6. LInv' BY <1>1, <1>2, <1>3, <1>4, <1>5, VerbLife
  <1>7. UNCHANGED Life!lifeVars BY <1>1, LifeStays
  <1>8. Drains BY <1>1 DEF Drains
  <1> QED BY <1>6, <1>7, <1>8 DEF Taken

\* The spawns a create and a connect end with.
LEMMA SpawnEffect ==
  ASSUME IInv, LInv, Next1("spawn"), NEW c \in Dprcs \ board.live,
         board' = Spawned(board, c, V.arg)
  PROVE  /\ Consistent(board') /\ board'.live = board.live \cup {c}
         /\ board'.home = board.home /\ board'.driver = board.driver /\ Taken
  <1>1. queue # << >> /\ V.op = "spawn" BY DEF Next1, V
  <1>3. Consistent(board) /\ board \in Boards BY <1>1, HeadLife, PhaseIs
  <1>4. V.arg \in Names
    <2>1. V \in Sound BY <1>1, HeadSound
    <2>2. V.arg \in Unmade BY <1>1, <2>1 DEF Sound, SoundFor
    <2>3. Unmade \subseteq Names BY <1>1, HeadSound, Running, PlanAssumption DEF Unmade, Tenants, ToSet
    <2> QED BY <2>2, <2>3
  <1>5. /\ Consistent(board') /\ board'.live = board.live \cup {c} /\ board'.home = board.home
        /\ board'.locked = board.locked /\ board'.plugged = board.plugged
        /\ board'.driver = board.driver
    BY <1>3, <1>4, SpawnedLife
  <1>6. Life!LifeNext BY <1>3, <1>5, LifeCreate
  <1> QED BY <1>5, <1>6 DEF Taken, Drains

LEMMA SpawnLife ==
  ASSUME IInv, LInv, Spawn, UNCHANGED given
  PROVE  LInv' /\ Taken
  <1>1. PICK c : /\ c = NextId(Dprcs \ board.live) /\ board' = Spawned(board, c, V.arg)
                 /\ journal' = journal \o <<Row("dprc", c, None)>>
    BY DEF Spawn, Record
  <1>2. /\ queue # << >> /\ Advance /\ UNCHANGED hand /\ V.op = "spawn"
        /\ Dprcs \ board.live # {} /\ Next1("spawn")
    BY DEF Spawn, Next1, V
  <1>3. /\ Consistent(board) /\ Recalled /\ pc = "containers" /\ board \in Boards
    BY <1>2, HeadLife, PhaseIs
  <1>4. c \in Dprcs \ board.live BY <1>1, <1>2, NextIdIn, BoardAssumption
  <1>5. /\ Consistent(board') /\ board'.live = board.live \cup {c}
        /\ board'.home = board.home /\ board'.driver = board.driver /\ Taken
    BY <1>1, <1>2, <1>4, SpawnEffect
  <1>6. Recalled'
    <2> DEFINE row == Row("dprc", c, None)
    <2>1. row \in Rows /\ row.kind = "dprc" /\ row.on = c /\ journal' = journal \o <<row>>
      BY <1>1, <1>4 DEF Row, Rows
    <2> HIDE DEF row
    <2>2. board'.driver[c] # "vfio" BY <1>3, <1>4, <1>5 DEF Consistent
    <2> QED BY <1>2, <1>3, <1>5, <2>1, <2>2, JournalGrown DEF Advance
  <1>7. \A w \in Verbs : Prepares(V, w) => Prepared(board', hand', w) BY <1>2, Unrelied
  <1>8. LInv' BY <1>2, <1>3, <1>5, <1>6, <1>7, VerbLife
  <1> QED BY <1>5, <1>8

LEMMA MintLife ==
  ASSUME IInv, LInv, NEW op \in {"mintDpni", "mintPool"}, NEW kind \in {Dpnis, Pool},
         Mint(op, kind), UNCHANGED given
  PROVE  LInv' /\ Taken
  <1> DEFINE o == NextId(FreeIds(board, kind))
  <1>1. /\ queue # << >> /\ Advance /\ UNCHANGED journal /\ V.op = op
        /\ FreeIds(board, kind) # {} /\ hand' = o /\ board' = Minted(board, o, V.on)
        /\ V.on \notin board.locked
    BY DEF Mint, Next1, V
  <1>2. o \in FreeIds(board, kind)
    <2>1. FreeIds(board, kind) \subseteq Nat BY BoardAssumption DEF FreeIds
    <2> QED BY <1>1, <2>1, NextIdIn
  <1> HIDE DEF o
  <1>3. o \in Objs /\ board.home[o] = None /\ o # None BY <1>2, BoardAssumption DEF FreeIds, Objs
  <1>4. /\ Consistent(board) /\ Recalled /\ pc = "population" /\ board \in Boards
        /\ V.on \in board.live
    BY <1>1, HeadLife, PhaseIs
  <1>5. PICK c \in board.live : c = V.on /\ c \in Dprcs /\ c # None /\ c \notin board.locked
    BY <1>1, <1>4, BoardAssumption DEF Boards
  <1>6. /\ Consistent(board') /\ board'.live = board.live
        /\ board'.home = [board.home EXCEPT ![o] = c]
        /\ board'.locked = board.locked /\ board'.plugged = board.plugged
        /\ board'.driver = board.driver
    BY <1>1, <1>3, <1>4, <1>5, MintedLife
  <1>7. board.home \in [Objs -> Dprcs \cup {None}] BY <1>4 DEF Boards
  <1>8. Recalled' BY <1>1, <1>4, <1>6, JournalSame DEF Advance
  <1>9. ASSUME NEW w \in Verbs, Prepares(V, w) PROVE Prepared(board', hand', w)
    <2>1. w.op # "bind" /\ w.op # "override" BY <1>1, <1>9 DEF Prepares
    <2>2. hand' # None /\ board'.home[hand'] # None BY <1>1, <1>3, <1>5, <1>6, <1>7
    <2> QED BY <2>1, <2>2 DEF Prepared
  <1>10. Spares(board, board', V)
    <2>1. \A d \in Objs : board.home[d] # None => board'.home[d] = board.home[d] BY <1>3, <1>6, <1>7
    <2>2. \A k \in Dprcs : Residents(board, k) \subseteq Residents(board', k)
      BY <2>1, BoardAssumption DEF Residents
    <2> QED BY <1>6, <2>1, <2>2 DEF Spares, Objs
  <1>11. LInv' BY <1>1, <1>4, <1>6, <1>8, <1>9, <1>10, VerbLife
  <1>12. Life!LifeNext BY <1>3, <1>4, <1>5, <1>6, LifeResident
  <1>13. Drains BY <1>6 DEF Drains
  <1> QED BY <1>11, <1>12, <1>13 DEF Taken

\* The object just created stands.
LEMMA HandLife ==
  ASSUME IInv, LInv, queue # << >>, NeedsHand(V)
  PROVE  hand \in Objs /\ hand # None /\ board.home[hand] # None
  BY HeadLife, HeadSound DEF Prepared

\* A verb of the population that only marks what stands.
LEMMA MarkLife ==
  ASSUME IInv, LInv, queue # << >>, Advance, UNCHANGED given, pc = "population",
         Consistent(board'), board'.live = board.live, board'.home = board.home, Recalled',
         \A w \in Verbs : Prepares(V, w) => Prepared(board', hand', w)
  PROVE  LInv' /\ Drains
  <1>1. Spares(board, board', V) BY DEF Spares, Residents
  <1>2. LInv' BY <1>1, VerbLife
  <1> QED BY <1>2 DEF Drains

LEMMA FinishEffect ==
  ASSUME IInv, LInv, queue # << >>,
         \/ V.op = "stamp" /\ board' = Stamped(board, hand, V.arg)
         \/ V.op = "plug" /\ board' = PluggedIn(board, hand)
  PROVE  /\ hand \in Objs /\ hand # None /\ board.home[hand] # None
         /\ Consistent(board') /\ board'.live = board.live /\ board'.home = board.home
         /\ board'.driver = board.driver /\ Taken
  <1>1. Consistent(board) /\ board \in Boards BY HeadLife, PhaseIs
  <1>2. PICK o \in Objs : o = hand /\ o # None /\ board.home[o] # None BY HandLife DEF NeedsHand
  <1>3. /\ Consistent(board') /\ board'.live = board.live /\ board'.home = board.home
        /\ board'.locked = board.locked /\ board'.driver = board.driver
        /\ board'.plugged \in {board.plugged, board.plugged \cup {o}}
    <2>1. CASE V.op = "stamp" /\ board' = Stamped(board, hand, V.arg)
      <3>1. PICK t \in Names : t = V.arg BY <2>1, HeadSound DEF Sound, SoundFor
      <3> QED BY <1>1, <1>2, <2>1, <3>1, StampedLife DEF Stays
    <2>2. CASE board' = PluggedIn(board, hand) BY <1>1, <1>2, <2>2, PluggedLife
    <2> QED BY <2>1, <2>2
  <1>4. [Life!LifeNext]_(Life!lifeVars)
    <2>1. CASE board'.plugged = board.plugged BY <1>3, <2>1, LifeStays
    <2>2. CASE board'.plugged = board.plugged \cup {o} BY <1>1, <1>2, <1>3, <2>2, LifePlug
    <2> QED BY <1>3, <2>1, <2>2
  <1> QED BY <1>2, <1>3, <1>4 DEF Taken, Drains

LEMMA FinishLife ==
  ASSUME IInv, LInv, Stamp \/ Plug, UNCHANGED given
  PROVE  LInv' /\ Taken
  <1>1. /\ queue # << >> /\ Advance /\ UNCHANGED hand /\ V.op \in {"stamp", "plug"}
        /\ \/ UNCHANGED journal
           \/ \E kind \in {"dpni", "pool"} : journal' = journal \o <<Row(kind, V.on, hand)>>
    BY DEF Stamp, Plug, Next1, V, Created, Record, Recorded
  <1>2. /\ Consistent(board) /\ Recalled /\ pc = "population" /\ board \in Boards
        /\ V.on \in board.live /\ V.on \in Dprcs
    BY <1>1, HeadLife, PhaseIs
  <1>4. /\ hand \in Objs /\ hand # None /\ board.home[hand] # None
        /\ Consistent(board') /\ board'.live = board.live /\ board'.home = board.home
        /\ board'.driver = board.driver /\ Taken
    BY <1>1, FinishEffect DEF Stamp, Plug, Next1, V
  <1>5. Recalled'
    <2>1. CASE UNCHANGED journal BY <1>1, <1>2, <1>4, <2>1, JournalSame DEF Advance
    <2>2. CASE \E kind \in {"dpni", "pool"} : journal' = journal \o <<Row(kind, V.on, hand)>>
      <3>1. PICK kind \in {"dpni", "pool"} : journal' = journal \o <<Row(kind, V.on, hand)>> BY <2>2
      <3> DEFINE row == Row(kind, V.on, hand)
      <3>2. row \in Rows /\ row.kind # "dprc" /\ journal' = journal \o <<row>>
        BY <1>2, <1>4, <3>1 DEF Row, Rows
      <3> HIDE DEF row
      <3> QED BY <1>1, <1>2, <1>4, <3>2, JournalGrown DEF Advance
    <2> QED BY <1>1, <2>1, <2>2
  <1>6. ASSUME NEW w \in Verbs, Prepares(V, w) PROVE Prepared(board', hand', w)
    <2>1. w.op # "bind" /\ w.op # "override" BY <1>1, <1>6 DEF Prepares
    <2> QED BY <1>1, <1>4, <2>1 DEF Prepared
  <1>7. LInv' BY <1>1, <1>2, <1>4, <1>5, <1>6, MarkLife
  <1> QED BY <1>4, <1>7

LEMMA ConnectEffect ==
  ASSUME IInv, LInv, Next1("connect"), board' = Joined(board, Target, V.arg)
  PROVE  /\ Target \in Objs /\ Consistent(board') /\ Stays(board, board')
         /\ board'.driver = board.driver /\ Taken
  <1>1. queue # << >> /\ V.op = "connect" BY DEF Next1, V
  <1>2. Consistent(board) /\ board \in Boards BY <1>1, HeadLife, PhaseIs
  <1>3. PICK p \in Peers : p = V.arg BY <1>1, HeadSound DEF Sound, SoundFor
  <1>4. PICK o \in Objs : o = Target /\ board.home[o] # None
    <2>1. CASE V.obj = None BY <1>1, <2>1, HandLife DEF Target, NeedsHand
    <2>2. CASE V.obj # None
      <3>1. board.home[V.obj] # None BY <1>1, <2>2, HeadLife DEF Fits
      <3>2. V.obj \in Objs BY <1>1, <2>2, HeadSound
      <3> QED BY <2>2, <3>1, <3>2 DEF Target
    <2> QED BY <2>1, <2>2
  <1>5. Consistent(board') /\ Stays(board, board') /\ board'.driver = board.driver
    BY <1>2, <1>3, <1>4, JoinedLife
  <1>6. UNCHANGED Life!lifeVars BY <1>5, LifeStays DEF Stays
  <1> QED BY <1>4, <1>5, <1>6 DEF Taken, Drains, Stays

LEMMA ConnectLife ==
  ASSUME IInv, LInv, Connect, UNCHANGED given
  PROVE  LInv' /\ Taken
  <1>1. /\ queue # << >> /\ Advance /\ UNCHANGED hand /\ V.op = "connect"
        /\ journal' = journal \o <<Row("edge", V.on, Target)>>
    BY DEF Connect, Next1, Record, V
  <1>2. /\ Consistent(board) /\ Recalled /\ pc = "population" /\ board \in Boards
        /\ V.on \in board.live /\ V.on \in Dprcs
    BY <1>1, HeadLife, PhaseIs
  <1>5. /\ Target \in Objs /\ Consistent(board') /\ Stays(board, board')
        /\ board'.driver = board.driver /\ Taken
    BY ConnectEffect DEF Connect
  <1>6. Recalled'
    <2> DEFINE row == Row("edge", V.on, Target)
    <2>1. row \in Rows /\ row.kind = "edge" /\ journal' = journal \o <<row>>
      BY <1>1, <1>2, <1>5 DEF Row, Rows
    <2> HIDE DEF row
    <2> QED BY <1>1, <1>2, <1>5, <2>1, JournalGrown DEF Advance
  <1>7. ASSUME NEW w \in Verbs, Prepares(V, w) PROVE Prepared(board', hand', w)
    <2>1. w.op # "bind" /\ w.op # "override" BY <1>1, <1>7 DEF Prepares
    <2>2. NeedsHand(w) => NeedsHand(V) BY <1>1, <1>7 DEF Prepares, Mints
    <2>3. NeedsHand(V) => hand # None /\ board.home[hand] # None BY <1>1, HandLife
    <2> QED BY <1>1, <1>5, <2>1, <2>2, <2>3 DEF Prepared, Stays
  <1>8. LInv' BY <1>1, <1>2, <1>5, <1>6, <1>7, MarkLife DEF Stays
  <1> QED BY <1>5, <1>8

LEMMA ShrinkLife ==
  ASSUME IInv, LInv, Reclaim \/ PruneForeign, UNCHANGED given
  PROVE  LInv' /\ Taken
  <1>1. /\ queue # << >> /\ Advance /\ UNCHANGED <<hand, journal>>
        /\ V.op \in {"reclaim", "pruneForeign"} /\ V.on \notin board.locked
        /\ \E o \in Managed(board, V.on) \cup Foreign(board, V.on) : board' = Gone(board, {o})
    BY DEF Reclaim, PruneForeign, Reclaimable, Next1, V
  <1>2. /\ Consistent(board) /\ Recalled /\ pc = "population" /\ board \in Boards
        /\ V.on \in board.live /\ V.on \in Dprcs
    BY <1>1, HeadLife, PhaseIs
  <1>3. PICK o \in Pool : o \in Objs /\ board.home[o] = V.on /\ board' = Gone(board, {o})
    BY <1>1 DEF Managed, Foreign, PoolRows, Residents
  <1>4. V.on # None /\ Shrinks(V) BY <1>1, <1>2, BoardAssumption DEF Shrinks
  <1>5. /\ Consistent(board') /\ board'.live = board.live
        /\ board'.home = [x \in Objs |-> IF x \in {o} THEN None ELSE board.home[x]]
        /\ board'.locked = board.locked /\ board'.plugged = board.plugged \ {o}
        /\ board'.driver = board.driver
    <2>1. {o} \in SUBSET Objs BY <1>3
    <2> QED BY <1>2, <1>3, <2>1, BoardAssumption DEF Gone, Consistent, Boards, Objs
  <1>6. Recalled' BY <1>1, <1>2, <1>5, JournalSame DEF Advance
  <1>7. \A w \in Verbs : Prepares(V, w) => Prepared(board', hand', w) BY <1>1, Unrelied
  <1>8. Spares(board, board', V)
    <2>1. \A d \in Dpnis : board'.home[d] = board.home[d] BY <1>3, <1>5, BoardAssumption DEF Objs
    <2>2. \A k \in Dprcs : k # V.on => Residents(board', k) = Residents(board, k)
      BY <1>3, <1>5, BoardAssumption DEF Residents
    <2> HIDE DEF V
    <2> QED BY <1>4, <1>5, <2>1, <2>2 DEF Spares
  <1>9. LInv' BY <1>1, <1>2, <1>5, <1>6, <1>7, <1>8, VerbLife
  <1>10. Life!LifeNext
    <2>1. board.home[o] # None /\ board.home[o] \notin board.locked BY <1>1, <1>3, <1>4
    <2> QED BY <1>2, <1>3, <1>5, <2>1, LifeWithdraw
  <1>11. Drains BY <1>5 DEF Drains
  <1> QED BY <1>9, <1>10, <1>11 DEF Taken

LEMMA BindLife ==
  ASSUME IInv, LInv, KernelBind \/ Override \/ Bind, UNCHANGED given
  PROVE  LInv' /\ Taken
  <1>1. /\ queue # << >> /\ Advance /\ UNCHANGED hand
        /\ V.op \in {"kernelBind", "override", "bind"}
        /\ journal' = journal \o <<Row("bound", V.on, None)>>
    BY DEF KernelBind, Override, Bind, Record, Next1, V
  <1>2. /\ Consistent(board) /\ Recalled /\ pc = "population" /\ board \in Boards
    BY <1>1, HeadLife, PhaseIs
  <1>3. PICK c \in board.live : c = V.on /\ c \in Dprcs BY <1>1, PhaseIs
  <1>4. /\ Consistent(board') /\ Stays(board, board')
        /\ \/ \A k \in Dprcs : board'.driver[k] = "vfio" <=> board.driver[k] = "vfio"
           \/ /\ board'.driver = [board.driver EXCEPT ![c] = "vfio"]
              /\ board.driver[c] # "vfio" /\ Residents(board, c) # {}
    <2>1. CASE KernelBind
      <3> DEFINE m == Overridden(board, c, "kernel")
      <3>1. /\ m \in Boards /\ Consistent(m) /\ Stays(board, m) /\ m.driver = board.driver
        BY <1>2, <1>3, OverriddenLife, SMTT(30) DEF Drivers
      <3> HIDE DEF m
      <3>2. c \in m.live BY <3>1 DEF Stays
      <3>3. (board' = Bound(m, c, "kernel") /\ board.driver[c] = "none") \/ board' = board
        BY <1>3, <2>1 DEF KernelBind, m
      <3>4. CASE board' = board BY <1>2, <3>4 DEF Stays
      <3>5. CASE board' = Bound(m, c, "kernel") /\ board.driver[c] = "none"
        <4>1. board.driver \in [Dprcs -> Drivers] BY <1>2 DEF Boards
        <4>2. Consistent(board') /\ Stays(m, board') /\ board'.driver = [m.driver EXCEPT ![c] = "kernel"]
          BY <3>1, <3>2, <3>5, BoundLife DEF Drivers
        <4> QED BY <3>1, <3>5, <4>1, <4>2 DEF Stays
      <3> QED BY <3>3, <3>4, <3>5
    <2>2. CASE Override
      <3>1. board' = Overridden(board, c, "vfio") BY <1>3, <2>2 DEF Override
      <3> QED BY <1>2, <1>3, <3>1, BoardAssumption
        DEF Overridden, Consistent, Boards, Stays, Drivers
    <2>3. CASE Bind
      <3>1. /\ board' = Bound(board, c, "vfio")
            /\ board.driver[c] = "none" /\ board.over[c] = "vfio" /\ V.op = "bind"
        BY <1>3, <2>3 DEF Bind, CanBind, Next1, V
      <3>2. Residents(board, c) # {} BY <1>1, <1>3, <3>1, HeadLife DEF Prepared
      <3> QED BY <1>2, <1>3, <3>1, <3>2, BoardAssumption
        DEF Bound, Consistent, Boards, Stays, Drivers
    <2> QED BY <2>1, <2>2, <2>3
  <1>5. Recalled'
    <2> DEFINE row == Row("bound", c, None)
    <2>1. row \in Rows /\ row.kind = "bound" /\ row.on = c /\ journal' = journal \o <<row>>
      BY <1>1, <1>3 DEF Row, Rows
    <2> HIDE DEF row
    <2>2. board.driver \in [Dprcs -> Drivers] BY <1>2 DEF Boards
    <2>3. \A k \in Dprcs : board'.driver[k] = "vfio" => board.driver[k] = "vfio" \/ row.on = k
      BY <1>4, <2>1, <2>2
    <2> QED BY <1>1, <1>2, <2>1, <2>3, JournalGrown DEF Advance
  <1>6. ASSUME NEW w \in Verbs, Prepares(V, w) PROVE Prepared(board', hand', w)
    <2>1. ~NeedsHand(w) /\ w.op # "override" BY <1>1, <1>6 DEF Prepares, NeedsHand, Mints
    <2>2. w.op = "bind" => Residents(board', w.on) # {}
      <3>1. w.op = "bind" => V.op = "override" /\ w.on = V.on BY <1>1, <1>6 DEF Prepares
      <3>2. V.op = "override" => Residents(board, V.on) # {} BY <1>1, HeadLife DEF Prepared
      <3> HIDE DEF V
      <3> QED BY <1>4, <3>1, <3>2 DEF Stays, Residents
    <2> QED BY <2>1, <2>2 DEF Prepared
  <1>7. LInv' /\ Drains BY <1>1, <1>2, <1>4, <1>5, <1>6, MarkLife DEF Stays
  <1>8. [Life!LifeNext]_(Life!lifeVars)
    <2>1. CASE \A k \in Dprcs : board'.driver[k] = "vfio" <=> board.driver[k] = "vfio"
      BY <1>4, <2>1, LifeStays DEF Stays
    <2>2. CASE /\ board'.driver = [board.driver EXCEPT ![c] = "vfio"]
               /\ board.driver[c] # "vfio" /\ Residents(board, c) # {}
      BY <1>2, <1>4, <2>2, LifeBind DEF Stays
    <2> QED BY <1>4, <2>1, <2>2
  <1> QED BY <1>7, <1>8 DEF Taken

\* A verb of the prune, after which nothing is bound or wired that was not.
LEMMA PruneLife ==
  ASSUME IInv, LInv, queue # << >>, Advance, UNCHANGED given, UNCHANGED <<hand, journal>>,
         V.op \in {"release", "sever", "unplug", "destroy"},
         Consistent(board'), Eases(board, board', V),
         \A c \in Dprcs : board'.driver[c] = "vfio" => board.driver[c] = "vfio"
  PROVE  LInv'
  <1>1. Recalled /\ pc = "prune" BY HeadLife, PhaseIs
  <1>2. Recalled' BY <1>1, JournalSame DEF Advance
  <1>3. \A w \in Verbs : Prepares(V, w) => Prepared(board', hand', w) BY Unrelied
  <1> QED BY <1>1, <1>2, <1>3, VerbLife

\* The consumer of a container is unbound.
LEMMA UnboundTaken ==
  ASSUME board \in Boards, Consistent(board), NEW c \in Dprcs, Stays(board, board'),
         board'.driver = [board.driver EXCEPT ![c] = "none"]
  PROVE  [Life!LifeNext]_(Life!lifeVars) /\ Drains
  <1>1. board.driver \in [Dprcs -> Drivers] BY DEF Boards
  <1>2. CASE board.driver[c] = "vfio"
    <2>1. c \in board.live BY <1>2 DEF Consistent
    <2> QED BY <1>2, <2>1, LifeUnbind DEF Stays, Drains
  <1>3. CASE board.driver[c] # "vfio" BY <1>1, <1>3, LifeStays DEF Stays, Drains
  <1> QED BY <1>2, <1>3

LEMMA LetGoLife ==
  ASSUME IInv, LInv, Unbind \/ Release, UNCHANGED given
  PROVE  LInv' /\ Taken
  <1>1. /\ queue # << >> /\ Advance /\ UNCHANGED <<hand, journal>> /\ V.op \in {"unbind", "release"}
    BY DEF Unbind, Release, Next1, V
  <1>2. /\ Consistent(board) /\ Recalled /\ board \in Boards
        /\ V.op = "unbind" => pc = "population"
    BY <1>1, HeadLife, PhaseIs
  <1>3. PICK c \in Dprcs : c = V.on BY <1>1, HeadSound
  <1>4. board.driver \in [Dprcs -> Drivers] BY <1>2 DEF Boards
  <1>6. CASE Unbind
    <2>2. board' = VfioUnbound(board, c) /\ V.op = "unbind" BY <1>3, <1>6 DEF Unbind, Next1, V
    <2>3. /\ Consistent(board') /\ Stays(board, board') /\ board'.over[c] = "none"
          /\ board'.driver = [board.driver EXCEPT ![c] = "none"]
      BY <1>2, <2>2, VfioUnboundLife
    <2>4. Recalled'
      <3>1. \A k \in Dprcs : board'.driver[k] = "vfio" => board.driver[k] = "vfio" BY <1>4, <2>3
      <3> QED BY <1>1, <1>2, <2>2, <3>1, JournalSame DEF Advance
    <2>5. ASSUME NEW w \in Verbs, Prepares(V, w) PROVE Prepared(board', hand', w)
      <3>1. ~NeedsHand(w) /\ w.op # "override" /\ (w.op = "bind" => w.on = c)
        BY <1>3, <2>2, <2>5 DEF Prepares, NeedsHand, Mints
      <3> QED BY <2>3, <3>1 DEF Prepared
    <2>6. LInv' BY <1>1, <1>2, <2>2, <2>3, <2>4, <2>5, MarkLife DEF Stays
    <2> QED BY <1>2, <2>3, <2>6, UnboundTaken DEF Taken
  <1>7. CASE Release
    <2>1. /\ V.op = "release"
          /\ board' = Unbound(board, c) \/ (board' = board /\ board.driver[c] = "none")
      BY <1>3, <1>7 DEF Release, Next1, V
    <2>2. /\ Consistent(board') /\ Stays(board, board') /\ board'.edge = board.edge
          /\ board'.driver = [board.driver EXCEPT ![c] = "none"]
      <3>1. CASE board' = Unbound(board, c) BY <1>2, <3>1, UnboundLife
      <3>2. CASE board' = board /\ board.driver[c] = "none" BY <1>2, <1>4, <3>2 DEF Stays
      <3> QED BY <2>1, <3>1, <3>2
    <2>3. Eases(board, board', V) BY <1>3, <1>4, <2>1, <2>2 DEF Eases, Stays
    <2>4. \A k \in Dprcs : board'.driver[k] = "vfio" => board.driver[k] = "vfio" BY <1>4, <2>2
    <2>5. LInv' BY <1>1, <2>1, <2>2, <2>3, <2>4, PruneLife
    <2> QED BY <1>2, <2>2, <2>5, UnboundTaken DEF Taken
  <1> QED BY <1>6, <1>7

LEMMA DrainLife ==
  ASSUME IInv, LInv, Sever \/ UnplugResident, UNCHANGED given
  PROVE  LInv' /\ Taken
  <1>1. /\ queue # << >> /\ Advance /\ UNCHANGED <<hand, journal>> /\ V.op \in {"sever", "unplug"}
    BY DEF Sever, UnplugResident, Next1, V
  <1>2. Consistent(board) /\ board \in Boards BY <1>1, HeadLife, PhaseIs
  <1>3. PICK o \in Objs : o = V.obj
    <2>1. V \in Sound BY <1>1, HeadSound
    <2>2. V.obj # None BY <1>1, <2>1 DEF Sound, SoundFor
    <2> QED BY <1>1, <2>2, HeadSound
  <1>4. CASE Sever
    <2>1. board' = Severed(board, o) /\ V.op = "sever" BY <1>3, <1>4 DEF Sever, Next1, V
    <2>2. /\ Consistent(board') /\ Stays(board, board') /\ board'.driver = board.driver
          /\ board'.edge = [board.edge EXCEPT ![o] = None]
      BY <1>2, <2>1, SeveredLife
    <2>3. board.edge \in [Dpnis -> Peers \cup {None}] BY <1>2 DEF Boards
    <2>4. Eases(board, board', V) BY <1>3, <2>1, <2>2, <2>3 DEF Eases, Stays
    <2>5. LInv' BY <1>1, <2>1, <2>2, <2>4, PruneLife
    <2>6. UNCHANGED Life!lifeVars BY <2>2, LifeStays DEF Stays
    <2>7. Drains BY <2>2 DEF Drains, Stays
    <2> QED BY <2>5, <2>6, <2>7 DEF Taken
  <1>5. CASE UnplugResident
    <2>1. board' = Unplugged(board, o) /\ V.op = "unplug" /\ board.home[o] \notin board.locked
      BY <1>3, <1>5 DEF UnplugResident, Next1, V, CanUnplug
    <2>2. /\ Consistent(board') /\ board'.live = board.live /\ board'.home = board.home
          /\ board'.edge = board.edge /\ board'.locked = board.locked
          /\ board'.plugged = board.plugged \ {o} /\ board'.driver = board.driver
      BY <1>2, <2>1, UnpluggedLife
    <2>3. Eases(board, board', V) BY <2>1, <2>2 DEF Eases
    <2>4. LInv' BY <1>1, <2>1, <2>2, <2>3, PruneLife
    <2>5. [Life!LifeNext]_(Life!lifeVars)
      <3>1. CASE board.home[o] = None
        <4>1. board'.plugged = board.plugged BY <1>2, <2>1, <2>2, <3>1 DEF Consistent
        <4> QED BY <2>1, <2>2, <4>1, LifeStays
      <3>2. CASE board.home[o] # None BY <1>2, <2>1, <2>2, <3>2, LifePlug
      <3> QED BY <3>1, <3>2
    <2>6. Drains BY <2>1, <2>2 DEF Drains
    <2> QED BY <2>4, <2>5, <2>6 DEF Taken
  <1> QED BY <1>4, <1>5

\* What is left of a container once it is removed, whether it stood or not.
LEMMA RemovedTaken ==
  ASSUME board \in Boards, Consistent(board), NEW c \in Dprcs, board' = Removed(board, c),
         board.driver[c] # "vfio", CanDestroy(board, c)
  PROVE  [Life!LifeNext]_(Life!lifeVars)
  <1> DEFINE S == Residents(board, c)
  <1>1. /\ board'.live = board.live \ {c}
        /\ board'.home = [o \in Objs |-> IF o \in S THEN None ELSE board.home[o]]
        /\ board'.locked = board.locked \ {c} /\ board'.plugged = board.plugged \ S
        /\ board'.driver = [board.driver EXCEPT ![c] = "none"]
    BY BoardAssumption, SMTT(60) DEF Removed, Gone, Residents, Consistent, Boards, Objs
  <1>2. c \notin board.locked /\ S \cap board.plugged = {} BY DEF CanDestroy
  <1>3. CASE c \in board.live BY <1>1, <1>2, <1>3, LifeDestroy
  <1>4. CASE c \notin board.live
    <2>1. S = {} /\ board.driver[c] = "none" BY <1>4, NoneIn DEF Consistent
    <2>2. board.home \in [Objs -> Dprcs \cup {None}] /\ board.driver \in [Dprcs -> Drivers]
      BY DEF Boards
    <2> HIDE DEF S
    <2>3. board'.home = board.home BY <1>1, <1>2, <2>1, <2>2
    <2>4. board'.live = board.live /\ board'.locked = board.locked /\ board'.plugged = board.plugged
      <3>1. board.live \ {c} = board.live /\ board.locked \ {c} = board.locked BY <1>2, <1>4
      <3>2. board.plugged \ S = board.plugged BY <2>1
      <3> QED BY <1>1, <1>2, <3>1, <3>2
    <2>5. board'.driver = board.driver BY <1>1, <1>2, <2>1, <2>2
    <2> QED BY <2>3, <2>4, <2>5, LifeStays
  <1> QED BY <1>3, <1>4

LEMMA DestroyLife ==
  ASSUME IInv, LInv, Destroy, UNCHANGED given
  PROVE  LInv' /\ Taken
  <1>1. /\ queue # << >> /\ Advance /\ UNCHANGED <<hand, journal>> /\ V.op = "destroy"
        /\ CanDestroy(board, V.on) /\ board' = Removed(board, V.on)
    BY DEF Destroy, Next1, V
  <1>2. /\ Consistent(board) /\ board \in Boards
        /\ board.driver[V.on] = "none"
        /\ \A d \in DpniRows(board, V.on) : board.edge[d] = None
    BY <1>1, HeadLife, PhaseIs
  <1>3. PICK c \in Dprcs : c = V.on BY <1>1, HeadSound
  <1> DEFINE S == Residents(board, c)
  <1>4. /\ Consistent(board') /\ board'.live = board.live \ {c}
        /\ board'.home = [o \in Objs |-> IF o \in S THEN None ELSE board.home[o]]
        /\ board'.edge = [d \in Dpnis |-> IF d \in S THEN None ELSE board.edge[d]]
        /\ board'.locked = board.locked \ {c} /\ board'.plugged = board.plugged \ S
        /\ board'.driver = [board.driver EXCEPT ![c] = "none"]
    BY <1>1, <1>2, <1>3, BoardAssumption, SMTT(60) DEF Removed, Gone, Residents, Consistent, Boards, Objs
  <1> HIDE DEF S
  <1>6. board.driver \in [Dprcs -> Drivers] BY <1>2 DEF Boards
  <1>7. Eases(board, board', V) BY <1>1, <1>4, <1>6 DEF Eases
  <1>8. LInv' BY <1>1, <1>4, <1>6, <1>7, PruneLife
  <1>9. [Life!LifeNext]_(Life!lifeVars) BY <1>1, <1>2, <1>3, RemovedTaken
  <1>10. Drains
    <2>1. \A k \in board.live \ board'.live : k = c BY <1>4
    <2> QED BY <1>2, <1>3, <2>1 DEF Drains
  <1> QED BY <1>8, <1>9, <1>10 DEF Taken

(* A phase takes up a queue. *)

\* A verb that relies on none before it.
Plain(v) == ~NeedsHand(v) /\ v.op \notin {"bind", "override"}

LEMMA PlainQueue ==
  ASSUME NEW b, NEW hd, NEW q, \A i \in 1..Len(q) : Plain(q[i])
  PROVE  Ordered(b, hd, q)
  <1>1. \A u, v : Plain(v) => Prepares(u, v) /\ Prepared(b, hd, v) BY DEF Plain, Prepares, Prepared
  <1> QED BY <1>1 DEF Ordered

LEMMA Undrained ==
  ASSUME NEW b, NEW q, \A i \in 1..Len(q) : q[i].op # "destroy"
  PROVE  Drained(b, q)
  BY DEF Drained

LEMMA StillTaken ==
  ASSUME board' = board
  PROVE  Taken
  <1>1. UNCHANGED Life!lifeVars BY LifeStays
  <1> QED BY <1>1 DEF Taken, Drains

\* The run goes on with another queue, or in another phase.
LEMMA Replanned ==
  ASSUME IInv, LInv, pc # "idle", UNCHANGED <<board, journal, unreversed>>,
         pc' = pc \/ pc' # "containers", Queued'
  PROVE  LInv' /\ Taken
  <1>1. Consistent(board) /\ MadeFirst /\ HeldRecorded BY DEF LInv, Recalled
  <1>2. MadeFirst' /\ HeldRecorded' BY <1>1 DEF MadeFirst, HeldRecorded, OnRecord
  <1>3. LInv' BY <1>1, <1>2 DEF LInv, Recalled
  <1> QED BY <1>3, StillTaken

LEMMA EmptyQueue ==
  ASSUME queue' = << >>
  PROVE  Queued'
  <1>1. Len(queue') = 0 /\ 1..0 = {} OBVIOUS
  <1> QED BY <1>1 DEF Queued, Ordered, Drained

\* The run ends.
LEMMA EndLife ==
  ASSUME LInv, pc' = "idle", board' = board
  PROVE  LInv' /\ Taken
  BY StillTaken DEF LInv

LEMMA ContainersLife ==
  ASSUME IInv, pc = "containers"
  PROVE  ContainerVerbs(board) \in Seq({v \in Verbs : v.op \in PhaseOps("containers")})
  <1> DEFINE W == {v \in Verbs : v.op \in PhaseOps("containers")}
             missing == MissingTenants(board)
             K == {t \in Tenants : Handle(board, t) = None}
  <1>1. missing \in Seq(Names)
    <2>1. roll \in Seq(Names) BY PlanAssumption DEF IInv, Shape
    <2>2. Only(roll, K) \in Seq(Names)
      <3> HIDE DEF K
      <3>1. Only(roll, K) \in Seq(Names \cap K) BY <2>1, OnlyAfter
      <3> QED BY <3>1
    <2> QED BY <2>2 DEF MissingTenants
  <1> HIDE DEF missing, K
  <1> DEFINE n == Len(missing)
             Each(op) == [i \in 1..n |-> Verb(op, None, missing[i], None)]
  <1>2. ASSUME NEW op \in {"spawn", "verdict"} PROVE Each(op) \in Seq(W)
    <2>1. \A i \in 1..n : Verb(op, None, missing[i], None) \in W
      BY <1>1 DEF Verb, Verbs, Ops, PhaseOps
    <2>2. n \in Nat BY <1>1
    <2> HIDE DEF W, n
    <2> QED BY <2>1, <2>2
  <1>3. Done \in Seq(W)
    <2>1. Verb("done", None, None, None) \in W BY DEF Verb, Verbs, Ops, PhaseOps
    <2> HIDE DEF W
    <2> QED BY <2>1 DEF Done
  <1>4. Each("spawn") \in Seq(W) /\ Each("verdict") \in Seq(W) BY <1>2
  <1>5. ContainerVerbs(board) = Each("spawn") \o Each("verdict") \o Done
    BY DEF ContainerVerbs, missing
  <1> HIDE DEF Each, W
  <1>6. ContainerVerbs(board) \in Seq(W) BY <1>3, <1>4, <1>5
  <1> QED BY <1>6 DEF W

(* The plan of a population: what each verb relies on comes right before it, *)
(* or stands and is not taken away by the plan.                              *)

Calm(b, c) == PlanConverged(b, b.name[c], c)
Sensible(b) == {v \in Verbs : Fits(b, "population", v) /\ (Shrinks(v) => ~Calm(b, v.on))}
Ready(b, v) ==
  Plain(v) \/ (v.op = "override" /\ Residents(b, v.on) # {} /\ Calm(b, v.on))
Backed(b, q) == \A i \in 1..Len(q) : Ready(b, q[i]) \/ (i > 1 /\ Prepares(q[i-1], q[i]))
Sequels(b) == {q \in Seq(Sensible(b)) : Backed(b, q)}

LEMMA SequelsJoin ==
  ASSUME NEW b
  PROVE  /\ << >> \in Sequels(b)
         /\ \A s, t \in Sequels(b) : s \o t \in Sequels(b)
  <1>1. << >> \in Sequels(b) BY DEF Sequels, Backed
  <1>2. ASSUME NEW s \in Sequels(b), NEW t \in Sequels(b) PROVE s \o t \in Sequels(b)
    <2> DEFINE u == s \o t
    <2>1. s \in Seq(Sensible(b)) /\ t \in Seq(Sensible(b)) /\ Backed(b, s) /\ Backed(b, t)
      BY DEF Sequels
    <2> HIDE DEF u
    <2>2. u \in Seq(Sensible(b)) /\ \A i \in 1..Len(u) : InFirst(s, u, i) \/ InSecond(s, t, u, i)
      BY <2>1, Splits DEF u
    <2>3. ASSUME NEW i \in 1..Len(u) PROVE Ready(b, u[i]) \/ (i > 1 /\ Prepares(u[i-1], u[i]))
      <3>1. CASE InFirst(s, u, i)
        <4>1. i \in 1..Len(s) /\ u[i] = s[i] /\ (i > 1 => u[i-1] = s[i-1]) BY <3>1 DEF InFirst
        <4> QED BY <2>1, <4>1 DEF Backed
      <3>2. CASE InSecond(s, t, u, i)
        <4>1. PICK k \in 1..Len(t) : u[i] = t[k] /\ (k > 1 => i > 1 /\ u[i-1] = t[k-1])
          BY <3>2 DEF InSecond
        <4> QED BY <2>1, <4>1 DEF Backed
      <3> QED BY <2>2, <3>1, <3>2
    <2>4. Backed(b, u) BY <2>3 DEF Backed
    <2> QED BY <2>2, <2>4 DEF Sequels, u
  <1> QED BY <1>1, <1>2

\* Verbs in a row, the first of which is ready.
LEMMA Linked ==
  ASSUME NEW b, NEW q \in Seq(Sensible(b)), q # << >>, Ready(b, q[1]),
         \A i \in 2..Len(q) : Prepares(q[i-1], q[i])
  PROVE  q \in Sequels(b)
  <1>1. \A i \in 1..Len(q) : i = 1 \/ (i \in 2..Len(q) /\ i > 1) OBVIOUS
  <1> QED BY <1>1 DEF Sequels, Backed

LEMMA Lone ==
  ASSUME NEW b, NEW v \in Sensible(b), Ready(b, v)
  PROVE  <<v>> \in Sequels(b)
  <1>1. /\ <<v>> \in Seq(Sensible(b)) /\ <<v>> # << >> /\ <<v>>[1] = v
        /\ \A i \in 2..Len(<<v>>) : Prepares(<<v>>[i-1], <<v>>[i])
    OBVIOUS
  <1> QED BY <1>1, Linked

LEMMA RepeatedSequel ==
  ASSUME NEW b, NEW n \in Nat, NEW verbs, n # 0 => verbs \in Sequels(b)
  PROVE  Times(n, verbs) \in Sequels(b)
  <1> DEFINE parts == [i \in 1..n |-> verbs]
  <1>1. parts \in [1..n -> Sequels(b)] OBVIOUS
  <1> HIDE DEF parts
  <1>2. FlattenSeq(parts) \in Sequels(b) BY <1>1, FlattenIn, SequelsJoin
  <1> QED BY <1>2 DEF Times, parts

LEMMA SequelOrdered ==
  ASSUME NEW b, NEW q \in Sequels(b)
  PROVE  /\ \A i \in 1..Len(q) : Fits(b, "population", q[i])
         /\ Ordered(b, None, q) /\ Drained(b, q)
  <1>1. q \in Seq(Sensible(b)) /\ Backed(b, q) /\ Len(q) \in Nat BY DEF Sequels
  <1>2. \A i \in 1..Len(q) : q[i] \in Sensible(b) BY <1>1
  <1>3. \A i \in 1..Len(q) : Fits(b, "population", q[i]) /\ (Shrinks(q[i]) => ~Calm(b, q[i].on))
    BY <1>2 DEF Sensible
  <1>4. Ordered(b, None, q)
    <2> SUFFICES ASSUME NEW i \in 1..Len(q), ~(i > 1 /\ Prepares(q[i-1], q[i]))
                 PROVE  /\ Prepared(b, None, q[i])
                        /\ \/ i = 1
                           \/ /\ q[i].op = "override"
                              /\ \A j \in 1..(i-1) : Shrinks(q[j]) => q[j].on # q[i].on
      BY DEF Ordered
    <2>1. Ready(b, q[i]) BY <1>1 DEF Backed
    <2>2. CASE Plain(q[i])
      <3>1. \A u : Prepares(u, q[i]) BY <2>2 DEF Plain, Prepares
      <3>2. Prepared(b, None, q[i]) BY <2>2 DEF Plain, Prepared
      <3> QED BY <1>1, <3>1, <3>2
    <2>3. CASE q[i].op = "override" /\ Residents(b, q[i].on) # {} /\ Calm(b, q[i].on)
      <3>1. Prepared(b, None, q[i]) BY <2>3 DEF Prepared, NeedsHand
      <3>2. \A j \in 1..(i-1) : j \in 1..Len(q) BY <1>1
      <3> QED BY <1>3, <2>3, <3>1, <3>2
    <2> QED BY <2>1, <2>2, <2>3 DEF Ready
  <1>5. Drained(b, q) BY <1>3, Undrained DEF Fits, PhaseOps
  <1> QED BY <1>3, <1>4, <1>5

LEMMA Paired ==
  ASSUME NEW b, NEW x \in Sensible(b), NEW y \in Sensible(b), Ready(b, x), Prepares(x, y)
  PROVE  <<x, y>> \in Sequels(b)
  <1> DEFINE q == <<x, y>>
  <1>1. q \in Seq(Sensible(b)) /\ Len(q) = 2 /\ q # << >> /\ Ready(b, q[1]) OBVIOUS
  <1>2. \A i \in 2..2 : Prepares(q[i-1], q[i]) OBVIOUS
  <1> HIDE DEF q
  <1>3. q \in Sequels(b) BY <1>1, <1>2, Linked
  <1> QED BY <1>3 DEF q

LEMMA PortSequel ==
  ASSUME IInv, pc # "idle", NEW c \in board.live, NEW p \in Peers
  PROVE  PortVerbs(board, c, p) \in Sequels(board)
  <1>0. p \in Names /\ p # None /\ c # None /\ c \in Dprcs /\ board \in Boards
    BY PlanAssumption, BoardAssumption, Running
  <1>1. CASE PortRow(board, c, p) = None
    <2> DEFINE q == <<Verb("mintDpni", c, p, None), Verb("stamp", c, p, None),
                      Verb("plug", c, p, None), Verb("connect", c, p, None)>>
    <2>1. ASSUME NEW op \in {"mintDpni", "stamp", "plug", "connect"}
          PROVE  Verb(op, c, p, None) \in Sensible(board)
      <3>1. Verb(op, c, p, None) \in Verbs BY <1>0 DEF Verb, Verbs, Ops
      <3> QED BY <1>0, <3>1 DEF Sensible, Fits, PhaseOps, Shrinks, Verb
    <2>2. q \in Seq(Sensible(board)) /\ Len(q) = 4 /\ q # << >> BY <2>1
    <2>3. Ready(board, q[1]) BY DEF Ready, Plain, NeedsHand, Verb
    <2>4. Prepares(q[1], q[2]) /\ Prepares(q[2], q[3]) /\ Prepares(q[3], q[4])
      BY DEF Prepares, NeedsHand, Mints, Verb
    <2>5. PortVerbs(board, c, p) = q BY <1>1 DEF PortVerbs
    <2> HIDE DEF q
    <2>6. \A i \in 2..4 : Prepares(q[i-1], q[i])
      <3>1. \A i \in 2..4 : (i = 2 /\ i - 1 = 1) \/ (i = 3 /\ i - 1 = 2) \/ (i = 4 /\ i - 1 = 3)
        OBVIOUS
      <3> QED BY <2>4, <3>1
    <2> QED BY <2>2, <2>3, <2>5, <2>6, Linked
  <1>2. CASE PortRow(board, c, p) # None /\ NeedsConnect(board, c, p)
    <2>1. PICK d \in Dpnis : d = PortRow(board, c, p) /\ d \in Objs /\ d # None /\ board.home[d] = c
      BY <1>2, PortRowIs
    <2> DEFINE v == Verb("connect", c, p, d)
    <2>2. v \in Verbs BY <1>0, <2>1 DEF Verb, Verbs, Ops
    <2>3. v \in Sensible(board) /\ Ready(board, v)
      BY <1>0, <2>1, <2>2 DEF Sensible, Fits, PhaseOps, Shrinks, Verb, Ready, Plain, NeedsHand
    <2>4. PortVerbs(board, c, p) = <<v>> BY <1>2, <2>1 DEF PortVerbs
    <2> HIDE DEF v
    <2> QED BY <2>3, <2>4, Lone
  <1>3. CASE PortRow(board, c, p) # None /\ ~NeedsConnect(board, c, p)
    BY <1>3, SequelsJoin DEF PortVerbs
  <1> QED BY <1>1, <1>2, <1>3

LEMMA PoolSequel ==
  ASSUME IInv, pc # "idle", NEW c \in board.live, NEW t \in Tenants, board.name[c] = t
  PROVE  PoolVerbs(board, t, c) \in Sequels(board)
  <1>0. /\ t \in Names /\ t # None /\ Need[t] \in Nat /\ c # None /\ c \in Dprcs
        /\ board \in Boards
    BY TenantIs, BoardAssumption, Running
  <1>1. /\ Cardinality(Managed(board, c)) \in Nat /\ Cardinality(Foreign(board, c)) \in Nat
        /\ IsFiniteSet(Foreign(board, c))
    <2>1. IsFiniteSet(Managed(board, c)) /\ IsFiniteSet(Foreign(board, c))
      <3>1. Managed(board, c) \subseteq Pool /\ Foreign(board, c) \subseteq Pool
        BY DEF Managed, Foreign, PoolRows
      <3> QED BY <3>1, BoardAssumption, FS_Subset
    <2> QED BY <2>1, FS_CardinalityType
  <1>2. /\ Deficit(board, t, c) \in Nat /\ Surplus(board, t, c) \in Nat
        /\ Surplus(board, t, c) # 0 => ~Calm(board, c)
        /\ Cardinality(Foreign(board, c)) # 0 => ~Calm(board, c)
    BY <1>0, <1>1, FS_EmptySet DEF Deficit, Surplus, Calm, PlanConverged, CensusConverged
  <1>3. ASSUME NEW op \in {"mintPool", "plug", "stamp", "reclaim", "pruneForeign"},
               op \in {"reclaim", "pruneForeign"} => ~Calm(board, c)
        PROVE  Verb(op, c, t, None) \in Sensible(board)
    <2>1. Verb(op, c, t, None) \in Verbs BY <1>0 DEF Verb, Verbs, Ops
    <2> QED BY <1>3, <2>1 DEF Sensible, Fits, PhaseOps, Shrinks, Verb
  <1> DEFINE grow == <<Verb("mintPool", c, t, None), Verb("plug", c, t, None), Verb("stamp", c, t, None)>>
             shrink == <<Verb("reclaim", c, t, None)>>
             foreign == <<Verb("pruneForeign", c, t, None)>>
  <1>4. grow \in Sequels(board)
    <2>1. grow \in Seq(Sensible(board)) /\ Len(grow) = 3 /\ grow # << >> BY <1>3
    <2>2. Ready(board, grow[1]) BY DEF Ready, Plain, NeedsHand, Verb
    <2>3. Prepares(grow[1], grow[2]) /\ Prepares(grow[2], grow[3])
      BY DEF Prepares, NeedsHand, Mints, Verb
    <2> HIDE DEF grow
    <2>4. \A i \in 2..3 : Prepares(grow[i-1], grow[i])
      <3>1. \A i \in 2..3 : (i = 2 /\ i - 1 = 1) \/ (i = 3 /\ i - 1 = 2) OBVIOUS
      <3> QED BY <2>3, <3>1
    <2> QED BY <2>1, <2>2, <2>4, Linked
  <1>5. ASSUME NEW op \in {"reclaim", "pruneForeign"}, ~Calm(board, c)
        PROVE  <<Verb(op, c, t, None)>> \in Sequels(board)
    <2> DEFINE v == Verb(op, c, t, None)
    <2>1. v \in Sensible(board) /\ Ready(board, v) BY <1>3, <1>5 DEF Ready, Plain, NeedsHand, Verb
    <2> HIDE DEF v
    <2>2. <<v>> \in Sequels(board) BY <2>1, Lone
    <2> QED BY <2>2 DEF v
  <1>6. (~Calm(board, c) => shrink \in Sequels(board)) /\ (~Calm(board, c) => foreign \in Sequels(board))
    BY <1>5
  <1> HIDE DEF grow, shrink, foreign
  <1>7. Times(Deficit(board, t, c), grow) \in Sequels(board) BY <1>2, <1>4, RepeatedSequel
  <1>8. Times(Surplus(board, t, c), shrink) \in Sequels(board) BY <1>2, <1>6, RepeatedSequel
  <1>9. Times(Cardinality(Foreign(board, c)), foreign) \in Sequels(board)
    BY <1>1, <1>2, <1>6, RepeatedSequel
  <1>10. PoolVerbs(board, t, c) =
           Times(Deficit(board, t, c), grow) \o Times(Surplus(board, t, c), shrink)
             \o Times(Cardinality(Foreign(board, c)), foreign)
    BY DEF PoolVerbs, grow, shrink, foreign
  <1> QED BY <1>7, <1>8, <1>9, <1>10, SequelsJoin

\* The end of a child's plan: the read-back, then what hands it over.
LEMMA HandSequel ==
  ASSUME IInv, pc # "idle", NEW c \in board.live, NEW t \in Tenants, board.name[c] = t
  PROVE  IF PlanConverged(board, t, c) THEN BindVerbs(board, t, c) \in Sequels(board)
         ELSE /\ Judge(board, t, c) \o BindVerbs(board, t, c) \in Sequels(board)
              /\ Judge(board, t, c) \in Seq(Verbs) /\ BindVerbs(board, t, c) \in Seq(Verbs)
  <1>0. /\ t \in Names /\ t # None /\ c # None /\ Regime[t] \in {"vfio", "kernel"}
        /\ Need[t] \in Nat /\ (Regime[t] = "vfio" => Need[t] > 0)
        /\ c \in Dprcs /\ board \in Boards
    <2>1. Regime[t] = "vfio" => Need[t] > 0
      <3>1. roll \in Rolls BY Running
      <3> QED BY <3>1, PlanAssumption DEF Tenants, ToSet
    <2> QED BY <2>1, TenantIs, BoardAssumption, Running
  <1>1. ASSUME NEW op \in {"judge", "kernelBind", "override", "bind", "unbind"}, NEW a \in {t, "vfio"}
        PROVE  Verb(op, c, a, None) \in Sensible(board) /\ Verb(op, c, a, None) \in Verbs
    <2>1. Verb(op, c, a, None) \in Verbs BY <1>0 DEF Verb, Verbs, Ops
    <2> QED BY <2>1 DEF Sensible, Fits, PhaseOps, Shrinks, Verb
  <1> DEFINE judge == Verb("judge", c, t, None)
             kernel == Verb("kernelBind", c, t, None)
             over == Verb("override", c, "vfio", None)
             bind == Verb("bind", c, "vfio", None)
             unbind == Verb("unbind", c, t, None)
             converged == PlanConverged(board, t, c)
  <1>2. /\ judge \in Sensible(board) /\ kernel \in Sensible(board) /\ over \in Sensible(board)
        /\ bind \in Sensible(board) /\ unbind \in Sensible(board)
        /\ judge \in Verbs /\ kernel \in Verbs /\ over \in Verbs /\ bind \in Verbs /\ unbind \in Verbs
    BY <1>1
  <1>3. Ready(board, judge) /\ Ready(board, kernel) /\ Ready(board, unbind)
    BY DEF Ready, Plain, NeedsHand, Verb
  <1>4. converged /\ Regime[t] = "vfio" => Ready(board, over)
    <2>1. converged /\ Regime[t] = "vfio" => Residents(board, c) # {}
      <3>1. converged => Cardinality(Managed(board, c)) = Need[t]
        BY DEF PlanConverged, CensusConverged
      <3>2. converged /\ Regime[t] = "vfio" => Managed(board, c) # {} BY <1>0, <3>1, FS_EmptySet
      <3> QED BY <3>2 DEF Managed, PoolRows
    <2>2. over.op = "override" /\ over.on = c /\ (converged => Calm(board, c)) BY DEF Verb, Calm
    <2> HIDE DEF over, converged
    <2> QED BY <2>1, <2>2 DEF Ready
  <1>5. /\ Prepares(over, bind) /\ Prepares(unbind, bind)
        /\ Regime[t] = "vfio" => Prepares(judge, over)
    BY <1>0 DEF Prepares, NeedsHand, Mints, Verb
  <1>6. /\ Judge(board, t, c) =
             IF Regime[t] = "kernel" \/ board.driver[c] # "vfio" THEN <<judge>> ELSE << >>
        /\ Regime[t] = "kernel" =>
             BindVerbs(board, t, c) = IF board.driver[c] = "kernel" THEN << >> ELSE <<kernel>>
        /\ Regime[t] = "vfio" /\ board.driver[c] = "vfio" =>
             BindVerbs(board, t, c) = IF converged THEN << >> ELSE <<unbind, bind>>
        /\ Regime[t] = "vfio" /\ board.driver[c] # "vfio" =>
             BindVerbs(board, t, c) = <<over, bind>>
    BY DEF Judge, BindVerbs, HandoffNow, Rebind
  <1> HIDE DEF judge, kernel, over, bind, unbind, converged
  <1>7. /\ <<judge>> \in Sequels(board) /\ <<kernel>> \in Sequels(board)
        /\ << >> \in Sequels(board)
    BY <1>2, <1>3, Lone, SequelsJoin
  <1>8. <<unbind, bind>> \in Sequels(board) BY <1>2, <1>3, <1>5, Paired
  <1>9. converged /\ Regime[t] = "vfio" => <<over, bind>> \in Sequels(board)
    BY <1>2, <1>4, <1>5, Paired
  <1>10. Regime[t] = "vfio" => <<judge>> \o <<over, bind>> \in Sequels(board)
    <2> DEFINE q == <<judge>> \o <<over, bind>>
    <2>1. /\ q \in Seq(Sensible(board)) /\ Len(q) = 3 /\ q # << >>
          /\ q[1] = judge /\ q[2] = over /\ q[3] = bind
      BY <1>2, ThreeLong
    <2> HIDE DEF q
    <2>2. Regime[t] = "vfio" => \A i \in 2..3 : Prepares(q[i-1], q[i])
      <3>1. \A i \in 2..3 : (i = 2 /\ i - 1 = 1) \/ (i = 3 /\ i - 1 = 2) OBVIOUS
      <3> QED BY <1>5, <2>1, <3>1
    <2>3. Regime[t] = "vfio" => q \in Sequels(board) BY <1>3, <2>1, <2>2, Linked
    <2> QED BY <2>3 DEF q
  <1>11. /\ << >> \in Seq(Verbs) /\ <<judge>> \in Seq(Verbs) /\ <<kernel>> \in Seq(Verbs)
         /\ <<unbind, bind>> \in Seq(Verbs) /\ <<over, bind>> \in Seq(Verbs)
    BY <1>2
  <1>12. CASE Regime[t] = "kernel"
    <2>1. Judge(board, t, c) = <<judge>>
          /\ BindVerbs(board, t, c) \in {<< >>, <<kernel>>}
      BY <1>6, <1>12
    <2>2. BindVerbs(board, t, c) \in Sequels(board) /\ Judge(board, t, c) \in Sequels(board)
      BY <1>7, <2>1
    <2>3. Judge(board, t, c) \in Seq(Verbs) /\ BindVerbs(board, t, c) \in Seq(Verbs) BY <1>11, <2>1
    <2> QED BY <2>2, <2>3, SequelsJoin
  <1>13. CASE Regime[t] = "vfio" /\ board.driver[c] = "vfio"
    <2>1. /\ Judge(board, t, c) = << >>
          /\ BindVerbs(board, t, c) \in {<< >>, <<unbind, bind>>}
      BY <1>0, <1>6, <1>13
    <2>2. BindVerbs(board, t, c) \in Sequels(board) /\ Judge(board, t, c) \in Sequels(board)
      BY <1>7, <1>8, <2>1
    <2>3. Judge(board, t, c) \in Seq(Verbs) /\ BindVerbs(board, t, c) \in Seq(Verbs) BY <1>11, <2>1
    <2> QED BY <2>2, <2>3, SequelsJoin
  <1>14. CASE Regime[t] = "vfio" /\ board.driver[c] # "vfio"
    <2>1. Judge(board, t, c) = <<judge>> /\ BindVerbs(board, t, c) = <<over, bind>> BY <1>6, <1>14
    <2>2. Judge(board, t, c) \in Seq(Verbs) /\ BindVerbs(board, t, c) \in Seq(Verbs) BY <1>11, <2>1
    <2> QED BY <1>9, <1>10, <1>14, <2>1, <2>2 DEF converged
  <1> QED BY <1>0, <1>12, <1>13, <1>14

LEMMA ChildSequel ==
  ASSUME IInv, pc # "idle", NEW t \in Tenants, Handle(board, t) # None
  PROVE  ChildVerbs(board, t, Handle(board, t)) \in Sequels(board)
  <1>1. PICK c \in board.live : c = Handle(board, t) /\ board.name[c] = t
    <2>1. t \in Names /\ board \in Boards BY TenantIs, Running
    <2> QED BY <2>1, HandleIs
  <1> DEFINE n == Len(Ports[t])
             parts == [i \in 1..n |-> PortVerbs(board, c, Ports[t][i])]
             ports == FlattenSeq(parts)
             pool == PoolVerbs(board, t, c)
             judge == Judge(board, t, c)
             handed == BindVerbs(board, t, c)
  <1>2. ports \in Sequels(board)
    <2>1. Ports[t] \in Seq(Peers) /\ n \in Nat BY TenantIs
    <2>2. ASSUME NEW i \in 1..n PROVE PortVerbs(board, c, Ports[t][i]) \in Sequels(board)
      <3>1. PICK p \in Peers : p = Ports[t][i] BY <2>1
      <3>2. PortVerbs(board, c, p) \in Sequels(board) BY PortSequel
      <3> QED BY <3>1, <3>2
    <2>3. parts \in [1..n -> Sequels(board)] BY <2>2
    <2> HIDE DEF parts, n
    <2> QED BY <2>1, <2>3, FlattenIn, SequelsJoin
  <1>3. pool \in Sequels(board) BY <1>1, PoolSequel
  <1>4. IF PlanConverged(board, t, c) THEN handed \in Sequels(board)
        ELSE judge \o handed \in Sequels(board) /\ judge \in Seq(Verbs) /\ handed \in Seq(Verbs)
    BY <1>1, HandSequel
  <1>5. ChildVerbs(board, t, c) =
          (IF PlanConverged(board, t, c) THEN << >> ELSE ports \o pool \o judge) \o handed
    BY DEF ChildVerbs
  <1> HIDE DEF ports, pool, judge, handed
  <1>6. CASE PlanConverged(board, t, c) BY <1>1, <1>4, <1>5, <1>6, SequelsJoin
  <1>7. CASE ~PlanConverged(board, t, c)
    <2>1. ports \o pool \in Sequels(board) BY <1>2, <1>3, SequelsJoin
    <2>2. ports \o pool \in Seq(Verbs)
      <3>1. ports \o pool \in Seq(Sensible(board)) /\ Sensible(board) \subseteq Verbs
        BY <2>1 DEF Sequels, Sensible
      <3> QED BY <3>1
    <2> DEFINE built == ports \o pool
    <2> HIDE DEF built
    <2>3. (built \o judge) \o handed = built \o (judge \o handed)
      BY <1>4, <1>7, <2>2, ConcatAssociative, SMTT(30) DEF built
    <2>4. built \o (judge \o handed) \in Sequels(board) BY <1>4, <1>7, <2>1, SequelsJoin DEF built
    <2>5. ChildVerbs(board, t, c) = (built \o judge) \o handed BY <1>5, <1>7 DEF built
    <2> QED BY <1>1, <2>3, <2>4, <2>5
  <1> QED BY <1>6, <1>7

LEMMA PopulationSequel ==
  ASSUME IInv, pc = "population"
  PROVE  PopulationVerbs(board) \in Sequels(board)
  <1> DEFINE K == {t \in Tenants : Handle(board, t) # None}
             found == Populated(board)
             n == Len(found)
             parts == [i \in 1..n |-> ChildVerbs(board, found[i], Handle(board, found[i]))]
  <1>1. found \in Seq(Names \cap K)
    <2>1. roll \in Seq(Names) BY PlanAssumption DEF IInv, Shape
    <2> HIDE DEF K
    <2>2. Only(roll, K) \in Seq(Names \cap K) BY <2>1, OnlyAfter
    <2> QED BY <2>2 DEF Populated, K
  <1>2. n \in Nat /\ \A i \in 1..n : found[i] \in Tenants /\ Handle(board, found[i]) # None
    <2>1. \A t \in Names \cap K : t \in Tenants /\ Handle(board, t) # None OBVIOUS
    <2> HIDE DEF K, found
    <2> QED BY <1>1, <2>1
  <1> HIDE DEF found
  <1>3. parts \in [1..n -> Sequels(board)]
    <2>1. ASSUME NEW i \in 1..n
          PROVE  ChildVerbs(board, found[i], Handle(board, found[i])) \in Sequels(board)
      BY <1>2, ChildSequel
    <2> QED BY <2>1
  <1>4. PopulationVerbs(board) = FlattenSeq(parts) \o Done BY DEF PopulationVerbs, found
  <1> HIDE DEF parts, n
  <1>5. FlattenSeq(parts) \in Sequels(board) BY <1>2, <1>3, FlattenIn, SequelsJoin
  <1>6. Done \in Sequels(board)
    <2> DEFINE v == Verb("done", None, None, None)
    <2>1. v \in Sensible(board) /\ Ready(board, v)
      BY DEF Sensible, Fits, PhaseOps, Shrinks, Verb, Verbs, Ops, Ready, Plain, NeedsHand
    <2> HIDE DEF v
    <2>2. <<v>> \in Sequels(board) BY <2>1, Lone
    <2> QED BY <2>2 DEF v, Done
  <1> QED BY <1>4, <1>5, <1>6, SequelsJoin

(* The plan of a prune. *)

Takedowns(b) == {q \in Seq({v \in Verbs : v.op \in PhaseOps("prune")}) : Drained(b, q)}

LEMMA TakedownsJoin ==
  ASSUME NEW b
  PROVE  /\ << >> \in Takedowns(b)
         /\ \A s, t \in Takedowns(b) : s \o t \in Takedowns(b)
  <1> DEFINE W == {v \in Verbs : v.op \in PhaseOps("prune")}
             Freed(q, i, c) == \/ b.driver[c] = "none"
                               \/ \E j \in 1..(i-1) : q[j].op = "release" /\ q[j].on = c
             Cut(q, i, c) == \A d \in DpniRows(b, c) :
               \/ b.edge[d] = None
               \/ \E j \in 1..(i-1) : q[j].op = "sever" /\ q[j].on = c /\ q[j].obj = d
  <1>1. << >> \in Takedowns(b) BY DEF Takedowns, Drained
  <1>2. ASSUME NEW s \in Takedowns(b), NEW t \in Takedowns(b) PROVE s \o t \in Takedowns(b)
    <2> DEFINE u == s \o t
    <2>1. /\ s \in Seq(W) /\ t \in Seq(W)
          /\ \A i \in 1..Len(s) : s[i].op = "destroy" => Freed(s, i, s[i].on) /\ Cut(s, i, s[i].on)
          /\ \A i \in 1..Len(t) : t[i].op = "destroy" => Freed(t, i, t[i].on) /\ Cut(t, i, t[i].on)
      BY DEF Takedowns, Drained
    <2> HIDE DEF W, u
    <2>2. u \in Seq(W) /\ \A i \in 1..Len(u) : InFirst(s, u, i) \/ InSecond(s, t, u, i)
      BY <2>1, Splits DEF u
    <2>3. ASSUME NEW i \in 1..Len(u), u[i].op = "destroy"
          PROVE  Freed(u, i, u[i].on) /\ Cut(u, i, u[i].on)
      <3>1. CASE InFirst(s, u, i)
        <4>1. i \in 1..Len(s) /\ u[i] = s[i] /\ \A j \in 1..(i-1) : u[j] = s[j] BY <3>1 DEF InFirst
        <4> QED BY <2>1, <2>3, <4>1
      <3>2. CASE InSecond(s, t, u, i)
        <4>1. PICK k \in 1..Len(t) : /\ u[i] = t[k]
                /\ \A j \in 1..(k-1) : j + Len(s) \in 1..(i-1) /\ u[j + Len(s)] = t[j]
          BY <3>2 DEF InSecond
        <4>2. Freed(t, k, t[k].on) /\ Cut(t, k, t[k].on) BY <2>1, <2>3, <4>1
        <4>3. Freed(u, i, u[i].on)
          <5>1. CASE b.driver[t[k].on] = "none" BY <4>1, <5>1
          <5>2. CASE \E j \in 1..(k-1) : t[j].op = "release" /\ t[j].on = t[k].on
            <6>1. PICK j \in 1..(k-1) : t[j].op = "release" /\ t[j].on = t[k].on BY <5>2
            <6> QED BY <4>1, <6>1
          <5> QED BY <4>2, <5>1, <5>2
        <4>4. ASSUME NEW d \in DpniRows(b, u[i].on)
              PROVE  \/ b.edge[d] = None
                     \/ \E j \in 1..(i-1) : u[j].op = "sever" /\ u[j].on = u[i].on /\ u[j].obj = d
          BY <4>1, <4>2
        <4> QED BY <4>3, <4>4
      <3> QED BY <2>2, <3>1, <3>2
    <2>4. Drained(b, u) BY <2>3 DEF Drained
    <2> QED BY <2>2, <2>4 DEF Takedowns, W, u
  <1> QED BY <1>1, <1>2

LEMMA TeardownDrained ==
  ASSUME board \in Boards, NEW c \in Dprcs
  PROVE  TeardownVerbs(board, c) \in Takedowns(board)
  <1> DEFINE W == {v \in Verbs : v.op \in PhaseOps("prune")}
             D == DpniRows(board, c)
             P == Residents(board, c) \cap board.plugged
             Each(op, objs) == [i \in 1..Len(objs) |-> Verb(op, c, None, objs[i])]
             release == Verb("release", c, None, None)
             destroy == Verb("destroy", c, None, None)
             severs == Each("sever", SetToSeq(D))
             unplugs == Each("unplug", SetToSeq(P))
             n == Cardinality(D)
  <1>1. /\ D \subseteq Objs /\ P \subseteq Objs /\ IsFiniteSet(D) /\ IsFiniteSet(P)
    <2>1. D \subseteq Objs /\ P \subseteq Objs /\ IsFiniteSet(Objs)
      BY BoardAssumption, FS_Union DEF Objs, DpniRows, Residents
    <2> QED BY <2>1, FS_Subset
  <1>2. ASSUME NEW op \in {"sever", "unplug"}, NEW S, S \subseteq Objs, IsFiniteSet(S)
        PROVE  /\ Each(op, SetToSeq(S)) \in Seq(W) /\ Len(Each(op, SetToSeq(S))) = Cardinality(S)
               /\ \A i \in 1..Cardinality(S) :
                    Each(op, SetToSeq(S))[i] = Verb(op, c, None, SetToSeq(S)[i])
    <2> DEFINE m == Cardinality(S)
               objs == SetToSeq(S)
    <2>1. m \in Nat /\ objs \in [1..m -> S] BY <1>2, SetToSeqIn
    <2> HIDE DEF m, objs
    <2>2. Len(objs) = m BY <2>1
    <2>3. ASSUME NEW i \in 1..m PROVE Verb(op, c, None, objs[i]) \in W
      <3>1. objs[i] \in Objs BY <1>2, <2>1
      <3> QED BY <3>1 DEF Verb, Verbs, Ops, PhaseOps
    <2> HIDE DEF W
    <2>4. /\ Each(op, objs) \in Seq(W) /\ Len(Each(op, objs)) = m
          /\ \A i \in 1..m : Each(op, objs)[i] = Verb(op, c, None, objs[i])
      BY <2>1, <2>2, <2>3
    <2> QED BY <2>4 DEF m, objs
  <1>3. /\ severs \in Seq(W) /\ Len(severs) = n
        /\ \A i \in 1..n : severs[i] = Verb("sever", c, None, SetToSeq(D)[i])
        /\ unplugs \in Seq(W)
        /\ \A i \in 1..Len(unplugs) : unplugs[i].op = "unplug"
    <2>1. /\ severs \in Seq(W) /\ Len(severs) = n
          /\ \A i \in 1..n : severs[i] = Verb("sever", c, None, SetToSeq(D)[i])
      <3> HIDE DEF Each, W, D
      <3> QED BY <1>1, <1>2
    <2>2. /\ unplugs \in Seq(W) /\ Len(unplugs) = Cardinality(P)
          /\ \A i \in 1..Cardinality(P) : unplugs[i] = Verb("unplug", c, None, SetToSeq(P)[i])
      <3> HIDE DEF Each, W, P
      <3> QED BY <1>1, <1>2
    <2> HIDE DEF unplugs, severs, P, W
    <2>3. \A i \in 1..Len(unplugs) : unplugs[i].op = "unplug" BY <2>2 DEF Verb
    <2> QED BY <2>1, <2>2, <2>3
  <1>4. n \in Nat /\ \A d \in D : \E i \in 1..n : severs[i] = Verb("sever", c, None, d)
    <2>1. n \in Nat /\ \A d \in D : \E i \in 1..n : SetToSeq(D)[i] = d BY <1>1, SetToSeqIn
    <2> HIDE DEF severs, D, n
    <2> QED BY <1>3, <2>1
  <1>5. release \in W /\ destroy \in W BY DEF Verb, Verbs, Ops, PhaseOps
  <1>6. TeardownVerbs(board, c) = <<release>> \o severs \o unplugs \o <<destroy>>
    BY DEF TeardownVerbs
  <1>7. /\ release.op = "release" /\ release.on = c /\ destroy.op = "destroy" /\ destroy.on = c
        /\ \A i \in 1..n : severs[i].op = "sever"
    <2> HIDE DEF severs, n
    <2> QED BY <1>3 DEF Verb
  <1> HIDE DEF W, Each, severs, unplugs, release, destroy, n
  <1> DEFINE U == {v \in W : v.op # "destroy"}
             s == <<release>> \o severs \o unplugs
             q == s \o <<destroy>>
             m == Len(s)
  <1>8. /\ s \in Seq(U) /\ release \in ToSet(s) /\ ToSet(severs) \subseteq ToSet(s)
    <2> DEFINE one == <<release>>
               a == one \o severs
    <2>1. one \in Seq(U) /\ release \in ToSet(one) BY <1>5, <1>7 DEF ToSet
    <2>2. severs \in Seq(U) /\ unplugs \in Seq(U) BY <1>3, <1>7
    <2>3. s = a \o unplugs OBVIOUS
    <2> HIDE DEF U, one, s
    <2>4. a \in Seq(U) /\ ToSet(one) \subseteq ToSet(a) /\ ToSet(severs) \subseteq ToSet(a)
      BY <2>1, <2>2, Joint, JoinHas
    <2> HIDE DEF a
    <2>5. s \in Seq(U) /\ ToSet(a) \subseteq ToSet(s) BY <2>2, <2>3, <2>4, Joint, JoinHas
    <2> QED BY <2>1, <2>4, <2>5
  <1> HIDE DEF s
  <1>9. /\ q \in Seq(W) /\ m \in Nat /\ Len(q) = m + 1
        /\ \A i \in 1..m : q[i] = s[i] /\ s[i].op # "destroy"
        /\ q[m + 1] = destroy
    <2>1. s \in Seq(W) /\ \A i \in 1..m : s[i].op # "destroy" BY <1>8
    <2> QED BY <1>5, <2>1, Lasting
  <1>10. TeardownVerbs(board, c) = q BY <1>6 DEF s
  <1>11. \A v \in ToSet(s) : \E i \in 1..m : q[i] = v
    <2>1. DOMAIN s = 1..m BY <1>8
    <2> QED BY <1>9, <2>1 DEF ToSet
  <1> HIDE DEF q, m
  <1>12. \A i \in 1..(m + 1) : q[i].op = "destroy" => i = m + 1 BY <1>9
  <1>13. Drained(board, q)
    <2>1. \A d \in D : LET v == Verb("sever", c, None, d)
                      IN v \in ToSet(s) /\ v.op = "sever" /\ v.on = c /\ v.obj = d
      <3>1. \A i \in 1..n : severs[i] \in ToSet(severs) BY <1>3 DEF ToSet
      <3> HIDE DEF D
      <3> QED BY <1>4, <1>8, <3>1 DEF Verb
    <2>2. \A d \in D : \E j \in 1..m : q[j].op = "sever" /\ q[j].on = c /\ q[j].obj = d
      <3> HIDE DEF D
      <3> QED BY <1>11, <2>1
    <2>3. \E j \in 1..m : q[j].op = "release" /\ q[j].on = c BY <1>7, <1>8, <1>11
    <2>4. ASSUME NEW i \in 1..(m + 1), q[i].op = "destroy"
          PROVE  /\ \E j \in 1..(i-1) : q[j].op = "release" /\ q[j].on = q[i].on
                 /\ \A d \in DpniRows(board, q[i].on) :
                      \E j \in 1..(i-1) : q[j].op = "sever" /\ q[j].on = q[i].on /\ q[j].obj = d
      <3>1. i - 1 = m /\ q[i].on = c BY <1>7, <1>9, <1>12, <2>4
      <3> QED BY <2>2, <2>3, <3>1
    <2> QED BY <1>9, <2>4, SMTT(30) DEF Drained
  <1> QED BY <1>9, <1>10, <1>13 DEF Takedowns, W

LEMMA PruneDrained ==
  ASSUME IInv, pc = "prune"
  PROVE  PruneVerbs(board) \in Takedowns(board)
  <1> DEFINE C == Candidates(board)
             n == Cardinality(C)
             order == InOrder(C)
             parts == [i \in 1..Len(order) |-> TeardownVerbs(board, order[i])]
             last == Verb("pruneVerdict", None, None, None)
  <1>1. C \subseteq Dprcs /\ board \in Boards BY Running DEF Candidates
  <1>2. C \subseteq Nat /\ IsFiniteSet(C)
    <2> HIDE DEF C
    <2> QED BY <1>1, FS_Subset, BoardAssumption
  <1> HIDE DEF C
  <1>3. n \in Nat /\ order \in [1..n -> C] BY <1>2, InOrderIn
  <1> HIDE DEF n, order
  <1>4. Len(order) = n BY <1>3
  <1>5. parts \in [1..n -> Takedowns(board)]
    <2>1. ASSUME NEW i \in 1..n PROVE TeardownVerbs(board, order[i]) \in Takedowns(board)
      <3>1. PICK c \in Dprcs : c = order[i] BY <1>1, <1>3
      <3>2. TeardownVerbs(board, c) \in Takedowns(board) BY <1>1, TeardownDrained
      <3> QED BY <3>1, <3>2
    <2> QED BY <1>4, <2>1
  <1>6. <<last>> \in Takedowns(board)
    <2> DEFINE W == {v \in Verbs : v.op \in PhaseOps("prune")}
    <2>1. last \in W /\ last.op # "destroy" BY DEF Verb, Verbs, Ops, PhaseOps
    <2> HIDE DEF last, W
    <2>2. <<last>> \in Seq(W) /\ Len(<<last>>) = 1 /\ \A i \in 1..1 : <<last>>[i] = last BY <2>1
    <2>3. Drained(board, <<last>>) BY <2>1, <2>2, Undrained
    <2> QED BY <2>2, <2>3 DEF Takedowns, W
  <1>7. PruneVerbs(board) = FlattenSeq(parts) \o <<last>> BY DEF PruneVerbs, order, C
  <1> HIDE DEF parts, last
  <1>8. FlattenSeq(parts) \in Takedowns(board) BY <1>3, <1>5, FlattenIn, TakedownsJoin
  <1> QED BY <1>6, <1>7, <1>8, TakedownsJoin

LEMMA TakedownOrdered ==
  ASSUME NEW b, NEW hd, NEW q \in Takedowns(b)
  PROVE  /\ \A i \in 1..Len(q) : Fits(b, "prune", q[i])
         /\ Ordered(b, hd, q) /\ Drained(b, q)
  <1>1. q \in Seq({v \in Verbs : v.op \in PhaseOps("prune")}) /\ Drained(b, q) BY DEF Takedowns
  <1>2. \A i \in 1..Len(q) : q[i].op \in PhaseOps("prune") BY <1>1
  <1>3. \A v : v.op \in PhaseOps("prune") => Plain(v) /\ Fits(b, "prune", v)
    BY DEF PhaseOps, Plain, NeedsHand, Fits
  <1> QED BY <1>1, <1>2, <1>3, PlainQueue

(* The phases. *)

LEMMA PlansLife ==
  ASSUME IInv, LInv, PlanContainers \/ PlanPopulation \/ PlanPrune, UNCHANGED given
  PROVE  LInv' /\ Taken
  <1>1. UNCHANGED <<board, journal, unreversed>> /\ pc' = pc /\ pc # "idle" /\ hand' = None
    BY DEF PlanContainers, PlanPopulation, PlanPrune, PhaseUnchanged, Owes, Planning
  <1>2. /\ \A i \in 1..Len(queue') : Fits(board, pc, queue'[i])
        /\ Ordered(board, None, queue') /\ Drained(board, queue')
    <2>1. CASE PlanContainers
      <3> DEFINE q == ContainerVerbs(board)
      <3>1. queue' = q /\ pc = "containers" BY <2>1 DEF PlanContainers, Owes, Planning
      <3>2. q \in Seq({v \in Verbs : v.op \in PhaseOps("containers")}) BY <3>1, ContainersLife
      <3> HIDE DEF q
      <3>3. \A i \in 1..Len(q) : q[i].op \in PhaseOps("containers") BY <3>2
      <3>4. \A v : v.op \in PhaseOps("containers") =>
              Plain(v) /\ Fits(board, "containers", v) /\ v.op # "destroy"
        BY DEF PhaseOps, Plain, NeedsHand, Fits
      <3>5. \A i \in 1..Len(q) : Plain(q[i]) /\ Fits(board, "containers", q[i]) /\ q[i].op # "destroy"
        BY <3>3, <3>4
      <3> QED BY <3>1, <3>5, PlainQueue, Undrained
    <2>2. CASE PlanPopulation
      <3>1. queue' = PopulationVerbs(board) /\ pc = "population"
        BY <2>2 DEF PlanPopulation, Owes, Planning
      <3>2. PopulationVerbs(board) \in Sequels(board) BY <3>1, PopulationSequel
      <3> QED BY <3>1, <3>2, SequelOrdered
    <2>3. CASE PlanPrune
      <3>1. queue' = PruneVerbs(board) /\ pc = "prune" BY <2>3 DEF PlanPrune, Owes, Planning
      <3>2. PruneVerbs(board) \in Takedowns(board) BY <3>1, PruneDrained
      <3> QED BY <3>1, <3>2, TakedownOrdered
    <2> QED BY <2>1, <2>2, <2>3
  <1>3. Queued' BY <1>1, <1>2 DEF Queued
  <1> QED BY <1>1, <1>3, Replanned

\* What ends a run, whatever stands.
LEMMA EndsLife ==
  ASSUME IInv, LInv,
         \/ ContainersRefused \/ RefusePopulation \/ PruneNothing \/ PruneGateRefused
         \/ BelowDraw \/ PruneDone \/ UnwindDone \/ Killed
  PROVE  LInv' /\ Taken
  <1>1. pc' = "idle" /\ board' = board
    BY DEF ContainersRefused, RefusePopulation, PruneNothing, PruneGateRefused, BelowDraw,
           PruneDone, UnwindDone, Killed, End
  <1> QED BY <1>1, EndLife

LEMMA StopLife ==
  ASSUME IInv, LInv, Refused \/ VerbFails
  PROVE  LInv' /\ Taken
  <1>1. Fail /\ board' = board /\ pc # "idle"
    <2>1. CASE Refused
      <3>1. queue # << >> BY <2>1 DEF Refused, Refusal, Next1
      <3> QED BY <2>1, <3>1, HeadSound DEF Refused
    <2>2. CASE VerbFails BY <2>2 DEF VerbFails
    <2> QED BY <2>1, <2>2
  <1>2. CASE opts.policy = "abort" BY <1>1, <1>2, EndLife DEF Fail, End
  <1>3. CASE opts.policy # "abort"
    <2>1. pc' = "unwind" /\ queue' = << >> /\ UNCHANGED <<journal, unreversed>>
      BY <1>1, <1>3 DEF Fail
    <2> QED BY <1>1, <2>1, EmptyQueue, Replanned
  <1> QED BY <1>2, <1>3

LEMMA ErrLife ==
  ASSUME IInv, LInv, ErrsAfterEffect
  PROVE  LInv' /\ Taken
  <1>1. queue # << >> /\ LastSpawn /\ Fail BY DEF ErrsAfterEffect, LastSpawn, Next1
  <1>2. pc # "idle" /\ Recalled BY <1>1, HeadSound, HeadLife
  <1>3. Consistent(board') /\ board'.driver = board.driver /\ Taken
    <2>1. CASE Next1("spawn")
      <3>1. PICK c \in Dprcs \ board.live : board' = Spawned(board, c, V.arg)
        BY <1>1, <2>1, NextIdIn, BoardAssumption DEF LastSpawn, Next1
      <3> QED BY <2>1, <3>1, SpawnEffect
    <2>2. CASE Next1("stamp") \/ Next1("plug")
      BY <1>1, <2>2, FinishEffect DEF LastSpawn, Next1, V
    <2>3. CASE Next1("connect") BY <1>1, <2>3, ConnectEffect DEF LastSpawn, Next1
    <2> QED BY <1>1, <2>1, <2>2, <2>3 DEF LastSpawn
  <1>4. CASE opts.policy = "abort" BY <1>1, <1>3, <1>4 DEF Fail, End, LInv
  <1>5. CASE opts.policy # "abort"
    <2>1. pc' = "unwind" /\ queue' = << >> /\ UNCHANGED <<journal, unreversed>>
      BY <1>1, <1>5 DEF Fail
    <2>2. Recalled' BY <1>2, <1>3, <2>1, JournalSame
    <2> QED BY <1>3, <2>1, <2>2, EmptyQueue DEF LInv
  <1> QED BY <1>4, <1>5

LEMMA PhaseLife ==
  ASSUME IInv, LInv, PhaseDone
  PROVE  LInv' /\ Taken
  <1>1. pc # "idle" BY HeadSound DEF PhaseDone, Next1
  <1>2. /\ pc' \in {"population", "prune"} /\ queue' = << >>
        /\ UNCHANGED <<board, journal, unreversed>>
    BY DEF PhaseDone
  <1> QED BY <1>1, <1>2, EmptyQueue, Replanned

LEMMA StartLife ==
  ASSUME IInv, LInv, Start
  PROVE  LInv' /\ Taken
  <1>1. /\ UNCHANGED <<board, queue, hand, journal, unreversed>>
        /\ queue = << >> /\ journal = << >> /\ pc' = "containers"
    BY DEF Start, IInv, Shape
  <1>2. Queued' BY <1>1, EmptyQueue
  <1>3. Recalled'
    <2>1. Len(journal') = 0 /\ 1..0 = {} BY <1>1
    <2> QED BY <2>1 DEF Recalled, MadeFirst, HeldRecorded
  <1>4. Consistent(board') BY <1>1 DEF LInv
  <1>5. Taken BY <1>1, StillTaken
  <1> QED BY <1>2, <1>3, <1>4, <1>5 DEF LInv

\* A candidate is given up: what is still owed of the others is owed in its order.
LEMMA GivenUpLife ==
  ASSUME IInv, LInv, TeardownRefused
  PROVE  LInv' /\ Taken
  <1> DEFINE K == {v \in ToSet(queue) : v.on # V.on}
             q == Only(queue, K)
  <1>1. /\ queue # << >> /\ V.op \in {"unplug", "destroy"}
        /\ queue' = q /\ UNCHANGED <<board, pc, hand, journal, unreversed>>
    BY DEF TeardownRefused, Next1, V
  <1>2. pc = "prune" /\ queue \in Seq(Verbs) /\ Queued /\ Len(queue) \in Nat
    BY <1>1, PhaseIs, QueueIs DEF LInv
  <1>3. \A j \in 1..Len(queue) : queue[j].on # V.on => queue[j] \in K BY <1>2 DEF ToSet
  <1>4. ASSUME NEW v, v \in K PROVE v.on # V.on BY <1>4
  <1> HIDE DEF K
  <1>5. /\ q \in Seq(Verbs \cap K) /\ Len(q) \in Nat
        /\ \A i \in 1..Len(q) : \E k \in 1..Len(queue) :
              /\ queue[k] = q[i]
              /\ \A j \in 1..(k-1) : queue[j] \in K => \E m \in 1..(i-1) : q[m] = queue[j]
    <2>0. queue \in Seq(Verbs) BY <1>2
    <2> HIDE DEF q
    <2>1. /\ Only(queue, K) \in Seq(Verbs \cap K)
          /\ \A i \in 1..Len(Only(queue, K)) : \E k \in 1..Len(queue) :
                /\ queue[k] = Only(queue, K)[i]
                /\ \A j \in 1..(k-1) : queue[j] \in K =>
                     \E m \in 1..(i-1) : Only(queue, K)[m] = queue[j]
      BY <2>0, OnlyAfter
    <2>3. q = Only(queue, K) BY DEF q
    <2>2. Len(q) \in Nat BY <2>1, <2>3
    <2> QED BY <2>1, <2>2, <2>3
  <1> HIDE DEF q
  <1>6. \A i \in 1..Len(q) : Fits(board, pc, q[i]) /\ Plain(q[i])
    <2>1. \A i \in 1..Len(q) : Fits(board, pc, q[i]) BY <1>2, <1>5 DEF Queued
    <2>2. \A v : Fits(board, "prune", v) => Plain(v) BY DEF Fits, PhaseOps, Plain, NeedsHand
    <2> QED BY <1>2, <2>1, <2>2
  <1>7. Drained(board, q)
    <2> SUFFICES ASSUME NEW i \in 1..Len(q), q[i].op = "destroy"
                 PROVE  /\ \/ board.driver[q[i].on] = "none"
                           \/ \E j \in 1..(i-1) : q[j].op = "release" /\ q[j].on = q[i].on
                        /\ \A d \in DpniRows(board, q[i].on) :
                             \/ board.edge[d] = None
                             \/ \E j \in 1..(i-1) : /\ q[j].op = "sever" /\ q[j].on = q[i].on
                                                    /\ q[j].obj = d
      BY DEF Drained
    <2>1. PICK k \in 1..Len(queue) :
            /\ queue[k] = q[i]
            /\ \A j \in 1..(k-1) : queue[j] \in K => \E m \in 1..(i-1) : q[m] = queue[j]
      BY <1>5
    <2>2. q[i].on # V.on
      <3>1. q[i] \in K BY <1>5
      <3> QED BY <1>4, <3>1
    <2>3. \A j \in 1..(k-1) : queue[j].on = q[i].on => \E m \in 1..(i-1) : q[m] = queue[j]
      <3>1. \A j \in 1..(k-1) : j \in 1..Len(queue) BY <1>2
      <3> QED BY <1>3, <2>1, <2>2, <3>1
    <2>4. /\ \/ board.driver[q[i].on] = "none"
             \/ \E j \in 1..(k-1) : queue[j].op = "release" /\ queue[j].on = q[i].on
          /\ \A d \in DpniRows(board, q[i].on) :
               \/ board.edge[d] = None
               \/ \E j \in 1..(k-1) : /\ queue[j].op = "sever" /\ queue[j].on = q[i].on
                                      /\ queue[j].obj = d
      BY <1>2, <2>1 DEF Queued, Drained
    <2>5. \/ board.driver[q[i].on] = "none"
          \/ \E j \in 1..(i-1) : q[j].op = "release" /\ q[j].on = q[i].on
      BY <2>3, <2>4
    <2>6. ASSUME NEW d \in DpniRows(board, q[i].on)
          PROVE  \/ board.edge[d] = None
                 \/ \E j \in 1..(i-1) : q[j].op = "sever" /\ q[j].on = q[i].on /\ q[j].obj = d
      <3>1. CASE board.edge[d] = None BY <3>1
      <3>2. CASE \E j \in 1..(k-1) : queue[j].op = "sever" /\ queue[j].on = q[i].on
                                      /\ queue[j].obj = d
        <4>1. PICK j \in 1..(k-1) : queue[j].op = "sever" /\ queue[j].on = q[i].on
                                    /\ queue[j].obj = d
          BY <3>2
        <4>2. PICK m \in 1..(i-1) : q[m] = queue[j] BY <2>3, <4>1
        <4> QED BY <4>1, <4>2
      <3>3. \/ board.edge[d] = None
            \/ \E j \in 1..(k-1) : /\ queue[j].op = "sever" /\ queue[j].on = q[i].on
                                    /\ queue[j].obj = d
        BY <2>4
      <3> QED BY <3>1, <3>2, <3>3
    <2> QED BY <2>5, <2>6
  <1>8. Queued' BY <1>1, <1>6, <1>7, PlainQueue DEF Queued
  <1>9. pc # "idle" BY <1>2
  <1> QED BY <1>1, <1>8, <1>9, Replanned

\* Every victim was held: what is not ours is still pruned, then the run ends.
LEMMA BelowLife ==
  ASSUME IInv, LInv, ReclaimRefused
  PROVE  LInv' /\ Taken
  <1> DEFINE K == {v \in ToSet(queue) : v.op = "pruneForeign" /\ v.on = V.on}
             q == Only(queue, K)
             below == Below(V.on)
  <1>1. /\ queue # << >> /\ V.op = "reclaim"
        /\ queue' = q \o <<below>> /\ UNCHANGED <<board, pc, hand, journal, unreversed>>
    BY DEF ReclaimRefused, Next1, V
  <1>2. /\ pc = "population" /\ V.on \in board.live /\ queue \in Seq(Verbs) /\ Queued
        /\ V \in Verbs
    BY <1>1, PhaseIs, QueueIs, HeadSound DEF LInv
  <1>3. ASSUME NEW v, v \in K PROVE v.op = "pruneForeign" /\ v.on = V.on BY <1>3
  <1> HIDE DEF K
  <1>4. q \in Seq(Verbs \cap K) BY <1>2, OnlyAfter
  <1> HIDE DEF q
  <1>5. ASSUME NEW v \in (Verbs \cap K) \cup {below}
        PROVE  Fits(board, "population", v) /\ Plain(v) /\ v.op # "destroy"
    <2>1. v.op \in {"pruneForeign", "belowDraw"} /\ v.on = V.on
      <3>1. below.op = "belowDraw" /\ below.on = V.on BY DEF Below, Verb
      <3> HIDE DEF below
      <3> QED BY <1>3, <3>1
    <2> HIDE DEF below
    <2> QED BY <1>2, <2>1 DEF Fits, PhaseOps, Plain, NeedsHand
  <1> HIDE DEF below
  <1> DEFINE T == (Verbs \cap K) \cup {below}
  <1>6. queue' \in Seq(T) BY <1>1, <1>4
  <1>7. \A i \in 1..Len(queue') : queue'[i] \in T
    <2> HIDE DEF T
    <2> QED BY <1>6
  <1>8. \A i \in 1..Len(queue') :
          Fits(board, "population", queue'[i]) /\ Plain(queue'[i]) /\ queue'[i].op # "destroy"
    BY <1>5, <1>7
  <1>9. Ordered(board, hand, queue') /\ Drained(board, queue') BY <1>8, PlainQueue, Undrained
  <1>10. Queued' BY <1>1, <1>2, <1>8, <1>9 DEF Queued
  <1>11. pc # "idle" BY <1>2
  <1> QED BY <1>1, <1>10, <1>11, Replanned

(* The rollback. *)

LEMMA RestIs ==
  ASSUME IInv, pc = "unwind", journal # << >>, journal' = Rest
  PROVE  /\ Len(journal) \in Nat /\ Len(journal) # 0 /\ Len(journal') = Len(journal) - 1
         /\ \A i \in 1..(Len(journal) - 1) : journal'[i] = journal[i]
         /\ journal[Len(journal)] = LastRow /\ LastRow \in SoundRows
         /\ \A i \in 1..Len(journal) : journal[i].kind = "dprc" => journal[i].on \in Dprcs
  <1>1. journal \in Seq(SoundRows) BY Running DEF Journaled
  <1>2. \A r \in SoundRows : r.kind = "dprc" => r.on \in Dprcs BY DEF SoundRows, RowsFor
  <1> HIDE DEF SoundRows
  <1>3. /\ Len(journal) \in Nat /\ Len(journal) # 0 /\ LastRow = journal[Len(journal)]
        /\ journal' = [i \in 1..(Len(journal) - 1) |-> journal[i]]
    BY <1>1 DEF Rest, LastRow, Front, Last
  <1>4. Len(journal') = Len(journal) - 1 /\ \A i \in 1..(Len(journal) - 1) : journal'[i] = journal[i]
    BY <1>3
  <1>5. LastRow \in SoundRows BY LastOnRecord
  <1> QED BY <1>1, <1>2, <1>3, <1>4, <1>5

\* No driver takes a container up, and the row undone was not what held one.
LEMMA RowLife ==
  ASSUME IInv, LInv, pc = "unwind", journal # << >>, journal' = Rest, UNCHANGED <<pc, queue>>,
         Consistent(board'),
         \A c \in Dprcs : board'.driver[c] = "vfio" => board.driver[c] = "vfio",
         \/ unreversed' = unreversed \cup {LastRow}
         \/ /\ unreversed' = unreversed
            /\ LastRow.kind = "bound" => board'.driver[LastRow.on] # "vfio"
  PROVE  LInv'
  <1> DEFINE m == Len(journal)
  <1>1. /\ m \in Nat /\ m # 0 /\ Len(journal') = m - 1
        /\ \A i \in 1..(m - 1) : journal'[i] = journal[i]
        /\ \A i \in 1..m : journal[i].kind = "dprc" => journal[i].on \in Dprcs
    BY RestIs
  <1>2. ToSet(journal) = ToSet(journal') \cup {LastRow} BY LastOnRecord
  <1>3. MadeFirst /\ HeldRecorded BY DEF LInv, Recalled
  <1>4. Queued'
    <2>1. queue' = << >> BY DEF IInv, Shape
    <2> QED BY <2>1, EmptyQueue
  <1> HIDE DEF m
  <1>5. \A i \in 1..(m - 1) : i \in 1..m BY <1>1
  <1>6. MadeFirst'
    <2>1. pc' # "containers" OBVIOUS
    <2>2. \A i, j \in 1..(m - 1) : i < j /\ journal'[j].kind = "dprc" => journal'[i].kind = "dprc"
      BY <1>1, <1>3, <1>5 DEF MadeFirst, m
    <2> QED BY <1>1, <2>1, <2>2 DEF MadeFirst
  <1>7. HeldRecorded'
    <2> SUFFICES ASSUME NEW i \in 1..(m - 1), journal'[i].kind = "dprc",
                        board'.driver[journal'[i].on] = "vfio"
                 PROVE  \E r \in OnRecord' : r.kind = "bound" /\ r.on = journal'[i].on
      BY <1>1 DEF HeldRecorded
    <2>1. /\ i \in 1..m /\ journal[i] = journal'[i] /\ journal[i].on \in Dprcs
          /\ board.driver[journal[i].on] = "vfio"
      BY <1>1, <1>5
    <2>2. PICK r \in OnRecord : r.kind = "bound" /\ r.on = journal[i].on
      BY <1>3, <2>1 DEF HeldRecorded, m
    <2>3. r \in OnRecord'
      <3>1. CASE unreversed' = unreversed \cup {LastRow} BY <1>2, <2>2, <3>1 DEF OnRecord
      <3>2. CASE unreversed' = unreversed /\ (LastRow.kind = "bound" => board'.driver[LastRow.on] # "vfio")
        <4>1. r # LastRow BY <2>1, <2>2, <3>2
        <4> QED BY <1>2, <2>2, <3>2, <4>1 DEF OnRecord
      <3> QED BY <3>1, <3>2
    <2> QED BY <2>1, <2>2, <2>3
  <1> QED BY <1>4, <1>6, <1>7 DEF LInv, Recalled

LEMMA UnreversedLife ==
  ASSUME IInv, LInv, UnwindRowFails
  PROVE  LInv' /\ Taken
  <1>1. /\ pc = "unwind" /\ journal # << >> /\ journal' = Rest
        /\ unreversed' = unreversed \cup {LastRow} /\ UNCHANGED <<board, pc, queue>>
    BY DEF UnwindRowFails
  <1>2. Consistent(board') BY <1>1 DEF LInv
  <1>3. LInv' BY <1>1, <1>2, RowLife
  <1> QED BY <1>1, <1>3, StillTaken

\* A container that VFIO holds is destroyed only after its bind could not be undone.
LEMMA ForcedIs ==
  ASSUME IInv, LInv, pc = "unwind", journal # << >>, journal' = Rest,
         LastRow.kind = "dprc", board.driver[LastRow.on] = "vfio",
         board' = Removed(board, LastRow.on)
  PROVE  Forced
  <1> DEFINE m == Len(journal)
  <1>1. /\ m \in Nat /\ m # 0 /\ journal[m] = LastRow /\ m \in 1..m BY RestIs
  <1>2. MadeFirst /\ HeldRecorded BY DEF LInv, Recalled
  <1>3. PICK r \in OnRecord : r.kind = "bound" /\ r.on = LastRow.on BY <1>1, <1>2 DEF HeldRecorded
  <1>4. r \notin ToSet(journal)
    <2> SUFFICES ASSUME r \in ToSet(journal) PROVE FALSE OBVIOUS
    <2>1. journal \in Seq(SoundRows) BY Running DEF Journaled
    <2> HIDE DEF SoundRows
    <2>2. PICK i \in 1..m : r = journal[i] BY <2>1 DEF ToSet
    <2>3. i # m BY <1>1, <1>3, <2>2
    <2>4. i < m BY <1>1, <2>2, <2>3
    <2> QED BY <1>1, <1>2, <1>3, <2>2, <2>4 DEF MadeFirst
  <1>5. r \in unreversed BY <1>3, <1>4 DEF OnRecord
  <1> QED BY <1>3, <1>5 DEF Forced

LEMMA UnwoundLife ==
  ASSUME IInv, LInv, UnwindRow
  PROVE  LInv' /\ Taken
  <1>1. /\ pc = "unwind" /\ journal # << >> /\ journal' = Rest /\ Undoable(board, LastRow)
        /\ board' = Undone(board, LastRow) /\ UNCHANGED <<pc, queue, hand, unreversed>>
    BY DEF UnwindRow
  <1>2. board \in Boards /\ Consistent(board) BY <1>1, Running DEF LInv
  <1>3. PICK row \in SoundRows : row = LastRow BY <1>1, LastOnRecord
  <1>4. row \in Rows BY <1>3 DEF SoundRows, RowsFor
  <1>5. Drains BY <1>1 DEF Drains
  <1>6. board.driver \in [Dprcs -> Drivers] BY <1>2 DEF Boards
  <1>7. CASE row.kind = "dprc"
    <2>1. PICK c \in Dprcs : c = row.on BY <1>3, <1>7 DEF SoundRows, RowsFor
    <2>2. board' = Removed(board, c) /\ CanDestroy(board, c)
      BY <1>1, <1>3, <1>7, <2>1 DEF Undone, Undoable
    <2> DEFINE S == Residents(board, c)
    <2>3. /\ Consistent(board') /\ board'.live = board.live \ {c}
          /\ board'.home = [o \in Objs |-> IF o \in S THEN None ELSE board.home[o]]
          /\ board'.edge = [d \in Dpnis |-> IF d \in S THEN None ELSE board.edge[d]]
          /\ board'.driver = [board.driver EXCEPT ![c] = "none"]
      BY <1>2, <2>2, RemovedLife
    <2> HIDE DEF S
    <2>5. \A k \in Dprcs : board'.driver[k] = "vfio" => board.driver[k] = "vfio" BY <1>6, <2>3
    <2>6. LInv' BY <1>1, <1>3, <1>7, <2>3, <2>5, RowLife
    <2>7. CASE board.driver[c] # "vfio" BY <1>2, <1>5, <2>2, <2>6, <2>7, RemovedTaken DEF Taken
    <2>8. CASE board.driver[c] = "vfio"
      <3>1. Forced BY <1>1, <1>3, <1>7, <2>1, <2>2, <2>8, ForcedIs
      <3> QED BY <1>5, <2>6, <3>1 DEF Taken
    <2> QED BY <2>7, <2>8
  <1>8. CASE row.kind \in {"dpni", "pool"}
    <2>1. PICK o \in Objs : o = row.obj BY <1>3, <1>8 DEF SoundRows, RowsFor
    <2>2. board' = Gone(board, {o}) /\ board.home[o] # None /\ board.home[o] \notin board.locked
      BY <1>1, <1>3, <1>8, <2>1 DEF Undone, Undoable
    <2>3. /\ Consistent(board') /\ board'.live = board.live
          /\ board'.home = [x \in Objs |-> IF x \in {o} THEN None ELSE board.home[x]]
          /\ board'.edge = [d \in Dpnis |-> IF d \in {o} THEN None ELSE board.edge[d]]
          /\ board'.locked = board.locked /\ board'.plugged = board.plugged \ {o}
          /\ board'.driver = board.driver
      <3>1. {o} \in SUBSET Objs BY <2>1
      <3> QED BY <1>2, <2>2, <3>1, BoardAssumption DEF Gone, Consistent, Boards, Objs
    <2>4. LInv' BY <1>1, <1>3, <1>8, <2>2, <2>3, RowLife
    <2>5. Life!LifeNext BY <1>2, <2>2, <2>3, LifeWithdraw
    <2> QED BY <1>5, <2>4, <2>5 DEF Taken
  <1>9. CASE row.kind = "edge"
    <2>1. PICK o \in Objs : o = row.obj BY <1>3, <1>9 DEF SoundRows, RowsFor
    <2>2. board' = Severed(board, o) BY <1>1, <1>3, <1>9, <2>1 DEF Undone
    <2>3. /\ Consistent(board') /\ Stays(board, board') /\ board'.driver = board.driver
          /\ board'.edge = [board.edge EXCEPT ![o] = None]
      BY <1>2, <2>2, SeveredLife
    <2>4. LInv' BY <1>1, <1>3, <1>9, <2>3, RowLife
    <2>5. UNCHANGED Life!lifeVars BY <2>3, LifeStays DEF Stays
    <2> QED BY <1>5, <2>4, <2>5 DEF Taken
  <1>10. CASE row.kind = "bound"
    <2>1. PICK c \in Dprcs : c = row.on BY <1>3, <1>10 DEF SoundRows, RowsFor
    <2>4. board' = VfioUnbound(board, c) BY <1>1, <1>3, <1>10, <2>1 DEF Undone
    <2>5. /\ Consistent(board') /\ Stays(board, board')
          /\ board'.driver = [board.driver EXCEPT ![c] = "none"]
      BY <1>2, <2>4, VfioUnboundLife
    <2>6. /\ \A k \in Dprcs : board'.driver[k] = "vfio" => board.driver[k] = "vfio"
          /\ board'.driver[c] # "vfio"
      BY <1>6, <2>5
    <2>7. LInv' BY <1>1, <1>3, <2>1, <2>5, <2>6, RowLife
    <2> QED BY <1>2, <2>5, <2>7, UnboundTaken DEF Taken
  <1> QED BY <1>4, <1>7, <1>8, <1>9, <1>10 DEF Rows

(* The bus, the consumers, the operator. *)

LEMMA AroundLife ==
  ASSUME IInv, LInv, (\E c \in Dprcs : Scan(c)) \/ (\E o \in Pool : Draw(o))
  PROVE  LInv' /\ Taken
  <1>1. /\ UNCHANGED <<pc, queue, hand, journal, unreversed>>
        /\ board'.live = board.live /\ board'.home = board.home /\ board'.locked = board.locked
        /\ board'.plugged = board.plugged /\ board'.driver = board.driver
        /\ board'.over = board.over /\ board'.edge = board.edge
        /\ board'.name = board.name /\ board'.tag = board.tag
        /\ board'.scanned \subseteq board.scanned \cup board.live /\ board'.hidden = board.hidden
    <2>1. board \in Boards BY DEF IInv, Shape, TypeOK
    <2> QED BY <2>1 DEF Boards, Scan, Draw, Environment, engine
  <1>2. Consistent(board') BY <1>1 DEF LInv, Consistent
  <1>3. Taken
    <2>1. UNCHANGED Life!lifeVars BY <1>1, LifeStays
    <2>2. Drains BY <1>1 DEF Drains
    <2> QED BY <2>1, <2>2 DEF Taken
  <1>4. ASSUME pc # "idle" PROVE Queued' /\ Recalled'
    <2>1. Queued /\ Recalled BY <1>4 DEF LInv
    <2>2. \A c : Residents(board', c) = Residents(board, c) BY <1>1 DEF Residents
    <2>3. \A v : Fits(board', pc, v) <=> Fits(board, pc, v) BY <1>1 DEF Fits
    <2>4. \A v : Prepared(board', hand, v) <=> Prepared(board, hand, v) BY <1>1, <2>2 DEF Prepared
    <2>5. \A i \in 1..Len(queue) : Fits(board', pc, queue[i]) BY <2>1, <2>3 DEF Queued
    <2>6. Ordered(board', hand, queue) BY <2>1, <2>4 DEF Queued, Ordered
    <2>7. Drained(board', queue)
      <3>1. \A c : DpniRows(board', c) = DpniRows(board, c) BY <2>2 DEF DpniRows
      <3> QED BY <1>1, <2>1, <3>1 DEF Queued, Drained
    <2>8. Recalled' BY <1>1, <2>1 DEF Recalled, MadeFirst, HeldRecorded, OnRecord
    <2> QED BY <1>1, <2>5, <2>6, <2>7, <2>8 DEF Queued
  <1> QED BY <1>1, <1>2, <1>3, <1>4 DEF LInv

\* What an edit does to one container: it keeps the board consistent, and the
\* lifecycle knows it.
Edit == Consistent(board') /\ [Life!LifeNext]_(Life!lifeVars)

LEMMA NamedEdit ==
  ASSUME board \in Boards, Consistent(board), NEW c \in board.live, NEW n \in Names,
         board' = [board EXCEPT !.name[c] = n]
  PROVE  Edit
  <1>1. /\ board'.live = board.live /\ board'.home = board.home /\ board'.locked = board.locked
        /\ board'.plugged = board.plugged /\ board'.driver = board.driver
    BY DEF Boards
  <1>2. Consistent(board') BY DEF Boards, Consistent
  <1> QED BY <1>1, <1>2, LifeStays DEF Edit

LEMMA GoneEdit ==
  ASSUME board \in Boards, Consistent(board), NEW o \in Objs, board.home[o] \in Open,
         board' = Gone(board, {o})
  PROVE  Edit
  <1>1. /\ Consistent(board') /\ board'.live = board.live
        /\ board'.home = [x \in Objs |-> IF x \in {o} THEN None ELSE board.home[x]]
        /\ board'.locked = board.locked /\ board'.plugged = board.plugged \ {o}
        /\ board'.driver = board.driver
    <2>1. {o} \in SUBSET Objs OBVIOUS
    <2> QED BY <2>1, BoardAssumption DEF Gone, Consistent, Boards, Objs
  <1>2. board.home[o] # None /\ board.home[o] \notin board.locked
    BY BoardAssumption DEF Open, Boards
  <1>3. Life!LifeNext BY <1>1, <1>2, LifeWithdraw
  <1> QED BY <1>1, <1>3 DEF Edit

LEMMA AddedEdit ==
  ASSUME board \in Boards, Consistent(board), NEW o \in Objs, board.home[o] = None,
         NEW c \in Open, NEW n \in Names,
         board' = PluggedIn(Stamped(Minted(board, o, c), o, n), o)
  PROVE  Edit
  <1>1. c \in board.live /\ c \in Dprcs /\ c # None /\ c \in board.live \ board.locked
    BY BoardAssumption DEF Open, Boards
  <1> DEFINE m == Minted(board, o, c)
  <1>2. /\ m \in Boards /\ Consistent(m) /\ m.live = board.live
        /\ m.home = [board.home EXCEPT ![o] = c]
        /\ m.locked = board.locked /\ m.plugged = board.plugged /\ m.driver = board.driver
    <2>1. m \in Boards BY <1>1 DEF Minted, Boards
    <2> QED BY <1>1, <2>1, MintedLife
  <1> HIDE DEF m
  <1>3. m.home[o] # None BY <1>1, <1>2 DEF Boards
  <1> DEFINE t == Stamped(m, o, n)
  <1>4. t \in Boards /\ Consistent(t) /\ Stays(m, t) /\ t.driver = m.driver
    <2>1. t \in Boards BY <1>2 DEF Stamped, Boards
    <2> QED BY <1>2, <1>3, <2>1, StampedLife
  <1> HIDE DEF t
  <1>5. board' = PluggedIn(t, o) BY DEF t, m
  <1>6. /\ Consistent(board') /\ board'.live = t.live /\ board'.home = t.home
        /\ board'.locked = t.locked /\ board'.plugged = t.plugged \cup {o}
        /\ board'.driver = t.driver
    <2>1. t.home[o] # None BY <1>3, <1>4 DEF Stays
    <2> QED BY <1>4, <1>5, <2>1, PluggedLife
  <1>7. Life!LifeNext
    <2>1. /\ board'.home = [board.home EXCEPT ![o] = c]
          /\ board'.plugged = board.plugged \cup {o} /\ board'.live = board.live
          /\ board'.locked = board.locked /\ board'.driver = board.driver
      BY <1>2, <1>4, <1>6 DEF Stays
    <2> QED BY <1>1, <2>1, LifeResident
  <1> QED BY <1>6, <1>7 DEF Edit

LEMMA LockEdit ==
  ASSUME board \in Boards, Consistent(board), NEW c \in board.live,
         \/ board' = [board EXCEPT !.locked = @ \cup {c}]
         \/ board' = [board EXCEPT !.locked = @ \ {c}]
  PROVE  Edit
  <1>1. /\ board'.live = board.live /\ board'.home = board.home
        /\ board'.plugged = board.plugged /\ board'.driver = board.driver
        /\ board'.locked \in {board.locked \cup {c}, board.locked \ {c}}
    BY DEF Boards
  <1>2. Consistent(board') BY DEF Boards, Consistent
  <1> QED BY <1>1, <1>2, LifeLock DEF Edit

LEMMA LetGoEdit ==
  ASSUME board \in Boards, Consistent(board), NEW c \in board.live, board' = Unbound(board, c)
  PROVE  Edit
  <1>1. c \in Dprcs BY DEF Boards
  <1>2. /\ Consistent(board') /\ Stays(board, board')
        /\ board'.driver = [board.driver EXCEPT ![c] = "none"]
    BY <1>1, UnboundLife
  <1>3. [Life!LifeNext]_(Life!lifeVars) BY <1>1, <1>2, UnboundTaken
  <1> QED BY <1>2, <1>3 DEF Edit

LEMMA EditLife ==
  ASSUME IInv, LInv, OperatorEdits
  PROVE  LInv' /\ Taken
  <1>1. pc = "idle" /\ pc' = "idle" /\ board' \in Edited BY DEF OperatorEdits, Environment
  <1>2. board \in Boards /\ Consistent(board) BY DEF IInv, Shape, TypeOK, LInv
  <1>3. Edit
    <2>1. (\E c \in board.live, n \in Names : board' = [board EXCEPT !.name[c] = n]) => Edit
      BY <1>2, NamedEdit
    <2>2. (\E o \in Objs : board.home[o] \in Open /\ board' = Gone(board, {o})) => Edit
      BY <1>2, GoneEdit
    <2>3. (\E o \in Objs, c \in Open, n \in Names : /\ board.home[o] = None
             /\ board' = PluggedIn(Stamped(Minted(board, o, c), o, n), o)) => Edit
      BY <1>2, AddedEdit
    <2>4. (\E c \in Open : board' = [board EXCEPT !.locked = @ \cup {c}]) => Edit
      BY <1>2, LockEdit DEF Open
    <2>5. (\E c \in board.locked : board' = [board EXCEPT !.locked = @ \ {c}]) => Edit
      <3>1. board.locked \subseteq board.live BY <1>2 DEF Consistent
      <3> QED BY <1>2, <3>1, LockEdit
    <2>6. (\E c \in board.live : board' = Unbound(board, c)) => Edit BY <1>2, LetGoEdit
    <2> QED BY <1>1, <2>1, <2>2, <2>3, <2>4, <2>5, <2>6, EditedIs
  <1>4. Drains BY <1>1 DEF Drains
  <1> QED BY <1>1, <1>3, <1>4 DEF Edit, LInv, Taken

(* The lifecycle. *)

LEMMA LifeStarted == Init => LInv /\ Life!LifeInit
  <1> SUFFICES ASSUME Init PROVE LInv /\ Life!LifeInit OBVIOUS
  <1>1. board \in Boards /\ Consistent(board) /\ pc = "idle" BY RunAssumption DEF Init
  <1>2. \A c \in Dprcs : PhaseOf(c) \in Life!Phases /\ Residents(board, c) \in SUBSET Objs
    BY DEF PhaseOf, Residents, Life!Phases
  <1>3. Life!LifeTypeOK BY <1>1, <1>2 DEF Life!LifeTypeOK, Boards
  <1>4. \A c \in Dprcs : PhaseOf(c) = "created" <=>
          PhaseOf(c) \in {"created", "populated"} /\ Residents(board, c) = {}
    BY DEF PhaseOf
  <1>5. Life!LifeInit BY <1>3, <1>4 DEF Life!LifeInit, Life!Settled
  <1> QED BY <1>1, <1>5 DEF LInv

LEMMA LifeStep == IInv /\ LInv /\ [Next]_vars => LInv' /\ Taken
  <1> SUFFICES ASSUME IInv, LInv, [Next]_vars PROVE LInv' /\ Taken OBVIOUS
  <1>1. CASE UNCHANGED vars
    <2>1. UNCHANGED <<given, board, pc, queue, hand, journal, unreversed>> BY <1>1 DEF vars
    <2>2. Queued' <=> Queued BY <2>1 DEF Queued, Ordered, Drained
    <2>3. Recalled' <=> Recalled BY <2>1 DEF Recalled, MadeFirst, HeldRecorded, OnRecord
    <2> QED BY <2>1, <2>2, <2>3, StillTaken DEF LInv
  <1>2. CASE Next
    <2>0. UNCHANGED given BY <1>2 DEF Next
    <2>1. CASE Start BY <2>1, StartLife
    <2>2. CASE Phases BY <2>0, <2>2, PlansLife, EndsLife, PhaseLife DEF Phases
    <2>3. CASE Populating
      BY <2>0, <2>3, SpawnLife, ReadLife, MintLife, FinishLife, ConnectLife, ShrinkLife,
         BelowLife, EndsLife, BindLife, LetGoLife DEF Populating
    <2>4. CASE Pruning
      BY <2>0, <2>4, LetGoLife, DrainLife, DestroyLife, GivenUpLife, EndsLife DEF Pruning
    <2>5. CASE Refused \/ VerbFails \/ ErrsAfterEffect BY <2>5, StopLife, ErrLife
    <2>6. CASE Unwind BY <2>6, UnwoundLife, UnreversedLife, EndsLife DEF Unwind
    <2>7. CASE Killed BY <2>7, EndsLife
    <2>8. CASE (\E c \in Dprcs : Scan(c)) \/ (\E o \in Pool : Draw(o)) BY <2>8, AroundLife
    <2>9. CASE OperatorEdits BY <2>9, EditLife
    <2> QED BY <1>2, <2>1, <2>2, <2>3, <2>4, <2>5, <2>6, <2>7, <2>8, <2>9 DEF Next, Tool
  <1> QED BY <1>1, <1>2

\* Whatever a run issues, and wherever it fails, is killed or is unwound, each
\* container goes through the lifecycle of families/dprc.rs, but for the one an
\* unwind destroys although its bind was not undone; and a prune destroys a
\* container only after its consumer let go and every dpni in it was disconnected
\* (engine.rs release_child_bindings, dispatch_candidate_teardown; rollback_exec.rs
\* unwind_one).
THEOREM LifeTaken == Spec => LifeKept
  <1>1. Init => IInv /\ LInv /\ Life!LifeInit BY Started, LifeStarted
  <1>2. IInv /\ LInv /\ [Next]_vars => (IInv /\ LInv)' BY Inductive, LifeStep
  <1>3. IInv /\ LInv /\ [Next]_vars => [Life!LifeNext \/ Forced]_(Life!lifeVars)
    BY LifeStep DEF Taken
  <1>4. IInv /\ LInv /\ [Next]_vars =>
          [\A c \in board.live \ board'.live :
             pc = "prune" => /\ board.driver[c] = "none"
                             /\ \A d \in DpniRows(board, c) : board.edge[d] = None]_vars
    BY LifeStep DEF Taken, Drains
  <1> QED BY <1>1, <1>2, <1>3, <1>4, PTL DEF Spec, LifeKept, ImplementsLife, NoDangling

-----------------------------------------------------------------------------
(* What a run that ends converged leaves behind is promised verb by verb: the *)
(* invariant says what the verbs still owed will do to each tenant.           *)

\* Verbs by what they do to a container or a port.
On(op, c) == {v \in Verbs : v.op = op /\ v.on = c}
Conns(c, p) == {v \in Verbs : v.op = "connect" /\ v.on = c /\ v.arg = p}
Plugs(p) == {v \in Verbs : v.op = "connect" /\ v.arg = p}
Recounts(c) == {v \in Verbs : v.op \in {"stamp", "reclaim", "pruneForeign"} /\ v.on = c}

\* Is one of S owed before the verb at i, and is one owed at all.
Ahead(q, i, S) == \E j \in 1..(i-1) : q[j] \in S
Owing(q, S) == \E j \in 1..Len(q) : q[j] \in S

\* The container a tenant is matched to, and the ports of a container that bear a name.
Heir(b, c) == c \in b.live /\ b.name[c] \in Tenants /\ c = Handle(b, b.name[c])
Ported(b, c, p) == {d \in DpniRows(b, c) : b.tag[d] = p}

\* What comes after the verb at i.
Ended(q, i) == i < Len(q) => ~NeedsHand(q[i+1])
Wiring(q, i, c, p) == i < Len(q) /\ q[i+1] = Verb("connect", c, p, None) /\ Ended(q, i + 1)
Plugging(q, i, c, p) == i < Len(q) /\ q[i+1] = Verb("plug", c, p, None) /\ Wiring(q, i + 1, c, p)
Stamping(q, i, c, p) == i < Len(q) /\ q[i+1] = Verb("stamp", c, p, None) /\ Plugging(q, i + 1, c, p)
Naming(q, i, c, t) == i < Len(q) /\ q[i+1] = Verb("stamp", c, t, None) /\ Ended(q, i + 1)
Adding(q, i, c, t) == i < Len(q) /\ q[i+1] = Verb("plug", c, t, None) /\ Naming(q, i + 1, c, t)

\* A creation is followed by the verbs on the object created, and by no others.
Windows(q) ==
  \A i \in 1..Len(q) :
    /\ q[i].op = "mintDpni" => Stamping(q, i, q[i].on, q[i].arg)
    /\ q[i].op = "mintPool" => Adding(q, i, q[i].on, q[i].arg)

\* A verb of a population is for the container of a tenant, as its regime has it.
Apt(b, v) ==
  /\ v.op \in PhaseOps("population") \ {"belowDraw"}
  /\ v.op # "done" => Heir(b, v.on)
  /\ v.op = "mintDpni" => v.arg \in Peers
  /\ v.op = "judge" => v.arg = b.name[v.on]
  /\ v.op = "kernelBind" => Regime[b.name[v.on]] = "kernel"
  /\ v.op \in {"override", "bind", "unbind"} => Regime[b.name[v.on]] = "vfio"

\* A connect of a port that stands names the one its tenant is matched to, and no
\* such connect is owed next to a creation of the same port.
Aims(v) == v.op = "connect" /\ v.obj # None
Aimed(b, v) == Aims(v) => PortRow(b, v.on, v.arg) = v.obj
Apart(u, v) == u.op = "mintDpni" /\ Aims(v) => u.on # v.on \/ u.arg # v.arg

\* No port bears the name, or its dpmac is taken: a port that is made under a name
\* is then the only one of it, or the connect that follows is refused.
Unmet(b, c, p) == Ported(b, c, p) = {} \/ Wired(b, p)
Fresh(b, q) ==
  \A i \in 1..Len(q) : q[i].op = "mintDpni" =>
     Unmet(b, q[i].on, q[i].arg) \/ Ahead(q, i, Plugs(q[i].arg))
\* A dpni made for a child that is to be bound is made before the bind.
Early(b, q) ==
  \A i \in 1..Len(q) : q[i].op = "mintDpni" /\ Regime[b.name[q[i].on]] = "vfio" =>
     \E j \in (i+1)..Len(q) : q[j] \in On("bind", q[i].on)

\* What is known of the object in hand when the next verb is on it.
InHand(b, h, q) ==
  NeedsHand(q[1]) =>
    LET c == q[1].on
        p == q[1].arg
    IN /\ h \in Objs /\ b.home[h] = c
       /\ h \in Pool => Adding(q, 0, c, p) \/ Naming(q, 0, c, p)
       /\ h \in Dpnis =>
            \/ /\ Stamping(q, 0, c, p) /\ p \in Peers
               /\ b.tag[h] = None /\ Unmet(b, c, p)
               /\ \A k \in 1..Len(q) : Aims(q[k]) => q[k].on # c \/ q[k].arg # p
            \/ /\ Plugging(q, 0, c, p) \/ Wiring(q, 0, c, p)
               /\ b.tag[h] = p
               /\ Ported(b, c, p) = {h} \/ Wired(b, p)

\* A bind the kernel will refuse: the override is not set, or is cleared right before.
\* This is the rebind of engine.rs; a tenant under it is never reported converged.
Barred(b, q, c) ==
  \A i \in 1..Len(q) : q[i] \in On("bind", c) =>
    IF i = 1 THEN b.over[c] # "vfio" ELSE q[i-1] \in On("unbind", c)
Doomed(b, q, c) ==
  /\ Owing(q, On("bind", c))
  /\ Barred(b, q, c) \/ (b.driver[c] = "vfio" /\ ~Owing(q, On("unbind", c)))

\* The binds of a container and the end of the run: at each of them the tenant is
\* populated, by what stands on the board or by what comes before, and read back after
\* the last verb that counts its companions.
Ends(q, c) == {i \in 1..Len(q) : q[i] \in On("bind", c)} \cup {Len(q) + 1}
Assured(b, q, t, c) ==
  /\ ~Owing(q, On("unbind", c))
  /\ \A j \in 1..Len(q) : q[j] \in Recounts(c) =>
       \E k \in (j+1)..Len(q) : /\ q[k] \in On("judge", c)
                                /\ \A i \in j..k : q[i] \notin On("bind", c)
  /\ \A i \in Ends(q, c) :
       /\ \A p \in ToSet(Ports[t]) : Ahead(q, i, Conns(c, p)) \/ ~NeedsConnect(b, c, p)
       /\ Ahead(q, i, On("judge", c)) \/ CensusConverged(b, t, c)
  /\ Regime[t] = "vfio" => b.driver[c] = "vfio" \/ Owing(q, On("bind", c))

\* A port that a scan of its container shows, or one the run found otherwise, or one
\* of a container that no verdict will be given on.
Seen(b, d) == d \in b.plugged \ b.hidden
Inherited == {d \in Dpnis : LeftBehind(d)}
Sighted(b, h, q, c, left) ==
  \A d \in DpniRows(b, c) :
    \/ Doomed(b, q, c) \/ Seen(b, d) \/ (d \in left /\ d # h)
    \/ d = h /\ q[1].op \in {"stamp", "plug"} /\ d \notin b.hidden

\* Every tenant has its container; a phase ends with its one closing verb.
Manned(b) == \A t \in Tenants : Handle(b, t) # None
Closed(q, op) == \A i \in 1..Len(q) : q[i].op = op <=> i = Len(q)

\* What the verbs owed are, what they promise of each tenant, and both together.
Laid(b, h, q) ==
  /\ \A i \in 1..Len(q) : Apt(b, q[i]) /\ Aimed(b, q[i])
  /\ \A i, k \in 1..Len(q) : Apart(q[i], q[k])
  /\ Closed(q, "done") /\ Windows(q) /\ Fresh(b, q) /\ Early(b, q) /\ InHand(b, h, q)

Willed(b, q, t, c) ==
  /\ Doomed(b, q, c) \/ Assured(b, q, t, c)
  /\ Regime[t] = "kernel" => b.driver[c] # "vfio"

Underway(b, h, q) ==
  /\ Manned(b) /\ Laid(b, h, q)
  /\ \A t \in Tenants : /\ Willed(b, q, t, Handle(b, t))
                        /\ Sighted(b, h, q, Handle(b, t), Inherited)

\* What is left of a population that met a surplus it cannot shrink.
Stuck(q) ==
  Closed(q, "belowDraw") /\ \A i \in 1..Len(q) : q[i].op \in {"pruneForeign", "belowDraw"}

\* The run has made no object yet, and plugged or hidden none.
AsFound == /\ board.home = before.home /\ board.plugged = before.plugged
           /\ board.hidden = before.hidden /\ made \cap Objs = {}

\* Containers are being made: each tenant has one or its verdict is owed.
Raised(b, q) ==
  Closed(q, "done") /\ \A t \in Tenants : Handle(b, t) # None \/ \E i \in 1..Len(q) : q[i].op = "verdict" /\ q[i].arg = t

\* What a converged verdict promises, and the verbs of a prune against it.
Complete(b) ==
  \A t \in Tenants : /\ Served(b, t)
                     /\ \A d \in DpniRows(b, Handle(b, t)) : Seen(b, d) \/ d \in Inherited
Aside(b, v) ==
  v.op # "pruneVerdict" => /\ v.on \in Dprcs /\ b.name[v.on] \notin Tenants
                           /\ v.op \in {"sever", "unplug"} => v.obj \in Objs /\ b.home[v.obj] \in {v.on, None}

\* Where a run stands on the way to a converged verdict.
SInv ==
  /\ pc \in {"containers", "population", "prune"} => outcome = "running"
  /\ pc = "unwind" => outcome = "failed"
  /\ pc = "containers" => AsFound /\ (queue # << >> => Raised(board, queue))
  /\ pc = "population" /\ queue = << >> => AsFound /\ Manned(board)
  /\ pc = "population" /\ queue # << >> => Stuck(queue) \/ Underway(board, hand, queue)
  /\ pc = "prune" => Complete(board) /\ \A i \in 1..Len(queue) : Aside(board, queue[i])

(* One verb less: what is said of the verbs owed, and of each tenant, when the*)
(* head of the queue is done.                                                 *)

\* What is ahead of a verb, and what is owed, once the head is gone.
LEMMA AheadTail ==
  ASSUME NEW q \in Seq(Verbs), q # << >>, NEW S
  PROVE  /\ \A i \in 1..Len(q) : Ahead(q, i + 1, S) => q[1] \in S \/ Ahead(Tail(q), i, S)
         /\ Owing(q, S) => q[1] \in S \/ Owing(Tail(q), S)
         /\ Owing(Tail(q), S) => Owing(q, S)
  <1> DEFINE r == Tail(q)
             m == Len(q) - 1
  <1>1. /\ Len(q) \in Nat /\ Len(q) # 0 /\ Len(r) = m /\ m \in Nat
        /\ \A i \in 1..m : r[i] = q[i+1] /\ i + 1 \in 1..Len(q)
    BY Behead
  <1> HIDE DEF r
  <1>2. \A j \in 1..Len(q) : j = 1 \/ (j - 1 \in 1..m /\ q[j] = r[j-1]) BY <1>1
  <1>3. ASSUME NEW i \in 1..Len(q), Ahead(q, i + 1, S), q[1] \notin S PROVE Ahead(r, i, S)
    <2>1. PICK j \in 1..i : q[j] \in S BY <1>3 DEF Ahead
    <2>2. j - 1 \in 1..(i-1) /\ q[j] = r[j-1] BY <1>1, <1>2, <1>3, <2>1
    <2> QED BY <2>1, <2>2 DEF Ahead
  <1>4. Owing(q, S) => q[1] \in S \/ Owing(r, S) BY <1>1, <1>2 DEF Owing
  <1>5. Owing(r, S) => Owing(q, S) BY <1>1 DEF Owing
  <1> QED BY <1>3, <1>4, <1>5 DEF r

\* What comes after a verb still does.
LEMMA Advanced ==
  ASSUME NEW q \in Seq(Verbs), q # << >>, NEW i \in Nat, i < Len(q), NEW c, NEW p
  PROVE  /\ Ended(q, i + 1) => Ended(Tail(q), i)
         /\ Wiring(q, i + 1, c, p) => Wiring(Tail(q), i, c, p)
         /\ Plugging(q, i + 1, c, p) => Plugging(Tail(q), i, c, p)
         /\ Stamping(q, i + 1, c, p) => Stamping(Tail(q), i, c, p)
         /\ Naming(q, i + 1, c, p) => Naming(Tail(q), i, c, p)
         /\ Adding(q, i + 1, c, p) => Adding(Tail(q), i, c, p)
  <1> DEFINE r == Tail(q)
             m == Len(q) - 1
  <1>1. /\ Len(q) \in Nat /\ Len(r) = m /\ m \in Nat
        /\ \A k \in 1..m : r[k] = q[k+1]
    BY Behead
  <1> HIDE DEF r
  <1>2. \A k \in Nat : k + 1 < Len(q) => k < m /\ r[k+1] = q[(k+1)+1] BY <1>1
  <1>3. \A k \in Nat : k + 1 < Len(q) <=> k < m BY <1>1
  <1>4. \A k \in Nat : Ended(q, k + 1) => Ended(r, k) BY <1>1, <1>2, <1>3 DEF Ended
  <1>5. \A k \in Nat : k + 1 \in Nat OBVIOUS
  <1>6. \A k \in Nat : Wiring(q, k + 1, c, p) => Wiring(r, k, c, p)
    <2> TAKE k \in Nat
    <2>1. Ended(q, (k + 1) + 1) => Ended(r, k + 1) BY <1>4, <1>5
    <2> QED BY <1>1, <1>2, <2>1 DEF Wiring
  <1>7. \A k \in Nat : Plugging(q, k + 1, c, p) => Plugging(r, k, c, p)
    <2> TAKE k \in Nat
    <2>1. Wiring(q, (k + 1) + 1, c, p) => Wiring(r, k + 1, c, p) BY <1>5, <1>6
    <2> QED BY <1>1, <1>2, <2>1 DEF Plugging
  <1>8. Stamping(q, i + 1, c, p) => Stamping(r, i, c, p)
    <2>1. Plugging(q, (i + 1) + 1, c, p) => Plugging(r, i + 1, c, p) BY <1>5, <1>7
    <2> QED BY <1>1, <1>2, <2>1 DEF Stamping
  <1>9. \A k \in Nat : Naming(q, k + 1, c, p) => Naming(r, k, c, p)
    <2> TAKE k \in Nat
    <2>1. Ended(q, (k + 1) + 1) => Ended(r, k + 1) BY <1>4, <1>5
    <2> QED BY <1>1, <1>2, <2>1 DEF Naming
  <1>10. Adding(q, i + 1, c, p) => Adding(r, i, c, p)
    <2>1. Naming(q, (i + 1) + 1, c, p) => Naming(r, i + 1, c, p) BY <1>5, <1>9
    <2> QED BY <1>1, <1>2, <2>1 DEF Adding
  <1> QED BY <1>4, <1>6, <1>7, <1>8, <1>9, <1>10 DEF r

\* The closing verb stays the last one.
LEMMA ClosedTail ==
  ASSUME NEW q \in Seq(Verbs), q # << >>, NEW op, Closed(q, op)
  PROVE  /\ q[1].op # op => Tail(q) # << >> /\ Closed(Tail(q), op)
         /\ q[1].op = op => Len(q) = 1
  <1> DEFINE r == Tail(q)
             m == Len(q) - 1
  <1>1. /\ r \in Seq(Verbs) /\ Len(q) \in Nat /\ Len(q) # 0 /\ Len(r) = m /\ 1 \in 1..Len(q)
        /\ \A i \in 1..m : r[i] = q[i+1] /\ i + 1 \in 1..Len(q)
    BY Behead
  <1> HIDE DEF r
  <1>2. ASSUME q[1].op # op PROVE r # << >> /\ Closed(r, op)
    <2>1. m \in Nat /\ m # 0 BY <1>1, <1>2 DEF Closed
    <2>2. \A i \in 1..m : i + 1 = Len(q) <=> i = m BY <1>1
    <2> QED BY <1>1, <2>1, <2>2 DEF Closed
  <1>3. q[1].op = op => Len(q) = 1 BY <1>1 DEF Closed
  <1> QED BY <1>2, <1>3 DEF r

\* The list itself loses nothing with its head.
LEMMA AptStill ==
  ASSUME NEW b, NEW n, NEW v, n.live = b.live, n.name = b.name, Apt(b, v)
  PROVE  Apt(n, v)
  BY DEF Apt, Heir, Handle

\* Nor do the pairs that a plan keeps apart.
LEMMA ListTail ==
  ASSUME NEW b, NEW n, NEW q \in Seq(Verbs), q # << >>, n.live = b.live, n.name = b.name
  PROVE  /\ (\A i \in 1..Len(q) : Apt(b, q[i])) => \A i \in 1..Len(Tail(q)) : Apt(n, Tail(q)[i])
         /\ (\A i, k \in 1..Len(q) : Apart(q[i], q[k])) =>
              \A i, k \in 1..Len(Tail(q)) : Apart(Tail(q)[i], Tail(q)[k])
         /\ Windows(q) => Windows(Tail(q))
         /\ Early(b, q) => Early(n, Tail(q))
  <1> DEFINE r == Tail(q)
             m == Len(q) - 1
  <1>1. /\ Len(q) \in Nat /\ Len(q) # 0 /\ Len(r) = m /\ m \in Nat
        /\ \A i \in 1..m : r[i] = q[i+1] /\ i + 1 \in 1..Len(q) /\ i \in Nat /\ i < Len(q)
    BY Behead
  <1>0. \A c, p : \A i \in 1..m : /\ Stamping(q, i + 1, c, p) => Stamping(r, i, c, p)
                                  /\ Adding(q, i + 1, c, p) => Adding(r, i, c, p)
    BY <1>1, Advanced
  <1> HIDE DEF r
  <1>2. ASSUME \A i \in 1..Len(q) : Apt(b, q[i]) PROVE \A i \in 1..m : Apt(n, r[i])
    BY <1>1, <1>2, AptStill
  <1>3. (\A i, k \in 1..Len(q) : Apart(q[i], q[k])) => \A i, k \in 1..m : Apart(r[i], r[k]) BY <1>1
  <1>4. Windows(q) => Windows(r) BY <1>0, <1>1 DEF Windows
  <1>5. ASSUME Early(b, q) PROVE Early(n, r)
    <2> SUFFICES ASSUME NEW i \in 1..m, r[i].op = "mintDpni", Regime[n.name[r[i].on]] = "vfio"
                 PROVE  \E j \in (i+1)..m : r[j] \in On("bind", r[i].on)
      BY <1>1 DEF Early
    <2>1. PICK j \in ((i+1)+1)..Len(q) : q[j] \in On("bind", q[i+1].on) BY <1>1, <1>5 DEF Early
    <2>2. j - 1 \in (i+1)..m /\ j - 1 \in 1..m /\ (j - 1) + 1 = j BY <1>1, <2>1
    <2> QED BY <1>1, <2>1, <2>2
  <1> QED BY <1>1, <1>2, <1>3, <1>4, <1>5 DEF r

\* A bind that cannot go through still cannot after a verb that neither sets the
\* override nor lets the container go.
LEMMA DoomedTail ==
  ASSUME NEW b, NEW n, NEW q \in Seq(Verbs), q # << >>, NEW c, Doomed(b, q, c),
         q[1] \notin On("bind", c),
         b.driver[c] = "vfio" /\ q[1] \notin On("unbind", c) => n.driver[c] = "vfio",
         q[1] \in On("unbind", c) => n.over[c] # "vfio"
  PROVE  Doomed(n, Tail(q), c)
  <1> DEFINE r == Tail(q)
             m == Len(q) - 1
  <1>1. /\ Len(q) \in Nat /\ Len(q) # 0 /\ Len(r) = m /\ m \in Nat /\ 1 \in 1..Len(q)
        /\ \A i \in 1..m : r[i] = q[i+1] /\ i + 1 \in 1..Len(q) /\ i + 1 # 1 /\ (i + 1) - 1 = i
    BY Behead
  <1>2. /\ Owing(r, On("bind", c))
        /\ ~Owing(q, On("unbind", c)) => ~Owing(r, On("unbind", c)) /\ q[1] \notin On("unbind", c)
    BY <1>1, AheadTail DEF Doomed, Owing
  <1> HIDE DEF r
  <1>3. CASE Barred(b, q, c)
    <2>1. ASSUME NEW i \in 1..m, r[i] \in On("bind", c)
          PROVE  IF i = 1 THEN n.over[c] # "vfio" ELSE r[i-1] \in On("unbind", c)
      <3>1. q[i] \in On("unbind", c) BY <1>1, <1>3, <2>1 DEF Barred
      <3>2. i # 1 => i - 1 \in 1..m /\ (i - 1) + 1 = i BY <1>1
      <3> QED BY <1>1, <3>1, <3>2
    <2>2. Barred(n, r, c) BY <1>1, <2>1 DEF Barred
    <2> QED BY <1>2, <2>2 DEF Doomed, r
  <1>4. CASE b.driver[c] = "vfio" /\ ~Owing(q, On("unbind", c)) BY <1>2, <1>4 DEF Doomed, r
  <1> QED BY <1>3, <1>4 DEF Doomed

\* A container whose bind cannot go through is not bound.
LEMMA DoomedHead ==
  ASSUME NEW b, NEW q \in Seq(Verbs), q # << >>, NEW c, Doomed(b, q, c),
         q[1] \in On("bind", c)
  PROVE  b.over[c] # "vfio" \/ b.driver[c] = "vfio"
  <1>1. 1 \in 1..Len(q) BY Behead
  <1> QED BY <1>1 DEF Doomed, Barred

\* A tenant that is being populated still is after a verb that undoes nothing.
LEMMA AssuredTail ==
  ASSUME NEW b, NEW n, NEW q \in Seq(Verbs), q # << >>, NEW t, NEW c, Assured(b, q, t, c),
         \A p \in ToSet(Ports[t]) : ~NeedsConnect(b, c, p) \/ q[1] \in Conns(c, p) =>
            \/ ~NeedsConnect(n, c, p)
            \/ 2 < Len(q) /\ q[3] \in Conns(c, p) /\ q[2] \notin On("bind", c),
         CensusConverged(b, t, c) \/ q[1] \in On("judge", c) =>
            CensusConverged(n, t, c) \/ q[1] \in Recounts(c),
         b.driver[c] = "vfio" /\ q[1] \notin On("unbind", c) => n.driver[c] = "vfio",
         q[1] \in On("bind", c) => n.driver[c] = "vfio"
  PROVE  Assured(n, Tail(q), t, c)
  <1> DEFINE r == Tail(q)
             m == Len(q) - 1
  <1>1. /\ Len(q) \in Nat /\ Len(q) # 0 /\ Len(r) = m /\ m \in Nat /\ 1 \in 1..Len(q)
        /\ \A i \in 1..m : r[i] = q[i+1] /\ i + 1 \in 1..Len(q)
    BY Behead
  <1>2. /\ ~Owing(r, On("unbind", c)) /\ q[1] \notin On("unbind", c)
        /\ Owing(q, On("bind", c)) => q[1] \in On("bind", c) \/ Owing(r, On("bind", c))
    BY <1>1, AheadTail DEF Assured, Owing
  <1>0. \A S : \A i \in 1..Len(q) : Ahead(q, i + 1, S) => q[1] \in S \/ Ahead(r, i, S) BY AheadTail
  <1> HIDE DEF r
  <1>3. ASSUME NEW j \in 1..Len(q), q[j] \in Recounts(c)
        PROVE  \E k \in (j+1)..Len(q) : /\ q[k] \in On("judge", c)
                                        /\ \A i \in j..k : q[i] \notin On("bind", c)
    BY <1>3 DEF Assured
  <1>4. ASSUME NEW j \in 1..m, r[j] \in Recounts(c)
        PROVE  \E k \in (j+1)..m : /\ r[k] \in On("judge", c)
                                   /\ \A i \in j..k : r[i] \notin On("bind", c)
    <2>1. PICK k \in ((j+1)+1)..Len(q) : /\ q[k] \in On("judge", c)
                                         /\ \A i \in (j+1)..k : q[i] \notin On("bind", c)
      BY <1>1, <1>3, <1>4
    <2>2. k - 1 \in (j+1)..m /\ (k - 1) + 1 = k /\ k - 1 \in 1..m BY <1>1, <2>1
    <2>3. \A i \in j..(k-1) : i + 1 \in (j+1)..k /\ i \in 1..m BY <1>1, <2>2
    <2> QED BY <1>1, <2>1, <2>2, <2>3
  <1>5. ASSUME NEW i \in Ends(r, c)
        PROVE  i \in 1..Len(q) /\ i + 1 \in Ends(q, c) /\ (i \in 1..m => q[i+1] \in On("bind", c))
    BY <1>1, <1>5 DEF Ends
  <1>6. ASSUME NEW i \in Ends(r, c), NEW p \in ToSet(Ports[t])
        PROVE  Ahead(r, i, Conns(c, p)) \/ ~NeedsConnect(n, c, p)
    <2>1. Ahead(q, i + 1, Conns(c, p)) \/ ~NeedsConnect(b, c, p) BY <1>5 DEF Assured
    <2>2. CASE Ahead(r, i, Conns(c, p)) BY <2>2
    <2>3. CASE ~NeedsConnect(b, c, p) \/ q[1] \in Conns(c, p)
      <3>1. CASE ~NeedsConnect(n, c, p) BY <3>1
      <3>2. CASE 2 < Len(q) /\ q[3] \in Conns(c, p) /\ q[2] \notin On("bind", c)
        <4>1. q[3] \notin On("bind", c) BY <3>2 DEF Conns, On
        <4>2. i \in 1..m => i # 1 /\ i # 2 BY <1>5, <3>2, <4>1
        <4>3. 2 \in 1..(i-1) /\ r[2] = q[3] BY <1>1, <1>5, <3>2, <4>2
        <4> QED BY <3>2, <4>3 DEF Ahead
      <3> QED BY <2>3, <3>1, <3>2
    <2> QED BY <1>0, <1>5, <2>1, <2>2, <2>3
  <1>7. ASSUME NEW i \in Ends(r, c)
        PROVE  Ahead(r, i, On("judge", c)) \/ CensusConverged(n, t, c)
    <2>1. Ahead(q, i + 1, On("judge", c)) \/ CensusConverged(b, t, c) BY <1>5 DEF Assured
    <2>2. CASE q[1] \in Recounts(c)
      <3>1. PICK k \in 2..Len(q) : /\ q[k] \in On("judge", c)
                                   /\ \A l \in 1..k : q[l] \notin On("bind", c)
        BY <1>1, <1>3, <2>2
      <3>2. k - 1 \in 1..m /\ r[k-1] = q[k] BY <1>1, <3>1
      <3>3. k - 1 < i
        <4>1. i \in 1..m => ~(i + 1 \in 1..k) BY <1>5, <3>1
        <4> QED BY <1>1, <1>5, <3>1, <4>1
      <3>4. k - 1 \in 1..(i-1) BY <1>5, <3>2, <3>3
      <3> QED BY <3>1, <3>2, <3>4 DEF Ahead
    <2> QED BY <1>0, <1>5, <2>1, <2>2
  <1>8. Regime[t] = "vfio" => n.driver[c] = "vfio" \/ Owing(r, On("bind", c)) BY <1>2 DEF Assured
  <1> QED BY <1>1, <1>2, <1>4, <1>6, <1>7, <1>8 DEF Assured, r

\* A port to be made still has no namesake that could be converged.
LEMMA FreshTail ==
  ASSUME NEW b, NEW n, NEW q \in Seq(Verbs), q # << >>, Fresh(b, q),
         \A i \in 1..Len(q) : Apt(b, q[i]),
         \A c \in b.live, p \in Peers : Unmet(b, c, p) =>
            \/ Unmet(n, c, p)
            \/ 2 < Len(q) /\ q[3] \in Plugs(p) /\ q[2].op # "mintDpni",
         \A p \in Peers : q[1] \in Plugs(p) => Wired(n, p)
  PROVE  Fresh(n, Tail(q))
  <1> DEFINE r == Tail(q)
             m == Len(q) - 1
  <1>1. /\ Len(q) \in Nat /\ Len(q) # 0 /\ Len(r) = m /\ m \in Nat /\ 1 \in 1..Len(q)
        /\ \A i \in 1..m : r[i] = q[i+1] /\ i + 1 \in 1..Len(q) /\ i \in 1..Len(q)
    BY Behead
  <1>0. \A S : \A i \in 1..Len(q) : Ahead(q, i + 1, S) => q[1] \in S \/ Ahead(r, i, S) BY AheadTail
  <1> HIDE DEF r
  <1> SUFFICES ASSUME NEW i \in 1..m, r[i].op = "mintDpni"
               PROVE  Unmet(n, r[i].on, r[i].arg) \/ Ahead(r, i, Plugs(r[i].arg))
    BY <1>1 DEF Fresh, r
  <1>2. PICK c \in b.live, p \in Peers : c = r[i].on /\ p = r[i].arg
    <2>1. Apt(b, r[i]) BY <1>1
    <2>2. r[i].on \in b.live /\ r[i].arg \in Peers BY <2>1 DEF Apt, Heir
    <2> QED BY <2>2
  <1>3. Unmet(b, c, p) \/ Ahead(q, i + 1, Plugs(p)) BY <1>1, <1>2 DEF Fresh
  <1>4. CASE Unmet(b, c, p)
    <2>1. CASE 2 < Len(q) /\ q[3] \in Plugs(p) /\ q[2].op # "mintDpni"
      <3>1. q[3].op = "connect" BY <2>1 DEF Plugs
      <3>2. i # 1 /\ i # 2 BY <1>1, <2>1, <3>1
      <3>3. 2 \in 1..(i-1) /\ 2 \in 1..m /\ r[2] = q[3] BY <1>1, <2>1, <3>2
      <3> QED BY <1>2, <2>1, <3>3 DEF Ahead
    <2> QED BY <1>2, <1>4, <2>1
  <1>5. CASE Ahead(q, i + 1, Plugs(p)) BY <1>0, <1>1, <1>2, <1>5 DEF Unmet
  <1> QED BY <1>3, <1>4, <1>5

\* What a verb v of the population does to a board that the rest of the queue
\* may notice, h being the object in hand.
Carries(b, n, h, v) ==
  /\ n.live = b.live /\ n.name = b.name
  /\ \A c \in b.live, p \in Peers :
       \/ Ported(n, c, p) = Ported(b, c, p)
       \/ v.op = "stamp" /\ h \in Dpnis /\ v.on = c /\ v.arg = p
  /\ \A d \in Dpnis : n.edge[d] = b.edge[d] \/ (v.op = "connect" /\ b.edge[d] = None)
  /\ v.op = "connect" => ~NeedsConnect(n, v.on, v.arg) /\ Wired(n, v.arg)
  /\ \A t \in Tenants, c \in b.live :
       CensusConverged(b, t, c) => CensusConverged(n, t, c) \/ v \in Recounts(c)
  /\ v.op = "judge" => CensusConverged(n, v.arg, v.on)
  /\ \A c \in b.live :
       /\ b.driver[c] = "vfio" /\ v \notin On("unbind", c) => n.driver[c] = "vfio"
       /\ n.driver[c] = "vfio" => b.driver[c] = "vfio" \/ v \in On("bind", c)
  /\ v.op = "bind" =>
       b.over[v.on] = "vfio" /\ b.driver[v.on] = "none" /\ n.driver[v.on] = "vfio"
  /\ v.op = "unbind" => n.over[v.on] # "vfio"

\* A port keeps its name and its edge through a verb that leaves both.
LEMMA RowSame ==
  ASSUME NEW b, NEW n, NEW c, NEW p, Ported(n, c, p) = Ported(b, c, p)
  PROVE  PortRow(n, c, p) = PortRow(b, c, p)
  BY DEF PortRow, Ported

\* What the object in hand is to have next, its edge at the end.
LEMMA StampIs ==
  ASSUME NEW b, NEW h \in Dpnis, NEW q \in Seq(Verbs), q # << >>, InHand(b, h, q),
         q[1].op = "stamp"
  PROVE  LET c == q[1].on
             p == q[1].arg
         IN /\ h \in Objs /\ b.home[h] = c /\ b.tag[h] = None /\ p \in Peers
            /\ Stamping(q, 0, c, p) /\ Unmet(b, c, p)
            /\ 2 < Len(q) /\ q[3] \in Conns(c, p) /\ q[3] \in Plugs(p) /\ q[2].op = "plug"
            /\ \A k \in 1..Len(q) : Aims(q[k]) => q[k].on # c \/ q[k].arg # p
  <1> DEFINE c == q[1].on
             p == q[1].arg
  <1>1. Len(q) \in Nat /\ \A i \in 1..Len(q) : q[i] \in Verbs BY Behead
  <1>2. ~Plugging(q, 0, c, p) /\ ~Wiring(q, 0, c, p) BY DEF Plugging, Wiring, Verb
  <1>3. /\ h \in Objs /\ b.home[h] = c /\ b.tag[h] = None /\ p \in Peers
        /\ Stamping(q, 0, c, p) /\ Unmet(b, c, p)
        /\ \A k \in 1..Len(q) : Aims(q[k]) => q[k].on # c \/ q[k].arg # p
    BY <1>2 DEF InHand, NeedsHand
  <1>4. /\ 2 < Len(q) /\ q[3] = Verb("connect", c, p, None) /\ q[2] = Verb("plug", c, p, None)
    BY <1>1, <1>3 DEF Stamping, Plugging, Wiring
  <1>5. 3 \in 1..Len(q) BY <1>1, <1>4
  <1>6. q[3] \in Verbs BY <1>1, <1>5
  <1>7. q[3].op = "connect" /\ q[3].on = c /\ q[3].arg = p /\ q[2].op = "plug" BY <1>4 DEF Verb
  <1> QED BY <1>3, <1>4, <1>6, <1>7 DEF Conns, Plugs

\* A dpmac that is taken stays so through a population.
LEMMA WiredStays ==
  ASSUME NEW b, NEW n, NEW h, NEW v, Carries(b, n, h, v), NEW p \in Peers, Wired(b, p)
  PROVE  Wired(n, p)
  <1>1. PICK d \in Dpnis : b.edge[d] = p BY DEF Wired
  <1>2. p # None BY BoardAssumption
  <1>3. n.edge[d] = p BY <1>1, <1>2 DEF Carries
  <1> QED BY <1>3 DEF Wired

\* What is wired for a tenant stays wired, but for a port that is made.
LEMMA PortsStay ==
  ASSUME NEW b, NEW n, NEW h, NEW q \in Seq(Verbs), q # << >>,
         Carries(b, n, h, q[1]), InHand(b, h, q), NEW c \in b.live, NEW p \in Peers
  PROVE  /\ ~NeedsConnect(b, c, p) \/ q[1] \in Conns(c, p) =>
              \/ ~NeedsConnect(n, c, p)
              \/ 2 < Len(q) /\ q[3] \in Conns(c, p) /\ q[2] \notin On("bind", c)
         /\ Unmet(b, c, p) =>
              \/ Unmet(n, c, p)
              \/ 2 < Len(q) /\ q[3] \in Plugs(p) /\ q[2].op # "mintDpni"
  <1> DEFINE Stamped1 == q[1].op = "stamp" /\ h \in Dpnis /\ q[1].on = c /\ q[1].arg = p
  <1>1. Stamped1 => /\ 2 < Len(q) /\ q[3] \in Conns(c, p) /\ q[3] \in Plugs(p) /\ q[2].op = "plug"
    BY StampIs
  <1>2. ~Stamped1 => Ported(n, c, p) = Ported(b, c, p) BY DEF Carries
  <1>3. q[1] \in Conns(c, p) => ~NeedsConnect(n, c, p) BY DEF Conns, Carries
  <1>4. ~Stamped1 /\ ~NeedsConnect(b, c, p) => ~NeedsConnect(n, c, p)
    <2> SUFFICES ASSUME ~Stamped1, ~NeedsConnect(b, c, p) PROVE ~NeedsConnect(n, c, p) OBVIOUS
    <2>1. PortRow(n, c, p) = PortRow(b, c, p) BY <1>2, RowSame
    <2>2. PortRow(b, c, p) # None /\ b.edge[PortRow(b, c, p)] = p BY DEF NeedsConnect
    <2>3. PortRow(b, c, p) \in Dpnis BY <2>2, PortRowIs
    <2>4. p # None BY BoardAssumption
    <2>5. n.edge[PortRow(b, c, p)] = p BY <2>2, <2>3, <2>4 DEF Carries
    <2> QED BY <2>1, <2>2, <2>5 DEF NeedsConnect
  <1>5. ~Stamped1 /\ Unmet(b, c, p) => Unmet(n, c, p) BY <1>2, WiredStays DEF Unmet
  <1>6. q[2].op = "plug" => q[2] \notin On("bind", c) /\ q[2].op # "mintDpni" BY DEF On
  <1> QED BY <1>1, <1>3, <1>4, <1>5, <1>6

\* A port that a connect names stays the one its tenant is matched to.
LEMMA AimsStay ==
  ASSUME NEW b, NEW n, NEW h, NEW q \in Seq(Verbs), q # << >>,
         Carries(b, n, h, q[1]), InHand(b, h, q),
         \A i \in 1..Len(q) : Apt(b, q[i]) /\ Aimed(b, q[i]) /\ (Aims(q[i]) => q[i].arg \in Peers),
         NEW i \in 1..Len(q)
  PROVE  Aimed(n, q[i])
  <1> SUFFICES ASSUME Aims(q[i]) PROVE PortRow(n, q[i].on, q[i].arg) = q[i].obj BY DEF Aimed
  <1>1. PortRow(b, q[i].on, q[i].arg) = q[i].obj BY DEF Aimed
  <1>2. PICK c \in b.live, p \in Peers : c = q[i].on /\ p = q[i].arg
    <2>1. Apt(b, q[i]) /\ q[i].op = "connect" BY DEF Aims
    <2>2. q[i].on \in b.live BY <2>1 DEF Apt, Heir
    <2> QED BY <2>2
  <1>3. ~(q[1].op = "stamp" /\ h \in Dpnis /\ q[1].on = c /\ q[1].arg = p) BY <1>2, StampIs
  <1>4. Ported(n, c, p) = Ported(b, c, p) BY <1>3 DEF Carries
  <1> QED BY <1>1, <1>2, <1>4, RowSame

\* What a verb does to the driver of a container, and to a bind that cannot go through.
LEMMA DriversStay ==
  ASSUME NEW b, NEW n, NEW h, NEW q \in Seq(Verbs), q # << >>, NEW c \in b.live,
         Carries(b, n, h, q[1])
  PROVE  /\ q[1] \in On("bind", c) =>
              b.over[c] = "vfio" /\ b.driver[c] = "none" /\ n.driver[c] = "vfio"
         /\ b.driver[c] = "vfio" /\ q[1] \notin On("unbind", c) => n.driver[c] = "vfio"
         /\ n.driver[c] = "vfio" => b.driver[c] = "vfio" \/ q[1] \in On("bind", c)
         /\ q[1] \in On("unbind", c) => n.over[c] # "vfio"
         /\ Doomed(b, q, c) => Doomed(n, Tail(q), c)
  <1>1. /\ q[1] \in On("bind", c) =>
              b.over[c] = "vfio" /\ b.driver[c] = "none" /\ n.driver[c] = "vfio"
        /\ b.driver[c] = "vfio" /\ q[1] \notin On("unbind", c) => n.driver[c] = "vfio"
        /\ n.driver[c] = "vfio" => b.driver[c] = "vfio" \/ q[1] \in On("bind", c)
        /\ q[1] \in On("unbind", c) => n.over[c] # "vfio"
    BY DEF On, Carries
  <1>2. ASSUME Doomed(b, q, c) PROVE Doomed(n, Tail(q), c)
    <2>1. q[1] \notin On("bind", c) BY <1>1, <1>2, DoomedHead
    <2> QED BY <1>1, <1>2, <2>1, DoomedTail
  <1> QED BY <1>1, <1>2

\* What is promised of a tenant, one verb later.
LEMMA WilledTail ==
  ASSUME NEW b, NEW n, NEW h, NEW q \in Seq(Verbs), q # << >>, NEW t \in Tenants, NEW c \in b.live,
         b.name[c] = t, ToSet(Ports[t]) \subseteq Peers,
         Carries(b, n, h, q[1]), InHand(b, h, q), Apt(b, q[1]), Willed(b, q, t, c)
  PROVE  Willed(n, Tail(q), t, c)
  <1>1. q[1] \in On("bind", c) => Regime[t] = "vfio" BY DEF On, Apt
  <1>2. /\ q[1] \in On("bind", c) => n.driver[c] = "vfio"
        /\ b.driver[c] = "vfio" /\ q[1] \notin On("unbind", c) => n.driver[c] = "vfio"
        /\ n.driver[c] = "vfio" => b.driver[c] = "vfio" \/ q[1] \in On("bind", c)
    BY DriversStay
  <1>3. CASE Doomed(b, q, c)
    <2>1. Doomed(n, Tail(q), c) BY <1>3, DriversStay
    <2> QED BY <1>1, <1>2, <2>1 DEF Willed
  <1>4. CASE Assured(b, q, t, c)
    <2>1. \A p \in ToSet(Ports[t]) : ~NeedsConnect(b, c, p) \/ q[1] \in Conns(c, p) =>
            \/ ~NeedsConnect(n, c, p)
            \/ 2 < Len(q) /\ q[3] \in Conns(c, p) /\ q[2] \notin On("bind", c)
      BY PortsStay
    <2>2. CensusConverged(b, t, c) \/ q[1] \in On("judge", c) =>
            CensusConverged(n, t, c) \/ q[1] \in Recounts(c)
      <3>1. q[1] \in On("judge", c) => CensusConverged(n, t, c) BY DEF On, Carries, Apt
      <3> QED BY <3>1 DEF Carries
    <2>3. Assured(n, Tail(q), t, c) BY <1>1, <1>2, <1>4, <2>1, <2>2, AssuredTail
    <2> QED BY <1>1, <1>2, <2>3 DEF Willed
  <1> QED BY <1>3, <1>4 DEF Willed

\* What is owed of a plan, one verb later.
LEMMA Onward ==
  ASSUME NEW b \in Boards, NEW n, NEW h, NEW g, NEW q \in Seq(Verbs), q # << >>,
         \A t \in Tenants : t \in Names /\ Ports[t] \in Seq(Peers),
         \A i \in 1..Len(q) : Aims(q[i]) => q[i].arg \in Peers,
         Underway(b, h, q), Carries(b, n, h, q[1]), q[1].op # "done", InHand(n, g, Tail(q))
  PROVE  /\ Tail(q) # << >> /\ Manned(n) /\ Laid(n, g, Tail(q))
         /\ \A t \in Tenants : /\ Handle(n, t) = Handle(b, t)
                               /\ Willed(n, Tail(q), t, Handle(b, t))
  <1> DEFINE r == Tail(q)
  <1>1. /\ Len(q) \in Nat /\ Len(r) = Len(q) - 1 /\ 1 \in 1..Len(q)
        /\ \A i \in 1..Len(r) : r[i] = q[i+1] /\ i + 1 \in 1..Len(q)
    BY Behead
  <1>2. Manned(b) /\ Laid(b, h, q) /\ \A t \in Tenants : Willed(b, q, t, Handle(b, t))
    BY DEF Underway
  <1>3. n.live = b.live /\ n.name = b.name BY DEF Carries
  <1>4. \A t \in Tenants : Handle(n, t) = Handle(b, t) BY <1>3 DEF Handle
  <1>5. Manned(n) BY <1>2, <1>4 DEF Manned
  <1>6. r # << >> /\ Closed(r, "done") BY <1>2, ClosedTail DEF Laid
  <1>7. /\ \A i \in 1..Len(r) : Apt(n, r[i])
        /\ \A i, k \in 1..Len(r) : Apart(r[i], r[k])
        /\ Windows(r) /\ Early(n, r)
    BY <1>2, <1>3, ListTail DEF Laid
  <1>8. InHand(b, h, q) /\ \A i \in 1..Len(q) : Apt(b, q[i]) /\ Aimed(b, q[i]) BY <1>2 DEF Laid
  <1>9. \A i \in 1..Len(r) : Aimed(n, r[i]) BY <1>1, <1>8, AimsStay
  <1>10. Fresh(n, r)
    <2>1. \A c \in b.live, p \in Peers : Unmet(b, c, p) =>
            \/ Unmet(n, c, p)
            \/ 2 < Len(q) /\ q[3] \in Plugs(p) /\ q[2].op # "mintDpni"
      BY <1>8, PortsStay
    <2>2. \A p \in Peers : q[1] \in Plugs(p) => Wired(n, p) BY DEF Plugs, Carries
    <2>3. Fresh(b, q) BY <1>2 DEF Laid
    <2> QED BY <1>8, <2>1, <2>2, <2>3, FreshTail
  <1>11. Laid(n, g, r) BY <1>6, <1>7, <1>9, <1>10 DEF Laid
  <1>12. ASSUME NEW t \in Tenants PROVE Willed(n, r, t, Handle(b, t))
    <2>1. Handle(b, t) \in b.live /\ b.name[Handle(b, t)] = t BY <1>2, HandleIs DEF Manned
    <2>2. ToSet(Ports[t]) \subseteq Peers BY DEF ToSet
    <2> QED BY <1>1, <1>2, <1>8, <2>1, <2>2, WilledTail
  <1> QED BY <1>4, <1>5, <1>6, <1>11, <1>12

\* What a verb v does to what a scan would show, h and g being the object in hand
\* before and after, L and M the ports left behind before and after.
Shows(b, n, h, g, v, L, M) ==
  /\ g = h \/ (Mints(v) /\ b.home[g] = None)
  /\ \A d \in Dpnis :
       \/ n.home[d] = b.home[d]
       \/ /\ v.op = "mintDpni" /\ d = g /\ b.home[d] = None /\ n.home[d] = v.on
          /\ d \in n.hidden => b.driver[v.on] = "vfio"
  /\ \A d \in Dpnis : b.home[d] # None =>
       (d \in b.plugged => d \in n.plugged) /\ (d \in n.hidden => d \in b.hidden)
  /\ v.op = "plug" /\ h \in Dpnis => h \in n.plugged
  /\ \A d \in L : d \in M \/ d = h

\* What is said of the ports in sight, one verb later.
LEMMA SightTail ==
  ASSUME NEW b, NEW n, NEW h, NEW g, NEW q \in Seq(Verbs), q # << >>, NEW c \in b.live,
         c # None, Regime[b.name[c]] \in {"vfio", "kernel"},
         Apt(b, q[1]), Windows(q), Early(b, q), InHand(b, h, q),
         Carries(b, n, h, q[1]), Willed(b, q, b.name[c], c),
         NEW L, NEW M, Shows(b, n, h, g, q[1], L, M), Sighted(b, h, q, c, L)
  PROVE  Sighted(n, g, Tail(q), c, M)
  <1> DEFINE r == Tail(q)
             m == Len(q) - 1
  <1>1. /\ Len(q) \in Nat /\ Len(q) # 0 /\ Len(r) = m /\ m \in Nat /\ 1 \in 1..Len(q)
        /\ \A i \in 1..m : r[i] = q[i+1] /\ i + 1 \in 1..Len(q)
    BY Behead
  <1>2. Doomed(b, q, c) => Doomed(n, r, c) BY DriversStay
  <1> SUFFICES ASSUME NEW d \in DpniRows(n, c)
               PROVE  \/ Doomed(n, r, c) \/ Seen(n, d) \/ (d \in M /\ d # g)
                      \/ d = g /\ r[1].op \in {"stamp", "plug"} /\ d \notin n.hidden
    BY DEF Sighted
  <1>3. d \in Dpnis /\ n.home[d] = c BY DEF DpniRows, Residents
  <1>4. CASE b.home[d] = c
    <2>1. d \in DpniRows(b, c) BY <1>3, <1>4 DEF DpniRows, Residents, Objs
    <2>2. (d \in b.plugged => d \in n.plugged) /\ (d \in n.hidden => d \in b.hidden)
      BY <1>3, <1>4 DEF Shows
    <2>3. CASE Doomed(b, q, c) BY <1>2, <2>3
    <2>4. CASE Seen(b, d) \/ (d \in L /\ d # h) BY <1>4, <2>2, <2>4 DEF Shows, Seen
    <2>5. CASE d = h /\ q[1].op = "stamp" /\ d \notin b.hidden
      <3>1. 2 < Len(q) /\ q[2].op = "plug" BY <1>3, <2>5, StampIs
      <3>2. r[1].op = "plug" BY <1>1, <3>1
      <3>3. g = h BY <2>5 DEF Shows, Mints
      <3> QED BY <2>2, <2>5, <3>2, <3>3
    <2>6. CASE d = h /\ q[1].op = "plug" /\ d \notin b.hidden BY <1>3, <2>2, <2>6 DEF Shows, Seen
    <2> QED BY <2>1, <2>3, <2>4, <2>5, <2>6 DEF Sighted
  <1>5. CASE b.home[d] # c
    <2>1. /\ q[1].op = "mintDpni" /\ d = g /\ q[1].on = c
          /\ d \in n.hidden => b.driver[c] = "vfio"
      BY <1>3, <1>5 DEF Shows
    <2>2. r[1].op = "stamp"
      <3>1. Stamping(q, 1, q[1].on, q[1].arg) BY <1>1, <2>1 DEF Windows
      <3>2. 1 < Len(q) /\ q[1+1].op = "stamp" BY <3>1 DEF Stamping, Verb
      <3>3. 1 \in 1..m BY <1>1, <3>2
      <3> QED BY <1>1, <3>2, <3>3
    <2>3. CASE b.driver[c] = "vfio"
      <3>1. CASE Doomed(b, q, c) BY <1>2, <3>1
      <3>2. CASE ~Doomed(b, q, c)
        <4>1. ~Owing(q, On("unbind", c)) /\ Regime[b.name[c]] = "vfio"
          BY <2>3, <3>2 DEF Willed, Assured
        <4>2. PICK j \in 2..Len(q) : q[j] \in On("bind", c) BY <1>1, <2>1, <4>1 DEF Early
        <4>3. j - 1 \in 1..m /\ r[j-1] = q[j] BY <1>1, <4>2
        <4>4. Owing(r, On("bind", c)) BY <1>1, <4>2, <4>3 DEF Owing
        <4>5. q[1] \notin On("unbind", c) BY <2>1 DEF On
        <4>6. n.driver[c] = "vfio" /\ ~Owing(r, On("unbind", c))
          BY <2>3, <4>1, <4>5, DriversStay, AheadTail
        <4> QED BY <4>4, <4>6 DEF Doomed
      <3> QED BY <3>1, <3>2
    <2> QED BY <2>1, <2>2, <2>3
  <1> QED BY <1>4, <1>5

\* One verb taken off a population that is under way.
LEMMA UnderwayTail ==
  ASSUME NEW b \in Boards, NEW n, NEW h, NEW g, NEW q \in Seq(Verbs), q # << >>,
         \A t \in Tenants : /\ t \in Names /\ Ports[t] \in Seq(Peers)
                            /\ Regime[t] \in {"vfio", "kernel"},
         \A i \in 1..Len(q) : Aims(q[i]) => q[i].arg \in Peers,
         Underway(b, h, q), Carries(b, n, h, q[1]), q[1].op # "done", InHand(n, g, Tail(q)),
         NEW M, Shows(b, n, h, g, q[1], Inherited, M)
  PROVE  /\ Tail(q) # << >> /\ Manned(n) /\ Laid(n, g, Tail(q))
         /\ \A t \in Tenants : /\ Willed(n, Tail(q), t, Handle(n, t))
                               /\ Sighted(n, g, Tail(q), Handle(n, t), M)
  <1>1. /\ Tail(q) # << >> /\ Manned(n) /\ Laid(n, g, Tail(q))
        /\ \A t \in Tenants : /\ Handle(n, t) = Handle(b, t)
                              /\ Willed(n, Tail(q), t, Handle(b, t))
    BY Onward
  <1>2. ASSUME NEW t \in Tenants PROVE Sighted(n, g, Tail(q), Handle(b, t), M)
    <2>1. /\ Manned(b) /\ Laid(b, h, q)
          /\ Willed(b, q, t, Handle(b, t)) /\ Sighted(b, h, q, Handle(b, t), Inherited)
      BY DEF Underway
    <2>2. PICK c \in b.live : c = Handle(b, t) /\ b.name[c] = t /\ c # None
      BY <2>1, HandleIs DEF Manned
    <2>3. Apt(b, q[1]) /\ Windows(q) /\ Early(b, q) /\ InHand(b, h, q)
      <3>1. 1 \in 1..Len(q) BY Behead
      <3> QED BY <2>1, <3>1 DEF Laid
    <2> QED BY <2>1, <2>2, <2>3, SightTail
  <1> QED BY <1>1, <1>2

\* The intent of a run stands: what is said of the next board with it is said next.
LEMMA RollStands ==
  ASSUME UNCHANGED roll
  PROVE  /\ Tenants' = Tenants /\ Declared' = Declared
         /\ \A t, c : CensusConverged(board, t, c)' <=> CensusConverged(board', t, c)
         /\ \A v : Apt(board, v)' <=> Apt(board', v)
         /\ Manned(board)' <=> Manned(board')
         /\ Laid(board, hand, queue)' <=> Laid(board', hand', queue')
         /\ \A t, c : Willed(board, queue, t, c)' <=> Willed(board', queue', t, c)
  <1>1. Tenants' = Tenants /\ Declared' = Declared BY DEF Tenants, Declared
  <1>2. ASSUME NEW t, NEW c
        PROVE  CensusConverged(board, t, c)' <=> CensusConverged(board', t, c)
    BY <1>1 DEF CensusConverged, Managed, Foreign
  <1>3. ASSUME NEW v PROVE Apt(board, v)' <=> Apt(board', v) BY <1>1 DEF Apt, Heir
  <1>4. Manned(board)' <=> Manned(board') BY <1>1 DEF Manned
  <1>5. Laid(board, hand, queue)' <=> Laid(board', hand', queue') BY <1>3 DEF Laid
  <1>6. ASSUME NEW t, NEW c
        PROVE  Willed(board, queue, t, c)' <=> Willed(board', queue', t, c)
    BY <1>2 DEF Willed, Assured
  <1> QED BY <1>1, <1>2, <1>3, <1>4, <1>5, <1>6

\* A population under way, said of the next board.
LEMMA UnderwayNext ==
  ASSUME UNCHANGED roll, Manned(board'), Laid(board', hand', queue'),
         \A t \in Tenants : /\ Willed(board', queue', t, Handle(board', t))
                            /\ Sighted(board', hand', queue', Handle(board', t), Inherited')
  PROVE  Underway(board, hand, queue)'
  <1>1. Tenants' = Tenants /\ Manned(board)' /\ Laid(board, hand, queue)' BY RollStands
  <1>2. \A t, c : CensusConverged(board, t, c)' <=> CensusConverged(board', t, c) BY RollStands
  <1>3. \A t \in Tenants : Willed(board, queue, t, Handle(board, t))' BY <1>2 DEF Willed, Assured
  <1> QED BY <1>1, <1>3 DEF Underway

(* Each command on the way: what it does to what is promised.                 *)

\* What is known of the head of a population under way.
LEMMA UnderwayHead ==
  ASSUME IInv, LInv, queue # << >>, pc = "population", Underway(board, hand, queue)
  PROVE  /\ queue \in Seq(Verbs) /\ V = queue[1] /\ V \in Verbs /\ board \in Boards
         /\ Consistent(board)
         /\ \A t \in Tenants : /\ t \in Names /\ Ports[t] \in Seq(Peers)
                               /\ Regime[t] \in {"vfio", "kernel"}
         /\ \A i \in 1..Len(queue) : Aims(queue[i]) => queue[i].arg \in Peers
         /\ Apt(board, V) /\ Aimed(board, V) /\ InHand(board, hand, queue) /\ Windows(queue)
         /\ Fresh(board, queue) /\ (\A i, k \in 1..Len(queue) : Apart(queue[i], queue[k]))
         /\ V.op # "done" => /\ V.on \in board.live /\ V.on \in Dprcs /\ V.on # None
                             /\ Tail(queue) # << >>
         /\ V.op = "connect" => V.arg \in Peers
         /\ ~NeedsHand(V) /\ ~Mints(V) /\ V.op # "done" => ~NeedsHand(Tail(queue)[1])
  <1>1. /\ queue \in Seq(Verbs) /\ V = queue[1] /\ Len(queue) \in Nat /\ Len(queue) # 0
        /\ 1 \in 1..Len(queue)
    BY QueueIs
  <1>2. V \in Verbs /\ pc # "idle" BY HeadSound
  <1>3. Consistent(board) /\ Queued BY <1>2, HeadLife DEF LInv
  <1>4. board \in Boards /\ board.live \subseteq Dprcs /\ queue \in Seq(Sound)
    BY <1>2, Running DEF Owed
  <1>5. \A t \in Tenants : /\ t \in Names /\ Ports[t] \in Seq(Peers)
                           /\ Regime[t] \in {"vfio", "kernel"}
    BY TenantIs
  <1>6. \A i \in 1..Len(queue) : queue[i].op = "connect" => queue[i].arg \in Peers
    <2>1. \A v \in Sound : v.op = "connect" => v.arg \in Peers BY DEF Sound, SoundFor
    <2>2. \A i \in 1..Len(queue) : queue[i] \in Sound BY <1>4
    <2> QED BY <2>1, <2>2
  <1>7. /\ \A i \in 1..Len(queue) : Apt(board, queue[i]) /\ Aimed(board, queue[i])
        /\ \A i, k \in 1..Len(queue) : Apart(queue[i], queue[k])
        /\ Closed(queue, "done") /\ Windows(queue) /\ Fresh(board, queue)
        /\ InHand(board, hand, queue)
    BY DEF Underway, Laid
  <1>8. V.op # "done" => /\ V.on \in board.live /\ V.on \in Dprcs /\ V.on # None
                         /\ Tail(queue) # << >>
    <2>1. ASSUME queue[1].op # "done" PROVE queue[1].on \in board.live /\ Tail(queue) # << >>
      BY <1>1, <1>7, <2>1, ClosedTail DEF Apt, Heir
    <2> QED BY <1>1, <1>4, <2>1, BoardAssumption
  <1>9. ASSUME ~NeedsHand(V), ~Mints(V), V.op # "done" PROVE ~NeedsHand(Tail(queue)[1])
    <2>1. 2 \in 1..Len(queue) /\ Tail(queue)[1] = queue[2] /\ 2 - 1 = 1
      <3>1. /\ Tail(queue) \in Seq(Verbs) /\ Len(Tail(queue)) = Len(queue) - 1
            /\ \A i \in 1..(Len(queue) - 1) : Tail(queue)[i] = queue[i+1]
        BY <1>1, Behead
      <3>2. Len(Tail(queue)) # 0 BY <1>8, <1>9, <3>1
      <3> QED BY <1>1, <3>1, <3>2
    <2>2. Prepares(queue[1], queue[2]) \/ queue[2].op = "override" BY <1>3, <2>1 DEF Queued, Ordered
    <2> QED BY <1>1, <1>9, <2>1, <2>2 DEF Prepares, NeedsHand
  <1> HIDE DEF V
  <1> QED BY <1>1, <1>2, <1>3, <1>4, <1>5, <1>6, <1>7, <1>8, <1>9 DEF Aims

\* One verb of a population that is under way.
LEMMA PopulatedOn ==
  ASSUME IInv, LInv, SInv, queue # << >>, pc = "population", Underway(board, hand, queue),
         V.op # "done", Advance, UNCHANGED given, UNCHANGED before,
         Carries(board, board', hand, V), InHand(board', hand', queue'),
         Shows(board, board', hand, hand', V, Inherited, Inherited')
  PROVE  SInv'
  <1>1. /\ queue \in Seq(Verbs) /\ V = queue[1] /\ board \in Boards
        /\ \A t \in Tenants : /\ t \in Names /\ Ports[t] \in Seq(Peers)
                              /\ Regime[t] \in {"vfio", "kernel"}
        /\ \A i \in 1..Len(queue) : Aims(queue[i]) => queue[i].arg \in Peers
    BY UnderwayHead
  <1>2. queue' = Tail(queue) /\ pc' = pc /\ outcome' = outcome /\ roll' = roll BY DEF Advance, given
  <1> HIDE DEF V
  <1>3. /\ Tail(queue) # << >> /\ Manned(board') /\ Laid(board', hand', Tail(queue))
        /\ \A t \in Tenants : /\ Willed(board', Tail(queue), t, Handle(board', t))
                              /\ Sighted(board', hand', Tail(queue), Handle(board', t), Inherited')
    <2> DEFINE M == Inherited'
               q == queue
    <2>1. /\ q \in Seq(Verbs) /\ q # << >> /\ Underway(board, hand, q)
          /\ Carries(board, board', hand, q[1]) /\ q[1].op # "done"
          /\ InHand(board', hand', Tail(q)) /\ Shows(board, board', hand, hand', q[1], Inherited, M)
          /\ \A i \in 1..Len(q) : Aims(q[i]) => q[i].arg \in Peers
      BY <1>1, <1>2
    <2> HIDE DEF M, q
    <2>2. /\ Tail(q) # << >> /\ Manned(board') /\ Laid(board', hand', Tail(q))
          /\ \A t \in Tenants : /\ Willed(board', Tail(q), t, Handle(board', t))
                                /\ Sighted(board', hand', Tail(q), Handle(board', t), M)
      BY <1>1, <2>1, UnderwayTail
    <2> QED BY <2>2 DEF M, q
  <1>4. Underway(board, hand, queue)' BY <1>2, <1>3, UnderwayNext
  <1>5. outcome = "running" BY DEF SInv
  <1> QED BY <1>2, <1>3, <1>4, <1>5 DEF SInv

\* What a step records as made is what it has in hand.
LEMMA InheritedStays ==
  ASSUME UNCHANGED before, made' \in {made, made \cup {hand}}
  PROVE  \A d \in Inherited : d \in Inherited' \/ d = hand
  BY DEF Inherited, LeftBehind

\* What leaves the residents and their labels alone leaves the ports and the census.
LEMMA SamePorts ==
  ASSUME NEW b, NEW n, \A d \in Dpnis : n.home[d] = b.home[d] /\ n.tag[d] = b.tag[d]
  PROVE  \A c, p : Ported(n, c, p) = Ported(b, c, p)
  BY DEF Ported, DpniRows, Residents

\* The names a plan places: tenants and ports.
LEMMA DeclaredIs ==
  ASSUME IInv
  PROVE  Declared \subseteq Names /\ None \notin Declared
  <1>1. \A t \in Tenants : t \in Names /\ ToSet(Ports[t]) \subseteq Names
    <2> TAKE t \in Tenants
    <2>1. t \in Names /\ Ports[t] \in Seq(Peers) /\ Peers \subseteq Names
      BY TenantIs, PlanAssumption
    <2> QED BY <2>1 DEF ToSet
  <1> QED BY <1>1, BoardAssumption DEF Declared

\* A verb that touches neither the residents of a container nor its edges.
LEMMA QuietServe ==
  ASSUME IInv, LInv, SInv, queue # << >>, pc = "population", Underway(board, hand, queue),
         V.op \in {"judge", "kernelBind", "override", "bind", "unbind"},
         Advance, UNCHANGED <<given, hand, made>>,
         board'.live = board.live, board'.name = board.name, board'.home = board.home,
         board'.tag = board.tag, board'.edge = board.edge, board'.plugged = board.plugged,
         board'.hidden \subseteq board.hidden,
         V.op = "judge" => CensusConverged(board, V.arg, V.on),
         \A c \in board.live :
           /\ board.driver[c] = "vfio" /\ V \notin On("unbind", c) => board'.driver[c] = "vfio"
           /\ board'.driver[c] = "vfio" => board.driver[c] = "vfio" \/ V \in On("bind", c),
         V.op = "bind" => /\ board.over[V.on] = "vfio" /\ board.driver[V.on] = "none"
                          /\ board'.driver[V.on] = "vfio",
         V.op = "unbind" => board'.over[V.on] # "vfio"
  PROVE  SInv'
  <1>1. ~NeedsHand(V) /\ ~Mints(V) /\ V.op \notin {"done", "connect", "stamp", "plug", "mintDpni"}
    BY DEF NeedsHand, Mints
  <1>2. InHand(board', hand', queue') BY <1>1, UnderwayHead DEF InHand, Advance
  <1>3. \A c, p : Ported(board', c, p) = Ported(board, c, p) BY SamePorts
  <1>4. \A t, c : CensusConverged(board', t, c) <=> CensusConverged(board, t, c)
    BY DEF CensusConverged, Managed, Foreign, PoolRows, Residents
  <1>5. Carries(board, board', hand, V) BY <1>1, <1>3, <1>4 DEF Carries
  <1>6. \A d \in Inherited : d \in Inherited' \/ d = hand BY InheritedStays DEF Advance
  <1>7. Shows(board, board', hand, hand', V, Inherited, Inherited') BY <1>1, <1>6 DEF Shows
  <1> QED BY <1>1, <1>2, <1>5, <1>7, PopulatedOn DEF Advance

\* The read-back of a child: its census is what it needs.
LEMMA JudgeServe ==
  ASSUME IInv, LInv, SInv, Underway(board, hand, queue), JudgeChild, UNCHANGED given
  PROVE  SInv'
  <1>1. /\ queue # << >> /\ V.op = "judge" /\ Advance /\ UNCHANGED <<board, hand, made>>
        /\ CensusConverged(board, V.arg, V.on)
    BY DEF JudgeChild, Next1, V, JudgedGood
  <1>2. pc = "population" BY <1>1, PhaseIs
  <1> QED BY <1>1, <1>2, QuietServe

\* The bind of a child under the kernel: none of a tenant under VFIO.
LEMMA KernelServe ==
  ASSUME IInv, LInv, SInv, Underway(board, hand, queue), KernelBind, UNCHANGED given
  PROVE  SInv'
  <1>1. /\ queue # << >> /\ V.op = "kernelBind" /\ Advance /\ UNCHANGED <<hand, made>>
        /\ board' = IF V.on \in board.scanned /\ board.driver[V.on] = "none"
                    THEN Bound(Overridden(board, V.on, "kernel"), V.on, "kernel")
                    ELSE board
    BY DEF KernelBind, Next1, V
  <1>2. pc = "population" /\ board \in Boards BY <1>1, PhaseIs
  <1>3. PICK c : c = V.on /\ c \in Dprcs BY <1>1, <1>2, UnderwayHead
  <1>4. /\ board'.live = board.live /\ board'.name = board.name /\ board'.home = board.home
        /\ board'.tag = board.tag /\ board'.edge = board.edge /\ board'.plugged = board.plugged
        /\ board'.hidden \subseteq board.hidden
        /\ \A k \in board.live : board'.driver[k] = "vfio" <=> board.driver[k] = "vfio"
    <2> HIDE DEF V
    <2>1. CASE c \in board.scanned /\ board.driver[c] = "none"
      <3>1. board' = Bound(Overridden(board, c, "kernel"), c, "kernel") BY <1>1, <1>3, <2>1
      <3> QED BY <1>2, <1>3, <2>1, <3>1 DEF Bound, Overridden, Boards
    <2>2. CASE ~(c \in board.scanned /\ board.driver[c] = "none") BY <1>1, <1>3, <2>2
    <2> QED BY <2>1, <2>2
  <1> QED BY <1>1, <1>2, <1>4, QuietServe

\* The handing over of a child: override, bind, and the unbind of a rebind.
LEMMA BindsServe ==
  ASSUME IInv, LInv, SInv, Underway(board, hand, queue), Override \/ Bind \/ Unbind,
         UNCHANGED given
  PROVE  SInv'
  <1>1. /\ queue # << >> /\ V.op \in {"override", "bind", "unbind"}
        /\ Advance /\ UNCHANGED <<hand, made>>
    BY DEF Override, Bind, Unbind, Next1, V
  <1>2. pc = "population" /\ board \in Boards BY <1>1, PhaseIs
  <1>3. PICK c : c = V.on /\ c \in Dprcs /\ V \in Verbs BY <1>1, <1>2, UnderwayHead
  <1>4. CASE Override
    <2>1. board' = Overridden(board, c, "vfio") /\ V.op = "override"
      BY <1>3, <1>4 DEF Override, Next1, V
    <2>2. /\ board'.live = board.live /\ board'.name = board.name /\ board'.home = board.home
          /\ board'.tag = board.tag /\ board'.edge = board.edge /\ board'.plugged = board.plugged
          /\ board'.hidden = board.hidden /\ board'.driver = board.driver
      BY <1>2, <2>1 DEF Overridden, Boards
    <2> QED BY <1>1, <1>2, <2>1, <2>2, QuietServe
  <1>5. CASE Bind
    <2>1. board' = Bound(board, c, "vfio") /\ V.op = "bind" /\ CanBind(board, c, "vfio")
      BY <1>3, <1>5 DEF Bind, Next1, V
    <2>2. /\ board'.live = board.live /\ board'.name = board.name /\ board'.home = board.home
          /\ board'.tag = board.tag /\ board'.edge = board.edge /\ board'.plugged = board.plugged
          /\ board'.hidden \subseteq board.hidden
          /\ board'.driver = [board.driver EXCEPT ![c] = "vfio"]
      BY <1>2, <2>1 DEF Bound, Boards
    <2>3. \A k \in board.live : k # c => board'.driver[k] = board.driver[k] BY <1>2, <2>2 DEF Boards
    <2>4. board.over[c] = "vfio" /\ board.driver[c] = "none" /\ board'.driver[c] = "vfio"
      BY <1>2, <1>3, <2>1, <2>2 DEF CanBind, Boards
    <2>5. V \in On("bind", c) BY <1>3, <2>1 DEF On
    <2> HIDE DEF V
    <2>6. \A k \in board.live :
           /\ board.driver[k] = "vfio" /\ V \notin On("unbind", k) => board'.driver[k] = "vfio"
           /\ board'.driver[k] = "vfio" => board.driver[k] = "vfio" \/ V \in On("bind", k)
      BY <2>3, <2>4, <2>5
    <2> QED BY <1>1, <1>2, <1>3, <2>1, <2>2, <2>4, <2>6, QuietServe
  <1>6. CASE Unbind
    <2>1. board' = VfioUnbound(board, c) /\ V.op = "unbind" BY <1>3, <1>6 DEF Unbind, Next1, V
    <2>2. /\ board'.live = board.live /\ board'.name = board.name /\ board'.home = board.home
          /\ board'.tag = board.tag /\ board'.edge = board.edge /\ board'.plugged = board.plugged
          /\ board'.hidden \subseteq board.hidden
          /\ board'.driver = [board.driver EXCEPT ![c] = "none"]
          /\ board'.over = [board.over EXCEPT ![c] = "none"]
      BY <1>2, <2>1 DEF VfioUnbound, Unbound, Overridden, Boards
    <2>3. \A k \in board.live : k # c => board'.driver[k] = board.driver[k] BY <1>2, <2>2 DEF Boards
    <2>4. board'.over[c] # "vfio" /\ board'.driver[c] # "vfio" BY <1>2, <1>3, <2>1, <2>2 DEF Boards
    <2>5. V \in On("unbind", c) BY <1>3, <2>1 DEF On
    <2> HIDE DEF V
    <2>6. \A k \in board.live :
           /\ board.driver[k] = "vfio" /\ V \notin On("unbind", k) => board'.driver[k] = "vfio"
           /\ board'.driver[k] = "vfio" => board.driver[k] = "vfio" \/ V \in On("bind", k)
      BY <2>3, <2>4, <2>5
    <2> QED BY <1>1, <1>2, <1>3, <2>1, <2>2, <2>4, <2>6, QuietServe
  <1> QED BY <1>4, <1>5, <1>6

\* A companion that goes: a recount is due.
LEMMA ShrinkServe ==
  ASSUME IInv, LInv, SInv, Underway(board, hand, queue), Reclaim \/ PruneForeign,
         UNCHANGED given
  PROVE  SInv'
  <1>1. /\ queue # << >> /\ V.op \in {"reclaim", "pruneForeign"}
        /\ Advance /\ UNCHANGED <<hand, made>>
        /\ \E o \in PoolRows(board, V.on) : board' = Gone(board, {o})
    BY DEF Reclaim, PruneForeign, Next1, V, Reclaimable, Managed, Foreign
  <1>2. pc = "population" /\ board \in Boards BY <1>1, PhaseIs
  <1>3. PICK c : c = V.on /\ c \in Dprcs /\ V \in Verbs BY <1>1, <1>2, UnderwayHead
  <1>4. PICK o \in Pool : board.home[o] = c /\ board' = Gone(board, {o}) /\ o \notin Dpnis
    <2>1. PICK o \in PoolRows(board, c) : board' = Gone(board, {o}) BY <1>1, <1>3
    <2> QED BY <2>1, BoardAssumption DEF PoolRows, Residents
  <1>5. V \in Recounts(c) /\ ~NeedsHand(V) /\ ~Mints(V) BY <1>1, <1>3 DEF Recounts, NeedsHand, Mints
  <1>6. /\ board'.live = board.live /\ board'.name = board.name /\ board'.driver = board.driver
        /\ \A x \in Objs : x # o => board'.home[x] = board.home[x] /\ board'.tag[x] = board.tag[x]
        /\ board'.home[o] = None
        /\ \A d \in Dpnis : board'.edge[d] = board.edge[d]
        /\ board'.plugged = board.plugged \ {o} /\ board'.hidden = board.hidden \ {o}
    BY <1>2, <1>4 DEF Gone, Boards, Objs
  <1>7. InHand(board', hand', queue') BY <1>1, <1>2, <1>5, UnderwayHead DEF InHand, Advance
  <1>8. \A k, p : Ported(board', k, p) = Ported(board, k, p)
    <2>1. \A d \in Dpnis : board'.home[d] = board.home[d] /\ board'.tag[d] = board.tag[d]
      BY <1>4, <1>6 DEF Objs
    <2> QED BY <2>1, SamePorts
  <1>9. ASSUME NEW t \in Tenants, NEW k \in board.live
        PROVE  CensusConverged(board, t, k) => CensusConverged(board', t, k) \/ V \in Recounts(k)
    <2>1. CASE k = c BY <1>5, <2>1
    <2>2. CASE k # c
      <3>1. k # None BY <1>2, BoardAssumption DEF Boards
      <3>2. PoolRows(board', k) = PoolRows(board, k) /\ o \notin PoolRows(board, k)
        BY <1>4, <1>6, <2>2, <3>1 DEF PoolRows, Residents
      <3>3. \A x \in PoolRows(board, k) : board'.tag[x] = board.tag[x]
        BY <1>6, <3>2 DEF PoolRows, Residents
      <3>4. Managed(board', k) = Managed(board, k) /\ Foreign(board', k) = Foreign(board, k)
        BY <3>2, <3>3 DEF Managed, Foreign
      <3> QED BY <3>4 DEF CensusConverged
    <2> QED BY <2>1, <2>2
  <1>10. V.op \notin {"done", "connect", "stamp", "plug", "mintDpni", "judge", "bind", "unbind"}
    BY <1>1
  <1>11. Carries(board, board', hand, V) BY <1>6, <1>8, <1>9, <1>10 DEF Carries
  <1>12. Shows(board, board', hand, hand', V, Inherited, Inherited')
    <2>1. \A d \in Inherited : d \in Inherited' \/ d = hand BY <1>1, InheritedStays DEF Advance
    <2>2. \A d \in Dpnis : d # o /\ d \in Objs BY <1>4 DEF Objs
    <2> QED BY <1>1, <1>6, <1>10, <2>1, <2>2 DEF Shows
  <1> QED BY <1>1, <1>2, <1>7, <1>10, <1>11, <1>12, PopulatedOn DEF Advance

\* The plug of the object in hand.
LEMMA PlugServe ==
  ASSUME IInv, LInv, SInv, Underway(board, hand, queue), Plug, UNCHANGED given
  PROVE  SInv'
  <1>1. /\ queue # << >> /\ V.op = "plug" /\ Advance /\ UNCHANGED hand
        /\ made' \in {made, made \cup {hand}} /\ board' = PluggedIn(board, hand)
    BY DEF Plug, Next1, V, Created
  <1>2. pc = "population" /\ board \in Boards BY <1>1, PhaseIs
  <1>3. /\ board'.live = board.live /\ board'.name = board.name /\ board'.driver = board.driver
        /\ board'.home = board.home /\ board'.tag = board.tag /\ board'.edge = board.edge
        /\ board'.plugged = board.plugged \cup {hand} /\ board'.hidden = board.hidden
    BY <1>1, <1>2 DEF PluggedIn, Boards
  <1>4. V.op \notin {"done", "connect", "stamp", "mintDpni", "judge", "bind", "unbind"} BY <1>1
  <1>5. \A c, p : Ported(board', c, p) = Ported(board, c, p) BY <1>3, SamePorts
  <1>6. Carries(board, board', hand, V)
    <2>1. \A t, c : CensusConverged(board', t, c) <=> CensusConverged(board, t, c)
      BY <1>3 DEF CensusConverged, Managed, Foreign, PoolRows, Residents
    <2> QED BY <1>3, <1>4, <1>5, <2>1 DEF Carries
  <1>7. Shows(board, board', hand, hand', V, Inherited, Inherited')
    <2>1. \A d \in Inherited : d \in Inherited' \/ d = hand BY <1>1, InheritedStays DEF Advance
    <2> QED BY <1>1, <1>3, <1>4, <2>1 DEF Shows
  <1>8. InHand(board', hand', queue')
    <2> DEFINE q == queue
               r == Tail(queue)
               c == q[1].on
               p == q[1].arg
    <2>1. q \in Seq(Verbs) /\ V = q[1] /\ InHand(board, hand, q) /\ r # << >>
      BY <1>1, <1>2, <1>4, UnderwayHead
    <2>2. /\ Len(q) \in Nat /\ Len(q) # 0 /\ Len(r) = Len(q) - 1 /\ r \in Seq(Verbs)
          /\ \A i \in 1..(Len(q) - 1) : r[i] = q[i+1]
      BY <1>1, <2>1, Behead
    <2>3. Len(r) # 0 BY <2>1, <2>2
    <2>4. 0 \in Nat /\ 0 < Len(q) /\ 0 + 1 = 1 /\ r[1] = q[2] /\ 1 < Len(q) BY <2>2, <2>3
    <2>5. NeedsHand(q[1]) /\ q[1].op = "plug" BY <1>1, <2>1 DEF NeedsHand
    <2> HIDE DEF V
    <2>6. /\ hand \in Objs /\ board.home[hand] = c
          /\ hand \in Pool => Naming(q, 1, c, p)
          /\ hand \in Dpnis => /\ Wiring(q, 1, c, p) /\ board.tag[hand] = p
                               /\ Ported(board, c, p) = {hand} \/ Wired(board, p)
      <3>1. ~Naming(q, 0, c, p) /\ ~Wiring(q, 0, c, p) /\ ~Stamping(q, 0, c, p)
        BY <2>4, <2>5 DEF Naming, Wiring, Stamping, Verb
      <3> QED BY <2>1, <2>4, <2>5, <3>1 DEF InHand, Adding, Plugging
    <2>7. hand \in Pool => Naming(r, 0, c, p) /\ r[1].on = c /\ r[1].arg = p
      <3>1. Naming(q, 1, c, p) => Naming(r, 0, c, p) BY <1>1, <2>1, <2>4, Advanced
      <3> QED BY <2>4, <2>6, <3>1 DEF Naming, Verb
    <2>8. hand \in Dpnis => Wiring(r, 0, c, p) /\ r[1].on = c /\ r[1].arg = p
      <3>1. Wiring(q, 1, c, p) => Wiring(r, 0, c, p) BY <1>1, <2>1, <2>4, Advanced
      <3> QED BY <2>4, <2>6, <3>1 DEF Wiring, Verb
    <2>9. Wired(board, p) => Wired(board', p) BY <1>3 DEF Wired
    <2>10. hand \in Pool => hand \notin Dpnis BY BoardAssumption
    <2>11. hand \in Pool \/ hand \in Dpnis BY <2>6 DEF Objs
    <2>12. InHand(board', hand, r)
      <3> HIDE DEF r, c, p, q
      <3> QED BY <1>3, <1>5, <2>6, <2>7, <2>8, <2>9, <2>10, <2>11 DEF InHand
    <2> QED BY <1>1, <2>12 DEF Advance
  <1> QED BY <1>1, <1>2, <1>4, <1>6, <1>7, <1>8, PopulatedOn DEF Advance

\* The edge of a port: of the one in hand, or of one that stands.
LEMMA ConnectServe ==
  ASSUME IInv, LInv, SInv, Underway(board, hand, queue), Connect, UNCHANGED given
  PROVE  SInv'
  <1>1. /\ queue # << >> /\ V.op = "connect" /\ Advance /\ UNCHANGED <<hand, made>>
        /\ CanConnect(board, Target, V.arg) /\ board' = Joined(board, Target, V.arg)
    BY DEF Connect, Next1, V
  <1>2. pc = "population" /\ board \in Boards BY <1>1, PhaseIs
  <1> DEFINE c == V.on
             p == V.arg
             d == Target
  <1>3. /\ c \in board.live /\ p \in Peers /\ V \in Verbs /\ V = queue[1]
        /\ InHand(board, hand, queue) /\ Aimed(board, V) /\ p # None
    BY <1>1, <1>2, UnderwayHead, BoardAssumption
  <1>4. PortRow(board, c, p) = d /\ d \in Dpnis
    <2>1. CASE V.obj # None
      <3>1. PortRow(board, c, p) = d /\ d # None BY <1>1, <1>3, <2>1 DEF Aimed, Aims, Target
      <3> QED BY <3>1, PortRowIs
    <2>2. CASE V.obj = None
      <3>1. NeedsHand(V) /\ d = hand BY <1>1, <2>2 DEF NeedsHand, Target
      <3> HIDE DEF V
      <3>2. /\ ~Adding(queue, 0, c, p) /\ ~Naming(queue, 0, c, p)
            /\ ~Stamping(queue, 0, c, p) /\ ~Plugging(queue, 0, c, p)
        <4>1. queue[0+1].op = "connect" BY <1>1, <1>3
        <4> QED BY <4>1 DEF Adding, Naming, Stamping, Plugging, Verb
      <3>3. /\ hand \in Dpnis /\ board.home[hand] = c
            /\ Ported(board, c, p) = {hand} \/ Wired(board, p)
        BY <1>3, <3>1, <3>2 DEF InHand, Objs
      <3>4. Ported(board, c, p) = {hand} BY <1>1, <3>3 DEF CanConnect
      <3>5. PortRow(board, c, p) = Min({hand}) BY <3>4 DEF PortRow, Ported
      <3> QED BY <3>1, <3>3, <3>5, MinOne, BoardAssumption
    <2> QED BY <2>1, <2>2
  <1>5. /\ board'.live = board.live /\ board'.name = board.name /\ board'.driver = board.driver
        /\ board'.home = board.home /\ board'.tag = board.tag
        /\ board'.edge = [board.edge EXCEPT ![d] = p]
        /\ board'.plugged = board.plugged /\ board'.hidden = board.hidden
    BY <1>1, <1>2 DEF Joined, Boards
  <1> HIDE DEF V, Target
  <1>6. /\ board'.edge[d] = p /\ board.edge[d] = None
        /\ \A x \in Dpnis : x # d => board'.edge[x] = board.edge[x]
    BY <1>1, <1>2, <1>4, <1>5 DEF Boards, CanConnect
  <1>7. \A k, x : Ported(board', k, x) = Ported(board, k, x) BY <1>5, SamePorts
  <1>8. Carries(board, board', hand, V)
    <2>1. \A t, k : CensusConverged(board', t, k) <=> CensusConverged(board, t, k)
      BY <1>5 DEF CensusConverged, Managed, Foreign, PoolRows, Residents
    <2>2. PortRow(board', c, p) = d BY <1>4, <1>7, RowSame
    <2>3. ~NeedsConnect(board', c, p) /\ Wired(board', p)
      BY <1>4, <1>6, <2>2, BoardAssumption DEF NeedsConnect, Wired, Objs
    <2> QED BY <1>1, <1>5, <1>6, <1>7, <2>1, <2>3 DEF Carries
  <1>9. Shows(board, board', hand, hand', V, Inherited, Inherited')
    <2>1. \A x \in Inherited : x \in Inherited' \/ x = hand BY <1>1, InheritedStays DEF Advance
    <2> QED BY <1>1, <1>5, <2>1 DEF Shows
  <1>10. ~NeedsHand(Tail(queue)[1])
    <2>1. CASE ~NeedsHand(V)
      <3>1. ~Mints(V) BY <1>1 DEF Mints
      <3> QED BY <1>1, <1>2, <2>1, <3>1, UnderwayHead
    <2>2. CASE NeedsHand(V)
      <3>1. queue \in Seq(Verbs) /\ queue # << >> /\ Tail(queue) # << >> BY <1>1, <1>2, UnderwayHead
      <3>2. /\ Len(queue) \in Nat /\ Len(queue) # 0 /\ Len(Tail(queue)) = Len(queue) - 1
            /\ \A i \in 1..(Len(queue) - 1) : Tail(queue)[i] = queue[i+1]
            /\ Tail(queue) \in Seq(Verbs)
        BY <3>1, Behead
      <3>3. 1 < Len(queue) /\ Tail(queue)[1] = queue[1+1] BY <3>1, <3>2
      <3>4. queue[0+1].op = "connect" BY <1>1, <1>3
      <3>5. /\ ~Adding(queue, 0, c, p) /\ ~Naming(queue, 0, c, p)
            /\ ~Stamping(queue, 0, c, p) /\ ~Plugging(queue, 0, c, p)
        BY <3>4 DEF Adding, Naming, Stamping, Plugging, Verb
      <3>6. Wiring(queue, 0, c, p) BY <1>3, <2>2, <3>5 DEF InHand, Objs
      <3>7. Ended(queue, 0 + 1) BY <3>6 DEF Wiring
      <3> QED BY <3>3, <3>7 DEF Ended
    <2> QED BY <2>1, <2>2
  <1>11. InHand(board', hand', queue') BY <1>1, <1>10 DEF InHand, Advance
  <1> QED BY <1>1, <1>2, <1>8, <1>9, <1>11, PopulatedOn DEF Advance

\* The label of the object in hand: a port bears its name from here on.
LEMMA StampServe ==
  ASSUME IInv, LInv, SInv, Underway(board, hand, queue), Stamp, UNCHANGED given
  PROVE  SInv'
  <1>1. /\ queue # << >> /\ V.op = "stamp" /\ Advance /\ UNCHANGED hand
        /\ made' \in {made, made \cup {hand}} /\ board' = Stamped(board, hand, V.arg)
    BY DEF Stamp, Next1, V, Created
  <1>2. pc = "population" /\ board \in Boards BY <1>1, PhaseIs
  <1> DEFINE c == V.on
             p == V.arg
  <1>3. /\ c \in board.live /\ V \in Verbs /\ V = queue[1] /\ queue \in Seq(Verbs)
        /\ InHand(board, hand, queue) /\ c # None
        /\ Tail(queue) # << >>
    BY <1>1, <1>2, UnderwayHead
  <1>4. NeedsHand(V) BY <1>1 DEF NeedsHand
  <1> HIDE DEF V
  <1>5. hand \in Objs /\ board.home[hand] = c BY <1>3, <1>4 DEF InHand
  <1>6. /\ board'.live = board.live /\ board'.name = board.name /\ board'.driver = board.driver
        /\ board'.home = board.home /\ board'.edge = board.edge
        /\ \A o \in Objs : o # hand => board'.tag[o] = board.tag[o]
        /\ board'.tag[hand] = p
        /\ board'.plugged = board.plugged /\ board'.hidden = board.hidden
    BY <1>1, <1>2, <1>5 DEF Stamped, Boards
  <1>7. /\ Len(queue) \in Nat /\ Len(queue) # 0 /\ Len(Tail(queue)) = Len(queue) - 1
        /\ \A i \in 1..(Len(queue) - 1) : Tail(queue)[i] = queue[i+1]
        /\ Tail(queue) \in Seq(Verbs) /\ Len(Tail(queue)) # 0
    BY <1>1, <1>3, Behead
  <1>8. 0 \in Nat /\ 0 < Len(queue) /\ 1 < Len(queue) /\ Tail(queue)[1] = queue[1+1] BY <1>7
  <1>9. ~Mints(V) /\ V.op \notin {"done", "connect", "plug", "mintDpni", "judge", "bind", "unbind"}
    BY <1>1 DEF Mints
  <1>10. Shows(board, board', hand, hand', V, Inherited, Inherited')
    <2>1. \A x \in Inherited : x \in Inherited' \/ x = hand BY <1>1, InheritedStays DEF Advance
    <2> QED BY <1>1, <1>6, <1>9, <2>1 DEF Shows
  <1>11. CASE hand \in Pool
    <2>1. hand \notin Dpnis BY <1>11, BoardAssumption
    <2>2. ~Adding(queue, 0, c, p)
      <3>1. queue[0+1].op = "stamp" BY <1>1, <1>3
      <3> QED BY <3>1 DEF Adding, Verb
    <2>3. Naming(queue, 0, c, p) BY <1>3, <1>4, <1>11, <2>2 DEF InHand
    <2>4. Ended(queue, 0 + 1) BY <2>3 DEF Naming
    <2>5. ~NeedsHand(Tail(queue)[1]) BY <1>8, <2>4 DEF Ended
    <2>6. InHand(board', hand', queue') BY <1>1, <2>5 DEF InHand, Advance
    <2>7. \A k, x : Ported(board', k, x) = Ported(board, k, x)
      <3>1. \A d \in Dpnis : board'.home[d] = board.home[d] /\ board'.tag[d] = board.tag[d]
        BY <1>6, <2>1 DEF Objs
      <3> QED BY <3>1, SamePorts
    <2>8. V \in Recounts(c) BY <1>1, <1>3 DEF Recounts
    <2>9. ASSUME NEW t \in Tenants, NEW k \in board.live
          PROVE  CensusConverged(board, t, k) => CensusConverged(board', t, k) \/ V \in Recounts(k)
      <3>1. CASE k = c BY <2>8, <3>1
      <3>2. CASE k # c
        <4>1. PoolRows(board', k) = PoolRows(board, k) /\ hand \notin PoolRows(board, k)
          BY <1>5, <1>6, <3>2 DEF PoolRows, Residents
        <4>2. \A x \in PoolRows(board, k) : board'.tag[x] = board.tag[x]
          BY <1>6, <4>1 DEF PoolRows, Residents
        <4>3. Managed(board', k) = Managed(board, k) /\ Foreign(board', k) = Foreign(board, k)
          BY <4>1, <4>2 DEF Managed, Foreign
        <4> QED BY <4>3 DEF CensusConverged
      <3> QED BY <3>1, <3>2
    <2>10. Carries(board, board', hand, V) BY <1>6, <1>9, <2>7, <2>9 DEF Carries
    <2> QED BY <1>1, <1>2, <1>9, <1>10, <2>6, <2>10, PopulatedOn DEF Advance
  <1>12. CASE hand \in Dpnis
    <2>1. hand \notin Pool BY <1>12, BoardAssumption
    <2>2. /\ board.tag[hand] = None /\ p \in Peers /\ Stamping(queue, 0, c, p)
          /\ Unmet(board, c, p)
      BY <1>1, <1>3, <1>12, StampIs
    <2>3. p # None BY <2>2, BoardAssumption
    <2>4. ASSUME NEW k \in board.live, NEW x \in Peers
          PROVE  Ported(board', k, x) = Ported(board, k, x) \/ (k = c /\ x = p)
      <3>1. x # None BY BoardAssumption
      <3>2. CASE k # c BY <1>5, <1>6, <3>2 DEF Ported, DpniRows, Residents
      <3>3. CASE x # p BY <1>5, <1>6, <2>2, <3>1, <3>3 DEF Ported, DpniRows, Residents
      <3> QED BY <3>2, <3>3
    <2>5. \A t, k : CensusConverged(board', t, k) <=> CensusConverged(board, t, k)
      <3>1. \A o \in Pool : board'.home[o] = board.home[o] /\ board'.tag[o] = board.tag[o]
        BY <1>6, <2>1 DEF Objs
      <3>2. \A k : Managed(board', k) = Managed(board, k) /\ Foreign(board', k) = Foreign(board, k)
        BY <3>1 DEF Managed, Foreign, PoolRows, Residents
      <3> QED BY <3>2 DEF CensusConverged
    <2>6. Carries(board, board', hand, V) BY <1>1, <1>6, <1>9, <1>12, <2>4, <2>5 DEF Carries
    <2>7. Plugging(Tail(queue), 0, c, p)
      <3>1. Plugging(queue, 0 + 1, c, p) BY <2>2 DEF Stamping
      <3> QED BY <1>1, <1>3, <1>8, <3>1, Advanced
    <2>8. Tail(queue)[1].on = c /\ Tail(queue)[1].arg = p BY <2>7 DEF Plugging, Verb
    <2>9. Ported(board', c, p) = {hand} \/ Wired(board', p)
      <3>1. CASE Wired(board, p) BY <1>6, <3>1 DEF Wired
      <3>2. CASE Ported(board, c, p) = {}
        <4>1. \A d \in Dpnis : d # hand => board'.tag[d] = board.tag[d] BY <1>6 DEF Objs
        <4> QED BY <1>5, <1>6, <1>12, <3>2, <4>1 DEF Ported, DpniRows, Residents
      <3> QED BY <2>2, <3>1, <3>2 DEF Unmet
    <2>10. InHand(board', hand, Tail(queue)) BY <1>5, <1>6, <2>1, <2>7, <2>8, <2>9 DEF InHand
    <2>11. InHand(board', hand', queue') BY <1>1, <2>10 DEF Advance
    <2> QED BY <1>1, <1>2, <1>9, <1>10, <2>6, <2>11, PopulatedOn DEF Advance
  <1> QED BY <1>5, <1>11, <1>12 DEF Objs

\* An id that is free and the board with the object made under it.
LEMMA MintedIs ==
  ASSUME IInv, LInv, SInv, NEW op \in {"mintDpni", "mintPool"}, NEW kind \in {Dpnis, Pool},
         Underway(board, hand, queue), Mint(op, kind)
  PROVE  /\ queue # << >> /\ V.op = op /\ Advance /\ UNCHANGED made /\ pc = "population"
         /\ hand' \in kind /\ hand' \in Objs /\ board.home[hand'] = None
         /\ board.tag[hand'] = None /\ hand' \notin board.hidden /\ hand' \notin board.plugged
         /\ board'.live = board.live /\ board'.name = board.name /\ board'.driver = board.driver
         /\ board'.home[hand'] = V.on
         /\ \A o \in Objs : o # hand' => board'.home[o] = board.home[o]
         /\ board'.tag = board.tag /\ board'.edge = board.edge /\ board'.plugged = board.plugged
         /\ \A o \in board'.hidden : o \in board.hidden \/ (o = hand' /\ board.driver[V.on] = "vfio")
  <1> DEFINE o == NextId(FreeIds(board, kind))
  <1>1. /\ queue # << >> /\ Advance /\ UNCHANGED made /\ V.op = op
        /\ FreeIds(board, kind) # {} /\ hand' = o /\ board' = Minted(board, o, V.on)
    BY DEF Mint, Next1, V
  <1>2. o \in FreeIds(board, kind)
    <2>1. FreeIds(board, kind) \subseteq Nat BY BoardAssumption DEF FreeIds
    <2> QED BY <1>1, <2>1, NextIdIn
  <1> HIDE DEF o
  <1>3. pc = "population" /\ board \in Boards /\ Consistent(board) BY <1>1, PhaseIs, HeadLife
  <1>4. PICK c : c = V.on /\ c \in Dprcs /\ c # None BY <1>1, <1>3, UnderwayHead
  <1>5. o \in kind /\ o \in Objs /\ board.home[o] = None BY <1>2 DEF FreeIds, Objs
  <1>6. board.tag[o] = None /\ o \notin board.hidden /\ o \notin board.plugged
    <2>1. None \notin board.live BY <1>3, BoardAssumption DEF Boards
    <2> QED BY <1>3, <1>5, <2>1 DEF Consistent
  <1> HIDE DEF V
  <1>7. board' = Minted(board, o, c) BY <1>1, <1>4
  <1>8. /\ board'.live = board.live /\ board'.name = board.name /\ board'.driver = board.driver
        /\ board'.home[o] = c
        /\ \A x \in Objs : x # o => board'.home[x] = board.home[x]
        /\ board'.tag = board.tag /\ board'.edge = board.edge /\ board'.plugged = board.plugged
        /\ \A x \in board'.hidden : x \in board.hidden \/ (x = o /\ board.driver[c] = "vfio")
    BY <1>3, <1>5, <1>7 DEF Minted, Boards
  <1> QED BY <1>1, <1>3, <1>4, <1>5, <1>6, <1>8

\* A port or a companion is made, without a label yet.
LEMMA MintServe ==
  ASSUME IInv, LInv, SInv, Underway(board, hand, queue), UNCHANGED given,
         Mint("mintDpni", Dpnis) \/ Mint("mintPool", Pool)
  PROVE  SInv'
  <1>1. PICK op \in {"mintDpni", "mintPool"}, kind \in {Dpnis, Pool} :
          /\ op = "mintDpni" => kind = Dpnis
          /\ op = "mintPool" => kind = Pool
          /\ Mint(op, kind)
    <2>1. CASE Mint("mintDpni", Dpnis) BY <2>1
    <2>2. CASE Mint("mintPool", Pool) BY <2>2
    <2> QED BY <2>1, <2>2
  <1> DEFINE c == V.on
             p == V.arg
             o == hand'
  <1>2. /\ queue # << >> /\ V.op = op /\ Advance /\ UNCHANGED made /\ pc = "population"
        /\ o \in kind /\ o \in Objs /\ board.home[o] = None
        /\ board.tag[o] = None /\ o \notin board.hidden /\ o \notin board.plugged
        /\ board'.live = board.live /\ board'.name = board.name /\ board'.driver = board.driver
        /\ board'.home[o] = c
        /\ \A x \in Objs : x # o => board'.home[x] = board.home[x]
        /\ board'.tag = board.tag /\ board'.edge = board.edge /\ board'.plugged = board.plugged
        /\ \A x \in board'.hidden : x \in board.hidden \/ (x = o /\ board.driver[c] = "vfio")
    BY <1>1, MintedIs
  <1>3. /\ c \in board.live /\ V \in Verbs /\ V = queue[1] /\ queue \in Seq(Verbs)
        /\ c # None /\ Tail(queue) # << >> /\ Windows(queue) /\ Fresh(board, queue)
        /\ Apt(board, V) /\ board \in Boards
        /\ \A i, k \in 1..Len(queue) : Apart(queue[i], queue[k])
    <2>1. V.op # "done" BY <1>1, <1>2
    <2> QED BY <1>2, <2>1, UnderwayHead
  <1> HIDE DEF V
  <1>4. /\ Len(queue) \in Nat /\ Len(queue) # 0 /\ Len(Tail(queue)) = Len(queue) - 1
        /\ \A i \in 1..(Len(queue) - 1) : Tail(queue)[i] = queue[i+1] /\ i + 1 \in 1..Len(queue)
        /\ Tail(queue) \in Seq(Verbs) /\ Len(Tail(queue)) # 0 /\ 1 \in 1..Len(queue)
    BY <1>2, <1>3, Behead
  <1>5. 0 \in Nat /\ 0 < Len(queue) /\ 1 < Len(queue) /\ Tail(queue)[1] = queue[1+1] BY <1>4
  <1>6. Mints(V) /\ V.op \notin {"done", "connect", "plug", "stamp", "judge", "bind", "unbind"}
    BY <1>1, <1>2 DEF Mints
  <1>7. Shows(board, board', hand, hand', V, Inherited, Inherited')
    <2>1. \A x \in Inherited : x \in Inherited' \/ x = hand BY <1>2, InheritedStays DEF Advance
    <2>2. ASSUME NEW d \in Dpnis
          PROVE  /\ \/ board'.home[d] = board.home[d]
                    \/ /\ V.op = "mintDpni" /\ d = o /\ board.home[d] = None
                       /\ board'.home[d] = c /\ d \in board'.hidden => board.driver[c] = "vfio"
                 /\ board.home[d] # None =>
                      (d \in board.plugged => d \in board'.plugged)
                      /\ (d \in board'.hidden => d \in board.hidden)
      <3>1. d \in Objs /\ (op = "mintPool" => d # o) BY <1>1, <1>2, BoardAssumption DEF Objs
      <3> QED BY <1>1, <1>2, <3>1
    <2> QED BY <1>2, <1>6, <2>1, <2>2 DEF Shows
  <1>8. \A k, x : k # None /\ x # None => Ported(board', k, x) = Ported(board, k, x)
    BY <1>2 DEF Ported, DpniRows, Residents
  <1>9. \A t, k : k # None => (CensusConverged(board', t, k) <=> CensusConverged(board, t, k))
    <2>1. None \notin Declared BY DeclaredIs
    <2>2. ASSUME NEW k, k # None PROVE Managed(board', k) = Managed(board, k)
      BY <1>2, <2>1, <2>2 DEF Managed, PoolRows, Residents
    <2>3. ASSUME NEW k, k # None PROVE Foreign(board', k) = Foreign(board, k)
      BY <1>2, <2>3 DEF Foreign, PoolRows, Residents
    <2> QED BY <2>2, <2>3 DEF CensusConverged
  <1>10. Carries(board, board', hand, V)
    <2>1. None \notin board.live /\ None \notin Peers BY <1>3, BoardAssumption DEF Boards
    <2> QED BY <1>2, <1>6, <1>8, <1>9, <2>1 DEF Carries
  <1>11. InHand(board', hand', Tail(queue))
    <2>1. CASE op = "mintPool"
      <3>1. Adding(queue, 0 + 1, c, p) BY <1>2, <1>3, <1>4, <2>1 DEF Windows
      <3>2. Adding(Tail(queue), 0, c, p) BY <1>2, <1>3, <1>5, <3>1, Advanced
      <3>3. Tail(queue)[1].on = c /\ Tail(queue)[1].arg = p BY <3>2 DEF Adding, Verb
      <3>4. o \notin Dpnis BY <1>1, <1>2, <2>1, BoardAssumption
      <3> QED BY <1>2, <3>2, <3>3, <3>4 DEF InHand
    <2>2. CASE op = "mintDpni"
      <3>1. Stamping(queue, 0 + 1, c, p) BY <1>2, <1>3, <1>4, <2>2 DEF Windows
      <3>2. Stamping(Tail(queue), 0, c, p) BY <1>2, <1>3, <1>5, <3>1, Advanced
      <3>3. Tail(queue)[1].on = c /\ Tail(queue)[1].arg = p BY <3>2 DEF Stamping, Verb
      <3>4. p \in Peers /\ p # None BY <1>2, <1>3, <2>2, BoardAssumption DEF Apt
      <3>5. Unmet(board', c, p)
        <4>1. 1..(1-1) = {} OBVIOUS
        <4>2. ~Ahead(queue, 1, Plugs(p)) BY <4>1 DEF Ahead
        <4>3. Unmet(board, c, p) BY <1>2, <1>3, <1>4, <2>2, <4>2 DEF Fresh
        <4> QED BY <1>2, <1>3, <1>8, <3>4, <4>3 DEF Unmet, Wired
      <3>6. ASSUME NEW k \in 1..Len(Tail(queue)), Aims(Tail(queue)[k])
            PROVE  Tail(queue)[k].on # c \/ Tail(queue)[k].arg # p
        <4>1. k \in 1..(Len(queue) - 1) /\ Tail(queue)[k] = queue[k+1] /\ k + 1 \in 1..Len(queue)
          BY <1>4
        <4>2. Apart(queue[1], queue[k+1]) BY <1>3, <1>4, <4>1
        <4> QED BY <1>2, <1>3, <2>2, <3>6, <4>1, <4>2 DEF Apart
      <3>7. o \notin Pool BY <1>1, <1>2, <2>2, BoardAssumption
      <3> QED BY <1>2, <3>2, <3>3, <3>4, <3>5, <3>6, <3>7 DEF InHand
    <2> QED BY <2>1, <2>2
  <1>12. InHand(board', hand', queue') BY <1>2, <1>11 DEF Advance
  <1> QED BY <1>2, <1>6, <1>7, <1>10, <1>12, PopulatedOn DEF Advance

(* What happens around a run, and the phases before and after a population.   *)

\* What a run plans from: all of a board but what is locked, scanned and drawn.
Alike(b, n) ==
  /\ n.live = b.live /\ n.name = b.name /\ n.driver = b.driver /\ n.over = b.over
  /\ n.home = b.home /\ n.tag = b.tag /\ n.plugged = b.plugged
  /\ n.edge = b.edge /\ n.hidden = b.hidden

\* Residents, matching and census are read off what boards alike share.
LEMMA AlikeRows ==
  ASSUME NEW b, NEW n, Alike(b, n)
  PROVE  /\ \A c : DpniRows(n, c) = DpniRows(b, c) /\ PoolRows(n, c) = PoolRows(b, c)
         /\ \A c, p : /\ Ported(n, c, p) = Ported(b, c, p) /\ PortRow(n, c, p) = PortRow(b, c, p)
                      /\ NeedsConnect(n, c, p) <=> NeedsConnect(b, c, p)
         /\ \A t : Handle(n, t) = Handle(b, t)
         /\ \A p : Wired(n, p) <=> Wired(b, p)
         /\ \A t, c : /\ CensusConverged(n, t, c) <=> CensusConverged(b, t, c)
                      /\ PlanConverged(n, t, c) <=> PlanConverged(b, t, c)
  <1>1. \A c : DpniRows(n, c) = DpniRows(b, c) /\ PoolRows(n, c) = PoolRows(b, c)
    BY DEF Alike, DpniRows, PoolRows, Residents
  <1>2. \A c, p : Ported(n, c, p) = Ported(b, c, p) /\ PortRow(n, c, p) = PortRow(b, c, p)
    BY <1>1 DEF Alike, Ported, PortRow
  <1>3. \A c, p : NeedsConnect(n, c, p) <=> NeedsConnect(b, c, p) BY <1>2 DEF Alike, NeedsConnect
  <1>4. \A t : Handle(n, t) = Handle(b, t) BY DEF Alike, Handle
  <1>5. \A p : Wired(n, p) <=> Wired(b, p) BY DEF Alike, Wired
  <1>6. \A t, c : CensusConverged(n, t, c) <=> CensusConverged(b, t, c)
    BY <1>1 DEF Alike, CensusConverged, Managed, Foreign
  <1>7. \A t, c : PlanConverged(n, t, c) <=> PlanConverged(b, t, c) BY <1>3, <1>6 DEF PlanConverged
  <1> QED BY <1>1, <1>2, <1>3, <1>4, <1>5, <1>6, <1>7

\* And so is what a run promises.
LEMMA AlikeServe ==
  ASSUME NEW b, NEW n, Alike(b, n), NEW h, NEW q
  PROVE  /\ Manned(b) => Manned(n)
         /\ Complete(b) => Complete(n)
         /\ Raised(b, q) => Raised(n, q)
         /\ \A v : Aside(b, v) => Aside(n, v)
         /\ Underway(b, h, q) => Underway(n, h, q)
  <1>0. /\ \A c : DpniRows(n, c) = DpniRows(b, c)
        /\ \A c, p : /\ Ported(n, c, p) = Ported(b, c, p) /\ PortRow(n, c, p) = PortRow(b, c, p)
                     /\ NeedsConnect(n, c, p) <=> NeedsConnect(b, c, p)
        /\ \A t : Handle(n, t) = Handle(b, t)
        /\ \A p : Wired(n, p) <=> Wired(b, p)
        /\ \A t, c : /\ CensusConverged(n, t, c) <=> CensusConverged(b, t, c)
                     /\ PlanConverged(n, t, c) <=> PlanConverged(b, t, c)
    BY AlikeRows
  <1>1. Manned(b) => Manned(n) BY <1>0 DEF Manned
  <1>2. Complete(b) => Complete(n) BY <1>0 DEF Complete, Served, Seen, Alike
  <1>3. Raised(b, q) => Raised(n, q) BY <1>0 DEF Raised
  <1>4. \A v : Aside(b, v) => Aside(n, v) BY DEF Aside, Alike
  <1>5. Laid(b, h, q) => Laid(n, h, q)
    <2>1. \A v : Apt(b, v) => Apt(n, v) BY AptStill DEF Alike
    <2>2. \A v : Aimed(b, v) => Aimed(n, v) BY <1>0 DEF Aimed
    <2>3. \A c, p : Unmet(b, c, p) => Unmet(n, c, p) BY <1>0 DEF Unmet
    <2>4. Fresh(b, q) => Fresh(n, q) BY <2>3 DEF Fresh
    <2>5. Early(b, q) => Early(n, q) BY DEF Early, Alike
    <2>6. InHand(b, h, q) => InHand(n, h, q) BY <1>0, <2>3 DEF InHand, Alike
    <2> QED BY <2>1, <2>2, <2>4, <2>5, <2>6 DEF Laid
  <1>6. \A c : Doomed(b, q, c) <=> Doomed(n, q, c) BY DEF Doomed, Barred, Alike
  <1>7. \A t, c : Willed(b, q, t, c) => Willed(n, q, t, c) BY <1>0, <1>6 DEF Willed, Assured, Alike
  <1>8. \A c : Sighted(b, h, q, c, Inherited) => Sighted(n, h, q, c, Inherited)
    BY <1>0, <1>6 DEF Sighted, Seen, Alike
  <1>9. Underway(b, h, q) => Underway(n, h, q) BY <1>0, <1>1, <1>5, <1>7, <1>8 DEF Underway
  <1> QED BY <1>1, <1>2, <1>3, <1>4, <1>9

\* A step that only the environment sees.
LEMMA AroundServe ==
  ASSUME SInv, Alike(board, board'), UNCHANGED <<given, pc, queue, hand, outcome, before, made>>
  PROVE  SInv'
  <1>0. UNCHANGED roll /\ Tenants' = Tenants BY RollStands DEF given
  <1>1. Inherited' = Inherited BY DEF Inherited, LeftBehind
  <1>2. AsFound => AsFound' BY DEF AsFound, Alike
  <1>3. Raised(board, queue) => Raised(board, queue)'
    <2>1. \A t : Handle(board', t) = Handle(board, t) BY AlikeRows
    <2> QED BY <1>0, <2>1 DEF Raised, Closed
  <1>4. Manned(board) => Manned(board)' BY <1>0, AlikeServe, RollStands
  <1>5. Underway(board, hand, queue) => Underway(board, hand, queue)'
    <2>1. Underway(board, hand, queue) => Underway(board', hand, queue) BY AlikeServe
    <2>2. ASSUME Underway(board', hand, queue) PROVE Underway(board, hand, queue)'
      BY <1>0, <1>1, <2>2, UnderwayNext DEF Underway
    <2> QED BY <2>1, <2>2
  <1>6. Complete(board) => Complete(board)'
    <2>1. Complete(board) => Complete(board') BY AlikeServe
    <2>2. \A t, c : CensusConverged(board, t, c)' <=> CensusConverged(board', t, c)
      BY <1>0, RollStands
    <2>3. Complete(board') => Complete(board)'
      BY <1>0, <1>1, <2>2 DEF Complete, Served, PlanConverged
    <2> QED BY <2>1, <2>3
  <1>7. \A i \in 1..Len(queue) : Aside(board, queue[i]) => Aside(board, queue[i])'
    BY <1>0 DEF Aside, Alike
  <1> QED BY <1>2, <1>3, <1>4, <1>5, <1>6, <1>7 DEF SInv, Stuck

\* A run starts from the board as it is.
LEMMA StartServe ==
  ASSUME IInv, Start, UNCHANGED given
  PROVE  SInv'
  <1>1. /\ pc' = "containers" /\ outcome' = "running" /\ before' = board /\ board' = board
        /\ queue' = << >> /\ made' = {}
    BY DEF Start, IInv, Shape
  <1>2. AsFound' BY <1>1 DEF AsFound
  <1> QED BY <1>1, <1>2 DEF SInv

\* A run that is over, or unwinds.
LEMMA OverServe ==
  ASSUME pc' = "idle" \/ (pc' = "unwind" /\ outcome' = "failed")
  PROVE  SInv'
  BY DEF SInv

\* A container is made for a tenant that has none.
LEMMA SpawnServe ==
  ASSUME IInv, IInv', LInv, SInv, Spawn, UNCHANGED given
  PROVE  SInv'
  <1> DEFINE c == NextId(Dprcs \ board.live)
  <1>1. /\ queue # << >> /\ Advance /\ V.op = "spawn"
        /\ Dprcs \ board.live # {} /\ board' = Spawned(board, c, V.arg)
        /\ made' = made \cup {c}
    BY DEF Spawn, Next1, V
  <1>2. c \in Dprcs \ board.live BY <1>1, NextIdIn, BoardAssumption
  <1> HIDE DEF c
  <1>3. pc = "containers" /\ board \in Boards BY <1>1, PhaseIs
  <1>4. /\ queue \in Seq(Verbs) /\ V = queue[1] /\ Len(queue) \in Nat
        /\ Len(Tail(queue)) = Len(queue) - 1
        /\ \A i \in 1..(Len(queue) - 1) : Tail(queue)[i] = queue[i+1]
    BY <1>1, QueueIs
  <1>5. AsFound /\ Raised(board, queue) /\ outcome = "running" BY <1>1, <1>3 DEF SInv
  <1> HIDE DEF V
  <1>6. /\ board'.home = board.home /\ board'.plugged = board.plugged
        /\ board'.hidden = board.hidden
        /\ \A k \in board.live : k \in board'.live /\ board'.name[k] = board.name[k]
    BY <1>1, <1>2, <1>3 DEF Spawned, Boards
  <1>7. queue' = Tail(queue) /\ pc' = pc /\ outcome' = outcome /\ before' = before
        /\ Tenants' = Tenants
    BY <1>1, RollStands DEF Advance, given
  <1>8. AsFound' BY <1>1, <1>2, <1>5, <1>6, <1>7, BoardAssumption DEF AsFound, Objs
  <1>9. Closed(Tail(queue), "done") /\ Tail(queue) # << >>
    BY <1>1, <1>4, <1>5, ClosedTail DEF Raised
  <1>10. ASSUME NEW t \in Tenants
         PROVE  Handle(board', t) # None
                  \/ \E i \in 1..Len(Tail(queue)) : Tail(queue)[i].op = "verdict" /\ Tail(queue)[i].arg = t
    <2>1. board' \in Boards /\ t \in Names BY TenantIs DEF IInv, Shape, TypeOK
    <2>2. CASE Handle(board, t) # None
      <3>1. Handle(board, t) \in board.live /\ board.name[Handle(board, t)] = t
        BY <1>3, <2>1, <2>2, HandleIs
      <3> QED BY <1>6, <2>1, <3>1, HandleIs
    <2>3. CASE \E i \in 1..Len(queue) : queue[i].op = "verdict" /\ queue[i].arg = t
      <3>1. PICK i \in 1..Len(queue) : queue[i].op = "verdict" /\ queue[i].arg = t BY <2>3
      <3>2. i # 1 BY <1>1, <1>4, <3>1
      <3>3. i - 1 \in 1..Len(Tail(queue)) /\ Tail(queue)[i-1] = queue[i] BY <1>4, <3>2
      <3> QED BY <3>1, <3>3
    <2> QED BY <1>5, <2>2, <2>3 DEF Raised
  <1>11. Raised(board, queue)' BY <1>7, <1>9, <1>10 DEF Raised, Closed
  <1> QED BY <1>3, <1>5, <1>7, <1>8, <1>11 DEF SInv

\* A tenant whose verdict is good has its container.
LEMMA VerdictServe ==
  ASSUME IInv, LInv, SInv, Verdict, UNCHANGED given
  PROVE  SInv'
  <1>1. /\ queue # << >> /\ Advance /\ V.op = "verdict" /\ Handle(board, V.arg) # None
        /\ UNCHANGED <<board, made>>
    BY DEF Verdict, Next1, V
  <1>2. pc = "containers" /\ board \in Boards BY <1>1, PhaseIs
  <1>3. /\ queue \in Seq(Verbs) /\ V = queue[1] /\ Len(queue) \in Nat
        /\ Len(Tail(queue)) = Len(queue) - 1
        /\ \A i \in 1..(Len(queue) - 1) : Tail(queue)[i] = queue[i+1]
    BY <1>1, QueueIs
  <1>4. AsFound /\ Raised(board, queue) /\ outcome = "running" BY <1>1, <1>2 DEF SInv
  <1> HIDE DEF V
  <1>5. queue' = Tail(queue) /\ pc' = pc /\ outcome' = outcome /\ before' = before
        /\ Tenants' = Tenants
    BY <1>1, RollStands DEF Advance, given
  <1>6. AsFound' BY <1>1, <1>4, <1>5 DEF AsFound
  <1>7. Closed(Tail(queue), "done") /\ Tail(queue) # << >>
    BY <1>1, <1>3, <1>4, ClosedTail DEF Raised
  <1>8. ASSUME NEW t \in Tenants, Handle(board, t) = None
        PROVE  \E i \in 1..Len(Tail(queue)) : Tail(queue)[i].op = "verdict" /\ Tail(queue)[i].arg = t
    <2>1. PICK i \in 1..Len(queue) : queue[i].op = "verdict" /\ queue[i].arg = t
      BY <1>4, <1>8 DEF Raised
    <2>2. i # 1 BY <1>1, <1>3, <1>8, <2>1
    <2>3. i - 1 \in 1..Len(Tail(queue)) /\ Tail(queue)[i-1] = queue[i] BY <1>3, <2>2
    <2> QED BY <2>1, <2>3
  <1>9. Raised(board, queue)' BY <1>1, <1>5, <1>7, <1>8 DEF Raised, Closed
  <1> QED BY <1>2, <1>4, <1>5, <1>6, <1>9 DEF SInv

\* A population that is over leaves every tenant served and its ports in sight.
LEMMA CompleteIs ==
  ASSUME IInv, LInv, queue # << >>, pc = "population", Underway(board, hand, queue),
         V.op = "done"
  PROVE  Complete(board)
  <1>1. /\ queue \in Seq(Verbs) /\ V = queue[1] /\ Len(queue) \in Nat BY QueueIs
  <1>2. Manned(board) /\ Closed(queue, "done")
        /\ \A t \in Tenants : /\ Willed(board, queue, t, Handle(board, t))
                              /\ Sighted(board, hand, queue, Handle(board, t), Inherited)
    BY DEF Underway, Laid
  <1> HIDE DEF V
  <1>3. Len(queue) = 1 /\ queue[1].op = "done" BY <1>1, <1>2, ClosedTail
  <1>4. \A i \in 1..Len(queue) : i = 1 BY <1>3
  <1> SUFFICES ASSUME NEW t \in Tenants
               PROVE  /\ Served(board, t)
                      /\ \A d \in DpniRows(board, Handle(board, t)) : Seen(board, d) \/ d \in Inherited
    BY DEF Complete
  <1> DEFINE c == Handle(board, t)
  <1>5. \A S : Owing(queue, S) => queue[1] \in S BY <1>4 DEF Owing
  <1>6. \A S : Ahead(queue, 2, S) => queue[1] \in S
    <2>1. \A j \in 1..(2-1) : j = 1 OBVIOUS
    <2> QED BY <2>1 DEF Ahead
  <1>7. queue[1] \notin On("bind", c) /\ queue[1] \notin On("judge", c)
        /\ \A p : queue[1] \notin Conns(c, p)
    BY <1>3 DEF On, Conns
  <1>8. ~Doomed(board, queue, c) BY <1>5, <1>7 DEF Doomed
  <1>9. Assured(board, queue, t, c) BY <1>2, <1>8 DEF Willed
  <1>10. 2 \in Ends(queue, c) BY <1>3 DEF Ends
  <1>11. PlanConverged(board, t, c) BY <1>6, <1>7, <1>9, <1>10 DEF Assured, PlanConverged
  <1>12. Regime[t] = "vfio" => board.driver[c] = "vfio" BY <1>5, <1>7, <1>9 DEF Assured
  <1>13. \A d \in DpniRows(board, c) : Seen(board, d) \/ d \in Inherited
    BY <1>2, <1>3, <1>8 DEF Sighted
  <1> QED BY <1>2, <1>11, <1>12, <1>13 DEF Served, Manned

\* The promise, said of the next board.
LEMMA CompleteStays ==
  ASSUME UNCHANGED <<roll, before, made>>, Complete(board')
  PROVE  Complete(board)'
  <1>1. \A t, c : CensusConverged(board, t, c)' <=> CensusConverged(board', t, c) BY RollStands
  <1>2. Inherited' = Inherited /\ Tenants' = Tenants BY RollStands DEF Inherited, LeftBehind
  <1> QED BY <1>1, <1>2 DEF Complete, Served, PlanConverged

\* The end of a phase: what it leaves is what the next one plans from.
LEMMA DoneServe ==
  ASSUME IInv, LInv, SInv, PhaseDone, UNCHANGED given
  PROVE  SInv'
  <1>1. /\ queue # << >> /\ V.op = "done" /\ queue' = << >>
        /\ pc' = IF pc = "containers" THEN "population" ELSE "prune"
        /\ UNCHANGED <<board, outcome, before, made, roll>>
    BY DEF PhaseDone, Next1, V, given, history
  <1>2. pc \in {"containers", "population"}
    <2>1. pc \in {"containers", "population", "prune"} /\ Fits(board, pc, V)
      BY <1>1, PhaseIs, HeadLife
    <2> HIDE DEF V
    <2> QED BY <1>1, <2>1 DEF Fits, PhaseOps
  <1>3. outcome = "running" BY <1>2 DEF SInv
  <1>4. queue \in Seq(Verbs) /\ V = queue[1] /\ Len(queue) \in Nat BY <1>1, QueueIs
  <1>5. CASE pc = "containers"
    <2>1. AsFound /\ Raised(board, queue) BY <1>1, <1>5 DEF SInv
    <2>2. Len(queue) = 1 BY <1>1, <1>4, <2>1, ClosedTail DEF Raised
    <2>3. \A i \in 1..Len(queue) : queue[i].op # "verdict" BY <1>1, <1>4, <2>2
    <2>4. Manned(board) BY <2>1, <2>3 DEF Raised, Manned
    <2>5. AsFound' /\ Manned(board)' BY <1>1, <2>1, <2>4, RollStands DEF AsFound
    <2> QED BY <1>1, <1>3, <1>5, <2>5 DEF SInv
  <1>6. CASE pc = "population"
    <2>1. ~Stuck(queue) BY <1>1, <1>4 DEF Stuck
    <2>2. Underway(board, hand, queue) BY <1>1, <1>6, <2>1 DEF SInv
    <2>3. Complete(board') BY <1>1, <1>6, <2>2, CompleteIs
    <2>4. Complete(board)' BY <1>1, <2>3, CompleteStays
    <2> QED BY <1>1, <1>3, <1>6, <2>4 DEF SInv
  <1> QED BY <1>2, <1>5, <1>6

\* A population that met a surplus it cannot shrink only prunes what is not ours.
LEMMA StuckServe ==
  ASSUME IInv, LInv, SInv, Stuck(queue), PruneForeign, UNCHANGED given
  PROVE  SInv'
  <1>1. /\ queue # << >> /\ V.op = "pruneForeign" /\ Advance BY DEF PruneForeign, Next1, V
  <1>2. pc = "population" BY <1>1, PhaseIs
  <1>3. /\ queue \in Seq(Verbs) /\ V = queue[1] /\ Len(queue) \in Nat
        /\ Len(Tail(queue)) = Len(queue) - 1
        /\ \A i \in 1..(Len(queue) - 1) : Tail(queue)[i] = queue[i+1] /\ i + 1 \in 1..Len(queue)
    BY <1>1, QueueIs
  <1> HIDE DEF V
  <1>4. Tail(queue) # << >> /\ Closed(Tail(queue), "belowDraw") BY <1>1, <1>3, ClosedTail DEF Stuck
  <1>5. Stuck(Tail(queue)) BY <1>3, <1>4 DEF Stuck
  <1>6. outcome = "running" BY <1>2 DEF SInv
  <1> QED BY <1>1, <1>2, <1>4, <1>5, <1>6 DEF SInv, Advance

\* The surplus is in use: the rest of the population is given up.
LEMMA BelowServe ==
  ASSUME IInv, LInv, SInv, ReclaimRefused
  PROVE  SInv'
  <1> DEFINE K == {v \in ToSet(queue) : v.op = "pruneForeign" /\ v.on = V.on}
             q == Only(queue, K)
             below == Below(V.on)
  <1>1. /\ queue # << >> /\ V.op = "reclaim"
        /\ queue' = q \o <<below>> /\ UNCHANGED <<pc, outcome>>
    BY DEF ReclaimRefused, Next1, V
  <1>2. pc = "population" /\ queue \in Seq(Verbs) BY <1>1, PhaseIs, QueueIs
  <1>3. \A v \in K : v.op = "pruneForeign" OBVIOUS
  <1> HIDE DEF K
  <1>4. q \in Seq(Verbs \cap K) BY <1>2, OnlyAfter
  <1>5. below.op = "belowDraw" BY DEF Below, Verb
  <1> HIDE DEF q, below
  <1>6. /\ Len(q) \in Nat /\ Len(queue') = Len(q) + 1
        /\ \A i \in 1..Len(q) : queue'[i] = q[i] /\ q[i] \in K
        /\ queue'[Len(q) + 1] = below
    BY <1>1, <1>4
  <1>7. \A i \in 1..Len(queue') : /\ i = Len(q) + 1 => queue'[i].op = "belowDraw"
                                  /\ i # Len(q) + 1 => queue'[i].op = "pruneForeign"
    BY <1>3, <1>5, <1>6
  <1>8. Stuck(queue') BY <1>6, <1>7 DEF Stuck, Closed
  <1>9. queue' # << >> BY <1>6
  <1>10. outcome = "running" BY <1>2 DEF SInv
  <1> QED BY <1>1, <1>2, <1>8, <1>9, <1>10 DEF SInv

\* A step of the prune that leaves every other container as it is.
Elsewhere(b, n, c) ==
  /\ \A k \in Dprcs : k # c => /\ k \in n.live <=> k \in b.live
                               /\ n.name[k] = b.name[k] /\ n.driver[k] = b.driver[k]
  /\ n.name[c] \in {b.name[c], None} /\ n.live \subseteq b.live
  /\ \A o \in Objs : b.home[o] \notin {c, None} =>
       /\ n.home[o] = b.home[o] /\ n.tag[o] = b.tag[o]
       /\ (o \in n.plugged <=> o \in b.plugged) /\ (o \in n.hidden <=> o \in b.hidden)
       /\ o \in Dpnis => n.edge[o] = b.edge[o]
  /\ \A o \in Objs : n.home[o] \in {b.home[o], None}

\* A step elsewhere leaves the tenants served.
LEMMA ElsewhereServed ==
  ASSUME NEW b \in Boards, NEW n, NEW c \in Dprcs, Elsewhere(b, n, c), b.name[c] \notin Tenants,
         None \notin Tenants, Complete(b)
  PROVE  Complete(n) /\ \A v : Aside(b, v) => Aside(n, v)
  <1>1. b.live \subseteq Dprcs /\ n.live \subseteq Dprcs /\ None \notin Dprcs
    BY BoardAssumption DEF Elsewhere, Boards
  <1>2. n.name[c] \notin Tenants BY DEF Elsewhere
  <1>3. \A t \in Tenants : Handle(n, t) = Handle(b, t)
    <2> TAKE t \in Tenants
    <2>1. {k \in n.live : n.name[k] = t} = {k \in b.live : b.name[k] = t}
      BY <1>1, <1>2 DEF Elsewhere
    <2> QED BY <2>1 DEF Handle
  <1>4. ASSUME NEW v, Aside(b, v) PROVE Aside(n, v)
    <2>1. v.on \in Dprcs => n.name[v.on] \in {b.name[v.on], None} BY DEF Elsewhere
    <2>2. v.obj \in Objs => n.home[v.obj] \in {b.home[v.obj], None} BY DEF Elsewhere
    <2> QED BY <1>4, <2>1, <2>2 DEF Aside
  <1>5. ASSUME NEW t \in Tenants
        PROVE  /\ Served(n, t)
               /\ \A d \in DpniRows(n, Handle(n, t)) : Seen(n, d) \/ d \in Inherited
    <2> DEFINE k == Handle(b, t)
    <2>1. /\ k # None /\ PlanConverged(b, t, k)
          /\ Regime[t] = "vfio" => b.driver[k] = "vfio"
          /\ \A d \in DpniRows(b, k) : Seen(b, d) \/ d \in Inherited
      BY DEF Complete, Served
    <2>2. k \in Dprcs /\ k # c
      <3>1. k \in {x \in b.live : b.name[x] = t}
        <4> DEFINE same == {x \in b.live : b.name[x] = t}
        <4>1. same \subseteq Nat BY <1>1, BoardAssumption
        <4>2. same # {} /\ k = Min(same) BY <2>1 DEF Handle
        <4> HIDE DEF same, k
        <4>3. k \in same BY <4>1, <4>2, MinIn
        <4> QED BY <4>3 DEF same
      <3> HIDE DEF k
      <3> QED BY <1>1, <3>1
    <2> HIDE DEF k
    <2>3. /\ \A o \in Objs : n.home[o] = k <=> b.home[o] = k
          /\ \A o \in Objs : b.home[o] = k =>
               /\ n.tag[o] = b.tag[o]
               /\ (o \in n.plugged <=> o \in b.plugged) /\ (o \in n.hidden <=> o \in b.hidden)
               /\ o \in Dpnis => n.edge[o] = b.edge[o]
          /\ n.driver[k] = b.driver[k]
      BY <2>1, <2>2 DEF Elsewhere
    <2>4. DpniRows(n, k) = DpniRows(b, k) /\ PoolRows(n, k) = PoolRows(b, k)
      BY <2>3 DEF DpniRows, PoolRows, Residents
    <2>5. \A o \in DpniRows(b, k) \cup PoolRows(b, k) : n.tag[o] = b.tag[o]
      BY <2>3 DEF DpniRows, PoolRows, Residents
    <2>6. \A d \in DpniRows(b, k) : n.edge[d] = b.edge[d] /\ (Seen(b, d) => Seen(n, d))
      BY <2>3 DEF DpniRows, Residents, Seen
    <2>7. \A p : NeedsConnect(b, k, p) <=> NeedsConnect(n, k, p)
      <3> TAKE p
      <3>1. PortRow(n, k, p) = PortRow(b, k, p) BY <2>4, <2>5 DEF PortRow
      <3>2. PortRow(b, k, p) # None => PortRow(b, k, p) \in DpniRows(b, k)
        BY PortRowIs DEF DpniRows, Residents
      <3> QED BY <2>6, <3>1, <3>2 DEF NeedsConnect
    <2>8. Managed(n, k) = Managed(b, k) /\ Foreign(n, k) = Foreign(b, k)
      BY <2>4, <2>5 DEF Managed, Foreign
    <2>9. PlanConverged(n, t, k) BY <2>1, <2>7, <2>8 DEF PlanConverged, CensusConverged
    <2>10. Handle(n, t) = k BY <1>3 DEF k
    <2> QED BY <2>1, <2>3, <2>4, <2>6, <2>9, <2>10 DEF Served
  <1> QED BY <1>4, <1>5 DEF Complete

\* What a run does not take away from a tenant, it leaves.
LEMMA PrunedOn ==
  ASSUME IInv, LInv, SInv, queue # << >>, pc = "prune", Advance, UNCHANGED <<given, before, made>>,
         board' = board \/ Elsewhere(board, board', V.on), V.op # "pruneVerdict"
  PROVE  SInv'
  <1>1. /\ queue \in Seq(Verbs) /\ V = queue[1] /\ Len(queue) \in Nat /\ Len(queue) # 0
        /\ Len(Tail(queue)) = Len(queue) - 1
        /\ \A i \in 1..(Len(queue) - 1) : Tail(queue)[i] = queue[i+1] /\ i + 1 \in 1..Len(queue)
        /\ board \in Boards
    BY QueueIs, PhaseIs
  <1>2. /\ Complete(board) /\ outcome = "running"
        /\ \A i \in 1..Len(queue) : Aside(board, queue[i])
    BY DEF SInv
  <1> HIDE DEF V
  <1>3. V.on \in Dprcs /\ board.name[V.on] \notin Tenants /\ None \notin Tenants
    <2>1. Aside(board, V) BY <1>1, <1>2
    <2> QED BY <2>1, TenantIs DEF Aside
  <1>4. Complete(board') /\ \A v : Aside(board, v) => Aside(board', v)
    <2>1. CASE board' = board BY <1>2, <2>1
    <2>2. CASE Elsewhere(board, board', V.on) BY <1>1, <1>2, <1>3, <2>2, ElsewhereServed
    <2> QED BY <2>1, <2>2
  <1>5. Complete(board)' BY <1>4, CompleteStays DEF given
  <1>6. queue' = Tail(queue) /\ pc' = pc /\ outcome' = outcome /\ Tenants' = Tenants
    BY RollStands DEF Advance, given
  <1>7. \A i \in 1..Len(Tail(queue)) : Aside(board', Tail(queue)[i]) BY <1>1, <1>2, <1>4
  <1>8. \A i \in 1..Len(queue') : Aside(board, queue[i])' BY <1>6, <1>7 DEF Aside
  <1> QED BY <1>2, <1>5, <1>6, <1>8 DEF SInv

\* A stray is taken down: release, sever, unplug, destroy.
LEMMA ReleaseServe ==
  ASSUME IInv, LInv, SInv, Release \/ Sever \/ UnplugResident \/ Destroy, UNCHANGED given
  PROVE  SInv'
  <1>1. /\ queue # << >> /\ V.op \in {"release", "sever", "unplug", "destroy"}
        /\ Advance /\ UNCHANGED <<before, made>>
    BY DEF Release, Sever, UnplugResident, Destroy, Next1, V, Advance
  <1>2. pc = "prune" /\ board \in Boards BY <1>1, PhaseIs
  <1>3. PICK c \in Dprcs : c = V.on BY <1>1, PhaseIs
  <1>4. V.op \in {"sever", "unplug"} => V.obj \in Objs /\ board.home[V.obj] \in {c, None}
    <2>1. 1 \in 1..Len(queue) /\ V = queue[1] BY <1>1, QueueIs
    <2>2. Aside(board, V) BY <1>2, <2>1 DEF SInv
    <2> HIDE DEF V
    <2> QED BY <1>1, <1>3, <2>2 DEF Aside
  <1>5. CASE Release
    <2>1. board' = board \/ board' = Unbound(board, c) BY <1>3, <1>5 DEF Release
    <2>2. CASE board' = Unbound(board, c)
      <3>1. Elsewhere(board, board', c) BY <1>2, <2>2 DEF Elsewhere, Unbound, Residents, Boards
      <3> QED BY <1>1, <1>2, <1>3, <3>1, PrunedOn
    <2> QED BY <1>1, <1>2, <2>1, <2>2, PrunedOn
  <1>6. CASE Sever
    <2>1. PICK o \in Objs : board.home[o] \in {c, None} /\ board' = Severed(board, o)
      BY <1>4, <1>6 DEF Sever, Next1, V
    <2>2. Elsewhere(board, board', c) BY <1>2, <2>1 DEF Elsewhere, Severed, Boards, Objs
    <2> QED BY <1>1, <1>2, <1>3, <2>2, PrunedOn
  <1>7. CASE UnplugResident
    <2>1. PICK o \in Objs : board.home[o] \in {c, None} /\ board' = Unplugged(board, o)
      BY <1>4, <1>7 DEF UnplugResident, Next1, V
    <2>2. Elsewhere(board, board', c) BY <1>2, <2>1 DEF Elsewhere, Unplugged, Boards, Objs
    <2> QED BY <1>1, <1>2, <1>3, <2>2, PrunedOn
  <1>8. CASE Destroy
    <2>1. board' = Removed(board, c) BY <1>3, <1>8 DEF Destroy
    <2>2. Elsewhere(board, board', c)
      BY <1>2, <2>1 DEF Elsewhere, Removed, Gone, Residents, Boards, Objs
    <2> QED BY <1>1, <1>2, <1>3, <2>2, PrunedOn
  <1> QED BY <1>5, <1>6, <1>7, <1>8

\* A stray that refuses is given up, the others still go.
LEMMA GivenUpServe ==
  ASSUME IInv, LInv, SInv, TeardownRefused, UNCHANGED given
  PROVE  SInv'
  <1> DEFINE K == {v \in ToSet(queue) : v.on # V.on}
  <1>1. /\ queue # << >> /\ V.op \in {"unplug", "destroy"}
        /\ queue' = Only(queue, K) /\ UNCHANGED <<board, pc, outcome, before, made>>
    BY DEF TeardownRefused, Next1, V, history
  <1>2. pc = "prune" /\ queue \in Seq(Verbs) /\ Len(queue) \in Nat BY <1>1, PhaseIs, QueueIs
  <1>3. /\ Complete(board) /\ outcome = "running"
        /\ \A i \in 1..Len(queue) : Aside(board, queue[i])
    BY <1>2 DEF SInv
  <1>4. \A v \in K : Aside(board, v) BY <1>2, <1>3 DEF ToSet
  <1> HIDE DEF K
  <1>5. Only(queue, K) \in Seq(Verbs \cap K) BY <1>2, OnlyAfter
  <1>6. \A i \in 1..Len(queue') : Aside(board, queue'[i]) BY <1>1, <1>4, <1>5
  <1>7. Complete(board)' /\ Tenants' = Tenants BY <1>1, <1>3, CompleteStays, RollStands DEF given
  <1>8. \A i \in 1..Len(queue') : Aside(board, queue[i])' BY <1>1, <1>6, <1>7 DEF Aside
  <1> QED BY <1>1, <1>2, <1>3, <1>7, <1>8 DEF SInv

(* What the prune owes is aside of the tenants. *)

\* The teardown of a stray has no verb on the container of a tenant.
LEMMA TeardownAside ==
  ASSUME NEW b \in Boards, NEW c \in Dprcs, b.name[c] \notin Tenants
  PROVE  TeardownVerbs(b, c) \in Seq({v \in Verbs : Aside(b, v)})
  <1> DEFINE W == {v \in Verbs : Aside(b, v)}
             rows == SetToSeq(DpniRows(b, c))
             plugs == SetToSeq(Residents(b, c) \cap b.plugged)
             Each(op, objs) == [i \in 1..Len(objs) |-> Verb(op, c, None, objs[i])]
  <1>1. ASSUME NEW op \in {"release", "destroy"} PROVE <<Verb(op, c, None, None)>> \in Seq(W)
    <2> DEFINE v == Verb(op, c, None, None)
    <2>1. v \in W BY DEF Verb, Verbs, Ops, Aside
    <2> HIDE DEF v, W
    <2>2. <<v>> \in Seq(W) BY <2>1
    <2> QED BY <2>2 DEF v
  <1>2. ASSUME NEW op \in {"sever", "unplug"}, NEW S \in SUBSET Residents(b, c)
        PROVE  Each(op, SetToSeq(S)) \in Seq(W)
    <2>1. \A o \in S : o \in Objs /\ b.home[o] = c BY DEF Residents
    <2>2. IsFiniteSet(S)
      <3>1. S \subseteq Objs /\ IsFiniteSet(Objs) BY <2>1, BoardAssumption, FS_Union DEF Objs
      <3> QED BY <3>1, FS_Subset
    <2> DEFINE n == Cardinality(S)
               objs == SetToSeq(S)
    <2>3. n \in Nat /\ objs \in [1..n -> S] BY <2>2, SetToSeqIn
    <2> HIDE DEF n, objs
    <2>4. Len(objs) = n BY <2>3
    <2>5. ASSUME NEW i \in 1..n PROVE Verb(op, c, None, objs[i]) \in W
      <3>1. PICK o \in S : o = objs[i] /\ o \in Objs /\ b.home[o] = c BY <2>1, <2>3
      <3>2. Verb(op, c, None, o) \in W BY <3>1 DEF Verb, Verbs, Ops, Aside
      <3> HIDE DEF W
      <3> QED BY <3>1, <3>2
    <2> HIDE DEF W
    <2>6. Each(op, objs) \in [1..n -> W] BY <2>4, <2>5
    <2> HIDE DEF Each
    <2>7. Each(op, objs) \in Seq(W) BY <2>3, <2>6
    <2> QED BY <2>7 DEF objs
  <1> HIDE DEF W
  <1>3. Each("sever", rows) \in Seq(W)
    <2>1. DpniRows(b, c) \in SUBSET Residents(b, c) BY DEF DpniRows
    <2> HIDE DEF Each
    <2> QED BY <1>2, <2>1
  <1>4. Each("unplug", plugs) \in Seq(W)
    <2>1. Residents(b, c) \cap b.plugged \in SUBSET Residents(b, c) OBVIOUS
    <2> HIDE DEF Each
    <2> QED BY <1>2, <2>1
  <1>5. <<Verb("release", c, None, None)>> \in Seq(W) /\ <<Verb("destroy", c, None, None)>> \in Seq(W)
    BY <1>1
  <1>6. TeardownVerbs(b, c) =
          <<Verb("release", c, None, None)>> \o Each("sever", rows) \o Each("unplug", plugs)
            \o <<Verb("destroy", c, None, None)>>
    BY DEF TeardownVerbs
  <1>7. \A s, t \in Seq(W) : s \o t \in Seq(W) OBVIOUS
  <1> HIDE DEF Each, rows, plugs
  <1>8. TeardownVerbs(b, c) \in Seq(W) BY <1>3, <1>4, <1>5, <1>6, <1>7
  <1> QED BY <1>8 DEF W

\* Nor has the plan of a prune.
LEMMA PruneAside ==
  ASSUME NEW b \in Boards
  PROVE  \A i \in 1..Len(PruneVerbs(b)) : Aside(b, PruneVerbs(b)[i])
  <1> DEFINE W == {v \in Verbs : Aside(b, v)}
             C == Candidates(b)
             n == Cardinality(C)
             order == InOrder(C)
             parts == [i \in 1..Len(order) |-> TeardownVerbs(b, order[i])]
             last == Verb("pruneVerdict", None, None, None)
  <1>1. C \subseteq Dprcs /\ C \subseteq Nat /\ \A c \in C : b.name[c] \notin Tenants
    BY BoardAssumption DEF Candidates, Boards
  <1>2. IsFiniteSet(C)
    <2> HIDE DEF C
    <2> QED BY <1>1, FS_Subset, BoardAssumption
  <1> HIDE DEF C
  <1>3. n \in Nat /\ order \in [1..n -> C] BY <1>1, <1>2, InOrderIn
  <1> HIDE DEF n, order
  <1>4. Len(order) = n BY <1>3
  <1>5. parts \in [1..n -> Seq(W)]
    <2>1. ASSUME NEW i \in 1..n PROVE TeardownVerbs(b, order[i]) \in Seq(W)
      <3>1. PICK c \in Dprcs : c = order[i] /\ b.name[c] \notin Tenants BY <1>1, <1>3
      <3>2. TeardownVerbs(b, c) \in Seq(W) BY <3>1, TeardownAside
      <3> HIDE DEF W
      <3> QED BY <3>1, <3>2
    <2> HIDE DEF W
    <2> QED BY <1>4, <2>1
  <1>6. <<last>> \in Seq(W)
    <2>1. last \in W BY DEF Verb, Verbs, Ops, Aside
    <2> HIDE DEF last, W
    <2> QED BY <2>1
  <1>7. PruneVerbs(b) = FlattenSeq(parts) \o <<last>> BY DEF PruneVerbs, order, C
  <1> HIDE DEF parts, last
  <1>8. << >> \in Seq(W) /\ \A s, t \in Seq(W) : s \o t \in Seq(W)
    <2> HIDE DEF W
    <2> QED OBVIOUS
  <1> HIDE DEF W
  <1>9. FlattenSeq(parts) \in Seq(W) BY <1>3, <1>5, <1>8, FlattenIn
  <1>10. PruneVerbs(b) \in Seq(W) BY <1>6, <1>7, <1>8, <1>9
  <1>11. \A i \in 1..Len(PruneVerbs(b)) : PruneVerbs(b)[i] \in W BY <1>10
  <1> QED BY <1>11 DEF W

\* A prune is planned.
LEMMA PrunePlanServe ==
  ASSUME IInv, LInv, SInv, PlanPrune, UNCHANGED given
  PROVE  SInv'
  <1>1. /\ pc = "prune" /\ queue' = PruneVerbs(board)
        /\ UNCHANGED <<board, pc, outcome, before, made, roll>>
    BY DEF PlanPrune, Planning, Owes, PhaseUnchanged, history, given
  <1>2. Complete(board) /\ outcome = "running" /\ board \in Boards BY <1>1, Running DEF SInv
  <1>3. \A i \in 1..Len(queue') : Aside(board', queue'[i])
    <2>1. \A i \in 1..Len(PruneVerbs(board)) : Aside(board, PruneVerbs(board)[i])
      BY <1>2, PruneAside
    <2> QED BY <1>1, <2>1
  <1>4. Complete(board)' /\ Tenants' = Tenants BY <1>1, <1>2, CompleteStays, RollStands
  <1>5. \A i \in 1..Len(queue') : Aside(board, queue[i])' BY <1>3, <1>4 DEF Aside
  <1> QED BY <1>1, <1>2, <1>4, <1>5 DEF SInv

(* The plan of a population keeps the promise it starts with.                 *)

\* A sequence that starts on its own, each creation in it followed by what it needs.
Span(q) == (q # << >> => ~NeedsHand(q[1])) /\ Windows(q)

\* The last verb of two sequences put together.
LEMMA JointEnds ==
  ASSUME NEW s \in Seq(Verbs), NEW t \in Seq(Verbs), t # << >> => ~NeedsHand(t[1]),
         NEW c, NEW p
  PROVE  /\ \A i \in 1..Len(s) : /\ Stamping(s, i, c, p) => Stamping(s \o t, i, c, p)
                                 /\ Adding(s, i, c, p) => Adding(s \o t, i, c, p)
         /\ \A i \in 1..Len(t) : /\ Stamping(t, i, c, p) => Stamping(s \o t, i + Len(s), c, p)
                                 /\ Adding(t, i, c, p) => Adding(s \o t, i + Len(s), c, p)
  <1> DEFINE m == Len(s)
             n == Len(t)
             u == s \o t
  <1>1. /\ m \in Nat /\ n \in Nat /\ Len(u) = m + n
        /\ \A i \in 1..m : u[i] = s[i]
        /\ \A i \in 1..n : u[i + m] = t[i]
    BY Joint
  <1>2. n # 0 => ~NeedsHand(t[1]) /\ 1 \in 1..n OBVIOUS
  <1> HIDE DEF u
  <1>3. ASSUME NEW i \in Nat, i < m PROVE i + 1 \in Nat /\ u[i+1] = s[i+1] /\ i < m + n
    <2>1. i + 1 \in 1..m BY <1>1, <1>3
    <2> QED BY <1>1, <1>3, <2>1
  <1>4. ASSUME NEW i \in Nat, i < n
        PROVE  i + 1 \in Nat /\ u[(i+m)+1] = t[i+1] /\ i + m < m + n /\ (i + m) + 1 = (i + 1) + m
    <2>1. i + 1 \in 1..n /\ (i + m) + 1 = (i + 1) + m BY <1>1, <1>4
    <2> QED BY <1>1, <1>4, <2>1
  <1>5. ASSUME NEW i \in Nat, i <= m, Ended(s, i) PROVE Ended(u, i)
    <2>1. CASE i < m BY <1>1, <1>3, <1>5, <2>1 DEF Ended
    <2>2. CASE i = m
      <3>1. i < m + n => u[i+1] = t[1] /\ n # 0
        <4>1. i < m + n => n # 0 /\ i + 1 = 1 + m BY <1>1, <2>2
        <4> QED BY <1>1, <1>2, <4>1
      <3> QED BY <1>1, <1>2, <3>1 DEF Ended
    <2> QED BY <1>1, <1>5, <2>1, <2>2
  <1>6. ASSUME NEW i \in Nat, i <= n, Ended(t, i) PROVE Ended(u, i + m)
    <2>1. i + m < m + n => i < n BY <1>1
    <2> QED BY <1>1, <1>4, <1>6, <2>1 DEF Ended
  <1> HIDE DEF m, n
  <1>7. \A i \in Nat : i < m => i + 1 <= m BY <1>1
  <1>8. \A i \in Nat : i < n => i + 1 <= n BY <1>1
  <1>9. \A i \in Nat : Wiring(s, i, c, p) => Wiring(u, i, c, p)
    BY <1>1, <1>3, <1>5, <1>7 DEF Wiring, m
  <1>10. \A i \in Nat : Plugging(s, i, c, p) => Plugging(u, i, c, p)
    BY <1>1, <1>3, <1>9 DEF Plugging, m
  <1>11. \A i \in Nat : Stamping(s, i, c, p) => Stamping(u, i, c, p)
    BY <1>1, <1>3, <1>10 DEF Stamping, m
  <1>12. \A i \in Nat : Naming(s, i, c, p) => Naming(u, i, c, p)
    BY <1>1, <1>3, <1>5, <1>7 DEF Naming, m
  <1>13. \A i \in Nat : Adding(s, i, c, p) => Adding(u, i, c, p) BY <1>1, <1>3, <1>12 DEF Adding, m
  <1>14. \A i \in Nat : Wiring(t, i, c, p) => Wiring(u, i + m, c, p)
    BY <1>1, <1>4, <1>6, <1>8 DEF Wiring, n
  <1>15. \A i \in Nat : Plugging(t, i, c, p) => Plugging(u, i + m, c, p)
    BY <1>1, <1>4, <1>14 DEF Plugging, n
  <1>16. \A i \in Nat : Stamping(t, i, c, p) => Stamping(u, i + m, c, p)
    BY <1>1, <1>4, <1>15 DEF Stamping, n
  <1>17. \A i \in Nat : Naming(t, i, c, p) => Naming(u, i + m, c, p)
    BY <1>1, <1>4, <1>6, <1>8 DEF Naming, n
  <1>18. \A i \in Nat : Adding(t, i, c, p) => Adding(u, i + m, c, p)
    BY <1>1, <1>4, <1>17 DEF Adding, n
  <1>19. 1..m \subseteq Nat /\ 1..n \subseteq Nat BY <1>1
  <1> QED BY <1>11, <1>13, <1>16, <1>18, <1>19 DEF m, n, u

\* TwoLong such sequences put together are one.
LEMMA SpansJoin ==
  ASSUME NEW s \in Seq(Verbs), NEW t \in Seq(Verbs), Span(s), Span(t)
  PROVE  Span(s \o t)
  <1> DEFINE u == s \o t
             m == Len(s)
             n == Len(t)
  <1>1. /\ m \in Nat /\ n \in Nat /\ Len(u) = m + n
        /\ \A i \in 1..m : u[i] = s[i]
        /\ \A i \in 1..n : u[i + m] = t[i]
        /\ \A i \in 1..(m + n) : i \in 1..m \/ (i - m \in 1..n /\ i = (i - m) + m)
    BY Joint
  <1>2. \A c, p : /\ \A i \in 1..m : /\ Stamping(s, i, c, p) => Stamping(u, i, c, p)
                                     /\ Adding(s, i, c, p) => Adding(u, i, c, p)
                  /\ \A i \in 1..n : /\ Stamping(t, i, c, p) => Stamping(u, i + m, c, p)
                                     /\ Adding(t, i, c, p) => Adding(u, i + m, c, p)
    BY JointEnds DEF Span
  <1>3. u # << >> => ~NeedsHand(u[1])
    <2>1. CASE s = << >>
      <3>1. u = t BY <2>1
      <3> QED BY <3>1 DEF Span
    <2>2. CASE s # << >>
      <3>1. 1 \in 1..m BY <2>2
      <3> QED BY <1>1, <2>2, <3>1 DEF Span
    <2> QED BY <2>1, <2>2
  <1> HIDE DEF u, m, n
  <1>4. Windows(u)
    <2> SUFFICES ASSUME NEW i \in 1..(m + n)
                 PROVE  /\ u[i].op = "mintDpni" => Stamping(u, i, u[i].on, u[i].arg)
                        /\ u[i].op = "mintPool" => Adding(u, i, u[i].on, u[i].arg)
      BY <1>1 DEF Windows
    <2>1. CASE i \in 1..m
      <3>1. /\ s[i].op = "mintDpni" => Stamping(s, i, s[i].on, s[i].arg)
            /\ s[i].op = "mintPool" => Adding(s, i, s[i].on, s[i].arg)
        BY <2>1 DEF Span, Windows, m
      <3>2. /\ Stamping(s, i, s[i].on, s[i].arg) => Stamping(u, i, s[i].on, s[i].arg)
            /\ Adding(s, i, s[i].on, s[i].arg) => Adding(u, i, s[i].on, s[i].arg)
        BY <1>2, <2>1
      <3>3. u[i] = s[i] BY <1>1, <2>1
      <3> QED BY <3>1, <3>2, <3>3
    <2>2. CASE i \notin 1..m
      <3>1. PICK k \in 1..n : i = k + m BY <1>1, <2>2
      <3>2. /\ t[k].op = "mintDpni" => Stamping(t, k, t[k].on, t[k].arg)
            /\ t[k].op = "mintPool" => Adding(t, k, t[k].on, t[k].arg)
        BY <3>1 DEF Span, Windows, n
      <3>3. /\ Stamping(t, k, t[k].on, t[k].arg) => Stamping(u, k + m, t[k].on, t[k].arg)
            /\ Adding(t, k, t[k].on, t[k].arg) => Adding(u, k + m, t[k].on, t[k].arg)
        BY <1>2, <3>1
      <3>4. u[i] = t[k] BY <1>1, <3>1
      <3> QED BY <3>1, <3>2, <3>3, <3>4
    <2> QED BY <2>1, <2>2
  <1> QED BY <1>3, <1>4 DEF Span, u

\* A child VFIO holds that is to be bound anew.
Turned(b, c) == Regime[b.name[c]] = "vfio" /\ b.driver[c] = "vfio" /\ ~Calm(b, c)

\* The verbs of a plan made on the board b, those of the work before a bind.
Meant(b) ==
  {v \in Verbs : /\ v.op # "done" /\ Apt(b, v) /\ Aimed(b, v)
                 /\ v.op = "mintDpni" => PortRow(b, v.on, v.arg) = None
                 /\ v.op = "unbind" => Turned(b, v.on)}
Loading(b, c) ==
  {v \in Meant(b) : v.on = c /\ v.op \in {"mintDpni", "mintPool", "stamp", "plug", "connect",
                                          "reclaim", "pruneForeign"}}
Loads(b, c) == {q \in Seq(Loading(b, c)) : Span(q)}

\* The work of a child is put together from parts.
LEMMA LoadsJoin ==
  ASSUME NEW b, NEW c
  PROVE  << >> \in Loads(b, c) /\ \A s, t \in Loads(b, c) : s \o t \in Loads(b, c)
  <1>1. << >> \in Loads(b, c) BY DEF Loads, Span, Windows
  <1>2. ASSUME NEW s \in Loads(b, c), NEW t \in Loads(b, c) PROVE s \o t \in Loads(b, c)
    <2>1. s \in Seq(Loading(b, c)) /\ t \in Seq(Loading(b, c)) /\ Span(s) /\ Span(t) BY DEF Loads
    <2>2. Loading(b, c) \subseteq Verbs BY DEF Loading, Meant
    <2>3. s \in Seq(Verbs) /\ t \in Seq(Verbs) BY <2>1, <2>2
    <2>4. s \o t \in Seq(Loading(b, c)) /\ Span(s \o t) BY <2>1, <2>3, SpansJoin
    <2> QED BY <2>4 DEF Loads
  <1> QED BY <1>1, <1>2

\* One verb that creates nothing is such a part.
LEMMA LoneLoad ==
  ASSUME NEW b, NEW c, NEW v \in Loading(b, c), v.op \in {"connect", "reclaim", "pruneForeign"},
         ~NeedsHand(v)
  PROVE  <<v>> \in Loads(b, c)
  <1> DEFINE q == <<v>>
  <1>1. q \in Seq(Loading(b, c)) /\ Len(q) = 1 /\ q[1] = v OBVIOUS
  <1> HIDE DEF q
  <1>2. \A i \in 1..Len(q) : q[i] = v BY <1>1
  <1>3. Span(q) BY <1>1, <1>2 DEF Span, Windows
  <1> QED BY <1>1, <1>3 DEF Loads, q

\* A part repeated is one.
LEMMA RepeatedLoad ==
  ASSUME NEW b, NEW c, NEW n \in Nat, NEW verbs, n # 0 => verbs \in Loads(b, c)
  PROVE  Times(n, verbs) \in Loads(b, c)
  <1> DEFINE parts == [i \in 1..n |-> verbs]
  <1>1. parts \in [1..n -> Loads(b, c)] OBVIOUS
  <1> HIDE DEF parts
  <1>2. FlattenSeq(parts) \in Loads(b, c) BY <1>1, FlattenIn, LoadsJoin
  <1> QED BY <1>2 DEF Times, parts

\* The verbs of a port: with the connect it needs.
LEMMA PortLoad ==
  ASSUME IInv, pc # "idle", NEW c \in board.live, Heir(board, c), NEW p \in Peers
  PROVE  /\ PortVerbs(board, c, p) \in Loads(board, c)
         /\ NeedsConnect(board, c, p) => ToSet(PortVerbs(board, c, p)) \cap Conns(c, p) # {}
  <1>0. p \in Names /\ p # None /\ c # None /\ c \in Dprcs /\ board \in Boards
    BY PlanAssumption, BoardAssumption, Running
  <1>1. CASE PortRow(board, c, p) = None
    <2> DEFINE q == <<Verb("mintDpni", c, p, None), Verb("stamp", c, p, None),
                      Verb("plug", c, p, None), Verb("connect", c, p, None)>>
    <2>1. ASSUME NEW op \in {"mintDpni", "stamp", "plug", "connect"}
          PROVE  Verb(op, c, p, None) \in Loading(board, c) /\ Verb(op, c, p, None) \in Verbs
      <3>1. Verb(op, c, p, None) \in Verbs BY <1>0 DEF Verb, Verbs, Ops
      <3>2. Apt(board, Verb(op, c, p, None)) /\ Aimed(board, Verb(op, c, p, None))
        BY <1>0 DEF Verb, Apt, PhaseOps, Aimed, Aims
      <3> QED BY <1>1, <3>1, <3>2 DEF Loading, Meant, Verb
    <2>2. /\ q \in Seq(Loading(board, c)) /\ Len(q) = 4 /\ q # << >>
          /\ q[1] = Verb("mintDpni", c, p, None) /\ q[2] = Verb("stamp", c, p, None)
          /\ q[3] = Verb("plug", c, p, None) /\ q[4] = Verb("connect", c, p, None)
      BY <2>1
    <2>3. PortVerbs(board, c, p) = q BY <1>1 DEF PortVerbs
    <2> HIDE DEF q
    <2>4. Stamping(q, 1, c, p)
      <3>1. Ended(q, 3 + 1) BY <2>2 DEF Ended
      <3>2. Wiring(q, 2 + 1, c, p) BY <2>2, <3>1 DEF Wiring
      <3>3. Plugging(q, 1 + 1, c, p) BY <2>2, <3>2 DEF Plugging
      <3> QED BY <2>2, <3>3 DEF Stamping
    <2>5. \A i \in 1..4 : i = 1 \/ q[i].op \in {"stamp", "plug", "connect"}
      <3>1. \A i \in 1..4 : i = 1 \/ i = 2 \/ i = 3 \/ i = 4 OBVIOUS
      <3> QED BY <2>2, <3>1 DEF Verb
    <2>6. q[1].op = "mintDpni" /\ q[1].on = c /\ q[1].arg = p /\ ~NeedsHand(q[1])
      BY <2>2 DEF Verb, NeedsHand
    <2>7. Span(q) BY <2>2, <2>4, <2>5, <2>6 DEF Span, Windows
    <2>8. q[4] \in Conns(c, p) BY <2>1, <2>2 DEF Conns, Verb
    <2>9. q[4] \in ToSet(q) BY <2>2 DEF ToSet
    <2> QED BY <2>2, <2>3, <2>7, <2>8, <2>9 DEF Loads
  <1>2. CASE PortRow(board, c, p) # None /\ NeedsConnect(board, c, p)
    <2>1. PICK d \in Dpnis : d = PortRow(board, c, p) /\ d \in Objs /\ d # None /\ board.home[d] = c
      BY <1>2, PortRowIs
    <2> DEFINE v == Verb("connect", c, p, d)
    <2>2. v \in Verbs BY <1>0, <2>1 DEF Verb, Verbs, Ops
    <2>3. Apt(board, v) /\ Aimed(board, v) BY <1>0, <2>1 DEF Verb, Apt, PhaseOps, Aimed, Aims
    <2>4. v \in Loading(board, c) /\ v.op = "connect" /\ ~NeedsHand(v) /\ v \in Conns(c, p)
      BY <2>1, <2>2, <2>3 DEF Loading, Meant, Verb, NeedsHand, Conns
    <2>5. PortVerbs(board, c, p) = <<v>> BY <1>2, <2>1 DEF PortVerbs
    <2> HIDE DEF v
    <2>6. <<v>> \in Loads(board, c) BY <2>4, LoneLoad
    <2>7. v \in ToSet(<<v>>) BY DEF ToSet
    <2> QED BY <2>4, <2>5, <2>6, <2>7
  <1>3. CASE PortRow(board, c, p) # None /\ ~NeedsConnect(board, c, p)
    BY <1>3, LoadsJoin DEF PortVerbs
  <1> QED BY <1>1, <1>2, <1>3

\* The verbs of the companions.
LEMMA PoolLoad ==
  ASSUME IInv, pc # "idle", NEW c \in board.live, Heir(board, c), NEW t \in Tenants,
         board.name[c] = t
  PROVE  PoolVerbs(board, t, c) \in Loads(board, c)
  <1>0. /\ t \in Names /\ t # None /\ Need[t] \in Nat /\ c # None /\ c \in Dprcs
        /\ board \in Boards
    BY TenantIs, BoardAssumption, Running
  <1>1. /\ Cardinality(Managed(board, c)) \in Nat /\ Cardinality(Foreign(board, c)) \in Nat
    <2>1. IsFiniteSet(Managed(board, c)) /\ IsFiniteSet(Foreign(board, c))
      <3>1. Managed(board, c) \subseteq Pool /\ Foreign(board, c) \subseteq Pool
        BY DEF Managed, Foreign, PoolRows
      <3> QED BY <3>1, BoardAssumption, FS_Subset
    <2> QED BY <2>1, FS_CardinalityType
  <1>2. Deficit(board, t, c) \in Nat /\ Surplus(board, t, c) \in Nat
    BY <1>0, <1>1 DEF Deficit, Surplus
  <1>3. ASSUME NEW op \in {"mintPool", "plug", "stamp", "reclaim", "pruneForeign"}
        PROVE  Verb(op, c, t, None) \in Loading(board, c)
    <2>1. Verb(op, c, t, None) \in Verbs BY <1>0 DEF Verb, Verbs, Ops
    <2>2. Apt(board, Verb(op, c, t, None)) /\ Aimed(board, Verb(op, c, t, None))
      BY <1>0 DEF Verb, Apt, PhaseOps, Aimed, Aims
    <2> QED BY <2>1, <2>2 DEF Loading, Meant, Verb
  <1> DEFINE grow == <<Verb("mintPool", c, t, None), Verb("plug", c, t, None), Verb("stamp", c, t, None)>>
             shrink == <<Verb("reclaim", c, t, None)>>
             foreign == <<Verb("pruneForeign", c, t, None)>>
  <1>4. grow \in Loads(board, c)
    <2>1. /\ grow \in Seq(Loading(board, c)) /\ Len(grow) = 3 /\ grow # << >>
          /\ grow[1] = Verb("mintPool", c, t, None) /\ grow[2] = Verb("plug", c, t, None)
          /\ grow[3] = Verb("stamp", c, t, None)
      BY <1>3
    <2> HIDE DEF grow
    <2>2. Adding(grow, 1, c, t)
      <3>1. Ended(grow, 2 + 1) BY <2>1 DEF Ended
      <3>2. Naming(grow, 1 + 1, c, t) BY <2>1, <3>1 DEF Naming
      <3> QED BY <2>1, <3>2 DEF Adding
    <2>3. \A i \in 1..3 : i = 1 \/ grow[i].op \in {"stamp", "plug"}
      <3>1. \A i \in 1..3 : i = 1 \/ i = 2 \/ i = 3 OBVIOUS
      <3> QED BY <2>1, <3>1 DEF Verb
    <2>4. grow[1].op = "mintPool" /\ grow[1].on = c /\ grow[1].arg = t /\ ~NeedsHand(grow[1])
      BY <2>1 DEF Verb, NeedsHand
    <2>5. Span(grow) BY <2>1, <2>2, <2>3, <2>4 DEF Span, Windows
    <2> QED BY <2>1, <2>5 DEF Loads
  <1>5. ASSUME NEW op \in {"reclaim", "pruneForeign"}
        PROVE  <<Verb(op, c, t, None)>> \in Loads(board, c)
    <2> DEFINE v == Verb(op, c, t, None)
    <2>1. v \in Loading(board, c) /\ v.op \in {"reclaim", "pruneForeign"} /\ ~NeedsHand(v)
      BY <1>3 DEF NeedsHand, Verb
    <2> HIDE DEF v
    <2>2. <<v>> \in Loads(board, c) BY <2>1, LoneLoad
    <2> QED BY <2>2 DEF v
  <1>6. shrink \in Loads(board, c) /\ foreign \in Loads(board, c) BY <1>5
  <1> HIDE DEF grow, shrink, foreign
  <1>7. Times(Deficit(board, t, c), grow) \in Loads(board, c) BY <1>2, <1>4, RepeatedLoad
  <1>8. Times(Surplus(board, t, c), shrink) \in Loads(board, c) BY <1>2, <1>6, RepeatedLoad
  <1>9. Times(Cardinality(Foreign(board, c)), foreign) \in Loads(board, c)
    BY <1>1, <1>6, RepeatedLoad
  <1>10. PoolVerbs(board, t, c) =
           Times(Deficit(board, t, c), grow) \o Times(Surplus(board, t, c), shrink)
             \o Times(Cardinality(Foreign(board, c)), foreign)
    BY DEF PoolVerbs, grow, shrink, foreign
  <1> QED BY <1>7, <1>8, <1>9, <1>10, LoadsJoin

\* What a bind needs comes before it, and a residents' count is judged after it
\* changed and before the next bind.
Secured(b, q, i, c) ==
  /\ \A p \in ToSet(Ports[b.name[c]]) : Ahead(q, i, Conns(c, p)) \/ ~NeedsConnect(b, c, p)
  /\ Ahead(q, i, On("judge", c)) \/ CensusConverged(b, b.name[c], c)
Handed(b, q, i) ==
  LET c == q[i].on
  IN q[i].op = "bind" =>
       IF Turned(b, c) THEN i > 1 /\ q[i-1] \in On("unbind", c) ELSE Secured(b, q, i, c)
Reviewed(b, q, i) ==
  LET c == q[i].on
  IN q[i] \in Recounts(c) /\ ~Turned(b, c) =>
       \E k \in (i+1)..Len(q) : /\ q[k] \in On("judge", c)
                                /\ \A j \in i..k : q[j] \notin On("bind", c)
BoundAfter(b, q, i) ==
  q[i].op = "mintDpni" /\ Regime[b.name[q[i].on]] = "vfio" =>
    \E j \in (i+1)..Len(q) : q[j] \in On("bind", q[i].on)
Well(b, q) ==
  /\ Span(q)
  /\ \A i \in 1..Len(q) : Handed(b, q, i) /\ Reviewed(b, q, i) /\ BoundAfter(b, q, i)

\* TwoLong plans put together are one.
LEMMA WellJoin ==
  ASSUME NEW b, NEW s \in Seq(Verbs), NEW t \in Seq(Verbs), Well(b, s), Well(b, t)
  PROVE  Well(b, s \o t)
  <1> DEFINE u == s \o t
             m == Len(s)
             n == Len(t)
  <1>1. /\ m \in Nat /\ n \in Nat /\ Len(u) = m + n
        /\ \A i \in 1..m : u[i] = s[i]
        /\ \A i \in 1..n : u[i + m] = t[i]
        /\ \A i \in 1..(m + n) : i \in 1..m \/ (i - m \in 1..n /\ i = (i - m) + m)
    BY Joint
  <1>2. Span(u) BY SpansJoin DEF Well
  <1> HIDE DEF u, m, n
  <1>3. ASSUME NEW i \in 1..m PROVE Handed(b, u, i) /\ Reviewed(b, u, i) /\ BoundAfter(b, u, i)
    <2>1. /\ u[i] = s[i] /\ Handed(b, s, i) /\ Reviewed(b, s, i) /\ BoundAfter(b, s, i)
      BY <1>1 DEF Well, m
    <2>2. \A S : Ahead(s, i, S) => Ahead(u, i, S)
      <3>1. \A j \in 1..(i-1) : j \in 1..m BY <1>1
      <3> QED BY <1>1, <3>1 DEF Ahead
    <2>3. i > 1 => u[i-1] = s[i-1]
      <3>1. i > 1 => i - 1 \in 1..m BY <1>1
      <3> QED BY <1>1, <3>1
    <2>4. Handed(b, u, i) BY <2>1, <2>2, <2>3 DEF Handed, Secured
    <2>5. \A k \in (i+1)..m : k \in (i+1)..(m+n) /\ k \in 1..m /\ i..k \subseteq 1..m BY <1>1
    <2>6. Reviewed(b, u, i) BY <1>1, <2>1, <2>5 DEF Reviewed, m
    <2>7. BoundAfter(b, u, i) BY <1>1, <2>1, <2>5 DEF BoundAfter, m
    <2> QED BY <2>4, <2>6, <2>7
  <1>4. ASSUME NEW k \in 1..n
        PROVE  Handed(b, u, k + m) /\ Reviewed(b, u, k + m) /\ BoundAfter(b, u, k + m)
    <2>1. /\ u[k+m] = t[k] /\ Handed(b, t, k) /\ Reviewed(b, t, k) /\ BoundAfter(b, t, k)
      BY <1>1 DEF Well, n
    <2>2. \A S : Ahead(t, k, S) => Ahead(u, k + m, S)
      <3> SUFFICES ASSUME NEW S, NEW j \in 1..(k-1), t[j] \in S PROVE Ahead(u, k + m, S)
        BY DEF Ahead
      <3>1. j + m \in 1..((k+m)-1) /\ u[j+m] = t[j] BY <1>1
      <3> QED BY <3>1 DEF Ahead
    <2>3. k > 1 => k + m > 1 /\ u[(k+m)-1] = t[k-1]
      <3>1. k > 1 => k - 1 \in 1..n /\ (k + m) - 1 = (k - 1) + m /\ k + m > 1 BY <1>1
      <3> QED BY <1>1, <3>1
    <2>4. Handed(b, u, k + m) BY <2>1, <2>2, <2>3 DEF Handed, Secured
    <2>5. \A j \in (k+1)..n : j + m \in ((k+m)+1)..(m+n) /\ u[j+m] = t[j] BY <1>1
    <2>6. Reviewed(b, u, k + m)
      <3> DEFINE c == t[k].on
      <3> SUFFICES ASSUME t[k] \in Recounts(c), ~Turned(b, c)
                   PROVE  \E l \in ((k+m)+1)..(m+n) : /\ u[l] \in On("judge", c)
                            /\ \A j \in (k+m)..l : u[j] \notin On("bind", c)
        BY <1>1, <2>1 DEF Reviewed
      <3>1. PICK l \in (k+1)..n : t[l] \in On("judge", c) /\ \A j \in k..l : t[j] \notin On("bind", c)
        BY <2>1 DEF Reviewed, n
      <3>2. \A j \in (k+m)..(l+m) : j - m \in k..l /\ j - m \in 1..n /\ j = (j - m) + m
        BY <1>1, <3>1
      <3>3. \A j \in (k+m)..(l+m) : u[j] = t[j - m] BY <1>1, <3>2
      <3> HIDE DEF c
      <3> QED BY <2>5, <3>1, <3>2, <3>3
    <2>7. BoundAfter(b, u, k + m) BY <1>1, <2>1, <2>5 DEF BoundAfter, n
    <2> QED BY <2>4, <2>6, <2>7
  <1>5. \A i \in 1..(m + n) : Handed(b, u, i) /\ Reviewed(b, u, i) /\ BoundAfter(b, u, i)
    <2>1. \A i \in 1..(m + n) : i \in 1..m \/ \E k \in 1..n : i = k + m BY <1>1
    <2> QED BY <1>3, <1>4, <2>1
  <1> QED BY <1>1, <1>2, <1>5 DEF Well, u

\* The work of a child, then the verbs that judge it and hand it over.
LEMMA ChunkWell ==
  ASSUME NEW b, NEW c, NEW l \in Loads(b, c), NEW z \in Seq(Meant(b)),
         \A k \in 1..Len(z) : z[k].on = c /\ z[k].op \in {"judge", "kernelBind", "override", "bind", "unbind"},
         \A k \in 1..Len(z) : z[k].op = "bind" =>
           IF Turned(b, c) THEN k > 1 /\ z[k-1] \in On("unbind", c)
           ELSE Ahead(z, k, On("judge", c)) \/ CensusConverged(b, b.name[c], c),
         l # << >> /\ ~Turned(b, c) => z # << >> /\ z[1] \in On("judge", c),
         l # << >> /\ Regime[b.name[c]] = "vfio" => \E k \in 1..Len(z) : z[k] \in On("bind", c),
         \A p \in ToSet(Ports[b.name[c]]) : NeedsConnect(b, c, p) => ToSet(l) \cap Conns(c, p) # {}
  PROVE  l \o z \in Seq(Meant(b)) /\ Well(b, l \o z)
  <1> DEFINE u == l \o z
             m == Len(l)
             n == Len(z)
  <1>1. l \in Seq(Loading(b, c)) /\ Span(l) /\ Loading(b, c) \subseteq Meant(b) /\ Meant(b) \subseteq Verbs
    BY DEF Loads, Loading, Meant
  <1>2. l \in Seq(Meant(b)) /\ l \in Seq(Verbs) /\ z \in Seq(Verbs) BY <1>1
  <1>3. /\ m \in Nat /\ n \in Nat /\ Len(u) = m + n /\ u \in Seq(Meant(b))
        /\ \A i \in 1..m : u[i] = l[i]
        /\ \A i \in 1..n : u[i + m] = z[i]
        /\ \A i \in 1..(m + n) : i \in 1..m \/ (i - m \in 1..n /\ i = (i - m) + m)
    BY <1>2, Joint
  <1>4. \A i \in 1..m : l[i].on = c /\ l[i].op \notin {"bind", "judge", "unbind"} /\ l # << >>
    <2>1. \A i \in 1..m : l[i] \in Loading(b, c) /\ l # << >> BY <1>1
    <2> HIDE DEF m
    <2> QED BY <2>1 DEF Loading
  <1>5. z # << >> => 1 \in 1..n OBVIOUS
  <1>6. Span(z) BY <1>5 DEF Span, Windows, NeedsHand
  <1>7. Span(u) BY <1>1, <1>2, <1>6, SpansJoin
  <1>8. \A p \in ToSet(Ports[b.name[c]]) : NeedsConnect(b, c, p) => \E i \in 1..m : l[i] \in Conns(c, p)
    BY <1>2 DEF ToSet
  <1> HIDE DEF u, m, n
  <1>9. ASSUME NEW i \in 1..m PROVE Handed(b, u, i) /\ Reviewed(b, u, i) /\ BoundAfter(b, u, i)
    <2>1. /\ u[i] = l[i] /\ l[i].on = c /\ l[i].op \notin {"bind", "judge", "unbind"} /\ l # << >>
      BY <1>3, <1>4
    <2>2. Handed(b, u, i) BY <2>1 DEF Handed
    <2>3. Reviewed(b, u, i)
      <3> SUFFICES ASSUME ~Turned(b, c)
                   PROVE  \E k \in (i+1)..(m+n) : /\ u[k] \in On("judge", c)
                                                  /\ \A j \in i..k : u[j] \notin On("bind", c)
        BY <1>3, <2>1 DEF Reviewed
      <3>1. z[1] \in On("judge", c) /\ 1 \in 1..n BY <1>5, <2>1
      <3>2. 1 + m \in (i+1)..(m+n) /\ u[1+m] = z[1] /\ \A j \in i..(1+m) : j \in 1..m \/ j = 1 + m
        BY <1>3, <3>1
      <3>3. \A j \in i..(1+m) : u[j] \notin On("bind", c) BY <1>3, <1>4, <3>1, <3>2 DEF On
      <3> QED BY <3>1, <3>2, <3>3
    <2>4. BoundAfter(b, u, i)
      <3> SUFFICES ASSUME Regime[b.name[c]] = "vfio"
                   PROVE  \E j \in (i+1)..(m+n) : u[j] \in On("bind", c)
        BY <1>3, <2>1 DEF BoundAfter
      <3>1. PICK k \in 1..n : z[k] \in On("bind", c) BY <2>1 DEF n
      <3>2. k + m \in (i+1)..(m+n) /\ u[k+m] = z[k] BY <1>3
      <3> QED BY <3>1, <3>2
    <2> QED BY <2>2, <2>3, <2>4
  <1>10. ASSUME NEW k \in 1..n
         PROVE  Handed(b, u, k + m) /\ Reviewed(b, u, k + m) /\ BoundAfter(b, u, k + m)
    <2>1. /\ u[k+m] = z[k] /\ z[k].on = c
          /\ z[k].op \in {"judge", "kernelBind", "override", "bind", "unbind"}
          /\ z[k].op = "bind" =>
               IF Turned(b, c) THEN k > 1 /\ z[k-1] \in On("unbind", c)
               ELSE Ahead(z, k, On("judge", c)) \/ CensusConverged(b, b.name[c], c)
      BY <1>3 DEF n
    <2>2. k > 1 => k + m > 1 /\ u[(k+m)-1] = z[k-1]
      <3>1. k > 1 => k - 1 \in 1..n /\ (k + m) - 1 = (k - 1) + m /\ k + m > 1 BY <1>3
      <3> QED BY <1>3, <3>1
    <2>3. Ahead(z, k, On("judge", c)) => Ahead(u, k + m, On("judge", c))
      <3> SUFFICES ASSUME NEW j \in 1..(k-1), z[j] \in On("judge", c)
                   PROVE  Ahead(u, k + m, On("judge", c))
        BY DEF Ahead
      <3>1. j + m \in 1..((k+m)-1) /\ u[j+m] = z[j] BY <1>3
      <3> QED BY <3>1 DEF Ahead
    <2>4. \A p \in ToSet(Ports[b.name[c]]) : NeedsConnect(b, c, p) => Ahead(u, k + m, Conns(c, p))
      <3> SUFFICES ASSUME NEW p, NEW i \in 1..m, l[i] \in Conns(c, p)
                   PROVE  Ahead(u, k + m, Conns(c, p))
        BY <1>8
      <3>1. i \in 1..((k+m)-1) /\ u[i] = l[i] BY <1>3
      <3> QED BY <3>1 DEF Ahead
    <2>5. Handed(b, u, k + m) BY <2>1, <2>2, <2>3, <2>4 DEF Handed, Secured
    <2>6. Reviewed(b, u, k + m) /\ BoundAfter(b, u, k + m)
      BY <2>1 DEF Reviewed, BoundAfter, Recounts
    <2> QED BY <2>5, <2>6
  <1>11. \A i \in 1..(m + n) : Handed(b, u, i) /\ Reviewed(b, u, i) /\ BoundAfter(b, u, i)
    <2>1. \A i \in 1..(m + n) : i \in 1..m \/ \E k \in 1..n : i = k + m BY <1>3
    <2> QED BY <1>9, <1>10, <2>1
  <1> QED BY <1>3, <1>7, <1>11 DEF Well, u

\* The end of a child's part of the plan: judge, then hand over.
Closing(b, t, c) ==
  IF PlanConverged(b, t, c) THEN BindVerbs(b, t, c) ELSE Judge(b, t, c) \o BindVerbs(b, t, c)
Closes(b, c, z) ==
  /\ z \in Seq(Meant(b))
  /\ \A k \in 1..Len(z) : z[k].on = c /\ z[k].op \in {"judge", "kernelBind", "override", "bind", "unbind"}
  /\ \A k \in 1..Len(z) : z[k].op = "bind" =>
       IF Turned(b, c) THEN k > 1 /\ z[k-1] \in On("unbind", c)
       ELSE Ahead(z, k, On("judge", c)) \/ CensusConverged(b, b.name[c], c)
  /\ ~Calm(b, c) /\ ~Turned(b, c) => z # << >> /\ z[1] \in On("judge", c)
  /\ Regime[b.name[c]] = "vfio" /\ (b.driver[c] # "vfio" \/ ~Calm(b, c)) =>
       \E k \in 1..Len(z) : z[k] \in On("bind", c)

\* A child is judged before it is handed over, and again when it was bound.
LEMMA ClosingIs ==
  ASSUME IInv, pc # "idle", NEW c \in board.live, Heir(board, c), NEW t \in Tenants,
         board.name[c] = t
  PROVE  Closes(board, c, Closing(board, t, c))
  <1>0. /\ t \in Names /\ t # None /\ c # None /\ Regime[t] \in {"vfio", "kernel"}
        /\ c \in Dprcs /\ board \in Boards
    BY TenantIs, BoardAssumption, Running
  <1> DEFINE judge == Verb("judge", c, t, None)
             kernel == Verb("kernelBind", c, t, None)
             over == Verb("override", c, "vfio", None)
             bind == Verb("bind", c, "vfio", None)
             unbind == Verb("unbind", c, t, None)
             S == Meant(board)
             z == Closing(board, t, c)
             calm == PlanConverged(board, t, c)
             turned == Turned(board, c)
  <1>1. ASSUME NEW op \in {"judge", "kernelBind", "override", "bind", "unbind"}, NEW a \in {t, "vfio"},
               op = "judge" => a = t, op = "kernelBind" => Regime[t] = "kernel",
               op \in {"override", "bind", "unbind"} => Regime[t] = "vfio",
               op = "unbind" => Turned(board, c)
        PROVE  Verb(op, c, a, None) \in Meant(board)
    <2>1. Verb(op, c, a, None) \in Verbs BY <1>0 DEF Verb, Verbs, Ops
    <2>2. Apt(board, Verb(op, c, a, None)) /\ Aimed(board, Verb(op, c, a, None))
      BY <1>0, <1>1 DEF Verb, Apt, PhaseOps, Aimed, Aims
    <2> QED BY <1>1, <2>1, <2>2 DEF Meant, Verb
  <1>2. /\ judge \in S /\ (Regime[t] = "kernel" => kernel \in S)
        /\ (Regime[t] = "vfio" => over \in S /\ bind \in S) /\ (turned => unbind \in S)
    BY <1>0, <1>1 DEF Turned
  <1>3. /\ judge.op = "judge" /\ kernel.op = "kernelBind" /\ over.op = "override"
        /\ bind.op = "bind" /\ unbind.op = "unbind"
        /\ judge.on = c /\ kernel.on = c /\ over.on = c /\ bind.on = c /\ unbind.on = c
    BY DEF Verb
  <1>4. judge \in On("judge", c) BY <1>2, <1>3 DEF On, Meant
  <1>5. (Regime[t] = "vfio" => bind \in On("bind", c)) /\ (turned => unbind \in On("unbind", c))
    BY <1>2, <1>3 DEF On, Meant
  <1>6. /\ turned <=> Regime[t] = "vfio" /\ board.driver[c] = "vfio" /\ ~calm
        /\ calm = Calm(board, c) /\ (calm => CensusConverged(board, t, c))
    BY DEF Turned, Calm, PlanConverged
  <1>7. /\ Judge(board, t, c) =
             IF Regime[t] = "kernel" \/ board.driver[c] # "vfio" THEN <<judge>> ELSE << >>
        /\ Regime[t] = "kernel" =>
             BindVerbs(board, t, c) = IF board.driver[c] = "kernel" THEN << >> ELSE <<kernel>>
        /\ Regime[t] = "vfio" /\ board.driver[c] = "vfio" =>
             BindVerbs(board, t, c) = IF calm THEN << >> ELSE <<unbind, bind>>
        /\ Regime[t] = "vfio" /\ board.driver[c] # "vfio" =>
             BindVerbs(board, t, c) = <<over, bind>>
    BY DEF Judge, BindVerbs, HandoffNow, Rebind
  <1>8. z = IF calm THEN BindVerbs(board, t, c) ELSE Judge(board, t, c) \o BindVerbs(board, t, c)
    BY DEF Closing
  <1> HIDE DEF judge, kernel, over, bind, unbind, S, z, calm, turned
  <1> SUFFICES
        /\ z \in Seq(S)
        /\ \A k \in 1..Len(z) : z[k].on = c /\ z[k].op \in {"judge", "kernelBind", "override", "bind", "unbind"}
        /\ \A k \in 1..Len(z) : z[k].op = "bind" =>
             IF turned THEN k > 1 /\ z[k-1] \in On("unbind", c)
             ELSE Ahead(z, k, On("judge", c)) \/ CensusConverged(board, t, c)
        /\ ~calm /\ ~turned => z # << >> /\ z[1] \in On("judge", c)
        /\ Regime[t] = "vfio" /\ (board.driver[c] # "vfio" \/ ~calm) =>
             \E k \in 1..Len(z) : z[k] \in On("bind", c)
    BY <1>6 DEF Closes, turned, z, S
  <1>9. CASE Regime[t] = "kernel" /\ calm
    <2>1. z = << >> \/ z = <<kernel>> BY <1>7, <1>8, <1>9
    <2>2. z \in Seq(S) /\ \A k \in 1..Len(z) : z[k] = kernel
      <3>1. CASE z = << >> BY <3>1
      <3>2. CASE z = <<kernel>>
        <4>1. <<kernel>> \in Seq(S) /\ \A k \in 1..Len(<<kernel>>) : <<kernel>>[k] = kernel
          BY <1>2, <1>9
        <4> QED BY <3>2, <4>1
      <3> QED BY <2>1, <3>1, <3>2
    <2> QED BY <1>3, <1>9, <2>2
  <1>10. CASE Regime[t] = "kernel" /\ ~calm
    <2>1. /\ z \in Seq(S) /\ z # << >> /\ z[1] = judge
          /\ \A k \in 1..Len(z) : z[k] = judge \/ z[k] = kernel
      <3>1. CASE board.driver[c] = "kernel"
        <4>1. z = <<judge>> \o << >> BY <1>7, <1>8, <1>10, <3>1
        <4>2. z = <<judge>> BY <1>2, <4>1
        <4> QED BY <1>2, <4>2
      <3>2. CASE board.driver[c] # "kernel"
        <4>1. z = <<judge>> \o <<kernel>> BY <1>7, <1>8, <1>10, <3>2
        <4>2. z \in Seq(S) /\ Len(z) = 2 /\ z[1] = judge /\ z[2] = kernel
          BY <1>2, <1>10, <4>1, TwoLong
        <4>3. \A k \in 1..2 : k = 1 \/ k = 2 OBVIOUS
        <4>4. z # << >> BY <4>2, SMTT(30)
        <4> QED BY <4>2, <4>3, <4>4
      <3> QED BY <3>1, <3>2
    <2> QED BY <1>3, <1>4, <1>10, <2>1
  <1>11. CASE Regime[t] = "vfio" /\ board.driver[c] = "vfio" /\ calm
    <2>1. z = << >> BY <1>7, <1>8, <1>11
    <2> QED BY <1>11, <2>1
  <1>12. CASE turned
    <2>1. z = << >> \o <<unbind, bind>> BY <1>6, <1>7, <1>8, <1>12
    <2>2. z = <<unbind, bind>> BY <1>2, <1>6, <1>12, <2>1
    <2>3. z \in Seq(S) /\ Len(z) = 2 /\ z[1] = unbind /\ z[2] = bind BY <1>2, <1>6, <1>12, <2>2
    <2>4. \A k \in 1..2 : k = 1 \/ (k = 2 /\ k - 1 = 1) OBVIOUS
    <2> QED BY <1>3, <1>5, <1>6, <1>12, <2>3, <2>4
  <1>13. CASE Regime[t] = "vfio" /\ board.driver[c] # "vfio" /\ calm
    <2>1. z = <<over, bind>> BY <1>7, <1>8, <1>13
    <2>2. z \in Seq(S) /\ Len(z) = 2 /\ z[1] = over /\ z[2] = bind BY <1>2, <1>13, <2>1
    <2>3. \A k \in 1..2 : k = 1 \/ k = 2 OBVIOUS
    <2> QED BY <1>3, <1>5, <1>6, <1>13, <2>2, <2>3
  <1>14. CASE Regime[t] = "vfio" /\ board.driver[c] # "vfio" /\ ~calm
    <2>1. z = <<judge>> \o <<over, bind>> BY <1>0, <1>7, <1>8, <1>14
    <2>2. z \in Seq(S) /\ Len(z) = 3 /\ z[1] = judge /\ z[2] = over /\ z[3] = bind
      BY <1>2, <1>14, <2>1, ThreeLong
    <2>3. \A k \in 1..3 : k = 1 \/ k = 2 \/ k = 3 OBVIOUS
    <2>4. Ahead(z, 3, On("judge", c)) /\ z # << >>
      <3>1. 1 \in 1..(3-1) OBVIOUS
      <3> QED BY <1>4, <2>2, <3>1 DEF Ahead
    <2> QED BY <1>3, <1>4, <1>5, <1>6, <1>14, <2>2, <2>3, <2>4
  <1> QED BY <1>0, <1>6, <1>9, <1>10, <1>11, <1>12, <1>13, <1>14

\* What a plan has for a child of its tenant.
Settles(b, q, t, c) ==
  /\ \A p \in ToSet(Ports[t]) : NeedsConnect(b, c, p) => ToSet(q) \cap Conns(c, p) # {}
  /\ ~CensusConverged(b, t, c) /\ ~Turned(b, c) => ToSet(q) \cap On("judge", c) # {}
  /\ Regime[t] = "vfio" /\ (b.driver[c] # "vfio" \/ ~Calm(b, c)) =>
       ToSet(q) \cap On("bind", c) # {}
Course(b) == {q \in Seq(Meant(b)) : Well(b, q)}

\* A plan for several children is the plans for each.
LEMMA CourseJoin ==
  ASSUME NEW b
  PROVE  << >> \in Course(b) /\ \A s, t \in Course(b) : s \o t \in Course(b)
  <1>1. << >> \in Course(b) BY DEF Course, Well, Span, Windows
  <1>2. ASSUME NEW s \in Course(b), NEW t \in Course(b) PROVE s \o t \in Course(b)
    <2>1. s \in Seq(Meant(b)) /\ t \in Seq(Meant(b)) /\ Well(b, s) /\ Well(b, t) BY DEF Course
    <2>2. Meant(b) \subseteq Verbs BY DEF Meant
    <2>3. s \in Seq(Verbs) /\ t \in Seq(Verbs) BY <2>1, <2>2
    <2>4. s \o t \in Seq(Meant(b)) /\ Well(b, s \o t) BY <2>1, <2>3, WellJoin
    <2> QED BY <2>4 DEF Course
  <1> QED BY <1>1, <1>2

\* The plan for one child (engine.rs dispatch_population) settles its tenant.
LEMMA ChildCourse ==
  ASSUME IInv, pc # "idle", NEW t \in Tenants, NEW c, c = Handle(board, t), c # None
  PROVE  /\ ChildVerbs(board, t, c) \in Course(board)
         /\ Settles(board, ChildVerbs(board, t, c), t, c)
         /\ c \in board.live /\ board.name[c] = t
  <1>1. c \in board.live /\ board.name[c] = t /\ Heir(board, c)
    <2>1. t \in Names /\ board \in Boards BY TenantIs, Running
    <2>2. c \in board.live /\ board.name[c] = t BY <2>1, HandleIs
    <2> QED BY <2>2 DEF Heir
  <1> DEFINE n == Len(Ports[t])
             parts == [i \in 1..n |-> PortVerbs(board, c, Ports[t][i])]
             ports == FlattenSeq(parts)
             pool == PoolVerbs(board, t, c)
             judge == Judge(board, t, c)
             handed == BindVerbs(board, t, c)
             calm == PlanConverged(board, t, c)
             z == Closing(board, t, c)
             l == IF calm THEN << >> ELSE ports \o pool
             L == Loads(board, c)
  <1>2. ports \in L /\ \A i \in 1..n : NeedsConnect(board, c, Ports[t][i]) =>
                                         ToSet(ports) \cap Conns(c, Ports[t][i]) # {}
    <2>1. Ports[t] \in Seq(Peers) /\ n \in Nat BY TenantIs
    <2>2. ASSUME NEW i \in 1..n
          PROVE  /\ PortVerbs(board, c, Ports[t][i]) \in L
                 /\ NeedsConnect(board, c, Ports[t][i]) =>
                      ToSet(PortVerbs(board, c, Ports[t][i])) \cap Conns(c, Ports[t][i]) # {}
      <3>1. PICK p \in Peers : p = Ports[t][i] BY <2>1
      <3>2. /\ PortVerbs(board, c, p) \in L
            /\ NeedsConnect(board, c, p) => ToSet(PortVerbs(board, c, p)) \cap Conns(c, p) # {}
        BY <1>1, PortLoad
      <3> QED BY <3>1, <3>2
    <2>3. parts \in [1..n -> L] BY <2>2
    <2>4. \A i \in 1..n : NeedsConnect(board, c, Ports[t][i]) => ToSet(parts[i]) \cap Conns(c, Ports[t][i]) # {}
      BY <2>2
    <2> HIDE DEF parts, n, L
    <2>5. ports \in L BY <2>1, <2>3, FlattenIn, LoadsJoin DEF L
    <2>6. parts \in [1..n -> Seq(Loading(board, c))] BY <2>3 DEF L, Loads
    <2>7. \A i \in 1..n : ToSet(parts[i]) \subseteq ToSet(ports) BY <2>1, <2>6, FlattenKeeps
    <2> QED BY <2>4, <2>5, <2>7
  <1>3. pool \in L BY <1>1, PoolLoad
  <1>4. Closes(board, c, z) BY <1>1, ClosingIs
  <1>5. ChildVerbs(board, t, c) = (IF calm THEN << >> ELSE ports \o pool \o judge) \o handed
    BY DEF ChildVerbs
  <1>6. z = IF calm THEN handed ELSE judge \o handed BY DEF Closing
  <1>7. calm <=> Calm(board, c) BY <1>1 DEF Calm
  <1>8. calm => \A p \in ToSet(Ports[t]) : ~NeedsConnect(board, c, p) BY DEF PlanConverged
  <1>9. calm => CensusConverged(board, t, c) BY DEF PlanConverged
  <1>10. judge \in Seq(Verbs) /\ handed \in Seq(Verbs)
    <2>1. /\ Verb("judge", c, t, None) \in Verbs /\ Verb("kernelBind", c, t, None) \in Verbs
          /\ Verb("override", c, "vfio", None) \in Verbs /\ Verb("bind", c, "vfio", None) \in Verbs
          /\ Verb("unbind", c, t, None) \in Verbs
      <3>1. c \in Dprcs /\ t \in Names BY <1>1, Running, TenantIs
      <3> QED BY <3>1 DEF Verb, Verbs, Ops
    <2>2. judge \in Seq(Verbs) BY <2>1 DEF Judge
    <2>3. handed \in Seq(Verbs) BY <2>1, TenantIs DEF BindVerbs, HandoffNow, Rebind
    <2> QED BY <2>2, <2>3
  <1>11. L \subseteq Seq(Verbs) /\ L \subseteq Seq(Loading(board, c))
    <2>1. Loading(board, c) \subseteq Verbs /\ L \subseteq Seq(Loading(board, c))
      BY DEF Loads, Loading, Meant
    <2> HIDE DEF L
    <2> QED BY <2>1
  <1>12. l \in L /\ \A p \in ToSet(Ports[t]) : NeedsConnect(board, c, p) => ToSet(l) \cap Conns(c, p) # {}
    <2> HIDE DEF L, n, parts, ports, pool, calm
    <2>1. CASE calm BY <1>8, <2>1, LoadsJoin DEF L
    <2>2. CASE ~calm
      <3>1. ports \o pool \in L BY <1>2, <1>3, LoadsJoin DEF L
      <3>2. ToSet(ports) \subseteq ToSet(ports \o pool) BY <1>2, <1>3, <1>11, JoinHas
      <3>3. \A p \in ToSet(Ports[t]) : \E i \in 1..n : p = Ports[t][i]
        <4>1. Ports[t] \in Seq(Peers) BY TenantIs
        <4> QED BY <4>1 DEF ToSet, n
      <3> QED BY <1>2, <2>2, <3>1, <3>2, <3>3
    <2> QED BY <2>1, <2>2
  <1>13. ChildVerbs(board, t, c) = l \o z
    <2> HIDE DEF L, n, parts, ports, pool, calm, judge, handed, z
    <2>1. CASE calm BY <1>5, <1>6, <2>1
    <2>2. CASE ~calm
      <3> DEFINE built == ports \o pool
      <3>1. built \in Seq(Verbs) BY <1>2, <1>3, <1>11
      <3> HIDE DEF built
      <3>2. (built \o judge) \o handed = built \o (judge \o handed)
        BY <1>10, <3>1, ConcatAssociative, SMTT(30)
      <3> QED BY <1>5, <1>6, <2>2, <3>2 DEF built
    <2> QED BY <2>1, <2>2
  <1>14. l # << >> => ~calm OBVIOUS
  <1> HIDE DEF L, n, parts, ports, pool, calm, judge, handed, z, l
  <1>15. l \o z \in Seq(Meant(board)) /\ Well(board, l \o z)
    BY <1>1, <1>4, <1>7, <1>12, <1>14, ChunkWell DEF Closes, L
  <1>16. ToSet(l) \subseteq ToSet(l \o z) /\ ToSet(z) \subseteq ToSet(l \o z)
    <2>1. z \in Seq(Verbs) /\ l \in Seq(Verbs)
      <3>1. z \in Seq(Meant(board)) /\ Meant(board) \subseteq Verbs BY <1>4 DEF Closes, Meant
      <3> QED BY <1>11, <1>12, <3>1
    <2> QED BY <2>1, JoinHas
  <1>17. z \in Seq(Meant(board)) /\ \A k \in 1..Len(z) : z[k] \in ToSet(z) BY <1>4 DEF Closes, ToSet
  <1>18. Settles(board, l \o z, t, c)
    <2>1. ~CensusConverged(board, t, c) /\ ~Turned(board, c) => ToSet(z) \cap On("judge", c) # {}
      <3>1. z # << >> => 1 \in 1..Len(z) BY <1>17
      <3> QED BY <1>4, <1>7, <1>9, <1>17, <3>1 DEF Closes
    <2>2. Regime[t] = "vfio" /\ (board.driver[c] # "vfio" \/ ~Calm(board, c)) =>
            ToSet(z) \cap On("bind", c) # {}
      BY <1>1, <1>4, <1>17 DEF Closes
    <2> QED BY <1>12, <1>16, <2>1, <2>2 DEF Settles
  <1> QED BY <1>1, <1>13, <1>15, <1>18 DEF Course

\* So the plan for all of them settles every tenant that has a container.
LEMMA PopulationCourse ==
  ASSUME IInv, pc = "population"
  PROVE  \E w \in Course(board) :
           /\ PopulationVerbs(board) = w \o Done
           /\ \A t \in Tenants : Handle(board, t) # None => Settles(board, w, t, Handle(board, t))
  <1> DEFINE K == {t \in Tenants : Handle(board, t) # None}
             found == Populated(board)
             n == Len(found)
             parts == [i \in 1..n |-> ChildVerbs(board, found[i], Handle(board, found[i]))]
             w == FlattenSeq(parts)
  <1>1. found \in Seq(Names \cap K) /\ \A t \in K : t \in ToSet(found)
    <2>1. roll \in Seq(Names) BY PlanAssumption DEF IInv, Shape
    <2>2. \A t \in K : t \in ToSet(roll) BY DEF Tenants
    <2> HIDE DEF K
    <2>3. Only(roll, K) \in Seq(Names \cap K) BY <2>1, OnlyAfter
    <2>4. ToSet(roll) \cap K \subseteq ToSet(Only(roll, K)) BY <2>1, OnlyHas
    <2>5. found = Only(roll, K) BY DEF Populated, K
    <2> QED BY <2>2, <2>3, <2>4, <2>5
  <1>2. n \in Nat /\ \A i \in 1..n : found[i] \in Tenants /\ Handle(board, found[i]) # None
    <2>1. \A t \in Names \cap K : t \in Tenants /\ Handle(board, t) # None OBVIOUS
    <2> HIDE DEF K, found
    <2> QED BY <1>1, <2>1
  <1>3. ASSUME NEW t \in K PROVE \E i \in 1..n : t = found[i]
    <2>1. t \in ToSet(found) BY <1>1
    <2> HIDE DEF K, found
    <2> QED BY <1>1, <2>1 DEF ToSet
  <1> HIDE DEF found
  <1>4. ASSUME NEW i \in 1..n
        PROVE  /\ ChildVerbs(board, found[i], Handle(board, found[i])) \in Course(board)
               /\ Settles(board, ChildVerbs(board, found[i], Handle(board, found[i])), found[i],
                          Handle(board, found[i]))
    BY <1>2, ChildCourse
  <1>5. parts \in [1..n -> Course(board)] BY <1>4
  <1>6. \A i \in 1..n : Settles(board, parts[i], found[i], Handle(board, found[i])) BY <1>4
  <1>7. PopulationVerbs(board) = w \o Done BY DEF PopulationVerbs, found
  <1> HIDE DEF parts, n
  <1>8. w \in Course(board) BY <1>2, <1>5, FlattenIn, CourseJoin
  <1>9. \A i \in 1..n : ToSet(parts[i]) \subseteq ToSet(w)
    <2>1. parts \in [1..n -> Seq(Meant(board))] BY <1>5 DEF Course
    <2> QED BY <1>2, <2>1, FlattenKeeps
  <1> HIDE DEF w
  <1>10. ASSUME NEW t \in K PROVE Settles(board, w, t, Handle(board, t))
    <2>1. PICK i \in 1..n : t = found[i] BY <1>3
    <2>2. Settles(board, parts[i], t, Handle(board, t)) /\ ToSet(parts[i]) \subseteq ToSet(w)
      BY <1>6, <1>9, <2>1
    <2> HIDE DEF K
    <2> QED BY <2>2 DEF Settles
  <1> QED BY <1>7, <1>8, <1>10

\* A name without a matched port is borne by no port.
LEMMA Unported ==
  ASSUME NEW b, NEW c, NEW p, PortRow(b, c, p) = None
  PROVE  Ported(b, c, p) = {}
  <1> DEFINE S == {d \in DpniRows(b, c) : b.tag[d] = p}
  <1>1. S \subseteq Nat /\ None \notin S BY BoardAssumption DEF DpniRows, Residents, Objs
  <1>2. PortRow(b, c, p) = IF S = {} THEN None ELSE Min(S) BY DEF PortRow
  <1> HIDE DEF S
  <1>3. S # {} => Min(S) \in S BY <1>1, MinIn
  <1> QED BY <1>1, <1>2, <1>3 DEF Ported, S

\* The verbs of a plan are in order.
LEMMA CourseLaid ==
  ASSUME NEW b, NEW w \in Course(b)
  PROVE  LET q == w \o Done
         IN q \in Seq(Verbs) /\ q # << >> /\ Laid(b, None, q)
  <1> DEFINE q == w \o Done
             m == Len(w)
             done == Verb("done", None, None, None)
  <1>1. w \in Seq(Meant(b)) /\ Well(b, w) /\ Meant(b) \subseteq Verbs BY DEF Course, Meant
  <1>2. /\ done \in Verbs /\ done.op = "done" /\ ~NeedsHand(done) /\ Apt(b, done) /\ Aimed(b, done)
        /\ ~Aims(done)
    BY DEF Verb, Verbs, Ops, NeedsHand, Apt, PhaseOps, Aimed, Aims
  <1>3. Done = <<done>> BY DEF Done
  <1>4. w \in Seq(Verbs) /\ Done \in Seq(Verbs) /\ Len(Done) = 1 /\ Done[1] = done
    BY <1>1, <1>2, <1>3
  <1> HIDE DEF done
  <1>5. /\ q \in Seq(Verbs) /\ m \in Nat /\ Len(q) = m + 1
        /\ (\A i \in 1..m : q[i] = w[i]) /\ q[m+1] = done
    BY <1>2, <1>3, <1>4, Lasting
  <1>6. Well(b, q)
    <2>1. \A i \in 1..Len(Done) : Done[i] = done BY <1>4
    <2>2. Well(b, Done)
      BY <1>2, <1>4, <2>1 DEF Well, Span, Windows, Handed, Reviewed, BoundAfter, Recounts
    <2> QED BY <1>1, <1>4, <2>2, WellJoin
  <1>7. \A i \in 1..m : w[i] \in Meant(b) BY <1>1
  <1> HIDE DEF q, m
  <1>8. \A i \in 1..(m+1) : i \in 1..m \/ i = m + 1 BY <1>5
  <1>9. \A i \in 1..m : w[i].op # "done" /\ Apt(b, w[i]) /\ Aimed(b, w[i]) BY <1>7 DEF Meant
  <1>10. \A i \in 1..Len(q) : Apt(b, q[i]) /\ Aimed(b, q[i]) BY <1>2, <1>5, <1>8, <1>9
  <1>11. \A i \in 1..Len(q) : q[i].op = "mintDpni" => PortRow(b, q[i].on, q[i].arg) = None
    BY <1>2, <1>5, <1>7, <1>8 DEF Meant
  <1>12. \A i, k \in 1..Len(q) : Apart(q[i], q[k]) BY <1>10, <1>11 DEF Apart, Aimed, Aims
  <1>13. Closed(q, "done")
    <2>1. \A i \in 1..m : i # m + 1 BY <1>5
    <2> QED BY <1>2, <1>5, <1>8, <1>9, <2>1 DEF Closed
  <1>14. Fresh(b, q)
    <2>1. \A i \in 1..Len(q) : q[i].op = "mintDpni" => Ported(b, q[i].on, q[i].arg) = {}
      BY <1>11, Unported
    <2> QED BY <2>1 DEF Fresh, Unmet
  <1>15. Early(b, q) BY <1>6 DEF Well, BoundAfter, Early
  <1>16. Windows(q) /\ (q # << >> => ~NeedsHand(q[1])) BY <1>6 DEF Well, Span
  <1>17. q # << >> BY <1>5
  <1>18. InHand(b, None, q) BY <1>16, <1>17 DEF InHand
  <1>19. Laid(b, None, q) BY <1>10, <1>12, <1>13, <1>14, <1>15, <1>16, <1>18 DEF Laid
  <1> QED BY <1>5, <1>17, <1>19 DEF q

\* What a plan settles is promised by it.
LEMMA CourseWilled ==
  ASSUME NEW b, NEW w \in Course(b), NEW t, NEW c, b.name[c] = t, Settles(b, w, t, c),
         Regime[t] \in {"vfio", "kernel"}, Regime[t] = "kernel" => b.driver[c] # "vfio"
  PROVE  Willed(b, w \o Done, t, c)
  <1> DEFINE q == w \o Done
             m == Len(w)
             done == Verb("done", None, None, None)
  <1>1. w \in Seq(Meant(b)) /\ Well(b, w) /\ Meant(b) \subseteq Verbs BY DEF Course, Meant
  <1>2. done \in Verbs /\ done.op = "done" BY DEF Verb, Verbs, Ops
  <1>3. Done = <<done>> BY DEF Done
  <1>4. w \in Seq(Verbs) /\ Done \in Seq(Verbs) /\ Len(Done) = 1 /\ Done[1] = done
    BY <1>1, <1>2, <1>3
  <1> HIDE DEF done
  <1>5. /\ q \in Seq(Verbs) /\ m \in Nat /\ Len(q) = m + 1
        /\ (\A i \in 1..m : q[i] = w[i]) /\ q[m+1] = done
    BY <1>2, <1>3, <1>4, Lasting
  <1>6. \A S : ToSet(w) \cap S # {} => \E j \in 1..m : w[j] \in S BY <1>1 DEF ToSet
  <1>7. \A i \in 1..m : w[i] \in Meant(b) /\ Handed(b, w, i) /\ Reviewed(b, w, i) BY <1>1 DEF Well
  <1>8. \A i \in 1..(m+1) : i \in 1..m \/ i = m + 1 BY <1>5
  <1>9. 1..m \subseteq 1..(m+1) BY <1>5
  <1>10. \A S : ToSet(w) \cap S # {} => Owing(q, S) /\ Ahead(q, m + 2, S) /\ Ahead(q, m + 1 + 1, S)
    <2> SUFFICES ASSUME NEW S, NEW j \in 1..m, w[j] \in S
                 PROVE  Owing(q, S) /\ Ahead(q, m + 2, S) /\ Ahead(q, m + 1 + 1, S)
      BY <1>6
    <2>1. j \in 1..(m+1) /\ q[j] = w[j] /\ (m + 2) - 1 = m + 1 /\ (m + 1 + 1) - 1 = m + 1 BY <1>5
    <2> QED BY <1>5, <2>1 DEF Owing, Ahead
  <1>11. \A i \in 1..m : \A S : Ahead(w, i, S) => Ahead(q, i, S)
    <2> TAKE i \in 1..m
    <2>1. \A j \in 1..(i-1) : j \in 1..m BY <1>5
    <2> QED BY <1>5, <2>1 DEF Ahead
  <1>12. \A op \in {"bind", "unbind", "judge"} : done \notin On(op, c) BY <1>2 DEF On
  <1>13. done \notin Recounts(c) BY <1>2 DEF Recounts
  <1> HIDE DEF q, m
  <1>14. CASE Turned(b, c)
    <2>1. Owing(q, On("bind", c)) BY <1>10, <1>14 DEF Settles, Turned
    <2>2. Barred(b, q, c)
      <3> SUFFICES ASSUME NEW i \in 1..(m+1), q[i] \in On("bind", c)
                   PROVE  i > 1 /\ q[i-1] \in On("unbind", c)
        BY <1>5 DEF Barred
      <3>1. i \in 1..m /\ w[i].op = "bind" /\ w[i].on = c BY <1>5, <1>8, <1>12 DEF On
      <3>2. i > 1 /\ w[i-1] \in On("unbind", c) BY <1>7, <1>14, <3>1 DEF Handed
      <3>3. i - 1 \in 1..m BY <1>5, <3>1, <3>2
      <3> QED BY <1>5, <3>2, <3>3
    <2> QED BY <1>14, <2>1, <2>2 DEF Willed, Doomed, q
  <1>15. CASE ~Turned(b, c)
    <2>1. ~Owing(q, On("unbind", c))
      <3>1. \A i \in 1..m : w[i] \notin On("unbind", c) BY <1>7, <1>15 DEF Meant, On
      <3> QED BY <1>5, <1>8, <1>12, <3>1 DEF Owing
    <2>2. ASSUME NEW j \in 1..(m+1), q[j] \in Recounts(c)
          PROVE  \E k \in (j+1)..(m+1) : /\ q[k] \in On("judge", c)
                                         /\ \A i \in j..k : q[i] \notin On("bind", c)
      <3>1. j \in 1..m /\ w[j] \in Recounts(c) /\ w[j].on = c
        BY <1>5, <1>8, <1>13, <2>2 DEF Recounts
      <3>2. PICK k \in (j+1)..m : w[k] \in On("judge", c) /\ \A i \in j..k : w[i] \notin On("bind", c)
        BY <1>7, <1>15, <3>1 DEF Reviewed, m
      <3>3. k \in (j+1)..(m+1) /\ k \in 1..m /\ \A i \in j..k : i \in 1..m BY <1>5, <3>1
      <3> QED BY <1>5, <3>2, <3>3
    <2>3. ASSUME NEW i \in Ends(q, c)
          PROVE  /\ \A p \in ToSet(Ports[t]) : Ahead(q, i, Conns(c, p)) \/ ~NeedsConnect(b, c, p)
                 /\ Ahead(q, i, On("judge", c)) \/ CensusConverged(b, t, c)
      <3>1. CASE i \in 1..m /\ q[i] \in On("bind", c)
        <4>1. w[i].op = "bind" /\ w[i].on = c BY <1>5, <3>1 DEF On
        <4>2. Secured(b, w, i, c) BY <1>7, <1>15, <3>1, <4>1 DEF Handed
        <4> QED BY <1>11, <3>1, <4>2 DEF Secured
      <3>2. CASE i = Len(q) + 1
        <4>1. i = m + 1 + 1 BY <1>5, <3>2
        <4> QED BY <1>10, <1>15, <4>1 DEF Settles
      <3> QED BY <1>5, <1>8, <1>12, <3>1, <3>2 DEF Ends
    <2>4. Regime[t] = "vfio" => b.driver[c] = "vfio" \/ Owing(q, On("bind", c)) BY <1>10 DEF Settles
    <2>5. Assured(b, q, t, c) BY <1>5, <2>1, <2>2, <2>3, <2>4 DEF Assured
    <2> QED BY <2>5 DEF Willed, q
  <1> QED BY <1>14, <1>15

\* A population that is planned is under way.
LEMMA PopulationUnderway ==
  ASSUME IInv, LInv, pc = "population", AsFound, Manned(board), ~PopulationRefused(board, opts)
  PROVE  LET q == PopulationVerbs(board) IN q # << >> /\ Underway(board, None, q)
  <1> DEFINE q == PopulationVerbs(board)
  <1>1. PICK w \in Course(board) :
          /\ q = w \o Done
          /\ \A t \in Tenants : Handle(board, t) # None => Settles(board, w, t, Handle(board, t))
    BY PopulationCourse
  <1>2. q # << >> /\ Laid(board, None, q) BY <1>1, CourseLaid
  <1> HIDE DEF q
  <1>3. ASSUME NEW t \in Tenants
        PROVE  /\ Willed(board, q, t, Handle(board, t))
               /\ Sighted(board, None, q, Handle(board, t), Inherited)
    <2> DEFINE c == Handle(board, t)
    <2>1. c # None /\ Settles(board, w, t, c) BY <1>1 DEF Manned
    <2>2. /\ t \in Names /\ Regime[t] \in {"vfio", "kernel"} /\ board \in Boards
          /\ c \in board.live /\ board.name[c] = t
      <3>1. t \in Names /\ board \in Boards BY TenantIs, Running
      <3> QED BY <2>1, <3>1, TenantIs, HandleIs
    <2>3. Regime[t] = "kernel" => board.driver[c] # "vfio" BY <2>1 DEF PopulationRefused, Drifted
    <2>4. ASSUME NEW d \in DpniRows(board, c) PROVE Seen(board, d) \/ (d \in Inherited /\ d # None)
      <3>1. d \in Dpnis /\ d \in Objs /\ board.home[d] = c BY DEF DpniRows, Residents
      <3>2. d # None BY <3>1, BoardAssumption
      <3>3. ~Seen(board, d) => d \in Inherited
        BY <2>1, <3>1 DEF Seen, Inherited, LeftBehind, AsFound
      <3> QED BY <3>2, <3>3
    <2> HIDE DEF c
    <2>5. Willed(board, q, t, c) BY <1>1, <2>1, <2>2, <2>3, CourseWilled
    <2>6. Sighted(board, None, q, c, Inherited) BY <2>4 DEF Sighted
    <2> QED BY <2>5, <2>6 DEF c
  <1> QED BY <1>2, <1>3 DEF Underway, q

(* Every step.                                                                *)

\* A population is planned.
LEMMA PlanPopulationServe ==
  ASSUME IInv, LInv, SInv, PlanPopulation, UNCHANGED given
  PROVE  SInv'
  <1>1. /\ pc = "population" /\ pc' = pc /\ queue = << >> /\ board' = board /\ UNCHANGED roll
        /\ outcome' = outcome /\ outcome = "running" /\ hand' = None
        /\ queue' = PopulationVerbs(board) /\ UNCHANGED <<before, made>>
    BY DEF PlanPopulation, Planning, Owes, PhaseUnchanged, history, given, SInv
  <1>2. AsFound /\ Manned(board) BY <1>1 DEF SInv
  <1>3. queue' # << >> /\ Underway(board, None, queue')
    BY <1>1, <1>2, PopulationUnderway DEF PlanPopulation
  <1>4. Inherited' = Inherited BY <1>1 DEF Inherited, LeftBehind
  <1>5. Underway(board, hand, queue)'
    <2>1. /\ Manned(board') /\ Laid(board', hand', queue')
          /\ \A t \in Tenants : /\ Willed(board', queue', t, Handle(board', t))
                                /\ Sighted(board', hand', queue', Handle(board', t), Inherited')
      BY <1>1, <1>3, <1>4 DEF Underway
    <2> QED BY <1>1, <2>1, UnderwayNext
  <1> QED BY <1>1, <1>3, <1>5 DEF SInv

\* The containers to make are planned.
LEMMA PlanContainersServe ==
  ASSUME IInv, SInv, PlanContainers, UNCHANGED given
  PROVE  SInv'
  <1> DEFINE q == ContainerVerbs(board)
             missing == MissingTenants(board)
             K == {t \in Tenants : Handle(board, t) = None}
             n == Len(missing)
             Each(op) == [i \in 1..n |-> Verb(op, None, missing[i], None)]
             W == {v \in Verbs : v.op \in {"spawn", "verdict"}}
             done == Verb("done", None, None, None)
             w == Each("spawn") \o Each("verdict")
  <1>1. /\ pc = "containers" /\ pc' = pc /\ board' = board /\ UNCHANGED roll
        /\ outcome' = outcome /\ outcome = "running" /\ queue' = q /\ UNCHANGED <<before, made>>
        /\ AsFound
    BY DEF PlanContainers, Planning, Owes, PhaseUnchanged, history, given, SInv
  <1>2. missing \in Seq(Names) /\ \A t \in K : t \in ToSet(missing)
    <2>1. roll \in Seq(Names) BY PlanAssumption DEF IInv, Shape
    <2>2. \A t \in K : t \in ToSet(roll) BY DEF Tenants
    <2>3. missing = Only(roll, K) BY DEF MissingTenants
    <2> HIDE DEF K, missing
    <2>4. Only(roll, K) \in Seq(Names \cap K) BY <2>1, OnlyAfter
    <2>5. Only(roll, K) \in Seq(Names) BY <2>4
    <2>6. ToSet(roll) \cap K \subseteq ToSet(Only(roll, K)) BY <2>1, OnlyHas
    <2> QED BY <2>2, <2>3, <2>5, <2>6
  <1>3. q = w \o Done BY DEF ContainerVerbs
  <1> HIDE DEF missing
  <1>4. ASSUME NEW op \in {"spawn", "verdict"} PROVE Each(op) \in Seq(W)
    <2>1. \A i \in 1..n : Verb(op, None, missing[i], None) \in W BY <1>2 DEF Verb, Verbs, Ops
    <2>2. n \in Nat BY <1>2
    <2> HIDE DEF W, n
    <2> QED BY <2>1, <2>2
  <1>5. Each("spawn") \in Seq(W) /\ Each("verdict") \in Seq(W) BY <1>4
  <1>6. \A t \in K : \E v \in ToSet(Each("verdict")) : v.op = "verdict" /\ v.arg = t
    <2> SUFFICES ASSUME NEW t \in K
                 PROVE  \E v \in ToSet(Each("verdict")) : v.op = "verdict" /\ v.arg = t
      OBVIOUS
    <2>1. PICK i \in 1..n : missing[i] = t BY <1>2 DEF ToSet
    <2>2. Each("verdict")[i] = Verb("verdict", None, t, None) /\ i \in DOMAIN Each("verdict")
      BY <2>1
    <2>3. Each("verdict")[i] \in ToSet(Each("verdict")) BY <2>2 DEF ToSet
    <2> QED BY <2>2, <2>3 DEF Verb
  <1> HIDE DEF Each
  <1>7. ToSet(Each("verdict")) \subseteq ToSet(w) BY <1>5, JoinHas
  <1>8. w \in Seq(W) BY <1>5
  <1> HIDE DEF w, K
  <1>9. done \in Verbs /\ done.op = "done" /\ Done = <<done>> BY DEF Verb, Verbs, Ops, Done
  <1>10. \A v \in W : v \in Verbs /\ v.op # "done" OBVIOUS
  <1> HIDE DEF W, done
  <1>11. w \in Seq(Verbs) BY <1>8, <1>10
  <1>12. /\ Len(w) \in Nat /\ Len(q) = Len(w) + 1
         /\ (\A i \in 1..Len(w) : q[i] = w[i]) /\ q[Len(w) + 1] = done
         /\ q \in Seq(Verbs)
    BY <1>3, <1>9, <1>11, Lasting
  <1> HIDE DEF q
  <1>13. Closed(q, "done")
    <2>1. \A i \in 1..Len(w) : w[i].op # "done" /\ i # Len(w) + 1 BY <1>8, <1>10, <1>12
    <2>2. \A i \in 1..(Len(w)+1) : i \in 1..Len(w) \/ i = Len(w) + 1 BY <1>12
    <2> QED BY <1>9, <1>12, <2>1, <2>2 DEF Closed
  <1>14. Raised(board, q)
    <2> SUFFICES ASSUME NEW t \in Tenants, Handle(board, t) = None
                 PROVE  \E i \in 1..Len(q) : q[i].op = "verdict" /\ q[i].arg = t
      BY <1>13 DEF Raised
    <2>1. t \in K BY DEF K
    <2>2. PICK v \in ToSet(w) : v.op = "verdict" /\ v.arg = t BY <1>6, <1>7, <2>1
    <2>3. PICK i \in 1..Len(w) : w[i] = v BY <1>11, <2>2 DEF ToSet
    <2>4. i \in 1..Len(q) /\ q[i] = v BY <1>12, <2>3
    <2> QED BY <2>2, <2>4
  <1>15. AsFound' /\ Raised(board, queue)'
    <2>1. Tenants' = Tenants BY <1>1 DEF Tenants
    <2> QED BY <1>1, <1>14, <2>1 DEF AsFound, Raised
  <1> QED BY <1>1, <1>15 DEF SInv

\* The verbs of the first two phases.
LEMMA PopulatingServe ==
  ASSUME IInv, IInv', LInv, SInv, Populating, UNCHANGED given
  PROVE  SInv'
  <1>1. CASE BelowDraw
    <2>1. pc' = "idle" BY <1>1 DEF BelowDraw, End
    <2> QED BY <2>1, OverServe
  <1>2. CASE Spawn \/ Verdict \/ ReclaimRefused BY <1>2, SpawnServe, VerdictServe, BelowServe
  <1>3. CASE \/ Mint("mintDpni", Dpnis) \/ Mint("mintPool", Pool)
             \/ Stamp \/ Plug \/ Connect \/ Reclaim \/ PruneForeign
             \/ JudgeChild \/ KernelBind \/ Override \/ Bind \/ Unbind
    <2>1. queue # << >> /\ V.op \in PhaseOps("population") \ {"belowDraw", "done"}
      BY <1>3 DEF Mint, Stamp, Plug, Connect, Reclaim, PruneForeign, JudgeChild, KernelBind,
                  Override, Bind, Unbind, Next1, V, PhaseOps
    <2>2. pc = "population" BY <2>1, PhaseIs DEF PhaseOps
    <2>3. V.op # "pruneForeign" => ~Stuck(queue)
      <3>1. queue \in Seq(Verbs) /\ V = queue[1] BY <2>1, QueueIs
      <3>2. 1 \in 1..Len(queue) BY <2>1, QueueIs
      <3> QED BY <2>1, <3>1, <3>2 DEF Stuck
    <2>4. Stuck(queue) \/ Underway(board, hand, queue) BY <2>1, <2>2 DEF SInv
    <2>5. CASE Stuck(queue)
      <3>1. PruneForeign
        BY <1>3, <2>3, <2>5 DEF Mint, Stamp, Plug, Connect, Reclaim, PruneForeign, JudgeChild,
                                KernelBind, Override, Bind, Unbind, Next1, V
      <3> QED BY <2>5, <3>1, StuckServe
    <2>6. CASE Underway(board, hand, queue)
      BY <1>3, <2>6, MintServe, StampServe, PlugServe, ConnectServe, ShrinkServe, JudgeServe,
         KernelServe, BindsServe
    <2> QED BY <2>4, <2>5, <2>6
  <1> QED BY <1>1, <1>2, <1>3 DEF Populating

\* A failure ends the run or unwinds it.
LEMMA FailOver ==
  ASSUME Fail
  PROVE  pc' = "idle" \/ (pc' = "unwind" /\ outcome' = "failed")
  BY DEF Fail, End

\* Whatever happens, a run stands where SInv says.
LEMMA ServeStep == IInv /\ LInv /\ SInv /\ [Next]_vars => SInv'
  <1> SUFFICES ASSUME IInv, LInv, SInv, [Next]_vars PROVE SInv' OBVIOUS
  <1>0. IInv' BY Inductive
  <1>1. CASE UNCHANGED vars
    <2>1. UNCHANGED <<board, given, pc, queue, hand, outcome, before, made>> BY <1>1 DEF vars
    <2> QED BY <2>1, AroundServe DEF Alike
  <1>2. CASE Next
    <2>0. UNCHANGED given BY <1>2 DEF Next
    <2>1. CASE Start BY <2>0, <2>1, StartServe
    <2>2. CASE Phases
      <3>1. CASE ContainersRefused \/ RefusePopulation \/ PruneNothing \/ PruneGateRefused
        <4>1. pc' = "idle"
          BY <3>1 DEF ContainersRefused, RefusePopulation, PruneNothing, PruneGateRefused, End
        <4> QED BY <4>1, OverServe
      <3> QED BY <2>0, <2>2, <3>1, PlanContainersServe, PlanPopulationServe, PrunePlanServe,
                 DoneServe DEF Phases
    <2>3. CASE Populating BY <1>0, <2>0, <2>3, PopulatingServe
    <2>4. CASE Pruning
      <3>1. CASE PruneDone
        <4>1. pc' = "idle" BY <3>1 DEF PruneDone, End
        <4> QED BY <4>1, OverServe
      <3> QED BY <2>0, <2>4, <3>1, ReleaseServe, GivenUpServe DEF Pruning
    <2>5. CASE Refused \/ VerbFails \/ ErrsAfterEffect
      BY <2>5, FailOver, OverServe DEF Refused, VerbFails, ErrsAfterEffect
    <2>6. CASE Unwind
      <3>1. CASE UnwindDone
        <4>1. pc' = "idle" BY <3>1 DEF UnwindDone, End
        <4> QED BY <4>1, OverServe
      <3>2. CASE UnwindRow \/ UnwindRowFails
        <4>1. pc' = "unwind" /\ outcome' = "failed" BY <3>2 DEF UnwindRow, UnwindRowFails, SInv
        <4> QED BY <4>1, OverServe
      <3> QED BY <2>6, <3>1, <3>2 DEF Unwind
    <2>7. CASE Killed
      <3>1. pc' = "idle" BY <2>7 DEF Killed, End
      <3> QED BY <3>1, OverServe
    <2>8. CASE (\E c \in Dprcs : Scan(c)) \/ (\E o \in Pool : Draw(o))
      <3>1. UNCHANGED <<given, pc, queue, hand, outcome, before, made>>
        BY <2>8 DEF Scan, Draw, Environment, engine, history
      <3>2. Alike(board, board')
        <4>1. board \in Boards BY DEF IInv, Shape, TypeOK
        <4> QED BY <2>8, <4>1 DEF Scan, Draw, Alike, Boards
      <3> QED BY <3>1, <3>2, AroundServe
    <2>9. CASE OperatorEdits
      <3>1. pc' = "idle" BY <2>9 DEF OperatorEdits, Environment
      <3> QED BY <3>1, OverServe
    <2> QED BY <1>2, <2>1, <2>2, <2>3, <2>4, <2>5, <2>6, <2>7, <2>8, <2>9 DEF Next, Tool
  <1> QED BY <1>1, <1>2

\* No container is handed to VFIO between the two boards.
NoneHanded(b, n) == \A c \in Dprcs : n.driver[c] = "vfio" => b.driver[c] = "vfio"

\* Of all that is done to a board only a bind under VFIO hands one over.
LEMMA NotHanded ==
  ASSUME NEW b \in Boards, NEW n, NEW c, NEW o, NEW x, NEW S,
         \/ n.driver = b.driver \/ n = Spawned(b, c, x) \/ n = Minted(b, o, c) \/ n = Stamped(b, o, x)
         \/ n = PluggedIn(b, o) \/ n = Unplugged(b, o) \/ n = Joined(b, o, x)
         \/ n = Severed(b, o) \/ n = Gone(b, S) \/ n = Removed(b, c)
         \/ n = Overridden(b, c, x) \/ n = Unbound(b, c) \/ n = VfioUnbound(b, c)
         \/ n = Bound(Overridden(b, c, "kernel"), c, "kernel")
         \/ n = PluggedIn(Stamped(Minted(b, o, c), o, x), o)
  PROVE  NoneHanded(b, n)
  <1>1. CASE \/ n.driver = b.driver \/ n = Spawned(b, c, x) \/ n = Minted(b, o, c) \/ n = Stamped(b, o, x)
             \/ n = PluggedIn(b, o) \/ n = Unplugged(b, o) \/ n = Joined(b, o, x)
             \/ n = Severed(b, o) \/ n = Gone(b, S) \/ n = Overridden(b, c, x)
             \/ n = PluggedIn(Stamped(Minted(b, o, c), o, x), o)
    <2>1. n.driver = b.driver
      BY <1>1 DEF Spawned, Minted, Stamped, PluggedIn, Unplugged, Joined, Severed, Gone,
                  Overridden, Boards
    <2> QED BY <2>1 DEF NoneHanded
  <1>2. CASE n = Removed(b, c) \/ n = Unbound(b, c) \/ n = VfioUnbound(b, c)
    <2>1. n.driver = [b.driver EXCEPT ![c] = "none"]
      BY <1>2 DEF Removed, Gone, Unbound, VfioUnbound, Overridden, Boards
    <2> QED BY <2>1 DEF NoneHanded, Boards
  <1>3. CASE n = Bound(Overridden(b, c, "kernel"), c, "kernel")
    <2>1. n.driver = [b.driver EXCEPT ![c] = "kernel"] BY <1>3 DEF Bound, Overridden, Boards
    <2> QED BY <2>1 DEF NoneHanded, Boards
  <1> QED BY <1>1, <1>2, <1>3

\* Only the bind of a child hands a container to VFIO.
LEMMA OnlyBinds ==
  ASSUME IInv, Next, ~Bind
  PROVE  NoneHanded(board, board')
  <1>0. board \in Boards BY DEF IInv, Shape, TypeOK
  <1>1. ASSUME board' = board PROVE NoneHanded(board, board') BY <1>1 DEF NoneHanded
  <1>2. CASE Start \/ Phases
    <2>1. board' = board
      BY <1>2 DEF Start, Phases, PlanContainers, ContainersRefused, PlanPopulation,
                  RefusePopulation, PruneNothing, PruneGateRefused, PlanPrune, PhaseDone,
                  PhaseUnchanged
    <2> QED BY <1>1, <2>1
  <1>3. CASE Refused \/ VerbFails \/ Killed
    <2>1. board' = board BY <1>3 DEF Refused, VerbFails, Killed
    <2> QED BY <1>1, <2>1
  <1>10. CASE ErrsAfterEffect BY <1>0, <1>10, NotHanded DEF ErrsAfterEffect, LastSpawn
  <1>4. CASE Populating
    <2>1. CASE Verdict \/ ReclaimRefused \/ BelowDraw \/ JudgeChild
      BY <1>1, <2>1 DEF Verdict, ReclaimRefused, BelowDraw, JudgeChild
    <2>2. CASE Spawn
      <3>1. board' = Spawned(board, NextId(Dprcs \ board.live), V.arg) BY <2>2 DEF Spawn
      <3> QED BY <1>0, <3>1, NotHanded
    <2>3. CASE Mint("mintDpni", Dpnis) \/ Mint("mintPool", Pool) BY <1>0, <2>3, NotHanded DEF Mint
    <2>4. CASE Stamp \/ Plug \/ Connect BY <1>0, <2>4, NotHanded DEF Stamp, Plug, Connect
    <2>5. CASE Reclaim \/ PruneForeign BY <1>0, <2>5, NotHanded DEF Reclaim, PruneForeign
    <2>6. CASE KernelBind \/ Override \/ Unbind
      BY <1>0, <2>6, NotHanded DEF KernelBind, Override, Unbind
    <2> QED BY <1>4, <2>1, <2>2, <2>3, <2>4, <2>5, <2>6 DEF Populating
  <1>5. CASE Pruning
    <2>1. CASE TeardownRefused \/ PruneDone BY <1>1, <2>1 DEF TeardownRefused, PruneDone
    <2>2. CASE Release \/ Sever \/ UnplugResident \/ Destroy
      BY <1>0, <2>2, NotHanded DEF Release, Sever, UnplugResident, Destroy
    <2> QED BY <1>5, <2>1, <2>2 DEF Pruning
  <1>6. CASE Unwind
    <2>1. CASE UnwindRowFails \/ UnwindDone BY <1>1, <2>1 DEF UnwindRowFails, UnwindDone
    <2>2. CASE UnwindRow
      <3>1. LastRow.kind \in {"dprc", "dpni", "pool", "edge", "bound"}
        <4>1. journal \in Seq(SoundRows) /\ journal # << >>
          BY <2>2, Running DEF UnwindRow, Journaled
        <4>2. LastRow \in SoundRows BY <4>1 DEF LastRow, Last
        <4> QED BY <4>2 DEF SoundRows, RowsFor, Rows
      <3> QED BY <1>0, <2>2, <3>1, NotHanded DEF UnwindRow, Undone
    <2> QED BY <1>6, <2>1, <2>2 DEF Unwind
  <1>7. CASE (\E c \in Dprcs : Scan(c)) \/ (\E o \in Pool : Draw(o))
    <2>1. board'.driver = board.driver BY <1>0, <1>7 DEF Scan, Draw, Boards
    <2> QED BY <2>1 DEF NoneHanded
  <1>8. CASE OperatorEdits
    <2>1. board' \in Edited BY <1>8 DEF OperatorEdits
    <2>2. CASE \E c \in board.live, n \in Names : board' = [board EXCEPT !.name[c] = n]
      <3>1. board'.driver = board.driver BY <1>0, <2>2 DEF Boards
      <3> QED BY <3>1 DEF NoneHanded
    <2>3. CASE \E o \in Objs : board.home[o] \in Open /\ board' = Gone(board, {o})
      BY <1>0, <2>3, NotHanded
    <2>4. CASE \E o \in Objs, c \in Open, n \in Names :
                 board.home[o] = None /\ board' = PluggedIn(Stamped(Minted(board, o, c), o, n), o)
      BY <1>0, <2>4, NotHanded
    <2>5. CASE \/ \E c \in Open : board' = [board EXCEPT !.locked = @ \cup {c}]
               \/ \E c \in board.locked : board' = [board EXCEPT !.locked = @ \ {c}]
      <3>1. board'.driver = board.driver BY <1>0, <2>5 DEF Boards
      <3> QED BY <3>1 DEF NoneHanded
    <2>6. CASE \E c \in board.live : board' = Unbound(board, c) BY <1>0, <2>6, NotHanded
    <2> QED BY <2>1, <2>2, <2>3, <2>4, <2>5, <2>6, EditedIs
  <1> QED BY <1>2, <1>3, <1>4, <1>5, <1>6, <1>7, <1>8, <1>10 DEF Next, Tool

\* The bind of a child that a population has under way finds its tenant populated.
LEMMA BindServed ==
  ASSUME IInv, LInv, SInv, Bind, NEW c \in Dprcs, board.driver[c] # "vfio",
         board'.driver[c] = "vfio"
  PROVE  \E t \in Tenants : c = Handle(board, t) /\ PlanConverged(board, t, c)
  <1>1. /\ queue # << >> /\ V.op = "bind" /\ board' = Bound(board, V.on, "vfio")
        /\ CanBind(board, V.on, "vfio")
    BY DEF Bind, Next1, V
  <1>2. pc = "population" /\ board \in Boards BY <1>1, PhaseIs
  <1>3. queue \in Seq(Verbs) /\ V = queue[1] /\ Len(queue) \in Nat /\ 1 \in 1..Len(queue)
    BY <1>1, QueueIs
  <1>4. Underway(board, hand, queue)
    <2>1. ~Stuck(queue) BY <1>1, <1>3 DEF Stuck
    <2> QED BY <1>1, <1>2, <2>1 DEF SInv
  <1>5. c = V.on BY <1>1, <1>2 DEF Bound, Boards
  <1>6. Apt(board, V) /\ V \in On("bind", c)
    <2>1. V \in Verbs /\ Apt(board, V) BY <1>1, <1>2, <1>4, UnderwayHead
    <2> QED BY <1>1, <1>5, <2>1 DEF On
  <1> DEFINE t == board.name[c]
  <1>7. t \in Tenants /\ c = Handle(board, t) BY <1>1, <1>5, <1>6 DEF Apt, Heir
  <1>8. ~Doomed(board, queue, c)
    <2>1. board.over[c] = "vfio" /\ board.driver[c] # "vfio" BY <1>1, <1>5 DEF CanBind
    <2> QED BY <1>1, <1>3, <1>6, <2>1, DoomedHead
  <1>9. Assured(board, queue, t, c) BY <1>4, <1>7, <1>8 DEF Underway, Willed
  <1>10. 1 \in Ends(queue, c) /\ \A S : ~Ahead(queue, 1, S)
    <2>1. 1..(1-1) = {} OBVIOUS
    <2> QED BY <1>3, <1>6, <2>1 DEF Ends, Ahead
  <1> HIDE DEF V
  <1>11. PlanConverged(board, t, c) BY <1>9, <1>10 DEF Assured, PlanConverged
  <1> QED BY <1>7, <1>11

\* A container handed to VFIO by a step is that of a tenant populated before it.
Earned ==
  \A c \in Dprcs : board.driver[c] # "vfio" /\ board'.driver[c] = "vfio" =>
    \E t \in Tenants : c = Handle(board, t) /\ PlanConverged(board, t, c)

\* Every step keeps populate, then bind.
LEMMA EarnedStep ==
  ASSUME IInv, LInv, SInv, [Next]_vars
  PROVE  Earned
  <1>1. CASE Bind BY <1>1, BindServed DEF Earned
  <1>2. CASE Next /\ ~Bind BY <1>2, OnlyBinds DEF NoneHanded, Earned
  <1>3. CASE UNCHANGED vars
    <2>1. board' = board BY <1>3 DEF vars
    <2> QED BY <2>1 DEF Earned
  <1> QED BY <1>1, <1>2, <1>3

\* Only a prune that is over, or has nothing to do, ends a run converged.
LEMMA OnlyPruned ==
  ASSUME IInv, LInv, SInv, Next, pc # "idle", outcome' = "converged"
  PROVE  pc = "prune" /\ board' = board
  <1>1. outcome # "converged" BY DEF SInv, IInv, Shape, TypeOK
  <1>2. CASE PruneNothing BY <1>2 DEF PruneNothing, Planning
  <1>3. CASE PruneDone
    <2>1. queue # << >> /\ V.op = "pruneVerdict" /\ board' = board BY <1>3 DEF PruneDone, Next1, V
    <2> QED BY <2>1, PhaseIs
  <1>4. ~(Start \/ OperatorEdits) BY DEF Start, OperatorEdits
  <1>5. ~(ContainersRefused \/ RefusePopulation \/ PruneGateRefused \/ BelowDraw \/ UnwindDone
          \/ Killed)
    BY DEF ContainersRefused, RefusePopulation, PruneGateRefused, BelowDraw, UnwindDone,
           Killed, End
  <1>6. ~(Refused \/ VerbFails \/ ErrsAfterEffect)
    BY FailOver DEF Refused, VerbFails, ErrsAfterEffect, Fail, End
  <1>7. ~(PlanContainers \/ PlanPopulation \/ PlanPrune \/ PhaseDone)
    BY <1>1 DEF PlanContainers, PlanPopulation, PlanPrune, PhaseDone, PhaseUnchanged
  <1>8. Populating => BelowDraw
    BY <1>1 DEF Populating, Spawn, Verdict, Mint, Stamp, Plug, Connect, Reclaim,
                ReclaimRefused, PruneForeign, JudgeChild, KernelBind, Override, Bind, Unbind,
                Advance
  <1>9. Pruning => PruneDone
    BY <1>1 DEF Pruning, Release, Sever, UnplugResident, Destroy, TeardownRefused, Advance
  <1>10. Unwind => UnwindDone BY <1>1 DEF Unwind, UnwindRow, UnwindRowFails
  <1>11. ~((\E c \in Dprcs : Scan(c)) \/ (\E o \in Pool : Draw(o)))
    BY <1>1 DEF Scan, Draw, Environment
  <1> QED BY <1>2, <1>3, <1>4, <1>5, <1>6, <1>7, <1>8, <1>9, <1>10, <1>11 DEF Next, Tool, Phases

\* A run that ends converged ends on what SInv promises of a prune.
LEMMA ConvergedStep ==
  IInv /\ LInv /\ SInv /\ [Next]_vars =>
    /\ [pc # "idle" /\ outcome' = "converged" => \A t \in Tenants : Served(board', t)]_vars
    /\ [pc # "idle" /\ outcome' = "converged" =>
          \A t \in Tenants : \A p \in ToSet(Ports[t]) :
            LET d == PortRow(board', Handle(board', t), p)
            IN d \in board'.plugged \ board'.hidden \/ LeftBehind(d)]_vars
  <1> SUFFICES ASSUME IInv, LInv, SInv, Next, pc # "idle", outcome' = "converged",
                      NEW t \in Tenants
               PROVE  /\ Served(board', t)
                      /\ \A p \in ToSet(Ports[t]) :
                           LET d == PortRow(board', Handle(board', t), p)
                           IN d \in board'.plugged \ board'.hidden \/ LeftBehind(d)
    OBVIOUS
  <1>1. pc = "prune" /\ board' = board BY OnlyPruned
  <1>2. /\ Served(board, t)
        /\ \A d \in DpniRows(board, Handle(board, t)) : Seen(board, d) \/ d \in Inherited
    BY <1>1 DEF SInv, Complete
  <1>3. ASSUME NEW p \in ToSet(Ports[t]), NEW d, d = PortRow(board, Handle(board, t), p)
        PROVE  d \in board.plugged \ board.hidden \/ LeftBehind(d)
    <2>1. d # None BY <1>2, <1>3 DEF Served, PlanConverged, NeedsConnect
    <2>2. d \in DpniRows(board, Handle(board, t)) BY <1>3, <2>1, PortRowIs DEF DpniRows, Residents
    <2> QED BY <1>2, <2>2 DEF Seen, Inherited
  <1> QED BY <1>1, <1>2, <1>3

\* A container is handed to VFIO only when every port of its tenant stands in it with
\* its edge and its companions are what the tenant needs (engine.rs
\* dispatch_population: populate, judge, then bind), whatever other runs, edits and
\* kills went before.
THEOREM PopulatedFirst == Spec => PopulateThenBind
  <1>1. Init => IInv /\ LInv /\ SInv BY Started, LifeStarted DEF Init, SInv
  <1>2. IInv /\ LInv /\ SInv /\ [Next]_vars => (IInv /\ LInv /\ SInv)'
    BY Inductive, LifeStep, ServeStep
  <1>3. IInv /\ LInv /\ SInv /\ [Next]_vars =>
          [\A c \in Dprcs : board.driver[c] # "vfio" /\ board'.driver[c] = "vfio" =>
             \E t \in Tenants : c = Handle(board, t) /\ PlanConverged(board, t, c)]_vars
    BY EarnedStep DEF Earned
  <1> QED BY <1>1, <1>2, <1>3, PTL DEF Spec, PopulateThenBind

\* A run that ends converged leaves every declared tenant its container, wired ports,
\* companions and consumer, and shows it every port but one the run found unplugged or
\* hidden (engine.rs: the verdict after the last phase).
THEOREM ConvergedProved == Spec => ConvergedHonest
  <1>1. Init => IInv /\ LInv /\ SInv BY Started, LifeStarted DEF Init, SInv
  <1>2. IInv /\ LInv /\ SInv /\ [Next]_vars => (IInv /\ LInv /\ SInv)'
    BY Inductive, LifeStep, ServeStep
  <1> QED BY <1>1, <1>2, ConvergedStep, PTL DEF Spec, ConvergedHonest, ConvergedServes, ConvergedVisible
=============================================================================
