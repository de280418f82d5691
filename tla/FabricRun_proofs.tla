-------------------------- MODULE FabricRun_proofs --------------------------
(***************************************************************************)
(* What is proved of FabricRun for every instance of its constants.        *)
(***************************************************************************)
EXTENDS FabricRun

-----------------------------------------------------------------------------
(* The inductive invariant. *)

Early == pc \in {"population", "links"}
Standing(b) == Dpnis \cap Living(b)

\* What a verb of a phase may be about.
Fits(ph, b, b0, v) ==
  \/ v.op \in {"next", "done"}
  \/ /\ ph = "population"
     /\ \/ v.op \in {"mint", "stamp", "plug"} /\ v.at \in Kids /\ v.arg \in Names
        \/ v.op = "join" /\ v.a \in Standing(b) \cup {None} /\ v.b \in Standing(b)
  \/ /\ ph = "links"
     /\ \/ v.op \in {"mint", "stamp"} /\ v.at = Root /\ v.arg \in Names
        \/ v.op = "wire" /\ v.a \in Standing(b) \cup {None} /\ v.b \in Standing(b) \cup {None}
        \/ v.op \in {"plugA", "plugB"} /\ v.a \in Standing(b) \cup {None}
  \/ /\ ph = "switches"
     /\ \/ v.op \in {"mintSwitch", "stamp"} /\ v.at = Root /\ v.arg \in Labels
        \/ v.op = "port" /\ v.arg \in 0..Widest /\ v.b \in Macs \cup Standing(b)
        \/ v.op = "plugA" /\ v.a = None
        \/ v.op = "sever" /\ v.a \in Dpnis
        \/ v.op = "raise" /\ v.arg \in DOMAIN Domains /\ Due(b0, Domains[v.arg])
  \/ /\ ph \in {"switches", "prune"}
     /\ v.op = "destroy" /\ v.a \in Switches /\ Doomed(b0, v.a)

\* Which verb follows which.
Follows(ph, v, w) ==
  /\ v.op # "done"
  /\ v.op \in {"mint", "mintSwitch"} => w.op = "stamp" /\ w.at = v.at /\ w.arg = v.arg
  /\ ph = "population" =>
       /\ v.op = "stamp" => w.op = "plug"
       /\ v.op = "plug" => w.op \in {"join", "next"}
       /\ v.op = "join" => w.op = "next"
       /\ v.op = "next" => w.op \in {"mint", "next", "done"} \/ (w.op = "join" /\ w.a # None)
  /\ ph = "links" =>
       /\ v.op = "stamp" => w.op \in {"mint", "wire"}
       /\ v.op = "wire" => \/ w.op = "next"
                           \/ w.op = "plugA" /\ w.a = v.a
                           \/ w.op = "plugB" /\ w.a = v.b
       /\ v.op = "plugA" => w.op \in {"plugB", "next"}
       /\ v.op = "plugB" => w.op = "next"
       /\ v.op = "next" => w.op \in {"mint", "done"} \/ (w.op = "wire" /\ w.a # None /\ w.b # None)
  /\ ph = "switches" =>
       /\ v.op = "sever" => w.op = "mintSwitch"
       /\ v.op = "stamp" => w.op = "port"
       /\ v.op = "port" => w.op \in {"port", "plugA"}
       /\ v.op = "plugA" => w.op = "next"
       /\ v.op \in {"next", "raise", "destroy"} => w.op \in {"raise", "destroy", "done"}
  /\ ph = "prune" => w.op \in {"destroy", "done"}

Follows3(v, w, x) ==
  v.op = "wire" /\ w.op = "plugA" /\ x.op = "plugB" => x.a = v.b

\* What the head of the queue finds.
Ready(b, b0, hd, js, v) ==
  /\ v.op \in {"stamp", "plug", "port"} => hd # << >>
  /\ v.op \in {"plugA", "plugB"} /\ v.a = None => hd # << >>
  /\ v.op = "join" /\ v.a = None => hd # << >>
  /\ v.op = "wire" /\ (v.a = None \/ v.b = None) => hd # << >>
  /\ v.op = "stamp" => b.home[Last(hd)] = v.at
  /\ v.op = "port" => Row1("object", Last(hd)) \in js
  /\ v.op \in {"raise", "destroy", "sever", "mintSwitch", "done"} => hd = << >>
  /\ v.op = "sever" => \E i \in DOMAIN Domains :
                          Due(b0, Domains[i]) /\ b.wire[v.a] = Domains[i].uplink

\* A queue is put together from steps of the phase.
Ops == {"mint", "mintSwitch", "stamp", "plug", "join", "wire", "plugA", "plugB", "next",
        "raise", "sever", "port", "destroy", "done"}
Things == Ends \cup Objs \cup {None}
Verbs == [op : Ops, at : Homes \cup {None}, arg : Names \cup Nat \cup {None}, a : Things, b : Things]
Fit(ph, b, b0) == {v \in Verbs : Fits(ph, b, b0, v)}
Linked(ph, q) ==
  /\ \A i \in 1..(Len(q) - 1) : Follows(ph, q[i], q[i+1])
  /\ \A i \in 1..(Len(q) - 2) : Follows3(q[i], q[i+1], q[i+2])

QueueInv ==
  queue # << >> =>
    /\ pc \in Phases
    /\ queue \in Seq(Fit(pc, board, before)) /\ Linked(pc, queue)
    /\ queue[Len(queue)].op = "done"
    /\ Ready(board, before, hand, ToSet(journal), queue[1])
    /\ queue[1].op = "plugA" /\ Len(queue) > 1 /\ queue[2].op = "plugB" /\ queue[2].a = None =>
         hand # << >>

Record1 == [kind : {"object", "edge", "port"}, obj : Objs]
Shapes == links \in Intents /\ hand \in Seq(Objs) /\ journal \in Seq(Record1)

Spared == {o \in Objs : before.home[o] # None /\ ~(o \in Switches /\ Doomed(before, o))}

IdleInv ==
  /\ pc = "idle" => queue = << >> /\ hand = << >> /\ journal = << >> /\ unreversed = {} /\ made = {}
  /\ pc = "unwind" => queue = << >> /\ hand = << >>
  /\ pc # "idle" => opts \in choices
  /\ pc = "population" /\ queue = << >> => board = before /\ journal = << >>

HandInv ==
  \A o \in ToSet(hand) :
    /\ o \notin Spared /\ board.home[o] # None
    /\ o \in IF Early THEN Dpnis ELSE Switches

SparedInv ==
  pc # "idle" =>
    /\ \A o \in Spared : board.home[o] # None
    /\ \A r \in ToSet(journal) :
         /\ r.kind = "object" => r.obj \notin Spared
         /\ r.kind = "edge" => r.obj \in Dpnis /\ before.wire[r.obj] = None
    /\ Early => \A e \in Ends : before.wire[e] # None => board.wire[e] = before.wire[e]

SwitchInv ==
  /\ pc \in Phases => \A s \in Switches : board.tag[s] \in Labels \cup {None, before.tag[s]}
  /\ Early \/ (pc = "switches" /\ queue = << >>) =>
       \A s \in Switches : /\ board.home[s] = before.home[s] /\ board.tag[s] = before.tag[s]
                           /\ s \in board.drifted <=> s \in before.drifted

GateInv ==
  pc # "idle" /\ opts.allow < 2 =>
    /\ \A i \in 1..Len(queue) : /\ queue[i].op \in {"join", "next", "done"}
                                /\ queue[i].op = "join" => queue[i].a # None
    /\ \A r \in ToSet(journal) : r.kind = "edge"

Rows == ToSet(journal) \cup unreversed
Covered(e, w) ==
  \E r \in Rows : \/ r.kind = "edge" /\ r.obj \in {e, w}
                  \/ r.kind = "object" /\ {e, w} \cap EndsOf(r.obj) # {}
\* The ends of an edge that came with no row: that of a connect that erred.
Loose == {e \in Dpnis \cup Macs :
            board.wire[e] \notin {None, before.wire[e]} /\ ~Covered(e, board.wire[e])}
RecordInv ==
  pc # "idle" =>
    /\ pc \in Phases => \A o \in made : Row1("object", o) \in Rows
    /\ \A o \in made : board.home[o] # None => Row1("object", o) \in Rows
    /\ pc \in Phases =>
         \A e \in Dpnis \cup Macs :
           board.wire[e] \notin {None, before.wire[e]} => Covered(e, board.wire[e])
    /\ pc = "unwind" =>
         \A e, f \in Loose : before.wire[e] = None /\ f \in {e, board.wire[e]}

Stamps(h, n) == {v \in Verbs : v.op = "stamp" /\ v.at = h /\ v.arg = n}
Pend(h, n) == IF Early THEN Hits(queue, Stamps(h, n)) ELSE {}
CountInv ==
  pc # "idle" =>
    /\ pc = "population" \/ (pc = "links" /\ queue = << >>) =>
         \A n \in Names : RowsNamed(board, Root, n) = RowsNamed(before, Root, n)
    /\ \A h \in Homes, n \in Names :
         \/ RowsNamed(board, h, n) \subseteq RowsNamed(before, h, n) /\ Pend(h, n) = {}
         \/ Cardinality(RowsNamed(board, h, n)) + Cardinality(Pend(h, n)) <= PlannedEnds(h, n)

Inv ==
  /\ TypeOK /\ Shapes /\ Consistent(board) /\ Consistent(before)
  /\ IdleInv /\ QueueInv /\ HandInv /\ SparedInv /\ SwitchInv /\ GateInv /\ RecordInv /\ CountInv
  /\ GateHolds /\ ForeignEdgesKept

-----------------------------------------------------------------------------
(* Endpoints and boards. *)

LEMMA DomainsIn ==
  /\ Len(Domains) \in Nat /\ DOMAIN Domains = 1..Len(Domains)
  /\ \A i \in DOMAIN Domains :
       /\ Domains[i].label \in Names /\ Domains[i].label \in Labels
       /\ Domains[i].uplink \in Macs /\ Domains[i].members \in Seq(Member)
  <1> DEFINE D == [label : Names, uplink : Macs, members : Seq(Member)]
  <1>1. Domains \in Seq(D) BY PlanAssumption
  <1>2. \A x \in D : x.label \in Names /\ x.uplink \in Macs /\ x.members \in Seq(Member) OBVIOUS
  <1> HIDE DEF D
  <1>3. Len(Domains) \in Nat /\ DOMAIN Domains = 1..Len(Domains) /\ \A i \in DOMAIN Domains : Domains[i] \in D
    BY <1>1
  <1> QED BY <1>2, <1>3 DEF Labels

LEMMA NoneApart ==
  /\ None \notin Ends /\ None \notin Homes /\ None \notin Names /\ None \notin Labels
  /\ None \notin Objs /\ None \notin Dpnis /\ None \notin Switches /\ None \notin Macs
  /\ \A s \in Switches : None \notin IfsOf(s)
  /\ Create \notin Dpnis /\ Create # None
  <1>1. /\ None \notin Ends \cup Objs /\ None \notin Homes /\ None \notin Names
        /\ None # Create /\ Create \notin Ends \cup Objs
    BY BoardAssumption
  <1>2. Labels \subseteq Names BY DomainsIn DEF Labels
  <1>3. None \notin Dpnis /\ None \notin Macs /\ Create \notin Dpnis /\ None \notin Switches
    BY <1>1 DEF Ends, Objs
  <1>4. \A s \in Switches : None \notin IfsOf(s) BY <1>1 DEF Ends
  <1> QED BY <1>1, <1>2, <1>3, <1>4

\* The interfaces of two switches are apart, and none is a dpni or a dpmac.
LEMMA EndsApart ==
  /\ Dpnis \subseteq Ends /\ Macs \subseteq Ends /\ Dpnis \cap Switches = {} /\ Dpnis \cap Macs = {}
  /\ \A o \in Objs : EndsOf(o) \subseteq Ends /\ EndsOf(o) \cap Macs = {}
  /\ \A o, p \in Objs : o # p => EndsOf(o) \cap EndsOf(p) = {}
  /\ \A d \in Dpnis : EndsOf(d) = {d} /\ \A s \in Switches : d \notin IfsOf(s)
  /\ \A s \in Switches : EndsOf(s) = IfsOf(s)
  /\ \A s \in Switches, i \in 0..Widest : If(s, i) \in IfsOf(s) /\ If(s, i) \in Ends
  <1>1. /\ Dpnis \subseteq 1..999 /\ Switches \subseteq 1..999 /\ Macs \subseteq 1..999
        /\ Dpnis \cap Switches = {} /\ Macs \cap Dpnis = {} /\ Widest \in 0..999
    BY BoardAssumption
  <1>2. \A s \in Switches : \A e \in IfsOf(s) : e \in Nat /\ e > 999 /\ e \in Ends
    BY <1>1, SMTT(30) DEF IfsOf, If, Ends
  <1>3. \A s, t \in Switches : s # t => IfsOf(s) \cap IfsOf(t) = {}
    <2> SUFFICES ASSUME NEW s \in Switches, NEW t \in Switches, s < t, NEW e \in IfsOf(s) \cap IfsOf(t)
                 PROVE  FALSE
      BY <1>1
    <2>1. PICK i \in 0..999 : e = 1000 * s + i BY <1>1, SMTT(30) DEF IfsOf, If
    <2>2. PICK j \in 0..999 : e = 1000 * t + j BY <1>1, SMTT(30) DEF IfsOf, If
    <2>3. s \in Nat /\ t \in Nat /\ s + 1 <= t /\ i <= 999 /\ j >= 0 /\ i \in Nat /\ j \in Nat
      BY <1>1, <2>1, <2>2
    <2>4. 1000 * (s + 1) <= 1000 * t BY <2>3
    <2> QED BY <2>1, <2>2, <2>3, <2>4
  <1>4. \A d \in Dpnis \cup Macs : d \in Nat /\ d <= 999 /\ d \in Ends BY <1>1 DEF Ends
  <1>5. \A d \in Dpnis \cup Macs, s \in Switches : d \notin IfsOf(s) BY <1>2, <1>4
  <1>6. \A d \in Dpnis : EndsOf(d) = {d} BY <1>1 DEF EndsOf
  <1>7. \A s \in Switches : EndsOf(s) = IfsOf(s) BY DEF EndsOf
  <1>8. \A s \in Switches, i \in 0..Widest : If(s, i) \in IfsOf(s) /\ If(s, i) \in Ends
    BY <1>2 DEF IfsOf
  <1>9. \A o \in Objs : EndsOf(o) \subseteq Ends /\ EndsOf(o) \cap Macs = {}
    BY <1>1, <1>2, <1>4, <1>5, <1>6, <1>7 DEF Objs
  <1>10. \A o, p \in Objs : o # p => EndsOf(o) \cap EndsOf(p) = {}
    BY <1>3, <1>5, <1>6, <1>7 DEF Objs
  <1> QED BY <1>1, <1>4, <1>5, <1>6, <1>7, <1>8, <1>9, <1>10

LEMMA BoardIn ==
  ASSUME NEW b \in Boards
  PROVE  /\ b.home \in [Objs -> Homes \cup {None}] /\ b.tag \in [Objs -> Names \cup {None}]
         /\ b.plugged \subseteq Objs /\ b.wire \in [Ends -> Ends \cup {None}] /\ b.drifted \subseteq Switches
  BY DEF Boards

\* One field of a board at a time.
LEMMA MintedIs ==
  ASSUME NEW b \in Boards, NEW o \in Objs, NEW h \in Homes
  PROVE  /\ Minted(b, o, h) \in Boards
         /\ Minted(b, o, h).home = [b.home EXCEPT ![o] = h] /\ Minted(b, o, h).tag = b.tag
         /\ Minted(b, o, h).plugged = b.plugged /\ Minted(b, o, h).wire = b.wire
         /\ Minted(b, o, h).drifted = b.drifted \ {o}
  BY DEF Boards, Minted

LEMMA StampedIs ==
  ASSUME NEW b \in Boards, NEW o \in Objs, NEW n \in Names \cup {None}
  PROVE  /\ Stamped(b, o, n) \in Boards
         /\ Stamped(b, o, n).home = b.home /\ Stamped(b, o, n).tag = [b.tag EXCEPT ![o] = n]
         /\ Stamped(b, o, n).plugged = b.plugged /\ Stamped(b, o, n).wire = b.wire
         /\ Stamped(b, o, n).drifted = b.drifted
  BY DEF Boards, Stamped

LEMMA PluggedIs ==
  ASSUME NEW b \in Boards, NEW o \in Objs
  PROVE  /\ PluggedIn(b, o) \in Boards
         /\ PluggedIn(b, o).home = b.home /\ PluggedIn(b, o).tag = b.tag
         /\ PluggedIn(b, o).plugged = b.plugged \cup {o} /\ PluggedIn(b, o).wire = b.wire
         /\ PluggedIn(b, o).drifted = b.drifted
  BY DEF Boards, PluggedIn

LEMMA JoinedIs ==
  ASSUME NEW b \in Boards, NEW e \in Ends, NEW f \in Ends
  PROVE  /\ Joined(b, e, f) \in Boards
         /\ Joined(b, e, f).home = b.home /\ Joined(b, e, f).tag = b.tag
         /\ Joined(b, e, f).plugged = b.plugged /\ Joined(b, e, f).drifted = b.drifted
         /\ \A x \in Ends : Joined(b, e, f).wire[x] = IF x = f THEN e ELSE IF x = e THEN f ELSE b.wire[x]
  BY DEF Boards, Joined

LEMMA CutIs ==
  ASSUME NEW b \in Boards, NEW S
  PROVE  /\ Cut(b, S) \in Boards
         /\ Cut(b, S).home = b.home /\ Cut(b, S).tag = b.tag
         /\ Cut(b, S).plugged = b.plugged /\ Cut(b, S).drifted = b.drifted
         /\ \A x \in Ends : Cut(b, S).wire[x] = IF x \in S \/ b.wire[x] \in S THEN None ELSE b.wire[x]
  BY DEF Boards, Cut

LEMMA GoneIs ==
  ASSUME NEW b \in Boards, NEW o \in Objs
  PROVE  /\ Gone(b, o) \in Boards
         /\ Gone(b, o).home = [b.home EXCEPT ![o] = None] /\ Gone(b, o).tag = [b.tag EXCEPT ![o] = None]
         /\ Gone(b, o).plugged = b.plugged \ {o} /\ Gone(b, o).drifted = b.drifted \ {o}
         /\ \A x \in Ends : Gone(b, o).wire[x] =
                 IF x \in EndsOf(o) \/ b.wire[x] \in EndsOf(o) THEN None ELSE b.wire[x]
  <1> DEFINE c == Cut(b, EndsOf(o))
  <1>1. /\ c \in Boards /\ c.home = b.home /\ c.tag = b.tag /\ c.plugged = b.plugged /\ c.drifted = b.drifted
        /\ \A x \in Ends : c.wire[x] = IF x \in EndsOf(o) \/ b.wire[x] \in EndsOf(o) THEN None ELSE b.wire[x]
    BY CutIs
  <1> HIDE DEF c
  <1>2. Gone(b, o) = [c EXCEPT !.home[o] = None, !.tag[o] = None, !.plugged = @ \ {o}, !.drifted = @ \ {o}]
    BY DEF Gone, c
  <1>3. /\ Gone(b, o) = [home |-> [c.home EXCEPT ![o] = None], tag |-> [c.tag EXCEPT ![o] = None],
                          plugged |-> c.plugged \ {o}, wire |-> c.wire, drifted |-> c.drifted \ {o}]
    BY <1>1, <1>2 DEF Boards
  <1>4. /\ [c.home EXCEPT ![o] = None] \in [Objs -> Homes \cup {None}]
        /\ [c.tag EXCEPT ![o] = None] \in [Objs -> Names \cup {None}]
        /\ c.plugged \ {o} \in SUBSET Objs /\ c.drifted \ {o} \in SUBSET Switches
        /\ c.wire \in [Ends -> Ends \cup {None}]
    BY <1>1 DEF Boards
  <1>5. Gone(b, o) \in Boards BY <1>3, <1>4 DEF Boards
  <1>6. /\ Gone(b, o).home = [c.home EXCEPT ![o] = None] /\ Gone(b, o).tag = [c.tag EXCEPT ![o] = None]
        /\ Gone(b, o).plugged = c.plugged \ {o} /\ Gone(b, o).drifted = c.drifted \ {o}
        /\ Gone(b, o).wire = c.wire
    BY <1>3
  <1> QED BY <1>1, <1>5, <1>6

\* What a command leaves of a consistent board.
Stands(b, e) == \A o \in Objs : e \in EndsOf(o) => b.home[o] # None

LEMMA MintedSound ==
  ASSUME NEW b \in Boards, Consistent(b), NEW o \in Objs, NEW h \in Homes
  PROVE  Consistent(Minted(b, o, h))
  <1> DEFINE c == Minted(b, o, h)
  <1>1. /\ c.home = [b.home EXCEPT ![o] = h] /\ c.tag = b.tag
        /\ c.plugged = b.plugged /\ c.wire = b.wire /\ c.drifted = b.drifted \ {o}
    BY MintedIs
  <1> HIDE DEF c
  <1>2. \A p \in Objs : c.home[p] = None => b.home[p] = None BY <1>1, NoneApart, BoardIn
  <1>3. Consistent(c) BY <1>1, <1>2 DEF Consistent
  <1> QED BY <1>3 DEF c

LEMMA StampedSound ==
  ASSUME NEW b \in Boards, Consistent(b), NEW o \in Objs, b.home[o] # None, NEW n \in Names \cup {None}
  PROVE  Consistent(Stamped(b, o, n))
  <1> DEFINE c == Stamped(b, o, n)
  <1>1. /\ c.home = b.home /\ c.tag = [b.tag EXCEPT ![o] = n]
        /\ c.plugged = b.plugged /\ c.wire = b.wire /\ c.drifted = b.drifted
    BY StampedIs
  <1> HIDE DEF c
  <1>2. \A p \in Objs : c.home[p] = None => c.tag[p] = b.tag[p] BY <1>1, BoardIn
  <1>3. Consistent(c) BY <1>1, <1>2 DEF Consistent
  <1> QED BY <1>3 DEF c

LEMMA PluggedSound ==
  ASSUME NEW b \in Boards, Consistent(b), NEW o \in Objs, b.home[o] # None
  PROVE  Consistent(PluggedIn(b, o))
  <1> DEFINE c == PluggedIn(b, o)
  <1>1. /\ c.home = b.home /\ c.tag = b.tag
        /\ c.plugged = b.plugged \cup {o} /\ c.wire = b.wire /\ c.drifted = b.drifted
    BY PluggedIs
  <1> HIDE DEF c
  <1>2. Consistent(c) BY <1>1 DEF Consistent
  <1> QED BY <1>2 DEF c

LEMMA JoinedSound ==
  ASSUME NEW b \in Boards, Consistent(b), NEW e \in Ends, NEW f \in Ends, CanJoin(b, e, f),
         Stands(b, e), Stands(b, f)
  PROVE  Consistent(Joined(b, e, f))
  <1> DEFINE c == Joined(b, e, f)
  <1>1. /\ c.home = b.home /\ c.tag = b.tag /\ c.plugged = b.plugged /\ c.drifted = b.drifted
        /\ \A x \in Ends : c.wire[x] = IF x = f THEN e ELSE IF x = e THEN f ELSE b.wire[x]
    BY JoinedIs
  <1> HIDE DEF c
  <1>2. e # f /\ b.wire[e] = None /\ b.wire[f] = None BY DEF CanJoin
  <1>3. ASSUME NEW x \in Ends, c.wire[x] # None PROVE c.wire[c.wire[x]] = x
    <2>1. CASE x \in {e, f} BY <1>1, <1>2, <2>1
    <2>2. CASE x \notin {e, f}
      <3>1. c.wire[x] = b.wire[x] /\ b.wire[x] \in Ends /\ b.wire[b.wire[x]] = x
        BY <1>1, <1>3, <2>2, BoardIn DEF Consistent
      <3>2. b.wire[x] \notin {e, f} BY <1>2, <3>1, NoneApart
      <3> QED BY <1>1, <3>1, <3>2
    <2> QED BY <2>1, <2>2
  <1>4. ASSUME NEW o \in Objs, c.home[o] = None
        PROVE  c.tag[o] = None /\ o \notin c.plugged /\ o \notin c.drifted
    BY <1>1, <1>4 DEF Consistent
  <1>5. ASSUME NEW o \in Objs, c.home[o] = None, NEW x \in EndsOf(o)
        PROVE  c.wire[x] = None
    <2>1. x \in Ends /\ b.wire[x] = None /\ x # e /\ x # f
      BY <1>1, <1>5, EndsApart DEF Consistent, Stands
    <2> QED BY <1>1, <2>1
  <1>6. Consistent(c) BY <1>3, <1>4, <1>5 DEF Consistent
  <1> QED BY <1>6 DEF c

LEMMA CutSound ==
  ASSUME NEW b \in Boards, Consistent(b), NEW S
  PROVE  Consistent(Cut(b, S))
  <1> DEFINE c == Cut(b, S)
  <1>1. /\ c.home = b.home /\ c.tag = b.tag /\ c.plugged = b.plugged /\ c.drifted = b.drifted
        /\ \A x \in Ends : c.wire[x] = IF x \in S \/ b.wire[x] \in S THEN None ELSE b.wire[x]
    BY CutIs
  <1> HIDE DEF c
  <1>2. ASSUME NEW x \in Ends, c.wire[x] # None PROVE c.wire[c.wire[x]] = x
    <2>1. c.wire[x] = b.wire[x] /\ x \notin S /\ b.wire[x] \notin S BY <1>1, <1>2
    <2>2. b.wire[x] \in Ends /\ b.wire[b.wire[x]] = x BY <1>2, <2>1, BoardIn DEF Consistent
    <2> QED BY <1>1, <2>1, <2>2
  <1>3. ASSUME NEW o \in Objs, c.home[o] = None, NEW x \in EndsOf(o)
        PROVE  c.wire[x] = None
    BY <1>1, <1>3, EndsApart DEF Consistent
  <1>4. Consistent(c) BY <1>1, <1>2, <1>3 DEF Consistent
  <1> QED BY <1>4 DEF c

LEMMA GoneSound ==
  ASSUME NEW b \in Boards, Consistent(b), NEW o \in Objs
  PROVE  Consistent(Gone(b, o))
  <1> DEFINE c == Gone(b, o)
             k == Cut(b, EndsOf(o))
  <1>1. /\ c.home = [b.home EXCEPT ![o] = None] /\ c.tag = [b.tag EXCEPT ![o] = None]
        /\ c.plugged = b.plugged \ {o} /\ c.drifted = b.drifted \ {o} /\ c \in Boards
        /\ \A x \in Ends : c.wire[x] = IF x \in EndsOf(o) \/ b.wire[x] \in EndsOf(o) THEN None ELSE b.wire[x]
    BY GoneIs
  <1>2. /\ Consistent(k) /\ k \in Boards
        /\ \A x \in Ends : k.wire[x] = IF x \in EndsOf(o) \/ b.wire[x] \in EndsOf(o) THEN None ELSE b.wire[x]
    BY CutIs, CutSound
  <1> HIDE DEF c, k
  <1>3. \A x \in Ends : c.wire[x] = k.wire[x] BY <1>1, <1>2
  <1>4. \A x \in Ends : c.wire[x] # None => c.wire[c.wire[x]] = x
    BY <1>2, <1>3, BoardIn DEF Consistent
  <1>5. ASSUME NEW p \in Objs, c.home[p] = None
        PROVE  c.tag[p] = None /\ p \notin c.plugged /\ p \notin c.drifted
    BY <1>1, <1>5, BoardIn DEF Consistent
  <1>6. ASSUME NEW p \in Objs, c.home[p] = None, NEW x \in EndsOf(p)
        PROVE  c.wire[x] = None
    BY <1>1, <1>6, EndsApart, BoardIn DEF Consistent
  <1>7. Consistent(c) BY <1>4, <1>5, <1>6 DEF Consistent
  <1> QED BY <1>7 DEF c

LEMMA LowestIn ==
  ASSUME NEW S, S \subseteq Nat, S # {}
  PROVE  Lowest(S) \in S
  <1>1. PICK i \in S : \A j \in S : ~(j < i) BY SomeLeast
  <1>2. \A j \in S : i <= j BY <1>1
  <1> QED BY <1>2 DEF Lowest

\* An edit leaves a board that can be read.
LEMMA EditedSound ==
  ASSUME board \in Boards, Consistent(board), NEW c \in Edited
  PROVE  c \in Boards /\ Consistent(c)
  <1>0. Dpnis \subseteq Ends /\ Macs \subseteq Ends /\ Dpnis \subseteq Objs /\ Switches \subseteq Objs
    BY EndsApart DEF Objs
  <1>1. ASSUME NEW e, c = Cut(board, {e}) PROVE c \in Boards /\ Consistent(c)
    BY <1>1, CutIs, CutSound
  <1>2. ASSUME NEW d \in Lone(board) \cap Dpnis, NEW m \in Lone(board) \cap Macs, c = Joined(board, d, m)
        PROVE  c \in Boards /\ Consistent(c)
    <2>1. d \in Ends /\ m \in Ends /\ d # m /\ board.wire[d] = None /\ board.wire[m] = None /\ board.home[d] # None
      BY <1>0, EndsApart DEF Lone
    <2>2. Stands(board, d) /\ Stands(board, m) BY <1>0, <2>1, EndsApart DEF Stands
    <2> QED BY <1>2, <2>1, <2>2, JoinedIs, JoinedSound DEF CanJoin
  <1>3. ASSUME NEW o \in Living(board), c = [board EXCEPT !.tag[o] = None] PROVE c \in Boards /\ Consistent(c)
    <2>1. o \in Objs /\ board.home[o] # None /\ None \in Names \cup {None} /\ c = Stamped(board, o, None)
      BY <1>3 DEF Living, Stamped
    <2> QED BY <2>1, StampedIs, StampedSound
  <1>4. ASSUME NEW o \in Living(board), c = Gone(board, o) PROVE c \in Boards /\ Consistent(c)
    BY <1>4, GoneIs, GoneSound DEF Living
  <1>5. ASSUME NEW s \in Living(board) \cap Switches, c = [board EXCEPT !.drifted = @ \cup {s}]
        PROVE  c \in Boards /\ Consistent(c)
    <2>1. /\ c \in Boards /\ c.home = board.home /\ c.tag = board.tag /\ c.plugged = board.plugged
          /\ c.wire = board.wire /\ c.drifted = board.drifted \cup {s}
      BY <1>5 DEF Boards
    <2>2. s \in Objs /\ board.home[s] # None BY DEF Living
    <2> QED BY <2>1, <2>2 DEF Consistent
  <1>6. ASSUME NEW S \in {FreeIds(board, Switches)} \ {{}}, NEW n \in Names,
               c = Stamped(Minted(board, Lowest(S), Root), Lowest(S), n)
        PROVE  c \in Boards /\ Consistent(c)
    <2>1. S \subseteq Switches /\ S # {} /\ Switches \subseteq Nat BY BoardAssumption DEF FreeIds
    <2>2. Lowest(S) \in Objs /\ Root \in Homes BY <1>0, <2>1, LowestIn DEF Homes
    <2> DEFINE k == Minted(board, Lowest(S), Root)
               l == Lowest(S)
    <2>3. k \in Boards /\ Consistent(k) /\ k.home = [board.home EXCEPT ![l] = Root]
      BY <2>2, MintedIs, MintedSound
    <2>4. c = Stamped(k, l, n) /\ l \in Objs BY <1>6, <2>2
    <2> HIDE DEF k, l
    <2>5. k.home[l] # None BY <2>3, <2>4, BoardIn, NoneApart DEF Homes
    <2> QED BY <2>3, <2>4, <2>5, StampedIs, StampedSound
  <1> DEFINE A == {Cut(board, {e}) : e \in {x \in Dpnis : board.wire[x] # None}}
             B == {Joined(board, d, m) : d \in Lone(board) \cap Dpnis, m \in Lone(board) \cap Macs}
             C == {[board EXCEPT !.tag[o] = None] : o \in {x \in Living(board) : board.tag[x] # None}}
             D == {Gone(board, o) : o \in Living(board)}
             E == {[board EXCEPT !.drifted = @ \cup {s}] : s \in Living(board) \cap Switches}
             F == {Stamped(Minted(board, Lowest(S), Root), Lowest(S), n) :
                     S \in {FreeIds(board, Switches)} \ {{}}, n \in Names}
  <1>7. c \in A \cup B \cup C \cup D \cup E \cup F BY DEF Edited
  <1>8a. c \in A => \E e \in Dpnis : c = Cut(board, {e}) OBVIOUS
  <1>8b. c \in B => \E d \in Lone(board) \cap Dpnis, m \in Lone(board) \cap Macs : c = Joined(board, d, m)
    OBVIOUS
  <1>8c. c \in C => \E o \in Living(board) : c = [board EXCEPT !.tag[o] = None] OBVIOUS
  <1>8d. c \in D => \E o \in Living(board) : c = Gone(board, o) OBVIOUS
  <1>8e. c \in E => \E s \in Living(board) \cap Switches : c = [board EXCEPT !.drifted = @ \cup {s}]
    OBVIOUS
  <1>9. c \in F => \E S \in {FreeIds(board, Switches)} \ {{}}, n \in Names :
             c = Stamped(Minted(board, Lowest(S), Root), Lowest(S), n)
    OBVIOUS
  <1> HIDE DEF A, B, C, D, E, F
  <1> QED BY <1>1, <1>2, <1>3, <1>4, <1>5, <1>6, <1>7, <1>8a, <1>8b, <1>8c, <1>8d, <1>8e, <1>9

-----------------------------------------------------------------------------
(* The queue: steps put together, and what is left of them. *)

LEMMA ChainedAny ==
  ASSUME NEW ph, NEW T, NEW s \in Seq(T), NEW t \in Seq(T), s # << >>, t # << >>,
         Linked(ph, s), Linked(ph, t),
         Follows(ph, s[Len(s)], t[1]),
         Len(t) > 1 => Follows3(s[Len(s)], t[1], t[2]),
         Len(s) > 1 => Follows3(s[Len(s) - 1], s[Len(s)], t[1])
  PROVE  /\ s \o t \in Seq(T) /\ Linked(ph, s \o t) /\ s \o t # << >>
         /\ (s \o t)[1] = s[1] /\ (s \o t)[Len(s \o t)] = t[Len(t)]
  <1> DEFINE u == s \o t
             m == Len(s)
             n == Len(t)
  <1>1. /\ m \in Nat /\ n \in Nat /\ m # 0 /\ n # 0 /\ Len(u) = m + n /\ u \in Seq(T)
        /\ \A i \in 1..(m + n) : u[i] = IF i <= m THEN s[i] ELSE t[i-m]
    OBVIOUS
  <1>2. \A i \in 1..(m - 1) : Follows(ph, s[i], s[i+1]) BY DEF Linked
  <1>3. \A i \in 1..(m - 2) : Follows3(s[i], s[i+1], s[i+2]) BY DEF Linked
  <1>4. \A i \in 1..(n - 1) : Follows(ph, t[i], t[i+1]) BY DEF Linked
  <1>5. \A i \in 1..(n - 2) : Follows3(t[i], t[i+1], t[i+2]) BY DEF Linked
  <1>6. /\ Follows(ph, s[m], t[1])
        /\ n > 1 => Follows3(s[m], t[1], t[2])
        /\ m > 1 => Follows3(s[m-1], s[m], t[1])
    OBVIOUS
  <1> HIDE DEF u, m, n
  <1>7. ASSUME NEW i \in 1..(m + n - 1) PROVE Follows(ph, u[i], u[i+1])
    <2>1. CASE i < m
      <3>1. i \in 1..(m - 1) /\ u[i] = s[i] /\ u[i+1] = s[i+1] BY <1>1, <2>1
      <3> QED BY <1>2, <3>1
    <2>2. CASE i = m
      <3>1. u[i] = s[m] /\ u[i+1] = t[1] BY <1>1, <2>2
      <3> QED BY <1>6, <3>1
    <2>3. CASE i > m
      <3>1. i - m \in 1..(n - 1) /\ u[i] = t[i-m] /\ u[i+1] = t[(i-m)+1] BY <1>1, <2>3
      <3> QED BY <1>4, <3>1
    <2> QED BY <1>1, <2>1, <2>2, <2>3
  <1>8. ASSUME NEW i \in 1..(m + n - 2) PROVE Follows3(u[i], u[i+1], u[i+2])
    <2>1. CASE i < m - 1
      <3>1. i \in 1..(m - 2) /\ u[i] = s[i] /\ u[i+1] = s[i+1] /\ u[i+2] = s[i+2] BY <1>1, <2>1
      <3> QED BY <1>3, <3>1
    <2>2. CASE i = m - 1
      <3>1. m > 1 /\ u[i] = s[m-1] /\ u[i+1] = s[m] /\ u[i+2] = t[1] BY <1>1, <2>2
      <3> QED BY <1>6, <3>1
    <2>3. CASE i = m
      <3>1. n > 1 /\ u[i] = s[m] /\ u[i+1] = t[1] /\ u[i+2] = t[2] BY <1>1, <2>3
      <3> QED BY <1>6, <3>1
    <2>4. CASE i > m
      <3>1. i - m \in 1..(n - 2) /\ u[i] = t[i-m] /\ u[i+1] = t[(i-m)+1] /\ u[i+2] = t[(i-m)+2]
        BY <1>1, <2>4
      <3> QED BY <1>5, <3>1
    <2> QED BY <1>1, <2>1, <2>2, <2>3, <2>4
  <1>9. Linked(ph, u) /\ u # << >> /\ u[1] = s[1] /\ u[Len(u)] = t[n] BY <1>1, <1>7, <1>8 DEF Linked
  <1> QED BY <1>1, <1>9 DEF u, n

LEMMA Chained ==
  ASSUME NEW ph, NEW T, NEW s \in Seq(T), NEW t \in Seq(T), s # << >>, t # << >>,
         Linked(ph, s), Linked(ph, t),
         s[Len(s)].op \notin {"wire", "plugA"}, Follows(ph, s[Len(s)], t[1])
  PROVE  /\ s \o t \in Seq(T) /\ Linked(ph, s \o t) /\ s \o t # << >>
         /\ (s \o t)[1] = s[1] /\ (s \o t)[Len(s \o t)] = t[Len(t)]
  <1>1. Follows3(s[Len(s)], t[1], t[2]) /\ Follows3(s[Len(s) - 1], s[Len(s)], t[1]) BY DEF Follows3
  <1> QED BY <1>1, ChainedAny

LEMMA Short ==
  ASSUME NEW ph, NEW T, NEW x \in T, NEW y \in T, NEW z \in T
  PROVE  /\ <<x>> \in Seq(T) /\ Linked(ph, <<x>>)
         /\ <<x, y>> \in Seq(T) /\ (Follows(ph, x, y) => Linked(ph, <<x, y>>))
         /\ <<x, y, z>> \in Seq(T)
         /\ Follows(ph, x, y) /\ Follows(ph, y, z) /\ Follows3(x, y, z) => Linked(ph, <<x, y, z>>)
  <1>1. Linked(ph, <<x>>) BY DEF Linked
  <1>2. Follows(ph, x, y) => Linked(ph, <<x, y>>) BY DEF Linked
  <1>3. Follows(ph, x, y) /\ Follows(ph, y, z) /\ Follows3(x, y, z) => Linked(ph, <<x, y, z>>)
    <2>1. 1..2 = {1, 2} /\ 1..1 = {1} OBVIOUS
    <2> QED BY <2>1 DEF Linked
  <1> QED BY <1>1, <1>2, <1>3

\* The steps of a phase: how they start and how they close.
Starts(ph, v) ==
  \/ ph = "population" /\ (v.op \in {"mint", "next"} \/ (v.op = "join" /\ v.a # None))
  \/ ph = "links" /\ (v.op = "mint" \/ (v.op = "wire" /\ v.a # None /\ v.b # None))
  \/ ph = "switches" /\ v.op \in {"raise", "destroy"}
  \/ ph = "prune" /\ v.op = "destroy"
Closes(ph, v) ==
  \/ v.op = "next" /\ ph # "prune"
  \/ v.op = "raise" /\ ph = "switches"
  \/ v.op = "destroy" /\ ph \in {"switches", "prune"}
Steps(ph, b, b0) ==
  {s \in Seq(Fit(ph, b, b0)) :
     Linked(ph, s) /\ (s # << >> => Starts(ph, s[1]) /\ Closes(ph, s[Len(s)]))}

LEMMA StepsClosed ==
  ASSUME NEW ph \in Phases, NEW b, NEW b0
  PROVE  /\ << >> \in Steps(ph, b, b0)
         /\ \A s, t \in Steps(ph, b, b0) : s \o t \in Steps(ph, b, b0)
  <1> DEFINE S == Steps(ph, b, b0)
             T == Fit(ph, b, b0)
  <1>1. << >> \in S BY DEF Steps, Linked
  <1>2. ASSUME NEW s \in S, NEW t \in S PROVE s \o t \in S
    <2>1. s \in Seq(T) /\ t \in Seq(T) BY DEF Steps
    <2>2. CASE s = << >>
      <3>1. s \o t = t BY <2>1, <2>2
      <3> QED BY <3>1
    <2>3. CASE t = << >>
      <3>1. s \o t = s BY <2>1, <2>3
      <3> QED BY <3>1
    <2>4. CASE s # << >> /\ t # << >>
      <3>1. /\ Linked(ph, s) /\ Starts(ph, s[1]) /\ Closes(ph, s[Len(s)])
            /\ Linked(ph, t) /\ Starts(ph, t[1]) /\ Closes(ph, t[Len(t)])
        BY <2>4 DEF Steps
      <3>2. s[Len(s)].op \notin {"wire", "plugA"} /\ Follows(ph, s[Len(s)], t[1])
        BY <3>1 DEF Starts, Closes, Follows, Phases
      <3>3. /\ s \o t \in Seq(T) /\ Linked(ph, s \o t) /\ s \o t # << >>
            /\ (s \o t)[1] = s[1] /\ (s \o t)[Len(s \o t)] = t[Len(t)]
        BY <2>1, <2>4, <3>1, <3>2, Chained
      <3> QED BY <3>1, <3>3 DEF Steps
    <2> QED BY <2>2, <2>3, <2>4
  <1> QED BY <1>1, <1>2

\* What a plan owes: steps, then the end of the phase.
LEMMA Closed ==
  ASSUME NEW ph \in Phases, NEW b, NEW b0, NEW s \in Steps(ph, b, b0)
  PROVE  /\ s \o Done \in Seq(Fit(ph, b, b0)) /\ Linked(ph, s \o Done) /\ s \o Done # << >>
         /\ (s \o Done)[Len(s \o Done)].op = "done"
         /\ Starts(ph, (s \o Done)[1]) \/ (s \o Done)[1].op = "done"
  <1> DEFINE T == Fit(ph, b, b0)
             d == Verb("done", None, None, None, None)
             e == <<d>>
  <1>1. d \in T /\ d.op = "done" BY DEF Fit, Fits, Verbs, Verb, Ops, Things
  <1>2. e \in Seq(T) /\ Linked(ph, e) BY <1>1, Short
  <1>3. e # << >> /\ Len(e) = 1 /\ e[1] = d OBVIOUS
  <1>4. s \in Seq(T) /\ Done = e BY DEF Steps, Done
  <1> HIDE DEF d, e
  <1>5. CASE s = << >>
    <2>1. s \o e = e BY <1>2, <1>5
    <2> QED BY <1>1, <1>2, <1>3, <1>4, <2>1
  <1>6. CASE s # << >>
    <2>1. Linked(ph, s) /\ Starts(ph, s[1]) /\ Closes(ph, s[Len(s)]) BY <1>6 DEF Steps
    <2>2. s[Len(s)].op \notin {"wire", "plugA"} /\ Follows(ph, s[Len(s)], e[1])
      BY <1>1, <1>3, <2>1 DEF Closes, Follows, Phases
    <2>3. /\ s \o e \in Seq(T) /\ Linked(ph, s \o e) /\ s \o e # << >>
          /\ (s \o e)[1] = s[1] /\ (s \o e)[Len(s \o e)] = e[Len(e)]
      BY <1>2, <1>3, <1>4, <1>6, <2>1, <2>2, Chained
    <2> QED BY <1>1, <1>3, <1>4, <2>1, <2>3
  <1> QED BY <1>5, <1>6

-----------------------------------------------------------------------------
(* What the phases plan. *)

LEMMA IdsIn ==
  Dpnis \subseteq Nat /\ Switches \subseteq Nat /\ Macs \subseteq Nat
  <1>1. 1..999 \subseteq Nat OBVIOUS
  <1> QED BY <1>1, BoardAssumption

LEMMA RowIn ==
  ASSUME NEW b \in Boards, NEW h \in Homes, NEW n \in Names
  PROVE  /\ RowsNamed(b, h, n) \subseteq Standing(b) /\ RowsNamed(b, h, n) \subseteq Nat
         /\ IsFiniteSet(RowsNamed(b, h, n))
         /\ RowsNamed(b, h, n) = {} => Row(b, h, n) = None
         /\ RowsNamed(b, h, n) # {} => Row(b, h, n) \in RowsNamed(b, h, n)
         /\ Row(b, h, n) \in Standing(b) \cup {None}
  <1>1. Dpnis \subseteq 1..999 BY BoardAssumption
  <1>2. IsFiniteSet(1..999)
    <2> DEFINE top == 999
    <2>1. 1 \in Int /\ top \in Int OBVIOUS
    <2> HIDE DEF top
    <2>2. IsFiniteSet(1..top) BY <2>1, FS_Interval
    <2> QED BY <2>2 DEF top
  <1>3. RowsNamed(b, h, n) \subseteq 1..999 BY <1>1, ZenonT(30) DEF RowsNamed
  <1>4. IsFiniteSet(RowsNamed(b, h, n)) BY <1>2, <1>3, FS_Subset
  <1>5. RowsNamed(b, h, n) \subseteq Standing(b) BY NoneApart DEF RowsNamed, Standing, Living, Objs
  <1>6. RowsNamed(b, h, n) \subseteq Nat BY <1>3
  <1>7. RowsNamed(b, h, n) # {} => Row(b, h, n) \in RowsNamed(b, h, n) BY <1>6, LowestIn DEF Row
  <1>8. RowsNamed(b, h, n) = {} => Row(b, h, n) = None BY DEF Row
  <1>9. Row(b, h, n) \in Standing(b) \cup {None} BY <1>5, <1>7, <1>8
  <1> QED BY <1>4, <1>5, <1>6, <1>7, <1>8, <1>9

Entry == [label : Names, peer : Homes \cup {None}]

LEMMA LinksIn ==
  ASSUME links \in Intents
  PROVE  /\ Len(links) \in Nat /\ DOMAIN links = 1..Len(links)
         /\ \A i \in 1..Len(links) : /\ links[i].label \in Names /\ links[i].a \in Homes /\ links[i].b \in Homes
                                     /\ links[i]["a"] = links[i].a /\ links[i]["b"] = links[i].b
  <1>1. links \in Seq(Link) BY PlanAssumption
  <1>2. \A x \in Link : x.label \in Names /\ x.a \in Homes /\ x.b \in Homes /\ x["a"] = x.a /\ x["b"] = x.b
    BY DEF Link
  <1>3. Len(links) \in Nat /\ DOMAIN links = 1..Len(links) /\ \A i \in 1..Len(links) : links[i] \in Link
    BY <1>1
  <1> QED BY <1>2, <1>3

LEMMA SeqsClosed ==
  ASSUME NEW T
  PROVE  << >> \in Seq(T) /\ \A s, t \in Seq(T) : s \o t \in Seq(T)
  OBVIOUS

LEMMA PlannedEntries ==
  ASSUME links \in Intents, NEW k \in Homes
  PROVE  LinkEndsIn(k) \in Seq(Entry) /\ MembersIn(k) \in Seq(Entry) /\ PlannedIn(k) \in Seq(Entry)
  <1> DEFINE S == Seq(Entry)
             p == [i \in 1..Len(links) |->
                    (IF links[i].a = k THEN <<[label |-> links[i].label, peer |-> links[i].b]>> ELSE << >>)
                      \o (IF links[i].b = k THEN <<[label |-> links[i].label, peer |-> links[i].a]>> ELSE << >>)]
             m(i) == [j \in 1..Len(Domains[i].members) |->
                       IF Domains[i].members[j].home = k
                       THEN <<[label |-> Domains[i].members[j].label, peer |-> None]>> ELSE << >>]
             q == [i \in 1..Len(Domains) |-> FlattenSeq(m(i))]
  <1>1. << >> \in S /\ \A s, t \in S : s \o t \in S BY SeqsClosed
  <1>2. Len(links) \in Nat /\ Len(Domains) \in Nat BY LinksIn, DomainsIn
  <1>3. p \in [1..Len(links) -> S]
    <2> SUFFICES ASSUME NEW i \in 1..Len(links) PROVE p[i] \in S OBVIOUS
    <2>1. /\ [label |-> links[i].label, peer |-> links[i].b] \in Entry
          /\ [label |-> links[i].label, peer |-> links[i].a] \in Entry
      BY LinksIn DEF Entry
    <2> DEFINE x == IF links[i].a = k THEN <<[label |-> links[i].label, peer |-> links[i].b]>> ELSE << >>
               y == IF links[i].b = k THEN <<[label |-> links[i].label, peer |-> links[i].a]>> ELSE << >>
    <2>2. x \in S /\ y \in S BY <2>1
    <2>3. p[i] = x \o y OBVIOUS
    <2> HIDE DEF x, y, p, S
    <2> QED BY <1>1, <2>2, <2>3
  <1>4. ASSUME NEW i \in 1..Len(Domains) PROVE FlattenSeq(m(i)) \in S
    <2>1. Domains[i].members \in Seq(Member) BY DomainsIn
    <2>2. /\ Len(Domains[i].members) \in Nat
          /\ \A j \in 1..Len(Domains[i].members) : Domains[i].members[j] \in Member
      BY <2>1
    <2>3. m(i) \in [1..Len(Domains[i].members) -> S]
      <3> SUFFICES ASSUME NEW j \in 1..Len(Domains[i].members) PROVE m(i)[j] \in S OBVIOUS
      <3>1. [label |-> Domains[i].members[j].label, peer |-> None] \in Entry
        BY <2>2 DEF Member, Entry
      <3> QED BY <3>1
    <2> HIDE DEF m, S
    <2> QED BY <1>1, <2>2, <2>3, FlattenIn
  <1>5. q \in [1..Len(Domains) -> S] BY <1>4
  <1>6. LinkEndsIn(k) = FlattenSeq(p) /\ MembersIn(k) = FlattenSeq(q) BY DEF LinkEndsIn, MembersIn
  <1> HIDE DEF p, q, S
  <1>7. FlattenSeq(p) \in S /\ FlattenSeq(q) \in S BY <1>1, <1>2, <1>3, <1>5, FlattenIn
  <1> QED BY <1>1, <1>6, <1>7 DEF PlannedIn, S

LEMMA Triple ==
  ASSUME NEW x, NEW y, NEW z
  PROVE  <<x, y>> \o <<z>> = <<x, y, z>>
  <1> DEFINE T == {x, y, z}
             s == <<x, y>>
             t == <<z>>
             u == <<x, y, z>>
  <1>1. /\ s \in Seq(T) /\ t \in Seq(T) /\ Len(s) = 2 /\ Len(t) = 1 /\ s[1] = x /\ s[2] = y /\ t[1] = z
        /\ u \in Seq(T) /\ Len(u) = 3 /\ u[1] = x /\ u[2] = y /\ u[3] = z
    OBVIOUS
  <1> HIDE DEF s, t, u, T
  <1> DEFINE c == s \o t
  <1>2. /\ c \in Seq(T) /\ Len(c) = Len(s) + Len(t)
        /\ \A i \in 1..(Len(s) + Len(t)) : c[i] = IF i <= Len(s) THEN s[i] ELSE t[i - Len(s)]
    BY <1>1, ConcatProperties
  <1> HIDE DEF c
  <1>3. Len(c) = 3 /\ \A i \in 1..3 : c[i] = IF i <= 2 THEN s[i] ELSE t[i - 2] BY <1>1, <1>2
  <1>4. c[1] = x /\ c[2] = y /\ c[3] = z BY <1>1, <1>3
  <1>5. \A i \in 1..3 : c[i] = u[i]
    <2>1. \A i \in 1..3 : i = 1 \/ i = 2 \/ i = 3 OBVIOUS
    <2> QED BY <1>1, <1>4, <2>1
  <1>6. Len(c) = Len(u) /\ \A i \in 1..Len(c) : c[i] = u[i] BY <1>1, <1>3, <1>5
  <1>7. c = u BY <1>1, <1>2, <1>6, SeqEqual
  <1> QED BY <1>7 DEF c, s, t, u

LEMMA Pair ==
  ASSUME NEW x, NEW y
  PROVE  <<x>> \o <<y>> = <<x, y>>
  <1> DEFINE T == {x, y}
             s == <<x>>
             t == <<y>>
             u == <<x, y>>
  <1>1. /\ s \in Seq(T) /\ t \in Seq(T) /\ Len(s) = 1 /\ Len(t) = 1 /\ s[1] = x /\ t[1] = y
        /\ u \in Seq(T) /\ Len(u) = 2 /\ u[1] = x /\ u[2] = y
    OBVIOUS
  <1> HIDE DEF s, t, u, T
  <1> DEFINE c == s \o t
  <1>2. /\ c \in Seq(T) /\ Len(c) = Len(s) + Len(t)
        /\ \A i \in 1..(Len(s) + Len(t)) : c[i] = IF i <= Len(s) THEN s[i] ELSE t[i - Len(s)]
    BY <1>1, ConcatProperties
  <1> HIDE DEF c
  <1>3. Len(c) = 2 /\ \A i \in 1..2 : c[i] = IF i <= 1 THEN s[i] ELSE t[i - 1] BY <1>1, <1>2
  <1>4. c[1] = x /\ c[2] = y BY <1>1, <1>3
  <1>5. \A i \in 1..2 : c[i] = u[i]
    <2>1. \A i \in 1..2 : i = 1 \/ i = 2 OBVIOUS
    <2> QED BY <1>1, <1>4, <2>1
  <1>6. Len(c) = Len(u) /\ \A i \in 1..Len(c) : c[i] = u[i] BY <1>1, <1>3, <1>5
  <1>7. c = u BY <1>1, <1>2, <1>6, SeqEqual
  <1> QED BY <1>7 DEF c, s, t, u

\* Concatenation is associative, and << >> its unit.
LEMMA Appended ==
  ASSUME NEW T, NEW s \in Seq(T), NEW t \in Seq(T), NEW u \in Seq(T)
  PROVE  /\ (s \o t) \o u = s \o (t \o u) /\ s \o << >> = s /\ << >> \o s = s
         /\ s \o t \in Seq(T)
  OBVIOUS

LEMMA FlattenTwo ==
  ASSUME NEW T, NEW p \in [1..2 -> Seq(T)]
  PROVE  FlattenSeq(p) = p[1] \o p[2]
  <1>1. Len(p) = 2 /\ DOMAIN p = 1..2
    <2>1. \A k \in Nat : p \in [1..k -> Seq(T)] => Len(p) = k /\ DOMAIN p = 1..k OBVIOUS
    <2> QED BY <2>1
  <1> DEFINE n == 2
             f == CHOOSE g : g = [i \in 1..n |-> IF i = 1 THEN p[i] ELSE g[i-1] \o p[i]]
  <1>2. n \in Nat /\ n # 0 /\ n = 2 OBVIOUS
  <1>3. FlattenSeq(p) = f[n] BY <1>1 DEF FlattenSeq
  <1> HIDE DEF n
  <1>4. f = [i \in 1..n |-> IF i = 1 THEN p[i] ELSE f[i-1] \o p[i]]
    <2>1. \E g : g = [i \in 1..n |-> IF i = 1 THEN p[i] ELSE g[i-1] \o p[i]] BY <1>2, Flattened
    <2> QED BY <2>1
  <1> HIDE DEF f
  <1>5. \A i \in 1..2 : f[i] = IF i = 1 THEN p[i] ELSE f[i-1] \o p[i] BY <1>2, <1>4
  <1>6. f[1] = p[1] /\ f[2] = f[1] \o p[2] BY <1>5
  <1> QED BY <1>2, <1>3, <1>6

LEMMA EndVerbsSteps ==
  ASSUME NEW b \in Boards, NEW k \in Kids, NEW d \in Entry
  PROVE  EndVerbs(b, k, d) \in Steps("population", b, b)
  <1> DEFINE T == Fit("population", b, b)
             row == Row(b, k, d.label)
             peer == PeerOf(b, d)
             x == Verb("mint", k, d.label, None, None)
             y == Verb("stamp", k, d.label, None, None)
             z == Verb("plug", k, d.label, None, None)
             w == Verb("join", k, d.label, row, peer)
             n == Verb("next", None, None, None, None)
             A == IF row = None THEN CreateVerbs(k, d) ELSE << >>
             B == IF peer # None /\ (row = None \/ b.wire[row] # peer) THEN <<w>> ELSE << >>
  <1>1. k \in Homes /\ d.label \in Names /\ (d.peer = None \/ d.peer \in Homes) BY DEF Homes, Entry
  <1>2. row \in Standing(b) \cup {None} /\ peer \in Standing(b) \cup {None}
    BY <1>1, RowIn DEF PeerOf
  <1>3. row \in Things /\ peer \in Things /\ Standing(b) \subseteq Things
    BY <1>2 DEF Things, Standing, Objs
  <1>4. x \in T /\ y \in T /\ z \in T /\ n \in T BY <1>1 DEF Fit, Fits, Verbs, Verb, Ops, Things
  <1>5. peer # None => w \in T BY <1>1, <1>2, <1>3 DEF Fit, Fits, Verbs, Verb, Ops
  <1>6. /\ x.op = "mint" /\ y.op = "stamp" /\ z.op = "plug" /\ w.op = "join" /\ n.op = "next"
        /\ w.a = row /\ x.at = y.at /\ x.arg = y.arg
    BY DEF Verb
  <1>7. EndVerbs(b, k, d) = A \o B \o <<n>> BY DEF EndVerbs
  <1>8. CreateVerbs(k, d) = <<x, y, z>>
    <2>1. MintIn("mint", k, d.label) = <<x, y>> BY DEF MintIn
    <2> HIDE DEF x, y, z
    <2>2. <<x, y>> \o <<z>> = <<x, y, z>> BY Triple
    <2> QED BY <2>1, <2>2 DEF CreateVerbs, z
  <1> HIDE DEF T, x, y, z, w, n, row, peer
  <1>9. /\ <<x, y, z>> \in Seq(T) /\ Linked("population", <<x, y, z>>)
        /\ <<w>> \in Seq(T) \/ peer = None
        /\ <<n>> \in Seq(T) /\ Linked("population", <<w>>) /\ Linked("population", <<n>>)
    <2>1. Follows("population", x, y) /\ Follows("population", y, z) /\ Follows3(x, y, z)
      BY <1>6 DEF Follows, Follows3
    <2> QED BY <1>4, <1>5, <2>1, Short
  \* B and the end of the step
  <1> DEFINE C == B \o <<n>>
  <1>10. /\ C \in Seq(T) /\ Linked("population", C) /\ C # << >> /\ C[Len(C)] = n
         /\ C[1] = n \/ (C[1] = w /\ peer # None)
    <2>1. CASE B = << >>
      <3>1. C = <<n>>
        <4> DEFINE f == <<n>>
        <4>1. f \in Seq(T) BY <1>9
        <4> HIDE DEF f
        <4>2. << >> \o f = f BY <4>1
        <4> QED BY <2>1, <4>2 DEF f
      <3>2. <<n>> # << >> /\ Len(<<n>>) = 1 /\ <<n>>[1] = n OBVIOUS
      <3> HIDE DEF C
      <3> QED BY <1>9, <3>1, <3>2
    <2>2. CASE B = <<w>> /\ peer # None
      <3>1. Follows("population", w, n) BY <1>6 DEF Follows
      <3> DEFINE e == <<w>>
                 f == <<n>>
      <3>2. /\ e \in Seq(T) /\ f \in Seq(T) /\ e # << >> /\ f # << >> /\ Linked("population", e)
            /\ Linked("population", f) /\ e[Len(e)] = w /\ f[1] = n /\ e[1] = w /\ f[Len(f)] = n
        BY <1>9, <2>2
      <3> HIDE DEF e, f
      <3>3. /\ e \o f \in Seq(T) /\ Linked("population", e \o f) /\ e \o f # << >>
            /\ (e \o f)[1] = e[1] /\ (e \o f)[Len(e \o f)] = f[Len(f)]
        BY <1>6, <3>1, <3>2, Chained
      <3>4. C = e \o f BY <2>2 DEF e, f
      <3> QED BY <2>2, <3>2, <3>3, <3>4
    <2> QED BY <2>1, <2>2
  <1>11. A \o B \o <<n>> = A \o C
    <2>1. A \in Seq(T) /\ B \in Seq(T) /\ <<n>> \in Seq(T) BY <1>8, <1>9
    <2> HIDE DEF A, B
    <2> QED BY <2>1
  <1>12. CASE row # None
    <2>1. A \o C = C BY <1>10, <1>12
    <2>2. Starts("population", C[1]) /\ Closes("population", C[Len(C)])
      BY <1>6, <1>10, <1>12 DEF Starts, Closes
    <2> HIDE DEF A, B, C
    <2>3. C \in Steps("population", b, b) BY <1>10, <2>2 DEF Steps, T
    <2> QED BY <1>7, <1>11, <2>1, <2>3
  <1>13. CASE row = None
    <2> DEFINE e == <<x, y, z>>
    <2>1. /\ e \in Seq(T) /\ Linked("population", e) /\ e # << >> /\ e[Len(e)] = z /\ e[1] = x
      BY <1>9
    <2>2. A = e BY <1>8, <1>13
    <2>3. Follows("population", z, C[1])
      <3>1. C[1] = n \/ C[1] = w BY <1>10
      <3> HIDE DEF C
      <3> QED BY <1>6, <3>1 DEF Follows
    <2> HIDE DEF e, C, A, B
    <2>4. /\ e \o C \in Seq(T) /\ Linked("population", e \o C) /\ e \o C # << >>
          /\ (e \o C)[1] = x /\ (e \o C)[Len(e \o C)] = n
      BY <1>6, <1>10, <2>1, <2>3, Chained
    <2>5. e \o C \in Steps("population", b, b) BY <1>6, <2>4 DEF Steps, T, Starts, Closes
    <2> QED BY <1>7, <1>11, <2>2, <2>5
  <1> QED BY <1>12, <1>13

LEMMA PopulationSteps ==
  ASSUME NEW b \in Boards, links \in Intents
  PROVE  \E s \in Steps("population", b, b) : PopulationVerbs(b) = s \o Done
  <1> DEFINE S == Steps("population", b, b)
             e(k) == [i \in 1..Len(PlannedIn(k)) |-> EndVerbs(b, k, PlannedIn(k)[i])]
             p == [c \in 1..Len(Children) |-> FlattenSeq(e(Children[c]))]
  <1>1. << >> \in S /\ \A s, t \in S : s \o t \in S BY StepsClosed DEF Phases
  <1>2. Len(Children) \in Nat /\ \A c \in 1..Len(Children) : Children[c] \in Kids BY PlanAssumption
  <1>3. ASSUME NEW k \in Kids PROVE FlattenSeq(e(k)) \in S
    <2>1. PlannedIn(k) \in Seq(Entry) BY PlannedEntries DEF Homes
    <2>2. Len(PlannedIn(k)) \in Nat /\ \A i \in 1..Len(PlannedIn(k)) : PlannedIn(k)[i] \in Entry
      BY <2>1
    <2>3. e(k) \in [1..Len(PlannedIn(k)) -> S] BY <2>2, EndVerbsSteps
    <2> HIDE DEF e, S
    <2> QED BY <1>1, <2>2, <2>3, FlattenIn
  <1>4. p \in [1..Len(Children) -> S] BY <1>2, <1>3
  <1>5. PopulationVerbs(b) = FlattenSeq(p) \o Done BY DEF PopulationVerbs
  <1> HIDE DEF p, S
  <1>6. FlattenSeq(p) \in S BY <1>1, <1>2, <1>4, FlattenIn
  <1> QED BY <1>5, <1>6 DEF S

\* The two ends of a link: a row, none, or one to create in the root.
LEMMA SlotsIn ==
  ASSUME NEW b \in Boards, NEW l \in Link
  PROVE  /\ Len(Slots(b, l)) = 2 /\ ToSet(Slots(b, l)) = {Slots(b, l)[1], Slots(b, l)[2]}
         /\ Slots(b, l)[1] \in Standing(b) \cup {None, Create}
         /\ Slots(b, l)[2] \in Standing(b) \cup {None, Create}
  <1> DEFINE rows == RowsNamed(b, l.a, l.label)
             slot(h) == IF Row(b, h, l.label) = None /\ h = Root THEN Create ELSE Row(b, h, l.label)
             X == Standing(b) \cup {None, Create}
  <1>1. l.a \in Homes /\ l.b \in Homes /\ l.label \in Names BY DEF Link
  <1>2. slot(l.a) \in X /\ slot(l.b) \in X BY <1>1, RowIn
  <1>3. rows \subseteq Nat /\ rows \subseteq Standing(b) /\ IsFiniteSet(rows) BY <1>1, RowIn
  <1>4. rows # {} => Lowest(rows) \in X BY <1>3, LowestIn
  <1>5. rows # {} /\ Cardinality(rows) # 1 => rows \ {Lowest(rows)} # {}
    <2> SUFFICES ASSUME rows # {}, rows = {Lowest(rows)} PROVE Cardinality(rows) = 1 OBVIOUS
    <2> HIDE DEF rows
    <2> QED BY FS_Singleton
  <1>6. rows # {} /\ Cardinality(rows) # 1 => Lowest(rows \ {Lowest(rows)}) \in X
    <2> DEFINE r == rows \ {Lowest(rows)}
    <2>1. r \subseteq Nat /\ r \subseteq X BY <1>3
    <2> HIDE DEF r, X
    <2>2. r # {} => Lowest(r) \in X BY <2>1, LowestIn
    <2> QED BY <1>5, <2>2 DEF r
  <1>7. \E x, y \in X : Slots(b, l) = <<x, y>>
    <2>1. Slots(b, l) =
            IF l.a # l.b THEN <<slot(l.a), slot(l.b)>>
            ELSE IF rows = {} THEN <<slot(l.a), slot(l.a)>>
            ELSE IF Cardinality(rows) = 1 THEN <<Lowest(rows), IF l.a = Root THEN Create ELSE None>>
            ELSE <<Lowest(rows), Lowest(rows \ {Lowest(rows)})>>
      BY DEF Slots
    <2>2. None \in X /\ Create \in X OBVIOUS
    <2> HIDE DEF slot, rows, X
    <2> QED BY <1>2, <1>4, <1>6, <2>1, <2>2
  <1>8. PICK x \in X, y \in X : Slots(b, l) = <<x, y>> BY <1>7
  <1>9. 1..2 = {1, 2} OBVIOUS
  <1> QED BY <1>8, <1>9 DEF ToSet

LEMMA MintRootIs ==
  ASSUME NEW l \in Link, NEW s, s[1] \in Dpnis \cup {None, Create}
  PROVE  LET m == Verb("mint", Root, l.label, None, None)
             t == Verb("stamp", Root, l.label, None, None)
         IN MintRoot(l, s) = (IF s[1] = Create THEN <<m, t>> ELSE << >>) \o (IF s[2] = Create THEN <<m, t>> ELSE << >>)
  <1> DEFINE m == Verb("mint", Root, l.label, None, None)
             t == Verb("stamp", Root, l.label, None, None)
             T == {m, t}
             p == [i \in 1..2 |-> IF s[i] = Create THEN MintIn("mint", Root, l.label) ELSE << >>]
  <1>1. MintIn("mint", Root, l.label) = <<m, t>> BY DEF MintIn
  <1>2. MintRoot(l, s) = FlattenSeq(p) BY DEF MintRoot
  <1>3. <<m, t>> \in Seq(T) /\ << >> \in Seq(T) OBVIOUS
  <1>4. p \in [1..2 -> Seq(T)] BY <1>1, <1>3
  <1>5. /\ p[1] = (IF s[1] = Create THEN <<m, t>> ELSE << >>)
        /\ p[2] = (IF s[2] = Create THEN <<m, t>> ELSE << >>)
    BY <1>1
  <1> HIDE DEF p, T
  <1>6. FlattenSeq(p) = p[1] \o p[2] BY <1>4, FlattenTwo
  <1> QED BY <1>2, <1>5, <1>6

\* The connect of an edge, the plugs after it, and the end of the step.
LEMMA PlugRootIs ==
  ASSUME NEW b, NEW l \in Link, NEW s
  PROVE  LET x == Verb("plugA", Root, l.label, Given(s[1]), None)
             y == Verb("plugB", Root, l.label, Given(s[2]), None)
         IN PlugRoot(b, l, s) \in {<< >>, <<x>>, <<y>>, <<x, y>>}
  <1> DEFINE x == Verb("plugA", Root, l.label, Given(s[1]), None)
             y == Verb("plugB", Root, l.label, Given(s[2]), None)
             T == {x, y}
             p == [i \in 1..2 |->
                    IF (IF i = 1 THEN l.a ELSE l.b) # Root \/ (Present(s[i]) /\ s[i] \in b.plugged)
                    THEN << >> ELSE <<Verb(IF i = 1 THEN "plugA" ELSE "plugB", Root, l.label, Given(s[i]), None)>>]
  <1>1. PlugRoot(b, l, s) = FlattenSeq(p) BY DEF PlugRoot
  <1>2. p[1] \in {<< >>, <<x>>} /\ p[2] \in {<< >>, <<y>>} OBVIOUS
  <1>3. p = [i \in 1..2 |-> p[i]] /\ \A i \in 1..2 : i = 1 \/ i = 2 OBVIOUS
  <1>4. /\ << >> \in Seq(T) /\ <<x>> \in Seq(T) /\ <<y>> \in Seq(T) OBVIOUS
  <1> HIDE DEF p, x, y, T
  <1>5. p[1] \in Seq(T) /\ p[2] \in Seq(T) BY <1>2, <1>4
  <1>6. p \in [1..2 -> Seq(T)] BY <1>3, <1>5
  <1>7. FlattenSeq(p) = p[1] \o p[2] BY <1>6, FlattenTwo
  <1>8. <<x>> \o <<y>> = <<x, y>> BY Pair
  <1>9. /\ <<x>> \o << >> = <<x>> /\ << >> \o <<x>> = <<x>> /\ << >> \o <<y>> = <<y>> /\ << >> \o << >> = << >>
    BY <1>4, Appended
  <1>10. p[1] \o p[2] \in {<< >>, <<x>>, <<y>>, <<x, y>>} BY <1>2, <1>8, <1>9
  <1> QED BY <1>1, <1>7, <1>10 DEF x, y

LEMMA TripleFirst ==
  ASSUME NEW x, NEW y, NEW z
  PROVE  <<x>> \o <<y, z>> = <<x, y, z>>
  <1> DEFINE T == {x, y, z}
             s == <<x>>
             t == <<y>>
             u == <<z>>
  <1>1. s \in Seq(T) /\ t \in Seq(T) /\ u \in Seq(T) OBVIOUS
  <1>2. s \o t = <<x, y>> /\ t \o u = <<y, z>> /\ <<x, y>> \o u = <<x, y, z>> BY Pair, Triple
  <1> HIDE DEF s, t, u
  <1>3. (s \o t) \o u = s \o (t \o u) BY <1>1, Appended, SMTT(30)
  <1>4. s \o <<y, z>> = <<x, y, z>> BY <1>2, <1>3
  <1> QED BY <1>4 DEF s

LEMMA LinkVerbsSteps ==
  ASSUME NEW b \in Boards, NEW b0, NEW l \in Link
  PROVE  LinkVerbs(b, l) \in Steps("links", b, b0)
  <1> DEFINE s == Slots(b, l)
  <1>1. /\ ToSet(s) = {s[1], s[2]} /\ s[1] \in Standing(b) \cup {None, Create} /\ s[2] \in Standing(b) \cup {None, Create}
    BY SlotsIn
  <1>2. CASE ~LinkWork(b, l)
    <2>1. LinkVerbs(b, l) = << >> BY <1>2 DEF LinkVerbs
    <2> QED BY <2>1, StepsClosed DEF Phases
  <1>3. CASE LinkWork(b, l)
    <2> DEFINE T == Fit("links", b, b0)
               m == Verb("mint", Root, l.label, None, None)
               t == Verb("stamp", Root, l.label, None, None)
               w == Verb("wire", Root, l.label, Given(s[1]), Given(s[2]))
               x == Verb("plugA", Root, l.label, Given(s[1]), None)
               y == Verb("plugB", Root, l.label, Given(s[2]), None)
               n == Verb("next", None, None, None, None)
               P == PlugRoot(b, l, s)
               M == MintRoot(l, s)
               M1 == IF s[1] = Create THEN <<m, t>> ELSE << >>
               M2 == IF s[2] = Create THEN <<m, t>> ELSE << >>
    <2>1. s[1] # None /\ s[2] # None BY <1>1, <1>3 DEF LinkWork, Pending
    <2>2. Standing(b) \subseteq Dpnis /\ Create \notin Standing(b) /\ Standing(b) \subseteq Things
      BY NoneApart DEF Standing, Things, Objs
    <2>3. /\ Given(s[1]) \in Standing(b) \cup {None} /\ Given(s[2]) \in Standing(b) \cup {None}
          /\ Given(s[1]) = None <=> s[1] = Create
          /\ Given(s[2]) = None <=> s[2] = Create
      BY <1>1, <2>1, <2>2 DEF Given
    <2>4. /\ LinkVerbs(b, l) = M \o WireVerb(l, s) \o P \o NextLink
          /\ WireVerb(l, s) = <<w>> /\ NextLink = <<n>>
      BY <1>3 DEF LinkVerbs, WireVerb, NextLink
    <2>5. M = M1 \o M2
      <3>1. s[1] \in Dpnis \cup {None, Create} BY <1>1, <2>2
      <3> HIDE DEF s
      <3> QED BY <3>1, MintRootIs
    <2>6. P \in {<< >>, <<x>>, <<y>>, <<x, y>>}
      <3> HIDE DEF s
      <3> QED BY PlugRootIs
    <2>7. m \in T /\ t \in T /\ w \in T /\ x \in T /\ y \in T /\ n \in T
      <3>1. l.label \in Names /\ Root \in Homes /\ None \in Things BY DEF Link, Homes, Things
      <3>2. Given(s[1]) \in Things /\ Given(s[2]) \in Things BY <2>2, <2>3, <3>1
      <3>3. m \in Verbs /\ t \in Verbs /\ w \in Verbs /\ x \in Verbs /\ y \in Verbs /\ n \in Verbs
        BY <3>1, <3>2 DEF Verbs, Verb, Ops
      <3>4. /\ Fits("links", b, b0, m) /\ Fits("links", b, b0, t) /\ Fits("links", b, b0, w)
            /\ Fits("links", b, b0, x) /\ Fits("links", b, b0, y) /\ Fits("links", b, b0, n)
        BY <2>3, <3>1 DEF Fits, Verb
      <3> QED BY <3>3, <3>4 DEF Fit
    <2>8. /\ m.op = "mint" /\ t.op = "stamp" /\ w.op = "wire" /\ x.op = "plugA" /\ y.op = "plugB" /\ n.op = "next"
          /\ w.a = Given(s[1]) /\ w.b = Given(s[2]) /\ x.a = w.a /\ y.a = w.b /\ m.at = t.at /\ m.arg = t.arg
      BY DEF Verb
    <2> HIDE DEF m, t, w, x, y, n, T, s, P, M
    <2>9. /\ Follows("links", m, t) /\ Follows("links", t, m) /\ Follows("links", t, w)
          /\ Follows("links", w, x) /\ Follows("links", w, y) /\ Follows("links", x, y)
          /\ Follows("links", w, n) /\ Follows("links", x, n) /\ Follows("links", y, n) /\ Follows3(w, x, y)
      BY <2>8 DEF Follows, Follows3
    \* the connect and the plugs
    <2> DEFINE W == <<w>> \o P
    <2>10. W \in {<<w>>, <<w, x>>, <<w, y>>, <<w, x, y>>}
      <3>1. <<w>> \in Seq(T) BY <2>7
      <3>2. <<w>> \o << >> = <<w>> BY <3>1, Appended
      <3>3. <<w>> \o <<x>> = <<w, x>> /\ <<w>> \o <<y>> = <<w, y>> /\ <<w>> \o <<x, y>> = <<w, x, y>>
        BY Pair, TripleFirst
      <3> QED BY <2>6, <3>2, <3>3
    <2>11. W \in Seq(T) /\ Linked("links", W)
      <3>1. /\ <<w>> \in Seq(T) /\ Linked("links", <<w>>) /\ <<w, x>> \in Seq(T) /\ Linked("links", <<w, x>>)
            /\ <<w, y>> \in Seq(T) /\ Linked("links", <<w, y>>)
        BY <2>7, <2>9, Short
      <3>2. <<w, x, y>> \in Seq(T) /\ Linked("links", <<w, x, y>>) BY <2>7, <2>9, Short
      <3> HIDE DEF W
      <3> QED BY <2>10, <3>1, <3>2
    <2>12. W # << >> /\ W[1] = w /\ W[Len(W)] \in {w, x, y}
      <3>1. /\ <<w>> # << >> /\ Len(<<w>>) = 1 /\ <<w>>[1] = w
            /\ <<w, x>> # << >> /\ Len(<<w, x>>) = 2 /\ <<w, x>>[1] = w /\ <<w, x>>[2] = x
            /\ <<w, y>> # << >> /\ Len(<<w, y>>) = 2 /\ <<w, y>>[1] = w /\ <<w, y>>[2] = y
            /\ <<w, x, y>> # << >> /\ Len(<<w, x, y>>) = 3 /\ <<w, x, y>>[1] = w /\ <<w, x, y>>[3] = y
        OBVIOUS
      <3> HIDE DEF W
      <3> QED BY <2>10, <3>1
    <2> HIDE DEF W
    <2> DEFINE N == <<n>>
               E == W \o N
    <2>13. N \in Seq(T) /\ Linked("links", N) /\ N # << >> /\ N[1] = n /\ N[Len(N)] = n /\ Len(N) = 1
      BY <2>7, Short
    <2> HIDE DEF N
    <2>14. E \in Seq(T) /\ Linked("links", E) /\ E # << >> /\ E[1] = w /\ E[Len(E)] = n
      <3>1. Follows("links", W[Len(W)], N[1]) BY <2>9, <2>12, <2>13
      <3>2. ~(Len(N) > 1) /\ Follows3(W[Len(W) - 1], W[Len(W)], N[1]) BY <2>8, <2>13 DEF Follows3
      <3> QED BY <2>11, <2>12, <2>13, <3>1, <3>2, ChainedAny
    <2> HIDE DEF E
    \* what is created before it
    <2> DEFINE c == <<m, t>>
    <2>15. c \in Seq(T) /\ Linked("links", c) /\ c # << >> /\ c[1] = m /\ c[Len(c)] = t
      BY <2>7, <2>9, Short
    <2>16. M1 \in {<< >>, c} /\ M2 \in {<< >>, c} /\ (M1 = << >> /\ M2 = << >> => w.a # None /\ w.b # None)
      <3>1. c # << >> BY <2>15
      <3> HIDE DEF c
      <3> QED BY <2>3, <2>8, <3>1 DEF c
    <2> HIDE DEF c, M1, M2
    <2>17. c \o E \in Seq(T) /\ Linked("links", c \o E) /\ c \o E # << >> /\ (c \o E)[1] = m /\ (c \o E)[Len(c \o E)] = n
      <3>1. c[Len(c)].op \notin {"wire", "plugA"} /\ Follows("links", c[Len(c)], E[1])
        BY <2>8, <2>9, <2>14, <2>15
      <3> QED BY <2>14, <2>15, <3>1, Chained
    <2>18. /\ c \o (c \o E) \in Seq(T) /\ Linked("links", c \o (c \o E)) /\ c \o (c \o E) # << >>
           /\ (c \o (c \o E))[1] = m /\ (c \o (c \o E))[Len(c \o (c \o E))] = n
      <3> DEFINE F == c \o E
      <3>1. F \in Seq(T) /\ Linked("links", F) /\ F # << >> /\ F[1] = m /\ F[Len(F)] = n BY <2>17
      <3> HIDE DEF F
      <3>2. c[Len(c)].op \notin {"wire", "plugA"} /\ Follows("links", c[Len(c)], F[1])
        BY <2>8, <2>9, <2>15, <3>1
      <3>3. /\ c \o F \in Seq(T) /\ Linked("links", c \o F) /\ c \o F # << >>
            /\ (c \o F)[1] = m /\ (c \o F)[Len(c \o F)] = n
        BY <2>15, <3>1, <3>2, Chained
      <3> QED BY <3>3 DEF F
    <2>19. LinkVerbs(b, l) = M1 \o (M2 \o E)
      <3>1. M1 \in Seq(T) /\ M2 \in Seq(T) /\ <<w>> \in Seq(T) /\ P \in Seq(T) /\ N \in Seq(T) /\ W \in Seq(T)
        <4>1. << >> \in Seq(T) /\ <<w>> \in Seq(T) /\ <<x>> \in Seq(T) /\ <<y>> \in Seq(T) /\ <<x, y>> \in Seq(T)
          BY <2>7
        <4> QED BY <2>6, <2>11, <2>13, <2>15, <2>16, <4>1
      <3> DEFINE v == <<w>>
                 o == M1 \o M2
      <3>2. v \in Seq(T) /\ W = v \o P /\ o \in Seq(T) /\ E = W \o N BY <3>1, Appended DEF W, E
      <3>3. LinkVerbs(b, l) = ((o \o v) \o P) \o N BY <2>4, <2>5 DEF N
      <3> HIDE DEF v, o
      <3> HIDE DEF W, E
      <3>4. (o \o v) \o P = o \o W
        <4>1. o \in Seq(T) /\ v \in Seq(T) /\ P \in Seq(T) BY <3>1, <3>2
        <4>2. (o \o v) \o P = o \o (v \o P) BY <4>1, Appended
        <4> QED BY <3>2, <4>2
      <3>5. (o \o W) \o N = o \o E
        <4>1. o \in Seq(T) /\ W \in Seq(T) /\ N \in Seq(T) BY <3>1, <3>2
        <4>2. (o \o W) \o N = o \o (W \o N) BY <4>1, Appended
        <4> QED BY <3>2, <4>2
      <3>6. o \o E = M1 \o (M2 \o E) BY <2>14, <3>1, Appended, SMTT(30) DEF o
      <3> QED BY <3>3, <3>4, <3>5, <3>6
    <2>20. << >> \o E = E /\ << >> \o (c \o E) = c \o E BY <2>14, <2>17, Appended
    <2>21. CASE M1 = << >> /\ M2 = << >>
      <3>1. LinkVerbs(b, l) = E BY <2>19, <2>20, <2>21
      <3>2. Starts("links", w) /\ Closes("links", n) BY <2>8, <2>16, <2>21 DEF Starts, Closes
      <3> QED BY <2>14, <3>1, <3>2 DEF Steps, T
    <2>22. Starts("links", m) /\ Closes("links", n) BY <2>8 DEF Starts, Closes
    <2>23. CASE (M1 = c /\ M2 = << >>) \/ (M1 = << >> /\ M2 = c)
      <3>1. LinkVerbs(b, l) = c \o E BY <2>19, <2>20, <2>23
      <3> QED BY <2>17, <2>22, <3>1 DEF Steps, T
    <2>24. CASE M1 = c /\ M2 = c
      <3>1. LinkVerbs(b, l) = c \o (c \o E) BY <2>19, <2>24
      <3> QED BY <2>18, <2>22, <3>1 DEF Steps, T
    <2> QED BY <2>16, <2>21, <2>23, <2>24
  <1> QED BY <1>2, <1>3

LEMMA LinksSteps ==
  ASSUME NEW b \in Boards, NEW b0, links \in Intents
  PROVE  \E s \in Steps("links", b, b0) : LinksVerbs(b) = s \o Done
  <1> DEFINE S == Steps("links", b, b0)
             p == [i \in 1..Len(links) |-> LinkVerbs(b, links[i])]
  <1>1. << >> \in S /\ \A s, t \in S : s \o t \in S BY StepsClosed DEF Phases
  <1>2. links \in Seq(Link) BY PlanAssumption
  <1>3. Len(links) \in Nat /\ \A i \in 1..Len(links) : links[i] \in Link BY <1>2
  <1>4. p \in [1..Len(links) -> S] BY <1>3, LinkVerbsSteps
  <1>5. LinksVerbs(b) = FlattenSeq(p) \o Done BY DEF LinksVerbs
  <1> HIDE DEF p, S
  <1>6. FlattenSeq(p) \in S BY <1>1, <1>3, <1>4, FlattenIn
  <1> QED BY <1>5, <1>6 DEF S

\* A reading whose switches are as another's judges the domains as it does.
SameSwitches(b, b0) ==
  \A s \in Switches : /\ b.home[s] = b0.home[s] /\ b.tag[s] = b0.tag[s]
                      /\ s \in b.drifted <=> s \in b0.drifted

LEMMA DomainSwitchIn ==
  ASSUME NEW b \in Boards, NEW d
  PROVE  /\ DomainSwitch(b, d) \in Switches \cup {None}
         /\ DomainSwitch(b, d) # None => /\ b.home[DomainSwitch(b, d)] = Root
                                         /\ b.tag[DomainSwitch(b, d)] = d.label
  <1> DEFINE same == {s \in Switches : b.home[s] = Root /\ b.tag[s] = d.label}
  <1>1. same \subseteq Nat BY IdsIn
  <1>2. DomainSwitch(b, d) = IF same = {} THEN None ELSE Lowest(same) BY DEF DomainSwitch
  <1>3. same # {} => Lowest(same) \in same
    <2> HIDE DEF same
    <2> QED BY <1>1, LowestIn
  <1> QED BY <1>2, <1>3

LEMMA DueSame ==
  ASSUME NEW b \in Boards, NEW b0 \in Boards, SameSwitches(b, b0), NEW d
  PROVE  /\ DomainSwitch(b, d) = DomainSwitch(b0, d)
         /\ Due(b, d) <=> Due(b0, d)
  <1>1. {s \in Switches : b.home[s] = Root /\ b.tag[s] = d.label}
          = {s \in Switches : b0.home[s] = Root /\ b0.tag[s] = d.label}
    BY DEF SameSwitches
  <1>2. DomainSwitch(b, d) = DomainSwitch(b0, d) BY <1>1 DEF DomainSwitch
  <1>3. DomainSwitch(b, d) \in Switches \cup {None} BY DomainSwitchIn
  <1>4. Due(b, d) <=> Due(b0, d) BY <1>2, <1>3 DEF Due, SameSwitches
  <1> QED BY <1>2, <1>4

LEMMA DomainVerbsSteps ==
  ASSUME NEW b \in Boards, NEW b0 \in Boards, SameSwitches(b, b0), NEW i \in DOMAIN Domains
  PROVE  DomainVerbs(b, i) \in Steps("switches", b, b0)
  <1> DEFINE T == Fit("switches", b, b0)
             s == DomainSwitch(b, Domains[i])
             r == Verb("raise", Root, i, None, None)
             x == Verb("destroy", Root, None, s, None)
  <1>1. DomainVerbs(b, i) = IF s = None THEN <<r>> ELSE IF s \in b.drifted THEN <<x, r>> ELSE << >>
    BY DEF DomainVerbs
  <1>2. /\ s \in Switches \cup {None} /\ (s # None => b.tag[s] = Domains[i].label)
        /\ Domains[i].label # None /\ i \in Nat
    BY DomainSwitchIn, DomainsIn, NoneApart
  <1>3. Due(b, Domains[i]) <=> Due(b0, Domains[i]) BY DueSame
  <1>4. r.op = "raise" /\ r.arg = i /\ x.op = "destroy" /\ x.a = s BY DEF Verb
  <1>5. r \in Verbs /\ x \in Verbs BY <1>2 DEF Verbs, Verb, Ops, Homes, Things, Objs
  <1>6. s \in b.drifted \cup {None} => r \in T BY <1>3, <1>4, <1>5 DEF Fit, Fits, Due
  <1>7. s \in b.drifted /\ s # None => x \in T
    <2> SUFFICES ASSUME s \in b.drifted, s # None PROVE Doomed(b0, s)
      BY <1>2, <1>4, <1>5 DEF Fit, Fits
    <2> QED BY <1>2 DEF Doomed, SameSwitches
  <1>8. CASE s = None
    <2>1. <<r>> \in Seq(T) /\ Linked("switches", <<r>>) BY <1>6, <1>8, Short
    <2>2. Starts("switches", r) /\ Closes("switches", r) /\ <<r>>[1] = r /\ Len(<<r>>) = 1
      BY <1>4 DEF Starts, Closes
    <2> HIDE DEF r, T
    <2> QED BY <1>1, <1>8, <2>1, <2>2 DEF Steps, T
  <1>9. CASE s # None /\ s \in b.drifted
    <2>1. Follows("switches", x, r) BY <1>4 DEF Follows
    <2>2. <<x, r>> \in Seq(T) /\ Linked("switches", <<x, r>>)
      <3>1. x \in T /\ r \in T BY <1>6, <1>7, <1>9
      <3> HIDE DEF x, r, T
      <3> QED BY <2>1, <3>1, Short
    <2>3. Starts("switches", x) /\ Closes("switches", r) /\ <<x, r>>[1] = x /\ <<x, r>>[2] = r /\ Len(<<x, r>>) = 2
      BY <1>4 DEF Starts, Closes
    <2> HIDE DEF x, r, T
    <2> QED BY <1>1, <1>9, <2>2, <2>3 DEF Steps, T
  <1>10. CASE s # None /\ s \notin b.drifted
    <2>1. DomainVerbs(b, i) = << >> BY <1>1, <1>10
    <2> QED BY <2>1, StepsClosed DEF Phases
  <1> QED BY <1>8, <1>9, <1>10

LEMMA SwitchesSteps ==
  ASSUME NEW b \in Boards, NEW b0 \in Boards, SameSwitches(b, b0)
  PROVE  \E s \in Steps("switches", b, b0) : SwitchVerbs(b) = s \o Done
  <1> DEFINE S == Steps("switches", b, b0)
             p == [i \in 1..Len(Domains) |-> DomainVerbs(b, i)]
  <1>1. << >> \in S /\ \A s, t \in S : s \o t \in S BY StepsClosed DEF Phases
  <1>2. Len(Domains) \in Nat /\ DOMAIN Domains = 1..Len(Domains) BY DomainsIn
  <1>3. p \in [1..Len(Domains) -> S] BY <1>2, DomainVerbsSteps
  <1>4. SwitchVerbs(b) = FlattenSeq(p) \o Done BY DEF SwitchVerbs
  <1> HIDE DEF p, S
  <1>5. FlattenSeq(p) \in S BY <1>1, <1>2, <1>3, FlattenIn
  <1> QED BY <1>4, <1>5 DEF S

LEMMA PruneSteps ==
  ASSUME NEW b \in Boards, NEW b0 \in Boards,
         \A s \in Switches : b.tag[s] \in Labels \cup {None, b0.tag[s]}
  PROVE  \E s \in Steps("prune", b, b0) : PruneVerbs(b) = s \o Done
  <1> DEFINE S == Steps("prune", b, b0)
             T == Fit("prune", b, b0)
             C == SwitchCandidates(b)
             order == InOrder(C)
             p == [i \in 1..Len(order) |-> Verb("destroy", Root, None, order[i], None)]
  <1>1. C \subseteq Switches /\ \A s \in C : Doomed(b0, s)
    BY DEF SwitchCandidates, EveryUndeclared, Doomed
  <1>2. C \subseteq Nat /\ IsFiniteSet(C)
    <2> DEFINE top == 999
    <2>1. 1 \in Int /\ top \in Int OBVIOUS
    <2>2. C \subseteq 1..top
      <3>1. Switches \subseteq 1..top BY BoardAssumption
      <3> HIDE DEF C, top
      <3> QED BY <1>1, <3>1
    <2> HIDE DEF top, C
    <2>3. IsFiniteSet(1..top) BY <2>1, FS_Interval
    <2>4. 1..top \subseteq Nat OBVIOUS
    <2> QED BY <2>2, <2>3, <2>4, FS_Subset
  <1>3. Cardinality(C) \in Nat /\ order \in [1..Cardinality(C) -> C]
    <2> HIDE DEF C
    <2> QED BY <1>2, InOrderIn
  <1>4. Len(order) \in Nat /\ \A i \in 1..Len(order) : order[i] \in C BY <1>3
  <1>5. ASSUME NEW i \in 1..Len(order) PROVE p[i] \in T /\ p[i].op = "destroy"
    <2>1. order[i] \in Switches /\ Doomed(b0, order[i]) BY <1>1, <1>4
    <2> DEFINE v == Verb("destroy", Root, None, order[i], None)
    <2>2. v.op = "destroy" /\ v.a = order[i] /\ v \in Verbs
      BY <2>1 DEF Verb, Verbs, Ops, Homes, Things, Objs
    <2>3. v \in T BY <2>1, <2>2 DEF Fit, Fits
    <2> QED BY <2>2, <2>3
  <1>6. PruneVerbs(b) = p \o Done BY DEF PruneVerbs
  <1>7. Len(p) = Len(order) BY <1>4
  <1>8. p \in Seq(T) BY <1>4, <1>5
  <1> HIDE DEF p, T, order
  <1>9. Linked("prune", p)
    <2>1. \A i \in 1..(Len(p) - 1) : p[i].op = "destroy" /\ p[i+1].op = "destroy"
      BY <1>4, <1>5, <1>7
    <2>2. \A i \in 1..(Len(p) - 2) : p[i].op = "destroy" BY <1>4, <1>5, <1>7
    <2>3. \A i \in 1..(Len(p) - 1) : Follows("prune", p[i], p[i+1]) BY <2>1 DEF Follows
    <2>4. \A i \in 1..(Len(p) - 2) : Follows3(p[i], p[i+1], p[i+2]) BY <2>2 DEF Follows3
    <2> QED BY <2>3, <2>4 DEF Linked
  <1>10. p # << >> => Starts("prune", p[1]) /\ Closes("prune", p[Len(p)])
    <2> SUFFICES ASSUME p # << >> PROVE p[1].op = "destroy" /\ p[Len(p)].op = "destroy"
      BY DEF Starts, Closes
    <2>1. Len(p) # 0 BY <1>8
    <2>2. 1 \in 1..Len(order) /\ Len(p) \in 1..Len(order) BY <1>4, <1>7, <2>1
    <2> QED BY <1>5, <2>2
  <1>11. p \in S BY <1>8, <1>9, <1>10 DEF Steps, T
  <1> QED BY <1>6, <1>11

\* A raise: the uplink is cleared first, the ports come after the label, the plug last.
LEMMA RaiseSteps ==
  ASSUME NEW b \in Boards, NEW b0 \in Boards, NEW i \in DOMAIN Domains,
         Due(b0, Domains[i]), ~Unraisable(b, Domains[i])
  PROVE  LET R == RaiseVerbs(b, i)
         IN /\ R \in Seq(Fit("switches", b, b0)) /\ Linked("switches", R) /\ R # << >>
            /\ R[1].op \in {"sever", "mintSwitch"} /\ R[Len(R)].op = "next"
            /\ R[1].op = "sever" => R[1].a \in Dpnis /\ b.wire[R[1].a] = Domains[i].uplink
  <1> DEFINE T == Fit("switches", b, b0)
             d == Domains[i]
             n == Len(d.members)
             F == Facing(b, d.uplink)
             m == Verb("mintSwitch", Root, d.label, None, None)
             t == Verb("stamp", Root, d.label, None, None)
             p0 == Verb("port", Root, 0, None, d.uplink)
             ps == [j \in 1..n |-> Verb("port", Root, j, None, MemberRow(b, d.members[j]))]
             x == Verb("plugA", Root, d.label, None, None)
             y == Verb("next", None, None, None, None)
             v == Verb("sever", Root, None, Lowest(F), None)
  <1>1. d.label \in Names /\ d.label \in Labels /\ d.uplink \in Macs /\ d.members \in Seq(Member)
    BY DomainsIn
  <1>2. /\ n \in Nat /\ n <= Widest /\ Widest \in Nat
        /\ \A j \in 1..n : MemberRow(b, d.members[j]) \in Standing(b)
    <2>1. n \in Nat /\ DOMAIN d.members = 1..n /\ \A j \in 1..n : d.members[j] \in Member BY <1>1
    <2>2. ~(n > Widest) /\ \A j \in 1..n : MemberRow(b, d.members[j]) # None BY <2>1 DEF Unraisable
    <2>3. ASSUME NEW j \in 1..n PROVE MemberRow(b, d.members[j]) \in Standing(b)
      <3>1. d.members[j].home \in Homes /\ d.members[j].label \in Names BY <2>1 DEF Member
      <3> QED BY <2>2, <3>1, RowIn DEF MemberRow
    <2>4. Widest \in Nat BY BoardAssumption
    <2> HIDE DEF n, d
    <2> QED BY <2>1, <2>2, <2>3, <2>4
  <1>3. Root \in Homes /\ None \in Things /\ Standing(b) \subseteq Things /\ Macs \subseteq Things /\ Dpnis \subseteq Things
    BY DEF Homes, Things, Standing, Objs, Ends
  <1>4. m \in T /\ t \in T /\ p0 \in T /\ x \in T /\ y \in T
    <2>1. m \in Verbs /\ t \in Verbs /\ p0 \in Verbs /\ x \in Verbs /\ y \in Verbs
      BY <1>1, <1>3 DEF Verbs, Verb, Ops
    <2>2. 0 \in 0..Widest BY <1>2
    <2>3. /\ Fits("switches", b, b0, m) /\ Fits("switches", b, b0, t) /\ Fits("switches", b, b0, p0)
          /\ Fits("switches", b, b0, x) /\ Fits("switches", b, b0, y)
      BY <1>1, <2>2 DEF Fits, Verb
    <2> QED BY <2>1, <2>3 DEF Fit
  <1>5. ASSUME NEW j \in 1..n PROVE ps[j] \in T /\ ps[j].op = "port"
    <2> DEFINE q == Verb("port", Root, j, None, MemberRow(b, d.members[j]))
    <2>1. j \in 0..Widest /\ j \in Nat /\ MemberRow(b, d.members[j]) \in Standing(b) BY <1>2
    <2>2. q.op = "port" /\ q.arg = j /\ q.b = MemberRow(b, d.members[j]) BY DEF Verb
    <2>3. q \in Verbs BY <1>3, <2>1 DEF Verbs, Verb, Ops
    <2>4. q \in T BY <2>1, <2>2, <2>3 DEF Fit, Fits
    <2> QED BY <2>2, <2>4
  <1>6. F # {} => /\ v \in T /\ Lowest(F) \in Dpnis /\ b.wire[Lowest(F)] = d.uplink
    <2> SUFFICES ASSUME F # {} PROVE v \in T /\ Lowest(F) \in Dpnis /\ b.wire[Lowest(F)] = d.uplink
      OBVIOUS
    <2>1. F \subseteq Nat BY BoardAssumption, SMTT(30) DEF Facing
    <2>2. Lowest(F) \in F
      <3> HIDE DEF F
      <3> QED BY <2>1, LowestIn
    <2>3. Lowest(F) \in Dpnis /\ b.wire[Lowest(F)] = d.uplink BY <2>2 DEF Facing
    <2>4. v.op = "sever" /\ v.a = Lowest(F) /\ v \in Verbs BY <1>3, <2>3 DEF Verb, Verbs, Ops
    <2> QED BY <2>3, <2>4 DEF Fit, Fits
  <1>7. /\ m.op = "mintSwitch" /\ t.op = "stamp" /\ p0.op = "port" /\ x.op = "plugA" /\ y.op = "next"
        /\ v.op = "sever" /\ v.a = Lowest(F) /\ m.at = t.at /\ m.arg = t.arg
    BY DEF Verb
  <1>8. RaiseNoSever(b, i) = <<m, t>> \o <<p0>> \o ps \o <<x, y>> BY DEF RaiseNoSever, MintIn
  <1>9. RaiseVerbs(b, i) =
          (IF F = {} \/ d.members = << >> THEN << >> ELSE <<v>>) \o RaiseNoSever(b, i)
    BY DEF RaiseVerbs
  <1>10. ps \in Seq(T) /\ Len(ps) = n
    <2>1. ps \in [1..n -> T]
      <3>1. ps = [j \in 1..n |-> ps[j]] /\ \A j \in 1..n : ps[j] \in T BY <1>5
      <3> HIDE DEF ps, T, n
      <3> QED BY <3>1
    <2> HIDE DEF ps, T, n
    <2> QED BY <1>2, <2>1
  <1>11. \A j \in 1..n : ps[j].op = "port" BY <1>5
  <1> HIDE DEF T, n, F, m, t, p0, ps, x, y, v, d
  <1>12. Linked("switches", ps) /\ (ps # << >> => ps[1].op = "port" /\ ps[Len(ps)].op = "port")
    <2>1. \A j \in 1..(Len(ps) - 1) : ps[j].op = "port" /\ ps[j+1].op = "port" BY <1>2, <1>10, <1>11
    <2>2. \A j \in 1..(Len(ps) - 2) : ps[j].op = "port" BY <1>2, <1>10, <1>11
    <2>3. \A j \in 1..(Len(ps) - 1) : Follows("switches", ps[j], ps[j+1]) BY <2>1 DEF Follows
    <2>4. \A j \in 1..(Len(ps) - 2) : Follows3(ps[j], ps[j+1], ps[j+2]) BY <2>2 DEF Follows3
    <2>5. ps # << >> => 1 \in 1..n /\ Len(ps) \in 1..n BY <1>2, <1>10
    <2> QED BY <1>11, <2>3, <2>4, <2>5 DEF Linked
  <1>13. /\ Follows("switches", m, t) /\ Follows("switches", t, p0) /\ Follows3(m, t, p0)
         /\ Follows("switches", x, y) /\ Follows("switches", v, m)
    BY <1>7 DEF Follows, Follows3
  <1> DEFINE A == <<m, t, p0>>
             B == A \o ps
             X == <<x, y>>
             C == B \o X
  <1>14. A \in Seq(T) /\ Linked("switches", A) /\ A # << >> /\ A[1] = m /\ A[Len(A)] = p0
    BY <1>4, <1>13, Short
  <1>15. X \in Seq(T) /\ Linked("switches", X) /\ X # << >> /\ X[1] = x /\ X[Len(X)] = y
    BY <1>4, <1>13, Short
  <1>16. RaiseNoSever(b, i) = C
    <2>1. <<m, t>> \o <<p0>> = A BY Triple
    <2> QED BY <1>8, <2>1
  <1> HIDE DEF A, X
  <1>17. B \in Seq(T) /\ Linked("switches", B) /\ B # << >> /\ B[1] = m /\ B[Len(B)].op = "port"
    <2>1. CASE ps = << >>
      <3>1. B = A BY <1>14, <2>1, Appended
      <3> HIDE DEF B
      <3> QED BY <1>7, <1>14, <3>1
    <2>2. CASE ps # << >>
      <3>1. A[Len(A)].op \notin {"wire", "plugA"} /\ Follows("switches", A[Len(A)], ps[1])
        BY <1>7, <1>12, <1>14, <2>2 DEF Follows
      <3>2. /\ B \in Seq(T) /\ Linked("switches", B) /\ B # << >> /\ B[1] = A[1] /\ B[Len(B)] = ps[Len(ps)]
        BY <1>10, <1>12, <1>14, <2>2, <3>1, Chained
      <3> HIDE DEF B
      <3> QED BY <1>12, <1>14, <2>2, <3>2
    <2> QED BY <2>1, <2>2
  <1> HIDE DEF B
  <1>18. C \in Seq(T) /\ Linked("switches", C) /\ C # << >> /\ C[1] = m /\ C[Len(C)] = y
    <2>1. B[Len(B)].op \notin {"wire", "plugA"} /\ Follows("switches", B[Len(B)], X[1])
      BY <1>7, <1>15, <1>17 DEF Follows
    <2>2. C \in Seq(T) /\ Linked("switches", C) /\ C # << >> /\ C[1] = B[1] /\ C[Len(C)] = X[Len(X)]
      BY <1>15, <1>17, <2>1, Chained
    <2> QED BY <1>15, <1>17, <2>2
  <1> HIDE DEF C
  <1>19. CASE F = {} \/ d.members = << >>
    <2>1. RaiseVerbs(b, i) = C BY <1>9, <1>16, <1>18, <1>19, Appended
    <2> QED BY <1>7, <1>18, <2>1 DEF T
  <1>20. CASE ~(F = {} \/ d.members = << >>)
    <2> DEFINE W == <<v>>
               R == W \o C
    <2>1. W \in Seq(T) /\ Linked("switches", W) /\ W # << >> /\ W[1] = v /\ W[Len(W)] = v
      BY <1>6, <1>20, Short
    <2>2. RaiseVerbs(b, i) = R BY <1>9, <1>16, <1>20
    <2> HIDE DEF W
    <2>3. W[Len(W)].op \notin {"wire", "plugA"} /\ Follows("switches", W[Len(W)], C[1])
      BY <1>7, <1>13, <1>18, <2>1
    <2>4. R \in Seq(T) /\ Linked("switches", R) /\ R # << >> /\ R[1] = W[1] /\ R[Len(R)] = C[Len(C)]
      BY <1>18, <2>1, <2>3, Chained
    <2> HIDE DEF R
    <2>5. R[1] = v /\ R[Len(R)] = y /\ v.op = "sever" /\ y.op = "next" /\ v.a \in Dpnis /\ b.wire[v.a] = Domains[i].uplink
      BY <1>6, <1>7, <1>18, <1>20, <2>1, <2>4 DEF d
    <2> QED BY <2>2, <2>4, <2>5 DEF T
  <1> QED BY <1>19, <1>20

-----------------------------------------------------------------------------
(* How many ends the plans create, against how many are declared. *)

LEMMA NoHits ==
  ASSUME NEW q, NEW K, \A i \in 1..Len(q) : q[i] \notin K
  PROVE  Cardinality(Hits(q, K)) = 0
  <1>1. Hits(q, K) = {} BY DEF Hits
  <1> QED BY <1>1, FS_EmptySet

LEMMA OneHit ==
  ASSUME NEW x, NEW K
  PROVE  Cardinality(Hits(<<x>>, K)) = IF x \in K THEN 1 ELSE 0
  <1>1. Len(<<x>>) = 1 /\ <<x>>[1] = x /\ 1..1 = {1} OBVIOUS
  <1>2. Hits(<<x>>, K) = IF x \in K THEN {1} ELSE {} BY <1>1 DEF Hits
  <1>3. Cardinality({1}) = 1 /\ Cardinality({}) = 0 BY FS_Singleton, FS_EmptySet
  <1> QED BY <1>2, <1>3

LEMMA NoneHit ==
  ASSUME NEW K
  PROVE  Cardinality(Hits(<< >>, K)) = 0
  <1>1. Len(<< >>) = 0 OBVIOUS
  <1> QED BY <1>1, NoHits

\* Of the two verbs that create an end, the label counts.
LEMMA MintInHits ==
  ASSUME NEW h, NEW n, NEW k, NEW m, NEW op, op # "stamp"
  PROVE  Cardinality(Hits(MintIn(op, k, m), Stamps(h, n))) <= IF k = h /\ m = n THEN 1 ELSE 0
  <1> DEFINE x == Verb(op, k, m, None, None)
             y == Verb("stamp", k, m, None, None)
             K == Stamps(h, n)
             a == <<x>>
             b == <<y>>
             T == {x, y}
  <1>1. x.op = op /\ y.at = k /\ y.arg = m BY DEF Verb
  <1>2. x \notin K /\ (y \in K => k = h /\ m = n) BY <1>1 DEF Stamps
  <1>3a. a \in Seq(T) /\ b \in Seq(T) OBVIOUS
  <1>3b. MintIn(op, k, m) = <<x, y>> BY DEF MintIn
  <1>3c. <<x>> \o <<y>> = <<x, y>> BY Pair
  <1>3. a \in Seq(T) /\ b \in Seq(T) /\ MintIn(op, k, m) = a \o b BY <1>3a, <1>3b, <1>3c
  <1>4. Cardinality(Hits(a, K)) = 0 /\ Cardinality(Hits(b, K)) = IF y \in K THEN 1 ELSE 0
    BY <1>2, OneHit
  <1> HIDE DEF a, b, T, x, K
  <1>5. Cardinality(Hits(a \o b, K)) = Cardinality(Hits(a, K)) + Cardinality(Hits(b, K))
    BY <1>3, HitsConcat
  <1>6. Cardinality(Hits(a \o b, K)) <= IF k = h /\ m = n THEN 1 ELSE 0 BY <1>2, <1>4, <1>5
  <1> QED BY <1>3, <1>6 DEF K

LEMMA EndVerbsHits ==
  ASSUME NEW b \in Boards, NEW k \in Kids, NEW d \in Entry, NEW h \in Homes, NEW n \in Names
  PROVE  /\ EndVerbs(b, k, d) \in Seq(Verbs)
         /\ Cardinality(Hits(EndVerbs(b, k, d), Stamps(h, n)))
              <= IF k = h /\ d.label = n /\ RowsNamed(b, h, n) = {} THEN 1 ELSE 0
  <1> DEFINE K == Stamps(h, n)
             row == Row(b, k, d.label)
             peer == PeerOf(b, d)
             M == MintIn("mint", k, d.label)
             z == Verb("plug", k, d.label, None, None)
             w == Verb("join", k, d.label, row, peer)
             e == Verb("next", None, None, None, None)
             A == IF row = None THEN CreateVerbs(k, d) ELSE << >>
             B == IF peer # None /\ (row = None \/ b.wire[row] # peer) THEN <<w>> ELSE << >>
  <1>1. k \in Homes /\ d.label \in Names /\ (d.peer = None \/ d.peer \in Homes) BY DEF Homes, Entry
  <1>2. row \in Standing(b) \cup {None} /\ peer \in Standing(b) \cup {None}
    BY <1>1, RowIn DEF PeerOf
  <1>3. row \in Things /\ peer \in Things /\ None \in Things BY <1>2 DEF Things, Standing, Objs
  <1>4. w \in Verbs /\ e \in Verbs /\ z \in Verbs /\ M \in Seq(Verbs)
    BY <1>1, <1>3 DEF Verbs, Verb, Ops, MintIn
  <1>5. w \notin K /\ e \notin K /\ z \notin K BY DEF Stamps, Verb
  <1>6. EndVerbs(b, k, d) = A \o B \o <<e>> /\ CreateVerbs(k, d) = M \o <<z>>
    BY DEF EndVerbs, CreateVerbs
  <1>7. Cardinality(Hits(M, K)) <= IF k = h /\ d.label = n THEN 1 ELSE 0 BY MintInHits
  <1>8. row = None => (k = h /\ d.label = n => RowsNamed(b, h, n) = {})
    <2> SUFFICES ASSUME row = None, RowsNamed(b, k, d.label) # {} PROVE FALSE OBVIOUS
    <2>1. row \in RowsNamed(b, k, d.label) /\ RowsNamed(b, k, d.label) \subseteq Dpnis
      BY <1>1, RowIn DEF Standing
    <2> QED BY <2>1, NoneApart
  <1> DEFINE Z == <<z>>
             E == <<e>>
             J == <<w>>
  <1>9. /\ Z \in Seq(Verbs) /\ E \in Seq(Verbs) /\ J \in Seq(Verbs) /\ << >> \in Seq(Verbs)
        /\ Cardinality(Hits(Z, K)) = 0 /\ Cardinality(Hits(E, K)) = 0 /\ Cardinality(Hits(J, K)) = 0
        /\ Cardinality(Hits(<< >>, K)) = 0
    BY <1>4, <1>5, OneHit, NoneHit
  <1>10. A = (IF row = None THEN M \o Z ELSE << >>) /\ B \in {<< >>, J} /\ EndVerbs(b, k, d) = A \o B \o E
    BY <1>6
  <1> HIDE DEF Z, E, J, A, B, M, K, z, w, e, row, peer
  <1>11. /\ M \o Z \in Seq(Verbs) /\ Cardinality(Hits(M \o Z, K)) = Cardinality(Hits(M, K))
    <2>1. Cardinality(Hits(M \o Z, K)) = Cardinality(Hits(M, K)) + Cardinality(Hits(Z, K))
      BY <1>4, <1>9, HitsConcat
    <2>2. Cardinality(Hits(M, K)) \in Nat BY <1>4, HitsIn
    <2> QED BY <1>4, <1>9, <2>1, <2>2
  <1>12. A \in Seq(Verbs) /\ B \in Seq(Verbs) /\ Cardinality(Hits(B, K)) = 0 BY <1>9, <1>10, <1>11
  <1>13. Cardinality(Hits(A, K)) \in Nat /\ A \o B \in Seq(Verbs) BY <1>12, HitsIn
  <1>14. /\ Cardinality(Hits(A \o B, K)) = Cardinality(Hits(A, K)) + Cardinality(Hits(B, K))
         /\ Cardinality(Hits((A \o B) \o E, K)) = Cardinality(Hits(A \o B, K)) + Cardinality(Hits(E, K))
    <2> DEFINE AB == A \o B
    <2>1. Cardinality(Hits(A \o B, K)) = Cardinality(Hits(A, K)) + Cardinality(Hits(B, K))
      BY <1>12, HitsConcat
    <2>2. AB \in Seq(Verbs) BY <1>13
    <2> HIDE DEF AB
    <2>3. Cardinality(Hits(AB \o E, K)) = Cardinality(Hits(AB, K)) + Cardinality(Hits(E, K))
      BY <1>9, <2>2, HitsConcat
    <2> QED BY <2>1, <2>3 DEF AB
  <1>15. Cardinality(Hits(EndVerbs(b, k, d), K)) = Cardinality(Hits(A, K))
    BY <1>9, <1>10, <1>12, <1>13, <1>14
  <1>16. Cardinality(Hits(A, K)) <= IF k = h /\ d.label = n /\ RowsNamed(b, h, n) = {} THEN 1 ELSE 0
    <2>1. CASE row = None BY <1>7, <1>8, <1>10, <1>11, <2>1
    <2>2. CASE row # None BY <1>9, <1>10, <2>2
    <2> QED BY <2>1, <2>2
  <1> QED BY <1>9, <1>10, <1>12, <1>13, <1>15, <1>16 DEF K

\* The ends declared, one token each.
LEMMA TokensFinite ==
  ASSUME links \in Intents, NEW h \in Homes, NEW n
  PROVE  /\ IsFiniteSet(LinkTokens(h, n)) /\ IsFiniteSet(MemberTokens(h, n))
         /\ Cardinality(LinkTokens(h, n)) \in Nat /\ Cardinality(MemberTokens(h, n)) \in Nat
         /\ PlannedEnds(h, n) \in Nat
  <1>1. IsFiniteSet(LinkTokens(h, n))
    <2> DEFINE D == DOMAIN links
               X == {"a", "b"}
               m == Len(links)
    <2>1. D = 1..m /\ m \in Int /\ 1 \in Int BY LinksIn
    <2>2. IsFiniteSet(X)
      <3>1. X = {"a"} \cup {"b"} /\ IsFiniteSet({"a"}) /\ IsFiniteSet({"b"}) BY FS_Singleton
      <3> HIDE DEF X
      <3> QED BY <3>1, FS_Union
    <2>3. LinkTokens(h, n) \subseteq D \X X BY DEF LinkTokens
    <2> HIDE DEF D, X, m
    <2>4. IsFiniteSet(D) BY <2>1, FS_Interval
    <2>5. IsFiniteSet(D \X X) BY <2>2, <2>4, FS_Product
    <2> QED BY <2>3, <2>5, FS_Subset
  <1>2. IsFiniteSet(MemberTokens(h, n))
    <2> DEFINE t(i) == {i} \X {j \in DOMAIN Domains[i].members :
                                 Domains[i].members[j] = [home |-> h, label |-> n]}
               D == DOMAIN Domains
               m == Len(Domains)
               S == {t(i) : i \in D}
               f == [i \in D |-> t(i)]
    <2>1. ASSUME NEW i \in D PROVE IsFiniteSet(t(i))
      <3> DEFINE J == DOMAIN Domains[i].members
                 k == Len(Domains[i].members)
                 P == {j \in J : Domains[i].members[j] = [home |-> h, label |-> n]}
      <3>1. J = 1..k /\ k \in Int /\ 1 \in Int BY DomainsIn
      <3>2. P \subseteq J OBVIOUS
      <3> HIDE DEF J, k, P
      <3>3. IsFiniteSet(J) BY <3>1, FS_Interval
      <3>4. IsFiniteSet(P) /\ IsFiniteSet({i}) BY <3>2, <3>3, FS_Subset, FS_Singleton
      <3>5. IsFiniteSet({i} \X P) BY <3>4, FS_Product
      <3> QED BY <3>5 DEF P, J
    <2>2. D = 1..m /\ m \in Int /\ 1 \in Int BY DomainsIn
    <2>3. MemberTokens(h, n) = UNION S BY DEF MemberTokens
    <2>4. \A T \in S : IsFiniteSet(T) BY <2>1
    <2>5. f \in Surjection(D, S)
      <3>1. f \in [D -> S] /\ \A T \in S : \E i \in D : f[i] = T OBVIOUS
      <3> HIDE DEF f, S
      <3> QED BY <3>1 DEF Surjection
    <2> HIDE DEF D, m, S, f, t
    <2>6. IsFiniteSet(D) BY <2>2, FS_Interval
    <2>7. IsFiniteSet(S) BY <2>5, <2>6, FS_Surjection
    <2> QED BY <2>3, <2>4, <2>7, FS_UNION
  <1>3. Cardinality(LinkTokens(h, n)) \in Nat BY <1>1, FS_CardinalityType
  <1>4. Cardinality(MemberTokens(h, n)) \in Nat BY <1>2, FS_CardinalityType
  <1>5. PlannedEnds(h, n) \in Nat BY <1>3, <1>4 DEF PlannedEnds
  <1> QED BY <1>1, <1>2, <1>3, <1>4, <1>5

Labelled(n) == {d \in Entry : d.label = n}

\* What an intent plans in a container is no more than what is declared there.
LEMMA PlannedHits ==
  ASSUME links \in Intents, NEW k \in Homes, NEW n \in Names
  PROVE  Cardinality(Hits(PlannedIn(k), Labelled(n))) <= PlannedEnds(k, n)
  <1> DEFINE T == Entry
             K == Labelled(n)
             Xa(i) == [label |-> links[i].label, peer |-> links[i].b]
             Xb(i) == [label |-> links[i].label, peer |-> links[i].a]
             xa(i) == IF links[i].a = k THEN <<Xa(i)>> ELSE << >>
             xb(i) == IF links[i].b = k THEN <<Xb(i)>> ELSE << >>
             p == [i \in 1..Len(links) |->
                    (IF links[i].a = k THEN <<[label |-> links[i].label, peer |-> links[i].b]>> ELSE << >>)
                      \o (IF links[i].b = k THEN <<[label |-> links[i].label, peer |-> links[i].a]>> ELSE << >>)]
             ta(i) == IF links[i].a = k /\ links[i].label = n THEN {<<i, "a">>} ELSE {}
             tb(i) == IF links[i].b = k /\ links[i].label = n THEN {<<i, "b">>} ELSE {}
             w == [i \in 1..Len(links) |-> ta(i) \cup tb(i)]
             W == LinkTokens(k, n)
             Y(i, j) == [label |-> Domains[i].members[j].label, peer |-> None]
             m(i) == [j \in 1..Len(Domains[i].members) |->
                       IF Domains[i].members[j].home = k
                       THEN <<[label |-> Domains[i].members[j].label, peer |-> None]>> ELSE << >>]
             u(i) == [j \in 1..Len(Domains[i].members) |->
                       IF Domains[i].members[j] = [home |-> k, label |-> n] THEN {<<i, j>>} ELSE {}]
             q == [i \in 1..Len(Domains) |-> FlattenSeq(m(i))]
             v == [i \in 1..Len(Domains) |-> UNION {u(i)[j] : j \in 1..Len(Domains[i].members)}]
             Z == MemberTokens(k, n)
  <1>1. Len(links) \in Nat /\ DOMAIN links = 1..Len(links) /\ Len(Domains) \in Nat /\ DOMAIN Domains = 1..Len(Domains)
    BY LinksIn, DomainsIn
  <1>2. IsFiniteSet(W) /\ IsFiniteSet(Z)
    BY TokensFinite
  \* the links
  <1>3. ASSUME NEW i \in 1..Len(links)
        PROVE  /\ p[i] \in Seq(T) /\ w[i] \in SUBSET W
               /\ Cardinality(Hits(p[i], K)) <= Cardinality(w[i])
    <2>1. /\ links[i].label \in Names /\ links[i].a \in Homes /\ links[i].b \in Homes
          /\ links[i]["a"] = links[i].a /\ links[i]["b"] = links[i].b
      BY LinksIn
    <2>2. Xa(i) \in T /\ Xb(i) \in T /\ Xa(i).label = links[i].label /\ Xb(i).label = links[i].label
      BY <2>1 DEF Entry
    <2>3. xa(i) \in Seq(T) /\ xb(i) \in Seq(T) BY <2>2
    <2>4. p[i] = xa(i) \o xb(i) /\ w[i] = ta(i) \cup tb(i) OBVIOUS
    <2>5. Cardinality(Hits(xa(i), K)) = IF links[i].a = k /\ links[i].label = n THEN 1 ELSE 0
      <3>1. Xa(i) \in K <=> links[i].label = n BY <2>2 DEF Labelled
      <3> DEFINE x == Xa(i)
      <3> HIDE DEF x
      <3>2. Cardinality(Hits(<<x>>, K)) = IF x \in K THEN 1 ELSE 0 BY OneHit
      <3>3. Cardinality(Hits(<< >>, K)) = 0 BY NoneHit
      <3>4. xa(i) = IF links[i].a = k THEN <<x>> ELSE << >> BY DEF x
      <3> QED BY <3>1, <3>2, <3>3, <3>4 DEF x
    <2>6. Cardinality(Hits(xb(i), K)) = IF links[i].b = k /\ links[i].label = n THEN 1 ELSE 0
      <3>1. Xb(i) \in K <=> links[i].label = n BY <2>2 DEF Labelled
      <3> DEFINE x == Xb(i)
      <3> HIDE DEF x
      <3>2. Cardinality(Hits(<<x>>, K)) = IF x \in K THEN 1 ELSE 0 BY OneHit
      <3>3. Cardinality(Hits(<< >>, K)) = 0 BY NoneHit
      <3>4. xb(i) = IF links[i].b = k THEN <<x>> ELSE << >> BY DEF x
      <3> QED BY <3>1, <3>2, <3>3, <3>4 DEF x
    <2>7. ta(i) \subseteq W /\ tb(i) \subseteq W BY <1>1, <2>1 DEF LinkTokens
    <2>8. /\ IsFiniteSet(ta(i)) /\ Cardinality(ta(i)) = IF links[i].a = k /\ links[i].label = n THEN 1 ELSE 0
          /\ IsFiniteSet(tb(i)) /\ Cardinality(tb(i)) = IF links[i].b = k /\ links[i].label = n THEN 1 ELSE 0
      <3>1. IsFiniteSet({<<i, "a">>}) /\ Cardinality({<<i, "a">>}) = 1 BY FS_Singleton
      <3>2. IsFiniteSet({<<i, "b">>}) /\ Cardinality({<<i, "b">>}) = 1 BY FS_Singleton
      <3> QED BY <3>1, <3>2, FS_EmptySet
    <2>9. ta(i) \cap tb(i) = {} OBVIOUS
    <2> DEFINE a == xa(i)
               b == xb(i)
               c == ta(i)
               d == tb(i)
    <2>10. /\ p[i] = a \o b /\ w[i] = c \cup d /\ c \cap d = {} /\ IsFiniteSet(c) /\ IsFiniteSet(d)
           /\ a \in Seq(T) /\ b \in Seq(T) /\ c \subseteq W /\ d \subseteq W
           /\ Cardinality(Hits(a, K)) = Cardinality(c) /\ Cardinality(Hits(b, K)) = Cardinality(d)
      BY <2>3, <2>4, <2>5, <2>6, <2>7, <2>8, <2>9
    <2> HIDE DEF a, b, c, d, p, w, xa, xb, ta, tb, T, K, W
    <2>11. Cardinality(Hits(a \o b, K)) = Cardinality(Hits(a, K)) + Cardinality(Hits(b, K))
      BY <2>10, HitsConcat
    <2>12. Cardinality(c \cup d) = Cardinality(c) + Cardinality(d)
      <3>1. Cardinality(c \cup d) = Cardinality(c) + Cardinality(d) - Cardinality(c \cap d)
        BY <2>10, FS_Union
      <3>2. Cardinality(c \cap d) = 0 BY <2>10, FS_EmptySet
      <3>3. Cardinality(c) \in Nat /\ Cardinality(d) \in Nat BY <2>10, FS_CardinalityType
      <3> QED BY <3>1, <3>2, <3>3
    <2>13. Cardinality(c) \in Nat /\ Cardinality(d) \in Nat BY <2>10, FS_CardinalityType
    <2>14. a \o b \in Seq(T) BY <2>10, Appended
    <2> QED BY <2>10, <2>11, <2>12, <2>13, <2>14
  <1>4. \A i, j \in 1..Len(links) : i # j => w[i] \cap w[j] = {} OBVIOUS
  <1>5. LinkEndsIn(k) = FlattenSeq(p) /\ MembersIn(k) = FlattenSeq(q) BY DEF LinkEndsIn, MembersIn
  <1>6. FlattenSeq(p) \in Seq(T) /\ Cardinality(Hits(FlattenSeq(p), K)) <= Cardinality(W)
    <2>1. p \in [1..Len(links) -> Seq(T)] /\ w \in [1..Len(links) -> SUBSET W]
      <3>1. p = [i \in 1..Len(links) |-> p[i]] /\ w = [i \in 1..Len(links) |-> w[i]] OBVIOUS
      <3>2. \A i \in 1..Len(links) : p[i] \in Seq(T) /\ w[i] \in SUBSET W BY <1>3
      <3> HIDE DEF p, w, T, W
      <3> QED BY <3>1, <3>2
    <2>2. \A i \in 1..Len(links) : Cardinality(Hits(p[i], K)) <= Cardinality(w[i]) BY <1>3
    <2> DEFINE N == Len(links)
               Q == UNION {w[i] : i \in 1..N}
    <2> HIDE DEF p, w, T, W, K
    <2>3. FlattenSeq(p) \in Seq(T) /\ Cardinality(Hits(FlattenSeq(p), K)) <= Cardinality(Q)
      <3>1. N \in Nat /\ p \in [1..N -> Seq(T)] /\ w \in [1..N -> SUBSET W] BY <1>1, <2>1
      <3>2. Separate(w, N) BY <1>4 DEF Separate
      <3>3. Paid(p, w, N, K) BY <2>2 DEF Paid
      <3>4. Q = Whole(w, N) BY DEF Whole
      <3> HIDE DEF N, Q
      <3> QED BY <1>2, <3>1, <3>2, <3>3, <3>4, FlattenHits
    <2>4. Q \subseteq W BY <2>1
    <2>5. Cardinality(Hits(FlattenSeq(p), K)) \in Nat BY <2>3, HitsIn
    <2> HIDE DEF Q, N
    <2>6. Cardinality(Q) <= Cardinality(W) /\ IsFiniteSet(Q) BY <1>2, <2>4, FS_Subset
    <2>7. Cardinality(Q) \in Nat /\ Cardinality(W) \in Nat BY <1>2, <2>6, FS_CardinalityType
    <2> QED BY <2>3, <2>5, <2>6, <2>7
  \* the members
  <1>7. ASSUME NEW i \in 1..Len(Domains)
        PROVE  /\ FlattenSeq(m(i)) \in Seq(T) /\ v[i] \in SUBSET Z
               /\ Cardinality(Hits(FlattenSeq(m(i)), K)) <= Cardinality(v[i])
    <2> DEFINE N == Len(Domains[i].members)
               a == m(i)
               c == u(i)
    <2>1. N \in Nat /\ DOMAIN Domains[i].members = 1..N /\ \A j \in 1..N : Domains[i].members[j] \in Member
      BY DomainsIn
    <2>2. ASSUME NEW j \in 1..N
          PROVE  /\ a[j] \in Seq(T) /\ c[j] \in SUBSET Z /\ Cardinality(Hits(a[j], K)) <= Cardinality(c[j])
      <3>1. /\ Domains[i].members[j].label \in Names
            /\ Domains[i].members[j] = [home |-> k, label |-> n] <=>
                 Domains[i].members[j].home = k /\ Domains[i].members[j].label = n
        BY <2>1 DEF Member
      <3> DEFINE y == Y(i, j)
      <3>2. y \in T /\ (y \in K <=> Domains[i].members[j].label = n) BY <3>1 DEF Entry, Labelled
      <3>3. a[j] = IF Domains[i].members[j].home = k THEN <<y>> ELSE << >> OBVIOUS
      <3>4. c[j] = IF Domains[i].members[j].home = k /\ Domains[i].members[j].label = n THEN {<<i, j>>} ELSE {}
        BY <3>1
      <3>5. c[j] \subseteq Z BY <1>1, <2>1, <3>1, <3>4 DEF MemberTokens
      <3> HIDE DEF a, c, y, T, K, Z
      <3>6. Cardinality(Hits(<<y>>, K)) = IF y \in K THEN 1 ELSE 0 BY OneHit
      <3>7. Cardinality(Hits(<< >>, K)) = 0 /\ Cardinality({}) = 0 /\ Cardinality({<<i, j>>}) = 1
        BY NoneHit, FS_EmptySet, FS_Singleton
      <3>8. <<y>> \in Seq(T) /\ << >> \in Seq(T) BY <3>2
      <3> QED BY <3>2, <3>3, <3>4, <3>5, <3>6, <3>7, <3>8
    <2>3. a = [j \in 1..N |-> a[j]] /\ c = [j \in 1..N |-> c[j]] OBVIOUS
    <2>4. \A j, l \in 1..N : j # l => c[j] \cap c[l] = {} OBVIOUS
    <2>5. v[i] = UNION {c[j] : j \in 1..N} OBVIOUS
    <2> HIDE DEF a, c, N, T, K, Z
    <2>6. a \in [1..N -> Seq(T)] /\ c \in [1..N -> SUBSET Z] BY <2>2, <2>3
    <2>7. \A j \in 1..N : Cardinality(Hits(a[j], K)) <= Cardinality(c[j]) BY <2>2
    <2>8. FlattenSeq(a) \in Seq(T) /\ Cardinality(Hits(FlattenSeq(a), K)) <= Cardinality(Whole(c, N))
      <3>1. Separate(c, N) /\ Paid(a, c, N, K) BY <2>4, <2>7 DEF Separate, Paid
      <3> QED BY <1>2, <2>1, <2>6, <3>1, FlattenHits
    <2>9. Whole(c, N) \subseteq Z /\ v[i] = Whole(c, N) BY <2>5, <2>6 DEF Whole
    <2> HIDE DEF v
    <2> QED BY <2>5, <2>8, <2>9 DEF a
  <1>8. \A i, j \in 1..Len(Domains) : i # j => v[i] \cap v[j] = {}
    <2> SUFFICES ASSUME NEW i \in 1..Len(Domains), NEW j \in 1..Len(Domains), NEW x \in v[i], x \in v[j] PROVE i = j
      OBVIOUS
    <2>1. ASSUME NEW g \in 1..Len(Domains), NEW y \in v[g] PROVE y[1] = g
      <3>1. PICK l \in 1..Len(Domains[g].members) : y \in u(g)[l] OBVIOUS
      <3> QED BY <3>1
    <2> HIDE DEF v
    <2> QED BY <2>1
  <1>9. FlattenSeq(q) \in Seq(T) /\ Cardinality(Hits(FlattenSeq(q), K)) <= Cardinality(Z)
    <2> DEFINE N == Len(Domains)
               Q == UNION {v[i] : i \in 1..N}
    <2>1. q = [i \in 1..N |-> q[i]] /\ v = [i \in 1..N |-> v[i]] /\ \A i \in 1..N : q[i] = FlattenSeq(m(i))
      OBVIOUS
    <2>2. \A i \in 1..N : q[i] \in Seq(T) /\ v[i] \in SUBSET Z /\ Cardinality(Hits(q[i], K)) <= Cardinality(v[i])
      <3> HIDE DEF q, v, m, T, K, Z
      <3> QED BY <1>7, <2>1
    <2>3. \A i, j \in 1..N : i # j => v[i] \cap v[j] = {} BY <1>8
    <2>4. N \in Nat BY <1>1
    <2> HIDE DEF q, v, T, Z, K, N
    <2>5. q \in [1..N -> Seq(T)] /\ v \in [1..N -> SUBSET Z] BY <2>1, <2>2
    <2>6. FlattenSeq(q) \in Seq(T) /\ Cardinality(Hits(FlattenSeq(q), K)) <= Cardinality(Whole(v, N))
      <3>1. Separate(v, N) /\ Paid(q, v, N, K) BY <2>2, <2>3 DEF Separate, Paid
      <3> QED BY <1>2, <2>4, <2>5, <3>1, FlattenHits
    <2>7. Q \subseteq Z /\ Q = Whole(v, N) BY <2>5 DEF Whole
    <2>8. Cardinality(Hits(FlattenSeq(q), K)) \in Nat /\ Cardinality(Hits(FlattenSeq(q), K)) <= Cardinality(Q)
      BY <2>6, <2>7, HitsIn
    <2> HIDE DEF Q
    <2>9. Cardinality(Q) <= Cardinality(Z) /\ IsFiniteSet(Q) BY <1>2, <2>7, FS_Subset
    <2>10. Cardinality(Q) \in Nat /\ Cardinality(Z) \in Nat BY <1>2, <2>9, FS_CardinalityType
    <2> QED BY <2>6, <2>8, <2>9, <2>10
  <1> DEFINE A == FlattenSeq(p)
             B == FlattenSeq(q)
  <1>10. PlannedIn(k) = A \o B BY <1>5 DEF PlannedIn
  <1>11. /\ A \in Seq(T) /\ Cardinality(Hits(A, K)) <= Cardinality(W)
         /\ B \in Seq(T) /\ Cardinality(Hits(B, K)) <= Cardinality(Z)
    BY <1>6, <1>9
  <1>12. PlannedEnds(k, n) = Cardinality(W) + Cardinality(Z) BY DEF PlannedEnds
  <1> HIDE DEF A, B, T, K, Z, W
  <1>13. Cardinality(Hits(A \o B, K)) = Cardinality(Hits(A, K)) + Cardinality(Hits(B, K))
    BY <1>11, HitsConcat
  <1>14a. Cardinality(Hits(A, K)) \in Nat BY <1>11, HitsIn
  <1>14b. Cardinality(Hits(B, K)) \in Nat BY <1>11, HitsIn
  <1>14c. Cardinality(W) \in Nat /\ Cardinality(Z) \in Nat BY <1>2, FS_CardinalityType
  <1> QED BY <1>10, <1>11, <1>12, <1>13, <1>14a, <1>14b, <1>14c DEF K

\* The population creates an end of a child only under a label no row has there.
LEMMA PopulationHits ==
  ASSUME NEW b \in Boards, links \in Intents, NEW h \in Homes, NEW n \in Names
  PROVE  /\ PopulationVerbs(b) \in Seq(Verbs)
         /\ Cardinality(Hits(PopulationVerbs(b), Stamps(h, n)))
              <= IF RowsNamed(b, h, n) = {} THEN PlannedEnds(h, n) ELSE 0
  <1> DEFINE K == Stamps(h, n)
             P(k) == PlannedIn(k)
             e(k) == [i \in 1..Len(PlannedIn(k)) |-> EndVerbs(b, k, PlannedIn(k)[i])]
             p == [c \in 1..Len(Children) |-> FlattenSeq(e(Children[c]))]
             W == Hits(PlannedIn(h), Labelled(n))
             t(k) == [i \in 1..Len(PlannedIn(k)) |->
                       IF k = h /\ PlannedIn(k)[i].label = n /\ RowsNamed(b, h, n) = {} THEN {i} ELSE {}]
             w == [c \in 1..Len(Children) |->
                    IF Children[c] = h /\ RowsNamed(b, h, n) = {} THEN W ELSE {}]
             N == Len(Children)
  <1>1. /\ N \in Nat /\ \A c \in 1..N : Children[c] \in Kids
        /\ \A i, j \in 1..N : i # j => Children[i] # Children[j]
    BY PlanAssumption
  <1>2. PlannedIn(h) \in Seq(Entry) /\ IsFiniteSet(W) /\ Cardinality(W) \in Nat
    BY PlannedEntries, HitsIn
  <1>3. Cardinality(W) <= PlannedEnds(h, n) /\ PlannedEnds(h, n) \in Nat
    BY PlannedHits, TokensFinite
  <1>4. ASSUME NEW k \in Kids
        PROVE  /\ FlattenSeq(e(k)) \in Seq(Verbs)
               /\ Cardinality(Hits(FlattenSeq(e(k)), K))
                    <= Cardinality(IF k = h /\ RowsNamed(b, h, n) = {} THEN W ELSE {})
    <2> DEFINE M == Len(PlannedIn(k))
               a == e(k)
               c == t(k)
               I == 1..M
    <2>1. PlannedIn(k) \in Seq(Entry) BY PlannedEntries DEF Homes
    <2>2. M \in Nat /\ \A i \in 1..M : PlannedIn(k)[i] \in Entry BY <2>1
    <2>3. IsFiniteSet(I)
      <3>1. 1 \in Int /\ M \in Int BY <2>2
      <3> HIDE DEF M
      <3> QED BY <3>1, FS_Interval
    <2>4. ASSUME NEW i \in 1..M
          PROVE  /\ a[i] \in Seq(Verbs) /\ c[i] \in SUBSET I
                 /\ Cardinality(Hits(a[i], K)) <= Cardinality(c[i])
      <3> DEFINE d == PlannedIn(k)[i]
      <3>1. d \in Entry BY <2>2
      <3>2. a[i] = EndVerbs(b, k, d) OBVIOUS
      <3>3. c[i] = IF k = h /\ d.label = n /\ RowsNamed(b, h, n) = {} THEN {i} ELSE {} OBVIOUS
      <3> HIDE DEF d, a, c
      <3>4. /\ EndVerbs(b, k, d) \in Seq(Verbs)
            /\ Cardinality(Hits(EndVerbs(b, k, d), Stamps(h, n)))
                 <= IF k = h /\ d.label = n /\ RowsNamed(b, h, n) = {} THEN 1 ELSE 0
        BY <3>1, EndVerbsHits
      <3>5. Cardinality({i}) = 1 /\ Cardinality({}) = 0 BY FS_Singleton, FS_EmptySet
      <3> QED BY <3>2, <3>3, <3>4, <3>5
    <2>5. a = [i \in 1..M |-> a[i]] /\ c = [i \in 1..M |-> c[i]] OBVIOUS
    <2>6. Separate(c, M) BY DEF Separate
    <2>7. Whole(c, M) = IF k = h /\ RowsNamed(b, h, n) = {} THEN W ELSE {}
      <3>1. ASSUME k = h, RowsNamed(b, h, n) = {} PROVE Whole(c, M) = W
        <4>1. \A i \in 1..M : c[i] = IF PlannedIn(h)[i] \in Labelled(n) THEN {i} ELSE {}
          BY <2>2, <3>1 DEF Labelled
        <4>2. W = {i \in 1..M : PlannedIn(h)[i] \in Labelled(n)} BY <3>1 DEF Hits
        <4> HIDE DEF c, W, M
        <4>3. \A x : x \in Whole(c, M) <=> \E i \in 1..M : x \in c[i] BY DEF Whole
        <4> DEFINE G == Labelled(n)
                   q == PlannedIn(h)
        <4>4a. W = {i \in 1..M : q[i] \in G} /\ \A i \in 1..M : c[i] = IF q[i] \in G THEN {i} ELSE {}
          BY <4>1, <4>2
        <4> HIDE DEF G, q
        <4>4b. \A i \in 1..M : \A x : x \in c[i] <=> x = i /\ q[i] \in G BY <4>4a
        <4>4c. ASSUME NEW x PROVE x \in Whole(c, M) <=> x \in W BY <4>3, <4>4a, <4>4b
        <4>4. \A x : x \in Whole(c, M) <=> x \in W BY <4>4c
        <4> QED BY <4>4
      <3>2. ASSUME ~(k = h /\ RowsNamed(b, h, n) = {}) PROVE Whole(c, M) = {} BY <3>2 DEF Whole
      <3> QED BY <3>1, <3>2
    <2> HIDE DEF a, c, M, I, K
    <2>8. a \in [1..M -> Seq(Verbs)] /\ c \in [1..M -> SUBSET I] BY <2>4, <2>5
    <2>9. Paid(a, c, M, K) BY <2>4 DEF Paid
    <2>10. FlattenSeq(a) \in Seq(Verbs) /\ Cardinality(Hits(FlattenSeq(a), K)) <= Cardinality(Whole(c, M))
      BY <2>2, <2>3, <2>6, <2>8, <2>9, FlattenHits
    <2> HIDE DEF W
    <2> QED BY <2>7, <2>10 DEF a
  <1>5. ASSUME NEW c \in 1..N
        PROVE  p[c] \in Seq(Verbs) /\ w[c] \in SUBSET W /\ Cardinality(Hits(p[c], K)) <= Cardinality(w[c])
    <2>1. Children[c] \in Kids /\ p[c] = FlattenSeq(e(Children[c])) BY <1>1
    <2>2. w[c] = IF Children[c] = h /\ RowsNamed(b, h, n) = {} THEN W ELSE {} OBVIOUS
    <2> HIDE DEF p, w, e, W, K
    <2> QED BY <1>4, <2>1, <2>2
  <1>6. Separate(w, N) /\ Whole(w, N) \subseteq IF RowsNamed(b, h, n) = {} THEN W ELSE {}
    <2>1. \A i \in 1..N : w[i] = IF Children[i] = h /\ RowsNamed(b, h, n) = {} THEN W ELSE {}
      OBVIOUS
    <2> HIDE DEF w, W, N
    <2> QED BY <1>1, <2>1 DEF Separate, Whole
  <1>7. p \in [1..N -> Seq(Verbs)] /\ w \in [1..N -> SUBSET W] /\ Paid(p, w, N, K)
    <2>1. p = [c \in 1..N |-> p[c]] /\ w = [c \in 1..N |-> w[c]] OBVIOUS
    <2> HIDE DEF p, w, W, K, N
    <2> QED BY <1>5, <2>1 DEF Paid
  <1>8. PopulationVerbs(b) = FlattenSeq(p) \o Done BY DEF PopulationVerbs
  <1> DEFINE F == FlattenSeq(p)
             Q == Whole(w, N)
             R == IF RowsNamed(b, h, n) = {} THEN W ELSE {}
  <1>9. F \in Seq(Verbs) /\ Cardinality(Hits(F, K)) <= Cardinality(Q)
    <2> HIDE DEF p, w, W, K, N
    <2> QED BY <1>1, <1>2, <1>6, <1>7, FlattenHits
  <1>10. IsFiniteSet(R) /\ Q \subseteq R BY <1>2, <1>6, FS_EmptySet
  <1>11. Cardinality(R) <= IF RowsNamed(b, h, n) = {} THEN PlannedEnds(h, n) ELSE 0
    BY <1>3, FS_EmptySet
  <1> HIDE DEF F, Q, R, K, W, w, N, p
  <1>12. Cardinality(Q) <= Cardinality(R) /\ IsFiniteSet(Q) BY <1>10, FS_Subset
  <1>13. Cardinality(Q) \in Nat /\ Cardinality(R) \in Nat BY <1>10, <1>12, FS_CardinalityType
  <1>14. Cardinality(Hits(F, K)) \in Nat BY <1>9, HitsIn
  <1>15. Done \in Seq(Verbs) /\ Cardinality(Hits(Done, K)) = 0
    <2> DEFINE d == Verb("done", None, None, None, None)
    <2>1. d \in Verbs /\ d \notin K BY DEF Verbs, Verb, Ops, Things, K, Stamps
    <2> HIDE DEF d
    <2>2. Cardinality(Hits(<<d>>, K)) = 0 BY <2>1, OneHit
    <2> QED BY <2>1, <2>2 DEF d, Done
  <1>16. Cardinality(Hits(F \o Done, K)) = Cardinality(Hits(F, K)) + Cardinality(Hits(Done, K))
    BY <1>9, <1>15, HitsConcat
  <1>17. F \o Done \in Seq(Verbs) BY <1>9, <1>15, Appended
  <1>18. Cardinality(Hits(F \o Done, K)) <= IF RowsNamed(b, h, n) = {} THEN PlannedEnds(h, n) ELSE 0
    BY <1>3, <1>9, <1>11, <1>12, <1>13, <1>14, <1>15, <1>16
  <1> QED BY <1>8, <1>17, <1>18 DEF F, K

\* What the link pass mints for one edge: the slots to create, all in the root.
LEMMA LinkVerbsHits ==
  ASSUME NEW b \in Boards, NEW l \in Link, NEW h \in Homes, NEW n \in Names
  PROVE  /\ LinkVerbs(b, l) \in Seq(Verbs)
         /\ Cardinality(Hits(LinkVerbs(b, l), Stamps(h, n)))
              <= (IF h = Root /\ l.label = n /\ Slots(b, l)[1] = Create THEN 1 ELSE 0)
                   + (IF h = Root /\ l.label = n /\ Slots(b, l)[2] = Create THEN 1 ELSE 0)
  <1> DEFINE s == Slots(b, l)
             K == Stamps(h, n)
             m == Verb("mint", Root, l.label, None, None)
             t == Verb("stamp", Root, l.label, None, None)
             w == Verb("wire", Root, l.label, Given(s[1]), Given(s[2]))
             x == Verb("plugA", Root, l.label, Given(s[1]), None)
             y == Verb("plugB", Root, l.label, Given(s[2]), None)
             e == Verb("next", None, None, None, None)
             A == MintIn("mint", Root, l.label)
             M1 == IF s[1] = Create THEN A ELSE << >>
             M2 == IF s[2] = Create THEN A ELSE << >>
             P == PlugRoot(b, l, s)
             J == <<w>>
             E == <<e>>
             T == Verbs
             c1 == IF h = Root /\ l.label = n /\ s[1] = Create THEN 1 ELSE 0
             c2 == IF h = Root /\ l.label = n /\ s[2] = Create THEN 1 ELSE 0
  <1>1. LinkVerbs(b, l) \in Seq(Verbs)
    <2>1. LinkVerbs(b, l) \in Seq(Fit("links", b, b)) BY LinkVerbsSteps DEF Steps
    <2>2. Fit("links", b, b) \subseteq Verbs BY DEF Fit
    <2> DEFINE q == LinkVerbs(b, l)
               S == Fit("links", b, b)
    <2> HIDE DEF q, S
    <2>3. q \in Seq(S) /\ S \subseteq Verbs BY <2>1, <2>2 DEF q, S
    <2>4. q \in Seq(Verbs) BY <2>3
    <2> QED BY <2>4 DEF q
  <1>2. Cardinality(Hits(<< >>, K)) = 0 BY NoneHit
  <1>3. CASE ~LinkWork(b, l)
    <2>1. LinkVerbs(b, l) = << >> BY <1>3 DEF LinkVerbs
    <2> QED BY <1>1, <1>2, <2>1
  <1>4. CASE LinkWork(b, l)
    <2>1. /\ ToSet(s) = {s[1], s[2]} /\ s[1] \in Standing(b) \cup {None, Create} /\ s[2] \in Standing(b) \cup {None, Create}
      BY SlotsIn
    <2>2. /\ LinkVerbs(b, l) = MintRoot(l, s) \o J \o P \o E
      BY <1>4 DEF LinkVerbs, WireVerb, NextLink
    <2>3. MintRoot(l, s) = M1 \o M2
      <3>1. s[1] \in Dpnis \cup {None, Create} /\ A = <<m, t>> BY <2>1 DEF Standing, MintIn
      <3> HIDE DEF s, A
      <3>2. MintRoot(l, s) = (IF s[1] = Create THEN <<m, t>> ELSE << >>) \o (IF s[2] = Create THEN <<m, t>> ELSE << >>)
        BY <3>1, MintRootIs
      <3> QED BY <3>1, <3>2
    <2>4. P \in {<< >>, <<x>>, <<y>>, <<x, y>>}
      <3> HIDE DEF s
      <3> QED BY PlugRootIs
    <2>5. Given(s[1]) \in Things /\ Given(s[2]) \in Things /\ None \in Things /\ l.label \in Names /\ Root \in Homes
      BY <2>1 DEF Given, Things, Standing, Objs, Link, Homes
    <2>6. m \in T /\ t \in T /\ w \in T /\ x \in T /\ y \in T /\ e \in T
      BY <2>5 DEF Verbs, Verb, Ops
    <2>7. w \notin K /\ x \notin K /\ y \notin K /\ e \notin K BY DEF Stamps, Verb
    <2>8. A \in Seq(T) BY <2>6 DEF MintIn
    <2>9. Cardinality(Hits(A, K)) <= IF h = Root /\ l.label = n THEN 1 ELSE 0 BY MintInHits
    <2> HIDE DEF m, t, w, x, y, e, A, P, K, T, s
    <2>10. Cardinality(Hits(J, K)) = 0 /\ Cardinality(Hits(E, K)) = 0 /\ J \in Seq(T) /\ E \in Seq(T)
      BY <2>6, <2>7, OneHit
    <2>11. P \in Seq(T) /\ Cardinality(Hits(P, K)) = 0
      <3>1. Cardinality(Hits(<<x>>, K)) = 0 /\ Cardinality(Hits(<<y>>, K)) = 0 BY <2>7, OneHit
      <3>2. Cardinality(Hits(<<x, y>>, K)) = 0
        <4> DEFINE q == <<x, y>>
        <4>1. Len(q) = 2 /\ q[1] = x /\ q[2] = y /\ \A i \in 1..2 : i = 1 \/ i = 2 OBVIOUS
        <4> HIDE DEF q
        <4>2. \A i \in 1..Len(q) : q[i] \notin K BY <2>7, <4>1
        <4>3. Cardinality(Hits(q, K)) = 0 BY <4>2, NoHits
        <4> QED BY <4>3 DEF q
      <3>3. << >> \in Seq(T) /\ <<x>> \in Seq(T) /\ <<y>> \in Seq(T) /\ <<x, y>> \in Seq(T) BY <2>6
      <3> QED BY <1>2, <2>4, <3>1, <3>2, <3>3
    <2> HIDE DEF J, E
    <2>12. /\ M1 \in Seq(T) /\ Cardinality(Hits(M1, K)) <= c1
           /\ M2 \in Seq(T) /\ Cardinality(Hits(M2, K)) <= c2
      BY <1>2, <2>8, <2>9
    <2> HIDE DEF M1, M2
    <2> DEFINE M == M1 \o M2
               MJ == M \o J
               MP == MJ \o P
    <2>13. M \in Seq(T) /\ Cardinality(Hits(M, K)) = Cardinality(Hits(M1, K)) + Cardinality(Hits(M2, K))
      BY <2>12, HitsConcat, Appended
    <2> HIDE DEF M
    <2>14. MJ \in Seq(T) /\ Cardinality(Hits(MJ, K)) = Cardinality(Hits(M, K)) + Cardinality(Hits(J, K))
      BY <2>10, <2>13, HitsConcat, Appended
    <2> HIDE DEF MJ
    <2>15. MP \in Seq(T) /\ Cardinality(Hits(MP, K)) = Cardinality(Hits(MJ, K)) + Cardinality(Hits(P, K))
      BY <2>11, <2>14, HitsConcat, Appended
    <2> HIDE DEF MP
    <2>16. Cardinality(Hits(MP \o E, K)) = Cardinality(Hits(MP, K)) + Cardinality(Hits(E, K))
      BY <2>10, <2>15, HitsConcat
    <2>17. LinkVerbs(b, l) = MP \o E BY <2>2, <2>3 DEF M, MJ, MP
    <2>18. Cardinality(Hits(M1, K)) \in Nat BY <2>12, HitsIn
    <2>19. Cardinality(Hits(M2, K)) \in Nat BY <2>12, HitsIn
    <2>20. c1 \in Nat /\ c2 \in Nat OBVIOUS
    <2> DEFINE g == Cardinality(Hits(LinkVerbs(b, l), K))
    <2>21. g = Cardinality(Hits(M1, K)) + Cardinality(Hits(M2, K))
      BY <2>10, <2>11, <2>13, <2>14, <2>15, <2>16, <2>17, <2>18, <2>19
    <2> HIDE DEF g, c1, c2
    <2>22. g <= c1 + c2 BY <2>12, <2>18, <2>19, <2>20, <2>21
    <2> QED BY <1>1, <2>22 DEF g, c1, c2, K, s
  <1> QED BY <1>3, <1>4

\* The root ends of a link are created where no row, or the second of two, is missing.
LEMMA SlotsCreated ==
  ASSUME NEW b \in Boards, NEW l \in Link
  PROVE  LET rows == RowsNamed(b, Root, l.label)
         IN /\ Slots(b, l)[1] = Create => l.a = Root /\ rows = {}
            /\ Slots(b, l)[2] = Create => l.b = Root /\ (rows = {} \/ (l.a = Root /\ Cardinality(rows) = 1))
  <1> DEFINE rows == RowsNamed(b, l.a, l.label)
             slot(h) == IF Row(b, h, l.label) = None /\ h = Root THEN Create ELSE Row(b, h, l.label)
             low == Lowest(rows \ {Lowest(rows)})
  <1>1. l.a \in Homes /\ l.b \in Homes /\ l.label \in Names /\ Root \in Homes BY DEF Link, Homes
  <1>2. \A h \in Homes : Row(b, h, l.label) # Create
    <2> SUFFICES ASSUME NEW h \in Homes PROVE Row(b, h, l.label) # Create OBVIOUS
    <2>1. Row(b, h, l.label) \in Standing(b) \cup {None} BY <1>1, RowIn
    <2> QED BY <2>1, NoneApart DEF Standing
  <1>3. \A h \in Homes : slot(h) = Create => h = Root /\ RowsNamed(b, Root, l.label) = {}
    <2> SUFFICES ASSUME NEW h \in Homes, slot(h) = Create PROVE h = Root /\ RowsNamed(b, Root, l.label) = {}
      OBVIOUS
    <2>1. h = Root /\ Row(b, Root, l.label) = None BY <1>2
    <2>2. RowsNamed(b, Root, l.label) # {} => Row(b, Root, l.label) \in RowsNamed(b, Root, l.label)
      BY <1>1, RowIn
    <2> QED BY <2>1, <2>2, NoneApart DEF RowsNamed
  <1>4. rows \subseteq Dpnis /\ rows \subseteq Nat BY <1>1, RowIn DEF Standing
  <1>5. rows # {} => Lowest(rows) # Create
    <2> HIDE DEF rows
    <2>1. rows # {} => Lowest(rows) \in rows BY <1>4, LowestIn
    <2> QED BY <1>4, <2>1, NoneApart
  <1>6. rows # {} /\ Cardinality(rows) # 1 => low # Create
    <2> SUFFICES ASSUME rows # {}, Cardinality(rows) # 1 PROVE low # Create OBVIOUS
    <2> DEFINE r == rows \ {Lowest(rows)}
    <2>1. r # {}
      <3> SUFFICES ASSUME rows = {Lowest(rows)} PROVE FALSE OBVIOUS
      <3> HIDE DEF rows
      <3> QED BY FS_Singleton
    <2>2. r \subseteq Nat /\ r \subseteq Dpnis BY <1>4
    <2> HIDE DEF r
    <2>3. Lowest(r) \in r BY <2>1, <2>2, LowestIn
    <2> QED BY <2>2, <2>3, NoneApart DEF r
  <1>7. Slots(b, l) =
          IF l.a # l.b THEN <<slot(l.a), slot(l.b)>>
          ELSE IF rows = {} THEN <<slot(l.a), slot(l.a)>>
          ELSE IF Cardinality(rows) = 1 THEN <<Lowest(rows), IF l.a = Root THEN Create ELSE None>>
          ELSE <<Lowest(rows), low>>
    BY DEF Slots
  <1> DEFINE sl == Slots(b, l)
  <1>8. l.a # l.b => sl[1] = slot(l.a) /\ sl[2] = slot(l.b) BY <1>7
  <1>9. l.a = l.b /\ rows = {} => sl[1] = slot(l.a) /\ sl[2] = slot(l.a) BY <1>7
  <1>10. l.a = l.b /\ rows # {} /\ Cardinality(rows) = 1 =>
           sl[1] = Lowest(rows) /\ sl[2] = IF l.a = Root THEN Create ELSE None
    BY <1>7
  <1>11. l.a = l.b /\ rows # {} /\ Cardinality(rows) # 1 => sl[1] = Lowest(rows) /\ sl[2] = low
    BY <1>7
  <1> HIDE DEF sl, slot, low
  <1>12. CASE l.a # l.b BY <1>1, <1>3, <1>8, <1>12 DEF sl
  <1>13. CASE l.a = l.b /\ rows = {} BY <1>1, <1>3, <1>9, <1>13 DEF sl
  <1>14. CASE l.a = l.b /\ rows # {} /\ Cardinality(rows) = 1
    BY <1>5, <1>10, <1>14, NoneApart DEF sl
  <1>15. CASE l.a = l.b /\ rows # {} /\ Cardinality(rows) # 1 BY <1>5, <1>6, <1>11, <1>15 DEF sl
  <1> QED BY <1>12, <1>13, <1>14, <1>15

\* The link pass creates no more ends than are declared beside the rows that stand.
LEMMA LinksHits ==
  ASSUME NEW b \in Boards, links \in Intents, NEW h \in Homes, NEW n \in Names
  PROVE  LET k == Cardinality(Hits(LinksVerbs(b), Stamps(h, n)))
         IN /\ LinksVerbs(b) \in Seq(Verbs)
            /\ k # 0 => h = Root /\ Cardinality(RowsNamed(b, h, n)) + k <= PlannedEnds(h, n)
  <1> DEFINE K == Stamps(h, n)
             N == Len(links)
             rows == RowsNamed(b, Root, n)
             s(i) == Slots(b, links[i])
             ta(i) == IF h = Root /\ links[i].label = n /\ s(i)[1] = Create THEN {<<i, "a">>} ELSE {}
             tb(i) == IF h = Root /\ links[i].label = n /\ s(i)[2] = Create THEN {<<i, "b">>} ELSE {}
             p == [i \in 1..N |-> LinkVerbs(b, links[i])]
             w == [i \in 1..N |-> ta(i) \cup tb(i)]
             W == LinkTokens(h, n)
             Q == Whole(w, N)
             F == FlattenSeq(p)
  <1>1. N \in Nat /\ DOMAIN links = 1..N BY LinksIn
  <1>2. \A i \in 1..N : /\ links[i] \in Link
                        /\ links[i]["a"] = links[i].a /\ links[i]["b"] = links[i].b
    <2>1. links \in Seq(Link) BY PlanAssumption
    <2> QED BY <2>1, LinksIn
  <1>3. IsFiniteSet(W) /\ Cardinality(W) \in Nat /\ Cardinality(W) <= PlannedEnds(h, n) /\ PlannedEnds(h, n) \in Nat
    BY TokensFinite DEF PlannedEnds
  <1>4. IsFiniteSet(rows) /\ Cardinality(rows) \in Nat BY RowIn, FS_CardinalityType DEF Homes
  <1>5. ASSUME NEW i \in 1..N
        PROVE  /\ p[i] \in Seq(Verbs) /\ w[i] \in SUBSET W
               /\ Cardinality(Hits(p[i], K)) <= Cardinality(w[i])
               /\ <<i, "a">> \in w[i] => rows = {}
               /\ <<i, "b">> \in w[i] => rows = {} \/ (Cardinality(rows) = 1 /\ <<i, "a">> \in W)
    <2> DEFINE l == links[i]
    <2>1. l \in Link /\ l["a"] = l.a /\ l["b"] = l.b BY <1>2
    <2>2. p[i] = LinkVerbs(b, l) /\ w[i] = ta(i) \cup tb(i) OBVIOUS
    <2>3. /\ LinkVerbs(b, l) \in Seq(Verbs)
          /\ Cardinality(Hits(LinkVerbs(b, l), K))
               <= (IF h = Root /\ l.label = n /\ Slots(b, l)[1] = Create THEN 1 ELSE 0)
                    + (IF h = Root /\ l.label = n /\ Slots(b, l)[2] = Create THEN 1 ELSE 0)
      BY <2>1, LinkVerbsHits
    <2>4. l.label = n =>
            /\ Slots(b, l)[1] = Create => l.a = Root /\ rows = {}
            /\ Slots(b, l)[2] = Create => l.b = Root /\ (rows = {} \/ (l.a = Root /\ Cardinality(rows) = 1))
      BY <2>1, SlotsCreated
    <2>5. <<i, "a">> \in W <=> l.label = n /\ l.a = h BY <1>1, <2>1 DEF LinkTokens
    <2>6. <<i, "b">> \in W <=> l.label = n /\ l.b = h BY <1>1, <2>1 DEF LinkTokens
    <2>7. ta(i) \subseteq W /\ tb(i) \subseteq W BY <2>4, <2>5, <2>6
    <2>8. Cardinality(ta(i) \cup tb(i)) =
               (IF h = Root /\ l.label = n /\ Slots(b, l)[1] = Create THEN 1 ELSE 0)
                 + (IF h = Root /\ l.label = n /\ Slots(b, l)[2] = Create THEN 1 ELSE 0)
      <3> DEFINE A == {<<i, "a">>}
                 B == {<<i, "b">>}
                 c == h = Root /\ l.label = n /\ Slots(b, l)[1] = Create
                 d == h = Root /\ l.label = n /\ Slots(b, l)[2] = Create
      <3>1. A \cap B = {} OBVIOUS
      <3>2. IsFiniteSet(A) /\ Cardinality(A) = 1 /\ IsFiniteSet(B) /\ Cardinality(B) = 1
        BY FS_Singleton
      <3>3. ta(i) = (IF c THEN A ELSE {}) /\ tb(i) = (IF d THEN B ELSE {}) OBVIOUS
      <3> HIDE DEF A, B, c, d, ta, tb
      <3>4. Cardinality(A \cup B) = 2
        <4>1. Cardinality(A \cup B) = Cardinality(A) + Cardinality(B) - Cardinality(A \cap B)
          BY <3>2, FS_Union
        <4>2. Cardinality(A \cap B) = 0 BY <3>1, FS_EmptySet
        <4> QED BY <3>2, <4>1, <4>2
      <3>5. Cardinality({}) = 0 /\ A \cup {} = A /\ {} \cup B = B /\ {} \cup {} = {} BY FS_EmptySet
      <3>6. Cardinality(ta(i) \cup tb(i)) = (IF c THEN 1 ELSE 0) + (IF d THEN 1 ELSE 0)
        <4>1. CASE c /\ d BY <3>3, <3>4, <4>1
        <4>2. CASE c /\ ~d BY <3>2, <3>3, <3>5, <4>2
        <4>3. CASE ~c /\ d BY <3>2, <3>3, <3>5, <4>3
        <4>4. CASE ~c /\ ~d BY <3>3, <3>5, <4>4
        <4> QED BY <4>1, <4>2, <4>3, <4>4
      <3> QED BY <3>6 DEF c, d
    <2>9. /\ <<i, "a">> \in ta(i) \cup tb(i) => h = Root /\ l.label = n /\ Slots(b, l)[1] = Create
          /\ <<i, "b">> \in ta(i) \cup tb(i) => h = Root /\ l.label = n /\ Slots(b, l)[2] = Create
      OBVIOUS
    <2> HIDE DEF p, w, l, W, K, rows, ta, tb
    <2> QED BY <2>2, <2>3, <2>4, <2>5, <2>7, <2>8, <2>9
  <1>6. Separate(w, N) BY DEF Separate
  <1>7. p = [i \in 1..N |-> p[i]] /\ w = [i \in 1..N |-> w[i]] OBVIOUS
  <1>8. \A i \in 1..N : \A x \in w[i] : x = <<i, "a">> \/ x = <<i, "b">> OBVIOUS
  <1>9. LinksVerbs(b) = F \o Done BY DEF LinksVerbs
  <1>10. h # Root => \A i \in 1..N : w[i] = {} OBVIOUS
  <1> HIDE DEF p, w, W, K, N, rows
  <1>11. p \in [1..N -> Seq(Verbs)] /\ w \in [1..N -> SUBSET W] /\ Paid(p, w, N, K)
    BY <1>5, <1>7 DEF Paid
  <1>12. F \in Seq(Verbs) /\ Cardinality(Hits(F, K)) <= Cardinality(Q)
    BY <1>1, <1>3, <1>6, <1>11, FlattenHits
  <1>13. Q \subseteq W BY <1>11 DEF Whole
  <1>14. Q # {} => h = Root /\ (rows = {} \/ (Cardinality(rows) = 1 /\ \E x \in W : x \notin Q))
    <2> SUFFICES ASSUME NEW x \in Q, rows # {}
                 PROVE  h = Root /\ Cardinality(rows) = 1 /\ \E y \in W : y \notin Q
      BY <1>10 DEF Whole
    <2>1. PICK i \in 1..N : x \in w[i] BY DEF Whole
    <2>2. x = <<i, "b">> /\ Cardinality(rows) = 1 /\ <<i, "a">> \in W BY <1>5, <1>8, <2>1
    <2>3. <<i, "a">> \notin Q
      <3> SUFFICES ASSUME <<i, "a">> \in Q PROVE FALSE OBVIOUS
      <3>1. PICK j \in 1..N : <<i, "a">> \in w[j] BY DEF Whole
      <3>2. <<i, "a">> = <<j, "a">> \/ <<i, "a">> = <<j, "b">> BY <1>8, <3>1
      <3>3. i = j BY <3>2
      <3> QED BY <1>5, <3>1, <3>3
    <2> QED BY <1>10, <2>1, <2>2, <2>3
  <1>15. /\ h = Root => RowsNamed(b, h, n) = rows BY DEF rows
  <1> HIDE DEF F, Q
  <1>16. IsFiniteSet(Q) /\ Cardinality(Q) <= Cardinality(W) /\ (Cardinality(W) = Cardinality(Q) => W = Q)
    BY <1>3, <1>13, FS_Subset
  <1>17. Cardinality(Q) \in Nat /\ (Cardinality(Q) = 0 <=> Q = {})
    BY <1>16, FS_CardinalityType, FS_EmptySet
  <1>18. Cardinality(Hits(F, K)) \in Nat BY <1>12, HitsIn
  <1>19. Done \in Seq(Verbs) /\ Cardinality(Hits(Done, K)) = 0
    <2> DEFINE d == Verb("done", None, None, None, None)
    <2>1. d \in Verbs /\ d \notin K BY DEF Verbs, Verb, Ops, Things, K, Stamps
    <2> HIDE DEF d
    <2>2. Cardinality(Hits(<<d>>, K)) = 0 BY <2>1, OneHit
    <2> QED BY <2>1, <2>2 DEF d, Done
  <1>20. Cardinality(Hits(F \o Done, K)) = Cardinality(Hits(F, K)) + Cardinality(Hits(Done, K))
    BY <1>12, <1>19, HitsConcat
  <1>21. F \o Done \in Seq(Verbs) BY <1>12, <1>19, Appended
  <1> DEFINE k == Cardinality(Hits(F \o Done, K))
  <1>22. k \in Nat /\ k <= Cardinality(Q) BY <1>12, <1>17, <1>18, <1>19, <1>20
  <1> HIDE DEF k
  <1>23. Cardinality({}) = 0 BY FS_EmptySet
  <1>24. k # 0 => h = Root /\ Cardinality(rows) + k <= PlannedEnds(h, n)
    <2> SUFFICES ASSUME k # 0 PROVE h = Root /\ Cardinality(rows) + k <= PlannedEnds(h, n) OBVIOUS
    <2>1. Q # {} BY <1>17, <1>22
    <2>2. CASE rows = {} BY <1>3, <1>14, <1>16, <1>17, <1>22, <1>23, <2>1, <2>2
    <2>3. CASE rows # {}
      <3>1. h = Root /\ Cardinality(rows) = 1 /\ Cardinality(Q) # Cardinality(W)
        BY <1>14, <1>16, <2>1, <2>3
      <3> QED BY <1>3, <1>16, <1>17, <1>22, <3>1
    <2> QED BY <2>2, <2>3
  <1> QED BY <1>9, <1>15, <1>21, <1>24 DEF k, K

-----------------------------------------------------------------------------
(* What a phase that is not disruptive owes: edges of what stands. *)

Mild == {v \in Verbs : v.op \in {"join", "next", "done"} /\ (v.op = "join" => v.a # None)}

LEMMA DoneMild == Done \in Seq(Mild)
  <1> DEFINE d == Verb("done", None, None, None, None)
  <1>1. d \in Mild BY DEF Mild, Verbs, Verb, Ops, Things
  <1> HIDE DEF d
  <1>2. <<d>> \in Seq(Mild) BY <1>1
  <1> QED BY <1>2 DEF d, Done

LEMMA PopulationMild ==
  ASSUME NEW b \in Boards, links \in Intents, ~PopulationDisruptive(b)
  PROVE  PopulationVerbs(b) \in Seq(Mild)
  <1> DEFINE S == Seq(Mild)
             e(k) == [i \in 1..Len(PlannedIn(k)) |-> EndVerbs(b, k, PlannedIn(k)[i])]
             p == [c \in 1..Len(Children) |-> FlattenSeq(e(Children[c]))]
  <1>1. << >> \in S /\ \A s, t \in S : s \o t \in S BY SeqsClosed
  <1>2. Len(Children) \in Nat /\ \A c \in 1..Len(Children) : Children[c] \in Kids BY PlanAssumption
  <1>3. ASSUME NEW k \in Kids, NEW d \in Entry, Row(b, k, d.label) # None
        PROVE  EndVerbs(b, k, d) \in S
    <2> DEFINE row == Row(b, k, d.label)
               peer == PeerOf(b, d)
               w == Verb("join", k, d.label, row, peer)
               n == Verb("next", None, None, None, None)
               B == IF peer # None /\ (row = None \/ b.wire[row] # peer) THEN <<w>> ELSE << >>
    <2>1. k \in Homes /\ d.label \in Names /\ (d.peer = None \/ d.peer \in Homes)
      BY DEF Homes, Entry
    <2>2. row \in Standing(b) \cup {None} /\ peer \in Standing(b) \cup {None}
      BY <2>1, RowIn DEF PeerOf
    <2>3. row \in Things /\ peer \in Things /\ None \in Things BY <2>2 DEF Things, Standing, Objs
    <2>4. w \in Mild
      <3>1. w.op = "join" /\ w.a = row /\ w \in Verbs BY <2>1, <2>3 DEF Verb, Verbs, Ops
      <3> QED BY <1>3, <3>1 DEF Mild
    <2>5. n \in Mild BY <2>3 DEF Verb, Verbs, Ops, Mild
    <2>6. EndVerbs(b, k, d) = << >> \o B \o <<n>> BY <1>3 DEF EndVerbs
    <2> HIDE DEF w, n, row, peer
    <2>7. B \in S /\ <<n>> \in S BY <2>4, <2>5
    <2> HIDE DEF B, S
    <2> QED BY <1>1, <2>6, <2>7
  <1>4. ASSUME NEW k \in Kids PROVE FlattenSeq(e(k)) \in S
    <2> DEFINE M == Len(PlannedIn(k))
    <2>1. PlannedIn(k) \in Seq(Entry) BY PlannedEntries DEF Homes
    <2>2. M \in Nat /\ \A i \in 1..M : PlannedIn(k)[i] \in Entry /\ PlannedIn(k)[i] \in ToSet(PlannedIn(k))
      BY <2>1 DEF ToSet
    <2>3. \A i \in 1..M : Row(b, k, PlannedIn(k)[i].label) # None BY <2>2 DEF PopulationDisruptive
    <2>4. \A i \in 1..M : e(k)[i] \in S
      <3> TAKE i \in 1..M
      <3> DEFINE d == PlannedIn(k)[i]
      <3>1. d \in Entry /\ Row(b, k, d.label) # None /\ e(k)[i] = EndVerbs(b, k, d) BY <2>2, <2>3
      <3> HIDE DEF d, e, S
      <3> QED BY <1>3, <3>1
    <2>5. e(k) = [i \in 1..M |-> e(k)[i]] OBVIOUS
    <2> HIDE DEF e, S, M
    <2>6. e(k) \in [1..M -> S] BY <2>4, <2>5
    <2> QED BY <1>1, <2>2, <2>6, FlattenIn
  <1>5. p \in [1..Len(Children) -> S] BY <1>2, <1>4
  <1>6. PopulationVerbs(b) = FlattenSeq(p) \o Done BY DEF PopulationVerbs
  <1> HIDE DEF p, S
  <1>7. FlattenSeq(p) \in S BY <1>1, <1>2, <1>5, FlattenIn
  <1>8. Done \in S BY DoneMild DEF S
  <1> QED BY <1>1, <1>6, <1>7, <1>8 DEF S

LEMMA LinksMild ==
  ASSUME NEW b, links \in Intents, ~LinksDisruptive(b)
  PROVE  LinksVerbs(b) \in Seq(Mild)
  <1> DEFINE S == Seq(Mild)
             p == [i \in 1..Len(links) |-> LinkVerbs(b, links[i])]
  <1>1. << >> \in S /\ \A s, t \in S : s \o t \in S BY SeqsClosed
  <1>2. Len(links) \in Nat /\ DOMAIN links = 1..Len(links) BY LinksIn
  <1>3. \A i \in 1..Len(links) : LinkVerbs(b, links[i]) = << >>
    BY <1>2 DEF LinksDisruptive, LinkVerbs
  <1>4. p \in [1..Len(links) -> S] BY <1>1, <1>3
  <1>5. LinksVerbs(b) = FlattenSeq(p) \o Done BY DEF LinksVerbs
  <1> HIDE DEF p, S
  <1>6. FlattenSeq(p) \in S BY <1>1, <1>2, <1>4, FlattenIn
  <1>7. Done \in S BY DoneMild DEF S
  <1> QED BY <1>1, <1>5, <1>6, <1>7 DEF S

LEMMA SwitchesMild ==
  ASSUME NEW b, ~SwitchDisruptive(b)
  PROVE  SwitchVerbs(b) \in Seq(Mild)
  <1> DEFINE S == Seq(Mild)
             p == [i \in 1..Len(Domains) |-> DomainVerbs(b, i)]
  <1>1. << >> \in S /\ \A s, t \in S : s \o t \in S BY SeqsClosed
  <1>2. Len(Domains) \in Nat /\ DOMAIN Domains = 1..Len(Domains) BY DomainsIn
  <1>3. \A i \in 1..Len(Domains) : DomainVerbs(b, i) = << >> BY <1>2 DEF SwitchDisruptive
  <1>4. p \in [1..Len(Domains) -> S] BY <1>1, <1>3
  <1>5. SwitchVerbs(b) = FlattenSeq(p) \o Done BY DEF SwitchVerbs
  <1> HIDE DEF p, S
  <1>6. FlattenSeq(p) \in S BY <1>1, <1>2, <1>4, FlattenIn
  <1>7. Done \in S BY DoneMild DEF S
  <1> QED BY <1>1, <1>5, <1>6, <1>7 DEF S

-----------------------------------------------------------------------------
(* The head of the queue is dispatched. *)

LEMMA TailOf ==
  ASSUME NEW ph, NEW b, NEW b0, NEW c, NEW q \in Seq(Fit(ph, b, b0)), Linked(ph, q), q # << >>,
         q[Len(q)].op = "done", q[1].op # "done", Standing(b) \subseteq Standing(c)
  PROVE  /\ Tail(q) # << >> /\ Tail(q) \in Seq(Fit(ph, c, b0)) /\ Linked(ph, Tail(q))
         /\ Tail(q)[Len(Tail(q))].op = "done" /\ Head(q) = q[1]
         /\ q[1] \in Fit(ph, b, b0) /\ Tail(q)[1] \in Fit(ph, c, b0) /\ Follows(ph, q[1], Tail(q)[1])
         /\ Len(Tail(q)) > 1 => /\ Follows(ph, Tail(q)[1], Tail(q)[2])
                                /\ Follows3(q[1], Tail(q)[1], Tail(q)[2])
         /\ \A i \in 1..Len(Tail(q)) : i + 1 \in 1..Len(q) /\ Tail(q)[i] = q[i+1]
  <1> DEFINE T == Fit(ph, b, b0)
             U == Fit(ph, c, b0)
             t == Tail(q)
             n == Len(q)
  <1>1. T \subseteq U
    <2> SUFFICES ASSUME NEW v \in T PROVE v \in U OBVIOUS
    <2>1. v \in Verbs /\ Fits(ph, b, b0, v) BY DEF Fit
    <2>2. Fits(ph, c, b0, v) BY <2>1 DEF Fits
    <2> QED BY <2>1, <2>2 DEF Fit
  <1> HIDE DEF T, U
  <1>2. q \in Seq(T) /\ n \in Nat /\ n # 0 /\ \A i \in 1..n : q[i] \in T BY DEF T
  <1>3. n # 1 BY <1>2
  <1>4. t \in Seq(T) /\ Len(t) = n - 1 /\ \A i \in 1..(n - 1) : t[i] = q[i+1] BY <1>2, <1>3
  <1>5. \A i \in 1..(n - 1) : Follows(ph, q[i], q[i+1]) BY DEF Linked
  <1>6. \A i \in 1..(n - 2) : Follows3(q[i], q[i+1], q[i+2]) BY DEF Linked
  <1>7. Head(q) = q[1] BY <1>2
  <1>8. q[n].op = "done" OBVIOUS
  <1> HIDE DEF n, t
  <1>9. t # << >> /\ t \in Seq(U) BY <1>1, <1>2, <1>3, <1>4
  <1>10. \A i \in 1..(Len(t) - 1) : Follows(ph, t[i], t[i+1])
    <2> TAKE i \in 1..(Len(t) - 1)
    <2>1. i + 1 \in 1..(n - 1) /\ t[i] = q[i+1] /\ t[i+1] = q[(i+1)+1] BY <1>2, <1>3, <1>4
    <2> QED BY <1>5, <2>1
  <1>11. \A i \in 1..(Len(t) - 2) : Follows3(t[i], t[i+1], t[i+2])
    <2> TAKE i \in 1..(Len(t) - 2)
    <2>1. i + 1 \in 1..(n - 2) /\ t[i] = q[i+1] /\ t[i+1] = q[(i+1)+1] /\ t[i+2] = q[(i+1)+2]
      BY <1>2, <1>3, <1>4, SMTT(30)
    <2> QED BY <1>6, <2>1
  <1>12. Linked(ph, t) BY <1>10, <1>11 DEF Linked
  <1>13. t[Len(t)].op = "done"
    <2>1. Len(t) \in 1..(n - 1) /\ t[Len(t)] = q[n] BY <1>2, <1>3, <1>4
    <2> QED BY <1>8, <2>1
  <1>14. q[1] \in T /\ t[1] \in U /\ Follows(ph, q[1], t[1])
    <2>1. 1 \in 1..(n - 1) /\ t[1] = q[1+1] /\ t[1] \in T /\ q[1] \in T BY <1>2, <1>3, <1>4
    <2> QED BY <1>1, <1>5, <2>1
  <1>15. Len(t) > 1 => Follows(ph, t[1], t[2]) /\ Follows3(q[1], t[1], t[2])
    <2> SUFFICES ASSUME Len(t) > 1 PROVE Follows(ph, t[1], t[2]) /\ Follows3(q[1], t[1], t[2])
      OBVIOUS
    <2>1. 1 \in 1..(n - 2) /\ 1 \in 1..(Len(t) - 1) /\ t[1] = q[1+1] /\ t[2] = q[1+2] /\ t[2] = t[1+1]
      BY <1>2, <1>3, <1>4
    <2> QED BY <1>6, <1>10, <2>1
  <1>16. \A i \in 1..Len(t) : i + 1 \in 1..Len(q) /\ t[i] = q[i+1] BY <1>2, <1>3, <1>4 DEF n
  <1> QED BY <1>7, <1>9, <1>12, <1>13, <1>14, <1>15, <1>16 DEF t, T, U

\* What is pending can be counted, and the head counts for its own.
LEMMA PendIn ==
  ASSUME QueueInv
  PROVE  \A h \in Homes, n \in Names :
           /\ IsFiniteSet(Pend(h, n)) /\ Cardinality(Pend(h, n)) \in Nat
           /\ Cardinality(Pend(h, n)) = 0 <=> Pend(h, n) = {}
  <1> TAKE h \in Homes, n \in Names
  <1>1. IsFiniteSet(Pend(h, n))
    <2>1. CASE queue = << >>
      <3>1. Pend(h, n) = {}
        <4>1. Len(queue) = 0 BY <2>1
        <4>2. Hits(queue, Stamps(h, n)) = {} BY <4>1 DEF Hits
        <4> QED BY <4>2 DEF Pend
      <3> QED BY <3>1, FS_EmptySet
    <2>2. CASE queue # << >>
      <3>1. queue \in Seq(Fit(pc, board, before)) BY <2>2 DEF QueueInv
      <3>2. IsFiniteSet(Hits(queue, Stamps(h, n))) BY <3>1, HitsIn
      <3> QED BY <3>2, FS_EmptySet DEF Pend
    <2> QED BY <2>1, <2>2
  <1> QED BY <1>1, FS_CardinalityType, FS_EmptySet

\* The same of the next state.
LEMMA PendNext ==
  ASSUME queue' # << >> => queue' \in Seq(Fit(pc', board', before'))
  PROVE  \A h \in Homes, n \in Names :
           /\ IsFiniteSet(Pend(h, n)') /\ Cardinality(Pend(h, n)') \in Nat
           /\ Cardinality(Pend(h, n)') = 0 <=> Pend(h, n)' = {}
  <1> TAKE h \in Homes, n \in Names
  <1>1. IsFiniteSet(Pend(h, n)')
    <2>1. CASE queue' = << >>
      <3>1. Pend(h, n)' = {}
        <4>1. Len(queue') = 0 BY <2>1
        <4>2. Hits(queue', Stamps(h, n)) = {} BY <4>1 DEF Hits
        <4> QED BY <4>2 DEF Pend
      <3> QED BY <3>1, FS_EmptySet
    <2>2. CASE queue' # << >>
      <3>1. queue' \in Seq(Fit(pc', board', before')) BY <2>2
      <3>2. IsFiniteSet(Hits(queue', Stamps(h, n))) BY <3>1, HitsIn
      <3> QED BY <3>2, FS_EmptySet DEF Pend
    <2> QED BY <2>1, <2>2
  <1> QED BY <1>1, FS_CardinalityType, FS_EmptySet

\* What a verb finds, and what it leaves of the queue.
Kept(h, n) == Cardinality(Pend(h, n))
Left == Standing(board) \subseteq Standing(board')

LEMMA Found ==
  ASSUME Inv, queue # << >>
  PROVE  /\ pc \in Phases /\ pc # "idle" /\ pc # "unwind" /\ Head(queue) = queue[1] /\ queue[1] \in Verbs
         /\ Fits(pc, board, before, queue[1])
         /\ Ready(board, before, hand, ToSet(journal), queue[1])
         /\ board \in Boards /\ Consistent(board) /\ before \in Boards /\ Consistent(before)
         /\ links \in Intents /\ hand \in Seq(Objs) /\ journal \in Seq(Record1) /\ made \subseteq Objs
         /\ opts \in choices /\ opts \in Options
         /\ opts.allow < 2 => /\ queue[1].op \in {"join", "next", "done"}
                              /\ queue[1].op = "join" => queue[1].a # None
  <1>1. pc \in Phases /\ queue \in Seq(Fit(pc, board, before)) /\ Ready(board, before, hand, ToSet(journal), queue[1])
    BY DEF Inv, QueueInv
  <1>2. pc # "idle" /\ pc # "unwind" BY <1>1 DEF Phases
  <1>3. 1 \in 1..Len(queue) /\ Head(queue) = queue[1] /\ queue[1] \in Fit(pc, board, before) BY <1>1
  <1>4. opts \in choices /\ choices \subseteq Options BY <1>2 DEF Inv, TypeOK, IdleInv
  <1>5. opts.allow < 2 => /\ queue[1].op \in {"join", "next", "done"}
                          /\ queue[1].op = "join" => queue[1].a # None
    BY <1>2, <1>3 DEF Inv, GateInv
  <1>6. board \in Boards /\ Consistent(board) /\ before \in Boards /\ Consistent(before)
    BY DEF Inv, TypeOK
  <1>7. links \in Intents /\ hand \in Seq(Objs) /\ journal \in Seq(Record1) /\ made \subseteq Objs
    BY DEF Inv, TypeOK, Shapes
  <1> QED BY <1>1, <1>2, <1>3, <1>4, <1>5, <1>6, <1>7 DEF Fit

LEMMA Advanced ==
  ASSUME Inv, queue # << >>, queue[1].op # "done", Advance, Left
  PROVE  /\ queue' # << >> /\ pc' = pc /\ before' = before /\ opts' = opts
         /\ queue' \in Seq(Fit(pc', board', before')) /\ Linked(pc', queue') /\ queue'[Len(queue')].op = "done"
         /\ Fits(pc, board', before, queue'[1]) /\ Follows(pc, queue[1], queue'[1])
         /\ Len(queue') > 1 => /\ Follows(pc, queue'[1], queue'[2])
                               /\ Follows3(queue[1], queue'[1], queue'[2])
         /\ opts.allow < 2 =>
              \A i \in 1..Len(queue') : /\ queue'[i].op \in {"join", "next", "done"}
                                        /\ queue'[i].op = "join" => queue'[i].a # None
         /\ \A h \in Homes, n \in Names :
              Kept(h, n) = Kept(h, n)' + IF Early /\ queue[1] \in Stamps(h, n) THEN 1 ELSE 0
  <1>1. /\ pc \in Phases /\ queue \in Seq(Fit(pc, board, before)) /\ Linked(pc, queue)
        /\ queue[Len(queue)].op = "done"
    BY DEF Inv, QueueInv
  <1>2. queue' = Tail(queue) /\ pc' = pc /\ before' = before /\ opts' = opts BY DEF Advance
  <1> DEFINE t == Tail(queue)
  <1>3. Standing(board) \subseteq Standing(board') BY DEF Left
  <1>4. /\ t # << >> /\ t \in Seq(Fit(pc, board', before)) /\ Linked(pc, t)
        /\ t[Len(t)].op = "done"
        /\ t[1] \in Fit(pc, board', before) /\ Follows(pc, queue[1], t[1])
        /\ Len(t) > 1 => Follows(pc, t[1], t[2]) /\ Follows3(queue[1], t[1], t[2])
        /\ \A i \in 1..Len(t) : i + 1 \in 1..Len(queue) /\ t[i] = queue[i+1]
    BY <1>1, <1>3, TailOf
  <1>5. pc # "idle" BY <1>1 DEF Phases
  <1>6. opts.allow < 2 =>
          \A i \in 1..Len(t) : /\ t[i].op \in {"join", "next", "done"}
                               /\ t[i].op = "join" => t[i].a # None
    <2> HIDE DEF t
    <2> QED BY <1>4, <1>5 DEF Inv, GateInv
  <1>7. ASSUME NEW h \in Homes, NEW n \in Names
        PROVE  Kept(h, n) = Kept(h, n)' + IF Early /\ queue[1] \in Stamps(h, n) THEN 1 ELSE 0
    <2> DEFINE K == Stamps(h, n)
    <2>1. /\ queue[1] \in K => Cardinality(Hits(queue, K)) = Cardinality(Hits(t, K)) + 1
          /\ queue[1] \notin K => Cardinality(Hits(queue, K)) = Cardinality(Hits(t, K))
      BY <1>1, HitsTail
    <2>2. Cardinality(Hits(t, K)) \in Nat BY <1>4, HitsIn
    <2>3. Kept(h, n) = Cardinality(IF Early THEN Hits(queue, K) ELSE {}) BY DEF Kept, Pend
    <2>4. Kept(h, n)' = Cardinality(IF Early THEN Hits(t, K) ELSE {}) BY <1>2 DEF Kept, Pend, Early
    <2>5. Cardinality({}) = 0 BY FS_EmptySet
    <2> HIDE DEF t, K
    <2> QED BY <2>1, <2>2, <2>3, <2>4, <2>5 DEF K
  <1>8. Fits(pc, board', before, t[1]) BY <1>4 DEF Fit
  <1> HIDE DEF t
  <1> QED BY <1>2, <1>4, <1>6, <1>7, <1>8 DEF t

LEMMA AppendIs ==
  ASSUME NEW T, NEW s \in Seq(T), NEW x \in T
  PROVE  /\ Append(s, x) \in Seq(T) /\ ToSet(Append(s, x)) = ToSet(s) \cup {x}
         /\ Append(s, x) # << >> /\ Last(Append(s, x)) = x
  <1> DEFINE a == Append(s, x)
  <1>1. /\ a \in Seq(T) /\ Len(a) = Len(s) + 1 /\ Len(s) \in Nat /\ a # << >>
        /\ \A i \in 1..(Len(s) + 1) : a[i] = IF i <= Len(s) THEN s[i] ELSE x
    OBVIOUS
  <1>2. DOMAIN a = 1..(Len(s) + 1) /\ DOMAIN s = 1..Len(s) BY <1>1
  <1> HIDE DEF a
  <1>3. ToSet(a) = ToSet(s) \cup {x} BY <1>1, <1>2 DEF ToSet
  <1>4. Last(a) = x BY <1>1 DEF Last
  <1> QED BY <1>1, <1>3, <1>4 DEF a

LEMMA EndsOfSeq ==
  ASSUME NEW T, NEW s \in Seq(T), s # << >>
  PROVE  Last(s) \in ToSet(s) /\ s[1] \in ToSet(s) /\ s[Len(s)] \in ToSet(s) /\ ToSet(s) \subseteq T
  <1>1. Len(s) \in Nat /\ Len(s) # 0 /\ DOMAIN s = 1..Len(s) /\ \A i \in 1..Len(s) : s[i] \in T
    OBVIOUS
  <1> QED BY <1>1 DEF Last, ToSet

LEMMA NothingIn == ToSet(<< >>) = {} /\ \A T : << >> \in Seq(T)
  <1>1. DOMAIN << >> = {} /\ \A T : << >> \in Seq(T) OBVIOUS
  <1> QED BY <1>1 DEF ToSet

\* What a hand holds.
LEMMA Held1 ==
  ASSUME Inv, hand # << >>
  PROVE  \A o \in {hand[1], Last(hand), hand[Len(hand)]} :
           /\ o \in ToSet(hand) /\ o \in Objs /\ o \notin Spared /\ board.home[o] # None
           /\ o \in IF Early THEN Dpnis ELSE Switches
  <1>1. hand \in Seq(Objs) BY DEF Inv, Shapes
  <1>2. \A o \in {hand[1], Last(hand), hand[Len(hand)]} : o \in ToSet(hand) /\ o \in Objs
    BY <1>1, EndsOfSeq
  <1> QED BY <1>2 DEF Inv, HandInv

\* The invariant after a verb, part by part.
LEMMA Settled ==
  ASSUME Inv, queue # << >>, queue[1].op # "done", Advance, Left, UNCHANGED given,
         board' \in Boards, Consistent(board'), hand' \in Seq(Objs), journal' \in Seq(Record1), made' \subseteq Objs,
         Ready(board', before, hand', ToSet(journal'), queue'[1]),
         queue'[1].op = "plugA" /\ Len(queue') > 1 /\ queue'[2].op = "plugB" /\ queue'[2].a = None => hand' # << >>,
         HandInv', SparedInv', SwitchInv', RecordInv', CountInv', GateHolds', ForeignEdgesKept',
         opts.allow < 2 => \A r \in ToSet(journal') : r.kind = "edge"
  PROVE  Inv'
  <1>1. /\ queue' # << >> /\ pc' = pc /\ before' = before /\ opts' = opts
        /\ queue' \in Seq(Fit(pc', board', before')) /\ Linked(pc', queue') /\ queue'[Len(queue')].op = "done"
        /\ opts.allow < 2 =>
             \A i \in 1..Len(queue') : /\ queue'[i].op \in {"join", "next", "done"}
                                       /\ queue'[i].op = "join" => queue'[i].a # None
    BY Advanced
  <1>2. pc \in Phases /\ pc # "idle" /\ pc # "unwind" /\ before \in Boards /\ Consistent(before) /\ opts \in choices
    BY Found
  <1>3. /\ unreversed' = unreversed /\ edits' = edits /\ faults' = faults /\ links' = links
        /\ choices' = choices /\ limit' = limit
    BY DEF Advance, budgets, given
  <1>4. QueueInv' BY <1>1, <1>2 DEF QueueInv
  <1>5. GateInv' BY <1>1 DEF GateInv
  <1>6. IdleInv' BY <1>1, <1>2, <1>3 DEF IdleInv
  <1>7. Shapes' BY <1>3, Found DEF Shapes
  <1>8. TypeOK'
    <2>1. \A i \in DOMAIN queue' : queue'[i].at \in Homes \cup {None}
      <3>1. queue' \in Seq(Verbs)
        <4> DEFINE S == Fit(pc', board', before')
        <4>1. queue' \in Seq(S) /\ S \subseteq Verbs BY <1>1 DEF Fit
        <4> HIDE DEF S
        <4> QED BY <4>1
      <3>2. \A v \in Verbs : v.at \in Homes \cup {None} BY DEF Verbs
      <3> QED BY <3>1, <3>2
    <2>2. ToSet(hand') \subseteq Living(board')
      <3>1. ToSet(hand') \subseteq Objs /\ \A o \in ToSet(hand') : board'.home[o] # None
        BY DEF HandInv, ToSet
      <3> QED BY <3>1 DEF Living
    <2>3. \A i \in DOMAIN journal' :
            journal'[i].kind \in {"object", "edge", "port"} /\ journal'[i].obj \in Objs
      <3>1. \A r \in Record1 : r.kind \in {"object", "edge", "port"} /\ r.obj \in Objs
        BY DEF Record1
      <3>2. \A i \in DOMAIN journal' : journal'[i] \in Record1 OBVIOUS
      <3> QED BY <3>1, <3>2
    <2> QED BY <1>1, <1>2, <1>3, <2>1, <2>2, <2>3 DEF Inv, TypeOK
  <1>9. Consistent(before') BY <1>1, <1>2
  <1> QED BY <1>4, <1>5, <1>6, <1>7, <1>8, <1>9 DEF Inv

LEMMA PlannedSame ==
  ASSUME UNCHANGED given
  PROVE  \A h \in Homes, n \in Names : PlannedEnds(h, n)' = PlannedEnds(h, n)
  <1>1. links' = links BY DEF given
  <1> QED BY <1>1 DEF PlannedEnds, LinkTokens, MemberTokens

\* The rows of a label stay and nothing pending is done.
LEMMA CountSame ==
  ASSUME Inv, queue # << >>, queue[1].op \notin {"done", "stamp"}, Advance, Left, UNCHANGED given,
         \A h \in Homes, n \in Names : RowsNamed(board', h, n) = RowsNamed(board, h, n)
  PROVE  CountInv'
  <1>1. /\ queue' # << >> /\ pc' = pc /\ before' = before
        /\ queue' \in Seq(Fit(pc', board', before'))
    BY Advanced
  <1>2. \A h \in Homes, n \in Names :
          Kept(h, n) = Kept(h, n)' + IF Early /\ queue[1] \in Stamps(h, n) THEN 1 ELSE 0
    BY Advanced
  <1>3. pc # "idle" /\ Root \in Homes BY Found DEF Homes
  <1>4. QueueInv /\ CountInv BY DEF Inv
  <1>5. \A h \in Homes, n \in Names : queue[1] \notin Stamps(h, n) BY DEF Stamps
  <1>6. ASSUME NEW h \in Homes, NEW n \in Names
        PROVE  \/ RowsNamed(board', h, n) \subseteq RowsNamed(before', h, n) /\ Pend(h, n)' = {}
               \/ Cardinality(RowsNamed(board', h, n)) + Cardinality(Pend(h, n)') <= PlannedEnds(h, n)'
    <2>1. Cardinality(Pend(h, n)) \in Nat /\ (Cardinality(Pend(h, n)) = 0 <=> Pend(h, n) = {})
      BY <1>4, PendIn
    <2>2. Cardinality(Pend(h, n)') \in Nat /\ (Cardinality(Pend(h, n)') = 0 <=> Pend(h, n)' = {})
      BY <1>1, PendNext
    <2>3. Cardinality(Pend(h, n)') = Cardinality(Pend(h, n))
      <3>1. Kept(h, n) = Kept(h, n)' + 0 BY <1>2, <1>5
      <3> QED BY <2>1, <2>2, <3>1 DEF Kept
    <2>4. \/ RowsNamed(board, h, n) \subseteq RowsNamed(before, h, n) /\ Pend(h, n) = {}
          \/ Cardinality(RowsNamed(board, h, n)) + Cardinality(Pend(h, n)) <= PlannedEnds(h, n)
      BY <1>3, <1>4 DEF CountInv
    <2>5. PlannedEnds(h, n)' = PlannedEnds(h, n) /\ RowsNamed(board', h, n) = RowsNamed(board, h, n)
      BY PlannedSame
    <2> QED BY <1>1, <2>1, <2>2, <2>3, <2>4, <2>5
  <1>7. pc = "population" => \A n \in Names : RowsNamed(board', Root, n) = RowsNamed(before', Root, n)
    BY <1>1, <1>3, <1>4 DEF CountInv
  <1> QED BY <1>1, <1>6, <1>7 DEF CountInv

\* Where no edge moves, the claims on edges carry over.
LEMMA WiresSame ==
  ASSUME Inv, pc # "idle", pc \in Phases, before' = before, board'.wire = board.wire,
         Rows \subseteq Rows'
  PROVE  /\ ForeignEdgesKept'
         /\ \A e \in Dpnis \cup Macs :
              board'.wire[e] \notin {None, before'.wire[e]} => Covered(e, board.wire[e])'
  <1>1. ForeignEdgesKept' BY DEF Inv, ForeignEdgesKept
  <1>2. ASSUME NEW e \in Dpnis \cup Macs, board'.wire[e] \notin {None, before'.wire[e]}
        PROVE  Covered(e, board.wire[e])'
    <2>1. Covered(e, board.wire[e]) BY <1>2 DEF Inv, RecordInv
    <2> QED BY <2>1 DEF Covered
  <1> QED BY <1>1, <1>2

-----------------------------------------------------------------------------
(* Every step keeps the invariant: the verbs. *)

LEMMA MintKeeps ==
  ASSUME Inv, UNCHANGED given, NEW op, NEW kind,
         (op = "mint" /\ kind = Dpnis) \/ (op = "mintSwitch" /\ kind = Switches), Mint(op, kind)
  PROVE  Inv'
  <1> DEFINE o == Lowest(FreeIds(board, kind))
             v == queue[1]
  <1>1. /\ queue # << >> /\ Head(queue).op = op /\ FreeIds(board, kind) # {}
        /\ hand' = Append(hand, o) /\ board' = Minted(board, o, Head(queue).at)
        /\ Advance /\ journal' = journal /\ made' = made
    BY DEF Mint, Next1, V, Silent
  <1>2. /\ pc \in Phases /\ pc # "idle" /\ pc # "unwind" /\ Head(queue) = v
        /\ Fits(pc, board, before, v) /\ Ready(board, before, hand, ToSet(journal), v)
        /\ board \in Boards /\ Consistent(board) /\ before \in Boards /\ Consistent(before)
        /\ hand \in Seq(Objs) /\ journal \in Seq(Record1) /\ made \subseteq Objs
        /\ opts.allow < 2 => v.op \in {"join", "next", "done"}
    BY <1>1, Found
  <1> HIDE DEF v
  <1>3. v.op = op /\ ~(opts.allow < 2) BY <1>1, <1>2
  <1>4. \/ op = "mint" /\ kind = Dpnis /\ Early /\ v.at \in Homes /\ (pc = "population" => v.at # Root)
        \/ op = "mintSwitch" /\ kind = Switches /\ pc = "switches" /\ ~Early /\ v.at \in Homes
    <2>1. Root \in Homes /\ Kids \subseteq Homes /\ Root \notin Kids BY BoardAssumption DEF Homes
    <2> QED BY <1>2, <1>3, <2>1 DEF Fits, Early
  <1>5. kind \subseteq Objs /\ kind \subseteq Nat /\ Dpnis \cap Switches = {}
    BY IdsIn, EndsApart DEF Objs
  <1>6. o \in kind /\ o \in Objs /\ board.home[o] = None
    <2>1. FreeIds(board, kind) \subseteq Nat BY <1>5 DEF FreeIds
    <2>2. o \in FreeIds(board, kind) BY <1>1, <2>1, LowestIn
    <2> QED BY <1>5, <2>2 DEF FreeIds
  <1> HIDE DEF o
  <1>7. /\ board' \in Boards /\ board'.home = [board.home EXCEPT ![o] = v.at] /\ board'.tag = board.tag
        /\ board'.plugged = board.plugged /\ board'.wire = board.wire /\ board'.drifted = board.drifted \ {o}
        /\ Consistent(board')
    BY <1>1, <1>2, <1>4, <1>6, MintedIs, MintedSound
  <1>8. /\ \A p \in Objs : board'.home[p] = IF p = o THEN v.at ELSE board.home[p]
        /\ v.at # None
    BY <1>2, <1>4, <1>6, <1>7, BoardIn, NoneApart
  <1>9. Left BY <1>6, <1>8 DEF Left, Standing, Living, Objs
  <1>10. /\ hand' \in Seq(Objs) /\ ToSet(hand') = ToSet(hand) \cup {o} /\ hand' # << >> /\ Last(hand') = o
    BY <1>1, <1>2, <1>6, AppendIs
  <1>11. /\ queue' # << >> /\ pc' = pc /\ before' = before /\ opts' = opts
         /\ Follows(pc, v, queue'[1])
    BY <1>1, <1>3, <1>4, <1>9, Advanced DEF v
  <1>12. unreversed' = unreversed BY <1>1 DEF Advance
  <1>13. queue'[1].op = "stamp" /\ queue'[1].at = v.at BY <1>3, <1>4, <1>11 DEF Follows
  <1>14. Ready(board', before, hand', ToSet(journal'), queue'[1])
    BY <1>6, <1>8, <1>10, <1>13 DEF Ready
  <1>15. o \notin Spared /\ Spared' = Spared
    <2>1. Spared' = Spared BY <1>11 DEF Spared
    <2> QED BY <1>2, <1>6, <2>1 DEF Inv, SparedInv
  <1>16. HandInv'
    <2>1. Early' <=> Early BY <1>11 DEF Early
    <2>2. \A p \in ToSet(hand) : p \in Objs BY <1>2 DEF ToSet
    <2> QED BY <1>4, <1>6, <1>8, <1>10, <1>15, <2>1, <2>2 DEF Inv, HandInv
  <1>17. SparedInv'
    <2>1. \A p \in Spared : p \in Objs BY DEF Spared
    <2> QED BY <1>1, <1>2, <1>7, <1>8, <1>11, <1>15, <2>1 DEF Inv, SparedInv, Early
  <1>18. SwitchInv'
    <2>1. Early => \A s \in Switches : s # o /\ s \in Objs BY <1>4, <1>5, <1>6 DEF Early, Objs
    <2> QED BY <1>2, <1>7, <1>8, <1>11, <2>1 DEF Inv, SwitchInv, Early
  <1>19. Rows' = Rows /\ (\A e \in Dpnis \cup Macs :
           board'.wire[e] \notin {None, before'.wire[e]} => Covered(e, board.wire[e])') /\ ForeignEdgesKept'
    BY <1>1, <1>2, <1>7, <1>11, <1>12, WiresSame DEF Rows
  <1>20. RecordInv' BY <1>1, <1>2, <1>11, <1>19 DEF Inv, RecordInv
  <1>21. CountInv'
    <2>1. \A h \in Homes, n \in Names : RowsNamed(board', h, n) = RowsNamed(board, h, n)
      <3> TAKE h \in Homes, n \in Names
      <3>1. board.tag[o] # n BY <1>2, <1>6, NoneApart DEF Consistent
      <3>2. \A d \in Dpnis : d \in Objs BY DEF Objs
      <3> QED BY <1>7, <1>8, <3>1, <3>2 DEF RowsNamed
    <2> QED BY <1>1, <1>3, <1>4, <1>9, <2>1, CountSame DEF v
  <1>22. GateHolds' BY <1>3, <1>11 DEF GateHolds
  <1>23. queue[1].op # "done" /\ queue'[1].op # "plugA" BY <1>3, <1>4, <1>13 DEF v
  <1> QED BY <1>1, <1>2, <1>3, <1>7, <1>9, <1>10, <1>11, <1>14, <1>16, <1>17, <1>18, <1>19, <1>20, <1>21, <1>22,
             <1>23, Settled

LEMMA OneMore ==
  ASSUME NEW A, IsFiniteSet(A), NEW o, NEW B, B \subseteq A \cup {o}
  PROVE  Cardinality(B) <= Cardinality(A) + 1 /\ Cardinality(A) \in Nat /\ Cardinality(B) \in Nat
  <1> DEFINE C == A \cup {o}
  <1>1. IsFiniteSet(C) /\ (Cardinality(C) = Cardinality(A) \/ Cardinality(C) = Cardinality(A) + 1)
    BY FS_AddElement
  <1>2. B \subseteq C OBVIOUS
  <1> HIDE DEF C
  <1>3. Cardinality(B) <= Cardinality(C) /\ IsFiniteSet(B) BY <1>1, <1>2, FS_Subset
  <1>4. Cardinality(A) \in Nat /\ Cardinality(B) \in Nat BY <1>3, FS_CardinalityType
  <1> QED BY <1>1, <1>3, <1>4

LEMMA StampKeeps ==
  ASSUME Inv, UNCHANGED given, Stamp
  PROVE  Inv'
  <1> DEFINE o == Last(hand)
             v == queue[1]
             r == Row1("object", o)
  <1>1. /\ queue # << >> /\ Head(queue).op = "stamp" /\ board' = Stamped(board, o, Head(queue).arg)
        /\ Advance /\ hand' = hand
        /\ IF Head(queue).at = Root THEN journal' = Append(journal, r) /\ made' = made \cup {o}
           ELSE journal' = journal /\ made' = made
    BY DEF Stamp, Next1, V, Made, Silent, Created, Record
  <1>2. /\ pc \in Phases /\ pc # "idle" /\ pc # "unwind" /\ Head(queue) = v
        /\ Fits(pc, board, before, v) /\ Ready(board, before, hand, ToSet(journal), v)
        /\ board \in Boards /\ Consistent(board) /\ before \in Boards /\ Consistent(before)
        /\ hand \in Seq(Objs) /\ journal \in Seq(Record1) /\ made \subseteq Objs
        /\ opts.allow < 2 => v.op \in {"join", "next", "done"}
    BY <1>1, Found
  <1> HIDE DEF v
  <1>3. v.op = "stamp" /\ ~(opts.allow < 2) /\ hand # << >> /\ board.home[o] = v.at
    BY <1>1, <1>2 DEF Ready
  <1>4. o \in ToSet(hand) /\ o \in Objs /\ o \notin Spared /\ board.home[o] # None
        /\ o \in IF Early THEN Dpnis ELSE Switches
    BY <1>3, Held1
  <1> HIDE DEF o, r
  <1>5. \/ pc = "population" /\ v.at \in Kids /\ v.at # Root /\ v.arg \in Names
        \/ pc = "links" /\ v.at = Root /\ v.arg \in Names
        \/ pc = "switches" /\ v.at = Root /\ v.arg \in Labels
    <2>1. Root \notin Kids BY BoardAssumption
    <2> QED BY <1>2, <1>3, <2>1 DEF Fits
  <1>6. v.arg \in Names /\ Labels \subseteq Names BY <1>5, DomainsIn DEF Labels
  <1>7. /\ board' \in Boards /\ board'.home = board.home /\ board'.tag = [board.tag EXCEPT ![o] = v.arg]
        /\ board'.plugged = board.plugged /\ board'.wire = board.wire /\ board'.drifted = board.drifted
        /\ Consistent(board')
    BY <1>1, <1>2, <1>4, <1>6, StampedIs, StampedSound
  <1>8. /\ \A p \in Objs : board'.tag[p] = IF p = o THEN v.arg ELSE board.tag[p]
    BY <1>2, <1>4, <1>7, BoardIn
  <1>9. Left BY <1>7 DEF Left, Standing, Living
  <1>10. /\ queue' # << >> /\ pc' = pc /\ before' = before /\ opts' = opts
         /\ Follows(pc, v, queue'[1])
    BY <1>1, <1>3, <1>9, Advanced DEF v
  <1>11. unreversed' = unreversed BY <1>1 DEF Advance
  <1>12. r \in Record1 /\ r.kind = "object" /\ r.obj = o BY <1>4 DEF r, Row1, Record1
  <1>13. /\ journal' \in Seq(Record1) /\ made' \subseteq Objs
         /\ \/ journal' = journal /\ made' = made /\ pc = "population"
            \/ ToSet(journal') = ToSet(journal) \cup {r} /\ made' = made \cup {o}
    <2>1. Append(journal, r) \in Seq(Record1) /\ ToSet(Append(journal, r)) = ToSet(journal) \cup {r}
      BY <1>2, <1>12, AppendIs
    <2>2. IF v.at = Root THEN journal' = Append(journal, r) /\ made' = made \cup {o}
          ELSE journal' = journal /\ made' = made
      BY <1>1, <1>2 DEF r, o
    <2>3. CASE v.at = Root BY <1>2, <1>4, <2>1, <2>2, <2>3
    <2>4. CASE v.at # Root BY <1>2, <1>5, <2>2, <2>4
    <2> QED BY <2>3, <2>4
  <1>14. /\ pc = "population" => queue'[1].op = "plug"
         /\ pc = "links" => queue'[1].op \in {"mint", "wire"}
         /\ pc = "switches" => queue'[1].op = "port"
    BY <1>3, <1>10 DEF Follows
  <1>15. Ready(board', before, hand', ToSet(journal'), queue'[1])
    <2>1. pc = "switches" => Row1("object", Last(hand)) \in ToSet(journal') BY <1>5, <1>13 DEF r, o
    <2> QED BY <1>1, <1>3, <1>5, <1>14, <2>1 DEF Ready
  <1>16. Spared' = Spared /\ (Early' <=> Early) BY <1>10 DEF Spared, Early
  <1>17. HandInv' BY <1>1, <1>7, <1>16 DEF Inv, HandInv
  <1>18. SparedInv' BY <1>2, <1>4, <1>7, <1>10, <1>12, <1>13, <1>16 DEF Inv, SparedInv
  <1>19. SwitchInv'
    <2>1. Dpnis \cap Switches = {} /\ Switches \subseteq Objs BY EndsApart DEF Objs
    <2>2. Early => o \notin Switches BY <1>4, <2>1
    <2>3. Early \/ (pc = "switches" /\ v.arg \in Labels) BY <1>5 DEF Early
    <2> QED BY <1>2, <1>7, <1>8, <1>10, <1>16, <2>1, <2>2, <2>3 DEF Inv, SwitchInv
  <1>20. Rows \subseteq Rows' /\ (made' = made \/ r \in Rows') BY <1>11, <1>13 DEF Rows
  <1>21. (\A e \in Dpnis \cup Macs :
           board'.wire[e] \notin {None, before'.wire[e]} => Covered(e, board.wire[e])') /\ ForeignEdgesKept'
    BY <1>2, <1>7, <1>10, <1>20, WiresSame
  <1>22. RecordInv' BY <1>2, <1>7, <1>10, <1>13, <1>20, <1>21 DEF Inv, RecordInv, r
  <1>23. CountInv'
    <2>1. QueueInv /\ CountInv BY DEF Inv
    <2>2. \A h \in Homes, n \in Names :
            Kept(h, n) = Kept(h, n)' + IF Early /\ queue[1] \in Stamps(h, n) THEN 1 ELSE 0
      BY <1>1, <1>3, <1>9, Advanced DEF v
    <2>3. queue' \in Seq(Fit(pc', board', before')) BY <1>1, <1>3, <1>9, Advanced DEF v
    <2>4. queue[1] \in Verbs BY <1>1, Found
    <2>5. Dpnis \subseteq Objs /\ Dpnis \cap Switches = {} /\ Root \in Homes
      BY EndsApart DEF Objs, Homes
    <2>6. ASSUME NEW h \in Homes, NEW n \in Names
          PROVE  /\ h = v.at /\ n = v.arg /\ Early => RowsNamed(board', h, n) \subseteq RowsNamed(board, h, n) \cup {o}
                 /\ ~(h = v.at /\ n = v.arg /\ Early) => RowsNamed(board', h, n) \subseteq RowsNamed(board, h, n)
      BY <1>3, <1>4, <1>7, <1>8, <2>5 DEF RowsNamed
    <2>7. ASSUME NEW h \in Homes, NEW n \in Names
          PROVE  \/ RowsNamed(board', h, n) \subseteq RowsNamed(before', h, n) /\ Pend(h, n)' = {}
                 \/ Cardinality(RowsNamed(board', h, n)) + Cardinality(Pend(h, n)') <= PlannedEnds(h, n)'
      <3> DEFINE A == RowsNamed(board, h, n)
                 B == RowsNamed(board', h, n)
                 c == Cardinality(Pend(h, n))
                 d == Cardinality(Pend(h, n)')
      <3>1. c \in Nat /\ (c = 0 <=> Pend(h, n) = {}) BY <2>1, PendIn
      <3>2. d \in Nat /\ (d = 0 <=> Pend(h, n)' = {}) BY <2>3, PendNext
      <3>3. c = d + IF Early /\ queue[1] \in Stamps(h, n) THEN 1 ELSE 0 BY <2>2 DEF Kept
      <3>4. (A \subseteq RowsNamed(before, h, n) /\ Pend(h, n) = {}) \/ Cardinality(A) + c <= PlannedEnds(h, n)
        BY <1>2, <2>1 DEF CountInv
      <3>5. PlannedEnds(h, n)' = PlannedEnds(h, n) /\ PlannedEnds(h, n) \in Nat
        <4>1. links \in Intents BY DEF Inv, Shapes
        <4> QED BY <4>1, PlannedSame, TokensFinite
      <3>6. queue[1] \in Stamps(h, n) <=> h = v.at /\ n = v.arg BY <1>3, <2>4 DEF Stamps, v
      <3>7. IsFiniteSet(A) /\ IsFiniteSet(B) BY <1>2, <1>7, RowIn
      <3>8. /\ h = v.at /\ n = v.arg /\ Early => B \subseteq A \cup {o}
            /\ ~(h = v.at /\ n = v.arg /\ Early) => B \subseteq A
        BY <2>6
      <3>9. RowsNamed(before', h, n) = RowsNamed(before, h, n) BY <1>10
      <3> HIDE DEF A, B, c, d
      <3>10. Cardinality(A) \in Nat /\ Cardinality(B) \in Nat BY <3>7, FS_CardinalityType
      <3>11. CASE h = v.at /\ n = v.arg /\ Early
        <4>1. c = d + 1 BY <3>3, <3>6, <3>11
        <4>2. Cardinality(A) + c <= PlannedEnds(h, n) BY <3>1, <3>2, <3>4, <4>1
        <4>3. Cardinality(B) <= Cardinality(A) + 1 BY <3>7, <3>8, <3>11, OneMore
        <4> QED BY <3>1, <3>2, <3>5, <3>10, <4>1, <4>2, <4>3 DEF B, d
      <3>12. CASE ~(h = v.at /\ n = v.arg /\ Early)
        <4>1. c = d BY <3>1, <3>2, <3>3, <3>6, <3>12
        <4>2. B \subseteq A BY <3>8, <3>12
        <4>3. Cardinality(B) <= Cardinality(A) BY <3>7, <4>2, FS_Subset
        <4> QED BY <3>1, <3>2, <3>4, <3>5, <3>9, <3>10, <4>1, <4>2, <4>3 DEF B, d
      <3> QED BY <3>11, <3>12
    <2>8. pc = "population" => \A n \in Names : RowsNamed(board', Root, n) = RowsNamed(before', Root, n)
      <3> SUFFICES ASSUME pc = "population", NEW n \in Names
                   PROVE  RowsNamed(board', Root, n) = RowsNamed(before', Root, n)
        OBVIOUS
      <3>1. board.home[o] # Root BY <1>3, <1>5
      <3>2. RowsNamed(board', Root, n) = RowsNamed(board, Root, n)
        BY <1>7, <1>8, <2>5, <3>1 DEF RowsNamed
      <3> QED BY <1>2, <1>10, <2>1, <3>2 DEF CountInv
    <2> QED BY <1>10, <2>7, <2>8 DEF CountInv
  <1>24. GateHolds' BY <1>3, <1>10 DEF GateHolds
  <1>25. queue[1].op # "done" /\ queue'[1].op # "plugA" BY <1>3, <1>5, <1>14 DEF v
  <1> QED BY <1>1, <1>2, <1>3, <1>7, <1>9, <1>13, <1>15, <1>17, <1>18, <1>19, <1>21, <1>22, <1>23, <1>24,
             <1>25, Settled

LEMMA PlugNewKeeps ==
  ASSUME Inv, UNCHANGED given, PlugNew
  PROVE  Inv'
  <1> DEFINE o == Last(hand)
             v == queue[1]
             r == Row1("object", o)
  <1>1. /\ queue # << >> /\ Head(queue).op = "plug" /\ board' = PluggedIn(board, o)
        /\ Advance /\ hand' = hand /\ journal' = Append(journal, r) /\ made' = made \cup {o}
    BY DEF PlugNew, Next1, Made, Created, Record
  <1>2. /\ pc \in Phases /\ pc # "idle" /\ pc # "unwind" /\ Head(queue) = v
        /\ Fits(pc, board, before, v) /\ Ready(board, before, hand, ToSet(journal), v)
        /\ board \in Boards /\ Consistent(board) /\ before \in Boards /\ Consistent(before)
        /\ hand \in Seq(Objs) /\ journal \in Seq(Record1) /\ made \subseteq Objs
        /\ opts.allow < 2 => v.op \in {"join", "next", "done"}
    BY <1>1, Found
  <1> HIDE DEF v
  <1>3. v.op = "plug" /\ ~(opts.allow < 2) /\ hand # << >> /\ pc = "population"
    BY <1>1, <1>2 DEF Ready, Fits
  <1>4. o \in ToSet(hand) /\ o \in Objs /\ o \notin Spared /\ board.home[o] # None BY <1>3, Held1
  <1> HIDE DEF o, r
  <1>5. /\ board' \in Boards /\ board'.home = board.home /\ board'.tag = board.tag
        /\ board'.plugged = board.plugged \cup {o} /\ board'.wire = board.wire /\ board'.drifted = board.drifted
        /\ Consistent(board')
    BY <1>1, <1>2, <1>4, PluggedIs, PluggedSound
  <1>6. Left BY <1>5 DEF Left, Standing, Living
  <1>7. /\ queue' # << >> /\ pc' = pc /\ before' = before /\ opts' = opts
        /\ Follows(pc, v, queue'[1])
    BY <1>1, <1>3, <1>6, Advanced DEF v
  <1>8. unreversed' = unreversed BY <1>1 DEF Advance
  <1>9. r \in Record1 /\ r.kind = "object" /\ r.obj = o BY <1>4 DEF r, Row1, Record1
  <1>10. /\ journal' \in Seq(Record1) /\ made' \subseteq Objs
         /\ ToSet(journal') = ToSet(journal) \cup {r} /\ made' = made \cup {o}
    BY <1>1, <1>2, <1>4, <1>9, AppendIs
  <1>11. queue'[1].op \in {"join", "next"} BY <1>3, <1>7 DEF Follows
  <1>12. Ready(board', before, hand', ToSet(journal'), queue'[1]) BY <1>1, <1>3, <1>11 DEF Ready
  <1>13. Spared' = Spared /\ (Early' <=> Early) BY <1>7 DEF Spared, Early
  <1>14. HandInv' BY <1>1, <1>5, <1>13 DEF Inv, HandInv
  <1>15. SparedInv' BY <1>2, <1>4, <1>5, <1>7, <1>9, <1>10, <1>13 DEF Inv, SparedInv
  <1>16. SwitchInv' BY <1>2, <1>3, <1>5, <1>7, <1>13 DEF Inv, SwitchInv
  <1>17. Rows \subseteq Rows' /\ r \in Rows' BY <1>8, <1>10 DEF Rows
  <1>18. (\A e \in Dpnis \cup Macs :
           board'.wire[e] \notin {None, before'.wire[e]} => Covered(e, board.wire[e])') /\ ForeignEdgesKept'
    BY <1>2, <1>5, <1>7, <1>17, WiresSame
  <1>19. RecordInv' BY <1>2, <1>5, <1>7, <1>10, <1>17, <1>18 DEF Inv, RecordInv, r
  <1>20. \A h \in Homes, n \in Names : RowsNamed(board', h, n) = RowsNamed(board, h, n)
    BY <1>5 DEF RowsNamed
  <1>21. CountInv' BY <1>1, <1>3, <1>6, <1>20, CountSame DEF v
  <1>22. GateHolds' BY <1>3, <1>7 DEF GateHolds
  <1>23. queue[1].op # "done" /\ queue'[1].op # "plugA" BY <1>3, <1>11 DEF v
  <1> QED BY <1>1, <1>2, <1>3, <1>5, <1>6, <1>10, <1>12, <1>14, <1>15, <1>16, <1>18, <1>19, <1>21, <1>22,
             <1>23, Settled

LEMMA StandingStands ==
  ASSUME NEW b
  PROVE  \A d \in Standing(b) : d \in Dpnis /\ d \in Objs /\ d \in Ends /\ Stands(b, d)
  <1>1. \A d \in Dpnis : d \in Ends /\ d \in Objs /\ EndsOf(d) = {d} BY EndsApart DEF Objs
  <1>2. \A d \in Standing(b) : d \in Dpnis /\ b.home[d] # None BY DEF Standing, Living
  <1>3. \A d \in Dpnis, o \in Objs : d \in EndsOf(o) => o = d BY <1>1, EndsApart
  <1> QED BY <1>1, <1>2, <1>3 DEF Stands

LEMMA JoinedBoth ==
  ASSUME NEW b \in Boards, Consistent(b), NEW e \in Ends, NEW f \in Ends, CanJoin(b, e, f),
         Stands(b, e), Stands(b, f)
  PROVE  \A c : c = Joined(b, e, f) =>
           /\ c \in Boards /\ c.home = b.home /\ c.tag = b.tag
           /\ c.plugged = b.plugged /\ c.drifted = b.drifted
           /\ \A x \in Ends : c.wire[x] = IF x = f THEN e ELSE IF x = e THEN f ELSE b.wire[x]
           /\ Consistent(c)
  <1> DEFINE k == Joined(b, e, f)
  <1>1. /\ k \in Boards /\ k.home = b.home /\ k.tag = b.tag /\ k.plugged = b.plugged /\ k.drifted = b.drifted
        /\ \A x \in Ends : k.wire[x] = IF x = f THEN e ELSE IF x = e THEN f ELSE b.wire[x]
    BY JoinedIs
  <1>2. Consistent(k) BY JoinedSound
  <1> HIDE DEF k
  <1>3. \A c : c = k =>
           /\ c \in Boards /\ c.home = b.home /\ c.tag = b.tag
           /\ c.plugged = b.plugged /\ c.drifted = b.drifted
           /\ \A x \in Ends : c.wire[x] = IF x = f THEN e ELSE IF x = e THEN f ELSE b.wire[x]
           /\ Consistent(c)
    BY <1>1, <1>2
  <1> QED BY <1>3 DEF k

\* An edge between two ends that stand free: none that stood is lost, and the new
\* one is on record, by itself or with the switch it ends in.
LEMMA EdgeKeeps ==
  ASSUME Inv, UNCHANGED given, queue # << >>, queue[1].op \notin {"done", "stamp"},
         NEW e \in Ends, NEW f \in Ends, NEW r \in Record1,
         CanJoin(board, e, f), Stands(board, e), Stands(board, f),
         board' = Joined(board, e, f), journal' = Append(journal, r), Advance, hand' = hand, made' = made,
         \/ Early /\ r.kind = "edge" /\ r.obj = e /\ e \in Dpnis
         \/ /\ r.kind = "port" /\ ~(opts.allow < 2)
            /\ \E o \in Objs : Row1("object", o) \in ToSet(journal) /\ e \in EndsOf(o),
         Ready(board', before, hand', ToSet(journal'), queue'[1]),
         queue'[1].op = "plugA" /\ Len(queue') > 1 /\ queue'[2].op = "plugB" /\ queue'[2].a = None => hand' # << >>
  PROVE  Inv'
  <1>1. /\ pc \in Phases /\ pc # "idle" /\ pc # "unwind"
        /\ board \in Boards /\ Consistent(board) /\ before \in Boards /\ Consistent(before)
        /\ hand \in Seq(Objs) /\ journal \in Seq(Record1) /\ made \subseteq Objs
    BY Found
  <1>2. /\ board' \in Boards /\ board'.home = board.home /\ board'.tag = board.tag
        /\ board'.plugged = board.plugged /\ board'.drifted = board.drifted
        /\ \A x \in Ends : board'.wire[x] = IF x = f THEN e ELSE IF x = e THEN f ELSE board.wire[x]
        /\ Consistent(board')
    BY <1>1, JoinedBoth
  <1>3. e # f /\ board.wire[e] = None /\ board.wire[f] = None /\ Dpnis \subseteq Ends /\ Macs \subseteq Ends
    BY EndsApart DEF CanJoin
  <1>4. \A x \in Ends : board.wire[x] # None => board'.wire[x] = board.wire[x] BY <1>2, <1>3
  <1>5. Left BY <1>2 DEF Left, Standing, Living
  <1>6. pc' = pc /\ before' = before /\ opts' = opts BY <1>5, Advanced
  <1>7. unreversed' = unreversed BY DEF Advance
  <1>8. journal' \in Seq(Record1) /\ ToSet(journal') = ToSet(journal) \cup {r} BY <1>1, AppendIs
  <1>9. Spared' = Spared /\ (Early' <=> Early) BY <1>6 DEF Spared, Early
  <1>10. HandInv' BY <1>2, <1>9 DEF Inv, HandInv
  <1>11. Rows' = Rows \cup {r} /\ r \in Rows' BY <1>7, <1>8 DEF Rows
  <1>12. SparedInv'
    <2>1. r.kind = "edge" => r.obj \in Dpnis /\ before.wire[r.obj] = None
      BY <1>1, <1>3 DEF Inv, SparedInv
    <2>2. Early => \A x \in Ends : before.wire[x] # None => board'.wire[x] = before.wire[x]
      BY <1>1, <1>4 DEF Inv, SparedInv
    <2>3. r.kind # "object" OBVIOUS
    <2> QED BY <1>1, <1>2, <1>6, <1>8, <1>9, <2>1, <2>2, <2>3 DEF Inv, SparedInv
  <1>13. SwitchInv'
    <2>1. queue' # << >> BY <1>5, Advanced
    <2> QED BY <1>1, <1>2, <1>6, <1>9, <2>1 DEF Inv, SwitchInv
  <1>14. ForeignEdgesKept' BY <1>1, <1>3, <1>4, <1>6 DEF Inv, ForeignEdgesKept
  <1>15. Covered(e, f)' /\ Covered(f, e)'
    <2>1. CASE r.kind = "edge" /\ r.obj = e BY <1>11, <2>1 DEF Covered
    <2>2. CASE \E o \in Objs : Row1("object", o) \in ToSet(journal) /\ e \in EndsOf(o)
      <3>1. PICK o \in Objs : Row1("object", o) \in ToSet(journal) /\ e \in EndsOf(o) BY <2>2
      <3>2. Row1("object", o) \in Rows' /\ Row1("object", o).kind = "object" /\ Row1("object", o).obj = o
        BY <1>8, <3>1 DEF Rows, Row1
      <3> QED BY <3>1, <3>2 DEF Covered
    <2> QED BY <2>1, <2>2
  <1>16. ASSUME NEW x \in Dpnis \cup Macs, board'.wire[x] \notin {None, before'.wire[x]}
         PROVE  Covered(x, board.wire[x])'
    <2>1. x \in Ends BY <1>3
    <2>2. CASE x = e BY <1>2, <1>3, <1>15, <2>1, <2>2 DEF Covered
    <2>3. CASE x = f BY <1>2, <1>3, <1>15, <2>1, <2>3 DEF Covered
    <2>4. CASE x # e /\ x # f
      <3>1. board'.wire[x] = board.wire[x] /\ Covered(x, board.wire[x])
        BY <1>1, <1>2, <1>6, <1>16, <2>1, <2>4 DEF Inv, RecordInv
      <3> QED BY <1>11, <3>1 DEF Covered
    <2> QED BY <2>2, <2>3, <2>4
  <1>17. RecordInv' BY <1>1, <1>2, <1>6, <1>11, <1>16 DEF Inv, RecordInv
  <1>18. \A h \in Homes, n \in Names : RowsNamed(board', h, n) = RowsNamed(board, h, n)
    BY <1>2 DEF RowsNamed
  <1>19. CountInv' BY <1>5, <1>18, CountSame
  <1>20. GateHolds' BY <1>1, <1>2, <1>4, <1>6 DEF Inv, GateHolds
  <1>21. opts.allow < 2 => \A x \in ToSet(journal') : x.kind = "edge" BY <1>1, <1>8 DEF Inv, GateInv
  <1> QED BY <1>1, <1>2, <1>5, <1>8, <1>10, <1>12, <1>13, <1>14, <1>17, <1>19, <1>20, <1>21, Settled

\* The ends the verbs at the head of the queue are to join.
LEMMA JoinEnds ==
  ASSUME Inv, queue # << >>, queue[1].op = "join"
  PROVE  /\ pc = "population" /\ Early /\ EndA \in Dpnis /\ queue[1].b \in Dpnis
         /\ EndA \in Ends /\ queue[1].b \in Ends /\ Stands(board, EndA) /\ Stands(board, queue[1].b)
  <1> DEFINE v == queue[1]
             e == EndA
             f == v.b
  <1>2. /\ pc \in Phases /\ Head(queue) = v
        /\ Fits(pc, board, before, v) /\ Ready(board, before, hand, ToSet(journal), v)
    BY Found
  <1>3. pc = "population" /\ v.a \in Standing(board) \cup {None} /\ f \in Standing(board) /\ Early
    BY <1>2 DEF Fits, Early
  <1>4. e \in Standing(board)
    <2>1. e = IF v.a = None THEN hand[1] ELSE v.a BY <1>2 DEF EndA, V
    <2>2. CASE v.a = None
      <3>1. hand # << >> BY <1>2, <2>2 DEF Ready
      <3>2. hand[1] \in Dpnis /\ hand[1] \in Objs /\ board.home[hand[1]] # None BY <1>3, <3>1, Held1
      <3> QED BY <2>1, <2>2, <3>2 DEF Standing, Living
    <2>3. CASE v.a # None BY <1>3, <2>1, <2>3
    <2> QED BY <2>2, <2>3
  <1>5. e \in Dpnis /\ f \in Dpnis /\ e \in Ends /\ f \in Ends /\ Stands(board, e) /\ Stands(board, f)
    BY <1>3, <1>4, StandingStands
  <1> QED BY <1>3, <1>5

LEMMA JoinKeeps ==
  ASSUME Inv, UNCHANGED given, Join
  PROVE  Inv'
  <1> DEFINE v == queue[1]
             e == EndA
             f == v.b
             r == Row1("edge", e)
  <1>1. /\ queue # << >> /\ Head(queue).op = "join" /\ CanJoin(board, e, Head(queue).b)
        /\ board' = Joined(board, e, Head(queue).b) /\ journal' = Append(journal, r)
        /\ Advance /\ hand' = hand /\ made' = made
    BY DEF Join, Next1, V, Record
  <1>2. /\ pc \in Phases /\ Head(queue) = v
        /\ Fits(pc, board, before, v) /\ Ready(board, before, hand, ToSet(journal), v)
        /\ board \in Boards
    BY <1>1, Found
  <1>3. v.op = "join" /\ pc = "population" /\ Early BY <1>1, <1>2, JoinEnds
  <1>5. e \in Dpnis /\ f \in Dpnis /\ e \in Ends /\ f \in Ends /\ Stands(board, e) /\ Stands(board, f)
    BY <1>1, <1>3, JoinEnds
  <1>6. Left
    <2>1. board'.home = board.home BY <1>1, <1>2, <1>5, JoinedIs
    <2> QED BY <2>1 DEF Left, Standing, Living
  <1>7. queue'[1].op = "next" BY <1>1, <1>3, <1>6, Advanced DEF Follows
  <1>8. Ready(board', before, hand', ToSet(journal'), queue'[1]) BY <1>7 DEF Ready
  <1> HIDE DEF e
  <1>9. r \in Record1 /\ r.kind = "edge" /\ r.obj = e BY <1>5 DEF Row1, Record1, Objs
  <1> HIDE DEF r
  <1>10. queue'[1].op # "plugA" /\ queue[1].op \notin {"done", "stamp"} /\ CanJoin(board, e, f)
         /\ board' = Joined(board, e, f)
    BY <1>1, <1>2, <1>3, <1>7
  <1> HIDE DEF v, f
  <1> QED BY <1>1, <1>3, <1>5, <1>8, <1>9, <1>10, EdgeKeeps

LEMMA WireEnds ==
  ASSUME Inv, queue # << >>, queue[1].op = "wire"
  PROVE  /\ pc = "links" /\ Early /\ (queue[1].a = None \/ queue[1].b = None => hand # << >>)
         /\ EndA \in Dpnis /\ EndB \in Dpnis
         /\ EndA \in Ends /\ EndB \in Ends /\ Stands(board, EndA) /\ Stands(board, EndB)
  <1> DEFINE v == queue[1]
             e == EndA
             f == EndB
  <1>2. /\ pc \in Phases /\ Head(queue) = v
        /\ Fits(pc, board, before, v) /\ Ready(board, before, hand, ToSet(journal), v)
    BY Found
  <1>3. pc = "links" /\ v.a \in Standing(board) \cup {None} /\ v.b \in Standing(board) \cup {None} /\ Early
    BY <1>2 DEF Fits, Early
  <1>4. v.a = None \/ v.b = None => hand # << >> BY <1>2, <1>3 DEF Ready
  <1>5. hand # << >> => hand[1] \in Standing(board) /\ hand[Len(hand)] \in Standing(board)
    BY <1>3, Held1 DEF Standing, Living
  <1>6. /\ e = IF v.a = None THEN hand[1] ELSE v.a
        /\ f = IF v.b = None THEN hand[Len(hand)] ELSE v.b
    BY <1>2 DEF EndA, EndB, V
  <1>7. e \in Standing(board) /\ f \in Standing(board) BY <1>3, <1>4, <1>5, <1>6
  <1>8. e \in Dpnis /\ f \in Dpnis /\ e \in Ends /\ f \in Ends /\ Stands(board, e) /\ Stands(board, f)
    BY <1>7, StandingStands
  <1> QED BY <1>3, <1>4, <1>8

LEMMA WireKeeps ==
  ASSUME Inv, UNCHANGED given, Wire
  PROVE  Inv'
  <1> DEFINE v == queue[1]
             e == EndA
             f == EndB
             r == Row1("edge", e)
  <1>1. /\ queue # << >> /\ Head(queue).op = "wire" /\ CanJoin(board, e, f)
        /\ board' = Joined(board, e, f) /\ journal' = Append(journal, r)
        /\ Advance /\ hand' = hand /\ made' = made
    BY DEF Wire, Next1, V, Record
  <1>2. /\ pc \in Phases /\ Head(queue) = v
        /\ Fits(pc, board, before, v) /\ Ready(board, before, hand, ToSet(journal), v)
        /\ board \in Boards
    BY <1>1, Found
  <1>3. v.op = "wire" /\ pc = "links" /\ Early BY <1>1, <1>2, WireEnds
  <1>4. v.a = None \/ v.b = None => hand # << >> BY <1>1, <1>3, WireEnds
  <1>8. e \in Dpnis /\ f \in Dpnis /\ e \in Ends /\ f \in Ends /\ Stands(board, e) /\ Stands(board, f)
    BY <1>1, <1>3, WireEnds
  <1>9. Left
    <2>1. board'.home = board.home BY <1>1, <1>2, <1>8, JoinedIs
    <2> QED BY <2>1 DEF Left, Standing, Living
  <1>10. /\ Follows(pc, v, queue'[1])
         /\ Len(queue') > 1 => Follows3(v, queue'[1], queue'[2])
    BY <1>1, <1>3, <1>9, Advanced
  <1>11. \/ queue'[1].op = "next"
         \/ queue'[1].op = "plugA" /\ queue'[1].a = v.a
         \/ queue'[1].op = "plugB" /\ queue'[1].a = v.b
    BY <1>3, <1>10 DEF Follows
  <1>12. Ready(board', before, hand', ToSet(journal'), queue'[1]) BY <1>1, <1>4, <1>11 DEF Ready
  <1>13. queue'[1].op = "plugA" /\ Len(queue') > 1 /\ queue'[2].op = "plugB" /\ queue'[2].a = None => hand' # << >>
    BY <1>1, <1>3, <1>4, <1>10 DEF Follows3
  <1> HIDE DEF e, f
  <1>14. r \in Record1 /\ r.kind = "edge" /\ r.obj = e BY <1>8 DEF Row1, Record1, Objs
  <1>15. queue[1].op \notin {"done", "stamp"} BY <1>3
  <1> HIDE DEF r, v
  <1> QED BY <1>1, <1>3, <1>8, <1>12, <1>13, <1>14, <1>15, EdgeKeeps

LEMMA PortEnds ==
  ASSUME Inv, queue # << >>, queue[1].op = "port"
  PROVE  LET o == Last(hand)
             e == If(o, queue[1].arg)
             f == queue[1].b
         IN /\ pc = "switches" /\ ~Early /\ ~(opts.allow < 2)
            /\ hand # << >> /\ Row1("object", o) \in ToSet(journal) /\ o \in Objs
            /\ e \in Ends /\ e \in EndsOf(o) /\ Stands(board, e) /\ f \in Ends /\ Stands(board, f)
  <1> DEFINE v == queue[1]
             o == Last(hand)
             e == If(o, v.arg)
             f == v.b
  <1>2. /\ pc \in Phases
        /\ Fits(pc, board, before, v) /\ Ready(board, before, hand, ToSet(journal), v)
        /\ opts.allow < 2 => v.op \in {"join", "next", "done"}
    BY Found
  <1>3. /\ pc = "switches" /\ v.arg \in 0..Widest /\ f \in Macs \cup Standing(board)
        /\ ~Early /\ ~(opts.allow < 2)
    BY <1>2 DEF Fits, Early
  <1>4. hand # << >> /\ Row1("object", o) \in ToSet(journal) BY <1>2, <1>3 DEF Ready
  <1>5. o \in Switches /\ o \in Objs /\ board.home[o] # None BY <1>3, <1>4, Held1
  <1>6. e \in IfsOf(o) /\ e \in Ends /\ e \in EndsOf(o) /\ Stands(board, e)
    BY <1>3, <1>5, EndsApart DEF Stands
  <1>7. f \in Ends /\ Stands(board, f) BY <1>3, EndsApart, StandingStands DEF Stands
  <1> QED BY <1>3, <1>4, <1>5, <1>6, <1>7

LEMMA PortKeeps ==
  ASSUME Inv, UNCHANGED given, ConnectPort
  PROVE  Inv'
  <1> DEFINE v == queue[1]
             o == Last(hand)
             e == If(o, v.arg)
             f == v.b
             r == Row1("port", o)
  <1>1. /\ queue # << >> /\ Head(queue).op = "port" /\ CanJoin(board, If(o, Head(queue).arg), Head(queue).b)
        /\ board' = Joined(board, If(o, Head(queue).arg), Head(queue).b) /\ journal' = Append(journal, r)
        /\ Advance /\ hand' = hand /\ made' = made
    BY DEF ConnectPort, Next1, V, Record, Made
  <1>2. /\ pc \in Phases /\ Head(queue) = v
        /\ Fits(pc, board, before, v) /\ Ready(board, before, hand, ToSet(journal), v)
        /\ board \in Boards
        /\ opts.allow < 2 => v.op \in {"join", "next", "done"}
    BY <1>1, Found
  <1>3. v.op = "port" /\ pc = "switches" /\ ~Early /\ ~(opts.allow < 2) BY <1>1, <1>2, PortEnds
  <1>4. hand # << >> /\ Row1("object", o) \in ToSet(journal) /\ o \in Objs BY <1>1, <1>3, PortEnds
  <1>6. e \in Ends /\ e \in EndsOf(o) /\ Stands(board, e) BY <1>1, <1>3, PortEnds
  <1>7. f \in Ends /\ Stands(board, f) BY <1>1, <1>3, PortEnds
  <1>8. Left
    <2>1. board'.home = board.home BY <1>1, <1>2, <1>6, <1>7, JoinedIs
    <2> QED BY <2>1 DEF Left, Standing, Living
  <1>9. /\ Follows(pc, v, queue'[1]) BY <1>1, <1>3, <1>8, Advanced
  <1>10. /\ queue'[1].op \in {"port", "plugA"}
         /\ queue'[1].op = "plugA" => (Len(queue') > 1 => Follows(pc, queue'[1], queue'[2]))
    BY <1>1, <1>3, <1>8, <1>9, Advanced DEF Follows
  <1>11. r \in Record1 /\ r.kind = "port" BY <1>4 DEF Row1, Record1
  <1>12. ToSet(journal) \subseteq ToSet(journal')
    <2>1. journal \in Seq(Record1) BY DEF Inv, Shapes
    <2> HIDE DEF r
    <2>2. ToSet(Append(journal, r)) = ToSet(journal) \cup {r} BY <1>11, <2>1, AppendIs
    <2> QED BY <1>1, <2>2
  <1>13. Ready(board', before, hand', ToSet(journal'), queue'[1])
    BY <1>1, <1>4, <1>10, <1>12 DEF Ready
  <1>14. CanJoin(board, e, f) /\ board' = Joined(board, e, f) /\ queue[1].op \notin {"done", "stamp"} /\ hand' # << >>
    BY <1>1, <1>2, <1>3, <1>4
  <1>15. \E p \in Objs : Row1("object", p) \in ToSet(journal) /\ e \in EndsOf(p) BY <1>4, <1>6
  <1> HIDE DEF r, v, e, f, o
  <1> QED BY <1>1, <1>3, <1>6, <1>7, <1>11, <1>13, <1>14, <1>15, EdgeKeeps

\* Drivers apart, the board stays as it is.
LEMMA QuietKeeps ==
  ASSUME Inv, UNCHANGED given, queue # << >>, queue[1].op \notin {"done", "stamp"}, Advance, Silent,
         board' \in Boards, Consistent(board'), board'.home = board.home, board'.tag = board.tag,
         board'.wire = board.wire, board'.drifted = board.drifted,
         board'.plugged = board.plugged \/ ~(opts.allow < 2),
         hand' \in Seq(Objs), ToSet(hand') \subseteq ToSet(hand),
         Ready(board', before, hand', ToSet(journal'), queue'[1]),
         queue'[1].op = "plugA" /\ Len(queue') > 1 /\ queue'[2].op = "plugB" /\ queue'[2].a = None => hand' # << >>
  PROVE  Inv'
  <1>1. /\ pc \in Phases /\ pc # "idle" /\ pc # "unwind"
        /\ board \in Boards /\ Consistent(board) /\ before \in Boards /\ Consistent(before)
        /\ hand \in Seq(Objs) /\ journal \in Seq(Record1) /\ made \subseteq Objs
    BY Found
  <1>2. Left BY DEF Left, Standing, Living
  <1>3. pc' = pc /\ before' = before /\ opts' = opts /\ queue' # << >> BY <1>2, Advanced
  <1>4. unreversed' = unreversed /\ journal' = journal /\ made' = made BY DEF Advance, Silent
  <1>5. Spared' = Spared /\ (Early' <=> Early) BY <1>3 DEF Spared, Early
  <1>6. HandInv' BY <1>5 DEF Inv, HandInv
  <1>7. SparedInv' BY <1>1, <1>3, <1>4, <1>5 DEF Inv, SparedInv
  <1>8. SwitchInv' BY <1>1, <1>3, <1>5 DEF Inv, SwitchInv
  <1>9. Rows' = Rows BY <1>4 DEF Rows
  <1>10. (\A e \in Dpnis \cup Macs :
           board'.wire[e] \notin {None, before'.wire[e]} => Covered(e, board.wire[e])') /\ ForeignEdgesKept'
    BY <1>1, <1>3, <1>9, WiresSame
  <1>11. RecordInv' BY <1>1, <1>3, <1>4, <1>9, <1>10 DEF Inv, RecordInv
  <1>12. \A h \in Homes, n \in Names : RowsNamed(board', h, n) = RowsNamed(board, h, n)
    BY DEF RowsNamed
  <1>13. CountInv' BY <1>2, <1>12, CountSame
  <1>14. GateHolds' BY <1>1, <1>3 DEF Inv, GateHolds
  <1>15. opts.allow < 2 => \A x \in ToSet(journal') : x.kind = "edge" BY <1>1, <1>4 DEF Inv, GateInv
  <1> QED BY <1>1, <1>2, <1>4, <1>6, <1>7, <1>8, <1>10, <1>11, <1>13, <1>14, <1>15, Settled

LEMMA PlugRootKeeps ==
  ASSUME Inv, UNCHANGED given, PlugRootEnd
  PROVE  Inv'
  <1> DEFINE v == queue[1]
             o == IF v.a # None THEN v.a ELSE IF v.op = "plugA" THEN hand[1] ELSE Last(hand)
  <1>1. /\ queue # << >> /\ Head(queue).op \in {"plugA", "plugB"}
        /\ Advance /\ Silent /\ hand' = hand
        /\ board' = PluggedIn(board, IF Head(queue).a # None THEN Head(queue).a
                                     ELSE IF Head(queue).op = "plugA" THEN hand[1] ELSE Last(hand))
    BY DEF PlugRootEnd, Next1, V, Made
  <1>2. /\ pc \in Phases /\ Head(queue) = v
        /\ Fits(pc, board, before, v) /\ Ready(board, before, hand, ToSet(journal), v)
        /\ board \in Boards /\ Consistent(board) /\ hand \in Seq(Objs) /\ journal' = journal
        /\ opts.allow < 2 => v.op \in {"join", "next", "done"}
    BY <1>1, Found DEF Silent
  <1>3. /\ board' = PluggedIn(board, o) /\ v.op \in {"plugA", "plugB"} /\ ~(opts.allow < 2)
        /\ v.a = None => hand # << >>
        /\ v.a # None => v.a \in Standing(board)
        /\ pc = "links" \/ (pc = "switches" /\ v.op = "plugA")
    BY <1>1, <1>2 DEF Fits, Ready
  <1>4. o \in Objs /\ board.home[o] # None
    <2>1. CASE v.a # None BY <1>3, <2>1 DEF Standing, Living
    <2>2. CASE v.a = None BY <1>3, <2>2, Held1
    <2> QED BY <2>1, <2>2
  <1> HIDE DEF o
  <1>5. /\ board' \in Boards /\ board'.home = board.home /\ board'.tag = board.tag
        /\ board'.wire = board.wire /\ board'.drifted = board.drifted /\ Consistent(board')
    BY <1>2, <1>3, <1>4, PluggedIs, PluggedSound
  <1>6. Left BY <1>5 DEF Left, Standing, Living
  <1>7. Follows(pc, v, queue'[1]) /\ queue' # << >> BY <1>1, <1>3, <1>6, Advanced
  <1>8. queue'[1].op = "next" \/ (v.op = "plugA" /\ queue'[1].op = "plugB")
    BY <1>3, <1>7 DEF Follows
  <1>9. queue'[1] = queue[2] /\ Len(queue) > 1
    <2>1. queue \in Seq(Fit(pc, board, before)) /\ queue' = Tail(queue)
      BY <1>1 DEF Inv, QueueInv, Advance
    <2> QED BY <1>7, <2>1
  <1>10. queue'[1].op = "plugB" /\ queue'[1].a = None => hand # << >>
    BY <1>1, <1>8, <1>9 DEF Inv, QueueInv
  <1>11. Ready(board', before, hand', ToSet(journal'), queue'[1]) BY <1>1, <1>8, <1>10 DEF Ready
  <1>12. queue[1].op \notin {"done", "stamp"} /\ queue'[1].op # "plugA" BY <1>3, <1>8
  <1> HIDE DEF v
  <1> QED BY <1>1, <1>2, <1>3, <1>5, <1>11, <1>12, QuietKeeps

LEMMA StepDoneKeeps ==
  ASSUME Inv, UNCHANGED given, StepDone
  PROVE  Inv'
  <1> DEFINE v == queue[1]
  <1>1. /\ queue # << >> /\ Head(queue).op = "next"
        /\ Advance /\ Silent /\ hand' = << >> /\ board' = board
    BY DEF StepDone, Next1
  <1>2. pc \in Phases /\ Head(queue) = v /\ board \in Boards /\ Consistent(board) BY <1>1, Found
  <1>3. v.op = "next" BY <1>1, <1>2
  <1>4. Left BY <1>1 DEF Left
  <1>5. Follows(pc, v, queue'[1]) BY <1>1, <1>3, <1>4, Advanced
  <1>6. \/ queue'[1].op \in {"mint", "next", "done", "raise", "destroy"}
        \/ queue'[1].op = "join" /\ queue'[1].a # None
        \/ queue'[1].op = "wire" /\ queue'[1].a # None /\ queue'[1].b # None
    BY <1>2, <1>3, <1>5 DEF Follows, Phases
  <1>7. Ready(board', before, hand', ToSet(journal'), queue'[1]) BY <1>1, <1>6 DEF Ready
  <1>8. hand' \in Seq(Objs) /\ ToSet(hand') \subseteq ToSet(hand) BY <1>1, NothingIn
  <1>9. queue[1].op \notin {"done", "stamp"} /\ queue'[1].op # "plugA" BY <1>3, <1>6
  <1> HIDE DEF v
  <1> QED BY <1>1, <1>2, <1>7, <1>8, <1>9, QuietKeeps

\* An edge of a declared uplink is cut, or a switch that drifted or is undeclared
\* goes with its edges: the run's own to cut, and no other.
LEMMA LessKeeps ==
  ASSUME Inv, UNCHANGED given, queue # << >>, queue[1].op \notin {"done", "stamp"}, Advance, Silent,
         pc \in {"switches", "prune"}, ~(opts.allow < 2), hand' = hand, hand = << >>,
         board' \in Boards, Consistent(board'), NEW O, O \subseteq Switches, O \cap Spared = {},
         \A o \in Objs : board'.home[o] = IF o \in O THEN None ELSE board.home[o],
         \A o \in Objs : board'.tag[o] = IF o \in O THEN None ELSE board.tag[o],
         \A e \in Ends : board'.wire[e] \in {None, board.wire[e]},
         \A e \in Dpnis \cup Macs :
           board'.wire[e] # board.wire[e] => MayCut(before, e) \/ MayCut(before, board.wire[e]),
         queue'[1].op \in {"mintSwitch", "raise", "destroy", "done"}
  PROVE  Inv'
  <1>1. /\ pc \in Phases /\ pc # "idle" /\ pc # "unwind" /\ ~Early
        /\ board \in Boards /\ Consistent(board) /\ before \in Boards /\ Consistent(before)
        /\ hand \in Seq(Objs) /\ journal \in Seq(Record1) /\ made \subseteq Objs
    BY Found DEF Early
  <1>2. Dpnis \subseteq Objs /\ Switches \subseteq Objs /\ Dpnis \cap Switches = {} /\ Dpnis \subseteq Ends /\ Macs \subseteq Ends
    BY EndsApart DEF Objs
  <1>3. Left BY <1>2 DEF Left, Standing, Living
  <1>4. pc' = pc /\ before' = before /\ opts' = opts /\ queue' # << >> BY <1>3, Advanced
  <1>5. unreversed' = unreversed /\ journal' = journal /\ made' = made BY DEF Advance, Silent
  <1>6. Spared' = Spared /\ (Early' <=> Early) /\ Spared \subseteq Objs BY <1>4 DEF Spared, Early
  <1>7. ToSet(hand') = {} BY NothingIn
  <1>8. HandInv' BY <1>7 DEF HandInv
  <1>9. SparedInv' BY <1>1, <1>4, <1>5, <1>6 DEF Inv, SparedInv
  <1>10. SwitchInv'
    <2>1. \A s \in Switches : board'.tag[s] \in Labels \cup {None, before'.tag[s]}
      BY <1>1, <1>2, <1>4 DEF Inv, SwitchInv
    <2> QED BY <1>1, <1>4, <1>6, <2>1 DEF SwitchInv
  <1>11. Rows' = Rows BY <1>5 DEF Rows
  <1>12. ForeignEdgesKept'
    <2>1. ASSUME NEW e \in Dpnis \cup Macs, before.wire[e] # None, ~MayCut(before, e), ~MayCut(before, before.wire[e])
          PROVE  board'.wire[e] = before.wire[e]
      <3>1. board.wire[e] = before.wire[e] BY <1>1, <2>1 DEF Inv, ForeignEdgesKept
      <3> QED BY <2>1, <3>1
    <2> QED BY <1>4, <2>1 DEF ForeignEdgesKept, MayCut
  <1>13. RecordInv'
    <2>1. \A o \in made : Row1("object", o) \in Rows' BY <1>1, <1>11 DEF Inv, RecordInv
    <2>2. ASSUME NEW e \in Dpnis \cup Macs, board'.wire[e] \notin {None, before'.wire[e]}
          PROVE  Covered(e, board.wire[e])'
      <3>1. board'.wire[e] = board.wire[e] BY <1>2, <2>2
      <3>2. Covered(e, board.wire[e]) BY <1>1, <1>4, <2>2, <3>1 DEF Inv, RecordInv
      <3> QED BY <1>11, <3>1, <3>2 DEF Covered
    <2> QED BY <1>1, <1>4, <1>5, <2>1, <2>2 DEF RecordInv
  <1>14. \A h \in Homes, n \in Names : RowsNamed(board', h, n) = RowsNamed(board, h, n)
    BY <1>2 DEF RowsNamed
  <1>15. CountInv' BY <1>3, <1>14, CountSame
  <1>16. GateHolds' BY <1>4 DEF GateHolds
  <1>17. Ready(board', before, hand', ToSet(journal'), queue'[1]) BY DEF Ready
  <1>18. queue'[1].op # "plugA" OBVIOUS
  <1> QED BY <1>1, <1>3, <1>5, <1>8, <1>9, <1>10, <1>12, <1>13, <1>15, <1>16, <1>17, <1>18, Settled

LEMMA SeverKeeps ==
  ASSUME Inv, UNCHANGED given, Sever
  PROVE  Inv'
  <1> DEFINE v == queue[1]
             d == v.a
  <1>1. /\ queue # << >> /\ Head(queue).op = "sever" /\ board' = Cut(board, {Head(queue).a})
        /\ Advance /\ Silent /\ hand' = hand
    BY DEF Sever, Next1, V
  <1>2. /\ pc \in Phases /\ Head(queue) = v
        /\ Fits(pc, board, before, v) /\ Ready(board, before, hand, ToSet(journal), v)
        /\ board \in Boards /\ Consistent(board)
        /\ opts.allow < 2 => v.op \in {"join", "next", "done"}
    BY <1>1, Found
  <1>3. v.op = "sever" /\ ~(opts.allow < 2) /\ pc = "switches" /\ d \in Dpnis /\ hand = << >>
    BY <1>1, <1>2 DEF Fits, Ready
  <1>4. PICK i \in DOMAIN Domains : Due(before, Domains[i]) /\ board.wire[d] = Domains[i].uplink
    BY <1>2, <1>3 DEF Ready
  <1>5. /\ board' \in Boards /\ Consistent(board') /\ board'.home = board.home /\ board'.tag = board.tag
        /\ \A x \in Ends : board'.wire[x] = IF x \in {d} \/ board.wire[x] \in {d} THEN None ELSE board.wire[x]
    BY <1>1, <1>2, CutIs, CutSound
  <1>6. Left BY <1>5 DEF Left, Standing, Living
  <1>7. Follows(pc, v, queue'[1]) BY <1>1, <1>3, <1>6, Advanced
  <1>8. queue'[1].op = "mintSwitch" BY <1>3, <1>7 DEF Follows
  <1>9. MayCut(before, board.wire[d]) BY <1>4 DEF MayCut
  <1>10. Dpnis \subseteq Ends /\ Macs \subseteq Ends BY EndsApart
  <1>11. ASSUME NEW e \in Dpnis \cup Macs, board'.wire[e] # board.wire[e]
         PROVE  MayCut(before, e) \/ MayCut(before, board.wire[e])
    <2>1. e \in Ends /\ (e = d \/ board.wire[e] = d) BY <1>5, <1>10, <1>11
    <2>2. CASE e = d BY <1>9, <2>2
    <2>3. CASE board.wire[e] = d
      <3>1. d # None BY <1>3, NoneApart
      <3>2. board.wire[d] = e BY <1>2, <2>1, <2>3, <3>1 DEF Consistent
      <3> QED BY <1>9, <3>2
    <2> QED BY <2>1, <2>2, <2>3
  <1>12. \A e \in Ends : board'.wire[e] \in {None, board.wire[e]} BY <1>5
  <1>13. \A o \in Objs : /\ board'.home[o] = IF o \in {} THEN None ELSE board.home[o]
                         /\ board'.tag[o] = IF o \in {} THEN None ELSE board.tag[o]
    BY <1>5
  <1>14. queue[1].op \notin {"done", "stamp"} /\ {} \subseteq Switches /\ {} \cap Spared = {}
    BY <1>3
  <1> HIDE DEF v, d
  <1> QED BY <1>1, <1>3, <1>5, <1>8, <1>11, <1>12, <1>13, <1>14, LessKeeps

GoneFrom(c, b, o) ==
  /\ c \in Boards /\ Consistent(c)
  /\ c.home = [b.home EXCEPT ![o] = None] /\ c.tag = [b.tag EXCEPT ![o] = None]
  /\ c.plugged = b.plugged \ {o} /\ c.drifted = b.drifted \ {o}
  /\ \A x \in Ends : c.wire[x] =
       IF x \in EndsOf(o) \/ b.wire[x] \in EndsOf(o) THEN None ELSE b.wire[x]

LEMMA GoneBoth ==
  ASSUME NEW b \in Boards, Consistent(b), NEW o \in Objs
  PROVE  GoneFrom(Gone(b, o), b, o)
  <1> DEFINE k == Gone(b, o)
  <1>1. /\ k \in Boards
        /\ k.home = [b.home EXCEPT ![o] = None] /\ k.tag = [b.tag EXCEPT ![o] = None]
        /\ k.plugged = b.plugged \ {o} /\ k.drifted = b.drifted \ {o}
        /\ \A x \in Ends : k.wire[x] =
             IF x \in EndsOf(o) \/ b.wire[x] \in EndsOf(o) THEN None ELSE b.wire[x]
    BY GoneIs
  <1>2. Consistent(k) BY GoneSound
  <1> HIDE DEF k
  <1>3. GoneFrom(k, b, o) BY <1>1, <1>2 DEF GoneFrom
  <1> QED BY <1>3 DEF k

LEMMA DestroyKeeps ==
  ASSUME Inv, UNCHANGED given, Destroy
  PROVE  Inv'
  <1> DEFINE v == queue[1]
             s == v.a
  <1>1. /\ queue # << >> /\ Head(queue).op = "destroy" /\ board' = Gone(board, Head(queue).a)
        /\ Advance /\ Silent /\ hand' = hand
    BY DEF Destroy, Next1, V
  <1>2. /\ pc \in Phases /\ Head(queue) = v
        /\ Fits(pc, board, before, v) /\ Ready(board, before, hand, ToSet(journal), v)
        /\ board \in Boards /\ Consistent(board)
        /\ opts.allow < 2 => v.op \in {"join", "next", "done"}
    BY <1>1, Found
  <1>3. /\ v.op = "destroy" /\ ~(opts.allow < 2) /\ pc \in {"switches", "prune"} /\ hand = << >>
        /\ s \in Switches /\ Doomed(before, s) /\ s \in Objs
    BY <1>1, <1>2 DEF Fits, Ready, Objs
  <1>4. /\ board' \in Boards /\ Consistent(board')
        /\ board'.home = [board.home EXCEPT ![s] = None] /\ board'.tag = [board.tag EXCEPT ![s] = None]
        /\ \A x \in Ends : board'.wire[x] =
                 IF x \in EndsOf(s) \/ board.wire[x] \in EndsOf(s) THEN None ELSE board.wire[x]
    <2>1. board' = Gone(board, s) BY <1>1, <1>2
    <2> HIDE DEF s
    <2>2. GoneFrom(Gone(board, s), board, s) BY <1>2, <1>3, GoneBoth
    <2>3. GoneFrom(board', board, s) BY <2>1, <2>2
    <2> QED BY <2>3 DEF GoneFrom
  <1>5. \A o \in Objs : /\ board'.home[o] = IF o \in {s} THEN None ELSE board.home[o]
                        /\ board'.tag[o] = IF o \in {s} THEN None ELSE board.tag[o]
    BY <1>2, <1>3, <1>4, BoardIn
  <1>6. Left
    <2>1. Dpnis \subseteq Objs /\ Dpnis \cap Switches = {} BY EndsApart DEF Objs
    <2> QED BY <1>3, <1>5, <2>1 DEF Left, Standing, Living
  <1>7. Follows(pc, v, queue'[1]) BY <1>1, <1>3, <1>6, Advanced
  <1>8. queue'[1].op \in {"raise", "destroy", "done"} BY <1>3, <1>7 DEF Follows
  <1>9. \A e \in EndsOf(s) : MayCut(before, e) BY <1>3, EndsApart DEF MayCut
  <1>10. ASSUME NEW e \in Dpnis \cup Macs, board'.wire[e] # board.wire[e]
         PROVE  MayCut(before, e) \/ MayCut(before, board.wire[e])
    <2>1. e \in Ends BY EndsApart
    <2> QED BY <1>4, <1>9, <1>10, <2>1
  <1>11. \A e \in Ends : board'.wire[e] \in {None, board.wire[e]} BY <1>4
  <1>12. queue[1].op \notin {"done", "stamp"} /\ {s} \subseteq Switches /\ {s} \cap Spared = {}
    BY <1>3 DEF Spared
  <1> DEFINE O == {s}
  <1>13. /\ O \subseteq Switches /\ O \cap Spared = {}
         /\ \A o \in Objs : board'.home[o] = IF o \in O THEN None ELSE board.home[o]
         /\ \A o \in Objs : board'.tag[o] = IF o \in O THEN None ELSE board.tag[o]
    BY <1>5, <1>12
  <1> HIDE DEF v, s, O
  <1> QED BY <1>1, <1>3, <1>4, <1>8, <1>10, <1>11, <1>12, <1>13, LessKeeps

LEMMA RaiseKeeps ==
  ASSUME Inv, UNCHANGED given, Raise
  PROVE  Inv'
  <1> DEFINE v == queue[1]
             i == v.arg
             R == RaiseVerbs(board, i)
             t == Tail(queue)
             T == Fit("switches", board, before)
  <1>1. /\ queue # << >> /\ Head(queue).op = "raise" /\ ~Unraisable(board, Domains[Head(queue).arg])
        /\ queue' = RaiseVerbs(board, Head(queue).arg) \o t
        /\ UNCHANGED <<board, pc, opts, hand, journal, unreversed, outcome, history, budgets>>
    BY DEF Raise, Next1, V
  <1>2. /\ pc \in Phases /\ pc # "idle" /\ pc # "unwind" /\ Head(queue) = v
        /\ Fits(pc, board, before, v) /\ Ready(board, before, hand, ToSet(journal), v)
        /\ board \in Boards /\ Consistent(board) /\ before \in Boards /\ Consistent(before)
        /\ opts.allow < 2 => v.op \in {"join", "next", "done"}
    BY <1>1, Found
  <1>3. /\ v.op = "raise" /\ ~(opts.allow < 2) /\ pc = "switches" /\ hand = << >>
        /\ i \in DOMAIN Domains /\ Due(before, Domains[i]) /\ ~Unraisable(board, Domains[i])
    BY <1>1, <1>2 DEF Fits, Ready
  <1>4. /\ R \in Seq(T) /\ Linked("switches", R) /\ R # << >>
        /\ R[1].op \in {"sever", "mintSwitch"} /\ R[Len(R)].op = "next"
        /\ R[1].op = "sever" => R[1].a \in Dpnis /\ board.wire[R[1].a] = Domains[i].uplink
    <2> HIDE DEF i
    <2> QED BY <1>2, <1>3, RaiseSteps
  <1>5. /\ queue \in Seq(T) /\ Linked("switches", queue) /\ queue[Len(queue)].op = "done"
    BY <1>1, <1>3 DEF Inv, QueueInv
  <1>6. /\ t # << >> /\ t \in Seq(T) /\ Linked("switches", t) /\ t[Len(t)].op = "done"
        /\ Follows("switches", queue[1], t[1])
    <2>1. queue[1].op # "done" /\ Standing(board) \subseteq Standing(board) BY <1>3
    <2> HIDE DEF v
    <2> QED BY <1>1, <1>5, <2>1, TailOf
  <1>7. t[1].op \in {"raise", "destroy", "done"} BY <1>3, <1>6 DEF Follows
  <1>8. R[Len(R)].op \notin {"wire", "plugA"} /\ Follows("switches", R[Len(R)], t[1])
    BY <1>4, <1>7 DEF Follows
  <1>9. queue' = R \o t BY <1>1, <1>2
  <1> HIDE DEF R, t, T
  <1>10. /\ R \o t \in Seq(T) /\ Linked("switches", R \o t) /\ R \o t # << >>
         /\ (R \o t)[1] = R[1] /\ (R \o t)[Len(R \o t)] = t[Len(t)]
    BY <1>4, <1>6, <1>8, Chained
  <1> DEFINE q == R \o t
  <1>11. /\ q \in Seq(T) /\ Linked("switches", q) /\ q # << >> /\ q[1] = R[1] /\ q[Len(q)].op = "done"
    BY <1>6, <1>10
  <1>12. queue' = q BY <1>9
  <1> HIDE DEF q, v, i
  <1>13. /\ UNCHANGED <<board, pc, opts, hand, journal, unreversed, outcome, before, made, edits, faults>>
         /\ UNCHANGED <<links, choices, limit>>
    BY <1>1 DEF history, budgets, given
  <1>14. Ready(board, before, hand, ToSet(journal), q[1]) BY <1>3, <1>4, <1>11 DEF Ready
  <1>15. q[1].op # "plugA" BY <1>4, <1>11
  <1>16. QueueInv' BY <1>2, <1>3, <1>11, <1>12, <1>13, <1>14, <1>15 DEF QueueInv, T
  <1>17. \A j \in DOMAIN q : q[j].at \in Homes \cup {None}
    <2>1. T \subseteq Verbs /\ \A x \in Verbs : x.at \in Homes \cup {None} BY DEF T, Fit, Verbs
    <2> QED BY <1>11, <2>1
  <1>18. TypeOK' BY <1>12, <1>13, <1>17 DEF Inv, TypeOK
  <1>19. Shapes' /\ Consistent(board)' /\ Consistent(before)' BY <1>2, <1>13 DEF Inv, Shapes
  <1>20. IdleInv' BY <1>2, <1>3, <1>11, <1>12, <1>13 DEF Inv, IdleInv
  <1>21. Spared' = Spared /\ (Early' <=> Early) /\ Rows' = Rows /\ ~Early
    BY <1>3, <1>13 DEF Spared, Early, Rows
  <1>22. HandInv' /\ SparedInv' BY <1>13, <1>21 DEF Inv, HandInv, SparedInv
  <1>23. SwitchInv' BY <1>11, <1>12, <1>13, <1>21 DEF Inv, SwitchInv
  <1>24. GateInv' BY <1>3, <1>13 DEF GateInv
  <1>25. RecordInv' BY <1>2, <1>13, <1>21 DEF Inv, RecordInv, Covered
  <1>26. CountInv'
    <2>1. \A h \in Homes, n \in Names : Pend(h, n)' = {} /\ Pend(h, n) = {} BY <1>21 DEF Pend
    <2>2. \A h \in Homes, n \in Names : PlannedEnds(h, n)' = PlannedEnds(h, n) BY PlannedSame
    <2> QED BY <1>2, <1>3, <1>13, <2>1, <2>2 DEF Inv, CountInv
  <1>27. GateHolds' /\ ForeignEdgesKept' BY <1>13 DEF Inv, GateHolds, ForeignEdgesKept
  <1> QED BY <1>16, <1>18, <1>19, <1>20, <1>22, <1>23, <1>24, <1>25, <1>26, <1>27 DEF Inv

-----------------------------------------------------------------------------
(* Every step keeps the invariant: ends of runs and of phases, the rollback, *)
(* the operator.                                                             *)

\* A run ends, and of what it knew nothing stays but the board.
LEMMA EndKeeps ==
  ASSUME Inv, UNCHANGED given, NEW how, End(how), board' \in Boards, Consistent(board'),
         edits' \in 0..MaxEdits, faults' \in 0..limit
  PROVE  Inv'
  <1>1. /\ pc' = "idle" /\ opts' = None /\ queue' = << >> /\ hand' = << >> /\ journal' = << >>
        /\ unreversed' = {} /\ before' = NoBoard /\ made' = {}
    BY DEF End
  <1>2. links' = links /\ choices' = choices /\ limit' = limit BY DEF given
  <1>3. NoBoard \in Boards /\ Consistent(NoBoard) BY EndsApart DEF NoBoard, Boards, Consistent
  <1>4. DOMAIN << >> = {} /\ ToSet(<< >>) = {} BY NothingIn
  <1>5. TypeOK' BY <1>1, <1>2, <1>3, <1>4 DEF Inv, TypeOK
  <1>6. Shapes' BY <1>1, <1>2, NothingIn DEF Inv, Shapes
  <1>7. Consistent(board)' /\ Consistent(before)' BY <1>1, <1>3
  <1>8. IdleInv' /\ QueueInv' /\ HandInv' BY <1>1, <1>4 DEF IdleInv, QueueInv, HandInv
  <1>9. SparedInv' /\ GateInv' /\ RecordInv' /\ CountInv' /\ GateHolds' /\ ForeignEdgesKept'
    BY <1>1 DEF SparedInv, GateInv, RecordInv, CountInv, GateHolds, ForeignEdgesKept
  <1>10. SwitchInv' BY <1>1 DEF SwitchInv, Early, Phases
  <1> QED BY <1>5, <1>6, <1>7, <1>8, <1>9, <1>10 DEF Inv

\* A phase ends, or a run fails and is to be rolled back: what was owed is dropped.
LEMMA DroppedKeeps ==
  ASSUME Inv, UNCHANGED given, pc \in Phases, queue' = << >>, hand' = << >>, edits' = edits, faults' \in 0..limit,
         UNCHANGED <<board, opts, journal, unreversed, history>>,
         \/ pc' = "unwind"
         \/ pc = "population" /\ pc' = "links"
         \/ pc = "links" /\ pc' = "switches"
         \/ pc = "switches" /\ pc' = "prune"
  PROVE  Inv'
  <1>1. UNCHANGED <<board, opts, journal, unreversed, before, made>> /\ UNCHANGED <<links, choices, limit>>
    BY DEF history, given
  <1>2. pc # "idle" /\ pc' # "idle" /\ pc' # "population" /\ pc' \in Phases \cup {"unwind"} /\ opts \in choices
    BY DEF Phases, Inv, IdleInv
  <1>3. DOMAIN << >> = {} /\ ToSet(<< >>) = {} /\ Len(<< >>) = 0 BY NothingIn
  <1>4. TypeOK' BY <1>1, <1>2, <1>3 DEF Inv, TypeOK
  <1>5. Shapes' /\ Consistent(board)' /\ Consistent(before)' BY <1>1, NothingIn DEF Inv, Shapes
  <1>6. IdleInv' /\ QueueInv' /\ HandInv' BY <1>1, <1>2, <1>3 DEF IdleInv, QueueInv, HandInv
  <1>7. Spared' = Spared /\ Rows' = Rows /\ (Early' => Early) BY <1>1 DEF Spared, Rows, Early
  <1>8. SparedInv' BY <1>1, <1>2, <1>7 DEF Inv, SparedInv
  <1>9. SwitchInv'
    <2>1. Early' \/ pc' = "switches" => Early BY DEF Early
    <2> QED BY <1>1, <2>1 DEF Inv, SwitchInv
  <1>10. GateInv' BY <1>1, <1>2, <1>3 DEF Inv, GateInv
  <1>11. RecordInv'
    <2>1. Loose = {} BY <1>2 DEF Inv, RecordInv, Loose
    <2>2. Loose' = Loose BY <1>1, <1>7 DEF Loose, Covered
    <2>3. \A e \in Dpnis \cup Macs :
            board'.wire[e] \notin {None, before'.wire[e]} => Covered(e, board.wire[e])'
      BY <2>1, <2>2 DEF Loose
    <2>4. \A o \in made' : Row1("object", o) \in Rows' BY <1>1, <1>2, <1>7 DEF Inv, RecordInv
    <2> QED BY <1>2, <2>1, <2>2, <2>3, <2>4 DEF RecordInv
  <1>12. GateHolds' /\ ForeignEdgesKept' BY <1>1, <1>2 DEF Inv, GateHolds, ForeignEdgesKept
  <1>13. CountInv'
    <2>1. QueueInv /\ CountInv /\ links \in Intents BY DEF Inv, Shapes
    <2>2. ASSUME NEW h \in Homes, NEW n \in Names
          PROVE  \/ RowsNamed(board', h, n) \subseteq RowsNamed(before', h, n) /\ Pend(h, n)' = {}
                 \/ Cardinality(RowsNamed(board', h, n)) + Cardinality(Pend(h, n)') <= PlannedEnds(h, n)'
      <3> DEFINE A == RowsNamed(board, h, n)
      <3>1. Pend(h, n)' = {} BY <1>3 DEF Pend, Hits
      <3>2. Cardinality(Pend(h, n)') = 0 BY <3>1, FS_EmptySet
      <3>3. Cardinality(Pend(h, n)) \in Nat BY <2>1, PendIn
      <3>4. PlannedEnds(h, n)' = PlannedEnds(h, n) /\ PlannedEnds(h, n) \in Nat
        BY <2>1, PlannedSame, TokensFinite
      <3>5. IsFiniteSet(A) BY RowIn DEF Inv, TypeOK
      <3>6. Cardinality(A) \in Nat BY <3>5, FS_CardinalityType
      <3>7. (A \subseteq RowsNamed(before, h, n) /\ Pend(h, n) = {})
              \/ Cardinality(A) + Cardinality(Pend(h, n)) <= PlannedEnds(h, n)
        BY <1>2, <2>1 DEF CountInv
      <3>8. RowsNamed(board', h, n) = A /\ RowsNamed(before', h, n) = RowsNamed(before, h, n)
        BY <1>1
      <3> HIDE DEF A
      <3> QED BY <3>1, <3>2, <3>3, <3>4, <3>6, <3>7, <3>8
    <2>3. pc' = "links" => \A n \in Names : RowsNamed(board', Root, n) = RowsNamed(before', Root, n)
      BY <1>1, <1>2, <2>1 DEF CountInv
    <2> QED BY <1>2, <2>2, <2>3 DEF CountInv
  <1> QED BY <1>4, <1>5, <1>6, <1>8, <1>9, <1>10, <1>11, <1>12, <1>13 DEF Inv

LEMMA FailKeeps ==
  ASSUME Inv, UNCHANGED given, pc \in Phases, Fail, board' = board, edits' = edits, faults' \in 0..limit
  PROVE  Inv'
  <1>1. edits' \in 0..MaxEdits /\ board' \in Boards /\ Consistent(board') BY DEF Inv, TypeOK
  <1>2. CASE opts.policy = "abort" BY <1>1, <1>2, EndKeeps DEF Fail
  <1>3. CASE opts.policy # "abort"
    <2>1. /\ queue' = << >> /\ hand' = << >> /\ pc' = "unwind"
          /\ UNCHANGED <<board, opts, journal, unreversed, history>>
      BY <1>3 DEF Fail
    <2> QED BY <2>1, DroppedKeeps
  <1> QED BY <1>2, <1>3

LEMMA PhaseDoneKeeps ==
  ASSUME Inv, UNCHANGED given, PhaseDone
  PROVE  Inv'
  <1>1. /\ queue # << >> /\ board' = board /\ edits' = edits /\ faults' = faults
        /\ edits' \in 0..MaxEdits /\ faults' \in 0..limit /\ board' \in Boards /\ Consistent(board')
    BY DEF PhaseDone, budgets, Inv, TypeOK
  <1>2. pc \in Phases BY <1>1 DEF Inv, QueueInv
  <1>3. CASE pc = "prune" BY <1>1, <1>3, EndKeeps DEF PhaseDone
  <1>4. CASE pc # "prune"
    <2>1. /\ queue' = << >> /\ hand' = << >> /\ pc' = After(pc)
          /\ UNCHANGED <<board, opts, journal, unreversed, history>>
      BY <1>1, <1>4 DEF PhaseDone
    <2>2. \/ pc = "population" /\ pc' = "links"
          \/ pc = "links" /\ pc' = "switches"
          \/ pc = "switches" /\ pc' = "prune"
      BY <1>2, <1>4, <2>1 DEF After, Phases
    <2> QED BY <1>1, <1>2, <2>1, <2>2, DroppedKeeps
  <1> QED BY <1>3, <1>4

LEMMA StartKeeps ==
  ASSUME Inv, UNCHANGED given, Start
  PROVE  Inv'
  <1>1. /\ pc = "idle" /\ opts' \in choices /\ pc' = "population" /\ before' = board /\ board' = board
        /\ queue' = << >> /\ hand' = << >> /\ journal' = << >> /\ unreversed' = {} /\ made' = {}
        /\ edits' = edits /\ faults' = faults
    BY DEF Start, Inv, IdleInv, budgets
  <1>2. links' = links /\ choices' = choices /\ limit' = limit BY DEF given
  <1>3. DOMAIN << >> = {} /\ ToSet(<< >>) = {} /\ Len(<< >>) = 0 BY NothingIn
  <1>4. TypeOK' BY <1>1, <1>2, <1>3 DEF Inv, TypeOK, Phases
  <1>5. Shapes' /\ Consistent(board)' /\ Consistent(before)'
    BY <1>1, <1>2, NothingIn DEF Inv, Shapes
  <1>6. IdleInv' /\ QueueInv' /\ HandInv' BY <1>1, <1>2, <1>3 DEF IdleInv, QueueInv, HandInv
  <1>7. SparedInv' BY <1>1, <1>3 DEF SparedInv, Spared
  <1>8. SwitchInv' BY <1>1 DEF SwitchInv
  <1>9. GateInv' BY <1>1, <1>3 DEF GateInv
  <1>10. RecordInv' BY <1>1 DEF RecordInv
  <1>11. GateHolds' /\ ForeignEdgesKept' BY <1>1 DEF GateHolds, ForeignEdgesKept
  <1>12. CountInv'
    <2>1. \A h \in Homes, n \in Names : Pend(h, n)' = {} BY <1>1, <1>3 DEF Pend, Hits
    <2> QED BY <1>1, <2>1 DEF CountInv
  <1> QED BY <1>4, <1>5, <1>6, <1>7, <1>8, <1>9, <1>10, <1>11, <1>12 DEF Inv

LEMMA EditKeeps ==
  ASSUME Inv, UNCHANGED given, OperatorEdits
  PROVE  Inv'
  <1>1. /\ pc = "idle" /\ pc' = "idle" /\ board' \in Edited /\ edits < MaxEdits /\ edits' = edits + 1
        /\ UNCHANGED <<opts, queue, hand, journal, unreversed, before, made, faults>>
        /\ UNCHANGED <<links, choices, limit>>
    BY DEF OperatorEdits, history, given
  <1>2. board' \in Boards /\ Consistent(board') BY <1>1, EditedSound DEF Inv, TypeOK
  <1>3. queue = << >> /\ hand = << >> /\ journal = << >> /\ unreversed = {} /\ made = {}
    BY <1>1 DEF Inv, IdleInv
  <1>4. ToSet(<< >>) = {} BY NothingIn
  <1>5. edits' \in 0..MaxEdits
    <2>1. edits \in 0..MaxEdits /\ MaxEdits \in Nat BY RunAssumption DEF Inv, TypeOK
    <2> QED BY <1>1, <2>1
  <1>6. TypeOK' BY <1>1, <1>2, <1>3, <1>4, <1>5 DEF Inv, TypeOK
  <1>7. Shapes' /\ Consistent(board)' /\ Consistent(before)' BY <1>1, <1>2 DEF Inv, Shapes
  <1>8. IdleInv' /\ QueueInv' /\ HandInv' BY <1>1, <1>3, <1>4 DEF IdleInv, QueueInv, HandInv
  <1>9. SparedInv' /\ GateInv' /\ RecordInv' /\ CountInv' /\ GateHolds' /\ ForeignEdgesKept'
    BY <1>1 DEF SparedInv, GateInv, RecordInv, CountInv, GateHolds, ForeignEdgesKept
  <1>10. SwitchInv' BY <1>1 DEF SwitchInv, Early, Phases
  <1> QED BY <1>6, <1>7, <1>8, <1>9, <1>10 DEF Inv

LEMMA UnwindRowFailsKeeps ==
  ASSUME Inv, UNCHANGED given, UnwindRowFails
  PROVE  Inv'
  <1>1. /\ pc = "unwind" /\ journal # << >> /\ faults < limit /\ faults' = faults + 1
        /\ unreversed' = unreversed \cup {Last(journal)} /\ journal' = Front(journal)
        /\ UNCHANGED <<board, pc, opts, queue, hand, before, made, edits>>
        /\ UNCHANGED <<links, choices, limit>>
    BY DEF UnwindRowFails, Injected, LastRow, UnwindUnchanged, history, given
  <1>2. journal \in Seq(Record1) BY DEF Inv, Shapes
  <1>3. /\ journal' \in Seq(Record1) /\ ToSet(journal) = ToSet(journal') \cup {Last(journal)}
    BY <1>1, <1>2, TakenBack
  <1>4. Rows' = Rows /\ Spared' = Spared /\ ToSet(journal') \subseteq ToSet(journal)
    BY <1>1, <1>3 DEF Rows, Spared
  <1>5. faults' \in 0..limit
    <2>1. faults \in 0..limit /\ limit \in Nat BY DEF Inv, TypeOK
    <2> QED BY <1>1, <2>1
  <1>6. TypeOK'
    <2>1. \A i \in DOMAIN journal' : journal'[i].kind \in {"object", "edge", "port"} /\ journal'[i].obj \in Objs
      <3>1. \A r \in Record1 : r.kind \in {"object", "edge", "port"} /\ r.obj \in Objs
        BY DEF Record1
      <3> QED BY <1>3, <3>1
    <2> QED BY <1>1, <1>5, <2>1 DEF Inv, TypeOK
  <1>7. Shapes' /\ Consistent(board)' /\ Consistent(before)' BY <1>1, <1>3 DEF Inv, Shapes
  <1>8. IdleInv' /\ QueueInv' BY <1>1 DEF Inv, IdleInv, QueueInv
  <1>9. HandInv' /\ SparedInv' BY <1>1, <1>4 DEF Inv, HandInv, SparedInv, Early
  <1>10. SwitchInv' /\ GateInv' BY <1>1, <1>4 DEF Inv, SwitchInv, GateInv, Early
  <1>11. RecordInv'
    <2>1. Loose' = Loose BY <1>1, <1>4 DEF Loose, Covered
    <2> QED BY <1>1, <1>4, <2>1 DEF Inv, RecordInv, Phases
  <1>12. CountInv'
    <2>1. \A h \in Homes, n \in Names : Pend(h, n)' = Pend(h, n) /\ PlannedEnds(h, n)' = PlannedEnds(h, n)
      BY <1>1, PlannedSame DEF Pend, Early
    <2> QED BY <1>1, <2>1 DEF Inv, CountInv
  <1>13. GateHolds' /\ ForeignEdgesKept' BY <1>1 DEF Inv, GateHolds, ForeignEdgesKept
  <1> QED BY <1>6, <1>7, <1>8, <1>9, <1>10, <1>11, <1>12, <1>13 DEF Inv

\* What taking back a row leaves of the board: a row names nothing that stood before
\* the run, but a switch that was doomed, and no edge that did.
TakenOff(c, r) ==
  /\ c \in Boards /\ Consistent(c)
  /\ \A o \in Objs : c.home[o] \in {None, board.home[o]} /\ c.tag[o] \in {None, board.tag[o]}
  /\ \A e \in Ends : c.wire[e] \in {None, board.wire[e]}
  /\ \A o \in Spared : c.home[o] = board.home[o]
  /\ r.kind = "object" => c.home[r.obj] = None
  /\ r.kind = "object" => \A e \in Ends : {e, board.wire[e]} \cap EndsOf(r.obj) # {} => c.wire[e] = None
  /\ r.kind = "edge" => \A e \in Ends : r.obj \in {e, board.wire[e]} => c.wire[e] = None
  /\ \A e \in Dpnis \cup Macs :
       /\ before.wire[e] # None /\ board.wire[e] = before.wire[e]
       /\ ~MayCut(before, e) /\ ~MayCut(before, before.wire[e])
       => c.wire[e] = board.wire[e]
  /\ r.kind # "object" => c.home = board.home /\ c.tag = board.tag /\ c.plugged = board.plugged
  /\ r.kind # "object" =>
       \A e \in Ends : before.wire[e] # None /\ board.wire[e] = before.wire[e] => c.wire[e] = board.wire[e]

LEMMA UndoneIs ==
  ASSUME Inv, pc = "unwind", NEW r \in Record1, r \in ToSet(journal), NEW c, c = Undone(board, r)
  PROVE  TakenOff(c, r)
  <1>1. /\ board \in Boards /\ Consistent(board) /\ before \in Boards /\ Consistent(before) /\ pc # "idle"
        /\ r.kind \in {"object", "edge", "port"} /\ r.obj \in Objs
    BY DEF Inv, TypeOK, Record1
  <1>2. /\ r.kind = "object" => r.obj \notin Spared
        /\ r.kind = "edge" => r.obj \in Dpnis /\ before.wire[r.obj] = None
    BY <1>1 DEF Inv, SparedInv
  <1>3. Dpnis \subseteq Ends /\ Macs \subseteq Ends /\ Dpnis \subseteq Objs /\ None \notin Ends
    BY EndsApart, NoneApart DEF Objs
  <1>4. ASSUME NEW e \in Ends, before.wire[e] # None
        PROVE  before.wire[e] \in Ends /\ before.wire[before.wire[e]] = e /\ e # None
    BY <1>1, <1>3, <1>4, BoardIn DEF Consistent
  <1>5. CASE r.kind = "port"
    <2>1. c = board BY <1>5 DEF Undone
    <2> QED BY <1>1, <1>5, <2>1 DEF TakenOff
  <1>6. CASE r.kind = "edge"
    <2> DEFINE d == r.obj
    <2>1. c = Cut(board, {d}) /\ d \in Dpnis /\ before.wire[d] = None BY <1>2, <1>6 DEF Undone
    <2>2. /\ c \in Boards /\ Consistent(c) /\ c.home = board.home /\ c.tag = board.tag /\ c.plugged = board.plugged
          /\ \A x \in Ends : c.wire[x] = IF x \in {d} \/ board.wire[x] \in {d} THEN None ELSE board.wire[x]
      BY <1>1, <2>1, CutIs, CutSound
    <2> HIDE DEF d
    <2>3. ASSUME NEW e \in Ends, before.wire[e] # None, board.wire[e] = before.wire[e]
          PROVE  c.wire[e] = board.wire[e]
      <3>1. e # d BY <2>1, <2>3
      <3>2. board.wire[e] # d BY <1>4, <2>1, <2>3
      <3> QED BY <2>2, <3>1, <3>2
    <2>4. \A e \in Ends : d \in {e, board.wire[e]} => c.wire[e] = None BY <2>2
    <2>5. \A o \in Objs : c.home[o] = board.home[o] /\ c.tag[o] = board.tag[o] BY <2>2
    <2>6. \A o \in Spared : c.home[o] = board.home[o] BY <2>2
    <2>7. \A e \in Ends : c.wire[e] \in {None, board.wire[e]} BY <2>2
    <2>8. \A e \in Dpnis \cup Macs : before.wire[e] # None /\ board.wire[e] = before.wire[e] => c.wire[e] = board.wire[e]
      BY <1>3, <2>3
    <2> QED BY <1>6, <2>2, <2>3, <2>4, <2>5, <2>6, <2>7, <2>8 DEF d, TakenOff
  <1>7. CASE r.kind = "object"
    <2> DEFINE o == r.obj
    <2>1. c = Gone(board, o) /\ o \in Objs /\ o \notin Spared BY <1>1, <1>2, <1>7 DEF Undone
    <2> HIDE DEF o
    <2>2. /\ c \in Boards /\ Consistent(c)
          /\ c.home = [board.home EXCEPT ![o] = None] /\ c.tag = [board.tag EXCEPT ![o] = None]
          /\ \A x \in Ends : c.wire[x] =
               IF x \in EndsOf(o) \/ board.wire[x] \in EndsOf(o) THEN None ELSE board.wire[x]
      <3>1. GoneFrom(Gone(board, o), board, o) BY <1>1, <2>1, GoneBoth
      <3>2. GoneFrom(c, board, o) BY <2>1, <3>1
      <3> QED BY <3>2 DEF GoneFrom
    <2>3. \A p \in Objs : /\ c.home[p] = IF p = o THEN None ELSE board.home[p]
                          /\ c.tag[p] = IF p = o THEN None ELSE board.tag[p]
      BY <1>1, <2>1, <2>2, BoardIn
    <2>4. before.home[o] = None \/ (o \in Switches /\ Doomed(before, o)) BY <2>1 DEF Spared
    <2>5. ASSUME NEW e \in Dpnis \cup Macs, before.wire[e] # None, board.wire[e] = before.wire[e],
                 ~MayCut(before, e), ~MayCut(before, before.wire[e])
          PROVE  c.wire[e] = board.wire[e]
      <3>1. e \in Ends BY <1>3
      <3>2. CASE before.home[o] = None
        <4>1. \A x \in EndsOf(o) : before.wire[x] = None BY <1>1, <2>1, <3>2 DEF Consistent
        <4>2. e \notin EndsOf(o) /\ before.wire[e] \notin EndsOf(o) BY <1>4, <2>5, <3>1, <4>1
        <4> QED BY <2>2, <2>5, <3>1, <4>2
      <3>3. CASE o \in Switches /\ Doomed(before, o)
        <4>1. \A x \in EndsOf(o) : MayCut(before, x) BY <3>3, EndsApart DEF MayCut
        <4> QED BY <2>2, <2>5, <3>1, <4>1
      <3> QED BY <2>4, <3>2, <3>3
    <2>6. \A e \in Ends : {e, board.wire[e]} \cap EndsOf(o) # {} => c.wire[e] = None BY <2>2
    <2>7. \A p \in Spared : p \in Objs /\ p # o BY <2>1 DEF Spared
    <2>8. \A p \in Objs : c.home[p] \in {None, board.home[p]} /\ c.tag[p] \in {None, board.tag[p]}
      BY <2>3
    <2>9. \A e \in Ends : c.wire[e] \in {None, board.wire[e]} BY <2>2
    <2>10. c.home[o] = None BY <2>1, <2>3
    <2>11. \A p \in Spared : c.home[p] = board.home[p] BY <2>3, <2>7
    <2> QED BY <1>7, <2>2, <2>5, <2>6, <2>8, <2>9, <2>10, <2>11 DEF o, TakenOff
  <1> QED BY <1>1, <1>5, <1>6, <1>7

LEMMA UnwindRowKeeps ==
  ASSUME Inv, UNCHANGED given, UnwindRow
  PROVE  Inv'
  <1> DEFINE r == Last(journal)
  <1>1. /\ pc = "unwind" /\ journal # << >> /\ board' = Undone(board, r) /\ journal' = Front(journal)
        /\ UNCHANGED <<pc, opts, queue, hand, before, made, edits, unreversed, faults>>
        /\ UNCHANGED <<links, choices, limit>>
    BY DEF UnwindRow, LastRow, UnwindUnchanged, history, given
  <1>2. journal \in Seq(Record1) /\ queue = << >> /\ hand = << >> /\ opts \in choices /\ pc # "idle"
    BY <1>1 DEF Inv, Shapes, IdleInv
  <1>3. /\ journal' \in Seq(Record1) /\ ToSet(journal) = ToSet(journal') \cup {r} /\ r \in Record1
    BY <1>1, <1>2, TakenBack
  <1> HIDE DEF r
  <1>4. r \in ToSet(journal) /\ ToSet(journal') \subseteq ToSet(journal) BY <1>3
  <1>5. TakenOff(board', r) BY <1>1, <1>3, <1>4, UndoneIs
  <1>6. /\ board' \in Boards /\ Consistent(board')
        /\ \A o \in Objs : board'.home[o] \in {None, board.home[o]} /\ board'.tag[o] \in {None, board.tag[o]}
        /\ \A e \in Ends : board'.wire[e] \in {None, board.wire[e]}
        /\ \A o \in Spared : board'.home[o] = board.home[o]
    BY <1>5 DEF TakenOff
  <1>7. /\ r.kind = "object" => board'.home[r.obj] = None
        /\ r.kind = "object" => \A e \in Ends : {e, board.wire[e]} \cap EndsOf(r.obj) # {} => board'.wire[e] = None
        /\ r.kind = "edge" => \A e \in Ends : r.obj \in {e, board.wire[e]} => board'.wire[e] = None
    BY <1>5 DEF TakenOff
  <1>8. \A e \in Dpnis \cup Macs :
          /\ before.wire[e] # None /\ board.wire[e] = before.wire[e]
          /\ ~MayCut(before, e) /\ ~MayCut(before, before.wire[e])
          => board'.wire[e] = board.wire[e]
    BY <1>5 DEF TakenOff
  <1>9. Spared' = Spared /\ ~Early /\ ~Early' /\ ToSet(hand') = {} /\ Spared \subseteq Objs
    BY <1>1, <1>2, NothingIn DEF Spared, Early
  <1>10. Dpnis \subseteq Ends /\ Macs \subseteq Ends /\ Dpnis \subseteq Objs BY EndsApart DEF Objs
  <1>11. TypeOK'
    <2>1. \A i \in DOMAIN journal' : journal'[i].kind \in {"object", "edge", "port"} /\ journal'[i].obj \in Objs
      <3>1. \A x \in Record1 : x.kind \in {"object", "edge", "port"} /\ x.obj \in Objs
        BY DEF Record1
      <3> QED BY <1>3, <3>1
    <2> QED BY <1>1, <1>6, <1>9, <2>1 DEF Inv, TypeOK
  <1>12. Shapes' /\ Consistent(board)' /\ Consistent(before)' BY <1>1, <1>3, <1>6 DEF Inv, Shapes
  <1>13. IdleInv' /\ QueueInv' /\ HandInv' BY <1>1, <1>2, <1>9 DEF IdleInv, QueueInv, HandInv
  <1>14. SparedInv' BY <1>1, <1>2, <1>4, <1>6, <1>9 DEF Inv, SparedInv
  <1>15. SwitchInv' BY <1>1, <1>9 DEF SwitchInv, Phases
  <1>16. GateInv' BY <1>1, <1>2, <1>4 DEF Inv, GateInv
  <1>17. Rows = Rows' \cup {r} BY <1>1, <1>3 DEF Rows
  <1>18. RecordInv'
    <2>1. pc' \notin Phases BY <1>1 DEF Phases
    <2>2. ASSUME NEW o \in made', board'.home[o] # None PROVE Row1("object", o) \in Rows'
      <3>1. o \in Objs /\ o \in made BY <1>1, <2>2 DEF Inv, TypeOK
      <3>2. board.home[o] # None BY <1>6, <2>2, <3>1
      <3>3. Row1("object", o) \in Rows BY <1>2, <3>1, <3>2 DEF Inv, RecordInv
      <3>4. Row1("object", o) # r BY <1>7, <2>2 DEF Row1
      <3> QED BY <1>17, <3>3, <3>4
    <2>3. ASSUME NEW e \in Loose'
          PROVE  e \in Loose /\ board'.wire[e] = board.wire[e]
      <3>0. e \in Dpnis \cup Macs /\ board'.wire[e] \notin {None, before'.wire[e]} /\ ~Covered(e, board.wire[e])'
        BY <2>3 DEF Loose
      <3>1. e \in Ends /\ board'.wire[e] = board.wire[e] BY <1>6, <1>10, <3>0
      <3>2. SUFFICES ASSUME Covered(e, board.wire[e]) PROVE FALSE BY <1>1, <3>0, <3>1 DEF Loose
      <3>3. PICK x \in Rows : \/ x.kind = "edge" /\ x.obj \in {e, board.wire[e]}
                              \/ x.kind = "object" /\ {e, board.wire[e]} \cap EndsOf(x.obj) # {}
        BY <3>2 DEF Covered
      <3>4. x # r BY <1>7, <3>0, <3>1, <3>3
      <3>5. x \in Rows' BY <1>17, <3>4
      <3> QED BY <3>0, <3>1, <3>3, <3>5 DEF Covered
    <2>4. \A e, f \in Loose' : before'.wire[e] = None /\ f \in {e, board'.wire[e]}
      BY <1>1, <2>3 DEF Inv, RecordInv
    <2> QED BY <2>1, <2>2, <2>4 DEF RecordInv
  <1>19. CountInv'
    <2>1. \A h \in Homes, n \in Names :
            /\ Pend(h, n)' = {} /\ Pend(h, n) = {} /\ PlannedEnds(h, n)' = PlannedEnds(h, n)
            /\ RowsNamed(before', h, n) = RowsNamed(before, h, n)
      BY <1>1, <1>9, PlannedSame DEF Pend
    <2>2. ASSUME NEW h \in Homes, NEW n \in Names
          PROVE  \/ RowsNamed(board', h, n) \subseteq RowsNamed(before', h, n) /\ Pend(h, n)' = {}
                 \/ Cardinality(RowsNamed(board', h, n)) + Cardinality(Pend(h, n)') <= PlannedEnds(h, n)'
      <3> DEFINE A == RowsNamed(board, h, n)
                 B == RowsNamed(board', h, n)
      <3>1. B \subseteq A BY <1>6, <1>10, NoneApart DEF RowsNamed
      <3>2. (A \subseteq RowsNamed(before, h, n) /\ Pend(h, n) = {})
              \/ Cardinality(A) + Cardinality(Pend(h, n)) <= PlannedEnds(h, n)
        BY <1>2 DEF Inv, CountInv
      <3>3. IsFiniteSet(A) BY RowIn DEF Inv, TypeOK
      <3>4. Pend(h, n)' = Pend(h, n) /\ PlannedEnds(h, n)' = PlannedEnds(h, n) /\ Cardinality(Pend(h, n)) = 0
        BY <2>1, FS_EmptySet
      <3>5. PlannedEnds(h, n) \in Nat BY TokensFinite DEF Inv, Shapes
      <3> HIDE DEF A, B
      <3>6. Cardinality(B) <= Cardinality(A) /\ IsFiniteSet(B) BY <3>1, <3>3, FS_Subset
      <3>7. Cardinality(A) \in Nat /\ Cardinality(B) \in Nat BY <3>3, <3>6, FS_CardinalityType
      <3>8. B \subseteq RowsNamed(before, h, n) \/ Cardinality(B) + 0 <= PlannedEnds(h, n)
        BY <3>1, <3>2, <3>4, <3>5, <3>6, <3>7
      <3>9. (B \subseteq RowsNamed(before', h, n) /\ Pend(h, n)' = {})
              \/ Cardinality(B) + Cardinality(Pend(h, n)') <= PlannedEnds(h, n)'
        BY <2>1, <3>4, <3>8
      <3> QED BY <3>9 DEF B
    <2> QED BY <1>1, <2>2 DEF CountInv
  <1>20. ForeignEdgesKept' BY <1>1, <1>2, <1>8 DEF Inv, ForeignEdgesKept, MayCut
  <1>21. GateHolds'
    <2>1. SUFFICES ASSUME opts.allow < 2 PROVE GateHolds' BY <1>1 DEF GateHolds
    <2>2. r.kind # "object" BY <1>2, <1>4, <2>1 DEF Inv, GateInv
    <2>3. /\ board.home = before.home /\ board.tag = before.tag /\ board.plugged = before.plugged
          /\ \A e \in Ends : before.wire[e] # None => board.wire[e] = before.wire[e]
      BY <1>2, <2>1 DEF Inv, GateHolds
    <2>4. \A e \in Ends : before.wire[e] # None => board'.wire[e] = before.wire[e]
      BY <1>5, <2>2, <2>3 DEF TakenOff
    <2> QED BY <1>1, <1>5, <2>2, <2>3, <2>4 DEF GateHolds, TakenOff
  <1> QED BY <1>11, <1>12, <1>13, <1>14, <1>15, <1>16, <1>18, <1>19, <1>20, <1>21 DEF Inv

LEMMA RestKeeps ==
  ASSUME Inv, UNCHANGED vars
  PROVE  Inv'
  <1>1. /\ UNCHANGED <<links, choices, limit, board, pc, opts, queue, hand, journal, unreversed, outcome,
                       before, made, edits, faults>>
    BY DEF vars, given
  <1>2. TypeOK' /\ Shapes' /\ Consistent(board)' /\ Consistent(before)'
    BY <1>1 DEF Inv, TypeOK, Shapes
  <1>3. IdleInv' /\ HandInv'
    <2>1. IdleInv' BY <1>1 DEF Inv, IdleInv
    <2>2. HandInv'
      <3>1. Spared' = Spared /\ (Early' <=> Early) BY <1>1 DEF Spared, Early
      <3> QED BY <1>1, <3>1 DEF Inv, HandInv
    <2> QED BY <2>1, <2>2
  <1>8. QueueInv'
    <2>1. Fit(pc', board', before') = Fit(pc, board, before) BY <1>1
    <2> QED BY <1>1, <2>1 DEF Inv, QueueInv
  <1>4. SparedInv' /\ SwitchInv' /\ GateInv'
    BY <1>1 DEF Inv, SparedInv, Spared, SwitchInv, GateInv, Early
  <1>5. RecordInv'
    <2>1. Rows' = Rows BY <1>1 DEF Rows
    <2>2. Loose' = Loose BY <1>1, <2>1 DEF Loose, Covered
    <2> QED BY <1>1, <2>1, <2>2 DEF Inv, RecordInv, Covered
  <1>6. CountInv'
    <2>1. \A h \in Homes, n \in Names : Pend(h, n)' = Pend(h, n) /\ PlannedEnds(h, n)' = PlannedEnds(h, n)
      BY <1>1, PlannedSame DEF Pend, Early, given
    <2> QED BY <1>1, <2>1 DEF Inv, CountInv
  <1>7. GateHolds' /\ ForeignEdgesKept' BY <1>1 DEF Inv, GateHolds, ForeignEdgesKept
  <1> QED BY <1>2, <1>3, <1>4, <1>5, <1>6, <1>7, <1>8 DEF Inv

LEMMA InitInv ==
  ASSUME Init
  PROVE  Inv
  <1>1. PICK s \in Sites : board = s.board /\ links = s.links /\ choices = s.options /\ limit = s.faults
    BY DEF Init
  <1>2. /\ board \in Boards /\ Consistent(board) /\ links \in Intents /\ choices \subseteq Options /\ limit \in Nat
        /\ MaxEdits \in Nat
    BY <1>1, RunAssumption
  <1>3. /\ pc = "idle" /\ opts = None /\ queue = << >> /\ hand = << >> /\ journal = << >> /\ unreversed = {}
        /\ before = NoBoard /\ made = {} /\ edits = 0 /\ faults = 0
    BY DEF Init
  <1>4. NoBoard \in Boards /\ Consistent(NoBoard) BY EndsApart DEF NoBoard, Boards, Consistent
  <1>5. DOMAIN << >> = {} /\ ToSet(<< >>) = {} BY NothingIn
  <1>6. TypeOK BY <1>2, <1>3, <1>4, <1>5 DEF TypeOK
  <1>7. Shapes BY <1>2, <1>3, NothingIn DEF Shapes
  <1>8. IdleInv /\ QueueInv /\ HandInv BY <1>3, <1>5 DEF IdleInv, QueueInv, HandInv
  <1>9. SparedInv /\ GateInv /\ RecordInv /\ CountInv /\ GateHolds /\ ForeignEdgesKept
    BY <1>3 DEF SparedInv, GateInv, RecordInv, CountInv, GateHolds, ForeignEdgesKept
  <1>10. SwitchInv BY <1>3 DEF SwitchInv, Early, Phases
  <1> QED BY <1>2, <1>3, <1>4, <1>6, <1>7, <1>8, <1>9, <1>10 DEF Inv

-----------------------------------------------------------------------------
(* Every step keeps the invariant: the plans. *)

\* What a phase owes is put together from steps of the phase.
LEMMA OwedFits ==
  ASSUME Inv, Plan
  PROVE  LET q == Owed(board, pc)
         IN /\ q \in Seq(Fit(pc, board, before)) /\ Linked(pc, q) /\ q # << >> /\ q[Len(q)].op = "done"
            /\ Starts(pc, q[1]) \/ q[1].op = "done"
  <1>1. pc \in Phases /\ queue = << >> /\ board \in Boards /\ before \in Boards /\ links \in Intents
    BY DEF Plan, Plannable, Planning, Inv, TypeOK, Shapes
  <1>2. ASSUME NEW s \in Steps(pc, board, before), Owed(board, pc) = s \o Done
        PROVE  LET q == Owed(board, pc)
               IN /\ q \in Seq(Fit(pc, board, before)) /\ Linked(pc, q) /\ q # << >> /\ q[Len(q)].op = "done"
                  /\ Starts(pc, q[1]) \/ q[1].op = "done"
    <2> DEFINE q == s \o Done
    <2>1. /\ q \in Seq(Fit(pc, board, before)) /\ Linked(pc, q) /\ q # << >> /\ q[Len(q)].op = "done"
          /\ Starts(pc, q[1]) \/ q[1].op = "done"
      BY <1>1, Closed
    <2> HIDE DEF q
    <2>2. Owed(board, pc) = q BY <1>2 DEF q
    <2> QED BY <2>1, <2>2
  <1>3. \E s \in Steps(pc, board, before) : Owed(board, pc) = s \o Done
    <2>1. CASE pc = "population"
      <3>1. board = before BY <1>1, <2>1 DEF Inv, IdleInv
      <3>2. Owed(board, pc) = PopulationVerbs(board) BY <2>1 DEF Owed
      <3>3. \E s \in Steps("population", board, board) : PopulationVerbs(board) = s \o Done
        BY <1>1, PopulationSteps
      <3> QED BY <2>1, <3>1, <3>2, <3>3
    <2>2. CASE pc = "links"
      <3>1. Owed(board, pc) = LinksVerbs(board) BY <2>2 DEF Owed
      <3>2. \E s \in Steps("links", board, before) : LinksVerbs(board) = s \o Done
        BY <1>1, LinksSteps
      <3> QED BY <2>2, <3>1, <3>2
    <2>3. CASE pc = "switches"
      <3>1. SameSwitches(board, before) BY <1>1, <2>3 DEF Inv, SwitchInv, SameSwitches
      <3>2. Owed(board, pc) = SwitchVerbs(board) BY <2>3 DEF Owed
      <3>3. \E s \in Steps("switches", board, before) : SwitchVerbs(board) = s \o Done
        BY <1>1, <3>1, SwitchesSteps
      <3> QED BY <2>3, <3>2, <3>3
    <2>4. CASE pc = "prune"
      <3>1. \A s \in Switches : board.tag[s] \in Labels \cup {None, before.tag[s]}
        BY <1>1 DEF Inv, SwitchInv
      <3>2. Owed(board, pc) = PruneVerbs(board) BY <2>4 DEF Owed
      <3>3. \E s \in Steps("prune", board, before) : PruneVerbs(board) = s \o Done
        BY <1>1, <3>1, PruneSteps
      <3> QED BY <2>4, <3>2, <3>3
    <2> QED BY <1>1, <2>1, <2>2, <2>3, <2>4 DEF Phases
  <1> QED BY <1>2, <1>3

\* Under a shut gate a phase owes the edges of what stands, at most.
LEMMA OwedMild ==
  ASSUME Inv, Plan, opts.allow < 2
  PROVE  Owed(board, pc) \in Seq(Mild)
  <1>1. pc \in Phases /\ board \in Boards /\ links \in Intents /\ opts.allow \in 0..2
    <2>1. pc \in Phases /\ pc # "idle" BY DEF Plan, Plannable, Planning, Phases
    <2>2. opts \in Options BY <2>1 DEF Inv, IdleInv, TypeOK
    <2> QED BY <2>1, <2>2 DEF Inv, TypeOK, Shapes, Options
  <1>2. ~Disruptive(board, pc) /\ (pc = "prune" => SwitchCandidates(board) # {})
    BY <1>1 DEF Plan, Plannable
  <1>3. CASE pc = "population"
    <2>1. ~PopulationDisruptive(board) /\ Owed(board, pc) = PopulationVerbs(board)
      BY <1>2, <1>3 DEF Disruptive, Owed
    <2> QED BY <1>1, <2>1, PopulationMild
  <1>4. CASE pc = "links"
    <2>1. ~LinksDisruptive(board) /\ Owed(board, pc) = LinksVerbs(board)
      BY <1>2, <1>4 DEF Disruptive, Owed
    <2> QED BY <1>1, <2>1, LinksMild
  <1>5. CASE pc = "switches"
    <2>1. ~SwitchDisruptive(board) /\ Owed(board, pc) = SwitchVerbs(board)
      BY <1>2, <1>5 DEF Disruptive, Owed
    <2> QED BY <1>1, <2>1, SwitchesMild
  <1>6. CASE pc = "prune" BY <1>2, <1>6 DEF Disruptive
  <1> QED BY <1>1, <1>3, <1>4, <1>5, <1>6 DEF Phases

\* What a phase is to create fits beside what stands.
LEMMA OwedHits ==
  ASSUME Inv, UNCHANGED given, Plan, NEW h \in Homes, NEW n \in Names
  PROVE  \/ RowsNamed(board', h, n) \subseteq RowsNamed(before', h, n) /\ Pend(h, n)' = {}
         \/ Cardinality(RowsNamed(board', h, n)) + Cardinality(Pend(h, n)') <= PlannedEnds(h, n)'
  <1> DEFINE q == Owed(board, pc)
             A == RowsNamed(board, h, n)
             B == RowsNamed(before, h, n)
             k == Cardinality(Hits(q, Stamps(h, n)))
  <1>1. /\ pc \in Phases /\ queue = << >> /\ board \in Boards /\ before \in Boards /\ links \in Intents
        /\ pc # "idle"
    BY DEF Plan, Plannable, Planning, Inv, TypeOK, Shapes, Phases
  <1>2. /\ queue' = q /\ pc' = pc /\ board' = board /\ before' = before BY DEF Plan, history
  <1>3. PlannedEnds(h, n)' = PlannedEnds(h, n) /\ PlannedEnds(h, n) \in Nat
    BY <1>1, PlannedSame, TokensFinite
  <1>4. RowsNamed(board', h, n) = A /\ RowsNamed(before', h, n) = B BY <1>2
  <1>5. Pend(h, n)' = IF Early THEN Hits(q, Stamps(h, n)) ELSE {} BY <1>2 DEF Pend, Early
  <1>6. Pend(h, n) = {}
    <2>1. Len(<< >>) = 0 OBVIOUS
    <2> QED BY <1>1, <2>1 DEF Pend, Hits
  <1>7. IsFiniteSet(A) /\ Cardinality(A) \in Nat BY <1>1, RowIn, FS_CardinalityType
  <1>8. Cardinality({}) = 0 BY FS_EmptySet
  <1>9. A \subseteq B \/ Cardinality(A) <= PlannedEnds(h, n)
    <2>1. (A \subseteq B /\ Pend(h, n) = {}) \/ Cardinality(A) + Cardinality(Pend(h, n)) <= PlannedEnds(h, n)
      BY <1>1 DEF Inv, CountInv
    <2> HIDE DEF A, B
    <2> QED BY <1>3, <1>6, <1>7, <1>8, <2>1
  <1>10. q \in Seq(Fit(pc, board, before)) BY OwedFits
  <1>11. IsFiniteSet(Hits(q, Stamps(h, n)))
    <2> HIDE DEF q
    <2> QED BY <1>10, HitsIn
  <1>12. k \in Nat /\ (k = 0 <=> Hits(q, Stamps(h, n)) = {})
    <2> HIDE DEF q
    <2> QED BY <1>11, FS_CardinalityType, FS_EmptySet
  <1>13. CASE ~Early
    <2>1. Pend(h, n)' = {} BY <1>5, <1>13
    <2> HIDE DEF A, B
    <2> QED BY <1>3, <1>4, <1>7, <1>8, <1>9, <2>1
  <1>14. CASE Early /\ k = 0
    <2>1. Pend(h, n)' = {} BY <1>5, <1>12, <1>14
    <2> HIDE DEF A, B
    <2> QED BY <1>3, <1>4, <1>7, <1>8, <1>9, <2>1
  <1>15. CASE Early /\ k # 0
    <2>1. Cardinality(A) + k <= PlannedEnds(h, n)
      <3>1. CASE pc = "population"
        <4>1. q = PopulationVerbs(board) BY <3>1 DEF Owed
        <4>2. k <= IF A = {} THEN PlannedEnds(h, n) ELSE 0 BY <1>1, <4>1, PopulationHits
        <4> HIDE DEF k, A, q
        <4>3. A = {} BY <1>3, <1>12, <1>15, <4>2
        <4> QED BY <1>3, <1>8, <1>12, <4>2, <4>3
      <3>2. CASE pc = "links"
        <4>1. q = LinksVerbs(board) BY <3>2 DEF Owed
        <4>2. k # 0 => Cardinality(A) + k <= PlannedEnds(h, n) BY <1>1, <4>1, LinksHits
        <4> QED BY <1>15, <4>2
      <3> QED BY <1>15, <3>1, <3>2 DEF Early
    <2>2. Cardinality(Pend(h, n)') = k BY <1>5, <1>15
    <2> HIDE DEF A, B, k
    <2> QED BY <1>3, <1>4, <2>1, <2>2
  <1> QED BY <1>13, <1>14, <1>15

LEMMA PlanKeeps ==
  ASSUME Inv, UNCHANGED given, Plan
  PROVE  Inv'
  <1> DEFINE q == Owed(board, pc)
  <1>1. /\ pc \in Phases /\ queue = << >> /\ board \in Boards /\ before \in Boards /\ links \in Intents
        /\ pc # "idle"
    BY DEF Plan, Plannable, Planning, Inv, TypeOK, Shapes, Phases
  <1>2. /\ queue' = q /\ hand' = << >>
        /\ UNCHANGED <<board, pc, opts, journal, unreversed, before, made, edits, faults>>
        /\ UNCHANGED <<links, choices, limit>>
    BY DEF Plan, history, budgets, given
  <1>3. /\ q \in Seq(Fit(pc, board, before)) /\ Linked(pc, q) /\ q # << >> /\ q[Len(q)].op = "done"
        /\ Starts(pc, q[1]) \/ q[1].op = "done"
    BY OwedFits
  <1>4. opts.allow < 2 => q \in Seq(Mild) BY OwedMild
  <1>5. CountInv'
    <2>1. \A h \in Homes, n \in Names :
             \/ RowsNamed(board', h, n) \subseteq RowsNamed(before', h, n) /\ Pend(h, n)' = {}
             \/ Cardinality(RowsNamed(board', h, n)) + Cardinality(Pend(h, n)') <= PlannedEnds(h, n)'
      BY OwedHits
    <2>2. pc = "population" \/ (pc = "links" /\ queue' = << >>) =>
            \A n \in Names : RowsNamed(board', Root, n) = RowsNamed(before', Root, n)
      <3> HIDE DEF q
      <3> QED BY <1>1, <1>2, <1>3 DEF Inv, CountInv
    <2> QED BY <1>2, <2>1, <2>2 DEF CountInv
  <1> HIDE DEF q
  <1>6. \/ q[1].op \in {"mint", "next", "raise", "destroy", "done"}
        \/ q[1].op = "join" /\ q[1].a # None
        \/ q[1].op = "wire" /\ q[1].a # None /\ q[1].b # None
    BY <1>3 DEF Starts
  <1>7. Ready(board, before, << >>, ToSet(journal), q[1]) BY <1>6 DEF Ready
  <1>8. q[1].op # "plugA" BY <1>6
  <1>9. QueueInv' BY <1>1, <1>2, <1>3, <1>7, <1>8 DEF QueueInv
  <1>10. ToSet(<< >>) = {} BY NothingIn
  <1>11. TypeOK'
    <2>1. \A j \in DOMAIN q : q[j].at \in Homes \cup {None}
      <3> DEFINE T == Fit(pc, board, before)
      <3>1. T \subseteq Verbs /\ q \in Seq(T) BY <1>3 DEF Fit
      <3>2. \A x \in Verbs : x.at \in Homes \cup {None} BY DEF Verbs
      <3> HIDE DEF T
      <3> QED BY <3>1, <3>2
    <2> QED BY <1>2, <1>10, <2>1 DEF Inv, TypeOK
  <1>12. Shapes' /\ Consistent(board)' /\ Consistent(before)' BY <1>2, NothingIn DEF Inv, Shapes
  <1>13. IdleInv' /\ HandInv' BY <1>1, <1>2, <1>3, <1>10 DEF Inv, IdleInv, HandInv, Phases
  <1>14. Spared' = Spared /\ (Early' <=> Early) /\ Rows' = Rows BY <1>2 DEF Spared, Early, Rows
  <1>15. SparedInv' BY <1>2, <1>14 DEF Inv, SparedInv
  <1>16. SwitchInv' BY <1>2, <1>3, <1>14 DEF Inv, SwitchInv
  <1>17. GateInv'
    <2>1. opts.allow < 2 => \A i \in 1..Len(q) : /\ q[i].op \in {"join", "next", "done"}
                                                 /\ q[i].op = "join" => q[i].a # None
      <3>1. \A x \in Mild : x.op \in {"join", "next", "done"} /\ (x.op = "join" => x.a # None)
        BY DEF Mild
      <3> QED BY <1>4, <3>1
    <2> QED BY <1>1, <1>2, <2>1 DEF Inv, GateInv
  <1>18. RecordInv' BY <1>1, <1>2, <1>14 DEF Inv, RecordInv, Covered, Phases
  <1>19. GateHolds' /\ ForeignEdgesKept' BY <1>2 DEF Inv, GateHolds, ForeignEdgesKept
  <1> QED BY <1>5, <1>9, <1>11, <1>12, <1>13, <1>15, <1>16, <1>17, <1>18, <1>19 DEF Inv

LEMMA InvFabric ==
  ASSUME Inv
  PROVE  FabricInv
  <1>1. TypeOK /\ GateHolds /\ ForeignEdgesKept /\ QueueInv /\ CountInv /\ RecordInv /\ links \in Intents
        /\ board \in Boards
    BY DEF Inv, TypeOK, Shapes
  <1>2. NeverDoubled
    <2> SUFFICES ASSUME pc # "idle", NEW h \in Homes, NEW n \in Names
                 PROVE  \/ Cardinality(RowsNamed(board, h, n)) <= PlannedEnds(h, n)
                        \/ RowsNamed(board, h, n) \subseteq RowsNamed(before, h, n)
      BY DEF NeverDoubled
    <2> DEFINE A == RowsNamed(board, h, n)
    <2>1. A \subseteq RowsNamed(before, h, n) \/ Cardinality(A) + Cardinality(Pend(h, n)) <= PlannedEnds(h, n)
      BY <1>1 DEF CountInv
    <2>2. IsFiniteSet(A) BY <1>1, RowIn
    <2> HIDE DEF A
    <2>3. Cardinality(A) \in Nat /\ Cardinality(Pend(h, n)) \in Nat /\ PlannedEnds(h, n) \in Nat
      <3>1. Cardinality(A) \in Nat BY <2>2, FS_CardinalityType
      <3>2. Cardinality(Pend(h, n)) \in Nat BY <1>1, PendIn
      <3>3. PlannedEnds(h, n) \in Nat BY <1>1, TokensFinite
      <3> QED BY <3>1, <3>2, <3>3
    <2>4. A \subseteq RowsNamed(before, h, n) \/ Cardinality(A) <= PlannedEnds(h, n) BY <2>1, <2>3
    <2> QED BY <2>4 DEF A
  <1>3. RollbackRestores
    <2> SUFFICES ASSUME pc = "unwind", journal = << >>, unreversed = {}
                 PROVE  /\ made \cap Living(board) = {}
                        /\ \A e \in Dpnis \cup Macs :
                             board.wire[e] # None /\ before.wire[e] # None => board.wire[e] = before.wire[e]
                        /\ \A e, f \in Dpnis : Added(e) /\ Added(f) => f \in {e, board.wire[e]}
      BY DEF RollbackRestores
    <2>1. Rows = {} /\ pc # "idle" BY NothingIn DEF Rows
    <2>2. \A e, w : ~Covered(e, w) BY <2>1 DEF Covered
    <2>3. \A o \in made : board.home[o] = None BY <1>1, <2>1 DEF RecordInv
    <2>4. \A e \in Dpnis \cup Macs : board.wire[e] \notin {None, before.wire[e]} <=> e \in Loose
      BY <2>2 DEF Loose
    <2>5. \A e, f \in Loose : before.wire[e] = None /\ f \in {e, board.wire[e]}
      BY <1>1, <2>1 DEF RecordInv
    <2> QED BY <2>3, <2>4, <2>5 DEF Living, Added
  <1> QED BY <1>1, <1>2, <1>3 DEF FabricInv

-----------------------------------------------------------------------------
(* Every step keeps the invariant: a verb that errs after its last spawn. *)

Lost(x) == board'.wire[x] # board.wire[x] /\ ~Covered(x, board'.wire[x])

\* What the last spawn of a recorded verb leaves, whether or not the row follows.
Landed ==
  /\ board' \in Boards /\ Consistent(board') /\ board'.home = board.home
  /\ \A x \in Ends : board.wire[x] # None => board'.wire[x] = board.wire[x]
  /\ \A x, y \in Dpnis \cup Macs :
       Lost(x) /\ Lost(y) => before.wire[x] = None /\ y \in {x, board'.wire[x]}
  /\ \/ board'.plugged = board.plugged
     \/ pc = "population" /\ \E o \in ToSet(hand) : board'.plugged = board.plugged \cup {o}
  /\ opts.allow < 2 => board'.tag = board.tag /\ board'.plugged = board.plugged
  /\ \A h \in Homes, n \in Names :
       \/ Cardinality(RowsNamed(board', h, n)) <= PlannedEnds(h, n)
       \/ RowsNamed(board', h, n) \subseteq RowsNamed(before, h, n)

LEMMA LandedEdge ==
  ASSUME Inv, queue # << >>, NEW e \in Ends, NEW f \in Ends,
         CanJoin(board, e, f), Stands(board, e), Stands(board, f), board' = Joined(board, e, f),
         Early \/ \E o \in Objs : Row1("object", o) \in ToSet(journal) /\ e \in EndsOf(o)
  PROVE  Landed
  <1>1. board \in Boards /\ Consistent(board) /\ pc # "idle" BY Found
  <1>2. /\ board' \in Boards /\ board'.home = board.home /\ board'.tag = board.tag
        /\ board'.plugged = board.plugged
        /\ \A x \in Ends : board'.wire[x] = IF x = f THEN e ELSE IF x = e THEN f ELSE board.wire[x]
        /\ Consistent(board')
    BY <1>1, JoinedBoth
  <1>3. e # f /\ board.wire[e] = None /\ board.wire[f] = None /\ Dpnis \subseteq Ends /\ Macs \subseteq Ends
    BY EndsApart DEF CanJoin
  <1>4. ASSUME NEW x \in Dpnis \cup Macs, NEW y \in Dpnis \cup Macs, Lost(x), Lost(y)
        PROVE  before.wire[x] = None /\ y \in {x, board'.wire[x]}
    <2>1. x \in {e, f} /\ y \in {e, f} /\ board'.wire[e] = f /\ board'.wire[f] = e /\ x \in Ends
      BY <1>2, <1>3, <1>4 DEF Lost
    <2>2. CASE Early BY <1>1, <1>3, <2>1, <2>2 DEF Inv, SparedInv
    <2>3. ASSUME NEW o \in Objs, Row1("object", o) \in ToSet(journal), e \in EndsOf(o) PROVE FALSE
      <3>1. Row1("object", o) \in Rows /\ Row1("object", o).kind = "object" /\ Row1("object", o).obj = o
        BY <2>3 DEF Rows, Row1
      <3>2. e \in {x, board'.wire[x]} BY <2>1
      <3> QED BY <1>4, <2>3, <3>1, <3>2 DEF Lost, Covered
    <2> QED BY <2>1, <2>2, <2>3
  <1>5. \A h \in Homes, n \in Names : RowsNamed(board', h, n) = RowsNamed(board, h, n)
    BY <1>2 DEF RowsNamed
  <1>6. NeverDoubled BY InvFabric DEF FabricInv
  <1> QED BY <1>1, <1>2, <1>3, <1>4, <1>5, <1>6 DEF Landed, NeverDoubled

LEMMA LandedStamp ==
  ASSUME Inv, Next1("stamp"), V.at = Root, board' = Stamped(board, Made, V.arg)
  PROVE  Landed
  <1> DEFINE o == Last(hand)
             v == queue[1]
  <1>1. queue # << >> /\ board' = Stamped(board, o, v.arg) /\ v.op = "stamp" /\ v.at = Root
    BY Found DEF Next1, V, Made
  <1>2. /\ pc \in Phases /\ pc # "idle" /\ v \in Verbs
        /\ Fits(pc, board, before, v) /\ Ready(board, before, hand, ToSet(journal), v)
        /\ board \in Boards /\ Consistent(board)
        /\ opts.allow < 2 => v.op \in {"join", "next", "done"}
    BY <1>1, Found
  <1>3. ~(opts.allow < 2) /\ hand # << >> /\ (Early => 1 \in Hits(queue, Stamps(Root, v.arg)))
    <2>1. queue \in Seq(Fit(pc, board, before)) BY <1>1 DEF Inv, QueueInv
    <2>2. 1 \in 1..Len(queue) BY <1>1, <2>1
    <2> QED BY <1>1, <1>2, <2>2 DEF Ready, Hits, Stamps
  <1> HIDE DEF v
  <1>4. o \in Objs /\ board.home[o] # None /\ o \in IF Early THEN Dpnis ELSE Switches BY <1>3, Held1
  <1> HIDE DEF o
  <1>5. v.arg \in Names
    <2>1. Labels \subseteq Names BY DomainsIn DEF Labels
    <2> QED BY <1>1, <1>2, <2>1 DEF Fits
  <1>6. /\ board' \in Boards /\ board'.home = board.home /\ board'.tag = [board.tag EXCEPT ![o] = v.arg]
        /\ board'.plugged = board.plugged /\ board'.wire = board.wire
        /\ Consistent(board')
    BY <1>1, <1>2, <1>4, <1>5, StampedIs, StampedSound
  <1>7. \A p \in Objs : board'.tag[p] = IF p = o THEN v.arg ELSE board.tag[p]
    BY <1>2, <1>4, <1>6, BoardIn
  <1>8. ASSUME NEW h \in Homes, NEW n \in Names
        PROVE  \/ Cardinality(RowsNamed(board', h, n)) <= PlannedEnds(h, n)
               \/ RowsNamed(board', h, n) \subseteq RowsNamed(before, h, n)
    <2> DEFINE A == RowsNamed(board, h, n)
               B == RowsNamed(board', h, n)
               c == Cardinality(Pend(h, n))
    <2>1. QueueInv /\ CountInv /\ links \in Intents BY DEF Inv, Shapes
    <2>2. Dpnis \subseteq Objs /\ Dpnis \cap Switches = {} BY EndsApart DEF Objs
    <2>3. IsFiniteSet(A) /\ PlannedEnds(h, n) \in Nat /\ c \in Nat /\ (c = 0 <=> Pend(h, n) = {})
      BY <1>2, <2>1, RowIn, TokensFinite, PendIn
    <2>4. (A \subseteq RowsNamed(before, h, n) /\ Pend(h, n) = {}) \/ Cardinality(A) + c <= PlannedEnds(h, n)
      BY <1>2, <2>1 DEF CountInv
    <2>5. CASE Early /\ n = v.arg /\ h = Root
      <3>1. c # 0 BY <1>3, <2>3, <2>5 DEF Pend
      <3>2. B \subseteq A \cup {o} BY <1>6, <1>7, <2>2 DEF RowsNamed
      <3> HIDE DEF A, B, c
      <3>3. Cardinality(B) <= Cardinality(A) + 1 /\ Cardinality(A) \in Nat /\ Cardinality(B) \in Nat
        BY <2>3, <3>2, OneMore
      <3>4. Cardinality(B) <= PlannedEnds(h, n) BY <2>3, <2>4, <3>1, <3>3 DEF c
      <3> QED BY <3>4 DEF B
    <2>6. CASE ~(Early /\ n = v.arg /\ h = Root)
      <3>1. B \subseteq A
        <4>1. Early => board.home[o] = Root BY <1>1, <1>2 DEF Ready, o
        <4> QED BY <1>4, <1>6, <1>7, <2>2, <2>6, <4>1 DEF RowsNamed
      <3> HIDE DEF A, B, c
      <3>2. Cardinality(B) <= Cardinality(A) /\ Cardinality(A) \in Nat /\ Cardinality(B) \in Nat
        BY <2>3, <3>1, FS_Subset, FS_CardinalityType
      <3>3. Cardinality(B) <= PlannedEnds(h, n) \/ B \subseteq RowsNamed(before, h, n)
        BY <2>3, <2>4, <3>1, <3>2
      <3> QED BY <3>3 DEF B
    <2> QED BY <2>5, <2>6
  <1> QED BY <1>3, <1>6, <1>8 DEF Landed, Lost

LEMMA LandedIs ==
  ASSUME Inv, LastSpawn
  PROVE  Landed /\ pc \in Phases /\ queue # << >>
  <1>1. queue # << >> BY DEF LastSpawn, Next1
  <1>2. /\ pc \in Phases /\ Head(queue) = queue[1] /\ board \in Boards /\ Consistent(board)
        /\ Fits(pc, board, before, queue[1]) /\ Ready(board, before, hand, ToSet(journal), queue[1])
        /\ opts.allow < 2 => queue[1].op \in {"join", "next", "done"}
    BY <1>1, Found
  <1>3. CASE Next1("stamp") /\ V.at = Root /\ board' = Stamped(board, Made, V.arg)
    BY <1>1, <1>2, <1>3, LandedStamp
  <1>4. CASE Next1("plug") /\ board' = PluggedIn(board, Made)
    <2> DEFINE o == Last(hand)
    <2>1. queue[1].op = "plug" /\ hand # << >> /\ pc = "population" /\ board' = PluggedIn(board, o)
      BY <1>2, <1>4 DEF Next1, Made, Ready, Fits
    <2>2. o \in ToSet(hand) /\ o \in Objs /\ board.home[o] # None BY <2>1, Held1
    <2> HIDE DEF o
    <2>3. /\ board' \in Boards /\ board'.home = board.home /\ board'.tag = board.tag
          /\ board'.plugged = board.plugged \cup {o} /\ board'.wire = board.wire /\ Consistent(board')
      BY <1>2, <2>1, <2>2, PluggedIs, PluggedSound
    <2>4. \A h \in Homes, n \in Names : RowsNamed(board', h, n) = RowsNamed(board, h, n)
      BY <2>3 DEF RowsNamed
    <2>5. NeverDoubled /\ pc # "idle" BY <2>1, InvFabric DEF FabricInv
    <2> QED BY <1>1, <1>2, <2>1, <2>2, <2>3, <2>4, <2>5 DEF Landed, Lost, NeverDoubled
  <1>5. CASE Next1("join") /\ CanJoin(board, EndA, V.b) /\ board' = Joined(board, EndA, V.b)
    <2> DEFINE e == EndA
               f == queue[1].b
    <2>1. /\ Early /\ e \in Ends /\ f \in Ends /\ Stands(board, e) /\ Stands(board, f)
          /\ CanJoin(board, e, f) /\ board' = Joined(board, e, f)
      BY <1>1, <1>2, <1>5, JoinEnds DEF Next1, V
    <2> HIDE DEF e, f
    <2> QED BY <1>1, <1>2, <2>1, LandedEdge
  <1>6. CASE Next1("wire") /\ CanJoin(board, EndA, EndB) /\ board' = Joined(board, EndA, EndB)
    <2> DEFINE e == EndA
               f == EndB
    <2>1. /\ Early /\ e \in Ends /\ f \in Ends /\ Stands(board, e) /\ Stands(board, f)
          /\ CanJoin(board, e, f) /\ board' = Joined(board, e, f)
      BY <1>1, <1>2, <1>6, WireEnds DEF Next1
    <2> HIDE DEF e, f
    <2> QED BY <1>1, <1>2, <2>1, LandedEdge
  <1>7. CASE /\ Next1("port") /\ CanJoin(board, If(Made, V.arg), V.b)
             /\ board' = Joined(board, If(Made, V.arg), V.b)
    <2> DEFINE o == Last(hand)
               e == If(o, queue[1].arg)
               f == queue[1].b
    <2>1. CanJoin(board, e, f) /\ board' = Joined(board, e, f) /\ queue[1].op = "port"
      BY <1>2, <1>7 DEF Next1, V, Made
    <2>2. /\ o \in Objs /\ Row1("object", o) \in ToSet(journal) /\ e \in EndsOf(o)
          /\ e \in Ends /\ f \in Ends /\ Stands(board, e) /\ Stands(board, f)
      BY <1>1, <2>1, PortEnds
    <2> HIDE DEF o, e, f
    <2> QED BY <1>1, <1>2, <2>1, <2>2, LandedEdge
  <1> QED BY <1>3, <1>4, <1>5, <1>6, <1>7 DEF LastSpawn

LEMMA LandedKeeps ==
  ASSUME Inv, UNCHANGED given, pc \in Phases, Fail, Landed, edits' = edits, faults' \in 0..limit
  PROVE  Inv'
  <1>1. edits' \in 0..MaxEdits /\ board' \in Boards /\ Consistent(board') /\ board'.home = board.home
    BY DEF Inv, TypeOK, Landed
  <1>2. CASE opts.policy = "abort" BY <1>1, <1>2, EndKeeps DEF Fail
  <1>3. CASE opts.policy # "abort"
    <2>1. /\ queue' = << >> /\ hand' = << >> /\ pc' = "unwind"
          /\ UNCHANGED <<opts, journal, unreversed, before, made>> /\ UNCHANGED <<links, choices, limit>>
      BY <1>3 DEF Fail, history, given
    <2>2. pc # "idle" /\ pc' # "idle" /\ pc' # "population" /\ pc' \notin Phases /\ opts \in choices
      BY <2>1 DEF Phases, Inv, IdleInv
    <2>3. DOMAIN << >> = {} /\ ToSet(<< >>) = {} /\ Len(<< >>) = 0 BY NothingIn
    <2>4. TypeOK' BY <1>1, <2>1, <2>2, <2>3 DEF Inv, TypeOK
    <2>5. Shapes' /\ Consistent(board)' /\ Consistent(before)'
      BY <1>1, <2>1, NothingIn DEF Inv, Shapes
    <2>6. IdleInv' /\ QueueInv' /\ HandInv' BY <2>1, <2>2, <2>3 DEF IdleInv, QueueInv, HandInv
    <2>7. Spared' = Spared /\ Rows' = Rows /\ ~Early' BY <2>1 DEF Spared, Rows, Early
    <2>8. SparedInv' /\ SwitchInv' BY <1>1, <2>1, <2>2, <2>7 DEF Inv, SparedInv, SwitchInv
    <2>9. GateInv' BY <2>1, <2>2, <2>3 DEF Inv, GateInv
    <2>10. RecordInv'
      <3>1. ASSUME NEW e \in Loose' PROVE e \in Dpnis \cup Macs /\ Lost(e)
        <4>1. e \in Dpnis \cup Macs /\ board'.wire[e] \notin {None, before.wire[e]} /\ ~Covered(e, board'.wire[e])
          BY <2>1, <2>7 DEF Loose, Covered
        <4>2. board'.wire[e] = board.wire[e] => Covered(e, board.wire[e])
          BY <2>2, <4>1 DEF Inv, RecordInv
        <4> QED BY <4>1, <4>2 DEF Lost
      <3>2. \A e, f \in Loose' : before'.wire[e] = None /\ f \in {e, board'.wire[e]}
        BY <2>1, <3>1 DEF Landed
      <3> QED BY <1>1, <2>1, <2>2, <2>7, <3>2 DEF Inv, RecordInv
    <2>11. GateHolds' BY <1>1, <2>1, <2>2 DEF Inv, GateHolds, Landed
    <2>12. ForeignEdgesKept'
      <3>1. Dpnis \subseteq Ends /\ Macs \subseteq Ends BY EndsApart
      <3> QED BY <2>1, <2>2, <3>1 DEF Inv, ForeignEdgesKept, Landed, MayCut
    <2>13. CountInv'
      <3>1. ASSUME NEW h \in Homes, NEW n \in Names
            PROVE  \/ RowsNamed(board', h, n) \subseteq RowsNamed(before', h, n) /\ Pend(h, n)' = {}
                   \/ Cardinality(RowsNamed(board', h, n)) + Cardinality(Pend(h, n)') <= PlannedEnds(h, n)'
        <4> DEFINE B == RowsNamed(board', h, n)
        <4>1. Pend(h, n)' = {} BY <2>7 DEF Pend
        <4>2. Cardinality(Pend(h, n)') = 0 BY <4>1, FS_EmptySet
        <4>3. PlannedEnds(h, n)' = PlannedEnds(h, n) BY PlannedSame
        <4>4. IsFiniteSet(B) BY <1>1, RowIn
        <4>5. Cardinality(B) \in Nat BY <4>4, FS_CardinalityType
        <4>6. Cardinality(B) <= PlannedEnds(h, n) \/ B \subseteq RowsNamed(before, h, n)
          BY DEF Landed
        <4>7. RowsNamed(before', h, n) = RowsNamed(before, h, n) BY <2>1
        <4> HIDE DEF B
        <4>8. B \subseteq RowsNamed(before', h, n) \/ Cardinality(B) + Cardinality(Pend(h, n)') <= PlannedEnds(h, n)'
          BY <4>2, <4>3, <4>5, <4>6, <4>7
        <4> QED BY <4>1, <4>8 DEF B
      <3> QED BY <2>1, <2>2, <3>1 DEF CountInv
    <2> QED BY <2>4, <2>5, <2>6, <2>8, <2>9, <2>10, <2>11, <2>12, <2>13 DEF Inv
  <1> QED BY <1>2, <1>3

-----------------------------------------------------------------------------
(* The theorems. *)

LEMMA NextKeeps ==
  ASSUME Inv, [Next]_vars
  PROVE  Inv'
  <1>1. /\ edits \in 0..MaxEdits /\ faults \in 0..limit /\ limit \in Nat /\ (Injected => faults' \in 0..limit)
        /\ board \in Boards /\ Consistent(board)
    <2>1. edits \in 0..MaxEdits /\ faults \in 0..limit /\ limit \in Nat /\ board \in Boards /\ Consistent(board)
      BY DEF Inv, TypeOK
    <2> QED BY <2>1 DEF Injected
  <1>2. CASE UNCHANGED vars BY <1>2, RestKeeps
  <1>3. ASSUME Next PROVE Inv'
    <2>1. UNCHANGED given BY <1>3 DEF Next
    <2>2. CASE RewireRefused BY <1>1, <2>1, <2>2, EndKeeps DEF RewireRefused, budgets
    <2>3. CASE PruneNothing BY <1>1, <2>1, <2>3, EndKeeps DEF PruneNothing, budgets
    <2>4. CASE GateRefused BY <1>1, <2>1, <2>4, EndKeeps DEF GateRefused, budgets
    <2>5. CASE Plan BY <2>1, <2>5, PlanKeeps
    <2>6. CASE PhaseDone BY <2>1, <2>6, PhaseDoneKeeps
    <2>7. CASE Start BY <2>1, <2>7, StartKeeps
    <2>8. CASE Mint("mint", Dpnis) BY <2>1, <2>8, MintKeeps
    <2>9. CASE Mint("mintSwitch", Switches) BY <2>1, <2>9, MintKeeps
    <2>10. CASE Stamp BY <2>1, <2>10, StampKeeps
    <2>11. CASE PlugNew BY <2>1, <2>11, PlugNewKeeps
    <2>12. CASE Join BY <2>1, <2>12, JoinKeeps
    <2>13. CASE Wire BY <2>1, <2>13, WireKeeps
    <2>14. CASE PlugRootEnd BY <2>1, <2>14, PlugRootKeeps
    <2>15. CASE StepDone BY <2>1, <2>15, StepDoneKeeps
    <2>16. CASE Raise BY <2>1, <2>16, RaiseKeeps
    <2>17. CASE Sever BY <2>1, <2>17, SeverKeeps
    <2>18. CASE ConnectPort BY <2>1, <2>18, PortKeeps
    <2>19. CASE Destroy BY <2>1, <2>19, DestroyKeeps
    <2>20. CASE Refused
      <3>1. queue # << >> /\ Fail /\ board' = board /\ edits' = edits /\ faults' = faults
        BY <2>20 DEF Refused, Refusal, Next1, budgets
      <3>2. pc \in Phases BY <3>1 DEF Inv, QueueInv
      <3> QED BY <1>1, <2>1, <3>1, <3>2, FailKeeps
    <2>21. CASE UnwindRow BY <2>1, <2>21, UnwindRowKeeps
    <2>22. CASE UnwindDone BY <1>1, <2>1, <2>22, EndKeeps DEF UnwindDone, budgets
    <2>23. CASE UnwindRowFails BY <2>1, <2>23, UnwindRowFailsKeeps
    <2>24. CASE VerbFails BY <1>1, <2>1, <2>24, FailKeeps DEF VerbFails
    <2>25. CASE Killed BY <1>1, <2>1, <2>25, EndKeeps DEF Killed
    <2>26. CASE OperatorEdits BY <2>1, <2>26, EditKeeps
    <2>27. CASE ErrsAfterEffect BY <1>1, <2>1, <2>27, LandedIs, LandedKeeps DEF ErrsAfterEffect
    <2> QED
      <3>1. Tool \/ UnwindRowFails \/ VerbFails \/ ErrsAfterEffect \/ Killed \/ OperatorEdits
        BY <1>3 DEF Next
      <3>2. CASE Tool
        BY <2>2, <2>3, <2>4, <2>5, <2>6, <2>7, <2>8, <2>9, <2>10, <2>11, <2>12, <2>13, <2>14, <2>15, <2>16,
           <2>17, <2>18, <2>19, <2>20, <2>21, <2>22, <3>2 DEF Tool, Planned, Dispatched, Unwind
      <3> QED BY <2>23, <2>24, <2>25, <2>26, <2>27, <3>1, <3>2
  <1> QED BY <1>2, <1>3

LEMMA Inductive == Spec => []Inv
  <1>1. Init => Inv BY InitInv
  <1>2. Inv /\ [Next]_vars => Inv' BY NextKeeps
  <1> QED BY <1>1, <1>2, PTL DEF Spec

\* Whatever boards, intents, options, failures, kills and edits the constants allow: a
\* shut gate lets nothing but a missing edge of what stands through, an edge that is not
\* the run's to cut stands all through it, no pass makes an end a second time, and a clean
\* rollback leaves nothing the run recorded and one edge at most that was not there, that
\* of a connect which erred behind its effect (main.rs: the gates and the failure seam;
\* engine.rs converge_links, converge_switches, prune_switches).
THEOREM FabricKept == Spec => []FabricInv
  <1>1. Inv => FabricInv BY InvFabric
  <1> QED BY <1>1, Inductive, PTL

-----------------------------------------------------------------------------
(* What a converged verdict and a plug rest on.                              *)

SwRows(b, n) == {s \in Switches : b.home[s] = Root /\ b.tag[s] = n}

\* An object has no label until it is stamped.
Unnamed(b, hd, v) == v.op = "stamp" => b.tag[Last(hd)] = None

\* The end a plug is for.
PlugEnd(hd, v) == IF v.a # None THEN v.a ELSE IF v.op = "plugA" THEN hd[1] ELSE Last(hd)

\* A link's ends that lie in a child stand.
EndsThere(b, l) ==
  /\ l.a # Root => RowsNamed(b, l.a, l.label) # {}
  /\ l.b # Root => RowsNamed(b, l.b, l.label) # {}

\* Each end of a link in a child stands, or is to be made.
Provided(b, q) ==
  \A i \in DOMAIN links : \A k \in {links[i].a, links[i].b} \ {Root} :
    \/ RowsNamed(b, k, links[i].label) # {}
    \/ \E p \in 1..Len(q) : q[p] \in Stamps(k, links[i].label)

PopulationPart ==
  /\ made \subseteq Dpnis
  /\ \A o \in ToSet(hand) : board.home[o] # Root
  /\ queue # << >> => Unnamed(board, hand, queue[1]) /\ Provided(board, queue)

\* A verb that wires the link.
Brings(b, v, l) ==
  /\ v.op = "wire" /\ v.arg = l.label
  /\ v.a \in RowsNamed(b, l.a, l.label) \/ (v.a = None /\ l.a = Root)
  /\ v.b \in RowsNamed(b, l.b, l.label) \/ (v.b = None /\ l.b = Root)

\* Each link stands or is still owed.
WiredOrOwed(b, q) ==
  \A i \in DOMAIN links : Apart(links[i]) =>
    Wired(b, links[i]) \/ \E p \in 1..Len(q) : Brings(b, q[p], links[i])

\* A stamp and what follows it are for one link.
Paired(q) == \A p \in 1..(Len(q) - 1) : q[p].op = "stamp" => q[p+1].arg = q[p].arg

\* What the current link has created so far is labelled, but for the one to stamp.
HandNamed(b, hd, v) ==
  v.op \in {"mint", "stamp", "wire"} =>
    \A x \in 1..Len(hd) : \/ v.op = "stamp" /\ x = Len(hd)
                          \/ hd[x] \in RowsNamed(b, Root, v.arg)

\* The ends about to be plugged face something.
PlugsWired(b, hd, q) ==
  /\ q[1].op \in {"plugA", "plugB"} => b.wire[PlugEnd(hd, q[1])] # None
  /\ q[1].op = "plugA" /\ Len(q) > 1 /\ q[2].op = "plugB" => b.wire[PlugEnd(hd, q[2])] # None

LinksPart ==
  /\ made \subseteq Dpnis
  /\ queue = << >> => \A i \in DOMAIN links : EndsThere(board, links[i])
  /\ queue # << >> =>
       /\ Unnamed(board, hand, queue[1]) /\ HandNamed(board, hand, queue[1])
       /\ PlugsWired(board, hand, queue) /\ Paired(queue) /\ WiredOrOwed(board, queue)

\* What the end of a port is to be.
Right(b, d, j, e) == IF j = 0 THEN e = d.uplink ELSE e \in Dpnis /\ b.tag[e] = d.members[j].label

\* The verbs of a raise, by place.
Script(b, d, p, v) ==
  LET n == Len(d.members)
  IN /\ p = 0 => v.op = "sever"
     /\ p = 1 => v.op = "mintSwitch"
     /\ p = 2 => v.op = "stamp" /\ v.arg = d.label
     /\ p \in 3..(n+3) => v.op = "port" /\ v.arg = p - 3 /\ Right(b, d, p - 3, v.b)
     /\ p = n + 4 => v.op = "plugA"
     /\ p = n + 5 => v.op = "next"

\* The id the next switch gets comes before those of the label.
Room(b, n) == \A t \in SwRows(b, n) : \E f \in FreeIds(b, Switches) : f < t

\* What stands of a switch when its raise has come to place k.
Part(b, hd, d, k) ==
  /\ k <= 1 => Room(b, d.label)
  /\ k >= 2 =>
       /\ Len(hd) = 1 /\ hd[1] \notin b.drifted /\ b.home[hd[1]] = Root
       /\ \A t \in SwRows(b, d.label) : hd[1] <= t
       /\ b.tag[hd[1]] = IF k = 2 THEN None ELSE d.label
       /\ \A j \in 0..Len(d.members) : j + 3 < k => Right(b, d, j, b.wire[If(hd[1], j)])
       /\ k = Len(d.members) + 5 => hd[1] \in b.plugged

Raised(q, i) == \E p \in 1..Len(q) : q[p].op = "raise" /\ q[p].arg = i
Once(q) ==
  \A p, r \in 1..Len(q) :
    q[p].op = "raise" /\ q[r].op = "raise" /\ q[p].arg = q[r].arg => p = r

\* A destroy is for the raise behind it; any other raise finds no switch of its label.
Cleared(b, q) ==
  \A p \in 1..(Len(q) - 1) :
    /\ q[p].op = "destroy" =>
         q[p+1].op = "raise" /\ q[p].a = DomainSwitch(b, Domains[q[p+1].arg])
    /\ q[p+1].op = "raise" /\ q[p].op # "destroy" => SwRows(b, Domains[q[p+1].arg].label) = {}

\* The raise of domain i is under way, and its place k is the head.
Rises(b, hd, q, i, k) ==
  LET n == Len(Domains[i].members)
  IN /\ n <= Widest /\ Len(q) > n + 5 - k
     /\ \A p \in k..(n+5) : Script(b, Domains[i], p, q[p-k+1])
     /\ Part(b, hd, Domains[i], k)
     /\ ~Raised(q, i)
Rising(b, hd, q, i) == \E k \in 0..(Len(Domains[i].members) + 5) : Rises(b, hd, q, i, k)

\* A domain has its switch, complete if this run made it.
Up(b, m, i) ==
  LET s == DomainSwitch(b, Domains[i])
  IN /\ s # None /\ s \notin b.drifted
     /\ s \in m => Len(Domains[i].members) <= Widest /\ Complete(b, s, Domains[i])

AllWired(b) == \A i \in DOMAIN links : Apart(links[i]) => Wired(b, links[i])

\* The verbs between two raises.
Outer == {"raise", "destroy", "done"}

SwitchQueue(b, hd, m, q) ==
  /\ Cleared(b, q) /\ Once(q)
  /\ q[1].op = "raise" => Room(b, Domains[q[1].arg].label)
  /\ q[1].op \in Outer \/ \E i \in DOMAIN Domains : Rising(b, hd, q, i)
  /\ \A i \in DOMAIN Domains : Up(b, m, i) \/ Raised(q, i) \/ Rising(b, hd, q, i)

SwitchesPart ==
  /\ AllWired(board)
  /\ queue = << >> => made \subseteq Dpnis
  /\ queue # << >> => SwitchQueue(board, hand, made, queue)

PrunePart ==
  /\ AllWired(board)
  /\ \A i \in DOMAIN Domains : Up(board, made, i)
  /\ \A p \in 1..Len(queue) : queue[p].op = "destroy" => board.tag[queue[p].a] \notin Labels

\* Phase by phase; the last part is what a converged verdict claims.
WiredInv ==
  /\ pc # "idle" => outcome # "converged"
  /\ pc = "population" => PopulationPart
  /\ pc = "links" => LinksPart
  /\ pc = "switches" => SwitchesPart
  /\ pc = "prune" => PrunePart

-----------------------------------------------------------------------------
(* Rows, switches and edges over a verb.                                     *)

LEMMA LowestLeast ==
  ASSUME NEW S, S \subseteq Nat, S # {}
  PROVE  Lowest(S) \in S /\ \A t \in S : Lowest(S) <= t
  <1>1. PICK i \in S : \A j \in S : ~(j < i) BY SomeLeast
  <1>2. \A j \in S : i <= j BY <1>1
  <1> QED BY <1>2 DEF Lowest

LEMMA SwitchOf ==
  ASSUME NEW b \in Boards, NEW d
  PROVE  LET s == DomainSwitch(b, d)
         IN /\ s = None <=> SwRows(b, d.label) = {}
            /\ s # None => /\ s \in SwRows(b, d.label) /\ s \in Switches
                           /\ \A t \in SwRows(b, d.label) : s <= t
            /\ \A u \in SwRows(b, d.label) : (\A t \in SwRows(b, d.label) : u <= t) => s = u
  <1> DEFINE S == SwRows(b, d.label)
  <1>1. S \subseteq Switches /\ S \subseteq Nat /\ None \notin S BY IdsIn, NoneApart DEF SwRows
  <1>2. DomainSwitch(b, d) = IF S = {} THEN None ELSE Lowest(S) BY DEF DomainSwitch, SwRows
  <1> HIDE DEF S
  <1>3. S # {} => Lowest(S) \in S /\ \A t \in S : Lowest(S) <= t BY <1>1, LowestLeast
  <1>4. ASSUME NEW u \in S, \A t \in S : u <= t PROVE Lowest(S) = u
    <2>1. Lowest(S) \in Nat /\ u \in Nat /\ Lowest(S) <= u /\ u <= Lowest(S) BY <1>1, <1>3, <1>4
    <2> QED BY <2>1
  <1> QED BY <1>1, <1>2, <1>3, <1>4 DEF S

\* No row and no edge between dpnis is lost.
NoLess(b, c) ==
  /\ \A h \in Homes, n \in Names : RowsNamed(b, h, n) \subseteq RowsNamed(c, h, n)
  /\ \A x \in Dpnis : b.wire[x] \in Dpnis => c.wire[x] = b.wire[x]

LEMMA WiredKept ==
  ASSUME NEW b, NEW c, NoLess(b, c), NEW l \in Link
  PROVE  /\ Wired(b, l) => Wired(c, l)
         /\ EndsThere(b, l) => EndsThere(c, l)
         /\ \A v : Brings(b, v, l) => Brings(c, v, l)
  <1>1. /\ RowsNamed(b, l.a, l.label) \subseteq RowsNamed(c, l.a, l.label)
        /\ RowsNamed(b, l.b, l.label) \subseteq RowsNamed(c, l.b, l.label)
    BY DEF NoLess, Link
  <1>2. Wired(b, l) => Wired(c, l)
    <2> SUFFICES ASSUME NEW x \in RowsNamed(b, l.a, l.label), NEW y \in RowsNamed(b, l.b, l.label), b.wire[x] = y
                 PROVE  c.wire[x] = y
      BY <1>1 DEF Wired
    <2>1. x \in Dpnis /\ y \in Dpnis BY DEF RowsNamed
    <2> QED BY <2>1 DEF NoLess
  <1> QED BY <1>1, <1>2 DEF EndsThere, Brings

LEMMA LinkOf ==
  ASSUME links \in Intents
  PROVE  \A i \in DOMAIN links : links[i] \in Link /\ links[i].label \in Names
  <1>1. links \in Seq(Link) BY PlanAssumption
  <1> QED BY <1>1, LinksIn

\* What a verb that neither makes nor removes a switch of the label leaves of it.
Same(b, c, n) ==
  /\ SwRows(c, n) = SwRows(b, n)
  /\ \A s \in SwRows(b, n) :
       /\ s \in c.drifted <=> s \in b.drifted
       /\ s \in b.plugged => s \in c.plugged
       /\ \A e \in IfsOf(s) : b.wire[e] \in Dpnis \cup Macs => c.wire[e] = b.wire[e]
SameTags(b, c) == \A x \in Dpnis : c.tag[x] = b.tag[x]

LEMMA UpKept ==
  ASSUME NEW b \in Boards, NEW c \in Boards, NEW i \in DOMAIN Domains, NEW m, NEW m1,
         Same(b, c, Domains[i].label), SameTags(b, c),
         \A s \in SwRows(b, Domains[i].label) : s \in m1 => s \in m, Up(b, m, i)
  PROVE  Up(c, m1, i)
  <1> DEFINE d == Domains[i]
             s == DomainSwitch(b, d)
             n == Len(d.members)
  <1>1. s # None /\ s \in SwRows(b, d.label) /\ s \in Switches /\ \A t \in SwRows(b, d.label) : s <= t
    BY SwitchOf DEF Up
  <1>2. DomainSwitch(c, d) = s
    <2>1. SwRows(c, d.label) = SwRows(b, d.label) BY DEF Same
    <2> HIDE DEF s, d
    <2> QED BY <1>1, <2>1, SwitchOf
  <1>3. s \notin c.drifted BY <1>1 DEF Same, Up
  <1>4. ASSUME s \in m1 PROVE n <= Widest /\ Complete(c, s, d)
    <2>1. n <= Widest /\ Complete(b, s, d) BY <1>1, <1>4 DEF Up
    <2>2. d.uplink \in Macs /\ n \in Nat /\ DOMAIN d.members = 1..n BY DomainsIn
    <2>3. Widest \in Nat BY BoardAssumption
    <2>4. \A j \in 0..n : If(s, j) \in IfsOf(s)
      <3>1. \A j \in 0..n : j \in 0..Widest BY <2>1, <2>2, <2>3
      <3> HIDE DEF s, n
      <3> QED BY <1>1, <3>1, EndsApart
    <2>5. s \in c.plugged BY <1>1, <2>1 DEF Same, Complete
    <2>6. ASSUME NEW j \in 0..n, b.wire[If(s, j)] \in Dpnis \cup Macs PROVE c.wire[If(s, j)] = b.wire[If(s, j)]
      BY <1>1, <2>4, <2>6 DEF Same
    <2>7. c.wire[If(s, 0)] = d.uplink
      <3>1. 0 \in 0..n /\ b.wire[If(s, 0)] = d.uplink BY <2>1, <2>2 DEF Complete
      <3> QED BY <2>2, <2>6, <3>1
    <2>8. ASSUME NEW j \in DOMAIN d.members
          PROVE  c.wire[If(s, j)] \in Dpnis /\ c.tag[c.wire[If(s, j)]] = d.members[j].label
      <3>1. j \in 0..n /\ b.wire[If(s, j)] \in Dpnis /\ b.tag[b.wire[If(s, j)]] = d.members[j].label
        BY <2>1, <2>2 DEF Complete
      <3> QED BY <2>6, <3>1 DEF SameTags
    <2> QED BY <2>1, <2>5, <2>7, <2>8 DEF Complete
  <1> HIDE DEF s, n, d
  <1> QED BY <1>1, <1>2, <1>3, <1>4 DEF Up, d, n

\* A board whose homes and labels are another's, and that keeps its edges and drivers.
LEMMA MoreWired ==
  ASSUME NEW b \in Boards, NEW c \in Boards, c.home = b.home, c.tag = b.tag, b.plugged \subseteq c.plugged,
         c.drifted = b.drifted, \A e \in Ends : b.wire[e] # None => c.wire[e] = b.wire[e]
  PROVE  NoLess(b, c) /\ SameTags(b, c) /\ \A n : Same(b, c, n)
  <1>1. \A h, n : RowsNamed(c, h, n) = RowsNamed(b, h, n) /\ SwRows(c, n) = SwRows(b, n)
    BY DEF RowsNamed, SwRows
  <1>2. \A x \in Dpnis : x \in Ends /\ x # None BY NoneApart, EndsApart
  <1>3. \A x \in Macs : x # None BY NoneApart
  <1>4. \A n : \A s \in SwRows(b, n) : IfsOf(s) \subseteq Ends BY EndsApart DEF SwRows, Objs
  <1> QED BY <1>1, <1>2, <1>3, <1>4 DEF NoLess, SameTags, Same

LEMMA MintedAs ==
  ASSUME NEW b \in Boards, NEW o \in Objs, NEW h \in Homes
  PROVE  \A c : c = Minted(b, o, h) =>
           /\ c.tag = b.tag /\ c.wire = b.wire /\ c.plugged = b.plugged /\ c.drifted = b.drifted \ {o}
           /\ \A p \in Objs : c.home[p] = IF p = o THEN h ELSE b.home[p]
  <1> DEFINE m == Minted(b, o, h)
  <1>1. /\ m.home = [b.home EXCEPT ![o] = h] /\ m.tag = b.tag /\ m.wire = b.wire /\ m.plugged = b.plugged
        /\ m.drifted = b.drifted \ {o} /\ b.home \in [Objs -> Homes \cup {None}]
    BY MintedIs, BoardIn
  <1> HIDE DEF m
  <1>2. \A p \in Objs : m.home[p] = IF p = o THEN h ELSE b.home[p] BY <1>1
  <1> QED BY <1>1, <1>2 DEF m

LEMMA StampedAs ==
  ASSUME NEW b \in Boards, NEW o \in Objs, NEW n \in Names
  PROVE  \A c : c = Stamped(b, o, n) =>
           /\ c.home = b.home /\ c.wire = b.wire /\ c.plugged = b.plugged /\ c.drifted = b.drifted
           /\ \A p \in Objs : c.tag[p] = IF p = o THEN n ELSE b.tag[p]
  <1> DEFINE m == Stamped(b, o, n)
  <1>1. /\ m.tag = [b.tag EXCEPT ![o] = n] /\ m.home = b.home /\ m.wire = b.wire /\ m.plugged = b.plugged
        /\ m.drifted = b.drifted /\ b.tag \in [Objs -> Names \cup {None}]
    <2>1. n \in Names \cup {None} OBVIOUS
    <2> HIDE DEF m
    <2> QED BY <2>1, StampedIs, BoardIn DEF m
  <1> HIDE DEF m
  <1>2. \A p \in Objs : m.tag[p] = IF p = o THEN n ELSE b.tag[p] BY <1>1
  <1> QED BY <1>1, <1>2 DEF m

\* A new object has no label yet.
LEMMA MintMore ==
  ASSUME NEW b \in Boards, Consistent(b), NEW o \in Objs, b.home[o] = None, NEW h \in Homes,
         NEW c, c = Minted(b, o, h)
  PROVE  NoLess(b, c) /\ SameTags(b, c) /\ (\A n \in Names : Same(b, c, n)) /\ c.tag[o] = None
         /\ (o \in Switches => o \notin c.drifted) /\ c.home[o] = h
  <1>1. /\ c.tag = b.tag /\ c.wire = b.wire /\ c.plugged = b.plugged /\ c.drifted = b.drifted \ {o}
        /\ \A p \in Objs : c.home[p] = IF p = o THEN h ELSE b.home[p]
    BY MintedAs
  <1>2. b.tag[o] = None /\ Dpnis \subseteq Objs /\ Switches \subseteq Objs /\ Root \in Homes
    BY DEF Consistent, Objs, Homes
  <1>3. \A n \in Names : n # None BY NoneApart
  <1>4. \A g \in Homes, n \in Names : RowsNamed(c, g, n) = RowsNamed(b, g, n)
    BY <1>1, <1>2, <1>3 DEF RowsNamed
  <1>5. \A n \in Names : SwRows(c, n) = SwRows(b, n) /\ o \notin SwRows(b, n)
    BY <1>1, <1>2, <1>3 DEF SwRows
  <1> QED BY <1>1, <1>2, <1>4, <1>5 DEF NoLess, SameTags, Same

\* A label put on an object without one.
LEMMA StampMore ==
  ASSUME NEW b \in Boards, NEW o \in Objs, b.tag[o] = None, NEW n \in Names, NEW c, c = Stamped(b, o, n)
  PROVE  /\ NoLess(b, c) /\ c.home = b.home /\ c.wire = b.wire /\ c.plugged = b.plugged /\ c.drifted = b.drifted
         /\ \A p \in Objs : c.tag[p] = IF p = o THEN n ELSE b.tag[p]
         /\ o \in Switches => SameTags(b, c)
         /\ o \in Switches => \A l \in Names : l # n => Same(b, c, l)
         /\ o \in Switches /\ b.home[o] = Root => SwRows(c, n) = SwRows(b, n) \cup {o}
         /\ o \in Dpnis => o \in RowsNamed(c, b.home[o], n)
  <1>1. /\ c.home = b.home /\ c.wire = b.wire /\ c.plugged = b.plugged /\ c.drifted = b.drifted
        /\ \A p \in Objs : c.tag[p] = IF p = o THEN n ELSE b.tag[p]
    BY StampedAs
  <1>2. Dpnis \subseteq Objs /\ Switches \subseteq Objs /\ Dpnis \cap Switches = {}
    BY EndsApart DEF Objs
  <1>3. \A l \in Names : l # None BY NoneApart
  <1>4. NoLess(b, c) BY <1>1, <1>2, <1>3 DEF NoLess, RowsNamed
  <1>5. o \in Switches => SameTags(b, c) BY <1>1, <1>2 DEF SameTags
  <1>6. \A l \in Names : l # n => SwRows(c, l) = SwRows(b, l) BY <1>1, <1>2, <1>3 DEF SwRows
  <1>7. o \in Switches /\ b.home[o] = Root => SwRows(c, n) = SwRows(b, n) \cup {o}
    BY <1>1, <1>2 DEF SwRows
  <1>8. o \in Dpnis => o \in RowsNamed(c, b.home[o], n) BY <1>1, <1>2 DEF RowsNamed
  <1> QED BY <1>1, <1>4, <1>5, <1>6, <1>7, <1>8 DEF Same

LEMMA PlugMore ==
  ASSUME NEW b \in Boards, NEW o \in Objs, NEW c, c = PluggedIn(b, o)
  PROVE  /\ NoLess(b, c) /\ SameTags(b, c) /\ \A n : Same(b, c, n)
         /\ c.home = b.home /\ c.tag = b.tag /\ c.wire = b.wire /\ c.drifted = b.drifted
         /\ c.plugged = b.plugged \cup {o}
  <1>1. /\ c \in Boards /\ c.home = b.home /\ c.tag = b.tag /\ c.wire = b.wire /\ c.drifted = b.drifted
        /\ c.plugged = b.plugged \cup {o}
    BY PluggedIs
  <1>2. b.plugged \subseteq c.plugged BY <1>1
  <1> QED BY <1>1, <1>2, MoreWired

LEMMA JoinMore ==
  ASSUME NEW b \in Boards, NEW e \in Ends, NEW f \in Ends, CanJoin(b, e, f)
  PROVE  \A c : c = Joined(b, e, f) =>
           /\ NoLess(b, c) /\ SameTags(b, c) /\ \A n : Same(b, c, n)
           /\ c.home = b.home /\ c.tag = b.tag /\ c.plugged = b.plugged /\ c.drifted = b.drifted
           /\ \A x \in Ends : b.wire[x] # None => c.wire[x] = b.wire[x]
           /\ c.wire[e] = f /\ c.wire[f] = e
  <1> DEFINE m == Joined(b, e, f)
  <1>1. /\ m \in Boards /\ m.home = b.home /\ m.tag = b.tag /\ m.plugged = b.plugged /\ m.drifted = b.drifted
        /\ \A x \in Ends : m.wire[x] = IF x = f THEN e ELSE IF x = e THEN f ELSE b.wire[x]
    BY JoinedIs
  <1> HIDE DEF m
  <1>2. \A x \in Ends : b.wire[x] # None => m.wire[x] = b.wire[x] BY <1>1 DEF CanJoin
  <1>3. m.wire[e] = f /\ m.wire[f] = e BY <1>1 DEF CanJoin
  <1>4. b.plugged \subseteq m.plugged BY <1>1
  <1>5. NoLess(b, m) /\ SameTags(b, m) /\ \A n : Same(b, m, n) BY <1>1, <1>2, <1>4, MoreWired
  <1> QED BY <1>1, <1>2, <1>3, <1>5 DEF m

\* The edge of a dpni and a dpmac severed.
LEMMA CutMore ==
  ASSUME NEW b \in Boards, Consistent(b), NEW x \in Dpnis, b.wire[x] \in Macs, NEW c, c = Cut(b, {x})
  PROVE  /\ NoLess(b, c) /\ SameTags(b, c) /\ \A n : Same(b, c, n)
         /\ c.home = b.home /\ c.tag = b.tag /\ c.plugged = b.plugged /\ c.drifted = b.drifted
  <1>1. /\ c.home = b.home /\ c.tag = b.tag /\ c.plugged = b.plugged /\ c.drifted = b.drifted
        /\ \A e \in Ends : c.wire[e] = IF e = x \/ b.wire[e] = x THEN None ELSE b.wire[e]
    BY CutIs
  <1>2. Dpnis \subseteq Ends /\ Macs \subseteq Ends /\ Dpnis \cap Macs = {} /\ x \in Ends
    BY EndsApart
  <1>3. b.wire[x] # None /\ b.wire[b.wire[x]] = x BY <1>2, NoneApart DEF Consistent
  <1>4. \A e \in Ends : b.wire[e] = x => e = b.wire[x] BY <1>2, NoneApart DEF Consistent
  <1>5. \A e \in Ends \ Macs : e # x => c.wire[e] = b.wire[e] BY <1>1, <1>4
  <1>6. \A h, n : RowsNamed(c, h, n) = RowsNamed(b, h, n) /\ SwRows(c, n) = SwRows(b, n)
    BY <1>1 DEF RowsNamed, SwRows
  <1>7. \A n : \A s \in SwRows(b, n) : IfsOf(s) \subseteq Ends \ Macs /\ x \notin IfsOf(s)
    BY EndsApart DEF SwRows, Objs
  <1>8. NoLess(b, c) BY <1>2, <1>5, <1>6 DEF NoLess
  <1>9. \A n : Same(b, c, n) BY <1>1, <1>5, <1>6, <1>7 DEF Same
  <1> QED BY <1>1, <1>8, <1>9 DEF SameTags

\* A switch removed.
LEMMA GoneMore ==
  ASSUME NEW b \in Boards, Consistent(b), NEW s \in Switches, NEW c, c = Gone(b, s)
  PROVE  /\ NoLess(b, c) /\ SameTags(b, c) /\ \A n : s \notin SwRows(b, n) => Same(b, c, n)
         /\ \A n : SwRows(c, n) = SwRows(b, n) \ {s}
         /\ s \in FreeIds(c, Switches) /\ c.tag[s] = None
         /\ \A p \in Objs : p # s => c.tag[p] = b.tag[p]
         /\ c.plugged \subseteq b.plugged
  <1>1. /\ c.plugged = b.plugged \ {s} /\ c.drifted = b.drifted \ {s}
        /\ \A x \in Ends : c.wire[x] = IF x \in IfsOf(s) \/ b.wire[x] \in IfsOf(s) THEN None ELSE b.wire[x]
        /\ \A p \in Objs : c.home[p] = IF p = s THEN None ELSE b.home[p]
        /\ \A p \in Objs : c.tag[p] = IF p = s THEN None ELSE b.tag[p]
    <2>1. s \in Objs /\ EndsOf(s) = IfsOf(s) BY EndsApart DEF Objs
    <2>2. GoneFrom(c, b, s) BY <2>1, GoneBoth
    <2> QED BY <2>1, <2>2, BoardIn DEF GoneFrom
  <1>2. /\ Dpnis \subseteq Objs /\ Switches \subseteq Objs /\ Dpnis \cap Switches = {} /\ Dpnis \subseteq Ends
        /\ IfsOf(s) \cap (Dpnis \cup Macs) = {}
    <2>1. s \in Objs /\ EndsOf(s) = IfsOf(s) BY EndsApart DEF Objs
    <2> QED BY <2>1, EndsApart DEF Objs
  <1>3. \A t \in Switches : t # s => IfsOf(t) \cap IfsOf(s) = {} /\ IfsOf(t) \subseteq Ends
    BY EndsApart DEF Objs
  <1>4. None # Root BY NoneApart DEF Homes
  <1>5. NoLess(b, c) BY <1>1, <1>2 DEF NoLess, RowsNamed
  <1>6. \A n : SwRows(c, n) = SwRows(b, n) \ {s} BY <1>1, <1>2, <1>4 DEF SwRows
  <1>7. ASSUME NEW n, s \notin SwRows(b, n) PROVE Same(b, c, n)
    <2>1. SwRows(c, n) = SwRows(b, n) BY <1>6, <1>7
    <2>2. \A t \in SwRows(b, n) : t \in Switches /\ t # s BY <1>7 DEF SwRows
    <2> QED BY <1>1, <1>2, <1>3, <2>1, <2>2 DEF Same
  <1>8. SameTags(b, c) BY <1>1, <1>2 DEF SameTags
  <1> QED BY <1>1, <1>2, <1>5, <1>6, <1>7, <1>8 DEF FreeIds

-----------------------------------------------------------------------------
(* Population and the links: the head's verbs. *)

LEMMA Took ==
  ASSUME Inv, queue # << >>, queue[1].op # "done", Advance
  PROVE  /\ pc \in Phases /\ pc' = pc /\ outcome' = outcome /\ queue' = Tail(queue)
         /\ Len(queue) \in Nat /\ Len(queue) > 1 /\ Len(queue') = Len(queue) - 1 /\ queue' # << >>
         /\ \A p \in 1..Len(queue') : p + 1 \in 1..Len(queue) /\ queue'[p] = queue[p+1]
         /\ queue'[1] = queue[2] /\ Follows(pc, queue[1], queue'[1])
         /\ Len(queue') > 1 => queue'[2] = queue[3] /\ Follows3(queue[1], queue[2], queue[3])
         /\ queue[1] \in Fit(pc, board, before) /\ Fits(pc, board, before, queue'[1])
         /\ pc \in {"population", "links"} /\ queue'[1].op = "stamp" => queue[1].op = "mint"
  <1> DEFINE T == Fit(pc, board, before)
             n == Len(queue)
  <1>1. /\ pc \in Phases /\ queue \in Seq(T) /\ Linked(pc, queue) /\ queue[n].op = "done"
    BY DEF Inv, QueueInv
  <1>2. pc' = pc /\ outcome' = outcome /\ queue' = Tail(queue) BY DEF Advance
  <1>3. n \in Nat /\ n # 0 /\ n # 1 /\ \A p \in 1..n : queue[p] \in T BY <1>1
  <1> HIDE DEF T
  <1>4. n > 1 /\ Len(queue') = n - 1 /\ queue' # << >> /\ \A p \in 1..(n-1) : p + 1 \in 1..n /\ queue'[p] = queue[p+1]
    <2>1. n > 1 BY <1>1, <1>3
    <2>2. /\ Tail(queue) # << >> /\ Len(Tail(queue)) = n - 1
          /\ \A p \in 1..(n-1) : p + 1 \in 1..n /\ Tail(queue)[p] = queue[p+1]
      <3>1. queue \in Seq(T) /\ Len(queue) > 1 BY <1>1, <2>1
      <3> DEFINE t == Tail(queue)
      <3>2. t \in Seq(T) /\ Len(t) = n - 1 /\ \A p \in 1..(n-1) : t[p] = queue[p+1] BY <3>1
      <3>3. \A p \in 1..(n-1) : p + 1 \in 1..n BY <1>3
      <3> HIDE DEF t, n
      <3>4. t # << >> BY <1>3, <2>1, <3>2
      <3> QED BY <3>2, <3>3, <3>4 DEF t
    <2> QED BY <1>2, <2>1, <2>2
  <1>5. queue'[1] = queue[2] /\ queue[1] \in T /\ queue[2] \in T BY <1>3, <1>4
  <1>6. Follows(pc, queue[1], queue[2]) BY <1>1, <1>3, <1>4 DEF Linked
  <1>7. n > 2 => queue'[2] = queue[3] /\ Follows3(queue[1], queue[2], queue[3])
    BY <1>1, <1>3, <1>4 DEF Linked
  <1>8. Fits(pc, board, before, queue[1]) /\ Fits(pc, board, before, queue[2]) BY <1>5 DEF T, Fit
  <1>9. pc \in {"population", "links"} /\ queue[2].op = "stamp" => queue[1].op = "mint"
    BY <1>6, <1>8 DEF Fits, Follows
  <1> QED BY <1>1, <1>2, <1>3, <1>4, <1>5, <1>6, <1>7, <1>8, <1>9 DEF T

LEMMA PopulationOn ==
  ASSUME Inv, WiredInv, UNCHANGED given, pc = "population", queue # << >>, queue[1].op # "done", Advance,
         NoLess(board, board'), made' \subseteq Dpnis, \A o \in ToSet(hand') : board'.home[o] # Root,
         queue[1].op = "stamp" => RowsNamed(board', queue[1].at, queue[1].arg) # {},
         queue[1].op = "mint" => board'.tag[Last(hand')] = None
  PROVE  WiredInv'
  <1>1. /\ pc' = pc /\ outcome' = outcome /\ Len(queue) \in Nat /\ Len(queue') = Len(queue) - 1 /\ queue' # << >>
        /\ \A p \in 1..Len(queue') : p + 1 \in 1..Len(queue) /\ queue'[p] = queue[p+1]
        /\ queue'[1].op = "stamp" => queue[1].op = "mint"
    BY Took
  <1>2. PopulationPart /\ outcome # "converged" BY DEF WiredInv
  <1>3. Unnamed(board', hand', queue'[1]) BY <1>1 DEF Unnamed
  <1>4. Provided(board, queue)'
    <2>1. links' = links /\ links \in Intents BY DEF given, Inv, Shapes
    <2> SUFFICES ASSUME NEW i \in DOMAIN links, NEW k \in {links[i].a, links[i].b} \ {Root}
                 PROVE  \/ RowsNamed(board', k, links[i].label) # {}
                        \/ \E p \in 1..Len(queue') : queue'[p] \in Stamps(k, links[i].label)
      BY <2>1 DEF Provided
    <2>2. links[i].label \in Names /\ k \in Homes BY <2>1, LinkOf DEF Link
    <2>3. RowsNamed(board, k, links[i].label) \subseteq RowsNamed(board', k, links[i].label)
      BY <2>2 DEF NoLess
    <2>4. \/ RowsNamed(board, k, links[i].label) # {}
          \/ \E p \in 1..Len(queue) : queue[p] \in Stamps(k, links[i].label)
      BY <1>2 DEF PopulationPart, Provided
    <2>5. ASSUME NEW p \in 1..Len(queue), queue[p] \in Stamps(k, links[i].label), p # 1
          PROVE  \E r \in 1..Len(queue') : queue'[r] \in Stamps(k, links[i].label)
      <3>1. p - 1 \in 1..Len(queue') /\ (p - 1) + 1 = p BY <1>1, <2>5
      <3>2. queue'[p-1] = queue[p] BY <1>1, <3>1
      <3> QED BY <2>5, <3>1, <3>2
    <2>6. ASSUME queue[1] \in Stamps(k, links[i].label) PROVE RowsNamed(board', k, links[i].label) # {}
      BY <2>6 DEF Stamps
    <2> QED BY <2>3, <2>4, <2>5, <2>6
  <1> QED BY <1>1, <1>2, <1>3, <1>4 DEF WiredInv, PopulationPart

LEMMA LinksOn ==
  ASSUME Inv, WiredInv, UNCHANGED given, pc = "links", queue # << >>, queue[1].op # "done", Advance,
         NoLess(board, board'), made' \subseteq Dpnis,
         queue[1].op = "mint" => board'.tag[Last(hand')] = None,
         HandNamed(board', hand', queue'[1]), PlugsWired(board', hand', queue'),
         queue[1].op = "wire" =>
           \A i \in DOMAIN links : Brings(board, queue[1], links[i]) => Wired(board', links[i])
  PROVE  WiredInv'
  <1>1. /\ pc' = pc /\ outcome' = outcome /\ Len(queue) \in Nat /\ Len(queue') = Len(queue) - 1 /\ queue' # << >>
        /\ \A p \in 1..Len(queue') : p + 1 \in 1..Len(queue) /\ queue'[p] = queue[p+1]
        /\ queue'[1].op = "stamp" => queue[1].op = "mint"
    BY Took
  <1>2. LinksPart /\ outcome # "converged" BY DEF WiredInv
  <1>3. Unnamed(board', hand', queue'[1]) BY <1>1 DEF Unnamed
  <1>4. links' = links /\ links \in Intents BY DEF given, Inv, Shapes
  <1>5. Paired(queue')
    <2> SUFFICES ASSUME NEW p \in 1..(Len(queue') - 1), queue'[p].op = "stamp"
                 PROVE  queue'[p+1].arg = queue'[p].arg
      BY DEF Paired
    <2>1. p + 1 \in 1..(Len(queue) - 1) /\ p \in 1..Len(queue') /\ p + 1 \in 1..Len(queue') BY <1>1
    <2>2. queue'[p] = queue[p+1] /\ queue'[p+1] = queue[(p+1)+1] BY <1>1, <2>1
    <2> QED BY <1>2, <2>1, <2>2 DEF LinksPart, Paired
  <1>6. WiredOrOwed(board, queue)'
    <2> SUFFICES ASSUME NEW i \in DOMAIN links, Apart(links[i])
                 PROVE  Wired(board', links[i]) \/ \E p \in 1..Len(queue') : Brings(board', queue'[p], links[i])
      BY <1>4 DEF WiredOrOwed
    <2>1. links[i] \in Link BY <1>4, LinkOf
    <2>2. \/ Wired(board, links[i])
          \/ \E p \in 1..Len(queue) : Brings(board, queue[p], links[i])
      BY <1>2 DEF LinksPart, WiredOrOwed
    <2>3. /\ Wired(board, links[i]) => Wired(board', links[i])
          /\ \A v : Brings(board, v, links[i]) => Brings(board', v, links[i])
      BY <2>1, WiredKept
    <2>4. ASSUME NEW p \in 1..Len(queue), Brings(board, queue[p], links[i]), p # 1
          PROVE  \E r \in 1..Len(queue') : Brings(board', queue'[r], links[i])
      <3>1. p - 1 \in 1..Len(queue') /\ (p - 1) + 1 = p BY <1>1, <2>4
      <3>2. queue'[p-1] = queue[p] BY <1>1, <3>1
      <3> QED BY <2>3, <2>4, <3>1, <3>2
    <2>5. ASSUME Brings(board, queue[1], links[i]) PROVE Wired(board', links[i]) BY <2>5 DEF Brings
    <2> QED BY <2>2, <2>3, <2>4, <2>5
  <1> QED BY <1>1, <1>2, <1>3, <1>5, <1>6 DEF WiredInv, LinksPart

\* What a mint finds and leaves.
LEMMA MintedNow ==
  ASSUME Inv, NEW op, NEW kind,
         (op = "mint" /\ kind = Dpnis) \/ (op = "mintSwitch" /\ kind = Switches), Mint(op, kind)
  PROVE  LET o == hand'[Len(hand')]
         IN /\ queue # << >> /\ queue[1].op = op /\ Advance /\ made' = made
            /\ o \in kind /\ o \in Objs /\ board.home[o] = None /\ \A t \in FreeIds(board, kind) : o <= t
            /\ board' = Minted(board, o, queue[1].at) /\ queue[1].at \in Homes
            /\ op = "mint" => pc \in {"population", "links"}
            /\ op = "mintSwitch" => pc = "switches" /\ hand = << >>
            /\ Len(hand) \in Nat /\ Len(hand') = Len(hand) + 1 /\ Last(hand') = o
            /\ ToSet(hand') = ToSet(hand) \cup {o} /\ \A x \in 1..Len(hand) : hand'[x] = hand[x]
            /\ NoLess(board, board') /\ SameTags(board, board') /\ \A n \in Names : Same(board, board', n)
            /\ board'.tag[o] = None /\ o \notin board'.drifted /\ board'.home[o] = queue[1].at
            /\ \A p \in ToSet(hand) : p \in Objs /\ board'.home[p] = board.home[p]
  <1> DEFINE o == Lowest(FreeIds(board, kind))
  <1>1. /\ queue # << >> /\ Head(queue).op = op /\ FreeIds(board, kind) # {}
        /\ hand' = Append(hand, o) /\ board' = Minted(board, o, Head(queue).at)
        /\ Advance /\ made' = made
    BY DEF Mint, Next1, V, Silent
  <1>2. /\ Head(queue) = queue[1] /\ Fits(pc, board, before, queue[1])
        /\ Ready(board, before, hand, ToSet(journal), queue[1])
        /\ board \in Boards /\ Consistent(board) /\ hand \in Seq(Objs) /\ pc \in Phases
    BY <1>1, Found
  <1>3. /\ queue[1].op = op /\ queue[1].at \in Homes
        /\ op = "mint" => pc \in {"population", "links"}
        /\ op = "mintSwitch" => pc = "switches" /\ hand = << >>
    <2>1. Root \in Homes /\ Kids \subseteq Homes BY DEF Homes
    <2> QED BY <1>1, <1>2, <2>1 DEF Fits, Ready
  <1>4. kind \subseteq Objs /\ kind \subseteq Nat /\ Dpnis \cap Switches = {}
    BY IdsIn, EndsApart DEF Objs
  <1>5. o \in kind /\ o \in Objs /\ board.home[o] = None /\ \A t \in FreeIds(board, kind) : o <= t
    <2>1. FreeIds(board, kind) \subseteq Nat BY <1>4 DEF FreeIds
    <2>2. o \in FreeIds(board, kind) /\ \A t \in FreeIds(board, kind) : o <= t
      BY <1>1, <2>1, LowestLeast
    <2> QED BY <1>4, <2>2 DEF FreeIds
  <1> HIDE DEF o
  <1>6. /\ Len(hand) \in Nat /\ Len(hand') = Len(hand) + 1 /\ hand'[Len(hand')] = o
        /\ \A x \in 1..Len(hand) : hand'[x] = hand[x]
    BY <1>1, <1>2, <1>5
  <1>7. ToSet(hand') = ToSet(hand) \cup {o} /\ Last(hand') = o BY <1>1, <1>2, <1>5, AppendIs
  <1>8. board' = Minted(board, o, queue[1].at) BY <1>1, <1>2
  <1>9. /\ NoLess(board, board') /\ SameTags(board, board') /\ (\A n \in Names : Same(board, board', n))
        /\ board'.tag[o] = None /\ (o \in Switches => o \notin board'.drifted) /\ board'.home[o] = queue[1].at
    <2> DEFINE h == queue[1].at
    <2>1. h \in Homes /\ board' = Minted(board, o, h) BY <1>3, <1>8
    <2> HIDE DEF h
    <2>2. /\ NoLess(board, board') /\ SameTags(board, board') /\ (\A n \in Names : Same(board, board', n))
          /\ board'.tag[o] = None /\ (o \in Switches => o \notin board'.drifted) /\ board'.home[o] = h
      BY <1>2, <1>5, <2>1, MintMore
    <2> QED BY <2>2 DEF h
  <1>10. o \notin board'.drifted
    <2>1. board'.drifted = board.drifted \ {o} BY <1>2, <1>3, <1>5, <1>8, MintedAs
    <2> QED BY <2>1
  <1>11. \A p \in ToSet(hand) : p \in Objs /\ board'.home[p] = board.home[p]
    <2> TAKE p \in ToSet(hand)
    <2>1. p \in Objs /\ board.home[p] # None BY <1>2 DEF ToSet, Inv, HandInv
    <2>2. \A x \in Objs : board'.home[x] = IF x = o THEN queue[1].at ELSE board.home[x]
      BY <1>2, <1>3, <1>5, <1>8, MintedAs
    <2> QED BY <1>5, <2>1, <2>2
  <1> QED BY <1>1, <1>3, <1>5, <1>6, <1>7, <1>8, <1>9, <1>10, <1>11

LEMMA MintW ==
  ASSUME Inv, WiredInv, UNCHANGED given, Mint("mint", Dpnis)
  PROVE  WiredInv'
  <1> DEFINE o == hand'[Len(hand')]
             v == queue[1]
  <1>1. /\ queue # << >> /\ v.op = "mint" /\ Advance /\ made' = made
        /\ o \in Dpnis /\ board.home[o] = None /\ v.at \in Homes
        /\ pc \in {"population", "links"}
        /\ Len(hand) \in Nat /\ Len(hand') = Len(hand) + 1 /\ Last(hand') = o
        /\ ToSet(hand') = ToSet(hand) \cup {o} /\ \A x \in 1..Len(hand) : hand'[x] = hand[x]
        /\ NoLess(board, board') /\ board'.tag[o] = None /\ board'.home[o] = v.at
        /\ \A p \in ToSet(hand) : p \in Objs /\ board'.home[p] = board.home[p]
    BY MintedNow
  <1>2. Fits(pc, board, before, v) BY <1>1, Found
  <1> HIDE DEF o
  <1>3. queue'[1].op = "stamp" /\ queue'[1].arg = v.arg BY <1>1, Took DEF Follows
  <1>4. CASE pc = "population"
    <2>1. PopulationPart /\ v.at # Root BY <1>1, <1>2, <1>4, BoardAssumption DEF WiredInv, Fits
    <2>2. \A p \in ToSet(hand') : board'.home[p] # Root BY <1>1, <2>1 DEF PopulationPart
    <2> QED BY <1>1, <1>4, <2>1, <2>2, PopulationOn DEF PopulationPart
  <1>5. CASE pc = "links"
    <2>1. LinksPart /\ v.arg \in Names BY <1>1, <1>2, <1>5 DEF WiredInv, Fits
    <2>2. HandNamed(board', hand', queue'[1])
      <3> SUFFICES ASSUME NEW x \in 1..Len(hand'), x # Len(hand')
                   PROVE  hand'[x] \in RowsNamed(board', Root, v.arg)
        BY <1>3 DEF HandNamed
      <3>1. x \in 1..Len(hand) /\ hand'[x] = hand[x] BY <1>1
      <3>2. hand[x] \in RowsNamed(board, Root, v.arg) BY <1>1, <2>1, <3>1 DEF LinksPart, HandNamed
      <3>3. RowsNamed(board, Root, v.arg) \subseteq RowsNamed(board', Root, v.arg)
        BY <1>1, <2>1 DEF NoLess, Homes
      <3> QED BY <3>1, <3>2, <3>3
    <2>3. PlugsWired(board', hand', queue') BY <1>3 DEF PlugsWired
    <2> QED BY <1>1, <1>5, <2>1, <2>2, <2>3, LinksOn DEF LinksPart
  <1> QED BY <1>1, <1>4, <1>5

LEMMA StampEarlyW ==
  ASSUME Inv, WiredInv, UNCHANGED given, Stamp, pc \in {"population", "links"}
  PROVE  WiredInv'
  <1> DEFINE o == Last(hand)
             v == queue[1]
  <1>1. /\ queue # << >> /\ Head(queue).op = "stamp" /\ board' = Stamped(board, o, Head(queue).arg)
        /\ made' = IF Head(queue).at = Root THEN made \cup {o} ELSE made
        /\ Advance /\ hand' = hand
    BY DEF Stamp, Next1, V, Made, Created, Silent
  <1>2. /\ Head(queue) = v /\ Fits(pc, board, before, v) /\ Ready(board, before, hand, ToSet(journal), v)
        /\ board \in Boards /\ hand \in Seq(Objs)
    BY <1>1, Found
  <1>3. v.op = "stamp" /\ hand # << >> /\ board.home[o] = v.at /\ v.arg \in Names
        /\ v.at \in Homes /\ (pc = "population" => v.at # Root)
    BY <1>1, <1>2, BoardAssumption DEF Fits, Ready, Homes
  <1>4. o \in Dpnis /\ o \in Objs /\ o \in ToSet(hand) BY <1>3, Held1 DEF Early
  <1>5. board.tag[o] = None BY <1>1, <1>2, <1>3 DEF WiredInv, PopulationPart, LinksPart, Unnamed
  <1>6. NoLess(board, board') /\ board'.home = board.home /\ o \in RowsNamed(board', v.at, v.arg)
    <2> DEFINE n == v.arg
    <2>1. n \in Names /\ board' = Stamped(board, o, n) BY <1>1, <1>2, <1>3
    <2> HIDE DEF n, o
    <2>2. NoLess(board, board') /\ board'.home = board.home /\ o \in RowsNamed(board', board.home[o], n)
      BY <1>2, <1>4, <1>5, <2>1, StampMore
    <2> QED BY <1>3, <2>2 DEF n
  <1>7. CASE pc = "population"
    <2>1. PopulationPart /\ made' = made BY <1>1, <1>2, <1>3, <1>7 DEF WiredInv
    <2>2. \A p \in ToSet(hand') : board'.home[p] # Root BY <1>1, <1>6, <2>1 DEF PopulationPart
    <2> HIDE DEF o
    <2> QED BY <1>1, <1>3, <1>6, <1>7, <2>1, <2>2, PopulationOn DEF PopulationPart
  <1>8. CASE pc = "links"
    <2>1. LinksPart /\ v.at = Root BY <1>2, <1>3, <1>8 DEF WiredInv, Fits
    <2>2. queue'[1].op \in {"mint", "wire"} /\ queue'[1].arg = v.arg
      <3>1. Follows(pc, v, queue'[1]) /\ Len(queue) \in Nat /\ Len(queue) > 1 /\ queue'[1] = queue[2]
        BY <1>1, <1>3, Took
      <3>2. 1 \in 1..(Len(queue) - 1) /\ 1 + 1 = 2 BY <3>1
      <3>3. queue[2].arg = v.arg BY <1>1, <1>3, <2>1, <3>2 DEF LinksPart, Paired
      <3> QED BY <1>3, <1>8, <3>1, <3>3 DEF Follows
    <2>3. HandNamed(board', hand', queue'[1])
      <3> SUFFICES ASSUME NEW x \in 1..Len(hand)
                   PROVE  hand[x] \in RowsNamed(board', Root, v.arg)
        BY <1>1, <2>2 DEF HandNamed
      <3>1. x = Len(hand) \/ hand[x] \in RowsNamed(board, Root, v.arg)
        BY <1>1, <1>3, <2>1 DEF LinksPart, HandNamed
      <3>2. hand[Len(hand)] = o BY DEF Last
      <3>3. RowsNamed(board, Root, v.arg) \subseteq RowsNamed(board', Root, v.arg)
        BY <1>3, <1>6 DEF NoLess, Homes
      <3> QED BY <1>6, <2>1, <3>1, <3>2, <3>3
    <2>4. PlugsWired(board', hand', queue') BY <2>2 DEF PlugsWired
    <2>5. made' \subseteq Dpnis BY <1>1, <1>4, <2>1 DEF LinksPart
    <2> HIDE DEF o
    <2> QED BY <1>1, <1>3, <1>6, <1>8, <2>3, <2>4, <2>5, LinksOn
  <1> QED BY <1>7, <1>8

LEMMA PlugNewW ==
  ASSUME Inv, WiredInv, UNCHANGED given, PlugNew
  PROVE  WiredInv' /\ \A o \in board'.plugged \ board.plugged : board.home[o] # Root
  <1> DEFINE o == Last(hand)
  <1>1. /\ queue # << >> /\ Head(queue).op = "plug" /\ board' = PluggedIn(board, o)
        /\ made' = made \cup {o} /\ Advance /\ hand' = hand
    BY DEF PlugNew, Next1, V, Made, Created
  <1>2. /\ Head(queue) = queue[1] /\ Fits(pc, board, before, queue[1])
        /\ Ready(board, before, hand, ToSet(journal), queue[1]) /\ board \in Boards
    BY <1>1, Found
  <1>3. pc = "population" /\ hand # << >> /\ queue[1].op = "plug" BY <1>1, <1>2 DEF Fits, Ready
  <1>4. o \in Dpnis /\ o \in Objs /\ o \in ToSet(hand) BY <1>3, Held1 DEF Early
  <1>5. PopulationPart BY <1>3 DEF WiredInv
  <1> HIDE DEF o
  <1>6. NoLess(board, board') /\ board'.home = board.home /\ board'.plugged = board.plugged \cup {o}
    BY <1>1, <1>2, <1>4, PlugMore
  <1>7. /\ made' \subseteq Dpnis /\ \A p \in ToSet(hand') : board'.home[p] # Root
        /\ board.home[o] # Root
    BY <1>1, <1>4, <1>5, <1>6 DEF PopulationPart
  <1>8. WiredInv' BY <1>1, <1>3, <1>6, <1>7, PopulationOn
  <1> QED BY <1>6, <1>7, <1>8

LEMMA JoinW ==
  ASSUME Inv, WiredInv, UNCHANGED given, Join
  PROVE  WiredInv' /\ board'.plugged = board.plugged
  <1> DEFINE v == queue[1]
             e == EndA
  <1>1. /\ queue # << >> /\ Head(queue).op = "join" /\ CanJoin(board, e, Head(queue).b)
        /\ board' = Joined(board, e, Head(queue).b) /\ Advance /\ hand' = hand /\ made' = made
    BY DEF Join, Next1, V
  <1>2. /\ Head(queue) = v /\ Fits(pc, board, before, v) /\ Ready(board, before, hand, ToSet(journal), v)
        /\ board \in Boards
    BY <1>1, Found
  <1>3. /\ v.op = "join" /\ pc = "population" /\ v.a \in Standing(board) \cup {None} /\ v.b \in Standing(board)
        /\ v.a = None => hand # << >>
    BY <1>1, <1>2 DEF Fits, Ready
  <1>4. hand # << >> => hand[1] \in Standing(board) BY <1>3, Held1 DEF Standing, Living, Early
  <1>5. e \in Ends /\ v.b \in Ends BY <1>2, <1>3, <1>4, StandingStands DEF EndA, V
  <1>6. NoLess(board, board') /\ board'.home = board.home /\ board'.plugged = board.plugged
    <2> DEFINE f == v.b
    <2>1. f \in Ends /\ board' = Joined(board, e, f) /\ CanJoin(board, e, f) BY <1>1, <1>2, <1>5
    <2> HIDE DEF e, f
    <2> QED BY <1>2, <1>5, <2>1, JoinMore
  <1>7. PopulationPart BY <1>3 DEF WiredInv
  <1>8. made' \subseteq Dpnis /\ \A p \in ToSet(hand') : board'.home[p] # Root
    BY <1>1, <1>6, <1>7 DEF PopulationPart
  <1>9. WiredInv' BY <1>1, <1>3, <1>6, <1>8, PopulationOn
  <1> QED BY <1>6, <1>9

LEMMA WireW ==
  ASSUME Inv, WiredInv, UNCHANGED given, Wire
  PROVE  WiredInv' /\ board'.plugged = board.plugged
  <1> DEFINE v == queue[1]
             e == EndA
             f == EndB
  <1>1. /\ queue # << >> /\ Head(queue).op = "wire" /\ CanJoin(board, e, f)
        /\ board' = Joined(board, e, f) /\ Advance /\ hand' = hand /\ made' = made
    BY DEF Wire, Next1, V
  <1>2. /\ Head(queue) = v /\ Fits(pc, board, before, v) /\ Ready(board, before, hand, ToSet(journal), v)
        /\ board \in Boards /\ hand \in Seq(Objs)
    BY <1>1, Found
  <1>3. /\ v.op = "wire" /\ pc = "links"
        /\ v.a \in Standing(board) \cup {None} /\ v.b \in Standing(board) \cup {None}
        /\ v.a = None \/ v.b = None => hand # << >>
    BY <1>1, <1>2 DEF Fits, Ready
  <1>4. hand # << >> => hand[1] \in Standing(board) /\ hand[Len(hand)] \in Standing(board)
    BY <1>3, Held1 DEF Standing, Living, Early
  <1>5. /\ e = IF v.a = None THEN hand[1] ELSE v.a
        /\ f = IF v.b = None THEN hand[Len(hand)] ELSE v.b
    BY <1>2 DEF EndA, EndB, V
  <1>6. e \in Ends /\ f \in Ends /\ e \in Dpnis /\ f \in Dpnis BY <1>3, <1>4, <1>5, StandingStands
  <1>7. LinksPart BY <1>3 DEF WiredInv
  <1> HIDE DEF e, f
  <1>8. /\ NoLess(board, board') /\ board'.plugged = board.plugged /\ board'.home = board.home
        /\ board'.tag = board.tag /\ board'.wire[e] = f /\ board'.wire[f] = e
    BY <1>1, <1>2, <1>6, JoinMore
  <1>9. ASSUME NEW i \in DOMAIN links, Brings(board, v, links[i]) PROVE Wired(board', links[i])
    <2>1. links[i] \in Link /\ links[i].label \in Names /\ None \notin Dpnis
      BY LinkOf, NoneApart DEF Inv, Shapes
    <2>2. hand # << >> =>
            /\ hand[1] \in RowsNamed(board, Root, v.arg)
            /\ hand[Len(hand)] \in RowsNamed(board, Root, v.arg)
      <3>1. \A x \in 1..Len(hand) : hand[x] \in RowsNamed(board, Root, v.arg)
        BY <1>1, <1>3, <1>7 DEF LinksPart, HandNamed
      <3>2. hand # << >> => 1 \in 1..Len(hand) /\ Len(hand) \in 1..Len(hand) BY <1>2
      <3> QED BY <3>1, <3>2
    <2>3. None \notin RowsNamed(board, links[i].a, links[i].label) /\ None \notin RowsNamed(board, links[i].b, links[i].label)
      BY <2>1 DEF RowsNamed
    <2>4. e \in RowsNamed(board, links[i].a, links[i].label) /\ f \in RowsNamed(board, links[i].b, links[i].label)
      BY <1>3, <1>5, <1>9, <2>2, <2>3 DEF Brings
    <2>5. e \in RowsNamed(board', links[i].a, links[i].label) /\ f \in RowsNamed(board', links[i].b, links[i].label)
      BY <1>8, <2>4 DEF RowsNamed
    <2> QED BY <1>8, <2>5 DEF Wired
  <1>10. /\ Follows(pc, v, queue'[1]) /\ queue' # << >>
         /\ Len(queue') > 1 => queue'[2] = queue[3] /\ Follows3(v, queue'[1], queue'[2])
    BY <1>1, <1>3, Took
  <1>11. \/ queue'[1].op = "next"
         \/ queue'[1].op = "plugA" /\ queue'[1].a = v.a
         \/ queue'[1].op = "plugB" /\ queue'[1].a = v.b
    BY <1>3, <1>10 DEF Follows
  <1>12. HandNamed(board', hand', queue'[1]) BY <1>11 DEF HandNamed
  <1>13. PlugsWired(board', hand', queue')
    <2>1. e # None /\ f # None BY <1>6, NoneApart
    <2>2. Last(hand) = hand[Len(hand)] BY DEF Last
    <2>3. queue'[1].op \in {"plugA", "plugB"} => PlugEnd(hand, queue'[1]) \in {e, f}
      BY <1>5, <1>11, <2>2 DEF PlugEnd
    <2>4. queue'[1].op = "plugA" /\ Len(queue') > 1 /\ queue'[2].op = "plugB" => PlugEnd(hand, queue'[2]) \in {e, f}
      BY <1>3, <1>5, <1>10, <2>2 DEF PlugEnd, Follows3
    <2> QED BY <1>1, <1>8, <2>1, <2>3, <2>4 DEF PlugsWired
  <1>14. made' \subseteq Dpnis BY <1>1, <1>7 DEF LinksPart
  <1>15. WiredInv' BY <1>1, <1>3, <1>8, <1>9, <1>12, <1>13, <1>14, LinksOn
  <1> QED BY <1>8, <1>15

LEMMA PlugLinkW ==
  ASSUME Inv, WiredInv, UNCHANGED given, PlugRootEnd, pc = "links"
  PROVE  WiredInv' /\ \A o \in board'.plugged \ board.plugged : o \in Dpnis /\ board.wire[o] # None
  <1> DEFINE v == queue[1]
             o == PlugEnd(hand, v)
  <1>1. /\ queue # << >> /\ Head(queue).op \in {"plugA", "plugB"} /\ Advance /\ hand' = hand /\ made' = made
        /\ board' = PluggedIn(board, IF Head(queue).a # None THEN Head(queue).a
                                     ELSE IF Head(queue).op = "plugA" THEN hand[1] ELSE Last(hand))
    BY DEF PlugRootEnd, Next1, V, Made, Silent
  <1>2. /\ Head(queue) = v /\ Fits(pc, board, before, v) /\ Ready(board, before, hand, ToSet(journal), v)
        /\ board \in Boards /\ hand \in Seq(Objs)
    BY <1>1, Found
  <1>3. /\ v.op \in {"plugA", "plugB"} /\ v.a \in Standing(board) \cup {None}
        /\ v.a = None => hand # << >>
    BY <1>1, <1>2 DEF Fits, Ready
  <1>4. hand # << >> => hand[1] \in Dpnis /\ Last(hand) \in Dpnis BY Held1 DEF Early
  <1>5. o \in Dpnis /\ o \in Objs /\ board' = PluggedIn(board, o)
    BY <1>1, <1>2, <1>3, <1>4, StandingStands DEF PlugEnd, Objs
  <1>6. LinksPart /\ board.wire[o] # None BY <1>1, <1>3 DEF WiredInv, LinksPart, PlugsWired
  <1>7. /\ Follows(pc, v, queue'[1]) /\ queue' # << >> /\ queue'[1] = queue[2]
        /\ Len(queue) \in Nat /\ Len(queue) > 1
    BY <1>1, <1>3, Took
  <1>8. queue'[1].op = "next" \/ (v.op = "plugA" /\ queue'[1].op = "plugB")
    BY <1>3, <1>7 DEF Follows
  <1>9. HandNamed(board', hand', queue'[1]) BY <1>8 DEF HandNamed
  <1>10. v.op = "plugA" /\ queue'[1].op = "plugB" => board.wire[PlugEnd(hand, queue'[1])] # None
    BY <1>1, <1>6, <1>7 DEF LinksPart, PlugsWired
  <1> HIDE DEF o
  <1>11. NoLess(board, board') /\ board'.wire = board.wire /\ board'.plugged = board.plugged \cup {o}
    BY <1>2, <1>5, PlugMore
  <1>12. PlugsWired(board', hand', queue') BY <1>1, <1>8, <1>10, <1>11 DEF PlugsWired
  <1>13. made' \subseteq Dpnis BY <1>1, <1>6 DEF LinksPart
  <1>14. WiredInv' BY <1>1, <1>3, <1>9, <1>11, <1>12, <1>13, LinksOn
  <1> QED BY <1>5, <1>6, <1>11, <1>14

LEMMA StepDoneEarlyW ==
  ASSUME Inv, WiredInv, UNCHANGED given, StepDone, pc \in {"population", "links"}
  PROVE  WiredInv'
  <1>1. /\ queue # << >> /\ Head(queue).op = "next" /\ hand' = << >> /\ Advance /\ made' = made /\ board' = board
    BY DEF StepDone, Next1, V, Silent
  <1>2. Head(queue) = queue[1] /\ board \in Boards BY <1>1, Found
  <1>3. /\ queue[1].op = "next" /\ queue[1].op # "done" /\ NoLess(board, board')
    BY <1>1, <1>2 DEF NoLess
  <1>4. CASE pc = "population"
    <2>1. made' \subseteq Dpnis /\ \A p \in ToSet(hand') : board'.home[p] # Root
      BY <1>1, <1>4, NothingIn DEF WiredInv, PopulationPart
    <2> QED BY <1>1, <1>3, <1>4, <2>1, PopulationOn
  <1>5. CASE pc = "links"
    <2>1. queue'[1].op \in {"mint", "done", "wire"} BY <1>1, <1>3, <1>5, Took DEF Follows
    <2>2. HandNamed(board', hand', queue'[1]) /\ PlugsWired(board', hand', queue')
      <3>1. 1..Len(<< >>) = {} OBVIOUS
      <3> QED BY <1>1, <2>1, <3>1 DEF HandNamed, PlugsWired
    <2>3. made' \subseteq Dpnis BY <1>1, <1>5 DEF WiredInv, LinksPart
    <2> QED BY <1>1, <1>3, <1>5, <2>2, <2>3, LinksOn
  <1> QED BY <1>4, <1>5

(* What a plan holds of each thing it is for.                                *)

Has(q, x) == \E p \in 1..Len(q) : q[p] = x

LEMMA HasConcat ==
  ASSUME NEW T, NEW s \in Seq(T), NEW t \in Seq(T), NEW x, Has(s, x) \/ Has(t, x)
  PROVE  Has(s \o t, x)
  <1>1. /\ Len(s) \in Nat /\ Len(t) \in Nat /\ Len(s \o t) = Len(s) + Len(t)
        /\ \A p \in 1..(Len(s) + Len(t)) : (s \o t)[p] = IF p <= Len(s) THEN s[p] ELSE t[p - Len(s)]
    OBVIOUS
  <1>2. ASSUME NEW p \in 1..Len(s), s[p] = x PROVE Has(s \o t, x)
    <2>1. p \in 1..Len(s \o t) /\ (s \o t)[p] = x BY <1>1, <1>2
    <2> QED BY <2>1 DEF Has
  <1>3. ASSUME NEW p \in 1..Len(t), t[p] = x PROVE Has(s \o t, x)
    <2>1. Len(s) + p \in 1..Len(s \o t) /\ ~(Len(s) + p <= Len(s)) /\ (Len(s) + p) - Len(s) = p
      BY <1>1
    <2>2. (s \o t)[Len(s) + p] = x BY <1>1, <1>3, <2>1
    <2> QED BY <2>1, <2>2 DEF Has
  <1> QED BY <1>2, <1>3 DEF Has

LEMMA FlattenHas ==
  ASSUME NEW T, NEW n \in Nat, NEW parts \in [1..n -> Seq(T)], NEW i \in 1..n, NEW x, Has(parts[i], x)
  PROVE  Has(FlattenSeq(parts), x)
  <1> DEFINE f == CHOOSE g : g = [j \in 1..n |-> IF j = 1 THEN parts[j] ELSE g[j-1] \o parts[j]]
             Good(j) == f[j] \in Seq(T) /\ (i <= j => Has(f[j], x))
             Bad == {j \in 1..n : ~Good(j)}
  <1>1. Len(parts) = n /\ DOMAIN parts = 1..n /\ n # 0 OBVIOUS
  <1>2. f = [j \in 1..n |-> IF j = 1 THEN parts[j] ELSE f[j-1] \o parts[j]]
    <2>1. \E g : g = [j \in 1..n |-> IF j = 1 THEN parts[j] ELSE g[j-1] \o parts[j]]
      BY <1>1, Flattened
    <2> QED BY <2>1
  <1>3. FlattenSeq(parts) = f[n] BY <1>1 DEF FlattenSeq
  <1> HIDE DEF f
  <1>4. Bad = {}
    <2> SUFFICES ASSUME Bad # {} PROVE FALSE OBVIOUS
    <2>1. PICK j \in Bad : \A k \in Bad : ~(k < j)
      <3>1. Bad \subseteq Nat OBVIOUS
      <3> HIDE DEF Bad
      <3> QED BY <3>1, SomeLeast
    <2>2. j \in 1..n /\ ~Good(j) /\ parts[j] \in Seq(T) BY <2>1
    <2>3. f[j] = IF j = 1 THEN parts[j] ELSE f[j-1] \o parts[j] BY <1>2, <2>2
    <2>4. CASE j = 1
      <3>1. i <= j => i = j BY <2>4
      <3> QED BY <2>2, <2>3, <2>4, <3>1
    <2>5. CASE j # 1
      <3>1. j - 1 \in 1..n /\ j - 1 < j /\ (i <= j => i <= j - 1 \/ i = j) BY <2>2, <2>5
      <3>2. Good(j - 1) BY <2>1, <3>1
      <3>3. f[j-1] \in Seq(T) /\ f[j] = f[j-1] \o parts[j] /\ f[j] \in Seq(T)
        BY <2>2, <2>3, <2>5, <3>2
      <3>4. i <= j => Has(f[j-1], x) \/ Has(parts[j], x) BY <3>1, <3>2
      <3>5. i <= j => Has(f[j-1] \o parts[j], x) BY <2>2, <3>3, <3>4, HasConcat
      <3> QED BY <2>2, <3>3, <3>5
    <2> QED BY <2>4, <2>5
  <1>5. n \in 1..n /\ i <= n BY <1>1
  <1> QED BY <1>3, <1>4, <1>5

LEMMA LinkEntry ==
  ASSUME links \in Intents, NEW i \in DOMAIN links, NEW k \in {links[i].a, links[i].b}
  PROVE  \E d \in Entry : d.label = links[i].label /\ Has(PlannedIn(k), d)
  <1> DEFINE x == [label |-> links[i].label, peer |-> links[i].b]
             y == [label |-> links[i].label, peer |-> links[i].a]
             d == IF links[i].a = k THEN x ELSE y
             A(j) == IF links[j].a = k THEN <<[label |-> links[j].label, peer |-> links[j].b]>> ELSE << >>
             B(j) == IF links[j].b = k THEN <<[label |-> links[j].label, peer |-> links[j].a]>> ELSE << >>
             p == [j \in 1..Len(links) |-> A(j) \o B(j)]
  <1>1. /\ Len(links) \in Nat /\ i \in 1..Len(links)
        /\ \A j \in 1..Len(links) : links[j].label \in Names /\ links[j].a \in Homes /\ links[j].b \in Homes
    BY LinksIn
  <1>2. \A j \in 1..Len(links) : A(j) \in Seq(Entry) /\ B(j) \in Seq(Entry)
    <2> TAKE j \in 1..Len(links)
    <2>1. /\ [label |-> links[j].label, peer |-> links[j].b] \in Entry
          /\ [label |-> links[j].label, peer |-> links[j].a] \in Entry
      BY <1>1 DEF Entry
    <2> QED BY <2>1
  <1>3. x \in Entry /\ y \in Entry /\ d.label = links[i].label BY <1>1 DEF Entry
  <1>4. Has(A(i), d) \/ Has(B(i), d)
    <2>1. CASE links[i].a = k
      <3>1. A(i) = <<d>> /\ 1 \in 1..Len(<<d>>) /\ <<d>>[1] = d BY <2>1
      <3> QED BY <3>1 DEF Has
    <2>2. CASE links[i].a # k
      <3>1. links[i].b = k BY <2>2
      <3>2. B(i) = <<d>> /\ 1 \in 1..Len(<<d>>) /\ <<d>>[1] = d BY <2>2, <3>1
      <3> QED BY <3>2 DEF Has
    <2> QED BY <2>1, <2>2
  <1>5. LinkEndsIn(k) = FlattenSeq(p) BY DEF LinkEndsIn
  <1> HIDE DEF A, B, d
  <1>6. Has(A(i) \o B(i), d) BY <1>1, <1>2, <1>4, HasConcat
  <1>7. p \in [1..Len(links) -> Seq(Entry)] /\ p[i] = A(i) \o B(i)
    <2>1. \A j \in 1..Len(links) : A(j) \o B(j) \in Seq(Entry) BY <1>2, SeqsClosed
    <2> QED BY <1>1, <2>1
  <1> HIDE DEF p
  <1>8. Has(LinkEndsIn(k), d)
    <2> DEFINE n == Len(links)
    <2>1. n \in Nat /\ i \in 1..n /\ p \in [1..n -> Seq(Entry)] /\ Has(p[i], d) BY <1>1, <1>6, <1>7
    <2> HIDE DEF n
    <2> QED BY <1>5, <2>1, FlattenHas
  <1>9. LinkEndsIn(k) \in Seq(Entry) /\ MembersIn(k) \in Seq(Entry)
    <2>1. k \in Homes BY <1>1
    <2> QED BY <2>1, PlannedEntries
  <1>10. Has(PlannedIn(k), d) BY <1>8, <1>9, HasConcat DEF PlannedIn
  <1> QED BY <1>3, <1>10 DEF d

-----------------------------------------------------------------------------
(* The plans of the population and the links provide. *)

LEMMA EndVerbsHas ==
  ASSUME NEW b \in Boards, NEW k \in Kids, NEW d \in Entry, RowsNamed(b, k, d.label) = {}
  PROVE  Has(EndVerbs(b, k, d), Verb("stamp", k, d.label, None, None))
  <1> DEFINE row == Row(b, k, d.label)
             peer == PeerOf(b, d)
             x == Verb("mint", k, d.label, None, None)
             y == Verb("stamp", k, d.label, None, None)
             z == Verb("plug", k, d.label, None, None)
             w == Verb("join", k, d.label, row, peer)
             n == Verb("next", None, None, None, None)
             B == IF peer # None /\ (row = None \/ b.wire[row] # peer) THEN <<w>> ELSE << >>
             T == {x, y, z, w, n}
             C == CreateVerbs(k, d)
             N == <<n>>
  <1>1. k \in Homes /\ d.label \in Names BY DEF Homes, Entry
  <1>2. row = None BY <1>1, RowIn
  <1>3. MintIn("mint", k, d.label) = <<x, y>> BY DEF MintIn
  <1>4. C = <<x, y, z>>
    <2> HIDE DEF x, y, z, C
    <2>1. <<x, y>> \o <<z>> = <<x, y, z>> BY Triple
    <2> QED BY <1>3, <2>1 DEF CreateVerbs, z, C
  <1>5. EndVerbs(b, k, d) = C \o B \o N BY <1>2 DEF EndVerbs
  <1> HIDE DEF x, y, z, w, n, row, peer
  <1>6. C \in Seq(T) /\ B \in Seq(T) /\ N \in Seq(T)
    <2>1. <<x, y, z>> \in Seq(T) /\ <<w>> \in Seq(T) /\ << >> \in Seq(T) /\ N \in Seq(T) OBVIOUS
    <2> HIDE DEF T, C, N
    <2> QED BY <1>4, <2>1
  <1>7. Has(C, y)
    <2>1. 2 \in 1..Len(<<x, y, z>>) /\ <<x, y, z>>[2] = y OBVIOUS
    <2> HIDE DEF C
    <2> QED BY <1>4, <2>1 DEF Has
  <1> HIDE DEF C, B, N, T
  <1>8. Has(C \o B, y) /\ C \o B \in Seq(T) BY <1>6, <1>7, HasConcat, Appended
  <1> DEFINE CB == C \o B
  <1>9. Has(CB, y) /\ CB \in Seq(T) BY <1>8
  <1> HIDE DEF CB
  <1>10. Has(CB \o N, y) BY <1>6, <1>9, HasConcat
  <1> QED BY <1>5, <1>10 DEF CB, y

\* What a plan leaves beside its queue.
LEMMA PlanLeaves ==
  ASSUME Inv, Plan
  PROVE  /\ pc \in Phases /\ pc # "idle" /\ pc' = pc /\ outcome' = outcome /\ board' = board /\ made' = made
         /\ queue = << >> /\ hand' = << >> /\ queue' = Owed(board, pc) /\ queue' # << >>
         /\ board \in Boards /\ Consistent(board) /\ links \in Intents
         /\ queue' \in Seq(Verbs) /\ Linked(pc, queue')
         /\ Starts(pc, queue'[1]) \/ queue'[1].op = "done"
  <1> DEFINE q == Owed(board, pc)
             T == Fit(pc, board, before)
  <1>1. /\ pc \in Phases /\ queue = << >> /\ board \in Boards /\ Consistent(board) /\ links \in Intents
        /\ pc # "idle"
    BY DEF Plan, Plannable, Planning, Inv, TypeOK, Shapes, Phases
  <1>2. queue' = q /\ hand' = << >> /\ UNCHANGED <<board, pc, outcome, made>> BY DEF Plan, history
  <1>3. /\ q \in Seq(T) /\ Linked(pc, q) /\ q # << >> /\ (Starts(pc, q[1]) \/ q[1].op = "done")
    BY OwedFits
  <1>4. T \subseteq Verbs BY DEF Fit
  <1> HIDE DEF q, T
  <1>5. q \in Seq(Verbs) BY <1>3, <1>4
  <1> QED BY <1>1, <1>2, <1>3, <1>5 DEF q

LEMMA PopulationPlanW ==
  ASSUME Inv, WiredInv, UNCHANGED given, Plan, pc = "population"
  PROVE  WiredInv'
  <1>1. /\ pc' = pc /\ outcome' = outcome /\ board' = board /\ made' = made /\ queue = << >> /\ hand' = << >>
        /\ queue' = PopulationVerbs(board) /\ board \in Boards /\ links \in Intents
        /\ queue'[1].op # "stamp"
    BY PlanLeaves DEF Owed, Starts
  <1>2. links' = links BY DEF given
  <1>3. Provided(board, queue)'
    <2> SUFFICES ASSUME NEW i \in DOMAIN links, NEW k \in {links[i].a, links[i].b} \ {Root},
                        RowsNamed(board, k, links[i].label) = {}
                 PROVE  \E p \in 1..Len(queue') : queue'[p] \in Stamps(k, links[i].label)
      BY <1>1, <1>2 DEF Provided
    <2> DEFINE m == links[i].label
               y == Verb("stamp", k, m, None, None)
               e(c) == [j \in 1..Len(PlannedIn(c)) |-> EndVerbs(board, c, PlannedIn(c)[j])]
               P == [c \in 1..Len(Children) |-> FlattenSeq(e(Children[c]))]
               S == Seq(Verbs)
    <2>1. k \in Kids /\ m \in Names /\ k \in Homes BY <1>1, LinksIn DEF Homes
    <2>2. PICK d \in Entry : d.label = m /\ Has(PlannedIn(k), d) BY <1>1, LinkEntry
    <2>3. PICK j \in 1..Len(PlannedIn(k)) : PlannedIn(k)[j] = d BY <2>2 DEF Has
    <2>4. PICK c \in 1..Len(Children) : Children[c] = k BY <2>1, PlanAssumption DEF ToSet
    <2>5. << >> \in S /\ \A s, t \in S : s \o t \in S BY SeqsClosed
    <2>6. ASSUME NEW g \in Kids
          PROVE  /\ Len(PlannedIn(g)) \in Nat /\ e(g) \in [1..Len(PlannedIn(g)) -> S]
                 /\ FlattenSeq(e(g)) \in S
      <3>1. PlannedIn(g) \in Seq(Entry) BY <1>1, PlannedEntries DEF Homes
      <3>2. Len(PlannedIn(g)) \in Nat /\ \A x \in 1..Len(PlannedIn(g)) : PlannedIn(g)[x] \in Entry
        BY <3>1
      <3>3. \A x \in 1..Len(PlannedIn(g)) : EndVerbs(board, g, PlannedIn(g)[x]) \in S
        <4> TAKE x \in 1..Len(PlannedIn(g))
        <4> DEFINE f == PlannedIn(g)[x]
        <4>1. f \in Entry BY <3>2
        <4> HIDE DEF f
        <4>2. Root \in Homes /\ m \in Names BY <2>1 DEF Homes
        <4>3. EndVerbs(board, g, f) \in S BY <1>1, <4>1, <4>2, EndVerbsHits
        <4> QED BY <4>3 DEF f
      <3>4. e(g) \in [1..Len(PlannedIn(g)) -> S] BY <3>3
      <3> HIDE DEF e, S
      <3> QED BY <2>5, <3>2, <3>4, FlattenIn
    <2>7. Len(Children) \in Nat /\ \A g \in 1..Len(Children) : Children[g] \in Kids
      BY PlanAssumption
    <2>8. P \in [1..Len(Children) -> S] /\ P[c] = FlattenSeq(e(k)) BY <2>4, <2>6, <2>7
    <2>9. e(k)[j] = EndVerbs(board, k, d) BY <2>3
    <2>10. PopulationVerbs(board) = FlattenSeq(P) \o Done BY DEF PopulationVerbs
    <2>11. Has(EndVerbs(board, k, d), y) BY <1>1, <2>1, <2>2, EndVerbsHas
    <2>12. y \in Stamps(k, m) BY <2>1 DEF Stamps, Verb, Verbs, Ops, Things
    <2> HIDE DEF e, P, S, y, m
    <2>13. Has(FlattenSeq(e(k)), y)
      <3> DEFINE n == Len(PlannedIn(k))
                 f == e(k)
      <3>1. n \in Nat /\ f \in [1..n -> Seq(Verbs)] /\ j \in 1..n /\ Has(f[j], y)
        BY <2>1, <2>3, <2>6, <2>9, <2>11 DEF S
      <3> HIDE DEF n, f
      <3>2. Has(FlattenSeq(f), y) BY <3>1, FlattenHas
      <3> QED BY <3>2 DEF f
    <2>14. Has(FlattenSeq(P), y) /\ FlattenSeq(P) \in Seq(Verbs)
      <3> DEFINE n == Len(Children)
      <3>1. n \in Nat /\ P \in [1..n -> Seq(Verbs)] /\ c \in 1..n /\ Has(P[c], y)
        BY <2>4, <2>7, <2>8, <2>13 DEF S
      <3> HIDE DEF n
      <3>2. Has(FlattenSeq(P), y) BY <3>1, FlattenHas
      <3>3. FlattenSeq(P) \in S BY <2>5, <3>1, FlattenIn DEF S
      <3> QED BY <3>2, <3>3 DEF S
    <2>15. Done \in Seq(Verbs)
      <3>1. Done \in Seq(Mild) /\ Mild \subseteq Verbs BY DoneMild DEF Mild
      <3> DEFINE x == Done
      <3> HIDE DEF x
      <3>2. x \in Seq(Mild) BY <3>1 DEF x
      <3>3. x \in Seq(Verbs) BY <3>1, <3>2
      <3> QED BY <3>3 DEF x
    <2>16. Has(FlattenSeq(P) \o Done, y)
      <3> DEFINE f == FlattenSeq(P)
      <3>1. f \in Seq(Verbs) /\ Has(f, y) BY <2>14
      <3> HIDE DEF f
      <3>2. Has(f \o Done, y) BY <2>15, <3>1, HasConcat
      <3> QED BY <3>2 DEF f
    <2>17. Has(queue', y) BY <1>1, <2>10, <2>16
    <2> QED BY <2>12, <2>17 DEF Has, m
  <1>4. ToSet(hand') = {} BY <1>1, NothingIn
  <1>5. made' \subseteq Dpnis /\ outcome' # "converged" BY <1>1 DEF WiredInv, PopulationPart
  <1>6. Unnamed(board', hand', queue'[1]) BY <1>1 DEF Unnamed
  <1> QED BY <1>1, <1>3, <1>4, <1>5, <1>6 DEF WiredInv, PopulationPart

\* An end that is a row of the link, or to be created in the root.
EndOf(b, h, n, x) == x \in RowsNamed(b, h, n) \/ (x = Create /\ h = Root)

LEMMA SlotRows ==
  ASSUME NEW b \in Boards, NEW l \in Link, Apart(l), EndsThere(b, l)
  PROVE  EndOf(b, l.a, l.label, Slots(b, l)[1]) /\ EndOf(b, l.b, l.label, Slots(b, l)[2])
  <1> DEFINE rows == RowsNamed(b, l.a, l.label)
             slot(h) == IF Row(b, h, l.label) = None /\ h = Root THEN Create ELSE Row(b, h, l.label)
             rest == rows \ {Lowest(rows)}
             sl == Slots(b, l)
  <1>1. l.a \in Homes /\ l.b \in Homes /\ l.label \in Names BY DEF Link
  <1>2. \A h \in {l.a, l.b} : EndOf(b, h, l.label, slot(h))
    <2> TAKE h \in {l.a, l.b}
    <2>1. h \in Homes /\ (h # Root => RowsNamed(b, h, l.label) # {}) BY <1>1 DEF EndsThere
    <2>2. /\ RowsNamed(b, h, l.label) = {} => Row(b, h, l.label) = None
          /\ RowsNamed(b, h, l.label) # {} => Row(b, h, l.label) \in RowsNamed(b, h, l.label)
      BY <1>1, <2>1, RowIn
    <2> QED BY <2>1, <2>2 DEF EndOf
  <1>3. rows \subseteq Nat BY <1>1, RowIn
  <1>4. rows # {} => Lowest(rows) \in rows
    <2> HIDE DEF rows
    <2> QED BY <1>3, LowestIn
  <1>5. rows # {} /\ Cardinality(rows) # 1 => Lowest(rest) \in rows
    <2> SUFFICES ASSUME rows # {}, Cardinality(rows) # 1 PROVE Lowest(rest) \in rows OBVIOUS
    <2>1. rest # {}
      <3> SUFFICES ASSUME rows = {Lowest(rows)} PROVE FALSE OBVIOUS
      <3> HIDE DEF rows
      <3> QED BY FS_Singleton
    <2>2. rest \subseteq Nat /\ rest \subseteq rows BY <1>3
    <2> HIDE DEF rest, rows
    <2> QED BY <2>1, <2>2, LowestIn
  <1>6. sl = IF l.a # l.b THEN <<slot(l.a), slot(l.b)>>
             ELSE IF rows = {} THEN <<slot(l.a), slot(l.a)>>
             ELSE IF Cardinality(rows) = 1 THEN <<Lowest(rows), IF l.a = Root THEN Create ELSE None>>
             ELSE <<Lowest(rows), Lowest(rest)>>
    BY DEF Slots
  <1>7. l.a # l.b => sl[1] = slot(l.a) /\ sl[2] = slot(l.b) BY <1>6
  <1>8. l.a = l.b /\ rows = {} => sl[1] = slot(l.a) /\ sl[2] = slot(l.a) BY <1>6
  <1>9. l.a = l.b /\ rows # {} /\ Cardinality(rows) = 1 =>
          sl[1] = Lowest(rows) /\ sl[2] = IF l.a = Root THEN Create ELSE None
    BY <1>6
  <1>10. l.a = l.b /\ rows # {} /\ Cardinality(rows) # 1 => sl[1] = Lowest(rows) /\ sl[2] = Lowest(rest)
    BY <1>6
  <1> HIDE DEF sl, slot, rest
  <1>11. CASE l.a # l.b BY <1>2, <1>7, <1>11 DEF sl
  <1>12. CASE l.a = l.b /\ rows = {} BY <1>2, <1>8, <1>12 DEF sl
  <1>13. CASE l.a = l.b /\ rows # {} /\ Cardinality(rows) = 1
    BY <1>4, <1>9, <1>13 DEF sl, EndOf, Apart
  <1>14. CASE l.a = l.b /\ rows # {} /\ Cardinality(rows) # 1
    BY <1>4, <1>5, <1>10, <1>14 DEF sl, EndOf
  <1> QED BY <1>11, <1>12, <1>13, <1>14

\* A link that is neither held nor to be wired is wired.
LEMMA LinkJudged ==
  ASSUME NEW b \in Boards, Consistent(b), NEW l \in Link, Apart(l), EndsThere(b, l),
         ~LinkHeld(b, l), ~LinkWork(b, l)
  PROVE  Wired(b, l)
  <1> DEFINE s == Slots(b, l)
             x == s[1]
             y == s[2]
  <1>1. EndOf(b, l.a, l.label, x) /\ EndOf(b, l.b, l.label, y) BY SlotRows
  <1>2. ToSet(s) = {x, y} BY SlotsIn
  <1> HIDE DEF s
  <1>3. ~Pending(s)
    <2>1. x # None /\ y # None BY <1>1, NoneApart DEF EndOf, RowsNamed
    <2> QED BY <1>2, <2>1 DEF Pending
  <1>4. Create \notin ToSet(s) /\ ~Held(b, x, y) /\ ~Fresh(b, x, y)
    BY <1>3 DEF LinkHeld, LinkWork, s
  <1>5. x \in RowsNamed(b, l.a, l.label) /\ y \in RowsNamed(b, l.b, l.label)
    BY <1>1, <1>2, <1>4 DEF EndOf
  <1>6. x \in Ends /\ y \in Ends /\ x # None /\ y # None BY <1>5, EndsApart, NoneApart DEF RowsNamed
  <1> HIDE DEF x, y
  <1>7. b.wire[x] = y BY <1>4, <1>6 DEF Held, Fresh, Consistent
  <1> QED BY <1>5, <1>7 DEF Wired

\* The verbs for one link.
Its(l) == {v \in Verbs : v.op = "next" \/ v.arg = l.label}

LEMMA LinkVerbsWire ==
  ASSUME NEW b \in Boards, NEW l \in Link, LinkWork(b, l)
  PROVE  /\ LinkVerbs(b, l) \in Seq(Its(l))
         /\ LET s == Slots(b, l)
            IN Has(LinkVerbs(b, l), Verb("wire", Root, l.label, Given(s[1]), Given(s[2])))
  <1> DEFINE s == Slots(b, l)
             T == Its(l)
             m == Verb("mint", Root, l.label, None, None)
             t == Verb("stamp", Root, l.label, None, None)
             w == Verb("wire", Root, l.label, Given(s[1]), Given(s[2]))
             x == Verb("plugA", Root, l.label, Given(s[1]), None)
             y == Verb("plugB", Root, l.label, Given(s[2]), None)
             e == Verb("next", None, None, None, None)
             P == PlugRoot(b, l, s)
             M == MintRoot(l, s)
             W == <<w>>
             E == <<e>>
  <1>1. /\ s[1] \in Standing(b) \cup {None, Create} /\ s[2] \in Standing(b) \cup {None, Create}
    BY SlotsIn
  <1>2. LinkVerbs(b, l) = M \o W \o P \o E BY DEF LinkVerbs, WireVerb, NextLink
  <1>3. M = (IF s[1] = Create THEN <<m, t>> ELSE << >>) \o (IF s[2] = Create THEN <<m, t>> ELSE << >>)
    <2>1. s[1] \in Dpnis \cup {None, Create} BY <1>1 DEF Standing
    <2> HIDE DEF s
    <2> QED BY <2>1, MintRootIs
  <1>4. P \in {<< >>, <<x>>, <<y>>, <<x, y>>}
    <2> HIDE DEF s
    <2> QED BY PlugRootIs
  <1>5. Given(s[1]) \in Things /\ Given(s[2]) \in Things /\ None \in Things /\ l.label \in Names /\ Root \in Homes
    BY <1>1 DEF Given, Things, Standing, Objs, Link, Homes
  <1>6. m \in T /\ t \in T /\ w \in T /\ x \in T /\ y \in T /\ e \in T
    BY <1>5 DEF Its, Verbs, Verb, Ops
  <1> HIDE DEF m, t, w, x, y, e, T, s
  <1>7. M \in Seq(T)
    <2> DEFINE A == IF s[1] = Create THEN <<m, t>> ELSE << >>
               B == IF s[2] = Create THEN <<m, t>> ELSE << >>
    <2>1. A \in Seq(T) /\ B \in Seq(T) BY <1>6
    <2> HIDE DEF A, B, M
    <2>2. A \o B \in Seq(T) BY <2>1, SeqsClosed
    <2> QED BY <1>3, <2>2 DEF A, B
  <1>8. P \in Seq(T)
    <2>1. << >> \in Seq(T) /\ <<x>> \in Seq(T) /\ <<y>> \in Seq(T) /\ <<x, y>> \in Seq(T) BY <1>6
    <2> HIDE DEF P
    <2> QED BY <1>4, <2>1
  <1>9. W \in Seq(T) /\ E \in Seq(T) /\ Has(W, w)
    <2>1. W \in Seq(T) /\ E \in Seq(T) BY <1>6
    <2>2. 1 \in 1..Len(W) /\ W[1] = w OBVIOUS
    <2> QED BY <2>1, <2>2 DEF Has
  <1> HIDE DEF M, W, P, E
  <1> DEFINE MW == M \o W
             MP == MW \o P
  <1>10. MW \in Seq(T) /\ Has(MW, w) BY <1>7, <1>9, HasConcat, SeqsClosed
  <1> HIDE DEF MW
  <1>11. MP \in Seq(T) /\ Has(MP, w) BY <1>8, <1>10, HasConcat, SeqsClosed
  <1> HIDE DEF MP
  <1>12. MP \o E \in Seq(T) /\ Has(MP \o E, w) BY <1>9, <1>11, HasConcat, SeqsClosed
  <1> QED BY <1>2, <1>12 DEF MW, MP, T, w, s

\* Queues whose stamps are each for the link of what follows.
Grouped == {s \in Seq(Verbs) : Paired(s) /\ (s # << >> => s[Len(s)].op # "stamp")}

LEMMA GroupedClosed ==
  << >> \in Grouped /\ \A s, t \in Grouped : s \o t \in Grouped
  <1>1. << >> \in Grouped BY DEF Grouped, Paired
  <1>2. ASSUME NEW s \in Grouped, NEW t \in Grouped PROVE s \o t \in Grouped
    <2>1. s \in Seq(Verbs) /\ t \in Seq(Verbs) BY DEF Grouped
    <2>2. CASE s = << >>
      <3>1. s \o t = t BY <2>1, <2>2
      <3> QED BY <3>1
    <2>3. CASE t = << >>
      <3>1. s \o t = s BY <2>1, <2>3
      <3> QED BY <3>1
    <2>4. CASE s # << >> /\ t # << >>
      <3> DEFINE u == s \o t
                 m == Len(s)
                 n == Len(t)
      <3>1. /\ m \in Nat /\ n \in Nat /\ m # 0 /\ n # 0 /\ Len(u) = m + n /\ u \in Seq(Verbs) /\ u # << >>
            /\ \A i \in 1..(m + n) : u[i] = IF i <= m THEN s[i] ELSE t[i-m]
        BY <2>1, <2>4
      <3>2. s[m].op # "stamp" /\ t[n].op # "stamp" BY <2>4 DEF Grouped
      <3>3. \A i \in 1..(m - 1) : s[i].op = "stamp" => s[i+1].arg = s[i].arg BY DEF Grouped, Paired
      <3>4. \A i \in 1..(n - 1) : t[i].op = "stamp" => t[i+1].arg = t[i].arg BY DEF Grouped, Paired
      <3> HIDE DEF u, m, n
      <3>5. ASSUME NEW i \in 1..(m + n - 1), u[i].op = "stamp" PROVE u[i+1].arg = u[i].arg
        <4>1. CASE i < m
          <5>1. i \in 1..(m - 1) /\ u[i] = s[i] /\ u[i+1] = s[i+1] BY <3>1, <4>1
          <5> QED BY <3>3, <3>5, <5>1
        <4>2. CASE i = m
          <5>1. u[i] = s[m] BY <3>1, <4>2
          <5> QED BY <3>2, <3>5, <5>1
        <4>3. CASE i > m
          <5>1. i - m \in 1..(n - 1) /\ u[i] = t[i-m] /\ u[i+1] = t[(i-m)+1] BY <3>1, <4>3
          <5> QED BY <3>4, <3>5, <5>1
        <4> QED BY <3>1, <4>1, <4>2, <4>3
      <3>6. u[m+n].op # "stamp"
        <4>1. m + n \in 1..(m + n) /\ ~(m + n <= m) /\ (m + n) - m = n BY <3>1
        <4> QED BY <3>1, <3>2, <4>1
      <3>7. u \in Grouped BY <3>1, <3>5, <3>6 DEF Grouped, Paired
      <3> QED BY <3>7 DEF u
    <2> QED BY <2>2, <2>3, <2>4
  <1> QED BY <1>1, <1>2

LEMMA LinkVerbsGrouped ==
  ASSUME NEW b \in Boards, NEW l \in Link
  PROVE  LinkVerbs(b, l) \in Grouped
  <1>1. CASE ~LinkWork(b, l)
    <2>1. LinkVerbs(b, l) = << >> BY <1>1 DEF LinkVerbs
    <2> QED BY <2>1, GroupedClosed
  <1>2. CASE LinkWork(b, l)
    <2> DEFINE q == LinkVerbs(b, l)
               n == Len(q)
    <2>1. q \in Seq(Its(l)) /\ Its(l) \subseteq Verbs BY <1>2, LinkVerbsWire DEF Its
    <2>2. Linked("links", q) /\ (q # << >> => Closes("links", q[n])) BY LinkVerbsSteps DEF Steps
    <2> HIDE DEF q
    <2>3. q \in Seq(Verbs) /\ n \in Nat /\ \A i \in 1..n : q[i] \in Its(l) BY <2>1
    <2>4. q # << >> => q[n].op # "stamp" BY <2>2 DEF Closes
    <2>5. Paired(q)
      <3> SUFFICES ASSUME NEW p \in 1..(n - 1), q[p].op = "stamp" PROVE q[p+1].arg = q[p].arg
        BY DEF Paired
      <3>1. p \in 1..n /\ p + 1 \in 1..n BY <2>3
      <3>2. Follows("links", q[p], q[p+1]) BY <2>2 DEF Linked
      <3>3. q[p+1].op \in {"mint", "wire"} BY <3>2 DEF Follows
      <3> QED BY <2>3, <3>1, <3>3 DEF Its
    <2> QED BY <2>3, <2>4, <2>5 DEF Grouped, q
  <1> QED BY <1>1, <1>2

LEMMA LinksPlanW ==
  ASSUME Inv, WiredInv, UNCHANGED given, Plan, pc = "links"
  PROVE  WiredInv'
  <1> DEFINE p == [i \in 1..Len(links) |-> LinkVerbs(board, links[i])]
             F == FlattenSeq(p)
             n == Len(links)
  <1>1. /\ pc' = pc /\ outcome' = outcome /\ board' = board /\ made' = made /\ queue = << >> /\ hand' = << >>
        /\ queue' = LinksVerbs(board) /\ queue' # << >> /\ board \in Boards /\ Consistent(board) /\ links \in Intents
    BY PlanLeaves DEF Owed
  <1>2. Starts("links", queue'[1]) \/ queue'[1].op = "done" BY PlanLeaves
  <1>3. links' = links BY DEF given
  <1>4. /\ made \subseteq Dpnis /\ outcome # "converged" /\ \A i \in DOMAIN links : EndsThere(board, links[i])
    BY <1>1 DEF WiredInv, LinksPart
  <1>5. n \in Nat /\ DOMAIN links = 1..n /\ \A i \in 1..n : links[i] \in Link
    BY <1>1, LinksIn, LinkOf
  <1>6. \A i \in 1..n : LinkVerbs(board, links[i]) \in Grouped BY <1>1, <1>5, LinkVerbsGrouped
  <1>7. p \in [1..n -> Grouped] /\ p \in [1..n -> Seq(Verbs)] /\ \A i \in 1..n : p[i] = LinkVerbs(board, links[i])
    <2>1. Grouped \subseteq Seq(Verbs) BY DEF Grouped
    <2> QED BY <1>6, <2>1
  <1>8. queue' = F \o Done BY <1>1 DEF LinksVerbs
  <1>9. ~LinksHeld(board) BY DEF Plan, Plannable
  <1> HIDE DEF p, F, n
  <1>10. F \in Grouped /\ F \in Seq(Verbs)
    <2>1. F \in Grouped BY <1>5, <1>7, GroupedClosed, FlattenIn DEF F
    <2> QED BY <2>1 DEF Grouped
  <1>11. Done \in Grouped /\ Done \in Seq(Verbs)
    <2> DEFINE d == Verb("done", None, None, None, None)
    <2>1. d \in Verbs /\ d.op # "stamp" BY DEF Verbs, Verb, Ops, Things
    <2> HIDE DEF d
    <2>2. <<d>> \in Seq(Verbs) /\ Len(<<d>>) = 1 /\ <<d>>[1] = d /\ 1..(1-1) = {} BY <2>1
    <2>3. <<d>> \in Grouped BY <2>1, <2>2 DEF Grouped, Paired
    <2> QED BY <2>2, <2>3 DEF Done, d
  <1>12. Paired(queue')
    <2>1. F \o Done \in Grouped BY <1>10, <1>11, GroupedClosed
    <2> QED BY <1>8, <2>1 DEF Grouped
  <1>13. WiredOrOwed(board, queue)'
    <2> SUFFICES ASSUME NEW i \in DOMAIN links, Apart(links[i]), ~Wired(board, links[i])
                 PROVE  \E r \in 1..Len(queue') : Brings(board, queue'[r], links[i])
      BY <1>1, <1>3 DEF WiredOrOwed
    <2> DEFINE l == links[i]
               s == Slots(board, l)
               w == Verb("wire", Root, l.label, Given(s[1]), Given(s[2]))
    <2>1. l \in Link /\ EndsThere(board, l) /\ ~LinkHeld(board, l) /\ i \in 1..n /\ Apart(l) /\ ~Wired(board, l)
      BY <1>4, <1>5, <1>9 DEF LinksHeld
    <2>2. p[i] = LinkVerbs(board, l) BY <1>7, <2>1
    <2> HIDE DEF l
    <2>3. LinkWork(board, l) BY <1>1, <2>1, LinkJudged
    <2>4. Has(LinkVerbs(board, l), w) BY <1>1, <2>1, <2>3, LinkVerbsWire
    <2>5. EndOf(board, l.a, l.label, s[1]) /\ EndOf(board, l.b, l.label, s[2])
      BY <1>1, <2>1, SlotRows
    <2> HIDE DEF s
    <2>6. w.op = "wire" /\ w.arg = l.label /\ w.a = Given(s[1]) /\ w.b = Given(s[2]) BY DEF Verb
    <2>7. Brings(board, w, l)
      <3>1. /\ Given(s[1]) \in RowsNamed(board, l.a, l.label) \/ (Given(s[1]) = None /\ l.a = Root)
            /\ Given(s[2]) \in RowsNamed(board, l.b, l.label) \/ (Given(s[2]) = None /\ l.b = Root)
        BY <2>5, NoneApart DEF EndOf, Given, RowsNamed
      <3> QED BY <2>6, <3>1 DEF Brings
    <2> HIDE DEF w
    <2>8. Has(F, w) BY <1>5, <1>7, <2>1, <2>2, <2>4, FlattenHas DEF F
    <2>9. Has(queue', w) BY <1>8, <1>10, <1>11, <2>8, HasConcat
    <2> QED BY <2>7, <2>9 DEF Has, l
  <1>14. /\ queue'[1].op \in {"mint", "done"} \/ (queue'[1].op = "wire" /\ queue'[1].a # None)
    BY <1>2 DEF Starts
  <1>15. Unnamed(board', hand', queue'[1]) /\ PlugsWired(board', hand', queue')
    BY <1>14 DEF Unnamed, PlugsWired
  <1>16. HandNamed(board', hand', queue'[1])
    <2>1. 1..Len(<< >>) = {} OBVIOUS
    <2> QED BY <1>1, <2>1 DEF HandNamed
  <1> QED BY <1>1, <1>4, <1>12, <1>13, <1>15, <1>16 DEF WiredInv, LinksPart

-----------------------------------------------------------------------------
(* What a switches plan holds. *)

LEMMA ConcatIs ==
  ASSUME NEW T, NEW s \in Seq(T), NEW t \in Seq(T)
  PROVE  /\ Len(s) \in Nat /\ Len(t) \in Nat /\ Len(s \o t) = Len(s) + Len(t) /\ s \o t \in Seq(T)
         /\ \A i \in 1..(Len(s) + Len(t)) : (s \o t)[i] = IF i <= Len(s) THEN s[i] ELSE t[i - Len(s)]
  OBVIOUS

Unraised(b, v) == v.op = "raise" => SwRows(b, Domains[v.arg].label) = {}

\* Queues whose raises find no switch of their label, but for one destroyed just before.
Clearings(b) ==
  {s \in Seq(Verbs) : Cleared(b, s) /\ (s # << >> => s[Len(s)].op # "destroy" /\ Unraised(b, s[1]))}

\* The queues of the two phases, put one behind the other.
LEMMA ClearedConcat ==
  ASSUME NEW b, NEW s \in Clearings(b), NEW t \in Seq(Verbs), Cleared(b, t),
         t # << >> => Unraised(b, t[1])
  PROVE  /\ s \o t \in Seq(Verbs) /\ Cleared(b, s \o t)
         /\ s \o t # << >> => Unraised(b, (s \o t)[1])
         /\ t # << >> => s \o t # << >> /\ (s \o t)[Len(s \o t)] = t[Len(t)]
         /\ t = << >> => s \o t = s
  <1>1. s \in Seq(Verbs) BY DEF Clearings
  <1>2. CASE s = << >>
    <2>1. s \o t = t BY <1>1, <1>2
    <2> QED BY <1>2, <2>1
  <1>3. CASE t = << >>
    <2>1. s \o t = s BY <1>1, <1>3
    <2> QED BY <1>3, <2>1 DEF Clearings
  <1>4. CASE s # << >> /\ t # << >>
    <2> DEFINE u == s \o t
               m == Len(s)
               n == Len(t)
    <2>1. /\ m \in Nat /\ n \in Nat /\ m # 0 /\ n # 0 /\ Len(u) = m + n /\ u \in Seq(Verbs) /\ u # << >>
          /\ \A i \in 1..(m + n) : u[i] = IF i <= m THEN s[i] ELSE t[i-m]
      BY <1>1, <1>4
    <2>2. s[m].op # "destroy" /\ Unraised(b, s[1]) /\ Unraised(b, t[1]) BY <1>4 DEF Clearings
    <2> DEFINE Good(v, w) ==
                 /\ v.op = "destroy" => w.op = "raise" /\ v.a = DomainSwitch(b, Domains[w.arg])
                 /\ w.op = "raise" /\ v.op # "destroy" => SwRows(b, Domains[w.arg].label) = {}
    <2>3. \A i \in 1..(m - 1) : Good(s[i], s[i+1]) BY DEF Clearings, Cleared
    <2>4. \A i \in 1..(n - 1) : Good(t[i], t[i+1]) BY DEF Cleared
    <2>5. Good(s[m], t[1]) BY <2>2 DEF Unraised
    <2> HIDE DEF u, m, n, Good
    <2>6. ASSUME NEW i \in 1..(m + n - 1) PROVE Good(u[i], u[i+1])
      <3>1. CASE i < m
        <4>1. i \in 1..(m - 1) /\ u[i] = s[i] /\ u[i+1] = s[i+1] BY <2>1, <3>1
        <4> QED BY <2>3, <4>1
      <3>2. CASE i = m
        <4>1. u[i] = s[m] /\ u[i+1] = t[1] BY <2>1, <3>2
        <4> QED BY <2>5, <4>1
      <3>3. CASE i > m
        <4>1. i - m \in 1..(n - 1) /\ u[i] = t[i-m] /\ u[i+1] = t[(i-m)+1] BY <2>1, <3>3
        <4> QED BY <2>4, <4>1
      <3> QED BY <2>1, <3>1, <3>2, <3>3
    <2>7. u[m+n] = t[n] /\ u[1] = s[1]
      <3>1. m + n \in 1..(m + n) /\ ~(m + n <= m) /\ (m + n) - m = n /\ 1 \in 1..(m + n) /\ 1 <= m
        BY <2>1
      <3> QED BY <2>1, <3>1
    <2>8. Cleared(b, u)
      <3> DEFINE k == Len(u) - 1
      <3>1. k = m + n - 1 BY <2>1
      <3> HIDE DEF k
      <3>2. \A i \in 1..k : Good(u[i], u[i+1]) BY <2>6, <3>1
      <3> QED BY <3>2 DEF Cleared, Good, k
    <2>9. /\ u \in Seq(Verbs) /\ Cleared(b, u) /\ Unraised(b, u[1]) /\ u # << >> /\ u[Len(u)] = t[n]
      BY <2>1, <2>2, <2>7, <2>8
    <2> QED BY <1>4, <2>9 DEF u, n
  <1> QED BY <1>2, <1>3, <1>4

LEMMA ClearingsClosed ==
  ASSUME NEW b
  PROVE  << >> \in Clearings(b) /\ \A s, t \in Clearings(b) : s \o t \in Clearings(b)
  <1>1. << >> \in Clearings(b) BY DEF Clearings, Cleared
  <1>2. ASSUME NEW s \in Clearings(b), NEW t \in Clearings(b) PROVE s \o t \in Clearings(b)
    <2>1. t \in Seq(Verbs) /\ Cleared(b, t) /\ (t # << >> => t[Len(t)].op # "destroy" /\ Unraised(b, t[1]))
      BY DEF Clearings
    <2> DEFINE u == s \o t
    <2>2. /\ u \in Seq(Verbs) /\ Cleared(b, u) /\ (u # << >> => Unraised(b, u[1]))
          /\ t # << >> => u # << >> /\ u[Len(u)] = t[Len(t)]
          /\ t = << >> => u = s
      BY <2>1, ClearedConcat
    <2> HIDE DEF u
    <2>3. u \in Clearings(b) BY <2>1, <2>2 DEF Clearings
    <2> QED BY <2>3 DEF u
  <1> QED BY <1>1, <1>2

Raises(i) == {v \in Verbs : v.op = "raise" /\ v.arg = i}

\* The verbs a domain is due, and what a domain that is due none has.
LEMMA DomainVerbsAre ==
  ASSUME NEW b \in Boards, NEW i \in DOMAIN Domains
  PROVE  /\ DomainVerbs(b, i) \in Clearings(b)
         /\ Up(b, {}, i) \/ Has(DomainVerbs(b, i), Verb("raise", Root, i, None, None))
         /\ \A j : Cardinality(Hits(DomainVerbs(b, i), Raises(j))) <= Cardinality(IF i = j THEN {j} ELSE {})
  <1> DEFINE d == Domains[i]
             s == DomainSwitch(b, d)
             r == Verb("raise", Root, i, None, None)
             x == Verb("destroy", Root, None, s, None)
  <1>1. DomainVerbs(b, i) = IF s = None THEN <<r>> ELSE IF s \in b.drifted THEN <<x, r>> ELSE << >>
    BY DEF DomainVerbs
  <1>2. s \in Switches \cup {None} /\ i \in Nat /\ (s = None => SwRows(b, d.label) = {})
    <2>1. i \in Nat BY DomainsIn
    <2>2. s \in Switches \cup {None} /\ (s = None => SwRows(b, d.label) = {})
      <3> HIDE DEF d
      <3> QED BY DomainSwitchIn, SwitchOf DEF s
    <2> QED BY <2>1, <2>2
  <1>3. r \in Verbs /\ x \in Verbs /\ r.op = "raise" /\ r.arg = i /\ x.op = "destroy" /\ x.a = s
    BY <1>2 DEF Verbs, Verb, Ops, Homes, Things, Objs
  <1>4. \A j : Cardinality({j}) = 1 /\ Cardinality({}) = 0 BY FS_Singleton, FS_EmptySet
  <1>5. ASSUME NEW j PROVE x \notin Raises(j) /\ (r \in Raises(j) => i = j) BY <1>3 DEF Raises
  <1>6. CASE s = None
    <2>1. Len(<<r>>) = 1 /\ <<r>>[1] = r /\ <<r>> \in Seq(Verbs) /\ 1 \in 1..Len(<<r>>) BY <1>3
    <2>2. Unraised(b, r) BY <1>2, <1>3, <1>6 DEF Unraised
    <2> HIDE DEF r, x
    <2>3. Cleared(b, <<r>>) BY <2>1 DEF Cleared
    <2>4. <<r>> \in Clearings(b) /\ Has(<<r>>, r) BY <1>3, <2>1, <2>2, <2>3 DEF Clearings, Has
    <2>5. \A j : Cardinality(Hits(<<r>>, Raises(j))) <= Cardinality(IF i = j THEN {j} ELSE {})
      BY <1>4, <1>5, OneHit
    <2> QED BY <1>1, <1>6, <2>4, <2>5 DEF r
  <1>7. CASE s # None /\ s \in b.drifted
    <2> DEFINE q == <<x, r>>
    <2>1. Len(q) = 2 /\ q[1] = x /\ q[2] = r /\ q \in Seq(Verbs) /\ 2 \in 1..Len(q) /\ q # << >>
      BY <1>3
    <2>2. Unraised(b, x) BY <1>3 DEF Unraised
    <2>3. \A j : Cardinality(Hits(q, Raises(j))) <= Cardinality(IF i = j THEN {j} ELSE {})
      <3> TAKE j
      <3> DEFINE X == <<x>>
                 R == <<r>>
                 K == Raises(j)
      <3>1. X \in Seq(Verbs) /\ R \in Seq(Verbs) BY <1>3
      <3>2. Cardinality(Hits(X, K)) = 0 /\ Cardinality(Hits(R, K)) <= Cardinality(IF i = j THEN {j} ELSE {})
        <4> HIDE DEF K, x, r
        <4>1. Cardinality(Hits(X, K)) = IF x \in K THEN 1 ELSE 0 BY OneHit
        <4>2. Cardinality(Hits(R, K)) = IF r \in K THEN 1 ELSE 0 BY OneHit
        <4> QED BY <1>4, <1>5, <4>1, <4>2 DEF K
      <3>3. q = X \o R
        <4> HIDE DEF x, r
        <4> QED BY Pair
      <3> HIDE DEF X, R, K, q
      <3>4. Cardinality(Hits(X \o R, K)) = Cardinality(Hits(X, K)) + Cardinality(Hits(R, K))
        BY <3>1, HitsConcat
      <3>5. Cardinality(Hits(R, K)) \in Nat BY <3>1, HitsIn
      <3>6. Cardinality(Hits(q, K)) = Cardinality(Hits(R, K)) BY <3>2, <3>3, <3>4, <3>5
      <3> QED BY <3>2, <3>6 DEF K
    <2> HIDE DEF r, x, q
    <2>4. Cleared(b, q)
      <3>1. 1..(2-1) = {1} OBVIOUS
      <3> QED BY <1>3, <2>1, <3>1 DEF Cleared
    <2>5. q \in Clearings(b) /\ Has(q, r) BY <1>3, <2>1, <2>2, <2>4 DEF Clearings, Has
    <2>6. DomainVerbs(b, i) = q BY <1>1, <1>7 DEF q
    <2> QED BY <2>3, <2>5, <2>6 DEF r
  <1>8. CASE s # None /\ s \notin b.drifted
    <2>1. DomainVerbs(b, i) = << >> BY <1>1, <1>8
    <2>2. Up(b, {}, i) BY <1>8 DEF Up
    <2>3. \A j : Cardinality(Hits(<< >>, Raises(j))) <= Cardinality(IF i = j THEN {j} ELSE {})
      BY <1>4, NoneHit
    <2> QED BY <2>1, <2>2, <2>3, ClearingsClosed
  <1> QED BY <1>6, <1>7, <1>8

LEMMA SwitchesPlanW ==
  ASSUME Inv, WiredInv, UNCHANGED given, Plan, pc = "switches"
  PROVE  WiredInv'
  <1> DEFINE p == [i \in 1..Len(Domains) |-> DomainVerbs(board, i)]
             F == FlattenSeq(p)
             n == Len(Domains)
  <1>1. /\ pc' = pc /\ outcome' = outcome /\ board' = board /\ made' = made /\ queue = << >> /\ hand' = << >>
        /\ queue' = SwitchVerbs(board) /\ queue' # << >> /\ queue' \in Seq(Verbs) /\ board \in Boards
    BY PlanLeaves DEF Owed
  <1>2. Starts("switches", queue'[1]) \/ queue'[1].op = "done" BY PlanLeaves
  <1>3. links' = links BY DEF given
  <1>4. AllWired(board) /\ made \subseteq Dpnis /\ outcome # "converged"
    BY <1>1 DEF WiredInv, SwitchesPart
  <1>5. n \in Nat /\ DOMAIN Domains = 1..n BY DomainsIn
  <1>6. \A i \in 1..n : /\ DomainVerbs(board, i) \in Clearings(board)
                        /\ Up(board, {}, i) \/ Has(DomainVerbs(board, i), Verb("raise", Root, i, None, None))
                        /\ \A j : Cardinality(Hits(DomainVerbs(board, i), Raises(j)))
                                    <= Cardinality(IF i = j THEN {j} ELSE {})
    BY <1>1, <1>5, DomainVerbsAre
  <1>7. /\ p \in [1..n -> Clearings(board)] /\ p \in [1..n -> Seq(Verbs)]
        /\ \A i \in 1..n : p[i] = DomainVerbs(board, i)
    <2>1. Clearings(board) \subseteq Seq(Verbs) BY DEF Clearings
    <2> QED BY <1>6, <2>1
  <1>8. queue' = F \o Done BY <1>1 DEF SwitchVerbs
  <1>9. Len(Done) = 1 /\ Done[1].op = "done" /\ Done # << >> /\ Done \in Seq(Verbs)
    <2> DEFINE d == Verb("done", None, None, None, None)
    <2>1. d \in Verbs /\ d.op = "done" BY DEF Verbs, Verb, Ops, Things
    <2> HIDE DEF d
    <2>2. <<d>> \in Seq(Verbs) /\ Len(<<d>>) = 1 /\ <<d>>[1] = d /\ <<d>> # << >> BY <2>1
    <2> QED BY <2>1, <2>2 DEF Done, d
  <1> HIDE DEF p, F, n
  <1>10. F \in Clearings(board) /\ F \in Seq(Verbs)
    <2>1. F \in Clearings(board) BY <1>5, <1>7, ClearingsClosed, FlattenIn DEF F
    <2> QED BY <2>1 DEF Clearings
  <1>11. Cleared(board, queue') /\ Unraised(board, queue'[1])
    <2>1. Cleared(board, Done) /\ Unraised(board, Done[1]) BY <1>9 DEF Cleared, Unraised
    <2>2. Cleared(board, F \o Done) /\ (F \o Done # << >> => Unraised(board, (F \o Done)[1]))
      BY <1>9, <1>10, <2>1, ClearedConcat
    <2> QED BY <1>1, <1>8, <2>2
  <1>12. ASSUME NEW i \in DOMAIN Domains, ~Up(board, {}, i) PROVE Raised(queue', i)
    <2> DEFINE r == Verb("raise", Root, i, None, None)
    <2>1. r.op = "raise" /\ r.arg = i /\ i \in 1..n BY <1>5 DEF Verb
    <2> HIDE DEF r
    <2>2. Has(p[i], r) BY <1>6, <1>7, <1>12, <2>1 DEF r
    <2>3. Has(F, r) BY <1>5, <1>7, <2>1, <2>2, FlattenHas DEF F
    <2>4. Has(queue', r) BY <1>8, <1>9, <1>10, <2>3, HasConcat
    <2> QED BY <2>1, <2>4 DEF Has, Raised
  <1>13. Once(queue')
    <2> SUFFICES ASSUME NEW x \in 1..Len(queue'), NEW y \in 1..Len(queue'), queue'[x].op = "raise",
                        queue'[y].op = "raise", queue'[x].arg = queue'[y].arg
                 PROVE  x = y
      BY DEF Once
    <2> DEFINE j == queue'[x].arg
               W == {j}
               K == Raises(j)
               w == [i \in 1..n |-> IF i = j THEN {j} ELSE {}]
    <2>1. IsFiniteSet(W) /\ Cardinality(W) = 1 BY FS_Singleton
    <2>2. w \in [1..n -> SUBSET W] /\ Separate(w, n) /\ Whole(w, n) \subseteq W
      BY DEF Separate, Whole
    <2>3. \A i \in 1..n : w[i] = IF i = j THEN {j} ELSE {} OBVIOUS
    <2> HIDE DEF w, W, K
    <2>4. Paid(p, w, n, K)
      <3>1. \A i \in 1..n : Cardinality(Hits(p[i], K)) <= Cardinality(IF i = j THEN {j} ELSE {})
        BY <1>6, <1>7 DEF K
      <3> QED BY <2>3, <3>1 DEF Paid
    <2>5. Cardinality(Hits(F, K)) <= Cardinality(Whole(w, n))
      BY <1>5, <1>7, <2>1, <2>2, <2>4, FlattenHits DEF F
    <2>6. IsFiniteSet(Whole(w, n)) /\ Cardinality(Whole(w, n)) <= 1 /\ Cardinality(Whole(w, n)) \in Nat
      BY <2>1, <2>2, FS_Subset, FS_CardinalityType
    <2>7. Cardinality(Hits(Done, K)) = 0
      <3>1. \A i \in 1..Len(Done) : Done[i] \notin K BY <1>9 DEF K, Raises
      <3> QED BY <3>1, NoHits
    <2>8. Cardinality(Hits(queue', K)) = Cardinality(Hits(F, K)) + Cardinality(Hits(Done, K))
      BY <1>8, <1>9, <1>10, HitsConcat
    <2>9. Cardinality(Hits(F, K)) \in Nat BY <1>10, HitsIn
    <2>10. Cardinality(Hits(queue', K)) <= 1 /\ IsFiniteSet(Hits(queue', K))
      <3>1. IsFiniteSet(Hits(queue', K)) BY <1>1, HitsIn
      <3> QED BY <2>5, <2>6, <2>7, <2>8, <2>9, <3>1
    <2>11. x \in Hits(queue', K) /\ y \in Hits(queue', K)
      <3>1. queue'[x] \in Verbs /\ queue'[y] \in Verbs BY <1>1
      <3> QED BY <3>1 DEF Hits, K, Raises
    <2> DEFINE H == Hits(queue', K)
    <2> HIDE DEF H
    <2>12. IsFiniteSet(H) /\ Cardinality(H) <= 1 /\ x \in H /\ y \in H BY <2>10, <2>11 DEF H
    <2>13. IsFiniteSet(H \ {x}) /\ Cardinality(H \ {x}) = Cardinality(H) - 1
      BY <2>12, FS_RemoveElement
    <2>14. Cardinality(H) \in Nat /\ Cardinality(H \ {x}) \in Nat
      BY <2>12, <2>13, FS_CardinalityType
    <2>15. Cardinality(H \ {x}) = 0 BY <2>12, <2>13, <2>14
    <2>16. H \ {x} = {} BY <2>13, <2>15, FS_EmptySet
    <2> QED BY <2>12, <2>16
  <1>14. \A i \in DOMAIN Domains : Up(board, made, i) \/ Raised(queue', i)
    <2> SUFFICES ASSUME NEW i \in DOMAIN Domains, Up(board, {}, i) PROVE Up(board, made, i) BY <1>12
    <2>1. DomainSwitch(board, Domains[i]) # None => DomainSwitch(board, Domains[i]) \in Switches
      BY <1>1, DomainSwitchIn
    <2>2. made \cap Switches = {} BY <1>4, EndsApart
    <2> QED BY <2>1, <2>2 DEF Up
  <1>15. queue'[1].op \in Outer BY <1>2 DEF Starts, Outer
  <1>16. queue'[1].op = "raise" => Room(board, Domains[queue'[1].arg].label)
    BY <1>11 DEF Unraised, Room
  <1>17. SwitchQueue(board', hand', made', queue')
    BY <1>1, <1>11, <1>13, <1>14, <1>15, <1>16 DEF SwitchQueue
  <1>18. AllWired(board)' BY <1>1, <1>3, <1>4 DEF AllWired
  <1> QED BY <1>1, <1>4, <1>17, <1>18 DEF WiredInv, SwitchesPart

LEMMA PrunePlanW ==
  ASSUME Inv, WiredInv, UNCHANGED given, Plan, pc = "prune"
  PROVE  WiredInv'
  <1> DEFINE C == SwitchCandidates(board)
             order == InOrder(C)
             p == [i \in 1..Len(order) |-> Verb("destroy", Root, None, order[i], None)]
  <1>1. /\ pc' = pc /\ outcome' = outcome /\ board' = board /\ made' = made
        /\ queue' = PruneVerbs(board)
    BY PlanLeaves DEF Owed
  <1>2. links' = links BY DEF given
  <1>3. PrunePart /\ outcome # "converged" BY DEF WiredInv
  <1>4. C \subseteq Nat /\ IsFiniteSet(C)
    <2> DEFINE top == 999
    <2>1. 1 \in Int /\ top \in Int OBVIOUS
    <2>2. C \subseteq 1..top
      <3>1. Switches \subseteq 1..top /\ C \subseteq Switches
        BY BoardAssumption DEF SwitchCandidates, EveryUndeclared
      <3> HIDE DEF C, top
      <3> QED BY <3>1
    <2> HIDE DEF top, C
    <2>3. IsFiniteSet(1..top) BY <2>1, FS_Interval
    <2>4. 1..top \subseteq Nat OBVIOUS
    <2> QED BY <2>2, <2>3, <2>4, FS_Subset
  <1>5. \A s \in C : board.tag[s] \notin Labels BY DEF SwitchCandidates, EveryUndeclared
  <1> HIDE DEF C
  <1>6. Cardinality(C) \in Nat /\ order \in [1..Cardinality(C) -> C] BY <1>4, InOrderIn
  <1>7. Len(order) \in Nat /\ \A i \in 1..Len(order) : order[i] \in C BY <1>6
  <1> HIDE DEF order
  <1>8. /\ Len(p) = Len(order) /\ p = [i \in 1..Len(p) |-> p[i]]
        /\ \A i \in 1..Len(p) : p[i].op = "destroy" /\ p[i].a = order[i]
    BY <1>7 DEF Verb
  <1>9. queue' = p \o Done BY <1>1 DEF PruneVerbs, order, C
  <1>10. Len(Done) = 1 /\ Done[1].op = "done" BY DEF Done, Verb
  <1> DEFINE T == {p[i] : i \in 1..Len(p)} \cup {Done[1]}
             u == p \o Done
  <1>11. p \in Seq(T) /\ Done \in Seq(T)
    <2>1. p \in Seq(T) BY <1>7, <1>8
    <2> DEFINE y == Done[1]
    <2>2. Done = <<y>> /\ y \in T BY DEF Done
    <2> HIDE DEF T, y
    <2>3. <<y>> \in Seq(T) BY <2>2
    <2> QED BY <2>1, <2>2, <2>3
  <1> HIDE DEF p, T
  <1>12. /\ Len(p) \in Nat /\ Len(u) = Len(p) + 1
         /\ \A i \in 1..(Len(p) + 1) : u[i] = IF i <= Len(p) THEN p[i] ELSE Done[i - Len(p)]
    <2> DEFINE D == Done
    <2>1. p \in Seq(T) /\ D \in Seq(T) /\ Len(D) = 1 BY <1>10, <1>11
    <2> HIDE DEF D
    <2>2. /\ Len(p) \in Nat /\ Len(p \o D) = Len(p) + Len(D)
          /\ \A i \in 1..(Len(p) + Len(D)) : (p \o D)[i] = IF i <= Len(p) THEN p[i] ELSE D[i - Len(p)]
      BY <2>1, ConcatIs
    <2>3. Len(p) + Len(D) = Len(p) + 1 BY <2>1
    <2> QED BY <2>2, <2>3 DEF D
  <1> HIDE DEF u
  <1>13. ASSUME NEW i \in 1..Len(u), u[i].op = "destroy" PROVE board.tag[u[i].a] \notin Labels
    <2>1. CASE i <= Len(p)
      <3>1. i \in 1..Len(p) /\ u[i] = p[i] BY <1>12, <2>1
      <3> QED BY <1>5, <1>7, <1>8, <3>1
    <2>2. CASE ~(i <= Len(p))
      <3>1. i - Len(p) = 1 BY <1>12, <2>2
      <3> QED BY <1>10, <1>12, <1>13, <2>2, <3>1
    <2> QED BY <2>1, <2>2
  <1>14. PrunePart'
    <2>1. queue' = u BY <1>9 DEF u
    <2> QED BY <1>1, <1>2, <1>3, <1>13, <2>1 DEF PrunePart, AllWired
  <1> QED BY <1>1, <1>3, <1>14 DEF WiredInv

-----------------------------------------------------------------------------
(* A raise goes on. *)

\* The place of a raise is the head's, the switch being raised the hand's: there is one.
LEMMA OneRising ==
  ASSUME NEW b, NEW hd, NEW q, NEW i \in DOMAIN Domains, NEW j \in DOMAIN Domains,
         NEW k \in 0..(Len(Domains[i].members) + 5), NEW l \in 0..(Len(Domains[j].members) + 5),
         Rises(b, hd, q, i, k), Rises(b, hd, q, j, l)
  PROVE  i = j /\ q[1].op \notin Outer
  <1> DEFINE n == Len(Domains[i].members)
             m == Len(Domains[j].members)
  <1>1. n \in Nat /\ m \in Nat BY DomainsIn
  <1>2. \A p \in k..(n+5) : Script(b, Domains[i], p, q[p-k+1]) BY DEF Rises
  <1>3. \A p \in l..(m+5) : Script(b, Domains[j], p, q[p-l+1]) BY DEF Rises
  <1>4. Script(b, Domains[i], k, q[1]) /\ Script(b, Domains[j], l, q[1])
    <2>1. k \in k..(n+5) /\ k - k + 1 = 1 /\ l \in l..(m+5) /\ l - l + 1 = 1 BY <1>1
    <2> HIDE DEF n, m
    <2>2. Script(b, Domains[i], k, q[k-k+1]) /\ Script(b, Domains[j], l, q[l-l+1])
      BY <1>2, <1>3, <2>1
    <2> QED BY <2>1, <2>2
  <1>5. \/ k = 0 /\ q[1].op = "sever"
        \/ k = 1 /\ q[1].op = "mintSwitch"
        \/ k = 2 /\ q[1].op = "stamp"
        \/ k > 2 /\ q[1].op \in {"port", "plugA", "next"}
    <2>1. k = 0 \/ k = 1 \/ k = 2 \/ k \in 3..(n+3) \/ k = n + 4 \/ k = n + 5 BY <1>1
    <2> QED BY <1>1, <1>4, <2>1 DEF Script
  <1>6. \/ l = 0 /\ q[1].op = "sever"
        \/ l = 1 /\ q[1].op = "mintSwitch"
        \/ l = 2 /\ q[1].op = "stamp"
        \/ l > 2 /\ q[1].op \in {"port", "plugA", "next"}
    <2>1. l = 0 \/ l = 1 \/ l = 2 \/ l \in 3..(m+3) \/ l = m + 4 \/ l = m + 5 BY <1>1
    <2> QED BY <1>1, <1>4, <2>1 DEF Script
  <1>7. Domains[i].label = Domains[j].label
    <2>1. CASE k <= 2
      <3>1. l = k /\ 2 \in k..(n+5) /\ 2 \in l..(m+5) BY <1>1, <1>5, <1>6, <2>1
      <3> HIDE DEF n, m
      <3>2. Script(b, Domains[i], 2, q[2-k+1]) /\ Script(b, Domains[j], 2, q[2-k+1])
        BY <1>2, <1>3, <3>1
      <3> QED BY <3>2 DEF Script
    <2>2. CASE k > 2
      <3>1. l > 2 BY <1>5, <1>6, <2>2
      <3>2. b.tag[hd[1]] = Domains[i].label /\ b.tag[hd[1]] = Domains[j].label
        BY <2>2, <3>1 DEF Rises, Part
      <3> QED BY <3>2
    <2> QED BY <2>1, <2>2
  <1>8. i = j BY <1>7, PlanAssumption
  <1> QED BY <1>5, <1>8 DEF Outer

\* A raise comes one place on.
LEMMA RiseOn ==
  ASSUME NEW b, NEW c, NEW hd, NEW h1, NEW q, NEW q1, NEW i \in DOMAIN Domains,
         NEW k \in 0..(Len(Domains[i].members) + 4), Rises(b, hd, q, i, k), Len(q) \in Nat,
         Len(q1) = Len(q) - 1, \A p \in 1..Len(q1) : p + 1 \in 1..Len(q) /\ q1[p] = q[p+1],
         SameTags(b, c), Part(c, h1, Domains[i], k + 1)
  PROVE  Rises(c, h1, q1, i, k + 1) /\ Rising(c, h1, q1, i) /\ q1[1].op \notin Outer
  <1> DEFINE d == Domains[i]
             n == Len(d.members)
  <1>1. n \in Nat /\ n <= Widest /\ Len(q) > n + 5 - k BY DomainsIn DEF Rises
  <1>2. \A p \in k..(n+5) : Script(b, d, p, q[p-k+1]) BY DEF Rises
  <1>3. ~Raised(q1, i) BY DEF Rises, Raised
  <1> HIDE DEF d, n
  <1>4. ASSUME NEW p \in (k+1)..(n+5) PROVE Script(b, d, p, q1[p-(k+1)+1])
    <2>1. p \in k..(n+5) /\ p - (k+1) + 1 \in 1..Len(q1) /\ (p - (k+1) + 1) + 1 = p - k + 1 BY <1>1
    <2> QED BY <1>2, <2>1
  <1>5. ASSUME NEW p, NEW v, Script(b, d, p, v) PROVE Script(c, d, p, v)
    BY <1>5 DEF Script, Right, SameTags
  <1>6. Len(q1) > n + 5 - (k+1) BY <1>1
  <1>7. Rises(c, h1, q1, i, k+1) BY <1>1, <1>3, <1>4, <1>5, <1>6 DEF Rises, d, n
  <1>8. k + 1 \in 0..(n+5) BY <1>1 DEF d, n
  <1>9. Rising(c, h1, q1, i) BY <1>7, <1>8 DEF Rising, d, n
  <1> QED BY <1>7, <1>8, <1>9, OneRising DEF d, n

LEMMA ClearedOn ==
  ASSUME NEW b, NEW c, NEW q, NEW q1, Len(q) \in Nat, Len(q1) = Len(q) - 1,
         \A p \in 1..Len(q1) : p + 1 \in 1..Len(q) /\ q1[p] = q[p+1],
         \A p \in 3..Len(q) : q[p].op = "raise" => SwRows(c, Domains[q[p].arg].label) = SwRows(b, Domains[q[p].arg].label),
         Cleared(b, q), Once(q)
  PROVE  Cleared(c, q1) /\ Once(q1)
  <1>1. Once(q1)
    <2> SUFFICES ASSUME NEW p \in 1..Len(q1), NEW r \in 1..Len(q1), q1[p].op = "raise", q1[r].op = "raise",
                        q1[p].arg = q1[r].arg
                 PROVE  p = r
      BY DEF Once
    <2>1. p + 1 = r + 1 BY DEF Once
    <2> QED BY <2>1
  <1>2. ASSUME NEW p \in 1..(Len(q1) - 1)
        PROVE  /\ q1[p].op = "destroy" =>
                    q1[p+1].op = "raise" /\ q1[p].a = DomainSwitch(c, Domains[q1[p+1].arg])
               /\ q1[p+1].op = "raise" /\ q1[p].op # "destroy" => SwRows(c, Domains[q1[p+1].arg].label) = {}
    <2> DEFINE x == p + 1
    <2>1. x \in 1..(Len(q) - 1) /\ q1[p] = q[x] /\ q1[x] = q[x+1] /\ x + 1 \in 3..Len(q) /\ x \in 1..Len(q1)
      <3>1. p \in 1..Len(q1) /\ x \in 1..Len(q1) /\ x \in 1..(Len(q) - 1) /\ x + 1 \in 3..Len(q)
        OBVIOUS
      <3> QED BY <3>1
    <2> HIDE DEF x
    <2>2. q[x+1].op = "raise" => SwRows(c, Domains[q[x+1].arg].label) = SwRows(b, Domains[q[x+1].arg].label)
      BY <2>1
    <2>3. \A d : SwRows(c, d.label) = SwRows(b, d.label) => DomainSwitch(c, d) = DomainSwitch(b, d)
      BY DEF SwRows, DomainSwitch
    <2>4. /\ q[x].op = "destroy" => q[x+1].op = "raise" /\ q[x].a = DomainSwitch(b, Domains[q[x+1].arg])
          /\ q[x+1].op = "raise" /\ q[x].op # "destroy" => SwRows(b, Domains[q[x+1].arg].label) = {}
      BY <2>1 DEF Cleared
    <2>5. /\ q[x].op = "destroy" => q[x+1].op = "raise" /\ q[x].a = DomainSwitch(c, Domains[q[x+1].arg])
          /\ q[x+1].op = "raise" /\ q[x].op # "destroy" => SwRows(c, Domains[q[x+1].arg].label) = {}
      BY <2>2, <2>3, <2>4
    <2> QED BY <2>1, <2>5 DEF x
  <1>3. Cleared(c, q1) BY <1>2 DEF Cleared
  <1> QED BY <1>1, <1>3

LEMMA AllWiredOn ==
  ASSUME links \in Intents, links' = links, AllWired(board), NoLess(board, board')
  PROVE  AllWired(board)'
  <1>1. \A i \in DOMAIN links : links[i] \in Link BY LinkOf
  <1> QED BY <1>1, WiredKept DEF AllWired

\* A verb of a raise: it leaves the other domains alone.
LEMMA RaisingOn ==
  ASSUME Inv, WiredInv, UNCHANGED given, pc = "switches", queue # << >>, Advance,
         NoLess(board, board'), SameTags(board, board'), board' \in Boards,
         NEW i \in DOMAIN Domains, NEW k \in 0..(Len(Domains[i].members) + 5),
         Rises(board, hand, queue, i, k),
         \A j \in DOMAIN Domains : j # i =>
           /\ Same(board, board', Domains[j].label)
           /\ \A s \in SwRows(board, Domains[j].label) : s \in made' => s \in made,
         k < Len(Domains[i].members) + 5 => Part(board', hand', Domains[i], k + 1),
         k = Len(Domains[i].members) + 5 => Up(board', made', i)
  PROVE  WiredInv'
  <1> DEFINE n == Len(Domains[i].members)
  <1>1. queue[1].op \notin Outer /\ n \in Nat BY OneRising, DomainsIn
  <1>2. /\ pc' = pc /\ outcome' = outcome /\ Len(queue) \in Nat /\ Len(queue') = Len(queue) - 1 /\ queue' # << >>
        /\ \A p \in 1..Len(queue') : p + 1 \in 1..Len(queue) /\ queue'[p] = queue[p+1]
        /\ queue'[1] = queue[2] /\ Follows("switches", queue[1], queue'[1]) /\ Len(queue) > 1
    BY <1>1, Took DEF Outer
  <1>3. SwitchesPart /\ SwitchQueue(board, hand, made, queue) /\ outcome # "converged"
    BY DEF WiredInv, SwitchesPart
  <1>4. AllWired(board)' BY <1>3, AllWiredOn DEF SwitchesPart, given, Inv, Shapes
  <1>5. ~Raised(queue, i) BY DEF Rises
  <1>6. Cleared(board', queue') /\ Once(queue')
    <2>1. queue \in Seq(Fit("switches", board, before)) BY DEF Inv, QueueInv
    <2>2. \A p \in 1..Len(queue) : queue[p] \in Fit("switches", board, before) BY <2>1
    <2>3. ASSUME NEW p \in 3..Len(queue), queue[p].op = "raise"
          PROVE  SwRows(board', Domains[queue[p].arg].label) = SwRows(board, Domains[queue[p].arg].label)
      <3>1. p \in 1..Len(queue) BY <1>2
      <3>2. queue[p].arg \in DOMAIN Domains /\ queue[p].arg # i
        BY <1>5, <2>2, <2>3, <3>1 DEF Raised, Fit, Fits
      <3> QED BY <3>2 DEF Same
    <2> QED BY <1>2, <1>3, <2>3, ClearedOn DEF SwitchQueue
  <1>7. ASSUME NEW j \in DOMAIN Domains, j # i
        PROVE  Up(board', made', j) \/ Raised(queue', j)
    <2>1. ~Rising(board, hand, queue, j) BY <1>7, OneRising DEF Rising
    <2>2. Up(board, made, j) => Up(board', made', j)
      <3>1. Same(board, board', Domains[j].label) /\ \A s \in SwRows(board, Domains[j].label) : s \in made' => s \in made
        BY <1>7
      <3>2. board \in Boards BY DEF Inv, TypeOK
      <3> QED BY <3>1, <3>2, UpKept
    <2>3. Raised(queue, j) => Raised(queue', j)
      <3> SUFFICES ASSUME NEW p \in 1..Len(queue), queue[p].op = "raise", queue[p].arg = j PROVE Raised(queue', j)
        BY DEF Raised
      <3>1. p # 1 BY <1>1 DEF Outer
      <3> DEFINE r == p - 1
      <3>2. r \in 1..Len(queue') /\ r + 1 = p BY <1>2, <3>1
      <3> HIDE DEF r
      <3>3. queue'[r] = queue[p] BY <1>2, <3>2
      <3> QED BY <3>2, <3>3 DEF Raised
    <2> QED BY <1>3, <2>1, <2>2, <2>3 DEF SwitchQueue
  <1>8. CASE k < n + 5
    <2>1. k \in 0..(n + 4) BY <1>1, <1>8
    <2>2. Part(board', hand', Domains[i], k + 1) BY <1>8
    <2>3. Rising(board', hand', queue', i) /\ queue'[1].op \notin Outer BY <1>2, <2>1, <2>2, RiseOn
    <2>4. SwitchQueue(board', hand', made', queue') BY <1>6, <1>7, <2>3 DEF SwitchQueue, Outer
    <2> QED BY <1>2, <1>3, <1>4, <2>4 DEF WiredInv, SwitchesPart
  <1>9. CASE k = n + 5
    <2>1. Up(board', made', i) BY <1>9
    <2>2. queue[1].op = "next"
      <3>1. k \in k..(n + 5) /\ k - k + 1 = 1 BY <1>1, <1>9
      <3>2. Script(board, Domains[i], k, queue[k-k+1]) BY <3>1 DEF Rises
      <3> QED BY <1>9, <3>1, <3>2 DEF Script
    <2>3. queue'[1].op \in Outer BY <1>2, <2>2 DEF Follows, Outer
    <2>4. queue'[1].op = "raise" => Room(board', Domains[queue'[1].arg].label)
      <3>1. 1 \in 1..(Len(queue) - 1) /\ 1 + 1 = 2 BY <1>2
      <3>2. queue[2].op = "raise" => SwRows(board, Domains[queue[2].arg].label) = {}
        BY <1>3, <2>2, <3>1 DEF SwitchQueue, Cleared
      <3>3. queue[2].op = "raise" => queue[2].arg \in DOMAIN Domains /\ queue[2].arg # i
        <4>1. queue \in Seq(Fit("switches", board, before)) /\ 2 \in 1..Len(queue)
          BY <1>2 DEF Inv, QueueInv
        <4>2. queue[2] \in Fit("switches", board, before) BY <4>1
        <4> QED BY <1>5, <4>1, <4>2 DEF Raised, Fit, Fits
      <3> QED BY <1>2, <3>2, <3>3 DEF Same, Room
    <2>5. SwitchQueue(board', hand', made', queue') BY <1>6, <1>7, <2>1, <2>3, <2>4 DEF SwitchQueue
    <2> QED BY <1>2, <1>3, <1>4, <2>5 DEF WiredInv, SwitchesPart
  <1> QED BY <1>1, <1>8, <1>9

\* A verb of the switches phase that is none between two raises belongs to one.
LEMMA Placed ==
  ASSUME Inv, WiredInv, pc = "switches", queue # << >>, queue[1].op \notin Outer
  PROVE  \E i \in DOMAIN Domains : \E k \in 0..(Len(Domains[i].members) + 5) :
           /\ Rises(board, hand, queue, i, k) /\ Script(board, Domains[i], k, queue[1])
           /\ Part(board, hand, Domains[i], k) /\ Len(Domains[i].members) \in Nat
           /\ Len(Domains[i].members) <= Widest
           /\ queue[1].op = "sever" => k = 0
           /\ queue[1].op = "mintSwitch" => k = 1
           /\ queue[1].op = "stamp" => k = 2 /\ queue[1].arg = Domains[i].label
           /\ queue[1].op = "port" => /\ k \in 3..(Len(Domains[i].members) + 3) /\ queue[1].arg = k - 3
                                      /\ Right(board, Domains[i], k - 3, queue[1].b)
           /\ queue[1].op = "plugA" => k = Len(Domains[i].members) + 4
           /\ queue[1].op = "next" => k = Len(Domains[i].members) + 5
  <1>1. SwitchQueue(board, hand, made, queue) BY DEF WiredInv, SwitchesPart
  <1>2. PICK i \in DOMAIN Domains : Rising(board, hand, queue, i) BY <1>1 DEF SwitchQueue
  <1>3. PICK k \in 0..(Len(Domains[i].members) + 5) : Rises(board, hand, queue, i, k)
    BY <1>2 DEF Rising
  <1> DEFINE n == Len(Domains[i].members)
             d == Domains[i]
  <1>4. n \in Nat BY DomainsIn
  <1>5. k \in k..(n + 5) /\ k - k + 1 = 1 BY <1>4
  <1>6. Script(board, d, k, queue[1]) /\ Part(board, hand, d, k) /\ n <= Widest
    BY <1>3, <1>5 DEF Rises
  <1>7. k = 0 \/ k = 1 \/ k = 2 \/ k \in 3..(n+3) \/ k = n + 4 \/ k = n + 5 BY <1>4
  <1> DEFINE v == queue[1]
  <1>8. /\ v.op = "sever" => k = 0
        /\ v.op = "mintSwitch" => k = 1
        /\ v.op = "stamp" => k = 2 /\ v.arg = d.label
        /\ v.op = "port" => k \in 3..(n + 3) /\ v.arg = k - 3 /\ Right(board, d, k - 3, v.b)
        /\ v.op = "plugA" => k = n + 4
        /\ v.op = "next" => k = n + 5
    <2>1. k = 0 => v.op = "sever" BY <1>6 DEF Script
    <2>2. k = 1 => v.op = "mintSwitch" BY <1>6 DEF Script
    <2>3. k = 2 => v.op = "stamp" /\ v.arg = d.label BY <1>6 DEF Script
    <2>4. k \in 3..(n+3) => v.op = "port" /\ v.arg = k - 3 /\ Right(board, d, k - 3, v.b)
      BY <1>6 DEF Script
    <2>5. k = n + 4 => v.op = "plugA" BY <1>6 DEF Script
    <2>6. k = n + 5 => v.op = "next" BY <1>6 DEF Script
    <2> HIDE DEF v, d, n
    <2> QED BY <1>7, <2>1, <2>2, <2>3, <2>4, <2>5, <2>6
  <1> QED BY <1>3, <1>4, <1>6, <1>8

-----------------------------------------------------------------------------
(* The switches: the verbs. *)

LEMMA MintSwitchW ==
  ASSUME Inv, WiredInv, UNCHANGED given, board' \in Boards, Mint("mintSwitch", Switches)
  PROVE  WiredInv'
  <1> DEFINE o == hand'[Len(hand')]
  <1>1. /\ queue # << >> /\ queue[1].op = "mintSwitch" /\ Advance /\ made' = made
        /\ o \in Switches /\ o \in Objs /\ board.home[o] = None /\ \A t \in FreeIds(board, Switches) : o <= t
        /\ queue[1].at \in Homes /\ pc = "switches" /\ hand = << >>
        /\ Len(hand) \in Nat /\ Len(hand') = Len(hand) + 1
        /\ NoLess(board, board') /\ SameTags(board, board') /\ \A n \in Names : Same(board, board', n)
        /\ board'.tag[o] = None /\ o \notin board'.drifted /\ board'.home[o] = queue[1].at
    BY MintedNow
  <1>2. Fits(pc, board, before, queue[1]) BY <1>1, Found
  <1>3. Len(hand') = 1 /\ hand'[1] = o /\ board'.home[o] = Root
    <2>1. Len(hand) = 0 BY <1>1
    <2> QED BY <1>1, <1>2, <2>1 DEF Fits
  <1>4. PICK i \in DOMAIN Domains : \E k \in 0..(Len(Domains[i].members) + 5) :
          /\ Rises(board, hand, queue, i, k) /\ Part(board, hand, Domains[i], k)
          /\ Len(Domains[i].members) \in Nat /\ k = 1
    BY <1>1, Placed DEF Outer
  <1> HIDE DEF o
  <1> DEFINE d == Domains[i]
             n == Len(d.members)
  <1>5. Rises(board, hand, queue, i, 1) /\ Part(board, hand, d, 1) /\ n \in Nat /\ d.label \in Names
    BY <1>4, DomainsIn
  <1>6. \A t \in SwRows(board', d.label) : o <= t
    <2>1. SwRows(board', d.label) = SwRows(board, d.label) BY <1>1, <1>5 DEF Same
    <2> SUFFICES ASSUME NEW t \in SwRows(board, d.label) PROVE o <= t BY <2>1
    <2>2. PICK f \in FreeIds(board, Switches) : f < t BY <1>5 DEF Part, Room
    <2>3. o \in Nat /\ f \in Nat /\ t \in Nat /\ o <= f BY <1>1, IdsIn DEF FreeIds, SwRows
    <2> QED BY <2>2, <2>3
  <1>7. Part(board', hand', d, 2)
    <2>1. \A j \in 0..n : ~(j + 3 < 2) BY <1>5
    <2>2. 2 # n + 5 BY <1>5
    <2> HIDE DEF n, d
    <2> QED BY <1>1, <1>3, <1>6, <2>1, <2>2 DEF Part, n
  <1>8. \A j \in DOMAIN Domains : Same(board, board', Domains[j].label) BY <1>1, DomainsIn
  <1>9. 1 \in 0..(n + 5) /\ 1 < n + 5 /\ 1 # n + 5 BY <1>5
  <1> QED BY <1>1, <1>5, <1>7, <1>8, <1>9, RaisingOn

LEMMA SeverW ==
  ASSUME Inv, WiredInv, UNCHANGED given, board' \in Boards, Sever
  PROVE  WiredInv' /\ board'.plugged = board.plugged
  <1> DEFINE v == queue[1]
             x == v.a
  <1>1. /\ queue # << >> /\ Head(queue).op = "sever" /\ board' = Cut(board, {Head(queue).a})
        /\ Advance /\ made' = made /\ hand' = hand
    BY DEF Sever, Next1, V, Silent
  <1>2. /\ Head(queue) = v /\ Fits(pc, board, before, v) /\ Ready(board, before, hand, ToSet(journal), v)
        /\ board \in Boards /\ Consistent(board)
    BY <1>1, Found
  <1>3. v.op = "sever" /\ pc = "switches" /\ x \in Dpnis BY <1>1, <1>2 DEF Fits
  <1>4. board.wire[x] \in Macs BY <1>2, <1>3, DomainsIn DEF Ready
  <1>5. board' = Cut(board, {x}) BY <1>1, <1>2
  <1>6. PICK i \in DOMAIN Domains : \E k \in 0..(Len(Domains[i].members) + 5) :
          /\ Rises(board, hand, queue, i, k) /\ Part(board, hand, Domains[i], k)
          /\ Len(Domains[i].members) \in Nat /\ k = 0
    BY <1>1, <1>3, Placed DEF Outer
  <1> HIDE DEF x
  <1>7. /\ NoLess(board, board') /\ SameTags(board, board') /\ \A n : Same(board, board', n)
        /\ board'.home = board.home /\ board'.plugged = board.plugged
    BY <1>2, <1>3, <1>4, <1>5, CutMore
  <1> DEFINE d == Domains[i]
             n == Len(d.members)
  <1>8. Rises(board, hand, queue, i, 0) /\ Part(board, hand, d, 0) /\ n \in Nat BY <1>6
  <1>9. Part(board', hand', d, 1)
    <2>1. Room(board, d.label) BY <1>8 DEF Part
    <2>2. Room(board', d.label) BY <1>7, <2>1 DEF Room, Same, FreeIds
    <2> HIDE DEF d
    <2> QED BY <2>2 DEF Part
  <1>10. 0 \in 0..(n + 5) /\ 0 < n + 5 /\ 0 # n + 5 /\ 0 + 1 = 1 BY <1>8
  <1>11. WiredInv' BY <1>1, <1>3, <1>7, <1>8, <1>9, <1>10, RaisingOn
  <1> QED BY <1>7, <1>11

LEMMA StampSwitchW ==
  ASSUME Inv, WiredInv, UNCHANGED given, board' \in Boards, Stamp, pc = "switches"
  PROVE  WiredInv'
  <1> DEFINE o == Last(hand)
             v == queue[1]
  <1>1. /\ queue # << >> /\ Head(queue).op = "stamp" /\ board' = Stamped(board, o, Head(queue).arg)
        /\ made' \subseteq made \cup {o} /\ Advance /\ hand' = hand
    BY DEF Stamp, Next1, V, Made, Created, Silent
  <1>2. /\ Head(queue) = v /\ Fits(pc, board, before, v) /\ Ready(board, before, hand, ToSet(journal), v)
        /\ board \in Boards /\ hand \in Seq(Objs)
    BY <1>1, Found
  <1>3. v.op = "stamp" /\ hand # << >> BY <1>1, <1>2 DEF Ready
  <1>4. o \in Switches /\ o \in Objs BY <1>3, Held1 DEF Early
  <1>5. PICK i \in DOMAIN Domains : \E k \in 0..(Len(Domains[i].members) + 5) :
          /\ Rises(board, hand, queue, i, k) /\ Part(board, hand, Domains[i], k)
          /\ Len(Domains[i].members) \in Nat /\ k = 2 /\ queue[1].arg = Domains[i].label
    BY <1>1, <1>3, Placed DEF Outer
  <1> DEFINE d == Domains[i]
             n == Len(d.members)
             l == d.label
  <1>6. Rises(board, hand, queue, i, 2) /\ Part(board, hand, d, 2) /\ n \in Nat /\ l \in Names /\ v.arg = l
    BY <1>5, DomainsIn
  <1>7. Len(hand) = 1 /\ o = hand[1]
    <2>1. Len(hand) = 1
      <3> HIDE DEF d
      <3> QED BY <1>6 DEF Part
    <2> QED BY <2>1 DEF Last
  <1>8. /\ o \notin board.drifted /\ board.home[o] = Root /\ board.tag[o] = None
        /\ \A t \in SwRows(board, l) : o <= t
    BY <1>6, <1>7 DEF Part
  <1>9. board' = Stamped(board, o, l) BY <1>1, <1>2, <1>6
  <1>10. l # None /\ \A j \in DOMAIN Domains : Domains[j].label \in Names /\ Domains[j].label # None
    BY <1>6, NoneApart, DomainsIn
  <1>11. \A j \in DOMAIN Domains : j # i => Domains[j].label # l BY PlanAssumption
  <1> HIDE DEF o, l
  <1>12. /\ NoLess(board, board') /\ board'.home = board.home /\ board'.drifted = board.drifted
         /\ board'.tag[o] = l /\ SameTags(board, board')
         /\ \A m \in Names : m # l => Same(board, board', m)
         /\ SwRows(board', l) = SwRows(board, l) \cup {o}
    BY <1>2, <1>4, <1>6, <1>8, <1>9, StampMore
  <1>13. Part(board', hand', d, 3)
    <2>1. \A t \in SwRows(board', l) : o <= t
      <3>1. o \in Nat BY <1>4, IdsIn
      <3>2. o <= o BY <3>1
      <3> QED BY <1>8, <1>12, <3>2
    <2>2. \A j \in 0..n : ~(j + 3 < 3) BY <1>6
    <2>3. 3 # n + 5 BY <1>6
    <2> HIDE DEF n, d
    <2>4. l = d.label BY DEF l, d
    <2> QED BY <1>1, <1>7, <1>8, <1>12, <2>1, <2>2, <2>3, <2>4 DEF Part, n
  <1>14. ASSUME NEW j \in DOMAIN Domains, j # i
         PROVE  /\ Same(board, board', Domains[j].label)
                /\ \A s \in SwRows(board, Domains[j].label) : s \in made' => s \in made
    <2>1. Same(board, board', Domains[j].label) BY <1>10, <1>11, <1>12, <1>14
    <2>2. o \notin SwRows(board, Domains[j].label) BY <1>8, <1>10 DEF SwRows
    <2> QED BY <1>1, <2>1, <2>2
  <1>15. 2 \in 0..(n + 5) /\ 2 < n + 5 /\ 2 # n + 5 /\ 2 + 1 = 3 BY <1>6
  <1> QED BY <1>1, <1>6, <1>12, <1>13, <1>14, <1>15, RaisingOn

LEMMA PortW ==
  ASSUME Inv, WiredInv, UNCHANGED given, board' \in Boards, ConnectPort
  PROVE  WiredInv' /\ board'.plugged = board.plugged
  <1> DEFINE v == queue[1]
             o == Last(hand)
             e == If(o, v.arg)
             f == v.b
  <1>1. /\ queue # << >> /\ Head(queue).op = "port" /\ CanJoin(board, If(o, Head(queue).arg), Head(queue).b)
        /\ board' = Joined(board, If(o, Head(queue).arg), Head(queue).b)
        /\ Advance /\ hand' = hand /\ made' = made
    BY DEF ConnectPort, Next1, V, Made
  <1>2. /\ Head(queue) = v /\ Fits(pc, board, before, v) /\ Ready(board, before, hand, ToSet(journal), v)
        /\ board \in Boards
    BY <1>1, Found
  <1>3. v.op = "port" /\ pc = "switches" /\ v.arg \in 0..Widest /\ f \in Macs \cup Standing(board) /\ hand # << >>
    BY <1>1, <1>2 DEF Fits, Ready
  <1>4. o \in Switches BY <1>3, Held1 DEF Early
  <1>5. e \in Ends /\ f \in Ends BY <1>3, <1>4, EndsApart, StandingStands
  <1>6. CanJoin(board, e, f) /\ board' = Joined(board, e, f) BY <1>1, <1>2
  <1>7. PICK i \in DOMAIN Domains : \E k \in 0..(Len(Domains[i].members) + 5) :
          /\ Rises(board, hand, queue, i, k) /\ Part(board, hand, Domains[i], k)
          /\ Len(Domains[i].members) \in Nat
          /\ k \in 3..(Len(Domains[i].members) + 3) /\ queue[1].arg = k - 3
          /\ Right(board, Domains[i], k - 3, queue[1].b)
    BY <1>1, <1>3, Placed DEF Outer
  <1> DEFINE d == Domains[i]
             n == Len(d.members)
  <1>8. PICK k \in 0..(n + 5) :
          /\ Rises(board, hand, queue, i, k) /\ Part(board, hand, d, k) /\ n \in Nat
          /\ k \in 3..(n + 3) /\ v.arg = k - 3 /\ Right(board, d, k - 3, f)
    BY <1>7
  <1>9. hand[1] = o BY <1>8 DEF Part, Last
  <1> HIDE DEF e, f, o
  <1>10. /\ NoLess(board, board') /\ SameTags(board, board') /\ \A m : Same(board, board', m)
         /\ board'.home = board.home /\ board'.tag = board.tag /\ board'.plugged = board.plugged
         /\ board'.drifted = board.drifted
         /\ \A x \in Ends : board.wire[x] # None => board'.wire[x] = board.wire[x]
         /\ board'.wire[e] = f
    BY <1>2, <1>5, <1>6, JoinMore
  <1>11. d.uplink \in Macs /\ None \notin Macs /\ None \notin Dpnis /\ n <= Widest /\ Widest \in Nat
    BY <1>8, DomainsIn, NoneApart, BoardAssumption DEF Rises
  <1>12. ASSUME NEW j \in 0..n, j + 3 < k + 1 PROVE Right(board', d, j, board'.wire[If(o, j)])
    <2>1. CASE j = k - 3
      <3>1. If(o, j) = e BY <1>8, <2>1 DEF e
      <3>2. Right(board, d, j, f) BY <1>8, <2>1
      <3> HIDE DEF d
      <3> QED BY <1>10, <3>1, <3>2 DEF Right
    <2>2. CASE j # k - 3
      <3>1. j + 3 < k BY <1>8, <1>12, <2>2
      <3>2. Right(board, d, j, board.wire[If(o, j)])
        <4> HIDE DEF d
        <4> QED BY <1>8, <1>9, <3>1 DEF Part, n
      <3>3. board.wire[If(o, j)] # None BY <1>11, <3>2 DEF Right
      <3>4. If(o, j) \in Ends
        <4>1. j \in 0..Widest BY <1>8, <1>11
        <4> QED BY <1>4, <4>1, EndsApart
      <3>5. board'.wire[If(o, j)] = board.wire[If(o, j)] BY <1>10, <3>3, <3>4
      <3> HIDE DEF d
      <3> QED BY <1>10, <3>2, <3>5 DEF Right
    <2> QED BY <2>1, <2>2
  <1>13. Part(board', hand', d, k + 1)
    <2>1. ~(k + 1 <= 1) /\ k + 1 # 2 /\ k + 1 # n + 5 /\ k >= 2 /\ k # 2 BY <1>8
    <2> HIDE DEF d
    <2>2. SwRows(board', d.label) = SwRows(board, d.label) BY <1>10 DEF Same
    <2>3. /\ Len(hand) = 1 /\ o \notin board.drifted /\ board.home[o] = Root
          /\ \A t \in SwRows(board, d.label) : o <= t
          /\ board.tag[o] = d.label
      BY <1>8, <1>9, <2>1 DEF Part
    <2> QED BY <1>1, <1>9, <1>10, <1>12, <2>1, <2>2, <2>3 DEF Part, n
  <1>14. k # n + 5 BY <1>8
  <1>15. \A j \in DOMAIN Domains : Same(board, board', Domains[j].label) BY <1>10
  <1>16. WiredInv' BY <1>1, <1>3, <1>8, <1>10, <1>13, <1>14, <1>15, RaisingOn
  <1> QED BY <1>10, <1>16

\* What the plug of a switch finds: every port connected.
LEMMA PortsDone ==
  ASSUME NEW b, NEW hd, NEW d, d.members \in Seq(Member), NEW k,
         k \in {Len(d.members) + 4, Len(d.members) + 5},
         Part(b, hd, d, k), hd[1] \in b.plugged
  PROVE  Complete(b, hd[1], d)
  <1> DEFINE n == Len(d.members)
  <1>1. n \in Nat /\ DOMAIN d.members = 1..n OBVIOUS
  <1>2. k >= 2 /\ \A j \in 0..n : j + 3 < k BY <1>1
  <1>3. \A j \in 0..n : Right(b, d, j, b.wire[If(hd[1], j)]) BY <1>2 DEF Part
  <1>4. 0 \in 0..n /\ \A j \in 1..n : j \in 0..n /\ j # 0 BY <1>1
  <1> QED BY <1>1, <1>3, <1>4 DEF Right, Complete

LEMMA PlugSwitchW ==
  ASSUME Inv, WiredInv, UNCHANGED given, board' \in Boards, PlugRootEnd, pc = "switches"
  PROVE  WiredInv' /\ \A o \in board'.plugged \ board.plugged :
                    o \in Switches /\ \E i \in DOMAIN Domains : Complete(board', o, Domains[i])
  <1> DEFINE v == queue[1]
             o == hand[1]
  <1>1. /\ queue # << >> /\ Head(queue).op \in {"plugA", "plugB"} /\ Advance /\ hand' = hand /\ made' = made
        /\ board' = PluggedIn(board, IF Head(queue).a # None THEN Head(queue).a
                                     ELSE IF Head(queue).op = "plugA" THEN hand[1] ELSE Last(hand))
    BY DEF PlugRootEnd, Next1, V, Made, Silent
  <1>2. /\ Head(queue) = v /\ Fits(pc, board, before, v) /\ Ready(board, before, hand, ToSet(journal), v)
        /\ board \in Boards /\ hand \in Seq(Objs)
    BY <1>1, Found
  <1>3. v.op = "plugA" /\ v.a = None /\ hand # << >> BY <1>1, <1>2 DEF Fits, Ready
  <1>4. o \in Switches /\ o \in Objs /\ board' = PluggedIn(board, o)
    BY <1>1, <1>2, <1>3, Held1 DEF Early
  <1>5. PICK i \in DOMAIN Domains : \E k \in 0..(Len(Domains[i].members) + 5) :
          /\ Rises(board, hand, queue, i, k) /\ Part(board, hand, Domains[i], k)
          /\ Len(Domains[i].members) \in Nat /\ k = Len(Domains[i].members) + 4
    BY <1>1, <1>3, Placed DEF Outer
  <1> DEFINE d == Domains[i]
             n == Len(d.members)
             k == n + 4
  <1>6. Rises(board, hand, queue, i, k) /\ Part(board, hand, d, k) /\ n \in Nat /\ d.members \in Seq(Member)
    BY <1>5, DomainsIn
  <1> HIDE DEF o
  <1>7. /\ NoLess(board, board') /\ SameTags(board, board') /\ (\A m : Same(board, board', m))
        /\ board'.home = board.home /\ board'.tag = board.tag /\ board'.wire = board.wire
        /\ board'.drifted = board.drifted /\ board'.plugged = board.plugged \cup {o}
    BY <1>2, <1>4, PlugMore
  <1>8. Part(board', hand', d, k + 1)
    <2>1. ~(k + 1 <= 1) /\ k + 1 # 2 /\ k >= 2 /\ k # 2 /\ (\A j \in 0..n : j + 3 < k) /\ ~(k <= 1)
      BY <1>6
    <2> HIDE DEF d, k
    <2>2. SwRows(board', d.label) = SwRows(board, d.label) BY <1>7 DEF Same
    <2>3. /\ Len(hand) = 1 /\ o \notin board.drifted /\ board.home[o] = Root
          /\ \A t \in SwRows(board, d.label) : o <= t
          /\ board.tag[o] = d.label
          /\ \A j \in 0..n : Right(board, d, j, board.wire[If(o, j)])
      BY <1>6, <2>1 DEF Part, o, n
    <2>4. \A j \in 0..n : Right(board', d, j, board'.wire[If(o, j)]) BY <1>7, <2>3 DEF Right
    <2> QED BY <1>1, <1>7, <2>1, <2>2, <2>3, <2>4 DEF Part, n, o
  <1>9. k \in 0..(n + 5) /\ k < n + 5 /\ k # n + 5 /\ k + 1 = n + 5 BY <1>6
  <1>10. \A j \in DOMAIN Domains : Same(board, board', Domains[j].label) BY <1>7
  <1>11. WiredInv' BY <1>1, <1>6, <1>7, <1>8, <1>9, <1>10, RaisingOn
  <1>12. Complete(board', o, d)
    <2>1. o \in board'.plugged /\ hand' = hand /\ hand[1] = o BY <1>1, <1>7 DEF o
    <2>2. Part(board', hand, d, n + 5) /\ hand[1] \in board'.plugged BY <1>8, <1>9, <2>1
    <2> HIDE DEF d, k
    <2>3. Complete(board', hand[1], d) BY <1>6, <2>2, PortsDone DEF n
    <2> QED BY <2>1, <2>3
  <1> QED BY <1>4, <1>7, <1>11, <1>12

LEMMA RaisedW ==
  ASSUME Inv, WiredInv, UNCHANGED given, StepDone, pc = "switches"
  PROVE  WiredInv'
  <1>1. /\ queue # << >> /\ Head(queue).op = "next" /\ hand' = << >> /\ Advance /\ made' = made /\ board' = board
    BY DEF StepDone, Next1, V, Silent
  <1>2. Head(queue) = queue[1] /\ board \in Boards BY <1>1, Found
  <1>3. PICK i \in DOMAIN Domains : \E k \in 0..(Len(Domains[i].members) + 5) :
          /\ Rises(board, hand, queue, i, k) /\ Part(board, hand, Domains[i], k)
          /\ Len(Domains[i].members) \in Nat /\ Len(Domains[i].members) <= Widest
          /\ k = Len(Domains[i].members) + 5
    BY <1>1, <1>2, Placed DEF Outer
  <1> DEFINE d == Domains[i]
             n == Len(d.members)
             k == n + 5
             o == hand[1]
  <1>4. Rises(board, hand, queue, i, k) /\ Part(board, hand, d, k) /\ n \in Nat /\ d.members \in Seq(Member)
        /\ n <= Widest
    BY <1>3, DomainsIn
  <1>5. /\ Len(hand) = 1 /\ o \notin board.drifted /\ board.home[o] = Root /\ board.tag[o] = d.label
        /\ (\A t \in SwRows(board, d.label) : o <= t) /\ o \in board.plugged
    <2>1. k >= 2 /\ k # 2 BY <1>4
    <2> HIDE DEF d
    <2> QED BY <1>4, <2>1 DEF Part, n
  <1>6. o \in Switches
    <2>1. hand # << >>
      <3>1. Len(hand) = 1 /\ Len(<< >>) = 0 BY <1>5
      <3> QED BY <3>1
    <2> QED BY <2>1, Held1 DEF Early
  <1>7. Complete(board, o, d)
    <2> HIDE DEF d
    <2> QED BY <1>4, <1>5, PortsDone DEF n
  <1>8. DomainSwitch(board, d) = o /\ o # None
    <2>1. o \in SwRows(board, d.label) BY <1>5, <1>6 DEF SwRows
    <2> HIDE DEF d, o
    <2>2. DomainSwitch(board, d) = o BY <1>2, <1>5, <2>1, SwitchOf
    <2> QED BY <1>6, <2>2, NoneApart
  <1>9. Up(board', made', i) BY <1>1, <1>4, <1>5, <1>7, <1>8 DEF Up
  <1>10. /\ NoLess(board, board') /\ SameTags(board, board') /\ \A m : Same(board, board', m)
    BY <1>1 DEF NoLess, SameTags, Same
  <1>11. k \in 0..(n + 5) /\ ~(k < n + 5) BY <1>4
  <1>12. \A j \in DOMAIN Domains : Same(board, board', Domains[j].label) BY <1>10
  <1>13. board' \in Boards BY <1>1, <1>2
  <1> QED BY <1>1, <1>4, <1>9, <1>10, <1>11, <1>12, <1>13, RaisingOn

-----------------------------------------------------------------------------
(* A raise from its first verb. *)

\* A raise, place by place.
LEMMA RaisePlaces ==
  ASSUME NEW b \in Boards, NEW i \in DOMAIN Domains, ~Unraisable(b, Domains[i])
  PROVE  LET n == Len(Domains[i].members)
             R == RaiseVerbs(b, i)
         IN /\ n \in Nat /\ n <= Widest
            /\ \E k \in {0, 1} : Len(R) = n + 6 - k /\ \A p \in k..(n+5) : Script(b, Domains[i], p, R[p-k+1])
  <1> DEFINE d == Domains[i]
             n == Len(d.members)
             m == Verb("mintSwitch", Root, d.label, None, None)
             t == Verb("stamp", Root, d.label, None, None)
             p0 == Verb("port", Root, 0, None, d.uplink)
             ps == [j \in 1..n |-> Verb("port", Root, j, None, MemberRow(b, d.members[j]))]
             x == Verb("plugA", Root, d.label, None, None)
             y == Verb("next", None, None, None, None)
             v == Verb("sever", Root, None, Lowest(Facing(b, d.uplink)), None)
             U == {m, t, p0, x, y, v} \cup {ps[j] : j \in 1..n}
             A == <<m, t>> \o <<p0>>
             X == <<x, y>>
             B == A \o ps
             C == B \o X
  <1>1. n \in Nat /\ DOMAIN d.members = 1..n /\ \A j \in 1..n : d.members[j] \in Member
    <2>1. d.members \in Seq(Member) BY DomainsIn
    <2> QED BY <2>1
  <1>2. n <= Widest
    <2>1. ~(n > Widest) BY DEF Unraisable
    <2> HIDE DEF n
    <2> QED BY <1>1, <2>1, BoardAssumption
  <1>3. ASSUME NEW j \in 1..n PROVE Right(b, d, j, MemberRow(b, d.members[j]))
    <2>1. MemberRow(b, d.members[j]) # None BY <1>1 DEF Unraisable
    <2>2. d.members[j].home \in Homes /\ d.members[j].label \in Names BY <1>1 DEF Member
    <2> DEFINE h == d.members[j].home
               l == d.members[j].label
    <2>3. Row(b, h, l) \in RowsNamed(b, h, l)
      <3>1. h \in Homes /\ l \in Names /\ Row(b, h, l) # None BY <2>1, <2>2 DEF MemberRow
      <3> HIDE DEF h, l
      <3> QED BY <3>1, RowIn
    <2>4. j # 0 OBVIOUS
    <2> HIDE DEF d
    <2> QED BY <2>3, <2>4 DEF Right, MemberRow, RowsNamed
  <1>4. /\ m.op = "mintSwitch" /\ t.op = "stamp" /\ t.arg = d.label /\ v.op = "sever"
        /\ p0.op = "port" /\ p0.arg = 0 /\ p0.b = d.uplink /\ x.op = "plugA" /\ y.op = "next"
    BY DEF Verb
  <1>5. \A j \in 1..n : ps[j].op = "port" /\ ps[j].arg = j /\ ps[j].b = MemberRow(b, d.members[j])
    BY DEF Verb
  <1>6. RaiseNoSever(b, i) = C BY DEF RaiseNoSever, MintIn
  <1>7. RaiseVerbs(b, i) =
          (IF Facing(b, d.uplink) = {} \/ d.members = << >> THEN << >> ELSE <<v>>) \o C
    BY <1>6 DEF RaiseVerbs
  <1>8. ps \in Seq(U) /\ Len(ps) = n
    <2>1. ps = [j \in 1..n |-> ps[j]] /\ \A j \in 1..n : ps[j] \in U OBVIOUS
    <2> HIDE DEF ps, U, n
    <2>2. ps \in [1..n -> U] BY <2>1
    <2> QED BY <1>1, <2>2
  <1>9. m \in U /\ t \in U /\ p0 \in U /\ x \in U /\ y \in U /\ v \in U OBVIOUS
  <1> HIDE DEF n, m, t, p0, ps, x, y, v, d, U
  <1>10. A \in Seq(U) /\ Len(A) = 3 /\ A[1] = m /\ A[2] = t /\ A[3] = p0
    <2>1. A = <<m, t, p0>> BY Triple
    <2> HIDE DEF A
    <2>2. <<m, t, p0>> \in Seq(U) /\ Len(<<m, t, p0>>) = 3 BY <1>9
    <2> QED BY <2>1, <2>2
  <1>11. X \in Seq(U) /\ Len(X) = 2 /\ X[1] = x /\ X[2] = y BY <1>9
  <1> HIDE DEF A, X
  <1>12. B \in Seq(U) /\ Len(B) = n + 3 /\ \A p \in 1..(n+3) : B[p] = IF p <= 3 THEN A[p] ELSE ps[p-3]
    <2>1. B \in Seq(U) /\ Len(B) = Len(A) + Len(ps) BY <1>8, <1>10, ConcatIs
    <2>2. \A p \in 1..(Len(A) + Len(ps)) : B[p] = IF p <= Len(A) THEN A[p] ELSE ps[p-Len(A)]
      BY <1>8, <1>10, ConcatIs
    <2>3. Len(A) + Len(ps) = n + 3 BY <1>1, <1>8, <1>10
    <2> HIDE DEF B
    <2> QED BY <1>8, <1>10, <2>1, <2>2, <2>3
  <1> HIDE DEF B
  <1>13. C \in Seq(U) /\ Len(C) = n + 5 /\ \A p \in 1..(n+5) : C[p] = IF p <= n + 3 THEN B[p] ELSE X[p-(n+3)]
    <2>1. C \in Seq(U) /\ Len(C) = Len(B) + Len(X) BY <1>11, <1>12, ConcatIs
    <2>2. \A p \in 1..(Len(B) + Len(X)) : C[p] = IF p <= Len(B) THEN B[p] ELSE X[p-Len(B)]
      BY <1>11, <1>12, ConcatIs
    <2>3. Len(B) + Len(X) = n + 5 BY <1>1, <1>11, <1>12
    <2> HIDE DEF C
    <2> QED BY <1>11, <1>12, <2>1, <2>2, <2>3
  <1> HIDE DEF C
  <1>14. ASSUME NEW p \in 1..(n+5) PROVE Script(b, d, p, C[p])
    <2>1. CASE p = 1
      <3>1. C[p] = m /\ p # 0 /\ p # 2 /\ p \notin 3..(n+3) /\ p # n + 4 /\ p # n + 5
        <4>1. p <= n + 3 /\ p <= 3 /\ p \in 1..(n+3) BY <1>1, <2>1
        <4>2. C[p] = m BY <1>10, <1>12, <1>13, <2>1, <4>1
        <4>3. n \in Nat BY <1>1
        <4> QED BY <2>1, <4>2, <4>3
      <3> QED BY <1>4, <2>1, <3>1 DEF Script, n
    <2>2. CASE p = 2
      <3>1. C[p] = t /\ p # 0 /\ p # 1 /\ p \notin 3..(n+3) /\ p # n + 4 /\ p # n + 5
        <4>1. p <= n + 3 /\ p <= 3 /\ p \in 1..(n+3) BY <1>1, <2>2
        <4>2. C[p] = t BY <1>10, <1>12, <1>13, <2>2, <4>1
        <4>3. n \in Nat BY <1>1
        <4> QED BY <2>2, <4>2, <4>3
      <3> QED BY <1>4, <2>2, <3>1 DEF Script, n
    <2>3. CASE p \in 3..(n+3)
      <3>1. p # 0 /\ p # 1 /\ p # 2 /\ p # n + 4 /\ p # n + 5 /\ p <= n + 3 /\ p \in 1..(n+3)
        BY <1>1, <2>3
      <3>2. C[p].op = "port" /\ C[p].arg = p - 3 /\ Right(b, d, p - 3, C[p].b)
        <4>1. CASE p = 3
          <5>1. C[p] = p0 /\ p - 3 = 0 BY <1>10, <1>12, <1>13, <3>1, <4>1
          <5> QED BY <1>4, <5>1 DEF Right
        <4>2. CASE p # 3
          <5> DEFINE j == p - 3
          <5>1. C[p] = ps[j] /\ j \in 1..n BY <1>1, <1>12, <1>13, <2>3, <3>1, <4>2
          <5> HIDE DEF j
          <5>2. C[p].op = "port" /\ C[p].arg = j /\ Right(b, d, j, C[p].b) BY <1>3, <1>5, <5>1
          <5> QED BY <5>2 DEF j
        <4> QED BY <4>1, <4>2
      <3> QED BY <3>1, <3>2 DEF Script, n
    <2>4. CASE p = n + 4
      <3>1. C[p] = x /\ p # 0 /\ p # 1 /\ p # 2 /\ p \notin 3..(n+3) /\ p # n + 5
        <4>1. ~(p <= n + 3) /\ p - (n + 3) = 1 BY <1>1, <2>4
        <4> QED BY <1>1, <1>11, <1>13, <2>4, <4>1
      <3> QED BY <1>4, <2>4, <3>1 DEF Script, n
    <2>5. CASE p = n + 5
      <3>1. C[p] = y /\ p # 0 /\ p # 1 /\ p # 2 /\ p \notin 3..(n+3) /\ p # n + 4
        <4>1. ~(p <= n + 3) /\ p - (n + 3) = 2 BY <1>1, <2>5
        <4> QED BY <1>1, <1>11, <1>13, <2>5, <4>1
      <3> QED BY <1>4, <2>5, <3>1 DEF Script, n
    <2>6. p = 1 \/ p = 2 \/ p \in 3..(n+3) \/ p = n + 4 \/ p = n + 5 BY <1>1
    <2> QED BY <2>1, <2>2, <2>3, <2>4, <2>5, <2>6
  <1>15. CASE Facing(b, d.uplink) = {} \/ d.members = << >>
    <2>1. RaiseVerbs(b, i) = C BY <1>7, <1>13, <1>15, Appended
    <2>2. \A p \in 1..(n+5) : p - 1 + 1 = p BY <1>1
    <2>3. Len(C) = n + 6 - 1 /\ \A p \in 1..(n+5) : Script(b, d, p, C[p-1+1])
      BY <1>1, <1>13, <1>14, <2>2
    <2> QED BY <1>1, <1>2, <2>1, <2>3 DEF d, n
  <1>16. CASE ~(Facing(b, d.uplink) = {} \/ d.members = << >>)
    <2> DEFINE W == <<v>>
               R == W \o C
    <2>1. RaiseVerbs(b, i) = R BY <1>7, <1>16
    <2>2. W \in Seq(U) /\ Len(W) = 1 /\ W[1] = v BY <1>9
    <2> HIDE DEF W
    <2>3. Len(R) = Len(W) + Len(C) /\ \A p \in 1..(Len(W) + Len(C)) : R[p] = IF p <= Len(W) THEN W[p] ELSE C[p-Len(W)]
      BY <1>13, <2>2, ConcatIs
    <2>4. Len(W) + Len(C) = n + 6 BY <1>1, <1>13, <2>2
    <2> HIDE DEF R
    <2>5. ASSUME NEW p \in 0..(n+5) PROVE Script(b, d, p, R[p-0+1])
      <3>1. CASE p = 0
        <4>1. p - 0 + 1 = 1 /\ 1 \in 1..(n+6) /\ p # 1 /\ p # 2 /\ p \notin 3..(n+3) /\ p # n + 4 /\ p # n + 5
          BY <1>1, <3>1
        <4>2. R[p-0+1] = v BY <2>2, <2>3, <2>4, <4>1
        <4> QED BY <1>4, <4>1, <4>2 DEF Script, n
      <3>2. CASE p # 0
        <4>1. p \in 1..(n+5) /\ p - 0 + 1 \in 1..(n+6) /\ ~(p - 0 + 1 <= 1) /\ (p - 0 + 1) - 1 = p
          BY <1>1, <3>2
        <4>2. R[p-0+1] = C[p] BY <2>2, <2>3, <2>4, <4>1
        <4> QED BY <1>14, <4>1, <4>2
      <3> QED BY <3>1, <3>2
    <2>6. Len(R) = n + 6 - 0 BY <1>1, <2>3, <2>4
    <2>7. \E k \in {0, 1} : Len(R) = n + 6 - k /\ \A p \in k..(n+5) : Script(b, d, p, R[p-k+1])
      BY <2>5, <2>6
    <2> QED BY <1>1, <1>2, <2>1, <2>7 DEF d, n
  <1> QED BY <1>15, <1>16

\* What follows the head.
LEMMA Behind ==
  ASSUME Inv, queue # << >>, queue[1].op # "done"
  PROVE  LET t == Tail(queue)
         IN /\ t # << >> /\ t \in Seq(Fit(pc, board, before)) /\ t \in Seq(Verbs)
            /\ Follows(pc, queue[1], t[1]) /\ Len(queue) \in Nat /\ Len(t) = Len(queue) - 1 /\ Len(t) \in Nat
            /\ t[1] = queue[2] /\ Len(queue) > 1
            /\ \A p \in 1..Len(t) : p + 1 \in 1..Len(queue) /\ t[p] = queue[p+1]
  <1> DEFINE T == Fit(pc, board, before)
             t == Tail(queue)
  <1>1. queue \in Seq(T) /\ Linked(pc, queue) /\ queue[Len(queue)].op = "done" BY DEF Inv, QueueInv
  <1>2. Standing(board) \subseteq Standing(board) OBVIOUS
  <1>3. /\ t # << >> /\ t \in Seq(T) /\ Follows(pc, queue[1], t[1])
        /\ \A p \in 1..Len(t) : p + 1 \in 1..Len(queue) /\ t[p] = queue[p+1]
    BY <1>1, <1>2, TailOf
  <1>4. T \subseteq Verbs BY DEF Fit
  <1>5. Len(queue) \in Nat /\ Len(t) = Len(queue) - 1 BY <1>1
  <1> HIDE DEF t, T
  <1>6. Len(t) \in Nat /\ Len(t) # 0 /\ t \in Seq(Verbs) BY <1>3, <1>4
  <1>7. 1 \in 1..Len(t) /\ Len(queue) > 1 /\ t[1] = queue[1+1] BY <1>3, <1>5, <1>6
  <1> QED BY <1>3, <1>5, <1>6, <1>7 DEF t, T

LEMMA RaiseW ==
  ASSUME Inv, WiredInv, UNCHANGED given, Raise
  PROVE  WiredInv'
  <1> DEFINE v == queue[1]
             i == v.arg
             R == RaiseVerbs(board, i)
             t == Tail(queue)
             q == R \o t
             T == Fit("switches", board, before)
  <1>1. /\ queue # << >> /\ Head(queue).op = "raise" /\ ~Unraisable(board, Domains[Head(queue).arg])
        /\ queue' = RaiseVerbs(board, Head(queue).arg) \o t
        /\ UNCHANGED <<board, pc, hand, outcome, made>>
    BY DEF Raise, Next1, V, history
  <1>2. /\ Head(queue) = v /\ Fits(pc, board, before, v) /\ Ready(board, before, hand, ToSet(journal), v)
        /\ board \in Boards /\ before \in Boards
    BY <1>1, Found
  <1>3. /\ v.op = "raise" /\ pc = "switches" /\ i \in DOMAIN Domains /\ ~Unraisable(board, Domains[i])
        /\ Due(before, Domains[i])
    BY <1>1, <1>2 DEF Fits
  <1>4. queue' = q BY <1>1, <1>2
  <1> HIDE DEF i
  <1> DEFINE d == Domains[i]
             n == Len(d.members)
  <1>5. n \in Nat /\ n <= Widest BY <1>2, <1>3, RaisePlaces
  <1>6. PICK k \in {0, 1} : Len(R) = n + 6 - k /\ \A p \in k..(n+5) : Script(board, d, p, R[p-k+1])
    BY <1>2, <1>3, RaisePlaces
  <1>7. R \in Seq(Verbs)
    <2>1. R \in Seq(T) BY <1>2, <1>3, RaiseSteps
    <2>2. T \subseteq Verbs BY DEF Fit
    <2> HIDE DEF R, T
    <2> QED BY <2>1, <2>2
  <1>8. /\ t # << >> /\ t \in Seq(Verbs) /\ Len(queue) \in Nat /\ Len(t) = Len(queue) - 1 /\ Len(t) \in Nat
        /\ t[1] = queue[2] /\ Len(queue) > 1
        /\ \A p \in 1..Len(t) : p + 1 \in 1..Len(queue) /\ t[p] = queue[p+1]
    BY <1>1, <1>3, Behind
  <1>9. SwitchQueue(board, hand, made, queue) /\ AllWired(board) /\ outcome # "converged"
    BY <1>1, <1>3 DEF WiredInv, SwitchesPart
  <1> HIDE DEF R, t, d, n, v
  <1>10. ASSUME NEW x \in 1..Len(R)
         PROVE  R[x].op \in {"sever", "mintSwitch", "stamp", "port", "plugA", "next"}
    <2> DEFINE p == x + k - 1
    <2>1. p \in k..(n+5) /\ p - k + 1 = x BY <1>5, <1>6
    <2>2. p = 0 \/ p = 1 \/ p = 2 \/ p \in 3..(n+3) \/ p = n + 4 \/ p = n + 5 BY <1>5, <1>6, <2>1
    <2> HIDE DEF p
    <2>3. Script(board, d, p, R[x]) BY <1>6, <2>1
    <2> QED BY <2>2, <2>3 DEF Script, n
  <1>11. /\ Len(q) = Len(R) + Len(t) /\ Len(R) \in Nat /\ q \in Seq(Verbs)
         /\ \A p \in 1..(Len(R) + Len(t)) : q[p] = IF p <= Len(R) THEN R[p] ELSE t[p-Len(R)]
    BY <1>7, <1>8, ConcatIs
  <1> HIDE DEF q
  <1>12. ASSUME NEW p \in 1..Len(q), q[p].op \in {"raise", "destroy"}
         PROVE  p - Len(R) \in 1..Len(t) /\ q[p] = t[p-Len(R)] /\ p - Len(R) + 1 \in 1..Len(queue)
                /\ q[p] = queue[p-Len(R)+1]
    <2>1. ~(p <= Len(R)) BY <1>10, <1>11, <1>12
    <2>2. p - Len(R) \in 1..Len(t) /\ q[p] = t[p-Len(R)] BY <1>8, <1>11, <2>1
    <2> QED BY <1>8, <2>2
  <1>13. Len(R) >= 5 /\ R # << >> /\ q[1] = R[1] /\ q[1].op \notin Outer
    <2>1. Len(R) >= 5 BY <1>5, <1>6
    <2>2. R # << >> BY <1>7, <2>1
    <2>3. 1 \in 1..(Len(R) + Len(t)) /\ 1 <= Len(R) /\ 1 \in 1..Len(R) BY <1>8, <1>11, <2>1
    <2> QED BY <1>10, <1>11, <2>1, <2>2, <2>3 DEF Outer
  <1>14. Cleared(board, q)
    <2>1. Cleared(board, R)
      <3>1. \A x \in 1..(Len(R) - 1) : x \in 1..Len(R) /\ x + 1 \in 1..Len(R) BY <1>11
      <3> QED BY <1>10, <3>1 DEF Cleared
    <2>2. R \in Clearings(board)
      <3>1. 1 \in 1..Len(R) /\ Len(R) \in 1..Len(R) BY <1>11, <1>13
      <3> QED BY <1>7, <1>10, <2>1, <3>1 DEF Clearings, Unraised
    <2>3. Cleared(board, t)
      <3> SUFFICES ASSUME NEW p \in 1..(Len(t) - 1)
                   PROVE  /\ t[p].op = "destroy" =>
                               t[p+1].op = "raise" /\ t[p].a = DomainSwitch(board, Domains[t[p+1].arg])
                          /\ t[p+1].op = "raise" /\ t[p].op # "destroy" => SwRows(board, Domains[t[p+1].arg].label) = {}
        BY DEF Cleared
      <3> DEFINE x == p + 1
      <3>1. x \in 1..(Len(queue) - 1) /\ t[p] = queue[x] /\ t[x] = queue[x+1] BY <1>8
      <3> HIDE DEF x
      <3>2. /\ queue[x].op = "destroy" =>
                 queue[x+1].op = "raise" /\ queue[x].a = DomainSwitch(board, Domains[queue[x+1].arg])
            /\ queue[x+1].op = "raise" /\ queue[x].op # "destroy" => SwRows(board, Domains[queue[x+1].arg].label) = {}
        BY <1>9, <3>1 DEF SwitchQueue, Cleared
      <3>3. /\ t[p].op = "destroy" =>
                 t[x].op = "raise" /\ t[p].a = DomainSwitch(board, Domains[t[x].arg])
            /\ t[x].op = "raise" /\ t[p].op # "destroy" => SwRows(board, Domains[t[x].arg].label) = {}
        BY <3>1, <3>2
      <3> QED BY <3>3 DEF x
    <2>4. Unraised(board, t[1])
      <3>1. 1 \in 1..(Len(queue) - 1) /\ 1 + 1 = 2 BY <1>8
      <3>2. queue[2].op = "raise" /\ queue[1].op # "destroy" => SwRows(board, Domains[queue[2].arg].label) = {}
        BY <1>9, <3>1 DEF SwitchQueue, Cleared
      <3> QED BY <1>3, <1>8, <3>2 DEF Unraised, v
    <2> QED BY <1>8, <2>2, <2>3, <2>4, ClearedConcat DEF q
  <1>15. Once(q)
    <2> SUFFICES ASSUME NEW x \in 1..Len(q), NEW y \in 1..Len(q), q[x].op = "raise", q[y].op = "raise",
                        q[x].arg = q[y].arg
                 PROVE  x = y
      BY DEF Once
    <2>1. /\ x - Len(R) + 1 \in 1..Len(queue) /\ q[x] = queue[x-Len(R)+1]
          /\ y - Len(R) + 1 \in 1..Len(queue) /\ q[y] = queue[y-Len(R)+1]
      BY <1>12
    <2> DEFINE g == x - Len(R) + 1
               h == y - Len(R) + 1
    <2> HIDE DEF g, h
    <2>2. g = h BY <1>9, <2>1 DEF SwitchQueue, Once, g, h
    <2> QED BY <1>11, <2>2 DEF g, h
  <1>16. ~Raised(q, i)
    <2> SUFFICES ASSUME NEW x \in 1..Len(q), q[x].op = "raise", q[x].arg = i PROVE FALSE
      BY DEF Raised
    <2> DEFINE g == x - Len(R) + 1
    <2>1. g \in 1..Len(queue) /\ q[x] = queue[g] /\ g # 1 /\ 1 \in 1..Len(queue)
      BY <1>8, <1>11, <1>12
    <2> HIDE DEF g
    <2>2. queue[1].op = "raise" /\ queue[1].arg = i BY <1>3 DEF v, i
    <2> QED BY <1>9, <2>1, <2>2 DEF SwitchQueue, Once
  <1>17. Rises(board, hand, q, i, k)
    <2>1. Len(q) > n + 5 - k
      <3>1. Len(t) # 0 BY <1>8
      <3> QED BY <1>5, <1>6, <1>8, <1>11, <3>1
    <2>2. ASSUME NEW p \in k..(n+5) PROVE Script(board, d, p, q[p-k+1])
      <3>1. p - k + 1 \in 1..(Len(R) + Len(t)) /\ p - k + 1 <= Len(R) BY <1>5, <1>6, <1>8, <1>11
      <3>2. q[p-k+1] = R[p-k+1] BY <1>11, <3>1
      <3> QED BY <1>6, <3>2
    <2>3. Part(board, hand, d, k)
      <3>1. Room(board, d.label) BY <1>3, <1>9 DEF SwitchQueue, v, i, d
      <3>2. k <= 1 /\ ~(k >= 2) BY <1>6
      <3> QED BY <3>1, <3>2 DEF Part
    <2> QED BY <1>5, <1>16, <2>1, <2>2, <2>3 DEF Rises, n, d
  <1>18. Rising(board, hand, q, i)
    <2>1. k \in 0..(n + 5) BY <1>5, <1>6
    <2> QED BY <1>17, <2>1 DEF Rising, n, d
  <1>19. ASSUME NEW j \in DOMAIN Domains, j # i PROVE Up(board, made, j) \/ Raised(q, j)
    <2>1. ~Rising(board, hand, queue, j)
      <3>1. queue[1].op \in Outer BY <1>3 DEF v, Outer
      <3> QED BY <3>1, OneRising DEF Rising
    <2>2. Raised(queue, j) => Raised(q, j)
      <3> SUFFICES ASSUME NEW p \in 1..Len(queue), queue[p].op = "raise", queue[p].arg = j PROVE Raised(q, j)
        BY DEF Raised
      <3>1. p # 1 BY <1>19 DEF i, v
      <3> DEFINE g == p - 1
                 x == Len(R) + g
      <3>2. g \in 1..Len(t) /\ g + 1 = p BY <1>8, <3>1
      <3>3. x \in 1..(Len(R) + Len(t)) /\ ~(x <= Len(R)) /\ x - Len(R) = g BY <1>8, <1>11, <3>2
      <3> HIDE DEF g, x
      <3>4. q[x] = queue[p] /\ x \in 1..Len(q) BY <1>8, <1>11, <3>2, <3>3
      <3> QED BY <3>4 DEF Raised
    <2> QED BY <1>9, <2>1, <2>2 DEF SwitchQueue
  <1>20. SwitchQueue(board, hand, made, q)
    <2>1. q[1].op # "raise" BY <1>13 DEF Outer
    <2>2. \A j \in DOMAIN Domains : Up(board, made, j) \/ Raised(q, j) \/ Rising(board, hand, q, j)
      BY <1>18, <1>19
    <2> QED BY <1>3, <1>14, <1>15, <1>18, <2>1, <2>2 DEF SwitchQueue
  <1>21. q # << >> /\ links' = links
    <2>1. Len(q) # 0 BY <1>8, <1>11, <1>13
    <2> QED BY <1>11, <2>1 DEF given
  <1>22. SwitchesPart' BY <1>1, <1>4, <1>9, <1>20, <1>21 DEF SwitchesPart, AllWired
  <1> QED BY <1>1, <1>3, <1>9, <1>22 DEF WiredInv

-----------------------------------------------------------------------------
(* Switches made again and pruned. *)

\* A switch that drifted goes, its raise behind it; it was the first of its label.
LEMMA RemakeW ==
  ASSUME Inv, WiredInv, UNCHANGED given, board' \in Boards, Destroy, pc = "switches"
  PROVE  WiredInv'
  <1> DEFINE v == queue[1]
             s == v.a
             i == queue[2].arg
             d == Domains[i]
  <1>1. /\ queue # << >> /\ Head(queue).op = "destroy" /\ board' = Gone(board, Head(queue).a)
        /\ Advance /\ made' = made /\ hand' = hand
    BY DEF Destroy, Next1, V, Silent
  <1>2. /\ Head(queue) = v /\ Fits(pc, board, before, v)
        /\ board \in Boards /\ Consistent(board)
    BY <1>1, Found
  <1>3. v.op = "destroy" /\ s \in Switches BY <1>1, <1>2 DEF Fits
  <1>4. /\ pc' = pc /\ outcome' = outcome /\ Len(queue) \in Nat /\ Len(queue') = Len(queue) - 1 /\ queue' # << >>
        /\ \A p \in 1..Len(queue') : p + 1 \in 1..Len(queue) /\ queue'[p] = queue[p+1]
        /\ queue'[1] = queue[2] /\ Len(queue) > 1
    BY <1>1, <1>3, Took
  <1>5. SwitchQueue(board, hand, made, queue) /\ AllWired(board) /\ outcome # "converged"
    BY <1>1 DEF WiredInv, SwitchesPart
  <1>6. queue[2].op = "raise" /\ s = DomainSwitch(board, d)
    <2>1. 1 \in 1..(Len(queue) - 1) /\ 1 + 1 = 2 BY <1>4
    <2> QED BY <1>3, <1>5, <2>1 DEF SwitchQueue, Cleared
  <1>7. \A p \in 1..Len(queue) : queue[p].op = "raise" => queue[p].arg \in DOMAIN Domains
    <2>1. queue \in Seq(Fit("switches", board, before)) BY <1>1 DEF Inv, QueueInv
    <2>2. \A p \in 1..Len(queue) : queue[p] \in Fit("switches", board, before) BY <2>1
    <2> QED BY <2>2 DEF Fit, Fits
  <1>8. i \in DOMAIN Domains /\ 2 \in 1..Len(queue) /\ 1 \in 1..Len(queue) /\ 1 \in 1..Len(queue')
    <2>1. 2 \in 1..Len(queue) /\ 1 \in 1..Len(queue) /\ 1 \in 1..Len(queue') BY <1>4
    <2> QED BY <1>6, <1>7, <2>1
  <1> HIDE DEF v, d, i
  <1>9. s \in SwRows(board, d.label) /\ \A t \in SwRows(board, d.label) : s <= t
    <2>1. s # None BY <1>3, NoneApart
    <2> HIDE DEF s
    <2> QED BY <1>2, <1>6, <2>1, SwitchOf
  <1>10. board' = Gone(board, s) BY <1>1, <1>2
  <1> HIDE DEF s
  <1>11. /\ NoLess(board, board') /\ SameTags(board, board')
         /\ \A n : s \notin SwRows(board, n) => Same(board, board', n)
         /\ \A n : SwRows(board', n) = SwRows(board, n) \ {s}
         /\ s \in FreeIds(board', Switches)
    BY <1>2, <1>3, <1>10, GoneMore
  <1>12. \A j \in DOMAIN Domains : j # i => Same(board, board', Domains[j].label)
    <2> SUFFICES ASSUME NEW j \in DOMAIN Domains, j # i PROVE s \notin SwRows(board, Domains[j].label)
      BY <1>11
    <2>1. Domains[j].label # Domains[i].label BY <1>8, PlanAssumption
    <2> QED BY <1>9, <2>1 DEF SwRows, d
  <1>13. AllWired(board)' BY <1>5, <1>11, AllWiredOn DEF given, Inv, Shapes
  <1>14. Cleared(board', queue') /\ Once(queue')
    <2>1. ASSUME NEW p \in 3..Len(queue), queue[p].op = "raise"
          PROVE  SwRows(board', Domains[queue[p].arg].label) = SwRows(board, Domains[queue[p].arg].label)
      <3>1. p \in 1..Len(queue) /\ p # 2 BY <1>4
      <3>2. queue[p].arg \in DOMAIN Domains /\ queue[p].arg # i
        BY <1>5, <1>6, <1>7, <1>8, <2>1, <3>1 DEF SwitchQueue, Once, i
      <3> QED BY <1>12, <3>2 DEF Same
    <2> QED BY <1>4, <1>5, <2>1, ClearedOn DEF SwitchQueue
  <1>15. Room(board', d.label)
    <2> SUFFICES ASSUME NEW t \in SwRows(board', d.label) PROVE s < t BY <1>11 DEF Room
    <2>1. t \in SwRows(board, d.label) /\ t # s BY <1>11
    <2>2. s \in Nat /\ t \in Nat /\ s <= t BY <1>3, <1>9, <2>1, IdsIn DEF SwRows
    <2> QED BY <2>1, <2>2
  <1>16. ASSUME NEW j \in DOMAIN Domains PROVE Up(board', made', j) \/ Raised(queue', j)
    <2>1. CASE j = i
      <3>1. queue'[1].op = "raise" /\ queue'[1].arg = i BY <1>4, <1>6 DEF i
      <3> QED BY <1>8, <2>1, <3>1 DEF Raised
    <2>2. CASE j # i
      <3>1. ~Rising(board, hand, queue, j)
        <4>1. queue[1].op \in Outer BY <1>3 DEF v, Outer
        <4> QED BY <4>1, OneRising DEF Rising
      <3>2. Up(board, made, j) => Up(board', made', j)
        <4>1. Same(board, board', Domains[j].label) BY <1>12, <2>2
        <4> QED BY <1>1, <1>2, <1>11, <4>1, UpKept
      <3>3. Raised(queue, j) => Raised(queue', j)
        <4> SUFFICES ASSUME NEW p \in 1..Len(queue), queue[p].op = "raise", queue[p].arg = j PROVE Raised(queue', j)
          BY DEF Raised
        <4>1. p # 1 BY <1>3 DEF v
        <4> DEFINE r == p - 1
        <4>2. r \in 1..Len(queue') /\ r + 1 = p BY <1>4, <4>1
        <4> HIDE DEF r
        <4>3. queue'[r] = queue[p] BY <1>4, <4>2
        <4> QED BY <4>2, <4>3 DEF Raised
      <3> QED BY <1>5, <3>1, <3>2, <3>3 DEF SwitchQueue
    <2> QED BY <2>1, <2>2
  <1>17. SwitchQueue(board', hand', made', queue')
    <2>1. queue'[1].op = "raise" /\ Domains[queue'[1].arg].label = d.label BY <1>4, <1>6 DEF i, d
    <2> QED BY <1>14, <1>15, <1>16, <2>1 DEF SwitchQueue, Outer
  <1> QED BY <1>4, <1>5, <1>13, <1>17 DEF WiredInv, SwitchesPart

LEMMA PrunedW ==
  ASSUME Inv, WiredInv, UNCHANGED given, board' \in Boards, Destroy, pc = "prune"
  PROVE  WiredInv'
  <1> DEFINE v == queue[1]
             s == v.a
  <1>1. /\ queue # << >> /\ Head(queue).op = "destroy" /\ board' = Gone(board, Head(queue).a)
        /\ Advance /\ made' = made /\ hand' = hand
    BY DEF Destroy, Next1, V, Silent
  <1>2. /\ Head(queue) = v /\ Fits(pc, board, before, v)
        /\ board \in Boards /\ Consistent(board)
    BY <1>1, Found
  <1>3. v.op = "destroy" /\ s \in Switches BY <1>1, <1>2 DEF Fits
  <1>4. /\ pc' = pc /\ outcome' = outcome /\ Len(queue) \in Nat /\ Len(queue') = Len(queue) - 1 /\ queue' # << >>
        /\ \A p \in 1..Len(queue') : p + 1 \in 1..Len(queue) /\ queue'[p] = queue[p+1]
    BY <1>1, <1>3, Took
  <1>5. PrunePart /\ outcome # "converged" BY DEF WiredInv
  <1>6. board.tag[s] \notin Labels
    <2>1. 1 \in 1..Len(queue) BY <1>4
    <2> QED BY <1>3, <1>5, <2>1 DEF PrunePart
  <1>7. board' = Gone(board, s) BY <1>1, <1>2
  <1> HIDE DEF s, v
  <1>8. /\ NoLess(board, board') /\ SameTags(board, board')
        /\ \A n : s \notin SwRows(board, n) => Same(board, board', n)
        /\ board'.tag[s] = None /\ \A p \in Objs : p # s => board'.tag[p] = board.tag[p]
    BY <1>2, <1>3, <1>7, GoneMore
  <1>9. AllWired(board)' BY <1>5, <1>8, AllWiredOn DEF PrunePart, given, Inv, Shapes
  <1>10. ASSUME NEW j \in DOMAIN Domains PROVE Up(board', made', j)
    <2>1. Domains[j].label \in Labels BY DomainsIn
    <2>2. Same(board, board', Domains[j].label) BY <1>6, <1>8, <2>1 DEF SwRows
    <2>3. Up(board, made, j) BY <1>5 DEF PrunePart
    <2> QED BY <1>1, <1>2, <1>8, <2>2, <2>3, UpKept
  <1>11. ASSUME NEW p \in 1..Len(queue'), queue'[p].op = "destroy" PROVE board'.tag[queue'[p].a] \notin Labels
    <2> DEFINE x == queue'[p].a
    <2>1. p + 1 \in 1..Len(queue) /\ queue'[p] = queue[p+1] BY <1>4
    <2>2. board.tag[x] \notin Labels BY <1>5, <1>11, <2>1 DEF PrunePart
    <2>3. x \in Objs
      <3> DEFINE T == Fit("prune", board, before)
      <3>1. queue \in Seq(T) BY <1>1 DEF Inv, QueueInv
      <3> HIDE DEF T
      <3>2. queue[p+1] \in T BY <2>1, <3>1
      <3> QED BY <1>11, <2>1, <3>2 DEF T, Fit, Fits, Objs
    <2> HIDE DEF x
    <2>4. board'.tag[x] \notin Labels BY <1>8, <2>2, <2>3, NoneApart
    <2> QED BY <2>4 DEF x
  <1> QED BY <1>4, <1>5, <1>9, <1>10, <1>11 DEF WiredInv, PrunePart

\* A done verb is the last.
LEMMA DoneLast ==
  ASSUME Inv, queue # << >>, queue[1].op = "done"
  PROVE  Len(queue) \in Nat /\ Len(queue) = 1
  <1>1. queue \in Seq(Fit(pc, board, before)) /\ Linked(pc, queue) BY DEF Inv, QueueInv
  <1>2. Len(queue) \in Nat /\ Len(queue) # 0 BY <1>1
  <1>3. ~(Len(queue) > 1)
    <2> SUFFICES ASSUME Len(queue) > 1 PROVE FALSE OBVIOUS
    <2>1. 1 \in 1..(Len(queue) - 1) BY <1>2
    <2> QED BY <1>1, <2>1 DEF Linked, Follows
  <1> QED BY <1>2, <1>3

LEMMA PhaseDoneW ==
  ASSUME Inv, WiredInv, UNCHANGED given, PhaseDone
  PROVE  WiredInv'
  <1>1. queue # << >> /\ Head(queue).op = "done" /\ board' = board /\ links' = links /\ links \in Intents
    BY DEF PhaseDone, given, Inv, Shapes
  <1>2. queue[1].op = "done" /\ pc \in Phases /\ pc # "idle" BY <1>1, Found
  <1>3. Len(queue) = 1 BY <1>1, <1>2, DoneLast
  <1>4. \A p \in 1..Len(queue) : queue[p].op = "done" BY <1>2, <1>3
  <1>5. CASE pc = "prune" BY <1>5 DEF PhaseDone, End, WiredInv
  <1>6. CASE pc # "prune"
    <2>1. queue' = << >> /\ pc' = After(pc) /\ outcome' = outcome /\ made' = made /\ outcome # "converged"
      BY <1>2, <1>6 DEF PhaseDone, history, WiredInv
    <2>2. CASE pc = "population"
      <3>1. PopulationPart /\ pc' = "links" BY <2>1, <2>2 DEF WiredInv, After
      <3>2. ASSUME NEW j \in DOMAIN links PROVE EndsThere(board, links[j])
        <4>1. \A k \in {links[j].a, links[j].b} \ {Root} : RowsNamed(board, k, links[j].label) # {}
          <5>1. \A k, n : \A p \in 1..Len(queue) : queue[p] \notin Stamps(k, n) BY <1>4 DEF Stamps
          <5> QED BY <1>1, <3>1, <5>1 DEF PopulationPart, Provided
        <4> QED BY <4>1 DEF EndsThere
      <3> QED BY <1>1, <2>1, <3>1, <3>2 DEF WiredInv, LinksPart, PopulationPart
    <2>3. CASE pc = "links"
      <3>1. LinksPart /\ pc' = "switches" BY <2>1, <2>3 DEF WiredInv, After
      <3>2. \A l : \A p \in 1..Len(queue) : ~Brings(board, queue[p], l) BY <1>4 DEF Brings
      <3>3. AllWired(board) BY <1>1, <3>1, <3>2 DEF LinksPart, WiredOrOwed, AllWired
      <3> QED BY <1>1, <2>1, <3>1, <3>3 DEF WiredInv, SwitchesPart, LinksPart, AllWired
    <2>4. CASE pc = "switches"
      <3>1. SwitchesPart /\ pc' = "prune" BY <2>1, <2>4 DEF WiredInv, After
      <3>2. ASSUME NEW j \in DOMAIN Domains PROVE Up(board, made, j)
        <4>1. ~Raised(queue, j) BY <1>4 DEF Raised
        <4>2. ~Rising(board, hand, queue, j)
          <5>1. queue[1].op \in Outer BY <1>2 DEF Outer
          <5> QED BY <5>1, OneRising DEF Rising
        <4> QED BY <1>1, <3>1, <4>1, <4>2 DEF SwitchesPart, SwitchQueue
      <3>3. \A p \in 1..Len(queue') : FALSE
        <4>1. Len(queue') = 0 BY <2>1
        <4> QED BY <4>1
      <3> QED BY <1>1, <2>1, <3>1, <3>2, <3>3 DEF WiredInv, PrunePart, SwitchesPart, AllWired
    <2> QED BY <1>2, <1>6, <2>2, <2>3, <2>4 DEF Phases
  <1> QED BY <1>5, <1>6

LEMMA StartW ==
  ASSUME Inv, Start
  PROVE  WiredInv'
  <1>1. /\ pc = "idle" /\ pc' = "population" /\ outcome' = "running" /\ queue' = << >> /\ hand' = << >>
        /\ made' = {}
    BY DEF Start, Inv, IdleInv
  <1>2. PopulationPart' BY <1>1, NothingIn DEF PopulationPart
  <1> QED BY <1>1, <1>2 DEF WiredInv

\* A run that ends, fails or is being rolled back has nothing to show.
LEMMA OverW ==
  ASSUME pc' \in {"idle", "unwind"}, pc' = "unwind" => outcome' # "converged"
  PROVE  WiredInv'
  BY DEF WiredInv

LEMMA InitW == Init => WiredInv
  BY DEF Init, WiredInv

-----------------------------------------------------------------------------
(* Every step. *)

\* What is plugged in the root by a step of a run.
Plugs ==
  \A o \in Objs :
    o \in board'.plugged \ board.plugged /\ board.home[o] = Root /\ pc # "idle" =>
      IF o \in Dpnis THEN board.wire[o] # None
      ELSE \E i \in DOMAIN Domains : Complete(board', o, Domains[i])

\* What each step of a run leaves behind it.
StepWired == WiredInv' /\ Plugs /\ (pc # "idle" /\ outcome' = "converged" => pc = "prune" /\ board' = board)

LEMMA FailW ==
  ASSUME Fail
  PROVE  WiredInv' /\ outcome' # "converged"
  <1>1. pc' \in {"idle", "unwind"} /\ outcome' = "failed" BY DEF Fail, End
  <1> QED BY <1>1, OverW

\* A step that leaves the board, and what happens between runs.
LEMMA StillW ==
  ASSUME board'.plugged \subseteq board.plugged \/ pc = "idle"
  PROVE  Plugs
  BY DEF Plugs

LEMMA UndoneLess ==
  ASSUME Inv, UnwindRow
  PROVE  board'.plugged \subseteq board.plugged
  <1> DEFINE r == Last(journal)
  <1>1. board' = Undone(board, r) /\ journal # << >> BY DEF UnwindRow, LastRow
  <1>2. journal \in Seq(Record1) /\ board \in Boards BY DEF Inv, Shapes, TypeOK
  <1>3. r \in Record1 BY <1>1, <1>2, EndsOfSeq
  <1> HIDE DEF r
  <1>4. r.obj \in Objs BY <1>3 DEF Record1
  <1> DEFINE o == r.obj
  <1>9. o \in Objs BY <1>4
  <1>10. o = r.obj OBVIOUS
  <1> HIDE DEF o
  <1>5. Gone(board, o).plugged = board.plugged \ {o} BY <1>2, <1>9, GoneIs
  <1>6. Cut(board, {o}).plugged = board.plugged BY <1>2, <1>9, CutIs
  <1>7. r.kind \in {"object", "edge", "port"} BY <1>3 DEF Record1
  <1> QED BY <1>1, <1>5, <1>6, <1>7, <1>10 DEF Undone

LEMMA StepDonePruneW ==
  ASSUME Inv, WiredInv, UNCHANGED given, StepDone, pc = "prune"
  PROVE  WiredInv'
  <1>1. /\ queue # << >> /\ Head(queue).op = "next" /\ Advance /\ made' = made /\ board' = board
    BY DEF StepDone, Next1, V, Silent
  <1>2. Head(queue) = queue[1] /\ links' = links BY <1>1, Found DEF given
  <1>3. /\ pc' = pc /\ outcome' = outcome
        /\ \A p \in 1..Len(queue') : p + 1 \in 1..Len(queue) /\ queue'[p] = queue[p+1]
    BY <1>1, <1>2, Took
  <1> QED BY <1>1, <1>2, <1>3 DEF WiredInv, PrunePart, AllWired

LEMMA NextW ==
  ASSUME Inv, Inv', WiredInv, Next
  PROVE  StepWired
  <1> USE DEF StepWired
  <1>1. UNCHANGED given /\ board' \in Boards /\ board \in Boards BY DEF Next, Inv, TypeOK
  <1>2. pc # "idle" => outcome # "converged" BY DEF WiredInv
  <1>3. ASSUME NEW how, End(how), board' = board, how = "converged" => pc = "prune" PROVE StepWired
    <2>1. pc' = "idle" /\ outcome' = how BY <1>3 DEF End
    <2> QED BY <1>3, <2>1, OverW, StillW
  <1>4. ASSUME queue # << >>, Advance, WiredInv', Plugs PROVE StepWired
    BY <1>2, <1>4, Found DEF Advance
  <1>5. CASE RewireRefused BY <1>3, <1>5 DEF RewireRefused
  <1>6. CASE PruneNothing BY <1>3, <1>6 DEF PruneNothing
  <1>7. CASE GateRefused BY <1>3, <1>7 DEF GateRefused
  <1>8. CASE Plan
    <2>1. pc \in Phases /\ outcome' = outcome /\ board' = board
      BY <1>8 DEF Plan, Plannable, Planning
    <2>2. WiredInv'
      BY <1>1, <1>8, <2>1, PopulationPlanW, LinksPlanW, SwitchesPlanW, PrunePlanW DEF Phases
    <2> QED BY <1>2, <2>1, <2>2, StillW
  <1>9. CASE PhaseDone
    <2>1. WiredInv' /\ board' = board BY <1>1, <1>9, PhaseDoneW DEF PhaseDone
    <2>2. pc # "prune" => outcome' = outcome BY <1>9 DEF PhaseDone
    <2> QED BY <1>2, <2>1, <2>2, StillW
  <1>10. CASE Start
    <2>1. WiredInv' /\ pc = "idle" BY <1>10, StartW DEF Start
    <2> QED BY <2>1, StillW
  <1>11. CASE Mint("mint", Dpnis)
    <2>1. WiredInv' BY <1>1, <1>11, MintW
    <2>2. queue # << >> /\ Advance /\ board'.plugged = board.plugged
      <3> DEFINE o == hand'[Len(hand')]
      <3>1. queue # << >> /\ Advance /\ o \in Objs /\ board' = Minted(board, o, queue[1].at) /\ queue[1].at \in Homes
        BY <1>11, MintedNow
      <3> HIDE DEF o
      <3> QED BY <1>1, <3>1, MintedAs
    <2> QED BY <1>4, <2>1, <2>2, StillW
  <1>12. CASE Mint("mintSwitch", Switches)
    <2>1. WiredInv' BY <1>1, <1>12, MintSwitchW
    <2>2. queue # << >> /\ Advance /\ board'.plugged = board.plugged
      <3> DEFINE o == hand'[Len(hand')]
      <3>1. queue # << >> /\ Advance /\ o \in Objs /\ board' = Minted(board, o, queue[1].at) /\ queue[1].at \in Homes
        BY <1>12, MintedNow
      <3> HIDE DEF o
      <3> QED BY <1>1, <3>1, MintedAs
    <2> QED BY <1>4, <2>1, <2>2, StillW
  <1>13. CASE Stamp
    <2>1. queue # << >> /\ Advance /\ board' = Stamped(board, Last(hand), Head(queue).arg) /\ Head(queue).op = "stamp"
      BY <1>13 DEF Stamp, Next1, V, Made
    <2>2. pc \in {"population", "links", "switches"} BY <2>1, Found DEF Fits
    <2>3. WiredInv' BY <1>1, <1>13, <2>2, StampEarlyW, StampSwitchW
    <2>4. board'.plugged = board.plugged BY <1>1, <2>1 DEF Stamped, Boards
    <2> QED BY <1>4, <2>1, <2>3, <2>4, StillW
  <1>14. CASE PlugNew
    <2>1. WiredInv' /\ \A o \in board'.plugged \ board.plugged : board.home[o] # Root
      BY <1>1, <1>14, PlugNewW
    <2>2. Plugs BY <2>1 DEF Plugs
    <2> QED BY <1>4, <1>14, <2>1, <2>2 DEF PlugNew, Next1
  <1>15. CASE Join
    <2>1. WiredInv' /\ board'.plugged = board.plugged BY <1>1, <1>15, JoinW
    <2> QED BY <1>4, <1>15, <2>1, StillW DEF Join, Next1
  <1>16. CASE Wire
    <2>1. WiredInv' /\ board'.plugged = board.plugged BY <1>1, <1>16, WireW
    <2> QED BY <1>4, <1>16, <2>1, StillW DEF Wire, Next1
  <1>17. CASE PlugRootEnd
    <2>1. queue # << >> /\ Advance /\ Head(queue).op \in {"plugA", "plugB"}
      BY <1>17 DEF PlugRootEnd, Next1, V
    <2>2. pc \in {"links", "switches"} BY <2>1, Found DEF Fits
    <2>3. CASE pc = "links"
      <3>1. WiredInv' /\ \A o \in board'.plugged \ board.plugged : o \in Dpnis /\ board.wire[o] # None
        BY <1>1, <1>17, <2>3, PlugLinkW
      <3>2. Plugs BY <3>1 DEF Plugs
      <3> QED BY <1>4, <2>1, <3>1, <3>2
    <2>4. CASE pc = "switches"
      <3>1. WiredInv' /\ \A o \in board'.plugged \ board.plugged :
                        o \in Switches /\ \E i \in DOMAIN Domains : Complete(board', o, Domains[i])
        BY <1>1, <1>17, <2>4, PlugSwitchW
      <3>2. Plugs BY <3>1, EndsApart DEF Plugs
      <3> QED BY <1>4, <2>1, <3>1, <3>2
    <2> QED BY <2>2, <2>3, <2>4
  <1>18. CASE StepDone
    <2>1. queue # << >> /\ Advance /\ Head(queue).op = "next" /\ board' = board
      BY <1>18 DEF StepDone, Next1, V
    <2>2. pc \in Phases BY <2>1, Found
    <2>3. WiredInv' BY <1>1, <1>18, <2>2, StepDoneEarlyW, RaisedW, StepDonePruneW DEF Phases
    <2> QED BY <1>4, <2>1, <2>3, StillW
  <1>19. CASE Raise
    <2>1. WiredInv' /\ board' = board /\ outcome' = outcome BY <1>1, <1>19, RaiseW DEF Raise
    <2>2. queue # << >> BY <1>19 DEF Raise, Next1
    <2> QED BY <1>2, <2>1, <2>2, Found, StillW
  <1>20. CASE Sever
    <2>1. WiredInv' /\ board'.plugged = board.plugged BY <1>1, <1>20, SeverW
    <2> QED BY <1>4, <1>20, <2>1, StillW DEF Sever, Next1
  <1>21. CASE ConnectPort
    <2>1. WiredInv' /\ board'.plugged = board.plugged BY <1>1, <1>21, PortW
    <2> QED BY <1>4, <1>21, <2>1, StillW DEF ConnectPort, Next1
  <1>22. CASE Destroy
    <2>1. queue # << >> /\ Advance /\ board' = Gone(board, Head(queue).a) /\ Head(queue).op = "destroy"
      BY <1>22 DEF Destroy, Next1, V
    <2>2. pc \in {"switches", "prune"} /\ Head(queue).a \in Objs BY <2>1, Found DEF Fits, Objs
    <2>3. WiredInv' BY <1>1, <1>22, <2>2, RemakeW, PrunedW
    <2>4. board'.plugged \subseteq board.plugged
      <3> DEFINE o == Head(queue).a
      <3>1. o \in Objs /\ board' = Gone(board, o) BY <2>1, <2>2
      <3> HIDE DEF o
      <3>2. Gone(board, o).plugged = board.plugged \ {o} BY <1>1, <3>1, GoneIs
      <3> QED BY <3>1, <3>2
    <2> QED BY <1>4, <2>1, <2>3, <2>4, StillW
  <1>23. CASE Refused
    <2>1. Fail /\ board' = board BY <1>23 DEF Refused
    <2> QED BY <2>1, FailW, StillW
  <1>24. CASE UnwindRow
    <2>1. pc = "unwind" /\ pc' = "unwind" /\ outcome' = outcome
      BY <1>24 DEF UnwindRow, UnwindUnchanged
    <2> QED BY <1>2, <1>24, <2>1, UndoneLess, OverW, StillW
  <1>25. CASE UnwindDone BY <1>3, <1>25 DEF UnwindDone
  <1>26. CASE UnwindRowFails
    <2>1. pc = "unwind" /\ pc' = "unwind" /\ outcome' = outcome /\ board' = board
      BY <1>26 DEF UnwindRowFails, UnwindUnchanged
    <2> QED BY <1>2, <2>1, OverW, StillW
  <1>27. CASE VerbFails
    <2>1. Fail /\ board' = board BY <1>27 DEF VerbFails
    <2> QED BY <2>1, FailW, StillW
  <1>28. CASE Killed BY <1>3, <1>28 DEF Killed
  <1>29. CASE OperatorEdits
    <2>1. pc = "idle" /\ pc' = "idle" BY <1>29 DEF OperatorEdits
    <2> QED BY <2>1, OverW, StillW
  <1>31. CASE ErrsAfterEffect
    <2>1. Fail /\ Landed /\ queue # << >> BY <1>31, LandedIs DEF ErrsAfterEffect
    <2>2. WiredInv' /\ outcome' # "converged" BY <2>1, FailW
    <2>3. Plugs
      <3>1. CASE board'.plugged = board.plugged BY <3>1, StillW
      <3>2. CASE pc = "population" /\ \E o \in ToSet(hand) : board'.plugged = board.plugged \cup {o}
        BY <2>1, <3>2 DEF WiredInv, PopulationPart, Plugs
      <3> QED BY <2>1, <3>1, <3>2 DEF Landed
    <2> QED BY <2>2, <2>3
  <1> HIDE DEF StepWired
  <1>30. StepWired
    <2>1. Tool \/ UnwindRowFails \/ VerbFails \/ ErrsAfterEffect \/ Killed \/ OperatorEdits
      BY DEF Next
    <2>2. CASE Tool
      BY <1>5, <1>6, <1>7, <1>8, <1>9, <1>10, <1>11, <1>12, <1>13, <1>14, <1>15, <1>16, <1>17, <1>18, <1>19,
         <1>20, <1>21, <1>22, <1>23, <1>24, <1>25, <2>2 DEF Tool, Planned, Dispatched, Unwind
    <2> QED BY <1>26, <1>27, <1>28, <1>29, <1>31, <2>1, <2>2
  <1> QED BY <1>30

LEMMA WKept ==
  ASSUME Inv, WiredInv, UNCHANGED vars
  PROVE  WiredInv'
  <1>1. /\ pc' = pc /\ outcome' = outcome /\ board' = board /\ queue' = queue /\ hand' = hand /\ made' = made
        /\ links' = links
    BY DEF vars, given
  <1> QED BY <1>1 DEF WiredInv, PopulationPart, LinksPart, SwitchesPart, PrunePart, Provided, WiredOrOwed, AllWired

\* Whatever boards, intents, options, failures, kills and edits the constants allow: a link
\* end in the root or a switch is plugged only once its edges stand, and a run that ends
\* converged leaves every declared link wired end to end and every domain a switch of the
\* declared signature, whole where the run raised it (engine.rs converge_links,
\* converge_switches, prune_switches).
THEOREM FabricWired == Spec => WiredWhole
  <1>1. Init => WiredInv BY InitW
  <1>2. Inv /\ Inv' /\ WiredInv /\ [Next]_vars => WiredInv' BY NextW, WKept DEF StepWired
  <1>3. Inv /\ Inv' /\ WiredInv /\ [Next]_vars =>
          [\A o \in Objs :
             o \in board'.plugged \ board.plugged /\ board.home[o] = Root /\ pc # "idle" =>
               IF o \in Dpnis THEN board.wire[o] # None
               ELSE \E i \in DOMAIN Domains :
                      Complete(board', o, Domains[i])]_vars
    <2> SUFFICES ASSUME Inv, Inv', WiredInv, Next PROVE Plugs BY DEF Plugs
    <2> QED BY NextW DEF StepWired
  <1>4. Inv /\ Inv' /\ WiredInv /\ [Next]_vars =>
          [pc # "idle" /\ outcome' = "converged" =>
             \A i \in DOMAIN links : Apart(links[i]) => Wired(board', links[i])]_vars
    <2> SUFFICES ASSUME Inv, Inv', WiredInv, Next, pc # "idle", outcome' = "converged"
                 PROVE  \A i \in DOMAIN links : Apart(links[i]) => Wired(board', links[i])
      OBVIOUS
    <2>1. pc = "prune" /\ board' = board BY NextW DEF StepWired
    <2> QED BY <2>1 DEF WiredInv, PrunePart, AllWired
  <1>5. Inv /\ Inv' /\ WiredInv /\ [Next]_vars =>
          [pc # "idle" /\ outcome' = "converged" =>
             \A i \in DOMAIN Domains :
               LET s == DomainSwitch(board', Domains[i])
               IN /\ s # None /\ s \notin board'.drifted
                  /\ s \in made => Complete(board', s, Domains[i])]_vars
    <2> SUFFICES ASSUME Inv, Inv', WiredInv, Next, pc # "idle", outcome' = "converged", NEW i \in DOMAIN Domains
                 PROVE  LET s == DomainSwitch(board', Domains[i])
                        IN /\ s # None /\ s \notin board'.drifted
                           /\ s \in made => Complete(board', s, Domains[i])
      OBVIOUS
    <2>1. pc = "prune" /\ board' = board BY NextW DEF StepWired
    <2>2. Up(board, made, i) BY <2>1 DEF WiredInv, PrunePart
    <2> QED BY <2>1, <2>2 DEF Up
  <1> QED BY <1>1, <1>2, <1>3, <1>4, <1>5, Inductive, PTL
        DEF Spec, WiredWhole, PlugAfterWire, ConvergedLinked, ConvergedRaised
=============================================================================
