------------------------------ MODULE CryptoRun ------------------------------
(***************************************************************************)
(* The dpseci population of one tenant's container: the session over the   *)
(* MC portal that reads each object (dpaa2-hal portal.rs, dpaa2-mc         *)
(* restool.rs), the census and its dispatch (dpaa2-mc populate.rs), under   *)
(* the gate and the failure policy of the run (engine.rs                    *)
(* converge_population, main.rs run_ensure).                               *)
(*                                                                         *)
(* `ensure` refuses every plan that names a dpseci; the population pass     *)
(* itself does not, and serves whoever calls it.  The other halves of the  *)
(* child's population are converged throughout.  A raw options mask is the *)
(* set of its bit positions.                                               *)
(***************************************************************************)
EXTENDS Integers, Sequences, SequencesExt, FiniteSets

CONSTANT None

-----------------------------------------------------------------------------
(* The block and its mask. *)

MaxQueues == 16
Priorities == 1..8

DpseciOpt == {"HasCg", "HasOpr", "OprShared"}

OptBit == [opt \in DpseciOpt |->
             CASE opt = "HasCg" -> 5 [] opt = "HasOpr" -> 6 [] opt = "OprShared" -> 7]

Blocks == [options : SUBSET DpseciOpt, queues : Nat, prios : Seq(Nat)]
Block(opts, queues, prios) == [options |-> opts, queues |-> queues, prios |-> prios]

\* The first refusal restool's own parser would raise.
CfgRefusal(cfg) ==
  CASE cfg.queues \notin 1..MaxQueues -> "QueueCountOutOfRange"
    [] Len(cfg.prios) # cfg.queues -> "PriorityCountMismatch"
    [] ~ToSet(cfg.prios) \subseteq Priorities -> "PriorityOutOfRange"
    [] OTHER -> "accepted"

\* The one block a crypto construct derives.
Derived(flows) ==
  LET n == IF flows < 1 THEN 1 ELSE IF flows > MaxQueues THEN MaxQueues ELSE flows
  IN Block({"HasCg"}, n, [i \in 1..n |-> 2])

Mask(opts) == {OptBit[opt] : opt \in opts}

DecodeDroppingEscapes(raw) ==
  [flags |-> {opt \in DpseciOpt : OptBit[opt] \in raw}, escapes |-> {}]

\* Named bits come back as flags, each other bit as an escape of its own.
Decode(raw) ==
  [flags   |-> {opt \in DpseciOpt : OptBit[opt] \in raw},
   escapes |-> raw \ {OptBit[opt] : opt \in DpseciOpt}]

-----------------------------------------------------------------------------
(* Signatures: what of a block has a read-back.  Priorities have none. *)

Sig(cfg) == [queues |-> cfg.queues, flags |-> cfg.options]

\* The face of one object from its queue line and the mask the portal answered,
\* either of which may be missing: None where nothing can be judged.
Face(queues, raw) ==
  IF raw = None \/ queues = None THEN None
  ELSE IF Decode(raw).escapes # {} THEN None
  ELSE [queues |-> queues, flags |-> Decode(raw).flags]

Count(sigs, sig) == Cardinality({i \in DOMAIN sigs : sigs[i] = sig})

\* What of each signature one side has more of than the other.
Over(a, b) ==
  [sig \in Range(a) |->
     IF Count(a, sig) > Count(b, sig) THEN Count(a, sig) - Count(b, sig) ELSE 0]

\* The two multisets met signature by signature.
Delta(wanted, observed) ==
  [creates |-> Over(wanted, observed), destroys |-> Over(observed, wanted)]

IsEmpty(delta) ==
  /\ \A sig \in DOMAIN delta.creates : delta.creates[sig] = 0
  /\ \A sig \in DOMAIN delta.destroys : delta.destroys[sig] = 0

\* The order of signatures: queues, then the options as sorted sets.
FlagOrder ==
  <<{}, {"HasCg"}, {"HasCg", "HasOpr"}, {"HasCg", "HasOpr", "OprShared"},
    {"HasCg", "OprShared"}, {"HasOpr"}, {"HasOpr", "OprShared"}, {"OprShared"}>>
Rank(sig) == 8 * sig.queues + (CHOOSE i \in 1..8 : FlagOrder[i] = sig.flags)

\* Of the places of S, the first one of the lowest signature.
FirstIn(S, sigs) ==
  LET low == Min({Rank(sigs[i]) : i \in S})
  IN Min({i \in S : Rank(sigs[i]) = low})

\* The first n[sig] places of each signature.
Firsts(sigs, n) ==
  {i \in DOMAIN sigs :
     Cardinality({j \in DOMAIN sigs : j <= i /\ sigs[j] = sigs[i]}) <= n[sigs[i]]}

-----------------------------------------------------------------------------
(* The container's dpsecis and the run over them. *)

CONSTANTS
  Ids,         \* ordinals the MC can hand a dpseci; it hands out the lowest
  Own,         \* the tenant's name, the label of what is its own
  Stranger,    \* another label
  Plans,       \* the lists of create blocks an intent may compile to
  Oddities,    \* bits the firmware may set on its own account
  Callers,     \* out of {"ensure", "pass"}
  Allows,      \* out of {0, 2}
  Policies,    \* out of {"rollback", "abort"}
  MaxEdits,    \* bound on the operator's edits
  MaxTurns,    \* bound on what the portal and the drivers do on their own
  MaxFaults    \* bound on failures and kills

Options == [caller : Callers, allow : Allows, policy : Policies]

ASSUME CryptoAssumption ==
  /\ Ids \subseteq Nat \ {0} /\ IsFiniteSet(Ids)
  /\ None \notin Ids /\ None \notin {Own, Stranger} /\ Own # Stranger
  /\ \A o \in Options : None # o
  /\ Plans \subseteq Seq(Blocks)
  /\ \A plan \in Plans : \A i \in DOMAIN plan : CfgRefusal(plan[i]) = "accepted"
  /\ \A odd \in Oddities : odd \subseteq Nat /\ odd \cap Mask(DpseciOpt) = {}
  /\ MaxEdits \in Nat /\ MaxTurns \in Nat /\ MaxFaults \in Nat

VARIABLES
  board,     \* the MC: the child's dpsecis and the portal's device node
  planned,   \* the blocks the intent compiles to
  pc, opts,
  phase,     \* "plan" or "after": which of the two judgments is under way
  rows,      \* own rows the judgment has still to read
  read,      \* the row being read and what was answered so far
  session,   \* the object the portal session is open on, None without one
  faces,     \* the rows read, each with its signature
  verdict,   \* "none", "dark" or "census"
  due,       \* blocks still to create, objects still to destroy
  fresh,     \* the object of the create under way, from its first spawn to its last
  journal, unreversed, outcome,
  before,    \* history: the board when the run under way started
  edits, turns, faults

vars == <<board, planned, pc, opts, phase, rows, read, session, faces, verdict, due,
          fresh, journal, unreversed, outcome, before, edits, turns, faults>>

reading == <<rows, read, session, faces, verdict>>
dispatching == <<due, fresh, journal, unreversed>>
budgets == <<edits, turns, faults>>

NothingDue == [create |-> {}, destroy |-> {}]
NoRead == [obj |-> None, queues |-> None, attr |-> None, raw |-> None, version |-> None]

Empty == [live |-> {}, cfg |-> [o \in Ids |-> None], odd |-> [o \in Ids |-> {}],
          label |-> [o \in Ids |-> None], plugged |-> {}, held |-> {}, node |-> TRUE]

-----------------------------------------------------------------------------
(* The board. *)

Free(b) == Ids \ b.live

Minted(b, o, cfg, odd) == [b EXCEPT !.live = @ \cup {o}, !.cfg[o] = cfg, !.odd[o] = odd]
Gone(b, o) ==
  [b EXCEPT !.live = @ \ {o}, !.cfg[o] = None, !.odd[o] = {}, !.label[o] = None,
            !.plugged = @ \ {o}, !.held = @ \ {o}]

EveryRow(b) == b.live
OwnRows(b) == {o \in b.live : b.label[o] = Own}

\* What the MC answers of an object's options: what it was created with, and
\* what the firmware added.
Raw(b, o) == Mask(b.cfg[o].options) \cup b.odd[o]

PlannedSigs == [i \in DOMAIN planned |-> Sig(planned[i])]

-----------------------------------------------------------------------------
(* The run: guard, plan, gate. *)

Init ==
  /\ board = Empty /\ before = Empty
  /\ planned \in Plans
  /\ pc = "idle" /\ opts = None /\ phase = "plan"
  /\ rows = {} /\ read = NoRead /\ session = None /\ faces = << >> /\ verdict = "none"
  /\ due = NothingDue /\ fresh = None /\ journal = << >> /\ unreversed = {}
  /\ outcome = "none" /\ edits = 0 /\ turns = 0 /\ faults = 0

End(how) ==
  /\ pc' = "idle" /\ outcome' = how /\ opts' = None /\ phase' = "plan"
  /\ rows' = {} /\ read' = NoRead /\ session' = None /\ faces' = << >>
  /\ verdict' = "none" /\ due' = NothingDue /\ fresh' = None
  /\ journal' = << >> /\ unreversed' = {} /\ before' = Empty

\* A failed verb ends the run, under the rollback policy once it is unwound.
Fail ==
  IF opts.policy = "rollback" /\ journal # << >>
  THEN /\ pc' = "unwind" /\ outcome' = "failing"
       /\ rows' = {} /\ read' = NoRead /\ session' = None /\ faces' = << >>
       /\ verdict' = "none" /\ due' = NothingDue /\ fresh' = None
       /\ UNCHANGED <<opts, phase, journal, unreversed, before>>
  ELSE End("failed")

\* reify_guard: no ensure pass creates a dpseci.
Unreifiable(o) == o.caller = "ensure" /\ planned # << >>

GuardRefuses ==
  /\ pc = "idle"
  /\ \E o \in Options : Unreifiable(o)
  /\ outcome' = "unreifiable"
  /\ UNCHANGED <<board, planned, pc, opts, phase, reading, dispatching, before, budgets>>

Start ==
  /\ pc = "idle"
  /\ opts' \in {o \in Options : ~Unreifiable(o)}
  /\ pc' = "list" /\ phase' = "plan" /\ outcome' = "running" /\ before' = board
  /\ UNCHANGED <<board, planned, reading, dispatching, budgets>>

\* judge_dpseci lists the container and reads only the tenant's own rows.
List ==
  /\ pc = "list"
  /\ rows' = OwnRows(board)
  /\ faces' = << >> /\ verdict' = "none" /\ pc' = "row"
  /\ UNCHANGED <<board, planned, opts, phase, read, session, dispatching, outcome, before, budgets>>

-----------------------------------------------------------------------------
(* One row: restool's info, then a session over the root's portal. *)

RowUnchanged == UNCHANGED <<board, planned, opts, phase, dispatching, outcome, before, edits, turns>>

Injected == faults < MaxFaults /\ faults' = faults + 1

\* A torn info prints no queue line; that is no error.
Info ==
  /\ pc = "row" /\ rows # {}
  /\ LET o == Min(rows)
     IN \/ /\ read' = [NoRead EXCEPT !.obj = o, !.queues = board.cfg[o].queues]
           /\ UNCHANGED faults
        \/ /\ read' = [NoRead EXCEPT !.obj = o]
           /\ Injected
  /\ pc' = "open"
  /\ UNCHANGED <<rows, session, faces, verdict>> /\ RowUnchanged

\* One unreadable row and nothing of the container is judged.
Darken ==
  /\ pc' = "judged" /\ verdict' = "dark" /\ rows' = {} /\ faces' = << >> /\ read' = NoRead

\* A missing or forbidden device node is absence of evidence.
Open ==
  /\ pc = "open"
  /\ IF board.node
     THEN session' = read.obj /\ pc' = "attr" /\ UNCHANGED <<rows, read, faces, verdict>>
     ELSE Darken /\ UNCHANGED session
  /\ UNCHANGED faults /\ RowUnchanged

OpenRefused ==
  /\ pc = "open" /\ board.node
  /\ Injected
  /\ Fail
  /\ UNCHANGED <<board, planned, edits, turns>>

\* One command of the open session: answered, dark once the node is gone or
\* forbidden, or refused by the MC; either way the next command is issued.
Answers(field, raw) ==
  \/ /\ read' = IF board.node THEN [read EXCEPT ![field] = "ok", !.raw = raw]
               ELSE [read EXCEPT ![field] = "dark"]
     /\ UNCHANGED faults
  \/ /\ board.node
     /\ read' = [read EXCEPT ![field] = "refused"]
     /\ Injected

GetAttributes ==
  /\ pc = "attr"
  /\ Answers("attr", Raw(board, read.obj))
  /\ pc' = "version"
  /\ UNCHANGED <<rows, session, faces, verdict>> /\ RowUnchanged

GetApiVersion ==
  /\ pc = "version"
  /\ Answers("version", read.raw)
  /\ pc' = "close"
  /\ UNCHANGED <<rows, session, faces, verdict>> /\ RowUnchanged

\* Best effort, whatever the two reads said.
Close ==
  /\ pc = "close"
  /\ session' = None /\ pc' = "judge"
  /\ UNCHANGED <<rows, read, faces, verdict, faults>> /\ RowUnchanged

\* The attributes are looked at first, then the version.
Refused == read.attr = "refused" \/ (read.attr = "ok" /\ read.version = "refused")
Mapped == IF read.attr = "ok" /\ read.version = "ok" THEN read.raw ELSE None

SessionFails ==
  /\ pc = "judge" /\ Refused
  /\ Fail
  /\ UNCHANGED <<board, planned, budgets>>

JudgeRow ==
  /\ pc = "judge" /\ ~Refused
  /\ LET face == Face(read.queues, Mapped)
     IN IF face = None
        THEN Darken
        ELSE /\ faces' = [o \in DOMAIN faces \cup {read.obj} |->
                            IF o = read.obj THEN face ELSE faces[o]]
             /\ pc' = "row" /\ rows' = rows \ {read.obj} /\ read' = NoRead
             /\ UNCHANGED verdict
  /\ UNCHANGED <<session, faults>> /\ RowUnchanged

RowsRead ==
  /\ pc = "row" /\ rows = {}
  /\ verdict' = "census" /\ pc' = "judged"
  /\ UNCHANGED <<rows, read, session, faces, faults>> /\ RowUnchanged

-----------------------------------------------------------------------------
(* The census, the gate and the dispatch. *)

Census == Delta(PlannedSigs, faces)
FaceConverged == verdict = "dark" \/ IsEmpty(Census)

CreatesOnly(delta) == [create |-> Firsts(PlannedSigs, delta.creates), destroy |-> {}]

\* What a delta owes: the first blocks short, the first objects over.
Owed(delta) ==
  [create |-> Firsts(PlannedSigs, delta.creates), destroy |-> Firsts(faces, delta.destroys)]

\* Any work at all is disruptive; an unreadable face asks for none.
JudgedConverged ==
  /\ pc = "judged" /\ phase = "plan" /\ FaceConverged
  /\ pc' = "rest"
  /\ UNCHANGED <<board, planned, opts, phase, reading, dispatching, outcome, before, budgets>>

GateRefuses ==
  /\ pc = "judged" /\ phase = "plan" /\ ~FaceConverged /\ opts.allow < 2
  /\ End("gateRefused")
  /\ UNCHANGED <<board, planned, budgets>>

PlanDispatch ==
  /\ pc = "judged" /\ phase = "plan" /\ ~FaceConverged /\ opts.allow = 2
  /\ due' = Owed(Census) /\ pc' = "dispatch"
  /\ UNCHANGED <<board, planned, opts, phase, reading, fresh, journal, unreversed,
                 outcome, before, budgets>>

\* Creates come before destroys, each in the order of the signatures.
Creating == pc = "dispatch" /\ due.create # {}
Destroying == pc = "dispatch" /\ due.create = {} /\ due.destroy # {}
NextBlock == FirstIn(due.create, PlannedSigs)
NextVictim == FirstIn(due.destroy, faces)

Issued == UNCHANGED <<planned, pc, opts, phase, reading, unreversed, outcome, before, edits, turns>>

\* The three spawns of a create.  The firmware may set a bit nobody asked for;
\* that counts as a fault.
Mint ==
  /\ Creating /\ fresh = None /\ Free(board) # {}
  /\ fresh' = Min(Free(board))
  /\ \/ board' = Minted(board, fresh', planned[NextBlock], {}) /\ UNCHANGED faults
     \/ \E odd \in Oddities :
          board' = Minted(board, fresh', planned[NextBlock], odd) /\ Injected
  /\ Issued /\ UNCHANGED <<due, journal>>

MintUnheld ==
  /\ Creating /\ fresh = None /\ Free(board) = {}
  /\ Fail
  /\ UNCHANGED <<board, planned, budgets>>

Plug ==
  /\ Creating /\ fresh # None /\ fresh \notin board.plugged
  /\ board' = [board EXCEPT !.plugged = @ \cup {fresh}]
  /\ Issued /\ UNCHANGED <<due, fresh, journal, faults>>

\* The verb returns with the stamp, and only a verb that returned is recorded.
Record == Append(journal, fresh)

Labelled(o) == [board EXCEPT !.label[o] = Own]

Stamp ==
  /\ Creating /\ fresh \in board.plugged
  /\ board' = Labelled(fresh)
  /\ journal' = Record /\ fresh' = None
  /\ due' = [due EXCEPT !.create = @ \ {NextBlock}]
  /\ Issued /\ UNCHANGED faults

\* Absence is read back: an object that survives a reported success fails the
\* run, as does one a driver holds.
Destroy ==
  /\ Destroying /\ NextVictim \notin board.held
  /\ board' = Gone(board, NextVictim)
  /\ due' = [due EXCEPT !.destroy = @ \ {NextVictim}]
  /\ Issued /\ UNCHANGED <<fresh, journal, faults>>

DestroyRefused ==
  /\ Destroying
  /\ IF NextVictim \in board.held THEN UNCHANGED faults ELSE Injected
  /\ Fail
  /\ UNCHANGED <<board, planned, edits, turns>>

Dispatched ==
  /\ pc = "dispatch" /\ due = NothingDue
  /\ phase' = "after" /\ pc' = "list"
  /\ UNCHANGED <<board, planned, opts, reading, dispatching, outcome, before, budgets>>

\* The second judgment is the verdict of the pass.
JudgedAgain ==
  /\ pc = "judged" /\ phase = "after"
  /\ IF FaceConverged
     THEN /\ pc' = "rest"
          /\ UNCHANGED <<opts, phase, reading, dispatching, outcome, before>>
     ELSE Fail
  /\ UNCHANGED <<board, planned, budgets>>

RunConverged ==
  /\ pc = "rest"
  /\ End("converged")
  /\ UNCHANGED <<board, planned, budgets>>

-----------------------------------------------------------------------------
(* Failures, kills and the unwind. *)

\* Anything else the run asks of the board may fail, the passes after this one
\* included; the last spawn of a verb may also have taken effect by then: the
\* object is labelled without a row, or gone.
VerbFails ==
  /\ pc \in {"list", "row", "dispatch", "rest"}
  /\ Injected
  /\ Fail
  /\ \/ UNCHANGED board
     \/ Creating /\ fresh \in board.plugged /\ board' = Labelled(fresh)
     \/ Destroying /\ NextVictim \notin board.held /\ board' = Gone(board, NextVictim)
  /\ UNCHANGED <<planned, edits, turns>>

Killed ==
  /\ pc # "idle"
  /\ Injected
  /\ End("killed")
  /\ UNCHANGED <<board, planned, edits, turns>>

LastRow == journal[Len(journal)]

Unwound(undone) ==
  /\ journal' = Front(journal)
  /\ unreversed' = IF undone THEN unreversed ELSE unreversed \cup {LastRow}
  /\ UNCHANGED <<planned, pc, opts, phase, reading, due, fresh, outcome, before, edits, turns>>

UnwindRow ==
  /\ pc = "unwind" /\ journal # << >> /\ LastRow \notin board.held
  /\ board' = Gone(board, LastRow)
  /\ Unwound(TRUE) /\ UNCHANGED faults

UnwindRowFails ==
  /\ pc = "unwind" /\ journal # << >>
  /\ IF LastRow \in board.held THEN UNCHANGED faults ELSE Injected
  /\ Unwound(FALSE) /\ UNCHANGED board

UnwindDone ==
  /\ pc = "unwind" /\ journal = << >>
  /\ End(IF unreversed = {} THEN "rolledBack" ELSE "unreversed")
  /\ UNCHANGED <<board, planned, budgets>>

-----------------------------------------------------------------------------
(* The operator between runs; the portal and the drivers at any time. *)

Edited ==
  \/ \E plan \in Plans : planned' = plan /\ UNCHANGED board
  \/ /\ Free(board) # {}
     /\ \E plan \in Plans, who \in {Own, Stranger, None} :
          /\ plan # << >>
          /\ LET o == Min(Free(board))
             IN board' = [Minted(board, o, Head(plan), {}) EXCEPT !.label[o] = who]
     /\ UNCHANGED planned
  \/ \E o \in board.live :
       /\ \/ board' = Gone(board, o)
          \/ \E who \in {Own, Stranger, None} : board' = [board EXCEPT !.label[o] = who]
       /\ UNCHANGED planned

OperatorEdits ==
  /\ pc = "idle" /\ edits < MaxEdits
  /\ edits' = edits + 1
  /\ Edited
  /\ UNCHANGED <<pc, opts, phase, reading, dispatching, outcome, before, turns, faults>>

\* The device node comes and goes; a driver takes or lets go of a plugged object.
TurnUnchanged ==
  UNCHANGED <<planned, pc, opts, phase, reading, dispatching, outcome, before, edits, faults>>

NodeTurns ==
  /\ turns < MaxTurns /\ turns' = turns + 1
  /\ board' = [board EXCEPT !.node = ~@]
  /\ TurnUnchanged

DriverTurns ==
  /\ turns < MaxTurns /\ turns' = turns + 1
  /\ \E o \in board.plugged :
       board' = [board EXCEPT !.held = IF o \in @ THEN @ \ {o} ELSE @ \cup {o}]
  /\ TurnUnchanged

-----------------------------------------------------------------------------
Reads == List \/ Info \/ Open \/ OpenRefused \/ GetAttributes \/ GetApiVersion \/ Close
           \/ SessionFails \/ JudgeRow \/ RowsRead

Dispatches == JudgedConverged \/ GateRefuses \/ PlanDispatch \/ Mint \/ MintUnheld \/ Plug
                \/ Stamp \/ Destroy \/ DestroyRefused \/ Dispatched \/ JudgedAgain \/ RunConverged

Unwinds == UnwindRow \/ UnwindRowFails \/ UnwindDone

Tool == Start \/ Reads \/ Dispatches \/ Unwinds

Next == Tool \/ GuardRefuses \/ VerbFails \/ Killed \/ OperatorEdits \/ NodeTurns \/ DriverTurns

Spec == Init /\ [][Next]_vars

\* Someone goes on calling the pass, with the gate open, and it runs on.
FairSpec == Spec /\ WF_vars(Reads) /\ WF_vars(Dispatches) /\ WF_vars(Unwinds)
                 /\ SF_vars(Start /\ opts'.allow = 2)

-----------------------------------------------------------------------------
(* Properties. *)

Labels == {Own, Stranger, None}
Boards ==
  [live : SUBSET Ids, cfg : [Ids -> Blocks \cup {None}], odd : [Ids -> Oddities \cup {{}}],
   label : [Ids -> Labels], plugged : SUBSET Ids, held : SUBSET Ids, node : BOOLEAN]

\* The variables stay in their ranges: the session is open on a live object, what
\* is due are blocks of the plan and objects read, the journal holds objects.
TypeOK ==
  /\ board \in Boards /\ board.plugged \subseteq board.live /\ board.held \subseteq board.plugged
  /\ planned \in Plans
  /\ pc = "idle" <=> opts = None
  /\ session \in board.live \cup {None}
  /\ due.create \subseteq DOMAIN planned /\ due.destroy \subseteq DOMAIN faces
  /\ fresh \in board.live \cup {None}
  /\ journal \in Seq(Ids) /\ unreversed \subseteq Ids
  /\ edits \in 0..MaxEdits /\ turns \in 0..MaxTurns /\ faults \in 0..MaxFaults

\* As many of every signature: the order of the blocks, their priorities and the
\* objects' ordinals say nothing.
AsMany(b) ==
  LET own == {o \in b.live : b.label[o] = Own}
  IN \A sig \in {Sig(b.cfg[o]) : o \in own} \cup Range(PlannedSigs) :
       Cardinality({o \in own : Sig(b.cfg[o]) = sig})
         = Cardinality({i \in DOMAIN planned : Sig(planned[i]) = sig})

\* A portal session is open only between its own commands: whatever the two
\* reads answered, no judgment, verb or unwind runs under an open token
\* (read_dpseci_over_portal closes before it looks at either answer).
SessionClosed == session # None => pc \in {"attr", "version", "close"}

\* No run destroys a dpseci that does not bear its tenant's name, in the
\* dispatch or in the unwind.
StrangersKept ==
  [][pc # "idle" => \A o \in board.live \ board'.live : board.label[o] = Own]_vars

\* A run dispatches only on the evidence of every object of the tenant: one
\* whose mask holds a bit without a name, or that was not read at all, stops it.
JudgesOnlyTheSeen ==
  pc = "dispatch" =>
    LET own == {o \in before.live : before.label[o] = Own}
    IN (\A o \in own : before.odd[o] = {}) /\ DOMAIN faces = own

\* A board that already holds as many of every signature is left alone, in
\* whatever order its objects were made.
NoChurn == pc = "dispatch" => ~AsMany(before)

\* Until something fails, a tenant in the middle of a replacement holds no fewer
\* objects than it had, or than it is meant to have: creates come first.
NeverShort ==
  pc \notin {"idle", "unwind"} =>
    LET had == Cardinality({o \in before.live : before.label[o] = Own})
        has == Cardinality({o \in board.live : board.label[o] = Own})
    IN has >= had \/ has >= Len(planned)

\* A pass that goes on as converged, on evidence, holds the planned multiset: the
\* verdict is the second reading, never what the verbs reported.
ConvergedExact == pc = "rest" /\ verdict = "census" => AsMany(board)

\* A clean rollback leaves the tenant none of the objects the run made, but at
\* most the one whose create erred once its label was on.
RollbackRemovesMade ==
  [][outcome' = "rolledBack" /\ pc = "unwind" =>
       \A o, p \in board'.live \ before.live :
         board'.label[o] = Own /\ board'.label[p] = Own => o = p]_vars

\* Every pass ends, whatever becomes of the portal in the middle of it.
RunsEnd == []<>(pc = "idle")

Shortfall(b) ==
  LET own == {o \in b.live : b.label[o] = Own}
      miss(sig) == {i \in DOMAIN planned : Sig(planned[i]) = sig}
  IN Cardinality({i \in DOMAIN planned :
       Cardinality({o \in own : Sig(b.cfg[o]) = Sig(planned[i])})
         < Cardinality({j \in miss(Sig(planned[i])) : j <= i})})

\* Once the portal stays, nobody holds the tenant's objects, each reads by name
\* and the board has room for what is missing beside what is there, passes bring
\* the container to the planned multiset and it stays there.
Unobstructed ==
  /\ board.node
  /\ \A o \in board.live : board.label[o] = Own => o \notin board.held /\ board.odd[o] = {}
  /\ Shortfall(board) <= Cardinality(Ids \ board.live)

EventuallyExact == <>[]Unobstructed => <>[]AsMany(board)

-----------------------------------------------------------------------------
\* What holds at every command of a pass: a closed session, verbs on full
\* evidence only, none for a board that is right, no tenant left short by a
\* replacement, no converged verdict short of the plan (populate.rs).
CryptoInv ==
  TypeOK /\ SessionClosed /\ JudgesOnlyTheSeen /\ NoChurn /\ NeverShort /\ ConvergedExact

\* A pass removes nothing but its tenant's objects, and its rollback removes all
\* that it made but one whose create erred (populate.rs: the label filter; rollback_exec.rs).
RemovesItsOwn == StrangersKept /\ RollbackRemovesMade

\* Passes end, and once nothing obstructs them reach the planned blocks.
EventuallySettled == RunsEnd /\ EventuallyExact
=============================================================================
