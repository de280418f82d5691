--------------------------- MODULE PortRun_proofs ---------------------------
(***************************************************************************)
(* Theorems of the port loop, for any board, intent, options and budget.   *)
(***************************************************************************)
EXTENDS PortRun, SequenceTheorems, TLAPS

-----------------------------------------------------------------------------
(* What the board operators preserve. *)

\* Every effect of the MC and the kernel leaves a well-formed board.
LEMMA BoardOpsType ==
  ASSUME NEW b \in Boards, NEW d \in Dpnis
  PROVE  /\ \A read \in CfgReads : Minted(b, d, read) \in Boards
         /\ \A name \in Dpmacs \cup {None} : Stamped(b, d, name) \in Boards
         /\ PluggedIn(b, d) \in Boards
         /\ \A p \in Dpmacs : Joined(b, d, p) \in Boards
         /\ Severed(b, d) \in Boards
         /\ Unbound(b, d) \in Boards
         /\ Nudged(b, d) \in Boards
         /\ Addressed(b, d) \in Boards
         /\ Destroyed(b, d) \in Boards
         /\ Probed(b, d) \in Boards
  <1>1. \A read \in CfgReads : Minted(b, d, read) \in Boards
    BY DEF Minted, Boards
  <1>2. \A name \in Dpmacs \cup {None} : Stamped(b, d, name) \in Boards
    BY DEF Stamped, Boards
  <1>3. PluggedIn(b, d) \in Boards
    BY DEF PluggedIn, Boards
  <1>4. \A p \in Dpmacs : Joined(b, d, p) \in Boards
    BY DEF Joined, Boards
  <1>5. Severed(b, d) \in Boards
    BY DEF Severed, Boards
  <1>6. Unbound(b, d) \in Boards
    BY DEF Unbound, Boards
  <1>7. Nudged(b, d) \in Boards
    BY DEF Nudged, Boards
  <1>8. Addressed(b, d) \in Boards
    BY DEF Addressed, Boards, MacReads
  <1>9. Destroyed(b, d) \in Boards
    BY DEF Destroyed, Boards, MacReads, CfgReads
  <1>10. Probed(b, d) \in Boards
    BY DEF Probed, Boards, MacReads
  <1> QED BY <1>1, <1>2, <1>3, <1>4, <1>5, <1>6, <1>7, <1>8, <1>9, <1>10

-----------------------------------------------------------------------------
(* The inductive invariant. *)

Teardown == {"disconnect", "unbind", "destroy"}
Running == pc \notin {"idle", "unwind"}

\* Every transition due names an object: the dpni it tears down or relabels
\* was seen, the one it wires was seen, was made, or is about to be.
DueNamesObject ==
  /\ due[Sweep] \subseteq Teardown
  /\ \A k \in Keys : due[k] \cap (Teardown \cup {"setlabel"}) # {} => seen[k] # None
  /\ \A k \in Ports :
       due[k] \cap {"setmac", "connect", "bind"} # {} =>
         "create" \in due[k] \/ Resolve(k) # None
  /\ \A k \in Ports :
       "connect" \in due[k] => "create" \in due[k] \/ created[k] # None
  /\ \A k \in Ports \cap Absent : "create" \notin due[k]

\* Port transitions are due only while applying, sweep ones only while sweeping.
Staging ==
  /\ pc # "apply" => \A k \in Ports : due[k] = {}
  /\ pc # "sweep" => due[Sweep] = {} /\ cands = {}

\* Once the edge is cut nothing runs ahead of the unbind, so nothing joins it again.
SeveredBeforeUnbind ==
  \A k \in Keys :
    "unbind" \in due[k] /\ "disconnect" \notin due[k] =>
      /\ board.peer[seen[k]] = None
      /\ \A q \in Keys : q < k => due[q] = {}

\* What a run made stands under a declared name, on its own port or on none,
\* and the ports' dpnis are told apart.
MadeStands ==
  Running =>
    /\ \A k \in Ports : created[k] # None =>
         /\ k \notin Absent
         /\ created[k] \in board.live
         /\ board.label[created[k]] \in Ports
         /\ board.peer[created[k]] \in {None, k}
    /\ \A k, q \in Ports : k # q /\ created[k] # None => created[k] # created[q]

\* Nothing a run made is due to be destroyed.
MadeSpared ==
  Running =>
    /\ \A k \in Ports : "destroy" \in due[k] => seen[k] \in board.live
    /\ \A k \in Keys : "destroy" \in due[k] => seen[k] \notin RunCreated
    /\ \A k, q \in Ports : k # q /\ seen[k] # None => seen[k] # seen[q]
    /\ cands \cap RunCreated = {}

TypeInv == TypeOK /\ DueNamesObject /\ Staging

-----------------------------------------------------------------------------
(* Facts about the planner. *)

\* The observation shows a port a live dpni wired to it, or none.
LEMMA ConnectedToFacts ==
  ASSUME NEW b \in Boards, NEW p \in Dpmacs
  PROVE  /\ ConnectedTo(b, p) \in Dpnis \cup {None}
         /\ ConnectedTo(b, p) # None =>
              ConnectedTo(b, p) \in b.live /\ b.peer[ConnectedTo(b, p)] = p
  <1>1. CASE \E d \in b.live : b.peer[d] = p
    BY <1>1 DEF ConnectedTo, Boards
  <1>2. CASE ~ \E d \in b.live : b.peer[d] = p
    BY <1>2 DEF ConnectedTo
  <1> QED BY <1>1, <1>2

\* What a port's plan may hold, by what the observation showed.
LEMMA PlanFacts ==
  ASSUME NEW b \in Boards, NEW p \in Ports, NEW prune, NEW runCreated,
         NEW d, d = ConnectedTo(b, p),
         NEW plan, plan = PlanPort(b, p, prune, runCreated)
  PROVE  /\ plan \subseteq Kinds
         /\ plan \cap (Teardown \cup {"setlabel"}) # {} => d # None
         /\ plan \cap {"setmac", "bind"} # {} => "create" \in plan \/ d # None
         /\ "connect" \in plan => "create" \in plan
         /\ "unbind" \in plan => "disconnect" \in plan
         /\ p \in Absent => "create" \notin plan
         /\ p \notin Absent /\ "destroy" \in plan => d \notin runCreated
  <1>1. CASE p \in Absent
    BY <1>1 DEF PlanPort, PlanAbsent, PlanTeardown, If, Kinds, Teardown
  <1>2. CASE p \notin Absent /\ d = None
    BY <1>2 DEF PlanPort, PlanPresent, PlanCreate, If, Kinds, Teardown
  <1>3. CASE p \notin Absent /\ d # None /\ ~CfgDrift(b, p, d)
    BY <1>3 DEF PlanPort, PlanPresent, PlanRepair, If, Kinds, Teardown
  <1>4. CASE p \notin Absent /\ d # None /\ CfgDrift(b, p, d)
    BY <1>4 DEF PlanPort, PlanPresent, PlanTeardown, PlanCreate, If, Kinds, Teardown
  <1> QED BY <1>1, <1>2, <1>3, <1>4

LEMMA SweepIsNoPort == Sweep \notin Ports /\ Ports \subseteq Dpmacs
  BY BoardAssumption, IntentAssumption DEF Sweep

-----------------------------------------------------------------------------
(* Type correctness. *)

\* What holds of the transition whose turn it is.
LEMMA TurnFacts ==
  ASSUME TypeInv, NEW k \in Keys, NEW kind \in Kinds, Turn(k, kind)
  PROVE  /\ kind \notin Teardown => k \in Ports
         /\ kind \in Teardown \cup {"setlabel"} => seen[k] \in Dpnis
         /\ kind \in {"setmac", "connect", "bind"} => Resolve(k) \in Dpnis
         /\ kind = "connect" => created[k] # None /\ Resolve(k) = created[k]
         /\ k \in Ports => pc = "apply" /\ due[Sweep] = {}
         /\ k = Sweep => pc = "sweep"
         /\ kind = "create" => k \notin Absent
  <1> USE DEF TypeInv
  <1>1. kind \in due[k]
    BY DEF Turn
  <1>2. kind \in {"setmac", "connect", "bind"} => "create" \notin due[k]
    BY <1>1 DEF Turn, Rank, TypeOK
  <1>3. kind \notin Teardown => k \in Ports
    BY <1>1 DEF DueNamesObject, Keys
  <1>4. kind \in Teardown \cup {"setlabel"} => seen[k] \in Dpnis
    BY <1>1 DEF DueNamesObject, TypeOK
  <1>5. kind \in {"setmac", "connect", "bind"} => Resolve(k) \in Dpnis
    BY <1>1, <1>2, <1>3 DEF DueNamesObject, TypeOK, Resolve, Teardown
  <1>6. kind = "connect" => created[k] # None /\ Resolve(k) = created[k]
    BY <1>1, <1>2, <1>3 DEF DueNamesObject, Resolve, Teardown
  <1>7. k \in Ports => pc = "apply" /\ due[Sweep] = {}
    BY <1>1 DEF Staging
  <1>8. k = Sweep => pc = "sweep"
    BY <1>1 DEF Staging
  <1>9. kind = "create" => k \notin Absent
    BY <1>1, <1>3 DEF DueNamesObject, Teardown
  <1> QED BY <1>3, <1>4, <1>5, <1>6, <1>7, <1>8, <1>9

\* Whatever a verb leaves behind when it fails is a well-formed board.
LEMMA PartialType ==
  ASSUME TypeInv, NEW k \in Keys, NEW kind \in Kinds, Turn(k, kind)
  PROVE  Partial(k, kind) \subseteq Boards
  <1> DEFINE d == Resolve(k)
             s == seen[k]
  <1>1. board \in Boards /\ k \in Keys
    BY DEF TypeInv, TypeOK
  <1>2. CASE kind = "create"
    <2>1. ASSUME NEW d0 \in Dpnis \ board.live, NEW read \in ReadBacks
          PROVE  Minted(board, d0, read) \in Boards /\ Stamped(Minted(board, d0, read), d0, k) \in Boards
      BY <1>1, <1>2, <2>1, TurnFacts, SweepIsNoPort, BoardOpsType, RunAssumption DEF Teardown
    <2> QED BY <1>1, <1>2, <2>1 DEF Partial
  <1>3. CASE kind = "setmac"
    BY <1>1, <1>3, TurnFacts, BoardOpsType DEF Partial, Teardown
  <1>4. CASE kind = "connect"
    <2>1. d \in Dpnis /\ k \in Dpmacs
      BY <1>4, TurnFacts, SweepIsNoPort DEF Teardown
    <2>2. PluggedIn(board, d) \in Boards
      BY <1>1, <2>1, BoardOpsType
    <2>3. Joined(PluggedIn(board, d), d, k) \in Boards
      BY <2>1, <2>2, BoardOpsType
    <2> QED BY <1>1, <1>4, <2>2, <2>3 DEF Partial
  <1>5. CASE kind = "setlabel"
    <2>1. s \in Dpnis /\ k \in Dpmacs
      BY <1>5, TurnFacts, SweepIsNoPort DEF Teardown
    <2>2. Stamped(board, s, k) \in Boards
      BY <1>1, <2>1, BoardOpsType
    <2> QED BY <1>1, <1>5, <2>2 DEF Partial
  <1>6. CASE kind = "destroy"
    BY <1>1, <1>6, TurnFacts, BoardOpsType DEF Partial, Teardown
  <1>7. CASE kind \notin {"create", "setmac", "connect", "setlabel", "destroy"}
    BY <1>1, <1>7 DEF Partial
  <1> QED BY <1>2, <1>3, <1>4, <1>5, <1>6, <1>7

Outcomes == {"none", "running", "converged", "rebuildRefused", "gateRefused",
             "deadline", "failed", "aborted", "rolledBack", "killed"}

\* The end of a run re-establishes the typing whatever went before.
LEMMA EndType ==
  ASSUME TypeInv, NEW how \in Outcomes, End(how), board' \in Boards,
         edits' \in Nat, faults' \in Nat
  PROVE  TypeInv'
  <1>1. BootBoard \in Boards
    BY DEF BootBoard, Boards, CfgReads, MacReads
  <1>2. TypeOK'
    BY <1>1 DEF End, TypeOK, Outcomes, NothingDue, NoneSeen, NoneCreated
  <1>3. DueNamesObject' /\ Staging'
    BY DEF End, DueNamesObject, Staging, NothingDue, Keys
  <1> QED BY <1>2, <1>3 DEF TypeInv

\* A transition carried out keeps the typing, given a well-formed board, a
\* journal of rows, and a dpni for the port whose create it was.
LEMMA DoType ==
  ASSUME TypeInv, NEW k \in Keys, NEW kind \in Kinds, Turn(k, kind),
         Advance(k, kind), Unchanged, board' \in Boards,
         journal' \in Seq(JournalRows),
         \/ created' = created /\ kind # "create"
         \/ \E d \in Dpnis : created' = [created EXCEPT ![k] = d]
  PROVE  TypeInv'
  <1>1. /\ due' = [due EXCEPT ![k] = @ \ {kind}]
        /\ pc' \in {pc, "pass"}
        /\ pc' # pc => pc = "apply" /\ \A q \in Keys : due'[q] = {}
    BY DEF Advance
  <1>2. \A q \in Keys : due'[q] \subseteq due[q]
    BY <1>1 DEF TypeInv, TypeOK
  <1>3. TypeOK'
    BY <1>1, BoardAssumption, TurnFacts
    DEF TypeInv, TypeOK, Unchanged, budgets, Turn, Applying
  <1>4. \A q \in Ports : created[q] # None => created'[q] # None
    BY BoardAssumption DEF TypeInv, TypeOK
  <1>5. kind = "create" => created'[k] # None
    BY BoardAssumption, TurnFacts DEF TypeInv, TypeOK, Teardown
  <1>6. DueNamesObject'
    <2>1. due'[Sweep] \subseteq Teardown
      BY <1>2 DEF TypeInv, DueNamesObject, Keys
    <2>2. \A q \in Keys : due'[q] \cap (Teardown \cup {"setlabel"}) # {} => seen'[q] # None
      BY <1>2 DEF TypeInv, DueNamesObject, Unchanged
    <2>3. \A q \in Ports : "create" \in due[q] => "create" \in due'[q] \/ created'[q] # None
      BY <1>1, <1>5 DEF TypeInv, TypeOK, Keys
    <2>4. \A q \in Ports : Resolve(q) # None => Resolve(q)' # None
      BY <1>4 DEF Resolve, Unchanged
    <2>5. \A q \in Ports : created'[q] # None => Resolve(q)' # None
      BY DEF Resolve
    <2>6. \A q \in Ports : due'[q] \cap {"setmac", "connect", "bind"} # {} =>
                             "create" \in due'[q] \/ Resolve(q)' # None
      BY <1>2, <2>3, <2>4, <2>5 DEF TypeInv, DueNamesObject, Keys
    <2>7. \A q \in Ports : "connect" \in due'[q] => "create" \in due'[q] \/ created'[q] # None
      BY <1>2, <1>4, <2>3 DEF TypeInv, DueNamesObject, Keys
    <2>8. \A q \in Ports \cap Absent : "create" \notin due'[q]
      BY <1>2 DEF TypeInv, DueNamesObject, Keys
    <2> QED BY <2>1, <2>2, <2>6, <2>7, <2>8 DEF DueNamesObject
  <1>7. Staging'
    BY <1>1, <1>2 DEF TypeInv, Staging, Keys, Unchanged
  <1> QED BY <1>3, <1>6, <1>7 DEF TypeInv

\* Each transition of a pass or of the sweep keeps the typing.
LEMMA DoStepType ==
  ASSUME TypeInv, NEW k \in Keys, Do(k)
  PROVE  TypeInv'
  <1> USE DEF Teardown, Kinds
  <1>0. board \in Boards /\ journal \in Seq(JournalRows)
    BY DEF TypeInv, TypeOK
  <1>1. CASE DoCreate(k)
    <2>1. PICK d \in Dpnis \ board.live, read \in ReadBacks :
            /\ board' = Stamped(Minted(board, d, read), d, k)
            /\ created' = [created EXCEPT ![k] = d]
            /\ Record("created", d)
      BY <1>1 DEF DoCreate
    <2>2. Turn(k, "create") /\ Advance(k, "create") /\ Unchanged
      BY <1>1 DEF DoCreate
    <2>3. k \in Dpmacs
      BY <2>2, TurnFacts, SweepIsNoPort
    <2>4. board' \in Boards
      BY <1>0, <2>1, <2>3, BoardOpsType, RunAssumption
    <2>5. journal' \in Seq(JournalRows)
      BY <1>0, <2>1 DEF Record, JournalRows
    <2> QED BY <2>1, <2>2, <2>4, <2>5, DoType
  <1>2. CASE DoSetMac(k)
    <2>1. Turn(k, "setmac") /\ Advance(k, "setmac") /\ Unchanged /\ UNCHANGED <<created, journal>>
      BY <1>2 DEF DoSetMac
    <2>2. board' \in Boards
      BY <1>0, <1>2, <2>1, TurnFacts, BoardOpsType DEF DoSetMac
    <2> QED BY <1>0, <2>1, <2>2, DoType
  <1>3. CASE DoConnect(k)
    <2>1. Turn(k, "connect") /\ Advance(k, "connect") /\ Unchanged /\ UNCHANGED created
      BY <1>3 DEF DoConnect
    <2>2. Resolve(k) \in Dpnis /\ k \in Dpmacs
      BY <2>1, TurnFacts, SweepIsNoPort
    <2>3. PluggedIn(board, Resolve(k)) \in Boards
      BY <1>0, <2>2, BoardOpsType
    <2>4. board' \in Boards
      BY <1>3, <2>2, <2>3, BoardOpsType DEF DoConnect
    <2>5. journal' \in Seq(JournalRows)
      BY <1>0, <1>3, <2>2 DEF DoConnect, Record, JournalRows
    <2> QED BY <2>1, <2>4, <2>5, DoType
  <1>4. CASE DoBind(k)
    <2>1. Turn(k, "bind") /\ Advance(k, "bind") /\ Unchanged /\ UNCHANGED created
      BY <1>4 DEF DoBind
    <2>2. Resolve(k) \in Dpnis
      BY <2>1, TurnFacts
    <2>3. board' \in Boards
      BY <1>0, <1>4, <2>2, BoardOpsType DEF DoBind
    <2>4. journal' \in Seq(JournalRows)
      BY <1>0, <1>4, <2>2 DEF DoBind, Record, JournalRows
    <2> QED BY <2>1, <2>3, <2>4, DoType
  <1>5. CASE DoDisconnect(k)
    <2>1. Turn(k, "disconnect") /\ Advance(k, "disconnect") /\ Unchanged /\ UNCHANGED <<created, journal>>
      BY <1>5 DEF DoDisconnect
    <2>2. board' \in Boards
      BY <1>0, <1>5, <2>1, TurnFacts, BoardOpsType DEF DoDisconnect
    <2> QED BY <1>0, <2>1, <2>2, DoType
  <1>6. CASE DoUnbind(k)
    <2>1. Turn(k, "unbind") /\ Advance(k, "unbind") /\ Unchanged /\ UNCHANGED <<created, journal>>
      BY <1>6 DEF DoUnbind
    <2>2. board' \in Boards
      BY <1>0, <1>6, <2>1, TurnFacts, BoardOpsType DEF DoUnbind
    <2> QED BY <1>0, <2>1, <2>2, DoType
  <1>7. CASE DoDestroy(k)
    <2>1. Turn(k, "destroy") /\ Advance(k, "destroy") /\ Unchanged /\ UNCHANGED <<created, journal>>
      BY <1>7 DEF DoDestroy
    <2>2. board' \in Boards
      BY <1>0, <1>7, <2>1, TurnFacts, BoardOpsType DEF DoDestroy
    <2> QED BY <1>0, <2>1, <2>2, DoType
  <1>8. CASE DoSetLabel(k)
    <2>1. Turn(k, "setlabel") /\ Advance(k, "setlabel") /\ Unchanged /\ UNCHANGED <<created, journal>>
      BY <1>8 DEF DoSetLabel
    <2>2. k \in Dpmacs /\ seen[k] \in Dpnis
      BY <2>1, TurnFacts, SweepIsNoPort
    <2>3. board' \in Boards
      BY <1>0, <1>8, <2>2, BoardOpsType DEF DoSetLabel
    <2> QED BY <1>0, <2>1, <2>3, DoType
  <1> QED BY <1>1, <1>2, <1>3, <1>4, <1>5, <1>6, <1>7, <1>8 DEF Do

-----------------------------------------------------------------------------
(* The typing is inductive. *)

LEMMA InitType == Init => TypeInv
  <1> SUFFICES ASSUME Init PROVE TypeInv
    OBVIOUS
  <1>1. BootBoard \in Boards
    BY DEF BootBoard, Boards, CfgReads, MacReads
  <1>2. TypeOK
    BY <1>1 DEF Init, TypeOK, NothingDue, NoneSeen, NoneCreated
  <1>3. DueNamesObject /\ Staging
    BY DEF Init, DueNamesObject, Staging, NothingDue, Keys
  <1> QED BY <1>2, <1>3 DEF TypeInv

\* The failure policy, from a well-formed board.
LEMMA PolicyType ==
  ASSUME TypeInv, FailurePolicy, board' \in Boards, edits' \in Nat, faults' \in Nat
  PROVE  TypeInv'
  <1>1. CASE opts.policy = "rollback"
    <2>1. TypeOK'
      BY <1>1 DEF TypeInv, TypeOK, FailurePolicy, NothingDue, NoneSeen
    <2>2. DueNamesObject' /\ Staging'
      BY <1>1 DEF FailurePolicy, DueNamesObject, Staging, NothingDue, Keys
    <2> QED BY <2>1, <2>2 DEF TypeInv
  <1>2. CASE opts.policy # "rollback"
    BY <1>2, EndType DEF FailurePolicy, Outcomes
  <1> QED BY <1>1, <1>2

\* Observing and planning.
LEMMA PlannedType ==
  ASSUME TypeInv, PassPlanned
  PROVE  TypeInv'
  <1> USE DEF Keys, Teardown, Kinds
  <1>1. board \in Boards /\ pc = "pass" /\ pc' = "apply"
    BY DEF TypeInv, TypeOK, PassPlanned
  <1>2. \A k \in Ports : /\ due'[k] = PlanPort(board, k, opts.prune, Fence)
                         /\ seen'[k] = ConnectedTo(board, k)
    BY SweepIsNoPort DEF PassPlanned, Planned
  <1>3. due'[Sweep] = {} /\ seen'[Sweep] = None
    BY DEF PassPlanned, Planned
  <1>4. \A k \in Ports : seen'[k] \in Dpnis \cup {None}
    BY <1>1, <1>2, ConnectedToFacts, SweepIsNoPort
  <1>5. \A k \in Ports :
          /\ due'[k] \subseteq Kinds
          /\ due'[k] \cap (Teardown \cup {"setlabel"}) # {} => seen'[k] # None
          /\ due'[k] \cap {"setmac", "bind"} # {} => "create" \in due'[k] \/ seen'[k] # None
          /\ "connect" \in due'[k] => "create" \in due'[k]
          /\ k \in Absent => "create" \notin due'[k]
    BY <1>1, <1>2, PlanFacts
  <1>6. due' \in [Keys -> SUBSET Kinds] /\ seen' \in [Keys -> Dpnis \cup {None}]
    <2>1. \A k \in Keys : due'[k] \subseteq Kinds
      BY <1>3, <1>5
    <2>2. \A k \in Keys : seen'[k] \in Dpnis \cup {None}
      BY <1>3, <1>4
    <2> QED BY <2>1, <2>2 DEF PassPlanned, Planned
  <1>7. TypeOK'
    BY <1>1, <1>6 DEF TypeInv, TypeOK, PassPlanned, budgets
  <1>8. DueNamesObject'
    <2>1. \A k \in Ports : seen'[k] # None => Resolve(k)' # None
      BY DEF Resolve
    <2> QED BY <1>3, <1>5, <2>1 DEF DueNamesObject
  <1>9. Staging'
    BY <1>1, <1>3 DEF TypeInv, Staging, PassPlanned
  <1> QED BY <1>7, <1>8, <1>9 DEF TypeInv

\* The undo of a journal row maps boards to boards.
LEMMA UndoneType ==
  ASSUME NEW row \in JournalRows, board \in Boards
  PROVE  Undone(row) \in Boards /\ HalfUndone(row) \subseteq Boards
  <1>1. row.dpni \in Dpnis
    BY DEF JournalRows
  <1>2. /\ Unbound(board, row.dpni) \in Boards
        /\ Severed(board, row.dpni) \in Boards
    BY <1>1, BoardOpsType
  <1>3. Destroyed(Unbound(board, row.dpni), row.dpni) \in Boards
    BY <1>1, <1>2, BoardOpsType
  <1>4. Undone(row) \in Boards
    BY <1>2, <1>3 DEF Undone, JournalRows
  <1> QED BY <1>2, <1>4 DEF HalfUndone

\* An operator's edit leaves a well-formed board.
LEMMA EditedType ==
  ASSUME board \in Boards
  PROVE  Edited \subseteq Boards
  <1> SUFFICES ASSUME NEW b \in Edited PROVE b \in Boards
    OBVIOUS
  <1>0. board.live \subseteq Dpnis
    BY DEF Boards
  <1>1. CASE \E d \in board.live : b = Destroyed(Unbound(board, d), d)
    BY <1>0, <1>1, BoardOpsType
  <1>2. CASE \E d \in board.live, name \in Dpmacs \cup {None} : b = Stamped(board, d, name)
    BY <1>0, <1>2, BoardOpsType
  <1>3. CASE \E d \in Dpnis \ board.live, read \in CfgReads, name \in Dpmacs \cup {None} :
               b = [Stamped(Minted(board, d, read), d, name) EXCEPT !.plugged = @ \cup {d}]
    <2>1. PICK d \in Dpnis \ board.live, read \in CfgReads, name \in Dpmacs \cup {None} :
            b = [Stamped(Minted(board, d, read), d, name) EXCEPT !.plugged = @ \cup {d}]
      BY <1>3
    <2>2. Stamped(Minted(board, d, read), d, name) \in Boards
      BY BoardOpsType
    <2>3. \A c \in Boards : [c EXCEPT !.plugged = @ \cup {d}] \in Boards
      BY DEF Boards
    <2> QED BY <2>1, <2>2, <2>3
  <1>4. CASE \E x \in {y \in board.live \X Dpmacs : CanConnect(y[1], y[2])} :
               b = Joined(PluggedIn(board, x[1]), x[1], x[2])
    <2>1. PICK x \in board.live \X Dpmacs : b = Joined(PluggedIn(board, x[1]), x[1], x[2])
      BY <1>4
    <2>2. x[1] \in Dpnis /\ x[2] \in Dpmacs
      BY <1>0
    <2>3. PluggedIn(board, x[1]) \in Boards
      BY <2>2, BoardOpsType
    <2> QED BY <2>1, <2>2, <2>3, BoardOpsType
  <1>5. CASE \E p \in Dpmacs : b = [board EXCEPT !.held = @ \cup {p}]
    BY <1>5 DEF Boards
  <1> QED BY <1>1, <1>2, <1>3, <1>4, <1>5 DEF Edited

\* The shortened journal is a journal.
LEMMA JournalFacts ==
  ASSUME journal \in Seq(JournalRows), journal # << >>
  PROVE  LastRow \in JournalRows /\ Rest \in Seq(JournalRows)
  <1>1. Len(journal) \in Nat \ {0} /\ \A i \in 1 .. Len(journal) : journal[i] \in JournalRows
    BY EmptySeq, LenProperties, ElementOfSeq
  <1>2. LastRow \in JournalRows
    BY <1>1 DEF LastRow
  <1>3. Rest \in Seq(JournalRows)
    BY <1>1, SubSeqProperties DEF Rest
  <1> QED BY <1>2, <1>3

LEMMA StepType == TypeInv /\ [Next]_vars => TypeInv'
  <1> SUFFICES ASSUME TypeInv, [Next]_vars PROVE TypeInv'
    OBVIOUS
  <1>0. /\ board \in Boards /\ outcome \in Outcomes /\ edits \in Nat /\ faults \in Nat
        /\ journal \in Seq(JournalRows)
    BY DEF TypeInv, TypeOK, Outcomes
  <1>1. CASE Start
    <2>1. TypeOK'
      BY <1>1 DEF Start, TypeInv, TypeOK, budgets
    <2>2. DueNamesObject'
      BY <1>1 DEF Start, TypeInv, DueNamesObject, Resolve
    <2>3. Staging'
      BY <1>1 DEF Start, TypeInv, Staging
    <2> QED BY <2>1, <2>2, <2>3 DEF TypeInv
  <1>2. CASE PassConverged \/ PassDeadline
    <2>1. /\ pc = "pass" /\ pc' = "prune" /\ outcome' \in {"converged", "deadline"}
          /\ UNCHANGED <<board, engine, before, budgets>>
      BY <1>2 DEF PassConverged, PassDeadline
    <2>2. TypeOK'
      BY <2>1 DEF TypeInv, TypeOK, engine, budgets
    <2>3. DueNamesObject'
      BY <2>1 DEF TypeInv, DueNamesObject, Resolve, engine
    <2>4. Staging'
      BY <2>1 DEF TypeInv, Staging, engine
    <2> QED BY <2>2, <2>3, <2>4 DEF TypeInv
  <1>3. CASE PassRebuildRefused \/ PassGateRefused
    <2>1. PICK how \in Outcomes : End(how)
      BY <1>3 DEF PassRebuildRefused, PassGateRefused, Outcomes
    <2> QED BY <1>0, <1>3, <2>1, EndType DEF PassRebuildRefused, PassGateRefused, budgets
  <1>4. CASE PassPlanned
    BY <1>4, PlannedType
  <1>5. ASSUME NEW k \in Keys, Do(k) PROVE TypeInv'
    BY <1>5, DoStepType
  <1>6. CASE VerbFails
    <2>1. PICK k \in Keys, kind \in Fallible :
            /\ Turn(k, kind) /\ board' \in Partial(k, kind)
            /\ IF MustFail(k, kind) THEN UNCHANGED faults ELSE Injected
      BY <1>6 DEF VerbFails
    <2>2. board' \in Boards
      BY <2>1, PartialType DEF Fallible
    <2>3. FailurePolicy /\ edits' \in Nat /\ faults' \in Nat
      BY <1>0, <1>6, <2>1 DEF VerbFails, Injected
    <2> QED BY <2>2, <2>3, PolicyType
  <1>7. CASE ReadFails
    <2>1. FailurePolicy /\ board' \in Boards /\ edits' \in Nat /\ faults' \in Nat
      BY <1>0, <1>7 DEF ReadFails, Injected
    <2> QED BY <2>1, PolicyType
  <1>8. CASE Killed
    <2>1. board' \in Boards
      BY <1>0, <1>8, PartialType DEF Killed
    <2>2. End("killed") /\ edits' \in Nat /\ faults' \in Nat
      BY <1>0, <1>8 DEF Killed, Injected
    <2> QED BY <2>1, <2>2, EndType DEF Outcomes
  <1>9. CASE PruneNothing \/ PruneRefused \/ SweepDone
    <2>1. PICK how \in Outcomes : End(how)
      BY <1>0, <1>9 DEF PruneNothing, PruneRefused, SweepDone, Outcomes
    <2> QED BY <1>0, <1>9, <2>1, EndType DEF PruneNothing, PruneRefused, SweepDone, budgets
  <1>10. CASE PrunePlanned
    <2>1. Candidates \subseteq Dpnis
      BY <1>0 DEF Candidates, Boards
    <2>2. TypeOK'
      BY <1>10, <2>1 DEF PrunePlanned, TypeInv, TypeOK, budgets
    <2>3. DueNamesObject'
      BY <1>10 DEF PrunePlanned, TypeInv, DueNamesObject, Resolve
    <2>4. Staging'
      BY <1>10 DEF PrunePlanned, TypeInv, Staging
    <2> QED BY <2>2, <2>3, <2>4 DEF TypeInv
  <1>11. CASE SweepNext
    <2>1. PICK d \in cands :
            /\ cands' = cands \ {d}
            /\ seen' = [seen EXCEPT ![Sweep] = d]
            /\ due' = [due EXCEPT ![Sweep] =
                         {"unbind", "destroy"} \cup If(board.peer[d] # None, {"disconnect"})]
      BY <1>11 DEF SweepNext
    <2>2. d \in Dpnis /\ due'[Sweep] \subseteq Teardown /\ seen'[Sweep] = d
      BY <2>1 DEF TypeInv, TypeOK, If, Teardown, Keys
    <2>3. \A k \in Ports : due'[k] = due[k] /\ seen'[k] = seen[k]
      BY <2>1, SweepIsNoPort DEF TypeInv, TypeOK, Keys
    <2>4. TypeOK'
      BY <1>11, <2>1, <2>2 DEF SweepNext, TypeInv, TypeOK, budgets, Teardown, Kinds
    <2>5. \A k \in Ports : Resolve(k)' = Resolve(k)
      BY <1>11, <2>3 DEF SweepNext, Resolve
    <2>6. created' = created
      BY <1>11 DEF SweepNext
    <2>7. DueNamesObject'
      BY <2>2, <2>3, <2>5, <2>6, BoardAssumption DEF TypeInv, DueNamesObject, Keys
    <2>8. Staging'
      BY <1>11, <2>3 DEF SweepNext, TypeInv, Staging
    <2> QED BY <2>4, <2>7, <2>8 DEF TypeInv
  <1>12. CASE UnwindRow \/ UnwindRowFails
    <2>1. journal # << >> /\ LastRow \in JournalRows /\ Rest \in Seq(JournalRows)
      BY <1>0, <1>12, JournalFacts DEF UnwindRow, UnwindRowFails
    <2>2. board' \in Boards
      BY <1>0, <1>12, <2>1, UndoneType DEF UnwindRow, UnwindRowFails
    <2>3. /\ UNCHANGED <<pc, opts, due, seen, created, cands, passes, outcome, before, edits>>
          /\ journal' = Rest /\ faults' \in Nat
          /\ unreversed' \in {unreversed, unreversed \cup {LastRow}}
      BY <1>0, <1>12 DEF UnwindRow, UnwindRowFails, budgets, Injected
    <2>4. TypeOK'
      BY <2>1, <2>2, <2>3 DEF TypeInv, TypeOK
    <2>5. DueNamesObject'
      BY <2>3 DEF TypeInv, DueNamesObject, Resolve
    <2>6. Staging'
      BY <2>3 DEF TypeInv, Staging
    <2> QED BY <2>4, <2>5, <2>6 DEF TypeInv
  <1>13. CASE UnwindDone
    BY <1>0, <1>13, EndType DEF UnwindDone, budgets, Outcomes
  <1>14. CASE (\E d \in Dpnis : Probe(d)) \/ OperatorEdits
    <2>1. board' \in Boards
      BY <1>0, <1>14, BoardOpsType, EditedType DEF Probe, OperatorEdits
    <2>2. UNCHANGED <<pc, engine, outcome, before>> /\ edits' \in Nat /\ faults' \in Nat
      BY <1>0, <1>14 DEF Probe, OperatorEdits, budgets
    <2>3. TypeOK'
      BY <2>1, <2>2 DEF TypeInv, TypeOK, engine
    <2>4. DueNamesObject'
      BY <2>2 DEF TypeInv, DueNamesObject, Resolve, engine
    <2>5. Staging'
      BY <2>2 DEF TypeInv, Staging, engine
    <2> QED BY <2>3, <2>4, <2>5 DEF TypeInv
  <1>15. CASE UNCHANGED vars
    <2>1. TypeOK'
      BY <1>15 DEF vars, TypeInv, TypeOK
    <2>2. DueNamesObject'
      BY <1>15 DEF vars, TypeInv, DueNamesObject, Resolve
    <2>3. Staging'
      BY <1>15 DEF vars, TypeInv, Staging
    <2> QED BY <2>1, <2>2, <2>3 DEF TypeInv
  <1> QED BY <1>1, <1>2, <1>3, <1>4, <1>5, <1>6, <1>7, <1>8, <1>9, <1>10, <1>11,
             <1>12, <1>13, <1>14, <1>15
          DEF Next, Tool, Pass, Prune, Unwind

\* Every variable keeps its domain: in particular no transition ever runs
\* against a dpni that was neither observed nor made by the run (engine.rs
\* resolve never comes out empty-handed).
THEOREM TypeCorrect == Spec => []TypeOK
  <1>1. Spec => []TypeInv
    BY InitType, StepType, PTL DEF Spec
  <1>2. TypeInv => TypeOK
    BY DEF TypeInv
  <1> QED BY <1>1, <1>2, PTL

-----------------------------------------------------------------------------
(* A driven wired port keeps a driver. *)

LEMMA RankFacts == \A k, j \in Keys : k \in Nat /\ (k # j => k < j \/ j < k)
  BY BoardAssumption, IntentAssumption DEF Keys, Sweep

\* While a port's turn is on, no other port has anything due that it began.
LEMMA TurnAlone ==
  ASSUME TypeInv, SeveredBeforeUnbind, NEW k \in Keys, NEW kind \in Kinds, Turn(k, kind),
         NEW q \in Keys, q # k, "unbind" \in due[q]
  PROVE  "disconnect" \in due[q]
  <1>1. ~ q < k
    BY DEF Turn
  <1>2. k < q
    BY <1>1, RankFacts
  <1>3. due[k] # {}
    BY DEF Turn
  <1> QED BY <1>2, <1>3 DEF SeveredBeforeUnbind

LEMMA SeverStep ==
  ASSUME TypeInv, SeveredBeforeUnbind, [Next]_vars
  PROVE  SeveredBeforeUnbind'
  <1>0. board \in Boards /\ due \in [Keys -> SUBSET Kinds] /\ seen \in [Keys -> Dpnis \cup {None}]
    BY DEF TypeInv, TypeOK
  <1>1. ASSUME due' = NothingDue PROVE SeveredBeforeUnbind'
    BY <1>1 DEF NothingDue, SeveredBeforeUnbind
  <1>2. ASSUME UNCHANGED <<due, seen>>, board'.peer = board.peer PROVE SeveredBeforeUnbind'
    BY <1>2 DEF SeveredBeforeUnbind
  <1>3. CASE Start \/ PassConverged \/ PassDeadline \/ PrunePlanned \/ UNCHANGED vars
    BY <1>2, <1>3 DEF Start, PassConverged, PassDeadline, PrunePlanned, engine, vars
  <1>4. CASE PassRebuildRefused \/ PassGateRefused \/ VerbFails \/ ReadFails \/ Killed
               \/ PruneNothing \/ PruneRefused \/ SweepDone \/ UnwindDone
    BY <1>1, <1>4 DEF PassRebuildRefused, PassGateRefused, VerbFails, ReadFails, Killed,
                      PruneNothing, PruneRefused, SweepDone, UnwindDone, FailurePolicy, End
  <1>5. CASE PassPlanned
    <2>1. \A k \in Ports : due'[k] = PlanPort(board, k, opts.prune, Fence)
      BY <1>5, SweepIsNoPort DEF PassPlanned, Planned, Keys
    <2>2. due'[Sweep] = {}
      BY <1>5 DEF PassPlanned, Planned, Keys
    <2>3. \A k \in Keys : "unbind" \in due'[k] => "disconnect" \in due'[k]
      BY <1>0, <2>1, <2>2, PlanFacts DEF Keys
    <2> QED BY <2>3 DEF SeveredBeforeUnbind
  <1>6. ASSUME NEW k \in Keys, NEW kind \in Kinds, Turn(k, kind), Advance(k, kind), seen' = seen,
               board'.peer = board.peer, kind # "disconnect"
        PROVE  SeveredBeforeUnbind'
    <2>1. due' = [due EXCEPT ![k] = @ \ {kind}]
      BY <1>6 DEF Advance
    <2>2. \A q \in Keys : due'[q] \subseteq due[q] /\ ("disconnect" \in due[q] => "disconnect" \in due'[q])
      BY <1>0, <1>6, <2>1
    <2> QED BY <1>6, <2>2 DEF SeveredBeforeUnbind
  <1>7. ASSUME NEW k \in Keys, Do(k) PROVE SeveredBeforeUnbind'
    <2> USE DEF Kinds
    <2>1. CASE DoCreate(k) \/ DoSetMac(k) \/ DoBind(k) \/ DoUnbind(k) \/ DoSetLabel(k)
      <3>1. /\ seen' = seen /\ board'.peer = board.peer
            /\ \E kind \in Kinds : Turn(k, kind) /\ Advance(k, kind) /\ kind # "disconnect"
        BY <1>0, <2>1
        DEF DoCreate, DoSetMac, DoBind, DoUnbind, DoSetLabel, Unchanged, Boards,
            Stamped, Minted, Addressed, Nudged, Unbound
      <3> QED BY <1>6, <3>1
    <2>2. CASE DoConnect(k) \/ DoDestroy(k)
      <3> DEFINE kind == IF DoConnect(k) THEN "connect" ELSE "destroy"
      <3>1. /\ Turn(k, kind) /\ Advance(k, kind) /\ seen' = seen
            /\ "unbind" \notin due[k]
        BY <2>2 DEF DoConnect, DoDestroy, Unchanged, Turn, Rank
      <3>2. due' = [due EXCEPT ![k] = @ \ {kind}]
        BY <3>1 DEF Advance
      <3>3. \A q \in Keys : "unbind" \in due'[q] => q # k /\ "unbind" \in due[q] /\ due'[q] = due[q]
        BY <1>0, <3>1, <3>2
      <3>4. \A q \in Keys : "unbind" \in due'[q] => "disconnect" \in due'[q]
        BY <3>1, <3>3, TurnAlone
      <3> QED BY <3>4 DEF SeveredBeforeUnbind
    <2>3. CASE DoDisconnect(k)
      <3>1. Turn(k, "disconnect") /\ Advance(k, "disconnect") /\ seen' = seen
        BY <2>3 DEF DoDisconnect, Unchanged
      <3>2. due' = [due EXCEPT ![k] = @ \ {"disconnect"}]
        BY <3>1 DEF Advance
      <3>3. \A q \in Keys \ {k} : due'[q] = due[q]
        BY <1>0, <3>2
      <3>4. \A q \in Keys \ {k} : "unbind" \in due'[q] => "disconnect" \in due'[q]
        BY <3>1, <3>3, TurnAlone
      <3>5. board'.peer[seen'[k]] = None
        BY <1>0, <2>3, <3>1, TurnFacts DEF DoDisconnect, Severed, Boards, Teardown
      <3>6. \A q \in Keys : q < k => due'[q] = {}
        BY <3>1, <3>3, RankFacts DEF Turn
      <3> QED BY <3>4, <3>5, <3>6 DEF SeveredBeforeUnbind
    <2> QED BY <1>7, <2>1, <2>2, <2>3 DEF Do
  <1>8. CASE SweepNext
    <2>1. PICK d \in cands :
            /\ seen' = [seen EXCEPT ![Sweep] = d]
            /\ due' = [due EXCEPT ![Sweep] =
                         {"unbind", "destroy"} \cup If(board.peer[d] # None, {"disconnect"})]
      BY <1>8 DEF SweepNext
    <2>2. \A k \in Ports : due'[k] = {}
      BY <1>0, <1>8, <2>1, SweepIsNoPort DEF SweepNext, TypeInv, Staging, Keys
    <2>3. "disconnect" \notin due'[Sweep] => board.peer[d] = None
      BY <1>0, <2>1 DEF Keys, If
    <2>4. seen'[Sweep] = d /\ board' = board
      BY <1>0, <1>8, <2>1 DEF Keys, SweepNext
    <2>5. \A q \in Keys : ~ q < Sweep
      BY RankFacts DEF Sweep
    <2> QED BY <2>2, <2>3, <2>4, <2>5 DEF SeveredBeforeUnbind, Keys
  <1>9. CASE UnwindRow \/ UnwindRowFails \/ OperatorEdits
    <2>1. pc \in {"unwind", "idle"} /\ due' = due
      BY <1>9 DEF UnwindRow, UnwindRowFails, OperatorEdits, engine
    <2>2. \A k \in Keys : due'[k] = {}
      BY <2>1 DEF TypeInv, Staging, Keys
    <2> QED BY <2>2 DEF SeveredBeforeUnbind
  <1>10. CASE \E d \in Dpnis : Probe(d)
    BY <1>0, <1>2, <1>10 DEF Probe, Probed, Boards, engine
  <1> QED BY <1>3, <1>4, <1>5, <1>7, <1>8, <1>9, <1>10
          DEF Next, Tool, Pass, Prune, Unwind

Same(b) == b.peer = board.peer /\ b.bound = board.bound /\ b.macdrv = board.macdrv

\* What a verb that fails may leave: the objects and edges that stood, one
\* object more, the edge a connect made, or one object fewer.
LEMMA PartialCases ==
  ASSUME board \in Boards, NEW k, NEW kind, NEW b \in Partial(k, kind)
  PROVE  \/ Same(b) /\ b.live = board.live
         \/ Same(b) /\ \E d : b.live = board.live \cup {d}
         \/ /\ kind = "connect" /\ CanConnect(Resolve(k), k)
            /\ b = Joined(PluggedIn(board, Resolve(k)), Resolve(k), k)
         \/ kind = "destroy" /\ seen[k] \notin board.bound /\ b = Destroyed(board, seen[k])
  <1>1. ASSUME NEW d, NEW read, b = Minted(board, d, read)
        PROVE  Same(b) /\ \E e : b.live = board.live \cup {e}
    BY <1>1 DEF Minted, Boards, Same
  <1>m. ASSUME NEW d, NEW read, b = Stamped(Minted(board, d, read), d, k)
        PROVE  Same(b) /\ \E e : b.live = board.live \cup {e}
    BY <1>m DEF Stamped, Minted, Boards, Same
  <1>2. ASSUME NEW d, NEW name, b = Stamped(board, d, name)
        PROVE  Same(b) /\ b.live = board.live
    BY <1>2 DEF Stamped, Boards, Same
  <1>3. ASSUME NEW d, b = Addressed(board, d)
        PROVE  Same(b) /\ b.live = board.live
    BY <1>3 DEF Addressed, Boards, Same
  <1>4. ASSUME NEW d, b = PluggedIn(board, d)
        PROVE  Same(b) /\ b.live = board.live
    BY <1>4 DEF PluggedIn, Boards, Same
  <1>5. CASE b = board
    BY <1>5 DEF Same
  <1>6. \/ b = board
        \/ \E d, read : b = Minted(board, d, read)
        \/ \E d, read : b = Stamped(Minted(board, d, read), d, k)
        \/ b = Addressed(board, Resolve(k))
        \/ b = PluggedIn(board, Resolve(k))
        \/ /\ kind = "connect" /\ CanConnect(Resolve(k), k)
           /\ b = Joined(PluggedIn(board, Resolve(k)), Resolve(k), k)
        \/ b = Stamped(board, seen[k], k)
        \/ kind = "destroy" /\ seen[k] \notin board.bound /\ b = Destroyed(board, seen[k])
    BY DEF Partial
  <1> QED BY <1>1, <1>m, <1>2, <1>3, <1>4, <1>5, <1>6

\* Whatever a failed or killed verb leaves, no driven port lost its driver.
LEMMA PartialKeepsDriver ==
  ASSUME TypeInv, NEW k \in Keys, NEW kind \in Kinds, Turn(k, kind),
         NEW b \in Partial(k, kind), NEW p \in Phy, Driven(board, p)
  PROVE  Driven(b, p)
  <1>0. board \in Boards
    BY DEF TypeInv, TypeOK
  <1>1. CASE Same(b)
    BY <1>1 DEF Driven, Same
  <1>2. CASE kind = "connect" /\ CanConnect(Resolve(k), k)
             /\ b = Joined(PluggedIn(board, Resolve(k)), Resolve(k), k)
    <2>1. Resolve(k) \in Dpnis
      BY <1>2, TurnFacts
    <2>2. /\ b.peer = [board.peer EXCEPT ![Resolve(k)] = k]
          /\ b.bound = board.bound
          /\ b.macdrv = IF Resolve(k) \in board.bound THEN board.macdrv \ {k} ELSE board.macdrv
      BY <1>0, <1>2, <2>1 DEF Joined, PluggedIn, Boards
    <2>3. board.peer[Resolve(k)] # p
      BY <1>2, BoardAssumption DEF CanConnect
    <2> QED BY <1>0, <2>1, <2>2, <2>3 DEF Driven, Boards
  <1>3. CASE kind = "destroy" /\ seen[k] \notin board.bound /\ b = Destroyed(board, seen[k])
    <2>1. /\ b.peer = [board.peer EXCEPT ![seen[k]] = None]
          /\ b.bound = board.bound /\ b.macdrv = board.macdrv
      BY <1>0, <1>3 DEF Destroyed, Boards
    <2> QED BY <1>0, <1>3, <2>1 DEF Driven, Boards
  <1> QED BY <1>0, <1>1, <1>2, <1>3, PartialCases

LEMMA DriverStep ==
  ASSUME TypeInv, SeveredBeforeUnbind, [Next]_vars, Applying,
         NEW p \in Phy, Driven(board, p)
  PROVE  Driven(board', p)
  <1>0. board \in Boards
    BY DEF TypeInv, TypeOK
  <1>1. CASE board' = board
    BY <1>1
  <1>2. CASE VerbFails \/ Killed
    BY <1>1, <1>2, PartialKeepsDriver DEF VerbFails, Killed, Fallible
  <1>3. ASSUME NEW k \in Keys, Do(k) PROVE Driven(board', p)
    <2> USE DEF Kinds
    <2>1. CASE DoCreate(k) \/ DoSetMac(k) \/ DoBind(k) \/ DoSetLabel(k)
      <3>1. board'.macdrv = board.macdrv /\ board'.bound = board.bound /\ board'.peer = board.peer
        BY <1>0, <2>1 DEF DoCreate, DoSetMac, DoBind, DoSetLabel, Boards, Stamped, Minted,
                          Addressed, Nudged
      <3> QED BY <3>1 DEF Driven
    <2>2. CASE DoConnect(k)
      <3>1. Turn(k, "connect") /\ CanConnect(Resolve(k), k)
            /\ board' = Joined(PluggedIn(board, Resolve(k)), Resolve(k), k)
        BY <2>2 DEF DoConnect
      <3>2. board' \in Partial(k, "connect")
        BY <3>1 DEF Partial
      <3> QED BY <3>1, <3>2, PartialKeepsDriver
    <2>3. CASE DoDestroy(k)
      <3>1. Turn(k, "destroy") /\ seen[k] \notin board.bound /\ board' = Destroyed(board, seen[k])
        BY <2>3 DEF DoDestroy
      <3>2. board' \in Partial(k, "destroy")
        BY <3>1 DEF Partial
      <3> QED BY <3>1, <3>2, PartialKeepsDriver
    <2>4. CASE DoDisconnect(k)
      <3> DEFINE d == seen[k]
      <3>1. d \in Dpnis
        BY <2>4, TurnFacts DEF DoDisconnect, Teardown
      <3>2. /\ board'.peer = [board.peer EXCEPT ![d] = None]
            /\ board'.bound = board.bound
            /\ board'.macdrv = IF d \in board.bound
                               THEN board.macdrv \cup ({board.peer[d]} \cap Phy)
                               ELSE board.macdrv
        BY <1>0, <2>4, <3>1 DEF DoDisconnect, Severed, Boards
      <3> QED BY <1>0, <3>1, <3>2 DEF Driven, Boards
    <2>5. CASE DoUnbind(k)
      <3> DEFINE d == seen[k]
      <3>1. Turn(k, "unbind") /\ d \in Dpnis
        BY <2>5, TurnFacts DEF DoUnbind, Teardown
      <3>2. "disconnect" \notin due[k]
        BY <3>1 DEF Turn, Rank
      <3>3. board.peer[d] # p
        BY <3>1, <3>2, BoardAssumption DEF SeveredBeforeUnbind, Turn
      <3>4. board'.peer = board.peer /\ board'.bound = board.bound \ {d} /\ board'.macdrv = board.macdrv
        BY <1>0, <2>5 DEF DoUnbind, Unbound, Boards
      <3> QED BY <3>3, <3>4 DEF Driven
    <2> QED BY <1>3, <2>1, <2>2, <2>3, <2>4, <2>5 DEF Do
  <1>4. ASSUME NEW d \in Dpnis, Probe(d) PROVE Driven(board', p)
    <2>1. /\ board'.peer = board.peer /\ board'.bound = board.bound \cup {d}
          /\ board'.macdrv = board.macdrv \ {board.peer[d]}
      BY <1>0, <1>4 DEF Probe, Probed, Boards
    <2> QED BY <2>1 DEF Driven
  <1>5. CASE Start \/ Pass \/ Prune \/ Unwind \/ ReadFails \/ OperatorEdits \/ UNCHANGED vars
    <2>1. board' = board
      BY <1>5 DEF Applying, Start, Pass, PassConverged, PassRebuildRefused, PassGateRefused,
                  PassDeadline, PassPlanned, Prune, PruneNothing, PruneRefused, PrunePlanned,
                  SweepNext, SweepDone, Unwind, UnwindRow, UnwindRowFails, UnwindDone,
                  ReadFails, OperatorEdits, vars
    <2> QED BY <1>1, <2>1
  <1> QED BY <1>2, <1>3, <1>4, <1>5 DEF Next, Tool

\* A pass or a sweep, finished or cut short between any two spawns, never
\* leaves a wired port without the driver that held it: the planner severs the
\* edge before it unbinds (plan_present, release_child_bindings, prune_root_dpnis).
THEOREM DriverKept == Spec => PortKeepsDriver
  <1>1. Init => TypeInv /\ SeveredBeforeUnbind
    BY InitType DEF Init, SeveredBeforeUnbind, NothingDue
  <1>2. TypeInv /\ SeveredBeforeUnbind /\ [Next]_vars => (TypeInv /\ SeveredBeforeUnbind)'
    BY StepType, SeverStep
  <1>3. TypeInv /\ SeveredBeforeUnbind /\ [Next]_vars =>
          [Applying => \A p \in Phy : Driven(board, p) => Driven(board', p)]_vars
    BY DriverStep
  <1> QED BY <1>1, <1>2, <1>3, PTL DEF Spec, PortKeepsDriver

-----------------------------------------------------------------------------
(* A run never destroys what it made. *)

LEMMA RunCreatedFacts ==
  ASSUME TypeInv, NEW d
  PROVE  d \in RunCreated <=> d # None /\ \E k \in Ports : created[k] = d
  BY DEF RunCreated

\* An object that does not exist has no edge.
Unwired(b) == \A d \in Dpnis \ b.live : b.peer[d] = None

LEMMA UnwiredOps ==
  ASSUME NEW b \in Boards, NEW d \in Dpnis, Unwired(b)
  PROVE  /\ \A read \in CfgReads : Unwired(Minted(b, d, read))
         /\ \A name \in Dpmacs \cup {None} : Unwired(Stamped(b, d, name))
         /\ Unwired(PluggedIn(b, d))
         /\ \A p \in Dpmacs : d \in b.live => Unwired(Joined(b, d, p))
         /\ Unwired(Severed(b, d))
         /\ Unwired(Unbound(b, d))
         /\ Unwired(Nudged(b, d))
         /\ Unwired(Addressed(b, d))
         /\ Unwired(Destroyed(b, d))
         /\ Unwired(Probed(b, d))
  <1>1. \A read \in CfgReads : Unwired(Minted(b, d, read))
    BY DEF Minted, Boards, Unwired
  <1>2. \A name \in Dpmacs \cup {None} : Unwired(Stamped(b, d, name))
    BY DEF Stamped, Boards, Unwired
  <1>3. Unwired(PluggedIn(b, d))
    BY DEF PluggedIn, Boards, Unwired
  <1>4. \A p \in Dpmacs : d \in b.live => Unwired(Joined(b, d, p))
    BY DEF Joined, Boards, Unwired
  <1>5. Unwired(Severed(b, d))
    BY DEF Severed, Boards, Unwired
  <1>6. Unwired(Unbound(b, d)) /\ Unwired(Nudged(b, d)) /\ Unwired(Addressed(b, d))
    BY DEF Unbound, Nudged, Addressed, Boards, Unwired
  <1>7. Unwired(Destroyed(b, d))
    BY DEF Destroyed, Boards, Unwired
  <1>8. Unwired(Probed(b, d))
    BY DEF Probed, Boards, Unwired
  <1> QED BY <1>1, <1>2, <1>3, <1>4, <1>5, <1>6, <1>7, <1>8

\* The dpni a connect wires is one the run made, and it exists.
LEMMA ConnectTarget ==
  ASSUME TypeInv, MadeStands, NEW k \in Keys, Turn(k, "connect")
  PROVE  /\ k \in Ports /\ Resolve(k) \in Dpnis /\ Resolve(k) \in board.live
         /\ Resolve(k) = created[k] /\ created[k] # None
  <1>1. k \in Ports /\ Resolve(k) \in Dpnis /\ created[k] # None /\ Resolve(k) = created[k]
    BY TurnFacts DEF Kinds, Teardown
  <1>2. Running
    BY DEF Turn, Applying, Running
  <1> QED BY <1>1, <1>2 DEF MadeStands

LEMMA PartialUnwired ==
  ASSUME TypeInv, MadeStands, Unwired(board), NEW k \in Keys, NEW kind \in Kinds, Turn(k, kind),
         NEW b \in Partial(k, kind)
  PROVE  Unwired(b)
  <1> USE DEF Kinds, Teardown
  <1>0. board \in Boards
    BY DEF TypeInv, TypeOK
  <1>1. CASE kind = "create"
    <2>1. ASSUME NEW d \in Dpnis \ board.live, NEW read \in ReadBacks
          PROVE  Unwired(Minted(board, d, read)) /\ Unwired(Stamped(Minted(board, d, read), d, k))
      BY <1>0, <1>1, <2>1, TurnFacts, SweepIsNoPort, BoardOpsType, UnwiredOps, RunAssumption
    <2> QED BY <1>0, <1>1, <2>1 DEF Partial
  <1>2. CASE kind = "setmac"
    BY <1>0, <1>2, TurnFacts, UnwiredOps DEF Partial
  <1>3. CASE kind = "connect"
    <2>1. Resolve(k) \in Dpnis /\ Resolve(k) \in board.live /\ k \in Dpmacs
      BY <1>3, ConnectTarget, SweepIsNoPort
    <2>2. PluggedIn(board, Resolve(k)) \in Boards /\ Unwired(PluggedIn(board, Resolve(k)))
      BY <1>0, <2>1, BoardOpsType, UnwiredOps
    <2>3. Resolve(k) \in PluggedIn(board, Resolve(k)).live
      BY <1>0, <2>1 DEF PluggedIn, Boards
    <2>4. Unwired(Joined(PluggedIn(board, Resolve(k)), Resolve(k), k))
      BY <2>1, <2>2, <2>3, UnwiredOps
    <2> QED BY <1>3, <2>2, <2>4 DEF Partial
  <1>4. CASE kind = "setlabel"
    <2>1. k \in Dpmacs /\ seen[k] \in Dpnis
      BY <1>4, TurnFacts, SweepIsNoPort
    <2> QED BY <1>0, <1>4, <2>1, UnwiredOps DEF Partial
  <1>5. CASE kind = "destroy"
    BY <1>0, <1>5, TurnFacts, UnwiredOps DEF Partial
  <1>6. CASE kind \notin {"create", "setmac", "connect", "setlabel", "destroy"}
    BY <1>6 DEF Partial
  <1> QED BY <1>1, <1>2, <1>3, <1>4, <1>5, <1>6

LEMMA EditedUnwired ==
  ASSUME board \in Boards, Unwired(board), NEW b \in Edited
  PROVE  Unwired(b)
  <1>0. board.live \subseteq Dpnis
    BY DEF Boards
  <1>1. ASSUME NEW d \in board.live, b = Destroyed(Unbound(board, d), d) PROVE Unwired(b)
    BY <1>0, <1>1, BoardOpsType, UnwiredOps
  <1>2. ASSUME NEW d \in board.live, NEW name \in Dpmacs \cup {None}, b = Stamped(board, d, name)
        PROVE  Unwired(b)
    BY <1>0, <1>2, UnwiredOps
  <1>3. ASSUME NEW d \in Dpnis \ board.live, NEW read \in CfgReads, NEW name \in Dpmacs \cup {None},
               b = [Stamped(Minted(board, d, read), d, name) EXCEPT !.plugged = @ \cup {d}]
        PROVE  Unwired(b)
    <2>1. /\ Stamped(Minted(board, d, read), d, name) \in Boards
          /\ Unwired(Stamped(Minted(board, d, read), d, name))
      BY BoardOpsType, UnwiredOps
    <2>2. \A c \in Boards : Unwired(c) => Unwired([c EXCEPT !.plugged = @ \cup {d}])
      BY DEF Boards, Unwired
    <2> QED BY <1>3, <2>1, <2>2
  <1>4. ASSUME NEW x \in board.live \X Dpmacs, b = Joined(PluggedIn(board, x[1]), x[1], x[2])
        PROVE  Unwired(b)
    <2>1. x[1] \in Dpnis /\ x[1] \in board.live /\ x[2] \in Dpmacs
      BY <1>0
    <2>2. PluggedIn(board, x[1]) \in Boards /\ Unwired(PluggedIn(board, x[1]))
      BY <2>1, BoardOpsType, UnwiredOps
    <2>3. x[1] \in PluggedIn(board, x[1]).live
      BY <2>1 DEF PluggedIn, Boards
    <2> QED BY <1>4, <2>1, <2>2, <2>3, UnwiredOps
  <1>5. ASSUME NEW p \in Dpmacs, b = [board EXCEPT !.held = @ \cup {p}] PROVE Unwired(b)
    BY <1>5 DEF Boards, Unwired
  <1> QED BY <1>1, <1>2, <1>3, <1>4, <1>5 DEF Edited

LEMMA UnwiredStep ==
  ASSUME TypeInv, MadeStands, Unwired(board), [Next]_vars
  PROVE  Unwired(board')
  <1>0. board \in Boards /\ journal \in Seq(JournalRows)
    BY DEF TypeInv, TypeOK
  <1>1. CASE board' = board
    BY <1>1 DEF Unwired
  <1>2. CASE VerbFails \/ Killed
    BY <1>1, <1>2, PartialUnwired DEF VerbFails, Killed, Fallible
  <1>3. ASSUME NEW k \in Keys, Do(k) PROVE Unwired(board')
    <2> USE DEF Kinds, Teardown
    <2>1. CASE DoCreate(k)
      <3>1. PICK d \in Dpnis \ board.live, read \in ReadBacks :
              board' = Stamped(Minted(board, d, read), d, k)
        BY <2>1 DEF DoCreate
      <3>2. k \in Dpmacs
        BY <2>1, TurnFacts, SweepIsNoPort DEF DoCreate
      <3>3. Minted(board, d, read) \in Boards /\ Unwired(Minted(board, d, read))
        BY <1>0, <3>1, BoardOpsType, UnwiredOps, RunAssumption
      <3> QED BY <3>1, <3>2, <3>3, UnwiredOps
    <2>2. CASE DoSetMac(k)
      BY <1>0, <2>2, TurnFacts, UnwiredOps DEF DoSetMac
    <2>3. CASE DoConnect(k)
      <3>1. Turn(k, "connect") /\ board' \in Partial(k, "connect")
        BY <2>3 DEF DoConnect, Partial
      <3> QED BY <3>1, PartialUnwired
    <2>4. CASE DoBind(k)
      BY <1>0, <2>4, TurnFacts, UnwiredOps DEF DoBind
    <2>5. CASE DoDisconnect(k)
      BY <1>0, <2>5, TurnFacts, UnwiredOps DEF DoDisconnect
    <2>6. CASE DoUnbind(k)
      BY <1>0, <2>6, TurnFacts, UnwiredOps DEF DoUnbind
    <2>7. CASE DoDestroy(k)
      BY <1>0, <2>7, TurnFacts, UnwiredOps DEF DoDestroy
    <2>8. CASE DoSetLabel(k)
      <3>1. k \in Dpmacs /\ seen[k] \in Dpnis
        BY <2>8, TurnFacts, SweepIsNoPort DEF DoSetLabel
      <3> QED BY <1>0, <2>8, <3>1, UnwiredOps DEF DoSetLabel
    <2> QED BY <1>3, <2>1, <2>2, <2>3, <2>4, <2>5, <2>6, <2>7, <2>8 DEF Do
  <1>4. CASE UnwindRow \/ UnwindRowFails
    <2>1. journal # << >>
      BY <1>4 DEF UnwindRow, UnwindRowFails
    <2>2. LastRow \in JournalRows /\ LastRow.dpni \in Dpnis
      BY <1>0, <2>1, JournalFacts DEF JournalRows
    <2>3. /\ Unwired(Unbound(board, LastRow.dpni)) /\ Unwired(Severed(board, LastRow.dpni))
          /\ Unbound(board, LastRow.dpni) \in Boards
      BY <1>0, <2>2, BoardOpsType, UnwiredOps
    <2>4. Unwired(Destroyed(Unbound(board, LastRow.dpni), LastRow.dpni))
      BY <2>2, <2>3, UnwiredOps
    <2>5. Unwired(Undone(LastRow))
      BY <2>2, <2>3, <2>4 DEF Undone, JournalRows
    <2>6. board' \in {board, Unbound(board, LastRow.dpni), Undone(LastRow)}
      BY <1>4 DEF UnwindRow, UnwindRowFails, HalfUndone
    <2> QED BY <2>3, <2>5, <2>6
  <1>5. CASE OperatorEdits
    BY <1>0, <1>5, EditedUnwired DEF OperatorEdits
  <1>6. ASSUME NEW d \in Dpnis, Probe(d) PROVE Unwired(board')
    BY <1>0, <1>6, UnwiredOps DEF Probe
  <1>7. CASE Start \/ Pass \/ Prune \/ UnwindDone \/ ReadFails \/ UNCHANGED vars
    <2>1. board' = board
      BY <1>7 DEF Start, Pass, PassConverged, PassRebuildRefused, PassGateRefused,
                  PassDeadline, PassPlanned, Prune, PruneNothing, PruneRefused, PrunePlanned,
                  SweepNext, SweepDone, UnwindDone, ReadFails, vars
    <2> QED BY <1>1, <2>1
  <1> QED BY <1>2, <1>3, <1>4, <1>5, <1>6, <1>7 DEF Next, Tool, Unwind

\* Between runs nothing of the last one is remembered.
IdleClean == pc = "idle" => created = NoneCreated /\ seen = NoneSeen

LEMMA IdleStep ==
  ASSUME IdleClean, [Next]_vars
  PROVE  IdleClean'
  <1>1. CASE End("rebuildRefused") \/ End("gateRefused") \/ End("aborted") \/ End("killed")
               \/ End("rolledBack") \/ End(outcome)
    BY <1>1 DEF End, IdleClean
  <1>2. CASE pc' # "idle"
    BY <1>2 DEF IdleClean
  <1>3. CASE OperatorEdits \/ (\E d \in Dpnis : Probe(d)) \/ UNCHANGED vars
    BY <1>3 DEF OperatorEdits, Probe, engine, vars, IdleClean
  <1>4. CASE VerbFails \/ ReadFails
    BY <1>1, <1>2, <1>4 DEF VerbFails, ReadFails, FailurePolicy
  <1>5. ASSUME NEW k \in Keys, Do(k) PROVE pc' # "idle"
    BY <1>5 DEF Do, DoCreate, DoSetMac, DoConnect, DoBind, DoDisconnect, DoUnbind, DoDestroy,
                DoSetLabel, Turn, Advance, Applying
  <1>6. CASE Start \/ Pass \/ Prune \/ Unwind
    BY <1>1, <1>2, <1>6
    DEF Start, Pass, PassConverged, PassRebuildRefused, PassGateRefused, PassDeadline,
        PassPlanned, Prune, PruneNothing, PruneRefused, PrunePlanned, SweepNext, SweepDone,
        Unwind, UnwindRow, UnwindRowFails, UnwindDone
  <1>7. CASE Killed
    BY <1>1, <1>7 DEF Killed
  <1> QED BY <1>2, <1>3, <1>4, <1>5, <1>6, <1>7 DEF Next, Tool

\* Nothing is held for a run that is over or unwinding.
LEMMA MadeAtEnd ==
  ASSUME pc' \in {"idle", "unwind"}
  PROVE  MadeStands' /\ MadeSpared'
  BY DEF MadeStands, MadeSpared, Running

\* The bookkeeping unchanged, what was made stands while the board keeps it.
LEMMA MadeFrame ==
  ASSUME TypeInv, MadeStands, MadeSpared, Running,
         UNCHANGED <<created, seen, cands>>,
         \A k \in Keys : due'[k] \subseteq due[k],
         \A k \in Ports : created[k] # None =>
            /\ created[k] \in board'.live
            /\ board'.label[created[k]] \in Ports
            /\ board'.peer[created[k]] \in {None, k},
         \A k \in Ports : "destroy" \in due'[k] => seen[k] \in board'.live
  PROVE  MadeStands' /\ MadeSpared'
  <1>1. MadeStands'
    BY DEF MadeStands
  <1>2. RunCreated' = RunCreated
    BY DEF RunCreated
  <1>3. MadeSpared'
    BY <1>2 DEF MadeSpared, Keys
  <1> QED BY <1>1, <1>3

LEMMA MadeStep ==
  ASSUME TypeInv, MadeStands, MadeSpared, Unwired(board), IdleClean, [Next]_vars
  PROVE  MadeStands' /\ MadeSpared'
  <1>0. /\ board \in Boards /\ due \in [Keys -> SUBSET Kinds]
        /\ seen \in [Keys -> Dpnis \cup {None}] /\ created \in [Ports -> Dpnis \cup {None}]
    BY DEF TypeInv, TypeOK
  <1>1. CASE \/ PassRebuildRefused \/ PassGateRefused \/ VerbFails \/ ReadFails \/ Killed
             \/ PruneNothing \/ PruneRefused \/ SweepDone \/ Unwind \/ OperatorEdits
    <2>1. pc' \in {"idle", "unwind"}
      BY <1>1 DEF PassRebuildRefused, PassGateRefused, VerbFails, ReadFails, Killed,
                  PruneNothing, PruneRefused, SweepDone, Unwind, UnwindRow, UnwindRowFails,
                  UnwindDone, OperatorEdits, FailurePolicy, End
    <2> QED BY <2>1, MadeAtEnd
  <1>2. CASE PassConverged \/ PassDeadline
    <2>1. Running /\ board' = board /\ due' = due /\ UNCHANGED <<created, seen, cands>>
      BY <1>2 DEF PassConverged, PassDeadline, engine, Running
    <2>2. MadeStands' /\ MadeSpared'
      BY <2>1 DEF MadeStands, MadeSpared, RunCreated, Running
    <2> QED BY <2>2
  <1>3. CASE PassPlanned
    <2>0. Running /\ board' = board /\ created' = created /\ cands' = cands
      BY <1>3 DEF PassPlanned, Running
    <2>1. \A k \in Ports : /\ due'[k] = PlanPort(board, k, opts.prune, RunCreated)
                           /\ seen'[k] = ConnectedTo(board, k)
      BY <1>3, SweepIsNoPort DEF PassPlanned, Planned, Keys, Fence
    <2>2. due'[Sweep] = {}
      BY <1>3 DEF PassPlanned, Planned, Keys
    <2>3. \A k \in Ports : seen'[k] # None => seen'[k] \in board.live /\ board.peer[seen'[k]] = k
      BY <1>0, <2>1, ConnectedToFacts, SweepIsNoPort
    <2>4. \A k \in Ports : "destroy" \in due'[k] =>
            seen'[k] # None /\ (k \notin Absent => seen'[k] \notin RunCreated)
      BY <1>0, <2>1, PlanFacts DEF Teardown
    <2>5. \A k \in Ports \cap Absent : seen'[k] # None => seen'[k] \notin RunCreated
      BY <2>0, <2>3, RunCreatedFacts, BoardAssumption, SweepIsNoPort DEF MadeStands
    <2>6. MadeStands'
      BY <2>0 DEF MadeStands, Running
    <2>7. RunCreated' = RunCreated
      BY <2>0 DEF RunCreated
    <2>8. MadeSpared'
      BY <2>0, <2>2, <2>3, <2>4, <2>5, <2>7 DEF MadeSpared, Running, Keys
    <2> QED BY <2>6, <2>8
  <1>4. CASE PrunePlanned
    <2>1. /\ Running /\ board' = board /\ UNCHANGED <<created, seen, due>>
          /\ cands' = Candidates
      BY <1>4 DEF PrunePlanned, Running
    <2>2. cands' \cap RunCreated = {}
      BY <2>1, RunCreatedFacts DEF Candidates, MadeStands
    <2> QED BY <2>1, <2>2 DEF MadeStands, MadeSpared, RunCreated, Running
  <1>5. CASE SweepNext
    <2>1. PICK d \in cands :
            /\ cands' = cands \ {d}
            /\ seen' = [seen EXCEPT ![Sweep] = d]
            /\ due' = [due EXCEPT ![Sweep] =
                         {"unbind", "destroy"} \cup If(board.peer[d] # None, {"disconnect"})]
      BY <1>5 DEF SweepNext
    <2>2. Running /\ board' = board /\ created' = created /\ RunCreated' = RunCreated
      BY <1>5 DEF SweepNext, Running, RunCreated
    <2>3. seen'[Sweep] = d /\ \A k \in Ports : due'[k] = due[k] /\ seen'[k] = seen[k]
      BY <1>0, <2>1, SweepIsNoPort DEF Keys
    <2>4. d \notin RunCreated
      BY <2>2 DEF MadeSpared
    <2>5. MadeStands'
      BY <2>2 DEF MadeStands
    <2>6. MadeSpared'
      BY <2>1, <2>2, <2>3, <2>4 DEF MadeSpared, Keys
    <2> QED BY <2>5, <2>6
  <1>6. ASSUME NEW k \in Keys, Do(k) PROVE MadeStands' /\ MadeSpared'
    <2> USE DEF Kinds, Teardown
    <2>0. Running /\ Unchanged
      BY <1>6 DEF Do, DoCreate, DoSetMac, DoConnect, DoBind, DoDisconnect, DoUnbind,
                  DoDestroy, DoSetLabel, Turn, Applying, Running
    <2>1. seen' = seen /\ cands' = cands
      BY <2>0 DEF Unchanged
    <2>2. \E kind \in Kinds : Advance(k, kind)
      BY <1>6 DEF Do, DoCreate, DoSetMac, DoConnect, DoBind, DoDisconnect, DoUnbind,
                  DoDestroy, DoSetLabel
    <2>3. \A q \in Keys : due'[q] \subseteq due[q]
      BY <1>0, <2>2 DEF Advance
    <2>4. CASE DoCreate(k)
      <3>1. PICK d \in Dpnis \ board.live, read \in ReadBacks :
              /\ board' = Stamped(Minted(board, d, read), d, k)
              /\ created' = [created EXCEPT ![k] = d]
        BY <2>4 DEF DoCreate
      <3>2. k \in Ports /\ k \notin Absent /\ pc = "apply" /\ d # None
        BY <2>4, TurnFacts, BoardAssumption DEF DoCreate
      <3>3. /\ board'.live = board.live \cup {d}
            /\ board'.label = [board.label EXCEPT ![d] = k]
            /\ board'.peer = board.peer /\ board.peer[d] = None
        BY <1>0, <3>1 DEF Stamped, Minted, Boards, Unwired
      <3>4. \A q \in Ports : created[q] # d
        BY <2>0, <3>1, <3>2 DEF MadeStands
      <3>5. \A q \in Ports : created'[q] = IF q = k THEN d ELSE created[q]
        BY <1>0, <3>1
      <3>6. MadeStands'
        <4>1. \A q \in Ports : created'[q] # None =>
                /\ q \notin Absent
                /\ created'[q] \in board'.live
                /\ board'.label[created'[q]] \in Ports
                /\ board'.peer[created'[q]] \in {None, q}
          BY <1>0, <2>0, <3>2, <3>3, <3>4, <3>5 DEF MadeStands, Boards
        <4>2. \A q, r \in Ports : q # r /\ created'[q] # None => created'[q] # created'[r]
          BY <2>0, <3>2, <3>4, <3>5 DEF MadeStands
        <4> QED BY <4>1, <4>2 DEF MadeStands
      <3>7. RunCreated' \subseteq RunCreated \cup {d}
        BY <3>5 DEF RunCreated
      <3>8. MadeSpared'
        <4>1. \A q \in Ports : "destroy" \in due'[q] => seen'[q] \in board'.live /\ seen'[q] # d
          BY <2>0, <2>1, <2>3, <3>1, <3>3 DEF MadeSpared, Keys
        <4>2. due'[Sweep] = {} /\ cands' = {}
          BY <2>1, <2>3, <3>2 DEF TypeInv, Staging, Keys
        <4>3. \A q \in Keys : "destroy" \in due'[q] => seen'[q] \notin RunCreated'
          BY <2>0, <2>1, <2>3, <3>7, <4>1, <4>2 DEF MadeSpared, Keys
        <4>4. \A q, r \in Ports : q # r /\ seen'[q] # None => seen'[q] # seen'[r]
          BY <2>0, <2>1 DEF MadeSpared
        <4> QED BY <4>1, <4>2, <4>3, <4>4 DEF MadeSpared
      <3> QED BY <3>6, <3>8
    <2>5. CASE DoConnect(k)
      <3> DEFINE d == Resolve(k)
      <3>1. /\ k \in Ports /\ d \in board.live /\ d = created[k] /\ created[k] # None
            /\ created' = created
        BY <2>5, ConnectTarget DEF DoConnect
      <3>2. /\ board'.live = board.live /\ board'.label = board.label
            /\ board'.peer = [board.peer EXCEPT ![d] = k]
        BY <1>0, <2>5 DEF DoConnect, Joined, PluggedIn, Boards
      <3>3. \A q \in Ports : q # k /\ created[q] # None => created[q] # d
        BY <2>0, <3>1 DEF MadeStands
      <3>4. \A q \in Ports : created[q] # None =>
              /\ created[q] \in board'.live
              /\ board'.label[created[q]] \in Ports
              /\ board'.peer[created[q]] \in {None, q}
        BY <1>0, <2>0, <3>1, <3>2, <3>3 DEF MadeStands, Boards
      <3>5. \A q \in Ports : "destroy" \in due'[q] => seen[q] \in board'.live
        BY <2>0, <2>3, <3>2 DEF MadeSpared, Keys
      <3> QED BY <2>0, <2>1, <2>3, <3>1, <3>4, <3>5, MadeFrame
    <2>6. CASE DoSetMac(k) \/ DoBind(k) \/ DoUnbind(k) \/ DoDisconnect(k) \/ DoSetLabel(k)
      <3>1. /\ created' = created /\ board'.live = board.live
            /\ \/ board'.peer = board.peer
               \/ board'.peer = [board.peer EXCEPT ![seen[k]] = None]
            /\ \/ board'.label = board.label
               \/ k \in Ports /\ board'.label = [board.label EXCEPT ![seen[k]] = k]
        BY <1>0, <2>6, TurnFacts
        DEF DoSetMac, DoBind, DoUnbind, DoDisconnect, DoSetLabel,
            Addressed, Nudged, Unbound, Severed, Stamped, Boards
      <3>2. \A q \in Ports : created[q] # None =>
              /\ created[q] \in board'.live
              /\ board'.label[created[q]] \in Ports
              /\ board'.peer[created[q]] \in {None, q}
        BY <1>0, <2>0, <3>1 DEF MadeStands, Boards
      <3>3. \A q \in Ports : "destroy" \in due'[q] => seen[q] \in board'.live
        BY <2>0, <2>3, <3>1 DEF MadeSpared, Keys
      <3> QED BY <2>0, <2>1, <2>3, <3>1, <3>2, <3>3, MadeFrame
    <2>7. CASE DoDestroy(k)
      <3> DEFINE d == seen[k]
      <3>1. Turn(k, "destroy") /\ created' = created /\ "destroy" \in due[k]
        BY <2>7 DEF DoDestroy, Turn
      <3>2. d \in Dpnis /\ d \notin RunCreated
        BY <2>0, <3>1, TurnFacts DEF MadeSpared
      <3>3. /\ board'.live = board.live \ {d}
            /\ board'.label = [board.label EXCEPT ![d] = None]
            /\ board'.peer = [board.peer EXCEPT ![d] = None]
        BY <1>0, <2>7 DEF DoDestroy, Destroyed, Boards
      <3>4. \A q \in Ports : created[q] # None => created[q] # d
        BY <3>2, RunCreatedFacts
      <3>5. \A q \in Ports : created[q] # None =>
              /\ created[q] \in board'.live
              /\ board'.label[created[q]] \in Ports
              /\ board'.peer[created[q]] \in {None, q}
        BY <1>0, <2>0, <3>2, <3>3, <3>4 DEF MadeStands, Boards
      <3>6. "destroy" \notin due'[k]
        BY <1>0, <2>7 DEF DoDestroy, Advance
      <3>7. \A q \in Ports : "destroy" \in due'[q] => seen[q] \in board'.live
        <4>1. SUFFICES ASSUME NEW q \in Ports, "destroy" \in due'[q] PROVE seen[q] \in board'.live
          OBVIOUS
        <4>2. "destroy" \in due[q] /\ q # k
          BY <2>3, <3>6, <4>1 DEF Keys
        <4>3. k \in Ports
          BY <3>1, <4>2 DEF TypeInv, Staging, Keys
        <4>4. seen[q] # d /\ seen[q] \in board.live
          BY <1>0, <2>0, <3>2, <4>2, <4>3, BoardAssumption DEF MadeSpared, Keys
        <4> QED BY <3>3, <4>4
      <3> QED BY <2>0, <2>1, <2>3, <3>1, <3>5, <3>7, MadeFrame
    <2> QED BY <1>6, <2>4, <2>5, <2>6, <2>7 DEF Do
  <1>7. CASE Start
    <2>1. UNCHANGED <<due, seen, cands, created>> /\ pc = "idle"
      BY <1>7 DEF Start
    <2>2. /\ \A k \in Ports : created'[k] = None /\ seen'[k] = None
          /\ cands' = {} /\ \A k \in Keys : due'[k] = {}
      BY <2>1 DEF IdleClean, NoneCreated, NoneSeen, Keys, TypeInv, Staging
    <2> QED BY <2>2 DEF MadeStands, MadeSpared, Keys
  <1>8. CASE (\E d \in Dpnis : Probe(d)) \/ UNCHANGED vars
    <2>1. /\ UNCHANGED <<pc, due, seen, cands, created>>
          /\ board'.live = board.live /\ board'.label = board.label /\ board'.peer = board.peer
      BY <1>0, <1>8 DEF Probe, Probed, Boards, engine, vars
    <2>2. RunCreated' = RunCreated
      BY <2>1 DEF RunCreated
    <2> QED BY <2>1, <2>2 DEF MadeStands, MadeSpared, Running
  <1> QED BY <1>1, <1>2, <1>3, <1>4, <1>5, <1>6, <1>7, <1>8 DEF Next, Tool, Pass, Prune

\* Whatever a verb leaves on the board, it destroyed nothing the run made.
LEMMA PartialSpares ==
  ASSUME TypeInv, MadeSpared, NEW k \in Keys, NEW kind \in Kinds, Turn(k, kind),
         NEW b \in Partial(k, kind), NEW d \in RunCreated, d \in board.live
  PROVE  d \in b.live
  <1>0. board \in Boards
    BY DEF TypeInv, TypeOK
  <1>1. CASE kind = "connect" /\ b = Joined(PluggedIn(board, Resolve(k)), Resolve(k), k)
    BY <1>0, <1>1 DEF Joined, PluggedIn, Boards
  <1>2. CASE kind = "destroy" /\ b = Destroyed(board, seen[k])
    <2>1. seen[k] # d
      BY <1>2 DEF MadeSpared, Turn, Applying, Running
    <2> QED BY <1>0, <1>2, <2>1 DEF Destroyed, Boards
  <1> QED BY <1>0, <1>1, <1>2, PartialCases

LEMMA SpareStep ==
  ASSUME TypeInv, MadeSpared, [Next]_vars, Applying, NEW d \in RunCreated, d \in board.live
  PROVE  d \in board'.live
  <1>0. board \in Boards
    BY DEF TypeInv, TypeOK
  <1>1. CASE board'.live = board.live
    BY <1>1
  <1>2. CASE VerbFails \/ Killed
    BY <1>1, <1>2, PartialSpares DEF VerbFails, Killed, Fallible
  <1>3. ASSUME NEW k \in Keys, Do(k) PROVE d \in board'.live
    <2>1. CASE DoCreate(k)
      BY <1>0, <2>1 DEF DoCreate, Minted, Stamped, Boards
    <2>2. CASE DoDestroy(k)
      <3>1. Turn(k, "destroy") /\ board' \in Partial(k, "destroy")
        BY <2>2 DEF DoDestroy, Partial
      <3> QED BY <3>1, PartialSpares DEF Kinds
    <2>3. CASE DoSetMac(k) \/ DoConnect(k) \/ DoBind(k) \/ DoDisconnect(k) \/ DoUnbind(k)
                 \/ DoSetLabel(k)
      <3>1. board'.live = board.live
        BY <1>0, <2>3 DEF DoSetMac, DoConnect, DoBind, DoDisconnect, DoUnbind, DoSetLabel,
                          Addressed, Joined, PluggedIn, Nudged, Severed, Unbound, Stamped, Boards
      <3> QED BY <1>1, <3>1
    <2> QED BY <1>3, <2>1, <2>2, <2>3 DEF Do
  <1>4. ASSUME NEW e \in Dpnis, Probe(e) PROVE board'.live = board.live
    BY <1>0, <1>4 DEF Probe, Probed, Boards
  <1>5. CASE Start \/ Pass \/ Prune \/ Unwind \/ ReadFails \/ OperatorEdits \/ UNCHANGED vars
    <2>1. board' = board
      BY <1>5 DEF Applying, Start, Pass, PassConverged, PassRebuildRefused, PassGateRefused,
                  PassDeadline, PassPlanned, Prune, PruneNothing, PruneRefused, PrunePlanned,
                  SweepNext, SweepDone, Unwind, UnwindRow, UnwindRowFails, UnwindDone,
                  ReadFails, OperatorEdits, vars
    <2> QED BY <1>1, <2>1
  <1> QED BY <1>1, <1>2, <1>3, <1>4, <1>5 DEF Next, Tool

IInv ==
  /\ TypeInv /\ SeveredBeforeUnbind
  /\ MadeStands /\ MadeSpared /\ Unwired(board) /\ IdleClean

\* The whole inductive invariant.
LEMMA Inductive ==
  /\ Init => IInv
  /\ IInv /\ [Next]_vars => IInv'
  <1>1. Init => IInv
    <2>1. Init => SeveredBeforeUnbind /\ MadeStands /\ MadeSpared /\ IdleClean
      BY DEF Init, SeveredBeforeUnbind, MadeStands, MadeSpared, IdleClean, Running, NothingDue
    <2>2. Init => Unwired(board)
      BY DEF Init, Unwired, BootBoard
    <2> QED BY <2>1, <2>2, InitType DEF IInv
  <1>2. IInv /\ [Next]_vars => IInv'
    BY StepType, SeverStep, MadeStep, UnwiredStep, IdleStep DEF IInv, Unwired
  <1> QED BY <1>1, <1>2

\* No run destroys a dpni it made, whatever the read-back says of it, whichever
\* ids the MC hands out again, and whatever the prune finds (reconcile_with's
\* run_created fence, root_dpni_candidates).
THEOREM NothingChurned == Spec => NoChurn
  <1>1. IInv /\ [Next]_vars =>
          [Applying => \A d \in RunCreated : d \in board.live => d \in board'.live]_vars
    BY SpareStep DEF IInv
  <1> QED BY <1>1, Inductive, PTL DEF Spec, NoChurn

-----------------------------------------------------------------------------
(* The gate. *)

BoundOnly(rows) == \A i \in 1 .. Len(rows) : rows[i].kind = "bound"

\* What is due is of a class the run allows, and what it has recorded can be
\* undone within that class.
Gated ==
  /\ pc = "idle" => journal = << >>
  /\ pc # "idle" => opts \in Options
  /\ \A k \in Ports : \A kind \in due[k] : ClassOf[kind] <= opts.allow
  /\ pc = "sweep" => opts.allow = 2
  /\ pc # "idle" /\ opts.allow < 2 => BoundOnly(journal)

\* The transition whose turn it is, below disruptive.
LEMMA GatedTurn ==
  ASSUME TypeInv, Gated, NEW k \in Keys, NEW kind \in Kinds, Turn(k, kind), opts.allow < 2
  PROVE  /\ k \in Ports /\ opts \in Options
         /\ kind \in {"setlabel", "setmac", "bind"}
         /\ opts.allow < 1 => kind # "setlabel"
  <1>1. kind \in due[k] /\ pc \in {"apply", "sweep"}
    BY DEF Turn, Applying
  <1>2. k \in Ports
    BY <1>1, TurnFacts DEF Gated, Keys
  <1>3. opts \in Options /\ opts.allow \in Classes
    BY <1>1, RunAssumption DEF Gated, Options
  <1>4. ClassOf[kind] <= opts.allow
    BY <1>1, <1>2 DEF Gated
  <1> QED BY <1>2, <1>3, <1>4 DEF ClassOf, Kinds, Classes

LEMMA PartialGated ==
  ASSUME TypeInv, Gated, NEW k \in Keys, NEW kind \in Kinds, Turn(k, kind), opts.allow < 2,
         NEW b \in Partial(k, kind)
  PROVE  /\ b.live = board.live /\ b.peer = board.peer
         /\ opts.allow < 1 => b.label = board.label
  <1>1. /\ kind \in {"setlabel", "setmac", "bind"}
        /\ opts.allow < 1 => kind # "setlabel"
        /\ board \in Boards
    BY GatedTurn DEF TypeInv, TypeOK
  <1>2. \/ b = board
        \/ b = Addressed(board, Resolve(k))
        \/ kind = "setlabel" /\ b = Stamped(board, seen[k], k)
    BY <1>1 DEF Partial
  <1> QED BY <1>1, <1>2 DEF Addressed, Stamped, Boards

\* The last row of such a journal unbinds.
LEMMA BoundRow ==
  ASSUME journal \in Seq(JournalRows), journal # << >>, BoundOnly(journal)
  PROVE  LastRow.kind = "bound" /\ BoundOnly(Rest)
  <1>1. Len(journal) \in Nat \ {0}
    BY EmptySeq
  <1>2. LastRow.kind = "bound"
    BY <1>1 DEF LastRow, BoundOnly
  <1>3. /\ Len(Rest) = Len(journal) - 1
        /\ \A i \in 1 .. Len(Rest) : Rest[i] = journal[i]
    <2>1. /\ \A i \in 1 .. Len(journal) - 1 : i \in 1 .. Len(journal)
          /\ 1 \in 1 .. Len(journal) + 1 /\ Len(journal) - 1 \in 0 .. Len(journal)
      BY <1>1
    <2>2. Rest = [i \in 1 .. Len(journal) - 1 |-> journal[i]]
      BY <1>1 DEF Rest
    <2> QED BY <1>1, <2>1, <2>2
  <1> QED BY <1>1, <1>2, <1>3 DEF BoundOnly

LEMMA GatedStep == ASSUME TypeInv, Gated, [Next]_vars PROVE Gated'
  <1>0. /\ due \in [Keys -> SUBSET Kinds] /\ journal \in Seq(JournalRows) /\ Ports \subseteq Keys
        /\ opts \in Options \cup {None}
    BY DEF TypeInv, TypeOK, Keys
  <1>1. ASSUME NEW how, End(how) PROVE Gated'
    BY <1>1 DEF End, Gated, NothingDue, Keys
  <1>2. ASSUME FailurePolicy, pc # "idle" PROVE Gated'
    <2>1. CASE opts.policy # "rollback"
      BY <1>1, <1>2, <2>1 DEF FailurePolicy
    <2>2. CASE opts.policy = "rollback"
      BY <1>2, <2>2 DEF FailurePolicy, Gated, NothingDue, Keys
    <2> QED BY <2>1, <2>2
  <1>3. CASE Start
    BY <1>3 DEF Start, Gated, TypeInv, Staging, BoundOnly
  <1>4. CASE PassConverged \/ PassDeadline
    BY <1>4 DEF PassConverged, PassDeadline, engine, Gated
  <1>5. CASE PassPlanned
    <2>1. \A k \in Ports : due'[k] = Planned[k]
      BY <1>5, <1>0 DEF PassPlanned
    <2> QED BY <1>5, <2>1 DEF PassPlanned, Within, Gated
  <1>6. ASSUME NEW k \in Keys, Do(k) PROVE Gated'
    <2>1. PICK kind \in Kinds : Turn(k, kind) /\ Advance(k, kind)
      BY <1>6 DEF Do, DoCreate, DoSetMac, DoConnect, DoBind, DoDisconnect, DoUnbind, DoDestroy,
                  DoSetLabel, Kinds
    <2>2. opts' = opts /\ pc # "idle" /\ pc' # "idle" /\ pc' \in {pc, "pass"}
      BY <1>6, <2>1 DEF Do, DoCreate, DoSetMac, DoConnect, DoBind, DoDisconnect, DoUnbind,
                  DoDestroy, DoSetLabel, Unchanged, Advance, Turn, Applying
    <2>3. \A q \in Ports : due'[q] \subseteq due[q]
      BY <1>0, <2>1 DEF Advance
    <2>4. ASSUME opts.allow < 2, BoundOnly(journal) PROVE BoundOnly(journal')
      <3>1. DoSetMac(k) \/ DoBind(k) \/ DoSetLabel(k)
        BY <1>6, <2>4, GatedTurn DEF Do, DoCreate, DoConnect, DoDisconnect, DoUnbind, DoDestroy, Kinds
      <3>2. CASE DoBind(k)
        <4>1. journal' = Append(journal, [kind |-> "bound", dpni |-> Resolve(k)])
          BY <3>2 DEF DoBind, Record
        <4>2. /\ Len(journal) \in Nat /\ Len(journal') = Len(journal) + 1
              /\ \A i \in 1 .. Len(journal) : journal'[i] = journal[i]
              /\ journal'[Len(journal) + 1] = [kind |-> "bound", dpni |-> Resolve(k)]
          BY <1>0, <4>1
        <4> QED BY <2>4, <4>2 DEF BoundOnly
      <3>3. CASE DoSetMac(k) \/ DoSetLabel(k)
        BY <2>4, <3>3 DEF DoSetMac, DoSetLabel
      <3> QED BY <3>1, <3>2, <3>3
    <2> QED BY <2>2, <2>3, <2>4 DEF Gated
  <1>7. CASE PrunePlanned
    BY <1>7 DEF PrunePlanned, Gated
  <1>8. CASE SweepNext
    <2>1. \A k \in Ports : due'[k] = due[k]
      BY <1>0, <1>8, SweepIsNoPort DEF SweepNext, Keys
    <2> QED BY <1>8, <2>1 DEF SweepNext, Gated
  <1>9. CASE UnwindRow \/ UnwindRowFails
    <2>1. journal # << >> /\ journal' = Rest /\ UNCHANGED <<pc, opts, due>> /\ pc = "unwind"
      BY <1>9 DEF UnwindRow, UnwindRowFails
    <2> QED BY <1>0, <2>1, BoundRow DEF Gated
  <1>10. CASE (\E d \in Dpnis : Probe(d)) \/ OperatorEdits \/ UNCHANGED vars
    BY <1>10 DEF Probe, OperatorEdits, engine, vars, Gated
  <1>11. CASE VerbFails \/ ReadFails
    BY <1>2, <1>11 DEF VerbFails, ReadFails, Turn, Applying
  <1>12. CASE PassRebuildRefused \/ PassGateRefused \/ PruneNothing \/ PruneRefused \/ SweepDone
                \/ UnwindDone \/ Killed
    BY <1>1, <1>12 DEF PassRebuildRefused, PassGateRefused, PruneNothing, PruneRefused, SweepDone,
                       UnwindDone, Killed
  <1> QED BY <1>3, <1>4, <1>5, <1>6, <1>7, <1>8, <1>9, <1>10, <1>11, <1>12
          DEF Next, Tool, Pass, Prune, Unwind

\* A step of a run that may not disrupt.
Framed ==
  /\ opts.allow < 2 => board'.live = board.live /\ board'.peer = board.peer
  /\ opts.allow < 1 => board'.label = board.label

LEMMA GateStep == ASSUME TypeInv, Gated, [Next]_vars, pc # "idle" PROVE Framed
  <1>0. /\ board \in Boards /\ opts \in Options /\ journal \in Seq(JournalRows)
        /\ opts.allow \in Classes
    BY RunAssumption DEF TypeInv, TypeOK, Gated, Options
  <1>1. CASE board' = board
    BY <1>1 DEF Framed
  <1>2. CASE VerbFails \/ Killed
    <2>1. \/ board' = board
          \/ \E k \in Keys, kind \in Kinds : Turn(k, kind) /\ board' \in Partial(k, kind)
      BY <1>2 DEF VerbFails, Killed, Fallible
    <2> SUFFICES ASSUME opts.allow < 2 PROVE Framed
      BY <1>0 DEF Classes, Framed
    <2>2. ASSUME NEW k \in Keys, NEW kind \in Kinds, Turn(k, kind), board' \in Partial(k, kind)
          PROVE  Framed
      BY <2>2, PartialGated DEF Framed
    <2> QED BY <1>1, <2>1, <2>2
  <1>3. ASSUME NEW k \in Keys, Do(k) PROVE Framed
    <2> SUFFICES ASSUME opts.allow < 2 PROVE Framed
      BY <1>0 DEF Classes, Framed
    <2>1. DoSetMac(k) \/ DoBind(k) \/ (DoSetLabel(k) /\ ~(opts.allow < 1))
      BY <1>3, GatedTurn DEF Do, DoCreate, DoConnect, DoDisconnect, DoUnbind, DoDestroy,
                             DoSetLabel, Kinds
    <2> QED BY <1>0, <2>1 DEF DoSetMac, DoBind, DoSetLabel, Addressed, Nudged, Stamped, Boards, Framed
  <1>4. CASE UnwindRow \/ UnwindRowFails
    <2> SUFFICES ASSUME opts.allow < 2 PROVE Framed
      BY <1>0 DEF Classes, Framed
    <2>1. LastRow.kind = "bound"
      BY <1>0, <1>4, BoundRow DEF Gated, UnwindRow, UnwindRowFails
    <2>2. board' \in {board, Unbound(board, LastRow.dpni)}
      BY <1>4, <2>1 DEF UnwindRow, UnwindRowFails, HalfUndone, Undone
    <2> QED BY <1>0, <2>2 DEF Unbound, Boards, Framed
  <1>5. ASSUME NEW d \in Dpnis, Probe(d) PROVE Framed
    BY <1>0, <1>5 DEF Probe, Probed, Boards, Framed
  <1>6. CASE Start \/ Pass \/ Prune \/ UnwindDone \/ ReadFails \/ OperatorEdits \/ UNCHANGED vars
    <2>1. board' = board
      BY <1>6 DEF Start, Pass, PassConverged, PassRebuildRefused, PassGateRefused,
                  PassDeadline, PassPlanned, Prune, PruneNothing, PruneRefused, PrunePlanned,
                  SweepNext, SweepDone, UnwindDone, ReadFails, OperatorEdits, vars
    <2> QED BY <1>1, <2>1
  <1> QED BY <1>2, <1>3, <1>4, <1>5, <1>6 DEF Next, Tool, Unwind

\* A run that allows less than disruptive makes, removes, wires and unwires no
\* dpni, and one that allows only hitless relabels none: not by what it applies,
\* not by what a failed verb leaves, not by its rollback (engine.rs, the gate of
\* ADR-0015, and rollback_exec.rs over the rows such a run records).
THEOREM GateKept == Spec => GateHolds
  <1>1. Init => TypeInv /\ Gated
    BY InitType DEF Init, Gated, NothingDue, Keys
  <1>2. TypeInv /\ Gated /\ [Next]_vars => (TypeInv /\ Gated)'
    BY StepType, GatedStep
  <1>3. TypeInv /\ Gated /\ [Next]_vars => [pc # "idle" => Framed]_vars
    BY GateStep
  <1> QED BY <1>1, <1>2, <1>3, PTL DEF Spec, GateHolds, Framed

-----------------------------------------------------------------------------
(* What every run owes: the inductive invariant. *)

\* An edge has one dpni, a driver that holds a dpni has taken its MAC, and an
\* object that does not exist has no name.
Exclusive(b) == \A d, e \in b.live : b.peer[d] # None /\ b.peer[d] = b.peer[e] => d = e
Claimed(b) == \A d \in b.bound : b.peer[d] \notin b.macdrv
Unnamed(b) == \A d \in Dpnis \ b.live : b.label[d] = None
Sound(b) == Unwired(b) /\ Exclusive(b) /\ Claimed(b) /\ Unnamed(b)

\* What is due to be relabelled exists.
RelabelsLive ==
  \A k \in Ports : "setlabel" \in due[k] =>
    seen[k] \in board.live /\ "destroy" \notin due[k]

\* The sweep tears down what bears an undeclared name, one object at a time.
Undeclared(d) == board.label[d] \notin Ports \cup {None}
SweepsUndeclared ==
  /\ pc = "sweep" => opts.prune
  /\ \A d \in cands : Undeclared(d)
  /\ due[Sweep] # {} => Undeclared(seen[Sweep]) /\ seen[Sweep] \notin cands

\* Every dpni of the run has its row, until the rollback undoes or reports it.
HasRow(d) == \E i \in 1 .. Len(journal) : journal[i] = [kind |-> "created", dpni |-> d]
Reported(d) == [kind |-> "created", dpni |-> d] \in unreversed
CreatedRecorded ==
  \A k \in Ports : created[k] # None =>
    \/ HasRow(created[k])
    \/ pc = "unwind" /\ (Reported(created[k]) \/ created[k] \notin board.live)

\* A dpni that is new since the run began has its row too, except the one whose
\* create erred.
Leaked == {d \in board.live \ before.live : ~HasRow(d) /\ ~Reported(d)}
NewRecorded ==
  pc # "idle" =>
    /\ pc # "unwind" => \A d \in board.live \ before.live : HasRow(d)
    /\ \A d \in Leaked : board.label[d] \in Ports \cup {None} /\ board.peer[d] = None
    /\ \A d, e \in Leaked : d = e

\* Nothing the run holds, has due or has recorded is somebody else's.
ForeignSpared ==
  pc # "idle" =>
    /\ \A k \in Keys : ~Foreign(seen[k])
    /\ \A k \in Ports : ~Foreign(created[k])
    /\ \A d \in cands : ~Foreign(d)
    /\ \A i \in 1 .. Len(journal) : ~Foreign(journal[i].dpni)

\* A run under way is converged only once it is past its loop.
Unsettled == pc \in {"pass", "apply", "unwind"} => outcome # "converged"

SafeInv ==
  /\ IInv /\ Gated /\ Sound(board) /\ Unsettled
  /\ RelabelsLive /\ SweepsUndeclared /\ CreatedRecorded /\ NewRecorded
  /\ ForeignSpared /\ ForeignUntouched /\ ConvergedServes


-----------------------------------------------------------------------------
(* The board stays sound. *)

LEMMA SoundOps ==
  ASSUME NEW b \in Boards, NEW d \in Dpnis, Sound(b)
  PROVE  /\ d \notin b.live => \A read \in CfgReads : Sound(Minted(b, d, read))
         /\ d \in b.live => \A name \in Dpmacs \cup {None} : Sound(Stamped(b, d, name))
         /\ d \in b.live /\ b.peer[d] = None =>
              \A p \in Dpmacs : ~Wired(b, p) => Sound(Joined(b, d, p))
         /\ Sound(PluggedIn(b, d)) /\ Sound(Unbound(b, d)) /\ Sound(Nudged(b, d))
         /\ Sound(Addressed(b, d)) /\ Sound(Severed(b, d)) /\ Sound(Destroyed(b, d))
         /\ Sound(Probed(b, d))
  <1> USE DEF Sound
  <1>0. /\ Unwired(b) /\ Exclusive(b) /\ Claimed(b) /\ Unnamed(b)
        /\ None \notin b.macdrv /\ b.live \subseteq Dpnis /\ b.macdrv \subseteq Dpmacs
    BY BoardAssumption DEF Boards
  <1>1. ASSUME d \notin b.live, NEW read \in CfgReads PROVE Sound(Minted(b, d, read))
    BY <1>0, <1>1, UnwiredOps DEF Unwired, Minted, Boards, Exclusive, Claimed, Unnamed
  <1>2. ASSUME d \in b.live, NEW name \in Dpmacs \cup {None} PROVE Sound(Stamped(b, d, name))
    BY <1>0, <1>2, UnwiredOps DEF Stamped, Boards, Exclusive, Claimed, Unnamed
  <1>3. ASSUME d \in b.live, b.peer[d] = None, NEW p \in Dpmacs, ~Wired(b, p)
        PROVE  Sound(Joined(b, d, p))
    <2> DEFINE c == Joined(b, d, p)
    <2>1. /\ c.live = b.live /\ c.bound = b.bound /\ c.label = b.label
          /\ c.peer = [b.peer EXCEPT ![d] = p]
          /\ c.macdrv = IF d \in b.bound THEN b.macdrv \ {p} ELSE b.macdrv
      BY DEF Joined, Boards
    <2>2. Unwired(c)
      BY <1>3, UnwiredOps
    <2>3. Exclusive(c)
      BY <1>0, <1>3, <2>1 DEF Exclusive, Wired, Boards
    <2>4. Claimed(c)
      BY <1>0, <2>1 DEF Claimed, Boards
    <2> QED BY <1>0, <2>1, <2>2, <2>3, <2>4 DEF Unnamed
  <1>4. Sound(PluggedIn(b, d)) /\ Sound(Unbound(b, d)) /\ Sound(Nudged(b, d)) /\ Sound(Addressed(b, d))
    BY <1>0, UnwiredOps DEF PluggedIn, Unbound, Nudged, Addressed, Boards, Exclusive, Claimed, Unnamed
  <1>5. Sound(Severed(b, d))
    <2> DEFINE c == Severed(b, d)
    <2>1. /\ c.live = b.live /\ c.bound = b.bound /\ c.label = b.label
          /\ c.peer = [b.peer EXCEPT ![d] = None]
          /\ c.macdrv = IF d \in b.bound THEN b.macdrv \cup ({b.peer[d]} \cap Phy) ELSE b.macdrv
      BY DEF Severed, Boards
    <2>2. Exclusive(c)
      BY <1>0, <2>1 DEF Exclusive, Boards
    <2>3. \A e \in Dpnis : b.peer[e] # None => e \in b.live
      BY <1>0 DEF Unwired
    <2>4. Claimed(c)
      <3>1. SUFFICES ASSUME NEW e \in b.bound PROVE c.peer[e] \notin c.macdrv
        BY <2>1 DEF Claimed
      <3>2. e \in Dpnis /\ None \notin Phy
        BY BoardAssumption DEF Boards
      <3>3. CASE e = d
        BY <1>0, <2>1, <3>2, <3>3 DEF Boards
      <3>4. CASE e # d
        <4>1. c.peer[e] = b.peer[e] /\ b.peer[e] \notin b.macdrv
          BY <1>0, <2>1, <3>2, <3>4 DEF Claimed, Boards
        <4>2. b.peer[e] # b.peer[d] \/ b.peer[e] = None
          BY <1>0, <2>3, <3>2, <3>4 DEF Exclusive
        <4> QED BY <2>1, <3>2, <4>1, <4>2
      <3> QED BY <3>3, <3>4
    <2> QED BY <1>0, <2>1, <2>2, <2>4, UnwiredOps DEF Unnamed
  <1>6. Sound(Destroyed(b, d))
    <2> DEFINE c == Destroyed(b, d)
    <2>1. /\ c.live = b.live \ {d} /\ c.bound = b.bound /\ c.label = [b.label EXCEPT ![d] = None]
          /\ c.peer = [b.peer EXCEPT ![d] = None] /\ c.macdrv = b.macdrv
      BY DEF Destroyed, Boards
    <2>2. Exclusive(c)
      BY <1>0, <2>1 DEF Exclusive, Boards
    <2>3. Claimed(c) /\ Unnamed(c)
      BY <1>0, <2>1 DEF Claimed, Unnamed, Boards
    <2> QED BY <2>2, <2>3, <1>0, UnwiredOps
  <1>7. Sound(Probed(b, d))
    <2> DEFINE c == Probed(b, d)
    <2>1. /\ c.live = b.live /\ c.bound = b.bound \cup {d} /\ c.label = b.label
          /\ c.peer = b.peer /\ c.macdrv = b.macdrv \ {b.peer[d]}
      BY DEF Probed, Boards
    <2> QED BY <1>0, <2>1, UnwiredOps DEF Exclusive, Claimed, Unnamed
  <1> QED BY <1>1, <1>2, <1>3, <1>4, <1>5, <1>6, <1>7

\* A dpni that may be wired is, once plugged.
LEMMA SoundConnect ==
  ASSUME NEW b \in Boards, Sound(b), NEW d \in b.live, NEW p \in Dpmacs,
         b.peer[d] = None, ~Wired(b, p)
  PROVE  Sound(Joined(PluggedIn(b, d), d, p))
  <1> DEFINE c == PluggedIn(b, d)
  <1>1. d \in Dpnis
    BY DEF Boards
  <1>2. c \in Boards /\ Sound(c)
    BY <1>1, BoardOpsType, SoundOps
  <1>3. c.live = b.live /\ c.peer = b.peer /\ c.held = b.held
    BY DEF PluggedIn, Boards
  <1>4. d \in c.live /\ c.peer[d] = None /\ ~Wired(c, p)
    BY <1>3 DEF Wired
  <1> QED BY <1>1, <1>2, <1>4, SoundOps


LEMMA PartialSound ==
  ASSUME TypeInv, MadeStands, RelabelsLive, Sound(board), NEW k \in Keys, NEW kind \in Kinds,
         Turn(k, kind), NEW b \in Partial(k, kind)
  PROVE  Sound(b)
  <1> USE DEF Kinds, Teardown
  <1>0. board \in Boards
    BY DEF TypeInv, TypeOK
  <1>1. CASE kind = "create"
    <2>1. ASSUME NEW d \in Dpnis \ board.live, NEW read \in ReadBacks
          PROVE  Sound(Minted(board, d, read)) /\ Sound(Stamped(Minted(board, d, read), d, k))
      <3>1. Minted(board, d, read) \in Boards /\ Sound(Minted(board, d, read))
        BY <1>0, <2>1, BoardOpsType, SoundOps, RunAssumption
      <3>2. d \in Minted(board, d, read).live /\ k \in Dpmacs
        BY <1>0, <1>1, TurnFacts, SweepIsNoPort DEF Minted, Boards
      <3> QED BY <3>1, <3>2, SoundOps
    <2> QED BY <1>0, <1>1, <2>1 DEF Partial
  <1>2. CASE kind = "setmac"
    BY <1>0, <1>2, TurnFacts, SoundOps DEF Partial
  <1>3. CASE kind = "connect"
    <2>1. Resolve(k) \in Dpnis /\ Resolve(k) \in board.live /\ k \in Dpmacs
      BY <1>3, ConnectTarget, SweepIsNoPort
    <2>2. \/ b = board \/ b = PluggedIn(board, Resolve(k))
          \/ CanConnect(Resolve(k), k) /\ b = Joined(PluggedIn(board, Resolve(k)), Resolve(k), k)
      BY <1>3 DEF Partial
    <2> QED BY <1>0, <2>1, <2>2, SoundOps, SoundConnect DEF CanConnect
  <1>4. CASE kind = "setlabel"
    <2>1. k \in Ports /\ k \in Dpmacs /\ seen[k] \in board.live /\ seen[k] \in Dpnis
      BY <1>4, TurnFacts, SweepIsNoPort DEF RelabelsLive, Turn
    <2> QED BY <1>0, <1>4, <2>1, SoundOps DEF Partial
  <1>5. CASE kind = "destroy"
    BY <1>0, <1>5, TurnFacts, SoundOps DEF Partial
  <1>6. CASE kind \notin {"create", "setmac", "connect", "setlabel", "destroy"}
    BY <1>6 DEF Partial
  <1> QED BY <1>1, <1>2, <1>3, <1>4, <1>5, <1>6

LEMMA EditedSound == ASSUME board \in Boards, Sound(board), NEW b \in Edited PROVE Sound(b)
  <1>0. board.live \subseteq Dpnis
    BY DEF Boards
  <1>1. ASSUME NEW d \in board.live, b = Destroyed(Unbound(board, d), d) PROVE Sound(b)
    BY <1>0, <1>1, BoardOpsType, SoundOps
  <1>2. ASSUME NEW d \in board.live, NEW name \in Dpmacs \cup {None}, b = Stamped(board, d, name)
        PROVE  Sound(b)
    BY <1>0, <1>2, SoundOps
  <1>3. ASSUME NEW d \in Dpnis \ board.live, NEW read \in CfgReads, NEW name \in Dpmacs \cup {None},
               b = [Stamped(Minted(board, d, read), d, name) EXCEPT !.plugged = @ \cup {d}]
        PROVE  Sound(b)
    <2>1. Minted(board, d, read) \in Boards /\ Sound(Minted(board, d, read))
      BY BoardOpsType, SoundOps
    <2>2. d \in Minted(board, d, read).live
      BY DEF Minted, Boards
    <2>3. /\ Stamped(Minted(board, d, read), d, name) \in Boards
          /\ Sound(Stamped(Minted(board, d, read), d, name))
      BY <2>1, <2>2, BoardOpsType, SoundOps
    <2>4. \A c \in Boards : Sound(c) => Sound([c EXCEPT !.plugged = @ \cup {d}])
      BY DEF Boards, Sound, Unwired, Exclusive, Claimed, Unnamed
    <2> QED BY <1>3, <2>3, <2>4
  <1>4. ASSUME NEW x \in board.live \X Dpmacs, CanConnect(x[1], x[2]),
               b = Joined(PluggedIn(board, x[1]), x[1], x[2])
        PROVE  Sound(b)
    BY <1>4, SoundConnect DEF CanConnect
  <1>5. ASSUME NEW p \in Dpmacs, b = [board EXCEPT !.held = @ \cup {p}] PROVE Sound(b)
    BY <1>5 DEF Boards, Sound, Unwired, Exclusive, Claimed, Unnamed
  <1> QED BY <1>1, <1>2, <1>3, <1>4, <1>5 DEF Edited

LEMMA SoundStep ==
  ASSUME TypeInv, MadeStands, RelabelsLive, Sound(board), [Next]_vars
  PROVE  Sound(board')
  <1>0. board \in Boards /\ journal \in Seq(JournalRows)
    BY DEF TypeInv, TypeOK
  <1>1. CASE board' = board
    BY <1>1
  <1>2. CASE VerbFails \/ Killed
    BY <1>1, <1>2, PartialSound DEF VerbFails, Killed, Fallible
  <1>3. ASSUME NEW k \in Keys, Do(k) PROVE Sound(board')
    <2> USE DEF Kinds, Teardown
    <2>1. CASE DoCreate(k)
      <3>1. PICK d \in Dpnis \ board.live, read \in ReadBacks :
              board' = Stamped(Minted(board, d, read), d, k)
        BY <2>1 DEF DoCreate
      <3>2. k \in Dpmacs /\ read \in CfgReads
        BY <2>1, TurnFacts, SweepIsNoPort, RunAssumption DEF DoCreate
      <3>3. Minted(board, d, read) \in Boards /\ Sound(Minted(board, d, read))
        BY <1>0, <3>2, BoardOpsType, SoundOps
      <3>4. d \in Minted(board, d, read).live
        BY <1>0 DEF Minted, Boards
      <3> QED BY <3>1, <3>2, <3>3, <3>4, SoundOps
    <2>2. CASE DoSetMac(k)
      BY <1>0, <2>2, TurnFacts, SoundOps DEF DoSetMac
    <2>3. CASE DoConnect(k)
      <3>1. Turn(k, "connect") /\ board' \in Partial(k, "connect")
        BY <2>3 DEF DoConnect, Partial
      <3> QED BY <3>1, PartialSound
    <2>4. CASE DoBind(k)
      BY <1>0, <2>4, TurnFacts, SoundOps DEF DoBind
    <2>5. CASE DoDisconnect(k)
      BY <1>0, <2>5, TurnFacts, SoundOps DEF DoDisconnect
    <2>6. CASE DoUnbind(k)
      BY <1>0, <2>6, TurnFacts, SoundOps DEF DoUnbind
    <2>7. CASE DoDestroy(k)
      BY <1>0, <2>7, TurnFacts, SoundOps DEF DoDestroy
    <2>8. CASE DoSetLabel(k)
      <3>1. Turn(k, "setlabel") /\ board' \in Partial(k, "setlabel")
        BY <2>8 DEF DoSetLabel, Partial
      <3> QED BY <3>1, PartialSound
    <2> QED BY <1>3, <2>1, <2>2, <2>3, <2>4, <2>5, <2>6, <2>7, <2>8 DEF Do
  <1>4. CASE UnwindRow \/ UnwindRowFails
    <2>1. journal # << >> /\ board' \in {board, Unbound(board, LastRow.dpni), Undone(LastRow)}
      BY <1>4 DEF UnwindRow, UnwindRowFails, HalfUndone
    <2>2. LastRow \in JournalRows /\ LastRow.dpni \in Dpnis
      BY <1>0, <2>1, JournalFacts DEF JournalRows
    <2>3. /\ Sound(Unbound(board, LastRow.dpni)) /\ Sound(Severed(board, LastRow.dpni))
          /\ Unbound(board, LastRow.dpni) \in Boards
      BY <1>0, <2>2, BoardOpsType, SoundOps
    <2>4. Sound(Destroyed(Unbound(board, LastRow.dpni), LastRow.dpni))
      BY <2>2, <2>3, SoundOps
    <2>5. Sound(Undone(LastRow))
      BY <2>2, <2>3, <2>4 DEF Undone, JournalRows
    <2> QED BY <2>1, <2>3, <2>5
  <1>5. CASE OperatorEdits
    BY <1>0, <1>5, EditedSound DEF OperatorEdits
  <1>6. ASSUME NEW d \in Dpnis, Probe(d) PROVE Sound(board')
    BY <1>0, <1>6, SoundOps DEF Probe
  <1>7. CASE Start \/ Pass \/ Prune \/ UnwindDone \/ ReadFails \/ UNCHANGED vars
    <2>1. board' = board
      BY <1>7 DEF Start, Pass, PassConverged, PassRebuildRefused, PassGateRefused,
                  PassDeadline, PassPlanned, Prune, PruneNothing, PruneRefused, PrunePlanned,
                  SweepNext, SweepDone, UnwindDone, ReadFails, vars
    <2> QED BY <1>1, <2>1
  <1> QED BY <1>2, <1>3, <1>4, <1>5, <1>6, <1>7 DEF Next, Tool, Unwind


-----------------------------------------------------------------------------
(* One object at a time. *)

\* Nothing but d has come, gone, been wired, named or configured.
OnlyAt(b, d) ==
  \A e \in Dpnis \ {d} :
    /\ e \in b.live <=> e \in board.live
    /\ b.peer[e] = board.peer[e] /\ b.label[e] = board.label[e] /\ b.cfg[e] = board.cfg[e]

\* The object of a transition: the one seen, the one the run made, or a new one.
ObjectOf(k, d) == d = seen[k] \/ (k \in Ports /\ d = created[k]) \/ d \notin board.live

LEMMA ResolvesTo == ASSUME NEW k \in Keys PROVE ObjectOf(k, Resolve(k)) /\ ObjectOf(k, seen[k])
  BY DEF Resolve, ObjectOf

LEMMA AtOps ==
  ASSUME board \in Boards, NEW d
  PROVE  /\ OnlyAt(board, d)
         /\ \A read : OnlyAt(Minted(board, d, read), d)
         /\ \A name : OnlyAt(Stamped(board, d, name), d)
         /\ \A read, name : OnlyAt(Stamped(Minted(board, d, read), d, name), d)
         /\ OnlyAt(PluggedIn(board, d), d)
         /\ \A p : OnlyAt(Joined(PluggedIn(board, d), d, p), d)
         /\ OnlyAt(Severed(board, d), d) /\ OnlyAt(Unbound(board, d), d)
         /\ OnlyAt(Nudged(board, d), d) /\ OnlyAt(Addressed(board, d), d)
         /\ OnlyAt(Destroyed(board, d), d) /\ OnlyAt(Destroyed(Unbound(board, d), d), d)
  BY DEF OnlyAt, Boards, Minted, Stamped, PluggedIn, Joined, Severed, Unbound, Nudged, Addressed,
         Destroyed

\* Whatever a verb leaves, it was about one object.
LEMMA PartialAt ==
  ASSUME TypeInv, NEW k \in Keys, NEW kind \in Kinds, NEW b \in Partial(k, kind)
  PROVE  \E d : OnlyAt(b, d) /\ ObjectOf(k, d)
  <1>0. board \in Boards
    BY DEF TypeInv, TypeOK
  <1>1. \/ b = board
        \/ \E d \in Dpnis \ board.live, read \in ReadBacks :
             b \in {Minted(board, d, read), Stamped(Minted(board, d, read), d, k)}
        \/ b = Addressed(board, Resolve(k))
        \/ b = PluggedIn(board, Resolve(k))
        \/ b = Joined(PluggedIn(board, Resolve(k)), Resolve(k), k)
        \/ b = Stamped(board, seen[k], k)
        \/ b = Destroyed(board, seen[k])
    BY DEF Partial
  <1>2. \A d \in Dpnis \ board.live : ObjectOf(k, d)
    BY DEF ObjectOf
  <1> QED BY <1>0, <1>1, <1>2, AtOps, ResolvesTo

\* What a transition carried out does to the run's bookkeeping and the board.
LEMMA DoEffect ==
  ASSUME TypeInv, NEW k \in Keys, Do(k)
  PROVE  \E kind \in Kinds :
           /\ Turn(k, kind) /\ Advance(k, kind) /\ Unchanged
           /\ \E d : OnlyAt(board', d) /\ ObjectOf(k, d)
           /\ \/ /\ kind = "create"
                 /\ \E d \in Dpnis \ board.live :
                      /\ board'.live = board.live \cup {d}
                      /\ created' = [created EXCEPT ![k] = d] /\ Record("created", d)
              \/ /\ kind # "create" /\ created' = created /\ board'.live \subseteq board.live
                 /\ \/ journal' = journal
                    \/ \E what \in {"connected", "bound"} : Record(what, Resolve(k))
  <1> USE DEF Kinds, Record
  <1>0. board \in Boards
    BY DEF TypeInv, TypeOK
  <1>1. CASE DoCreate(k)
    <2>1. PICK d \in Dpnis \ board.live, read \in ReadBacks :
            /\ board' = Stamped(Minted(board, d, read), d, k)
            /\ created' = [created EXCEPT ![k] = d] /\ Record("created", d)
      BY <1>1 DEF DoCreate
    <2>2. OnlyAt(board', d) /\ ObjectOf(k, d)
      BY <1>0, <2>1, AtOps DEF ObjectOf
    <2>3. board'.live = board.live \cup {d}
      BY <1>0, <2>1 DEF Stamped, Minted, Boards
    <2> QED BY <1>1, <2>1, <2>2, <2>3 DEF DoCreate
  <1>2. CASE DoSetMac(k) \/ DoConnect(k) \/ DoBind(k)
    <2>1. OnlyAt(board', Resolve(k)) /\ ObjectOf(k, Resolve(k))
      BY <1>0, <1>2, AtOps, ResolvesTo DEF DoSetMac, DoConnect, DoBind
    <2>2. board'.live = board.live
      BY <1>0, <1>2 DEF DoSetMac, DoConnect, DoBind, Addressed, Joined, PluggedIn, Nudged, Boards
    <2>3. PICK kind \in {"setmac", "connect", "bind"} :
            /\ Turn(k, kind) /\ Advance(k, kind) /\ Unchanged /\ created' = created
            /\ \/ journal' = journal
               \/ \E what \in {"connected", "bound"} : Record(what, Resolve(k))
      BY <1>2 DEF DoSetMac, DoConnect, DoBind
    <2> QED BY <2>1, <2>2, <2>3
  <1>3. CASE DoDisconnect(k) \/ DoUnbind(k) \/ DoDestroy(k) \/ DoSetLabel(k)
    <2>1. OnlyAt(board', seen[k]) /\ ObjectOf(k, seen[k])
      BY <1>0, <1>3, AtOps, ResolvesTo DEF DoDisconnect, DoUnbind, DoDestroy, DoSetLabel
    <2>2. board'.live \subseteq board.live
      <3>1. \A d, name : /\ Severed(board, d).live = board.live
                         /\ Unbound(board, d).live = board.live
                         /\ Stamped(board, d, name).live = board.live
                         /\ Destroyed(board, d).live = board.live \ {d}
        BY <1>0 DEF Severed, Unbound, Stamped, Destroyed, Boards
      <3> QED BY <1>3, <3>1 DEF DoDisconnect, DoUnbind, DoDestroy, DoSetLabel
    <2>3. PICK kind \in {"disconnect", "unbind", "destroy", "setlabel"} :
            /\ Turn(k, kind) /\ Advance(k, kind) /\ Unchanged /\ created' = created
            /\ journal' = journal
      BY <1>3 DEF DoDisconnect, DoUnbind, DoDestroy, DoSetLabel
    <2> QED BY <2>1, <2>2, <2>3
  <1> QED BY <1>1, <1>2, <1>3 DEF Do


-----------------------------------------------------------------------------
(* The bookkeeping, conjunct by conjunct. *)

\* How a step ends, fails, or goes on.
LEMMA StepKinds ==
  ASSUME [Next]_vars
  PROVE  \/ \E how : End(how)
         \/ FailurePolicy /\ Running
              /\ (board' = board \/ \E k \in Keys, kind \in Kinds :
                                      Turn(k, kind) /\ board' \in Partial(k, kind))
         \/ Start
         \/ PassConverged \/ PassDeadline \/ PassPlanned \/ PrunePlanned \/ SweepNext
         \/ \E k \in Keys : Do(k)
         \/ UnwindRow \/ UnwindRowFails
         \/ \E d \in Dpnis : Probe(d)
         \/ OperatorEdits \/ UNCHANGED vars
  <1>1. CASE VerbFails
    BY <1>1 DEF VerbFails, Fallible, Turn, Applying, Running
  <1>2. CASE ReadFails
    BY <1>2 DEF ReadFails, Running
  <1>3. CASE PassRebuildRefused \/ PassGateRefused \/ PruneNothing \/ PruneRefused \/ SweepDone
               \/ UnwindDone \/ Killed
    BY <1>3 DEF PassRebuildRefused, PassGateRefused, PruneNothing, PruneRefused, SweepDone,
                UnwindDone, Killed
  <1> QED BY <1>1, <1>2, <1>3 DEF Next, Tool, Pass, Prune, Unwind

\* The plan of a port relabels only what stands on it and is not rebuilt.
LEMMA PlanRelabels ==
  ASSUME NEW b \in Boards, NEW p \in Ports, NEW prune, NEW runCreated,
         "setlabel" \in PlanPort(b, p, prune, runCreated)
  PROVE  "destroy" \notin PlanPort(b, p, prune, runCreated) /\ ConnectedTo(b, p) \in b.live
  <1> DEFINE d == ConnectedTo(b, p)
  <1>1. p \notin Absent /\ d # None /\ ~CfgDrift(b, p, d)
    BY DEF PlanPort, PlanAbsent, PlanPresent, PlanTeardown, PlanCreate, If
  <1>2. PlanPort(b, p, prune, runCreated) = PlanRepair(b, p, d)
    BY <1>1 DEF PlanPort, PlanPresent
  <1> QED BY <1>1, <1>2, ConnectedToFacts, SweepIsNoPort DEF PlanRepair, If

LEMMA RelabelsStep ==
  ASSUME TypeInv, MadeSpared, RelabelsLive, [Next]_vars
  PROVE  RelabelsLive'
  <1>0. /\ board \in Boards /\ due \in [Keys -> SUBSET Kinds] /\ Ports \subseteq Keys
        /\ seen \in [Keys -> Dpnis \cup {None}]
    BY DEF TypeInv, TypeOK, Keys
  <1>1. CASE (\E how : End(how)) \/ FailurePolicy
    BY <1>1, <1>0 DEF End, FailurePolicy, RelabelsLive, NothingDue
  <1>2. CASE Start \/ PassConverged \/ PassDeadline \/ PrunePlanned \/ (\E d \in Dpnis : Probe(d))
               \/ UNCHANGED vars
    <2>1. UNCHANGED <<due, seen>> /\ board'.live = board.live
      BY <1>0, <1>2 DEF Start, PassConverged, PassDeadline, PrunePlanned, Probe, Probed, Boards,
                        engine, vars
    <2> QED BY <2>1 DEF RelabelsLive
  <1>3. CASE PassPlanned
    <2>1. \A k \in Ports : /\ due'[k] = PlanPort(board, k, opts.prune, Fence)
                           /\ seen'[k] = ConnectedTo(board, k)
      BY <1>3, SweepIsNoPort DEF PassPlanned, Planned, Keys
    <2>2. board' = board
      BY <1>3 DEF PassPlanned
    <2> QED BY <1>0, <2>1, <2>2, PlanRelabels DEF RelabelsLive
  <1>4. CASE SweepNext
    <2>1. board' = board /\ \A k \in Ports : due'[k] = due[k] /\ seen'[k] = seen[k]
      BY <1>0, <1>4, SweepIsNoPort DEF SweepNext
    <2> QED BY <2>1 DEF RelabelsLive
  <1>5. ASSUME NEW k \in Keys, Do(k) PROVE RelabelsLive'
    <2>1. seen' = seen /\ \A q \in Ports : due'[q] \subseteq due[q]
      <3>1. \E kind \in Kinds : Advance(k, kind) /\ Unchanged
        BY <1>5, DoEffect
      <3> QED BY <1>0, <3>1 DEF Advance, Unchanged
    <2>2. ASSUME NEW q \in Ports, "setlabel" \in due'[q] PROVE seen[q] \in board'.live
      <3>1. "setlabel" \in due[q] /\ seen[q] \in board.live /\ "destroy" \notin due[q]
        BY <2>1, <2>2 DEF RelabelsLive
      <3>2. CASE DoDestroy(k)
        <4>1. Turn(k, "destroy") /\ board'.live = board.live \ {seen[k]}
          BY <1>0, <3>2 DEF DoDestroy, Destroyed, Boards
        <4>2. k # q /\ Running
          BY <3>1, <4>1 DEF Turn, Applying, Running
        <4>3. k \in Ports
          BY <3>1, <4>1, TurnFacts DEF TypeInv, Staging, Kinds, Keys
        <4>4. seen[q] # None
          BY <1>0, <3>1, BoardAssumption DEF Boards
        <4>5. seen[q] # seen[k]
          BY <4>2, <4>3, <4>4 DEF MadeSpared
        <4> QED BY <3>1, <4>1, <4>5
      <3>3. CASE ~DoDestroy(k)
        <4>1. board.live \subseteq board'.live
          <5>1. /\ \A d, read, name : board.live \subseteq Stamped(Minted(board, d, read), d, name).live
                /\ \A d, name : Stamped(board, d, name).live = board.live
                /\ \A d, p : Joined(PluggedIn(board, d), d, p).live = board.live
                /\ \A d : /\ Addressed(board, d).live = board.live
                          /\ Nudged(board, d).live = board.live
                          /\ Severed(board, d).live = board.live
                          /\ Unbound(board, d).live = board.live
            BY <1>0 DEF Minted, Stamped, Addressed, Joined, PluggedIn, Nudged, Severed, Unbound, Boards
          <5> QED BY <1>5, <3>3, <5>1
                 DEF Do, DoCreate, DoSetMac, DoConnect, DoBind, DoDisconnect, DoUnbind, DoSetLabel
        <4> QED BY <3>1, <4>1
      <3> QED BY <3>2, <3>3
    <2> QED BY <2>1, <2>2 DEF RelabelsLive
  <1>6. CASE UnwindRow \/ UnwindRowFails \/ OperatorEdits
    <2>1. \A k \in Ports : due'[k] = {}
      BY <1>6 DEF UnwindRow, UnwindRowFails, OperatorEdits, engine, TypeInv, Staging
    <2> QED BY <2>1 DEF RelabelsLive
  <1> QED BY <1>1, <1>2, <1>3, <1>4, <1>5, <1>6, StepKinds

LEMMA UnsettledStep == ASSUME Unsettled, [Next]_vars PROVE Unsettled'
  <1>1. ASSUME NEW k \in Keys, Do(k) PROVE Unsettled'
    BY <1>1 DEF Do, DoCreate, DoSetMac, DoConnect, DoBind, DoDisconnect, DoUnbind, DoDestroy,
                DoSetLabel, Turn, Applying, Advance, Unchanged, Unsettled
  <1>2. CASE (\E how : End(how)) \/ FailurePolicy
    BY <1>2 DEF End, FailurePolicy, Unsettled
  <1> QED BY <1>1, <1>2, StepKinds
          DEF Start, PassConverged, PassDeadline, PassPlanned, PrunePlanned, SweepNext, UnwindRow,
              UnwindRowFails, Probe, OperatorEdits, engine, vars, Unsettled

LEMMA SweepsStep ==
  ASSUME TypeInv, SweepsUndeclared, [Next]_vars
  PROVE  SweepsUndeclared'
  <1>0. /\ board \in Boards /\ due \in [Keys -> SUBSET Kinds] /\ Sweep \in Keys
        /\ seen \in [Keys -> Dpnis \cup {None}] /\ cands \subseteq Dpnis
    BY DEF TypeInv, TypeOK, Keys
  <1>1. ASSUME pc' # "sweep", due'[Sweep] = {}, cands' = {} PROVE SweepsUndeclared'
    BY <1>1 DEF SweepsUndeclared
  <1>2. CASE (\E how : End(how)) \/ FailurePolicy
    BY <1>0, <1>1, <1>2 DEF End, FailurePolicy, NothingDue
  <1>3. CASE Start \/ PassConverged \/ PassDeadline \/ PassPlanned \/ UnwindRow \/ UnwindRowFails
               \/ OperatorEdits
    <2>1. pc # "sweep" /\ pc' # "sweep" /\ cands' = cands /\ due'[Sweep] \in {{}, due[Sweep]}
      BY <1>0, <1>3 DEF Start, PassConverged, PassDeadline, PassPlanned, UnwindRow, UnwindRowFails,
                        OperatorEdits, engine, Planned
    <2> QED BY <1>1, <2>1 DEF TypeInv, Staging
  <1>4. CASE PrunePlanned
    <2>1. /\ opts' = opts /\ opts.prune /\ board' = board /\ cands' = Candidates
          /\ due'[Sweep] = {}
      BY <1>4 DEF PrunePlanned, TypeInv, Staging
    <2> QED BY <2>1 DEF SweepsUndeclared, Candidates, Undeclared
  <1>5. CASE SweepNext
    <2>1. PICK d \in cands : cands' = cands \ {d} /\ seen' = [seen EXCEPT ![Sweep] = d]
      BY <1>5 DEF SweepNext
    <2>2. seen'[Sweep] = d /\ board' = board /\ opts' = opts /\ pc' = pc
      BY <1>0, <1>5, <2>1 DEF SweepNext
    <2> QED BY <2>1, <2>2 DEF SweepsUndeclared, Undeclared
  <1>6. ASSUME NEW k \in Keys, Do(k) PROVE SweepsUndeclared'
    <2>1. PICK kind \in Kinds : Turn(k, kind) /\ Advance(k, kind) /\ Unchanged
      BY <1>6, DoEffect
    <2>2. CASE k \in Ports
      <3>1. pc = "apply" /\ due[Sweep] = {} /\ cands = {}
        BY <2>1, <2>2, TurnFacts DEF TypeInv, Staging
      <3>2. due'[Sweep] = {} /\ pc' # "sweep" /\ cands' = {}
        BY <1>0, <2>1, <3>1 DEF Advance, Unchanged
      <3> QED BY <1>1, <3>2
    <2>3. CASE k = Sweep
      <3>1. /\ pc = "sweep" /\ pc' = "sweep" /\ cands' = cands /\ seen' = seen /\ opts' = opts
            /\ due'[Sweep] = due[Sweep] \ {kind} /\ due[Sweep] # {} /\ kind \in due[Sweep]
        BY <1>0, <2>1, <2>3, TurnFacts DEF Advance, Unchanged, Turn
      <3>2. CASE DoDestroy(k)
        <4>1. kind = "destroy" \/ kind # "destroy"
          OBVIOUS
        <4>2. due'[Sweep] = {}
          <5>1. Turn(k, "destroy") /\ Advance(k, "destroy")
            BY <3>2 DEF DoDestroy
          <5>2. due[Sweep] \subseteq {"disconnect", "unbind", "destroy"}
            BY DEF TypeInv, DueNamesObject, Teardown
          <5>3. "disconnect" \notin due[Sweep] /\ "unbind" \notin due[Sweep]
            BY <2>3, <5>1 DEF Turn, Rank
          <5> QED BY <1>0, <2>3, <5>1, <5>2, <5>3 DEF Advance
        <4>3. \A e \in cands : board'.label[e] = board.label[e]
          BY <1>0, <2>3, <3>1, <3>2 DEF DoDestroy, Destroyed, Boards, SweepsUndeclared
        <4> QED BY <3>1, <4>2, <4>3 DEF SweepsUndeclared, Undeclared
      <3>3. CASE ~DoDestroy(k)
        <4>1. DoDisconnect(k) \/ DoUnbind(k)
          <5>1. \A x \in {"create", "setmac", "connect", "bind", "setlabel"} : ~Turn(k, x)
            BY <2>3 DEF TypeInv, DueNamesObject, Teardown, Turn
          <5> QED BY <1>6, <3>3, <5>1 DEF Do, DoCreate, DoSetMac, DoConnect, DoBind, DoSetLabel
        <4>2. board'.label = board.label
          BY <1>0, <4>1 DEF DoDisconnect, DoUnbind, Severed, Unbound, Boards
        <4> QED BY <3>1, <4>2 DEF SweepsUndeclared, Undeclared
      <3> QED BY <3>2, <3>3
    <2> QED BY <2>2, <2>3 DEF Keys
  <1>7. CASE (\E d \in Dpnis : Probe(d)) \/ UNCHANGED vars
    <2>1. UNCHANGED <<pc, opts, due, seen, cands>> /\ board'.label = board.label
      BY <1>0, <1>7 DEF Probe, Probed, Boards, engine, vars
    <2> QED BY <2>1 DEF SweepsUndeclared, Undeclared
  <1> QED BY <1>2, <1>3, <1>4, <1>5, <1>6, <1>7, StepKinds


-----------------------------------------------------------------------------
(* The journal. *)

\* A journal one row longer, or one row shorter.
LEMMA Longer ==
  ASSUME journal \in Seq(JournalRows), NEW row, journal' = Append(journal, row)
  PROVE  /\ \A i \in 1 .. Len(journal) : i \in 1 .. Len(journal') /\ journal'[i] = journal[i]
         /\ \E i \in 1 .. Len(journal') : journal'[i] = row
         /\ \A i \in 1 .. Len(journal') : journal'[i] = row \/ (\E j \in 1 .. Len(journal) : journal'[i] = journal[j])
  <1>1. /\ Len(journal) \in Nat /\ Len(journal') = Len(journal) + 1
        /\ \A i \in 1 .. Len(journal) : journal'[i] = journal[i]
        /\ journal'[Len(journal) + 1] = row
    OBVIOUS
  <1>2. \A i \in 1 .. Len(journal) + 1 : i \in 1 .. Len(journal) \/ i = Len(journal) + 1
    BY <1>1
  <1>3. Len(journal) + 1 \in 1 .. Len(journal')
    BY <1>1
  <1> QED BY <1>1, <1>2, <1>3

LEMMA Shorter ==
  ASSUME journal \in Seq(JournalRows), journal # << >>, journal' = Rest
  PROVE  /\ \A i \in 1 .. Len(journal) :
              journal[i] = LastRow \/ (\E j \in 1 .. Len(journal') : journal'[j] = journal[i])
         /\ \A j \in 1 .. Len(journal') : j \in 1 .. Len(journal) /\ journal'[j] = journal[j]
         /\ Len(journal) \in 1 .. Len(journal)
  <1>1. Len(journal) \in Nat \ {0}
    BY EmptySeq
  <1>2. Rest = [i \in 1 .. Len(journal) - 1 |-> journal[i]]
    BY <1>1 DEF Rest
  <1>3. Len(journal') = Len(journal) - 1 /\ \A i \in 1 .. Len(journal) - 1 : journal'[i] = journal[i]
    BY <1>1, <1>2
  <1>4. \A i \in 1 .. Len(journal) : i \in 1 .. Len(journal) - 1 \/ i = Len(journal)
    BY <1>1
  <1> QED BY <1>1, <1>3, <1>4 DEF LastRow

LEMMA RowsKept ==
  ASSUME journal \in Seq(JournalRows), NEW d, HasRow(d)
  PROVE  /\ \A row : journal' = Append(journal, row) => HasRow(d)'
         /\ journal # << >> /\ journal' = Rest /\ LastRow # [kind |-> "created", dpni |-> d] =>
              HasRow(d)'
  BY Longer, Shorter DEF HasRow

\* An undone row's object is gone if it was a create's; nothing else goes.
LEMMA UndoneFacts ==
  ASSUME board \in Boards, NEW row \in JournalRows, NEW b \in {board, Unbound(board, row.dpni), Undone(row)}
  PROVE  /\ OnlyAt(b, row.dpni) /\ b.live \subseteq board.live
         /\ \A e \in Dpnis : b.label[e] \in {board.label[e], None} /\ b.peer[e] \in {board.peer[e], None}
         /\ row.kind = "created" /\ b = Undone(row) => row.dpni \notin b.live
  <1> DEFINE d == row.dpni
             gone == Destroyed(Unbound(board, d), d)
  <1>1. d \in Dpnis /\ row.kind \in {"created", "connected", "bound"}
    BY DEF JournalRows
  <1>2. Undone(row) = IF row.kind = "created" THEN gone
                      ELSE IF row.kind = "connected" THEN Severed(board, d) ELSE Unbound(board, d)
    BY <1>1 DEF Undone
  <1>3. OnlyAt(b, d)
    BY <1>2, AtOps
  <1>4. /\ Unbound(board, d).live = board.live
        /\ Unbound(board, d).label = board.label /\ Unbound(board, d).peer = board.peer
    BY DEF Unbound, Boards
  <1>5. /\ Severed(board, d).live = board.live
        /\ Severed(board, d).label = board.label
        /\ Severed(board, d).peer = [board.peer EXCEPT ![d] = None]
    BY DEF Severed, Boards
  <1>6. /\ gone.live = board.live \ {d}
        /\ gone.label = [board.label EXCEPT ![d] = None]
        /\ gone.peer = [board.peer EXCEPT ![d] = None]
    <2>1. Unbound(board, d) \in Boards
      BY <1>1, BoardOpsType
    <2>2. \A c \in Boards : /\ Destroyed(c, d).live = c.live \ {d}
                            /\ Destroyed(c, d).label = [c.label EXCEPT ![d] = None]
                            /\ Destroyed(c, d).peer = [c.peer EXCEPT ![d] = None]
      BY DEF Destroyed, Boards
    <2> QED BY <1>4, <2>1, <2>2
  <1>7. board.label \in [Dpnis -> Dpmacs \cup {None}] /\ board.peer \in [Dpnis -> Dpmacs \cup {None}]
    BY DEF Boards
  <1>8. b \in {board, Unbound(board, d), Severed(board, d), gone}
    BY <1>2
  <1>9. /\ b.live \subseteq board.live
        /\ \A e \in Dpnis : b.label[e] \in {board.label[e], None} /\ b.peer[e] \in {board.peer[e], None}
    <2>1. CASE b = board
      BY <2>1
    <2>2. CASE b = Unbound(board, d)
      BY <1>4, <2>2
    <2>3. CASE b = Severed(board, d)
      BY <1>1, <1>5, <1>7, <2>3
    <2>4. CASE b = gone
      BY <1>1, <1>6, <1>7, <2>4
    <2> QED BY <1>8, <2>1, <2>2, <2>3, <2>4
  <1>10. row.kind = "created" /\ b = Undone(row) => d \notin b.live
    BY <1>2, <1>6
  <1> QED BY <1>3, <1>9, <1>10

LEMMA UnwindFacts ==
  ASSUME TypeInv, UnwindRow \/ UnwindRowFails
  PROVE  /\ pc = "unwind" /\ journal # << >> /\ journal' = Rest /\ LastRow \in JournalRows
         /\ UNCHANGED <<pc, opts, due, seen, created, cands, before, outcome>>
         /\ board' \in {board, Unbound(board, LastRow.dpni), Undone(LastRow)}
         /\ unreversed \subseteq unreversed'
         /\ LastRow \in unreversed' \/ board' = Undone(LastRow)
  BY JournalFacts DEF TypeInv, TypeOK, UnwindRow, UnwindRowFails, HalfUndone

\* A transition carried out keeps every row, and adds one for what it makes.
LEMMA DoRows ==
  ASSUME TypeInv, NEW k \in Keys, Do(k)
  PROVE  /\ \A e : HasRow(e) => HasRow(e)'
         /\ \/ created' = created /\ board'.live \subseteq board.live
            \/ \E d \in Dpnis \ board.live :
                 /\ board'.live = board.live \cup {d}
                 /\ created' = [created EXCEPT ![k] = d] /\ HasRow(d)'
  <1>0. journal \in Seq(JournalRows)
    BY DEF TypeInv, TypeOK
  <1>1. \/ \E d \in Dpnis \ board.live :
             /\ board'.live = board.live \cup {d}
             /\ created' = [created EXCEPT ![k] = d] /\ Record("created", d)
        \/ /\ created' = created /\ board'.live \subseteq board.live
           /\ journal' = journal \/ \E what \in {"connected", "bound"} : Record(what, Resolve(k))
    BY DoEffect
  <1>2. journal' = journal \/ \E row : journal' = Append(journal, row)
    BY <1>1 DEF Record
  <1>3. ASSUME journal' = journal PROVE \A e : HasRow(e) => HasRow(e)'
    BY <1>3 DEF HasRow
  <1>4. ASSUME NEW row, journal' = Append(journal, row) PROVE \A e : HasRow(e) => HasRow(e)'
    BY <1>0, <1>4, RowsKept
  <1>5. \A e : HasRow(e) => HasRow(e)'
    BY <1>2, <1>3, <1>4
  <1>6. \A d : Record("created", d) => HasRow(d)'
    BY <1>0, Longer DEF Record, HasRow
  <1> QED BY <1>1, <1>5, <1>6

LEMMA RecordedStep ==
  ASSUME TypeInv, CreatedRecorded, [Next]_vars
  PROVE  CreatedRecorded'
  <1>0. /\ board \in Boards /\ journal \in Seq(JournalRows)
        /\ created \in [Ports -> Dpnis \cup {None}]
    BY DEF TypeInv, TypeOK
  <1>1. CASE \E how : End(how)
    BY <1>1 DEF End, NoneCreated, CreatedRecorded
  <1>2. ASSUME UNCHANGED <<created, journal, unreversed>>, pc # "unwind"
        PROVE  CreatedRecorded'
    BY <1>2 DEF CreatedRecorded, HasRow
  <1>3. CASE FailurePolicy /\ Running
    BY <1>1, <1>2, <1>3 DEF FailurePolicy, Running
  <1>4. CASE Start \/ PassConverged \/ PassDeadline \/ PassPlanned \/ PrunePlanned \/ SweepNext
               \/ OperatorEdits
    BY <1>2, <1>4 DEF Start, PassConverged, PassDeadline, PassPlanned, PrunePlanned, SweepNext,
                      OperatorEdits, engine
  <1>5. ASSUME NEW k \in Keys, Do(k) PROVE CreatedRecorded'
    <2>1. pc # "unwind"
      BY <1>5, DoEffect DEF Turn, Applying
    <2>2. \A q \in Ports : created[q] # None =>
            \E i \in 1 .. Len(journal') : journal'[i] = [kind |-> "created", dpni |-> created[q]]
      <3>1. \A q \in Ports : created[q] # None => HasRow(created[q])
        BY <2>1 DEF CreatedRecorded
      <3> QED BY <1>5, <3>1, DoRows DEF HasRow
    <2>3. CASE created' = created
      BY <2>2, <2>3 DEF CreatedRecorded, HasRow
    <2>4. ASSUME NEW d \in Dpnis, created' = [created EXCEPT ![k] = d], HasRow(d)'
          PROVE  CreatedRecorded'
      <3>1. \A q \in Ports : created'[q] \in {created[q], d}
        BY <1>0, <2>4
      <3>2. \A q \in Ports : created'[q] # None =>
              \E i \in 1 .. Len(journal') : journal'[i] = [kind |-> "created", dpni |-> created'[q]]
        BY <2>2, <2>4, <3>1 DEF HasRow
      <3> QED BY <3>2 DEF CreatedRecorded, HasRow
    <2> QED BY <1>5, <2>3, <2>4, DoRows
  <1>6. CASE UnwindRow \/ UnwindRowFails
    <2>1. \A q \in Ports : created'[q] = created[q]
      BY <1>6, UnwindFacts
    <2>2. /\ pc = "unwind" /\ pc' = "unwind" /\ journal # << >> /\ journal' = Rest
          /\ LastRow \in JournalRows /\ board'.live \subseteq board.live
          /\ unreversed \subseteq unreversed'
          /\ LastRow.kind = "created" => LastRow \in unreversed' \/ LastRow.dpni \notin board'.live
      BY <1>0, <1>6, UnwindFacts, UndoneFacts
    <2>3. ASSUME NEW q \in Ports, created[q] # None
          PROVE  \/ HasRow(created[q])'
                 \/ Reported(created[q])' \/ created'[q] \notin board'.live
      <3>1. PICK d \in Dpnis : d = created[q] /\ d = created'[q]
        BY <1>0, <2>1, <2>3
      <3> DEFINE row == [kind |-> "created", dpni |-> d]
      <3>2. CASE HasRow(d) /\ LastRow # row
        <4>1. HasRow(d)'
          BY <1>0, <2>2, <3>2, RowsKept
        <4> QED BY <3>1, <4>1 DEF HasRow
      <3>3. CASE LastRow = row
        BY <2>2, <3>1, <3>3 DEF Reported
      <3>4. CASE ~HasRow(d)
        BY <2>2, <2>3, <3>1, <3>4 DEF CreatedRecorded, Reported
      <3> QED BY <3>2, <3>3, <3>4
    <2> QED BY <2>1, <2>2, <2>3 DEF CreatedRecorded, HasRow, Reported
  <1>7. CASE (\E d \in Dpnis : Probe(d)) \/ UNCHANGED vars
    <2>1. UNCHANGED <<pc, created, journal, unreversed>> /\ board'.live = board.live
      BY <1>0, <1>7 DEF Probe, Probed, Boards, engine, vars
    <2> QED BY <2>1 DEF CreatedRecorded, HasRow, Reported
  <1> QED BY <1>1, <1>3, <1>4, <1>5, <1>6, <1>7, StepKinds

LEMMA PartialNew ==
  ASSUME TypeInv, NEW k \in Keys, NEW kind \in Kinds, Turn(k, kind), NEW b \in Partial(k, kind)
  PROVE  \/ b.live \subseteq board.live
         \/ \E d \in Dpnis \ board.live :
              /\ b.live = board.live \cup {d} /\ b.peer = board.peer
              /\ b.label[d] \in Ports \cup {board.label[d]}
  <1>0. board \in Boards
    BY DEF TypeInv, TypeOK
  <1>1. \/ b = board
        \/ \E d \in Dpnis \ board.live, read \in ReadBacks : b = Minted(board, d, read)
        \/ /\ kind = "create"
           /\ \E d \in Dpnis \ board.live, read \in ReadBacks : b = Stamped(Minted(board, d, read), d, k)
        \/ b = Addressed(board, Resolve(k))
        \/ b = PluggedIn(board, Resolve(k))
        \/ b = Joined(PluggedIn(board, Resolve(k)), Resolve(k), k)
        \/ b = Stamped(board, seen[k], k)
        \/ b = Destroyed(board, seen[k])
    BY DEF Partial
  <1>2. \A d, read : /\ Minted(board, d, read).live = board.live \cup {d}
                     /\ Minted(board, d, read).label = board.label
                     /\ Minted(board, d, read).peer = board.peer
    BY <1>0 DEF Minted, Boards
  <1>m. ASSUME NEW d \in Dpnis, NEW read
        PROVE  /\ Stamped(Minted(board, d, read), d, k).live = board.live \cup {d}
               /\ Stamped(Minted(board, d, read), d, k).label[d] = k
               /\ Stamped(Minted(board, d, read), d, k).peer = board.peer
    BY <1>0 DEF Stamped, Minted, Boards
  <1>n. kind = "create" => k \in Ports
    BY TurnFacts DEF Teardown, Kinds
  <1>3. \A d, name : /\ Addressed(board, d).live = board.live
                     /\ PluggedIn(board, d).live = board.live
                     /\ Joined(PluggedIn(board, d), d, name).live = board.live
                     /\ Stamped(board, d, name).live = board.live
                     /\ Destroyed(board, d).live = board.live \ {d}
    BY <1>0 DEF Addressed, PluggedIn, Joined, Stamped, Destroyed, Boards
  <1> QED BY <1>1, <1>2, <1>m, <1>n, <1>3

\* With a row for all that is new, nothing is leaked.
LEMMA AllRecorded ==
  ASSUME pc' # "unwind", \A d \in board'.live \ before'.live : HasRow(d)'
  PROVE  NewRecorded'
  <1>1. Leaked' = {}
    BY DEF Leaked
  <1> QED BY <1>1 DEF NewRecorded

LEMMA NewStep ==
  ASSUME TypeInv, Sound(board), NewRecorded, [Next]_vars
  PROVE  NewRecorded'
  <1>0. /\ board \in Boards /\ journal \in Seq(JournalRows)
        /\ Unwired(board) /\ Unnamed(board)
    BY DEF TypeInv, TypeOK, Sound
  <1>1. CASE (\E how : End(how)) \/ OperatorEdits
    BY <1>1 DEF End, OperatorEdits, NewRecorded
  <1>2. ASSUME FailurePolicy, Running,
               board' = board \/ \E k \in Keys, kind \in Kinds : Turn(k, kind) /\ board' \in Partial(k, kind)
        PROVE  NewRecorded'
    <2>1. CASE opts.policy # "rollback"
      BY <1>1, <1>2, <2>1 DEF FailurePolicy
    <2>2. CASE opts.policy = "rollback"
      <3>1. UNCHANGED <<journal, unreversed, before>> /\ pc' = "unwind"
        BY <1>2, <2>2 DEF FailurePolicy
      <3>2. \A d \in board.live \ before.live : HasRow(d)
        BY <1>2 DEF NewRecorded, Running
      <3>3. Leaked' \subseteq board'.live \ board.live
        BY <3>1, <3>2 DEF Leaked, HasRow
      <3>4. \/ board'.live \subseteq board.live
            \/ \E d \in Dpnis \ board.live :
                 /\ board'.live = board.live \cup {d} /\ board'.peer = board.peer
                 /\ board'.label[d] \in Ports \cup {board.label[d]}
        BY <1>0, <1>2, PartialNew
      <3> QED BY <1>0, <3>1, <3>3, <3>4 DEF NewRecorded, Unwired, Unnamed
    <2> QED BY <2>1, <2>2
  <1>3. CASE Start
    BY <1>3, AllRecorded DEF Start
  <1>4. CASE PassConverged \/ PassDeadline \/ PassPlanned \/ PrunePlanned \/ SweepNext
    <2>1. UNCHANGED <<board, before, journal>> /\ pc \notin {"idle", "unwind"} /\ pc' # "unwind"
      BY <1>4 DEF PassConverged, PassDeadline, PassPlanned, PrunePlanned, SweepNext, engine
    <2> QED BY <2>1, AllRecorded DEF NewRecorded, HasRow
  <1>5. ASSUME NEW k \in Keys, Do(k) PROVE NewRecorded'
    <2>1. pc \notin {"idle", "unwind"} /\ pc' # "unwind" /\ before' = before
      BY <1>5, DoEffect DEF Turn, Applying, Advance, Unchanged
    <2>2. \A d \in board'.live \ before'.live : HasRow(d)'
      BY <1>5, <2>1, DoRows DEF NewRecorded
    <2> QED BY <2>1, <2>2, AllRecorded
  <1>6. CASE UnwindRow \/ UnwindRowFails
    <2>1. /\ pc = "unwind" /\ pc' = "unwind" /\ journal # << >> /\ journal' = Rest
          /\ before' = before /\ unreversed \subseteq unreversed'
          /\ board'.live \subseteq board.live
          /\ \A d \in Dpnis : /\ board'.label[d] \in {board.label[d], None}
                             /\ board'.peer[d] \in {board.peer[d], None}
          /\ LastRow.kind = "created" => LastRow \in unreversed' \/ LastRow.dpni \notin board'.live
      BY <1>0, <1>6, UnwindFacts, UndoneFacts
    <2>2. ASSUME NEW d \in Leaked' PROVE d \in Leaked /\ d \in Dpnis
      <3>1. d \in board.live \ before.live /\ d \in board'.live /\ d \in Dpnis
        BY <1>0, <2>1, <2>2 DEF Leaked, Boards
      <3>2. ~HasRow(d)' /\ ~Reported(d)' /\ ~Reported(d)
        BY <2>1, <2>2 DEF Leaked, HasRow, Reported
      <3>3. ~HasRow(d)
        BY <1>0, <2>1, <3>1, <3>2, RowsKept DEF Reported
      <3> QED BY <3>1, <3>2, <3>3 DEF Leaked
    <2> QED BY <2>1, <2>2 DEF NewRecorded
  <1>7. CASE (\E d \in Dpnis : Probe(d)) \/ UNCHANGED vars
    <2>1. /\ UNCHANGED <<pc, before, journal, unreversed>>
          /\ board'.live = board.live /\ board'.label = board.label /\ board'.peer = board.peer
      BY <1>0, <1>7, ZenonT(40) DEF Probe, Probed, Boards, engine, vars
    <2>2. Leaked' = Leaked
      BY <2>1 DEF Leaked, HasRow, Reported
    <2> QED BY <2>1, <2>2 DEF NewRecorded, HasRow
  <1> QED BY <1>1, <1>2, <1>3, <1>4, <1>5, <1>6, <1>7, StepKinds


-----------------------------------------------------------------------------
(* What belongs to somebody else. *)

LEMMA ForeignFixed ==
  ASSUME UNCHANGED <<before, opts>>, NEW d
  PROVE  Foreign(d)' <=> Foreign(d)
  BY DEF Foreign

LEMMA ObjectSpared ==
  ASSUME TypeInv, ForeignSpared, ForeignUntouched, pc # "idle", NEW k \in Keys, NEW d, ObjectOf(k, d)
  PROVE  ~Foreign(d)
  <1>1. before.live \subseteq Dpnis
    BY DEF TypeInv, TypeOK, Boards
  <1>2. CASE d = seen[k] \/ (k \in Ports /\ d = created[k])
    BY <1>2 DEF ForeignSpared
  <1>3. CASE d \notin board.live
    BY <1>1, <1>3 DEF ForeignUntouched, Foreign
  <1> QED BY <1>2, <1>3 DEF ObjectOf

LEMMA ForeignAt ==
  ASSUME ForeignUntouched, pc # "idle", UNCHANGED <<before, opts>>,
         NEW d, ~Foreign(d), OnlyAt(board', d)
  PROVE  ForeignUntouched'
  <1>1. ASSUME NEW e \in Dpnis, Foreign(e)
        PROVE  /\ e \in board'.live
               /\ board'.peer[e] = before.peer[e]
               /\ board'.label[e] = before.label[e]
               /\ board'.cfg[e] = before.cfg[e]
    <2>1. e # d
      BY <1>1
    <2> QED BY <1>1, <2>1 DEF OnlyAt, ForeignUntouched
  <1> QED BY <1>1, ForeignFixed DEF ForeignUntouched

LEMMA ForeignStep ==
  ASSUME TypeInv, IdleClean, Gated, ForeignSpared, ForeignUntouched, [Next]_vars
  PROVE  ForeignSpared' /\ ForeignUntouched'
  <1>0. /\ board \in Boards /\ before \in Boards /\ journal \in Seq(JournalRows)
        /\ created \in [Ports -> Dpnis \cup {None}] /\ seen \in [Keys -> Dpnis \cup {None}]
        /\ Ports \subseteq Keys /\ Sweep \in Keys /\ None \notin before.live
        /\ before.live \subseteq Dpnis
    BY BoardAssumption DEF TypeInv, TypeOK, Keys, Boards
  <1>n. ~Foreign(None)
    BY <1>0 DEF Foreign
  <1>1. CASE (\E how : End(how)) \/ OperatorEdits
    BY <1>1 DEF End, OperatorEdits, ForeignSpared, ForeignUntouched
  <1>f. ASSUME ForeignUntouched, pc # "idle", UNCHANGED <<board, before, opts>>
        PROVE  ForeignUntouched'
    <2>1. OnlyAt(board', None)
      BY <1>0, <1>f, AtOps
    <2> QED BY <1>n, <1>f, <2>1, ForeignAt
  <1>2. ASSUME FailurePolicy, Running,
               board' = board \/ \E k \in Keys, kind \in Kinds : board' \in Partial(k, kind)
        PROVE  ForeignSpared' /\ ForeignUntouched'
    <2>1. CASE opts.policy # "rollback"
      BY <1>1, <1>2, <2>1 DEF FailurePolicy
    <2>2. CASE opts.policy = "rollback"
      <3>1. /\ UNCHANGED <<opts, before, created, journal>> /\ pc # "idle"
            /\ \A k \in Keys : seen'[k] = None
            /\ cands' = {}
        BY <1>2, <2>2 DEF FailurePolicy, NoneSeen, Running
      <3>2. ForeignSpared'
        BY <1>n, <3>1, ForeignFixed DEF ForeignSpared
      <3>3. ForeignUntouched'
        BY <1>2, <1>f, <3>1, PartialAt, ObjectSpared, ForeignAt
      <3> QED BY <3>2, <3>3
    <2> QED BY <2>1, <2>2
  <1>3. CASE Start
    <2>1. /\ before' = board /\ board' = board /\ journal' = << >>
          /\ cands' = {} /\ \A k \in Keys : seen'[k] = None
          /\ \A k \in Ports : created'[k] = None
      BY <1>3 DEF Start, IdleClean, NoneSeen, NoneCreated, Gated, TypeInv, Staging
    <2>2. ~Foreign(None)'
      BY <1>0, <2>1, BoardAssumption DEF Foreign, Boards
    <2>3. ForeignSpared'
      BY <2>1, <2>2 DEF ForeignSpared
    <2>4. ForeignUntouched'
      BY <2>1 DEF ForeignUntouched, Foreign
    <2> QED BY <2>3, <2>4
  <1>4. CASE PassConverged \/ PassDeadline
    <2>1. UNCHANGED <<board, before, opts, seen, created, cands, journal>> /\ pc # "idle"
      BY <1>4 DEF PassConverged, PassDeadline, engine
    <2> QED BY <1>f, <2>1, ForeignFixed DEF ForeignSpared
  <1>5. CASE PassPlanned
    <2>1. /\ UNCHANGED <<board, before, opts, created, cands, journal>> /\ pc # "idle"
          /\ seen'[Sweep] = None
          /\ \A k \in Ports : seen'[k] = ConnectedTo(board, k)
      BY <1>0, <1>5, SweepIsNoPort DEF PassPlanned
    <2>2. ASSUME NEW k \in Ports, Foreign(ConnectedTo(board, k)) PROVE FALSE
      <3>1. ConnectedTo(board, k) \in Dpnis /\ board.peer[ConnectedTo(board, k)] = k
        BY <1>0, <1>n, <2>2, ConnectedToFacts, SweepIsNoPort
      <3> QED BY <2>1, <2>2, <3>1 DEF ForeignUntouched, Foreign
    <2>3. ForeignSpared'
      BY <1>n, <2>1, <2>2, ForeignFixed DEF ForeignSpared, Keys
    <2> QED BY <1>f, <2>1, <2>3
  <1>6. CASE PrunePlanned
    <2>1. /\ UNCHANGED <<board, before, opts, seen, created, journal>> /\ pc # "idle"
          /\ cands' = Candidates /\ opts.prune /\ ~(opts.allow < 2)
      BY <1>6 DEF PrunePlanned
    <2>2. ASSUME NEW d \in Candidates, Foreign(d) PROVE FALSE
      BY <1>0, <2>1, <2>2 DEF Candidates, ForeignUntouched, Foreign, Boards
    <2>3. ForeignSpared'
      BY <2>1, <2>2, ForeignFixed DEF ForeignSpared
    <2> QED BY <1>f, <2>1, <2>3
  <1>7. CASE SweepNext
    <2>1. PICK d \in cands : cands' = cands \ {d} /\ seen' = [seen EXCEPT ![Sweep] = d]
      BY <1>7 DEF SweepNext
    <2>2. /\ UNCHANGED <<board, before, opts, created, journal>> /\ pc # "idle"
          /\ \A k \in Keys : seen'[k] \in {seen[k], d}
      BY <1>0, <1>7, <2>1 DEF SweepNext
    <2>3. ForeignSpared'
      BY <2>1, <2>2, ForeignFixed DEF ForeignSpared
    <2> QED BY <1>f, <2>2, <2>3
  <1>8. ASSUME NEW k \in Keys, Do(k) PROVE ForeignSpared' /\ ForeignUntouched'
    <2>1. PICK kind \in Kinds :
           /\ Turn(k, kind) /\ Unchanged
           /\ \E d : OnlyAt(board', d) /\ ObjectOf(k, d)
           /\ \/ \E d \in Dpnis \ board.live :
                    created' = [created EXCEPT ![k] = d] /\ Record("created", d)
              \/ /\ created' = created
                 /\ journal' = journal \/ \E what \in {"connected", "bound"} : Record(what, Resolve(k))
      BY <1>8, DoEffect
    <2>2. UNCHANGED <<before, opts, seen, cands>> /\ pc # "idle"
      BY <2>1 DEF Unchanged, Turn, Applying
    <2>3. ForeignUntouched'
      BY <2>1, <2>2, ObjectSpared, ForeignAt
    <2>4. \A q \in Ports : ~Foreign(created'[q])
      <3>1. \A d \in Dpnis \ board.live : ~Foreign(d)
        BY <2>2, ObjectSpared DEF ObjectOf
      <3>2. \A q \in Ports : created'[q] = created[q] \/ created'[q] \in Dpnis \ board.live
        BY <1>0, <2>1
      <3> QED BY <2>2, <3>1, <3>2 DEF ForeignSpared
    <2>5. \A i \in 1 .. Len(journal') : ~Foreign(journal'[i].dpni)
      <3>1. journal' = journal \/ \E what, d : Record(what, d) /\ ~Foreign(d)
        BY <2>1, <2>2, ObjectSpared, ResolvesTo DEF ObjectOf
      <3>2. ASSUME NEW what, NEW d, Record(what, d), ~Foreign(d)
            PROVE  \A i \in 1 .. Len(journal') : ~Foreign(journal'[i].dpni)
        <4>1. \A i \in 1 .. Len(journal') :
                \/ journal'[i] = [kind |-> what, dpni |-> d]
                \/ \E j \in 1 .. Len(journal) : journal'[i] = journal[j]
          BY <1>0, <3>2, Longer DEF Record
        <4> QED BY <2>2, <3>2, <4>1 DEF ForeignSpared
      <3> QED BY <2>2, <3>1, <3>2 DEF ForeignSpared
    <2>6. ForeignSpared'
      BY <2>2, <2>4, <2>5, ForeignFixed DEF ForeignSpared
    <2> QED BY <2>3, <2>6
  <1>9. CASE UnwindRow \/ UnwindRowFails
    <2>1. /\ pc = "unwind" /\ journal # << >> /\ journal' = Rest
          /\ UNCHANGED <<pc, opts, seen, created, cands, before>>
          /\ OnlyAt(board', LastRow.dpni)
      BY <1>0, <1>9, UnwindFacts, UndoneFacts
    <2>2. \A j \in 1 .. Len(journal') : ~Foreign(journal'[j].dpni)
      BY <1>0, <2>1, Shorter DEF ForeignSpared
    <2>3. ~Foreign(LastRow.dpni)
      BY <1>0, <2>1, Shorter DEF ForeignSpared, LastRow
    <2>4. ForeignUntouched'
      BY <2>1, <2>3, ForeignAt
    <2>5. ForeignSpared'
      BY <2>1, <2>2, ForeignFixed DEF ForeignSpared
    <2> QED BY <2>4, <2>5
  <1>10. CASE (\E d \in Dpnis : Probe(d)) \/ UNCHANGED vars
    <2>1. /\ UNCHANGED <<pc, opts, seen, created, cands, before, journal>>
          /\ board'.live = board.live /\ board'.label = board.label /\ board'.peer = board.peer
          /\ board'.cfg = board.cfg
      BY <1>0, <1>10, ZenonT(40) DEF Probe, Probed, Boards, engine, vars
    <2>2. ForeignSpared'
      BY <2>1, ForeignFixed DEF ForeignSpared
    <2>3. ForeignUntouched'
      BY <2>1, ForeignFixed DEF ForeignUntouched
    <2> QED BY <2>2, <2>3
  <1> QED BY <1>1, <1>2, <1>3, <1>4, <1>5, <1>6, <1>7, <1>8, <1>9, <1>10, StepKinds


-----------------------------------------------------------------------------
(* What converged means. *)

Serves(b, d, p) ==
  /\ d \in b.live /\ b.peer[d] = p /\ b.label[d] = p
  /\ p \in Sized => b.cfg[d] # "drift"
  /\ p \in Phy => d \in b.bound
  /\ p \in Actuate => b.mac[d] # "other"

\* A port with nothing to do and no refusal is served by the dpni it shows.
LEMMA PlanServes ==
  ASSUME NEW b \in Boards, NEW p \in Ports \ Absent, NEW prune, NEW runCreated,
         PlanPort(b, p, prune, runCreated) = {},
         p \notin Refusals(b, runCreated)
  PROVE  ConnectedTo(b, p) # None /\ Serves(b, ConnectedTo(b, p), p)
  <1> DEFINE d == ConnectedTo(b, p)
  <1>1. PlanPresent(b, p, runCreated) = {}
    BY DEF PlanPort
  <1>2. d # None
    BY <1>1 DEF PlanPresent, PlanCreate
  <1>3. ~CfgDrift(b, p, d)
    <2>1. SUFFICES ASSUME CfgDrift(b, p, d) PROVE FALSE
      OBVIOUS
    <2>2. d \in runCreated
      BY <1>1, <1>2, <2>1 DEF PlanPresent, PlanTeardown
    <2> QED BY <1>2, <2>1, <2>2 DEF Refusals
  <1>4. PlanRepair(b, p, d) = {}
    BY <1>1, <1>2, <1>3 DEF PlanPresent
  <1>5. /\ b.label[d] = p
        /\ p \in Actuate => b.mac[d] # "other"
        /\ p \in Phy => d \in b.bound
    BY <1>4 DEF PlanRepair, If
  <1>6. d \in b.live /\ b.peer[d] = p
    BY <1>2, ConnectedToFacts, SweepIsNoPort
  <1> QED BY <1>2, <1>3, <1>5, <1>6 DEF Serves, CfgDrift

LEMMA ServesStep ==
  ASSUME TypeInv, Unsettled, SweepsUndeclared, ConvergedServes, [Next]_vars
  PROVE  ConvergedServes'
  <1>0. board \in Boards
    BY DEF TypeInv, TypeOK
  <1>s. ASSUME NEW p \in Ports, NEW d, Serves(board, d, p) PROVE Served(p)
    BY <1>s DEF Serves, Served
  <1>t. ASSUME NEW p \in Ports, NEW d, Serves(board', d, p) PROVE Served(p)'
    BY <1>t DEF Serves, Served
  <1>1. CASE (\E how : End(how)) \/ FailurePolicy \/ OperatorEdits \/ Start \/ PassDeadline
    BY <1>1 DEF End, FailurePolicy, OperatorEdits, Start, PassDeadline, ConvergedServes
  <1>2. CASE PassConverged
    <2>1. /\ board' = board /\ Refusals(board, Fence) = {}
          /\ \A p \in Ports : PlanPort(board, p, opts.prune, Fence) = {}
      BY <1>2, SweepIsNoPort DEF PassConverged, Converged, Planned, Keys
    <2> QED BY <1>0, <1>t, <2>1, PlanServes DEF ConvergedServes
  <1>3. CASE PassPlanned \/ UnwindRow \/ UnwindRowFails
    BY <1>3 DEF PassPlanned, UnwindRow, UnwindRowFails, Unsettled, ConvergedServes
  <1>4. CASE PrunePlanned \/ SweepNext \/ UNCHANGED vars
    <2>1. UNCHANGED <<board, outcome>> /\ (pc' # "idle" => pc # "idle")
      BY <1>4 DEF PrunePlanned, SweepNext, vars
    <2> QED BY <2>1 DEF ConvergedServes, Served
  <1>5. ASSUME NEW k \in Keys, Do(k) PROVE ConvergedServes'
    <2>1. PICK kind \in Kinds : Turn(k, kind) /\ Unchanged
      BY <1>5, DoEffect
    <2>2. outcome' = outcome /\ pc # "idle"
      BY <2>1 DEF Unchanged, Turn, Applying
    <2>3. CASE k \in Ports
      BY <2>1, <2>2, <2>3, TurnFacts DEF Unsettled, ConvergedServes
    <2>4. CASE k = Sweep
      <3>1. DoDisconnect(k) \/ DoUnbind(k) \/ DoDestroy(k)
        <4>1. \A x \in {"create", "setmac", "connect", "bind", "setlabel"} : ~Turn(k, x)
          BY <2>4 DEF TypeInv, DueNamesObject, Teardown, Turn
        <4> QED BY <1>5, <4>1 DEF Do, DoCreate, DoSetMac, DoConnect, DoBind, DoSetLabel
      <3>2. Undeclared(seen[Sweep])
        BY <2>1, <2>4 DEF SweepsUndeclared, Turn
      <3>3. board' \in {Severed(board, seen[k]), Unbound(board, seen[k]), Destroyed(board, seen[k])}
        BY <3>1 DEF DoDisconnect, DoUnbind, DoDestroy
      <3>4. ASSUME NEW p \in Ports, Served(p) PROVE Served(p)'
        <4>1. PICK d \in board.live : Serves(board, d, p)
          BY <3>4 DEF Served, Serves
        <4>2. d # seen[k] /\ d \in Dpnis
          BY <1>0, <2>4, <3>2, <4>1 DEF Undeclared, Serves, Boards
        <4>3. Serves(Severed(board, seen[k]), d, p)
          BY <1>0, <4>1, <4>2 DEF Serves, Severed, Boards
        <4>4. Serves(Unbound(board, seen[k]), d, p)
          BY <1>0, <4>1, <4>2 DEF Serves, Unbound, Boards
        <4>5. Serves(Destroyed(board, seen[k]), d, p)
          BY <1>0, <4>1, <4>2 DEF Serves, Destroyed, Boards
        <4> QED BY <1>t, <3>3, <4>3, <4>4, <4>5
      <3> QED BY <2>2, <3>4 DEF ConvergedServes
    <2> QED BY <2>3, <2>4 DEF Keys
  <1>6. ASSUME NEW e \in Dpnis, Probe(e) PROVE ConvergedServes'
    <2>1. UNCHANGED <<pc, outcome>> /\ board' = Probed(board, e) /\ CanProbe(board, e)
      BY <1>6 DEF Probe
    <2>2. ASSUME NEW p \in Ports, Served(p) PROVE Served(p)'
      <3>1. PICK d \in board.live : Serves(board, d, p)
        BY <2>2 DEF Served, Serves
      <3>2. d # e
        BY <2>1, <3>1, SweepIsNoPort, BoardAssumption DEF CanProbe, Serves
      <3>3. Serves(Probed(board, e), d, p)
        BY <1>0, <3>1, <3>2 DEF Serves, Probed, Boards
      <3> QED BY <1>t, <2>1, <3>3
    <2> QED BY <2>1, <2>2 DEF ConvergedServes
  <1> QED BY <1>1, <1>2, <1>3, <1>4, <1>5, <1>6, StepKinds


-----------------------------------------------------------------------------
(* What follows at any moment. *)

LEMMA HonestNow == ASSUME board \in Boards, Sound(board) PROVE StatusHonest
  <1>1. SUFFICES ASSUME ~HasDiverged(board), NEW p \in Ports \ Absent
        PROVE  /\ Served(p)
               /\ p \in Phy =>
                    /\ Lifecycle(board, p) = "Bound"
                    /\ StandaloneBoundFor(PeerObservationFromRoot(board, p)) <=> p \in board.macdrv
                    /\ CarrierReadable(board, CarrierSource(board, p))
               /\ p \in Actuate => \A burnedIn \in MacReads :
                    JudgeMacRelation(board, p, burnedIn) \in {"Pending", "Overridden"}
    BY DEF StatusHonest
  <1> DEFINE d == ConnectedTo(board, p)
  <1>2. PlanPort(board, p, FALSE, {}) = {} /\ p \notin Refusals(board, {})
    BY <1>1 DEF HasDiverged, Refusals
  <1>3. d # None /\ Serves(board, d, p)
    BY <1>2, PlanServes
  <1>4. Served(p)
    BY <1>3 DEF Serves, Served
  <1>5. ASSUME p \in Phy
        PROVE  /\ Lifecycle(board, p) = "Bound"
               /\ StandaloneBoundFor(PeerObservationFromRoot(board, p)) <=> p \in board.macdrv
               /\ CarrierReadable(board, CarrierSource(board, p))
    <2>1. d \in board.bound /\ p \notin board.macdrv
      BY <1>3, <1>5 DEF Serves, Sound, Claimed
    <2>2. PeerObservationFromRoot(board, p) = "SameContainerKernelPeer"
      BY <1>3 DEF PeerObservationFromRoot
    <2>3. JudgeArbitration(PeerObservationFromRoot(board, p)) = "KernelOwned"
      BY <2>2 DEF JudgeArbitration
    <2>4. CarrierSource(board, p) = <<"dpni", d>>
      BY <2>3 DEF CarrierSource
    <2> QED BY <1>3, <2>1, <2>2, <2>4 DEF Lifecycle, StandaloneBoundFor, CarrierReadable
  <1>6. ASSUME p \in Actuate, NEW burnedIn \in MacReads
        PROVE  JudgeMacRelation(board, p, burnedIn) \in {"Pending", "Overridden"}
    <2>1. board.mac[d] \in {"zero", "want"}
      BY <1>3, <1>6 DEF Serves, Boards, MacReads
    <2> QED BY <1>6, <2>1 DEF JudgeMacRelation
  <1> QED BY <1>4, <1>5, <1>6

LEMMA UnwoundNow ==
  ASSUME TypeInv, CreatedRecorded, NewRecorded
  PROVE  RollbackRemovesCreated /\ LeakIsUnwired
  <1> SUFFICES ASSUME pc = "unwind", journal = << >>, unreversed = {}
               PROVE  RollbackRemovesCreated /\ LeakIsUnwired
    BY DEF RollbackRemovesCreated, LeakIsUnwired
  <1>1. \A d : ~HasRow(d) /\ ~Reported(d)
    BY DEF HasRow, Reported
  <1>2. RollbackRemovesCreated
    BY <1>1, RunCreatedFacts DEF CreatedRecorded, RollbackRemovesCreated
  <1>3. Leaked = board.live \ before.live
    BY <1>1 DEF Leaked
  <1> QED BY <1>2, <1>3 DEF NewRecorded, LeakIsUnwired

LEMMA SafeInductive ==
  /\ Init => SafeInv
  /\ SafeInv /\ [Next]_vars => SafeInv'
  /\ SafeInv => PortInv
  <1>1. Init => SafeInv
    <2> SUFFICES ASSUME Init PROVE SafeInv
      OBVIOUS
    <2>1. IInv
      BY Inductive
    <2>2. Gated /\ Unsettled /\ RelabelsLive /\ SweepsUndeclared
      BY DEF Init, Gated, Unsettled, RelabelsLive, SweepsUndeclared, NothingDue, Keys
    <2>3. Sound(board)
      BY DEF Init, BootBoard, Sound, Unwired, Exclusive, Claimed, Unnamed
    <2>4. CreatedRecorded /\ NewRecorded /\ ForeignSpared /\ ForeignUntouched /\ ConvergedServes
      BY DEF Init, CreatedRecorded, NewRecorded, ForeignSpared, ForeignUntouched, ConvergedServes,
             NoneCreated
    <2> QED BY <2>1, <2>2, <2>3, <2>4 DEF SafeInv
  <1>2. SafeInv /\ [Next]_vars => SafeInv'
    <2> SUFFICES ASSUME SafeInv, [Next]_vars PROVE SafeInv'
      OBVIOUS
    <2>1. IInv /\ TypeInv /\ MadeStands /\ MadeSpared /\ IdleClean
      BY DEF SafeInv, IInv
    <2>2. IInv' /\ Gated' /\ Sound(board')
      BY <2>1, Inductive, GatedStep, SoundStep DEF SafeInv
    <2>3. Unsettled' /\ RelabelsLive' /\ SweepsUndeclared' /\ CreatedRecorded' /\ NewRecorded'
      BY <2>1, UnsettledStep, RelabelsStep, SweepsStep, RecordedStep, NewStep DEF SafeInv
    <2>4. ForeignSpared' /\ ForeignUntouched' /\ ConvergedServes'
      BY <2>1, ForeignStep, ServesStep DEF SafeInv
    <2> QED BY <2>2, <2>3, <2>4 DEF SafeInv, Sound, Unwired, Exclusive, Claimed, Unnamed
  <1>3. SafeInv => PortInv
    BY HonestNow, UnwoundNow DEF SafeInv, IInv, TypeInv, TypeOK, PortInv
  <1> QED BY <1>1, <1>2, <1>3

\* Whatever fails, is cut short or is edited between two runs: no run touches what
\* was neither declared nor prunable, one that reports convergence leaves every
\* declared port served, the status never says converged of a port that is not,
\* and a rollback with nothing to report leaves none of the run's own dpnis but
\* one whose create erred, with no edge and no undeclared name (engine.rs ensure, main.rs
\* run_ensure, rollback_exec.rs, status.rs).
THEOREM PortKept == Spec => []PortInv
  BY SafeInductive, PTL DEF Spec

=============================================================================
