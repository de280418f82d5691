------------------------------ MODULE VerbLife ------------------------------
(***************************************************************************)
(* What the phases assume of a control verb: its spawns take effect one    *)
(* after the other, each at most once, and it may be answered with an      *)
(* error after any of them.  The failing verbs of the run modules are the  *)
(* boards this specification reaches; PortalVerb implements it.            *)
(***************************************************************************)
EXTENDS VerbScript

VARIABLES
  mc,      \* the board
  left,    \* spawns of the verb in hand that have not taken effect
  target,  \* the object it is about
  answer   \* "none" while a verb is in hand, else how the last one ended

vars == <<mc, left, target, answer>>

Answers == {"ok", "error"}

Init ==
  /\ mc = [live |-> {}, plugged |-> {}, wired |-> {}, label |-> [o \in Ids |-> "none"]]
  /\ left = <<>> /\ target = NoObj /\ answer = "ok"

Issue(v) ==
  /\ answer # "none"
  /\ \E o \in IF v \in Creates THEN {NoObj} ELSE Ids :
       left' = Script[v] /\ target' = o
  /\ answer' = "none"
  /\ UNCHANGED mc

Effect ==
  /\ answer = "none" /\ left # <<>>
  /\ \E r \in Executed(Head(left), mc, target) : mc' = r[1] /\ target' = r[2]
  /\ left' = Tail(left)
  /\ UNCHANGED answer

Answered ==
  /\ answer = "none" /\ left = <<>>
  /\ answer' = "ok"
  /\ left' = <<>> /\ target' = NoObj /\ UNCHANGED mc

Erred ==
  /\ answer = "none"
  /\ answer' = "error"
  /\ left' = <<>> /\ target' = NoObj /\ UNCHANGED mc

Other == mc' \in Meddled(mc) /\ UNCHANGED <<left, target, answer>>

Next == (\E v \in Verbs : Issue(v)) \/ Effect \/ Answered \/ Erred \/ Other

Spec == Init /\ [][Next]_vars
=============================================================================
