------------------------------ MODULE MCPortRun ------------------------------
EXTENDS PortRun, FiniteSets, TLC

Symmetry == Permutations(Dpnis)

Given(O) == opts = None \/ opts \in O

\* Two instances in one: an operator who edits a board of at most three dpnis
\* between runs of every option, and faults in the runs that may rebuild, under
\* either failure policy.
EditsOrFaults ==
  \/ /\ faults = 0 /\ Cardinality(board.live) <= 3
     /\ Given({o \in Options : o.policy = "rollback"})
  \/ /\ edits = 0
     /\ Given({o \in Options : o.allow = 2 /\ ~o.prune})
=============================================================================
