\* Eighteen traces and all that leave out one of their steps, as scripts and
\* online, learning and promoted; two commands that go wrong and two probes of
\* the kernel's own, anywhere.
SPECIFICATION Spec
CONSTANTS
  Params <- MCParams
  Deny <- MCDeny
  FlaggedMacs <- MCFlagged
  Statuses = {"busy"}
  Scenes <- MCScenes
  Cases <- MCCases
  MaxFaults = 2
  MaxProbes = 2
INVARIANTS TrapInv VerdictInv Listed
PROPERTY TrapTakesOwn
CHECK_DEADLOCK FALSE
