\* Plans of up to two blocks over three ordinals, so that a replacement may find
\* the board full; an edit, a turn of the portal or a driver, a failure or kill.
SPECIFICATION FairSpec
CONSTANTS
  None = None
  Ids = {1, 2, 3}
  Own = "t"
  Stranger = "x"
  Plans <- MCPlans
  Oddities <- MCOddities
  Callers = {"ensure", "pass"}
  Allows = {0, 2}
  Policies = {"rollback", "abort"}
  MaxEdits = 1
  MaxTurns = 1
  MaxFaults = 1
INVARIANT CryptoInv
PROPERTIES  EventuallySettled
