\* One PHY port; fairness; no symmetry, which liveness does not allow.
SPECIFICATION FairSpec
CONSTANTS
  Dpmacs = {1, 2}
  Phy = {1}
  Dpnis = {d1, d2, d3}
  None = None
  Ports = {1}
  Absent = {}
  Sized = {1}
  Actuate = {1}
  Allows = {2}
  Prunes = {FALSE}
  Policies = {"rollback"}
  Deadlines = {2}
  ReadBacks = {"match"}
  MaxEdits = 1
  MaxFaults = 1
PROPERTY EventuallySettled
