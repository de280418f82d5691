\* Two edits by an operator between runs of every option, or two failures,
\* refusals or kills anywhere in a run that may rebuild.
SPECIFICATION Spec
CONSTANTS
  Dpmacs = {1, 2, 3}
  Phy = {1, 3}
  Dpnis = {d1, d2, d3, d4}
  None = None
  Ports = {1, 2}
  Absent = {}
  Sized = {1}
  Actuate = {1}
  Allows = {0, 1, 2}
  Prunes = {TRUE, FALSE}
  Policies = {"rollback", "abort"}
  Deadlines = {2}
  ReadBacks = {"match", "drift"}
  MaxEdits = 2
  MaxFaults = 2
SYMMETRY Symmetry
CONSTRAINT EditsOrFaults
INVARIANTS TypeOK PortInv
PROPERTIES NoChurn GateHolds PortKeepsDriver
