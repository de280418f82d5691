\* One boot object and one of another tool, requirements of one and two; the
\* root and a tenant's container, a transport that reads the draw and one that
\* does not.
SPECIFICATION Spec
CONSTANTS
  Ids = {1, 2, 3, 4}
  Born = {1}
  Left = {2}
  UnitsAtBoot = 2
  Bracket = 4
  Requirements = {1, 2}
  Custodies <- MCCustodies
  Readings = {TRUE, FALSE}
  MaxDraws = 2
  MaxIntrusions = 1
  MaxEdits = 1
  MaxFaults = 1
INVARIANT CustodyInv
PROPERTIES TakesOnlySurplus EventuallySized
