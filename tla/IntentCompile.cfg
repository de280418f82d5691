\* Two files of the intent language and every way to add three constructs to
\* them, the queue, flow, switch and ceiling envelopes scaled down so that each
\* is met from both sides.
SPECIFICATION Spec
CONSTANTS
  NameOrder <- Sorted
  QueueHi = 5
  None = None
  Absent = Absent
  FlowHi = 2
  MaxFdbs = 3
  FdbEntriesHi = 1500
  MacTableHi = 1500
  PriorityHi = 7
  Documents <- BothFiles
  Inventories <- OneBoard
  Tenants <- MoreTenants
  Ports <- MorePorts
  Links <- MoreLinks
  Fabrics <- MoreFabrics
  Cryptos <- MoreCrypto
  Extras <- MoreExtras
  Renames <- Renaming
  MaxEdits = 3
CHECK_DEADLOCK FALSE
INVARIANTS PlanSound BlocksSettle
PROPERTY EditsLocal
