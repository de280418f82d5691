\* A first run of a kernel-driven tenant beside a userspace one, under rollback.
SPECIFICATION FairSpec
CONSTANTS
  Dprcs = {2, 3, 4}
  Dpnis = {21, 22, 23}
  Pool = {11, 12, 13, 14}
  Names = {"u", "k", "x", "p", "q"}
  Peers = {"p", "q"}
  None = None
  Rolls <- AllRolls
  Regime <- RegimeU
  Ports <- PortsU
  Need <- OneEach
  Sites <- KernelSites
PROPERTIES BindsReversed
