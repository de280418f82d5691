\* A userspace tenant and a stray or unlabelled container under every option, and a
\* userspace and a kernel-driven tenant with both gates open under abort: one edit
\* and one failure or kill anywhere.
SPECIFICATION FairSpec
CONSTANTS
  Dprcs = {2, 3, 4}
  Dpnis = {21, 22, 23}
  Pool = {11, 12, 13, 14}
  Names = {"u", "k", "x", "p", "q"}
  Peers = {"p", "q"}
  None = None
  Rolls <- AllRolls
  Regime <- RegimeU
  Ports <- PortsU
  Need <- OneEach
  Sites <- AllSites
INVARIANTS TenancyInv
PROPERTIES ConvergedHonest LifeKept PopulateThenBind EventuallySettled
