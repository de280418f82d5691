\* A root-child link and a one-member domain from four boards under every option, a
\* child-child link and a root-root link beside the domain with both gates open under
\* abort: one edit; a failure or kill anywhere, with consent two.
SPECIFICATION FairSpec
CONSTANTS
  Dpnis = {11, 12, 13, 14, 15, 16, 17, 18}
  Switches = {21, 22, 23, 24}
  Macs = {101, 102}
  Widest = 1
  Root = 1
  Kids = {2, 3}
  Names = {"w", "r", "m", "s", "x"}
  None = None
  Create = Create
  Intents <- AllIntents
  Domains <- DomainOne
  Children <- TwoChildren
  Sites <- AllSites
  MaxEdits = 1
INVARIANTS FabricInv
PROPERTIES WiredWhole EventuallySettled
