SPECIFICATION FairSpec
CONSTANTS
  b1 = b1
  n4 = n4
  n1 = n1
  n2 = n2
  n3 = n3
  Ordinals <- Ords
  Required <- Two
  Elsewhere <- Child
  SeatsRequired = 2
  Listed <- All
  Born <- Bare
  FreeAtBoot <- Enough
  SeatsAtBoot = 1
  Allows = {TRUE, FALSE}
  Prunes = {TRUE}
  MaxEdits = 1
  MaxDrains = 3
  MaxFaults = 1
INVARIANTS TypeOK StockInv
PROPERTIES ReclaimAfterStock OvercommitIsForeign EventuallyStocked
