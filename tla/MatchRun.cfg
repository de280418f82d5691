\* Two intents, four names, two facets; every way to make three edits or
\* drifts, converges anywhere between them.
SPECIFICATION Spec
CONSTANTS
  FamilyOrder <- TwoFamilies
  NameOrder <- FourNames
  NoName = "-"
  Intents <- StartIntents
  Additions <- More
  Facets = {"x", "y"}
  MaxEdits = 3
INVARIANT MatchInv
PROPERTIES RenamesMoveNoHardware EventuallySettled
