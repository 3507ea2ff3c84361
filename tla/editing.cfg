SPECIFICATION ApplicationsSpec
CONSTANTS
  c1 = c1
  c2 = c2
  p1 = p1
  p2 = p2
  Clients = {c1, c2}
  Packs <- AllPacks
  Commands <- SomeCommands
  NewBlocks = {"notes"}
  Texts <- SomeTexts
  MaxRecoveryGap = 1
  MaxEdits <- SomeEdits
  Pages = {p1, p2}
  BodyEdits = {1, 2}
  MaxBodyFaults = 2
SYMMETRY Symmetry
INVARIANTS DocumentIsItsCommands CommandsKeepInvariants ReplayAbsorbs ProjectionComputes MovedWhereAsked ReviewedAsSeen DiffRebuilds EditorShowsDocument BodyIsComing
PROPERTIES OwnEditsStay
CHECK_DEADLOCK FALSE
