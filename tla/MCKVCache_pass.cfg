SPECIFICATION Spec
CONSTANTS
  NSeq = 2
  Size = 2
  NSwa = 0
  Tok = {"x", "y"}
  Given <- OwnTokens
  MaxPos = 1
  MaxUb = 2
  Layouts = {TRUE, FALSE}
  Ranges <- RangeValues
  Deltas <- DeltaValues
  Savers = {0}
  Careful = TRUE
VIEW View
INVARIANTS
  TypeOK
  KeysFollowPositions
  RefusedOnlyWhenFull
PROPERTY
  Implements
