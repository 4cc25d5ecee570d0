SPECIFICATION Spec
CONSTANTS
  NSeq = 2
  Size = 4
  NSwa = 2
  Tok = {"x"}
  Given <- OneToken
  MaxPos = 5
  MaxUb = 3
  Layouts = {TRUE}
  Ranges <- Truncations
  Deltas = {}
  Savers = {}
  Careful = TRUE
CHECK_DEADLOCK FALSE
INVARIANT
  PositionsPresent
