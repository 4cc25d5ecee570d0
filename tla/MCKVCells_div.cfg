SPECIFICATION Spec
CONSTANTS
  Cell = {c1, c2}
  SeqId = {a, b}
  MaxPos = 2
  MaxShift = 2
  Deltas <- DeltaValues
  Divisors = {2}
SYMMETRY Symmetry
INVARIANT
  ShiftIsPending
