SPECIFICATION Spec
CONSTANTS
  NSeq = 2
  Kinds = {"unified", "streams", "iswa", "hybrid", "rollback"}
  NUbatches = {2, 4}
  MaxPos = 3
  Inputs <- InputValues
  Duties = {"increasing", "shrinking", "single", "alone"}
INVARIANT
  NextnInPlace
