SPECIFICATION Spec
CONSTANTS
  NSeq = 3
  NRs = {0, 1}
  Users <- UserValues
  Savers <- SaverValues
  MaxLen <- Lengths
  MaxNew <- Batches
  Duties = {"rollback", "copy", "keep"}
VIEW View
INVARIANTS
  ProcessedRemain
