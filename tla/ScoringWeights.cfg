SPECIFICATION Spec
CONSTANTS
  Runs = {}
  Admins = {ana, bo}
  Results <- StageResults
  Updates <- PartialUpdates
  Default <- DefaultConfig
  None = None
INVARIANTS
  StoredWeightsSumToOne
CHECK_DEADLOCK FALSE
