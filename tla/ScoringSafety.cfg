SPECIFICATION Spec
CONSTANTS
  Runs = {r1, r2}
  Admins = {ana}
  Results <- StageResults
  Updates <- ConsoleUpdates
  Default <- DefaultConfig
  None = None
INVARIANTS
  TypeOK
  HardFailDecides
  WorseNeverFavoured
CHECK_DEADLOCK FALSE
