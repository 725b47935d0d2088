SPECIFICATION SafeSpec
CONSTANTS
  Jobs = {j1}
  Workers = {w1}
  Users = {ana}
  Oversight = {}
  Verdicts = {approve, reject}
  None = None
  MaxCrashes = 0
INVARIANTS
  PollerSeesComplete
CHECK_DEADLOCK FALSE
