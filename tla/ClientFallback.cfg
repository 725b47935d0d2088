SPECIFICATION SafeClients
CONSTANTS
  Jobs = {j1}
  Workers = {w1}
  Users = {ana}
  Oversight = {}
  Verdicts = {approve}
  None = None
  MaxCrashes = 0
  Tries = 2
  InFlight = 1
  MaxPolls = 2
INVARIANT
  FallbackKeepsPolling
CHECK_DEADLOCK FALSE
