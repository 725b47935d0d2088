SPECIFICATION Clients
CONSTANTS
  Jobs = {j1}
  Workers = {w1}
  Users = {ana}
  Oversight = {}
  Verdicts = {approve}
  None = None
  MaxCrashes = 1
  Tries = 2
  InFlight = 2
  MaxPolls = 3
INVARIANTS
  ClientTypeOK
  ShownVerdictIsFinal
  NothingLeftOpen
  WaitGoesOn
PROPERTIES
  NoticesTheEnd
  ComesToRest
  WebhookEnds
CHECK_DEADLOCK FALSE
