SPECIFICATION Spec
CONSTANTS
  r1 = r1
  r2 = r2
  r3 = r3
  r4 = r4
  ana = ana
  Users = {ana}
  Requests = {r1, r2, r3, r4}
  Processes = {p1, p2}
  From <- Senders
  Carried <- Images
  Limit = 2
  Window = 2
  MaxTime = 2
  MaxFaults = 1
INVARIANTS
  SubmissionTypeOK
  LimitPerWindow
  LetInAfterPause
  FirstUseOnly
  RuleOrCreator
PROPERTIES
  MediaPurged
CHECK_DEADLOCK FALSE
