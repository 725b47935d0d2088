SPECIFICATION Spec
CONSTANTS
  a1 = a1
  a2 = a2
  a3 = a3
  x = x
  y = y
  lan = lan
  Applicants = {a1, a2, a3}
  Values = {x, y, lan}
  Private = {lan}
  Web = {a3}
  None = None
  Assignments <- Triples
  MinSize = 3
  MaxClears = 1
  MaxReruns = 1
INVARIANTS
  TypeOK
  NoMutualMiss
  NoFalseDuplicate
  RingHasFlaggedMember
PROPERTY
  ForgetsFinishedRuns
CHECK_DEADLOCK FALSE
