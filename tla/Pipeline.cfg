SPECIFICATION Spec
CONSTANTS
  Jobs = {j1}
  Workers = {w1, w2}
  Users = {ana, bo, adm}
  Oversight = {adm}
  Verdicts = {approve, reject}
  None = None
  MaxCrashes = 2
INVARIANTS
  TypeOK
  NoLostJob
  OneRunAtATime
  CompleteBeforeVerdict
  ReadableBySubmitterOnly
PROPERTIES
  VerdictIsFinal
  ProgressForward
  EnqueuedJobSettles
  StreamEnds
  ImplementsLifecycle
CHECK_DEADLOCK FALSE
