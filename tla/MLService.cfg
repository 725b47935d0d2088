SPECIFICATION Spec
CONSTANTS
  Networks = {v2}
  Documents <- Requests
  Selfies <- Media
  Mediapipe = TRUE
  Nothing = Nothing
INVARIANTS
  TypeOK
  TypoIsCaught
  StillVideoFails
  NoFakeFromRealFrames
PROPERTIES
  WorseImageNeverScoresHigher
