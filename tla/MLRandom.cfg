SPECIFICATION Spec
CONSTANTS
  Networks = {v2}
  Documents <- CleanRequests
  Selfies <- Media
  Mediapipe = TRUE
  Nothing = Nothing
INVARIANT
  WithoutWeightsOnlyArtifacts
