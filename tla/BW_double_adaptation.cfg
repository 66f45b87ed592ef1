CONSTANTS
  Kinds <- MCKindsAudioFirst
  CallParams <- MCParams
  AudioDescs <- MCAudioDescs
  VideoDescs <- MCVideoDescs
  SessionBws = {300}
  RateControl = TRUE
  RateAlgo = "advanced"
  CoreUpload = 1000
  CorePtime = 20
  MaxRounds = 2
SPECIFICATION Spec
INVARIANT NoDoubleAdaptation
CHECK_DEADLOCK FALSE
