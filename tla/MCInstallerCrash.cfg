SPECIFICATION Spec
CONSTANTS
  Version <- MCVersion
  Accepts <- MCAccepts
  FrameFile <- MCFrameFile
  MaxInstalls = 1
  MaxMods = 1
  MaxFaults = 1
INVARIANT RefusedOnlyIfModified
