SPECIFICATION PublishedSpec
CONSTANTS
  Version <- MCVersion
  Accepts <- MCAccepts
  FrameFile <- MCFrameFile
  MaxInstalls = 3
  MaxMods = 1
  MaxFaults = 2
  Absent = Absent
INVARIANT TypeOK
INVARIANT RestoreIsExact
INVARIANT RollbackIsExact
INVARIANT ManifestHasPackages
INVARIANT UpgradeGoesThrough
PROPERTY NothingLost
