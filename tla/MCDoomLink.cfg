CONSTANTS KeyCount = 1
          QueueSize = 2
          MaxWorkers = 2
SPECIFICATION Spec
INVARIANTS TypeOK KeysFollow PictureWhole
PROPERTIES ClosedPauses PageStarts
CHECK_DEADLOCK FALSE
