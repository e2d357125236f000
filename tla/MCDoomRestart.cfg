CONSTANTS KeyCount = 1
          QueueSize = 2
          MaxWorkers = 2
SPECIFICATION Spec
PROPERTIES RestartStarts
CHECK_DEADLOCK FALSE
