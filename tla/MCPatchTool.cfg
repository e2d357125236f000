CONSTANTS stock1 = stock1
          stock2 = stock2
          added = added
          StockOrder <- MCStock
          NewResources <- MCNew
          Patches <- MCPatches
          Outs = {o1, o2}
          SampleSize = 1
          None = None
          Torn = Torn
          MaxBuilds = 3
          MaxFaults = 2
SPECIFICATION Spec
INVARIANTS TypeOK BackupIsStock VerifiedInstallIsExact UninstallIsExact
CHECK_DEADLOCK FALSE
