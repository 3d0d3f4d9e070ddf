SPECIFICATION FairSpec
CONSTANTS
  k1 = k1
  k2 = k2
  Key = {k1, k2}
  Caller = {c1}
  NoKey = NoKey
  Config <- Changing
  Fault = {"write", "rename"}
  Absent = Absent
  Torn = Torn
  YearLen = 2
  LastDay = 1
  MaxPicks = 2
INVARIANTS TypeOK FileIsWhole CountsNeverInvented FinalFlushKeepsAll
PROPERTIES FileNeverForgets CountsReachDisk ShutdownEnds
CHECK_DEADLOCK FALSE
