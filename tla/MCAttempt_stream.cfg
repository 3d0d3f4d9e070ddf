SPECIFICATION FairSpec
CONSTANTS
  Ttft = 1
  Quiet = 2
  MaxFirst = 2
  MaxFrames = 3
INVARIANTS TypeOK CommittedIsSafe ContentFirst InOrder
PROPERTIES KeepsPromise
CHECK_DEADLOCK FALSE
