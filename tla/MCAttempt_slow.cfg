SPECIFICATION Spec
CONSTANTS
  Ttft = 1
  Quiet = 2
  MaxFirst = 2
  MaxFrames = 3
INVARIANTS BenchedForSilence
CHECK_DEADLOCK FALSE
