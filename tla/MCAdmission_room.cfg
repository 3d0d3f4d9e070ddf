SPECIFICATION FairSpec
CONSTANTS
  Caller = {c1, c2, c3}
  MaxBody = 2
  Hold = 4
  Length <- MCLength
  Rounds = 2
INVARIANTS TypeOK HeldIsWhatIsReserved BodiesFit
PROPERTIES RoomComesBack
CHECK_DEADLOCK FALSE
