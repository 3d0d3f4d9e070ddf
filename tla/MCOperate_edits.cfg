SPECIFICATION FairSpec
CONSTANTS
  a = a
  b = b
  c = c
  fast = fast
  named = named
  unknown = unknown
  k1 = k1
  k2 = k2
  u = u
  m1 = m1
  Refused = Refused
  Empty = Empty
  Garbled = Garbled
  Blank = Blank
  NoUrl = NoUrl
  NoModel = NoModel
  ProvOf <- MCProvOf
  Editor = {e1, e2}
  Gateway = {g1}
  NoPid = NoPid
  Absent = Absent
  Command <- MCCommand
  HandWritten <- MCHand
  MaxHand = 1
  MaxHups = 1
INVARIANTS TypeOK RunningIsServable AckedIsRead
PROPERTIES LoneEditsAreVetted EditsTakeEffect
CHECK_DEADLOCK FALSE
