SPECIFICATION FairSpec
CONSTANTS
  k1 = k1
  k2 = k2
  h = h
  p1 = p1
  p2 = p2
  Id = {k1, k2}
  Keyless = {}
  Cell <- MCCell
  IdOf <- MCIdOf
  Prov = {p1, p2}
  Caller = {c1, c2}
  NoKey = NoKey
  Config <- Steady
  Code = {0, 401, 404, 429}
  Hint = {0, 3}
  Ladder <- MCLadder
  MinuteLen = 2
  DayLen = 6
  MaxReqs = 3
INVARIANTS TypeOK SoonestIsExact
PROPERTIES KeysComeBack
