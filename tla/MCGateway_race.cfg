SPECIFICATION Spec
CONSTANTS
  k1 = k1
  k2 = k2
  p1 = p1
  p2 = p2
  a = a
  b = b
  named = named
  unknown = unknown
  Id = {k1, k2}
  Keyless = {}
  Cell <- MCCell
  IdOf <- MCIdOf
  Prov = {p1, p2}
  Nobody = Nobody
  Caller = {c1, c2}
  NoKey = NoKey
  Config <- Fixed
  Name = {a, b}
  ProvOf <- MCProvOf
  Stream = {TRUE}
  Code = {400, 429}
  Hint = {0}
  Ladder <- MCLadder1
  MinuteLen = 1
  DayLen = 1
  Pause = 0
  Rounds = 1
  MaxReqs = 3
  MaxTries = 0
SYMMETRY Symmetry
INVARIANTS TypeOK NothingLeaks AnsweredOnce RoutesInOrder
