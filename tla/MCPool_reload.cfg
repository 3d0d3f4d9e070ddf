SPECIFICATION Spec
CONSTANTS
  k1 = k1
  k2 = k2
  h = h
  p1 = p1
  p2 = p2
  Id = {k1, k2, h}
  Keyless = {h}
  Cell <- ReloadCell
  IdOf <- ReloadIdOf
  Prov = {p1, p2}
  Caller = {c1, c2}
  NoKey = NoKey
  Config <- Reloads
  Code = {0, 401}
  Hint = {0}
  Ladder <- MCLadder1
  MinuteLen = 1
  DayLen = 1
  MaxReqs = 2
SYMMETRY Symmetry
INVARIANTS CursorInRange UsedKeysMasked LiveCounted
PROPERTIES CapsRespected KeptKeysKeepState
