SPECIFICATION Spec
CONSTANTS
  k1 = k1
  k2 = k2
  k3 = k3
  p1 = p1
  p2 = p2
  p3 = p3
  m0 = m0
  m1 = m1
  m2 = m2
  hi = hi
  pad = pad
  Counted = counted
  Mark = mark
  Value <- MCValue
  Grain = 2
  Slack = 2
  Key = {k1, k2, k3}
  Prov = {p1, p2, p3}
  Caller = {c1, c2}
  Slots <- MCSlots
  ProvOf <- MCProvOf
  Route <- MCRoute
  Asked <- MCAsked
  Unit <- MCUnit
  Object <- MCObject
  Chunk <- MCChunk
  Room = 2
  MaxHeard = 3
  Turning = {k1}
  Sample = {8}
  Want = 10
  Floor = 2
  Idle = 20
  Averages <- MCAverages
SYMMETRY Symmetry
INVARIANTS TypeOK SentIsAsked BilledAsSaid BillIsToday
PROPERTIES OrderIsTiered
CHECK_DEADLOCK FALSE
