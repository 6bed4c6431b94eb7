CONSTANTS
  m1 = m1  m2 = m2  f1 = f1  percent = percent
  Item = {m1, m2, f1}
  LaneOf <- MCLaneOf
  UnitOf <- MCUnitOf
  RingCap <- OneEach
  MaxBatch = 1
  LinkCap = 2
  MaxLosses = 2
SPECIFICATION Spec
INVARIANTS Custody Balanced UnitsAnnounced DropsAccounted
PROPERTY ImplementsDelivery
