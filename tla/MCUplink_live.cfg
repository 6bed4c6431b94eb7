CONSTANTS
  m1 = m1  m2 = m2  f1 = f1  percent = percent
  Item = {m1, m2}
  LaneOf <- MCLaneOf
  UnitOf <- MCUnitOf
  RingCap <- OneEach
  MaxBatch = 1
  LinkCap = 1
  MaxLosses = 1
SPECIFICATION FairSpec
PROPERTIES EventuallyTaken ReportedInSession
