CONSTANTS
  m1 = m1  s1 = s1  e1 = e1  e2 = e2  o1 = o1  k1 = k1  p1 = p1
  Row = {m1, s1, e1, e2, o1, k1, p1}
  TableOf <- MCTableOf
  Batch <- Mixed
  ChanCap = 1
  MaxBatchRows = 2
  MaxFails = 1
SPECIFICATION FairSpec
INVARIANTS TypeOK Custody StringsFirst CopiesBound BufferBound CleanStop
PROPERTIES EventuallyStored ImplementsStore
