CONSTANTS
  a = a  b = b  s1 = s1  s2 = s2  f1 = f1  f2 = f2  f3 = f3
  NoFrame = NoFrame
  Key = {a, b}
  Stream = {s1, s2}
  Frame = {f1, f2, f3}
  StreamOf <- TwoStreams
  PointsOf <- TwoSeries
  Time = {0, 2, 4, 6}
  FastCap = 2
  SlowCap = 2
  Gap = 2
SPECIFICATION FairSpec
INVARIANTS FastIsTail SlowDecimates SnapshotFaithful FramesInOrder
PROPERTIES EventuallyPublished
