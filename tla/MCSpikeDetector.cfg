CONSTANTS
  a = a
  Series = {a}
  Value = {0, 1, 9}
  Time = {1, 3}
  SlowCap = 2
  SlowGap = 1
  WarmUp = 3
  ZSquared = 1
  SpikeGap = 2
  MaxSnaps = 4
  MaxJudged = 5
SPECIFICATION Spec
INVARIANTS WelfordExact SpikesStandOut SpikesSpaced ReportedInOrder
