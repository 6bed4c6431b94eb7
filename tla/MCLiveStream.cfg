CONSTANTS
  a = a
  Series = {a}
  Cap = 1
  WireCap = 1
  RING_SIZE = 2
  SPIKE_RING_SIZE = 1
  KERNEL_RING_SIZE = 1
  MaxLog <- TwoEach
  MaxOpens = 2
  MaxFaults = 1
SPECIFICATION FairSpec
INVARIANTS RingsInOrder LagsOnly ConnectedHonest
PROPERTIES CatchesUp KernelsShown
