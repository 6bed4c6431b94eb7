SPECIFICATION ClockSpec
CONSTANTS
    Skews <- Lags
    Delay = {0, 40}
    Gap = 4
    N = 5
    KeepNum = 3
    KeepDen = 5
    MaxResidual = 2
    Mant = 256
    Fine = 256
    Grains <- Powers
    Den = 16
    Word = 1024
    StartTime = 301
INVARIANTS Recovers MapAgrees
CHECK_DEADLOCK FALSE
