SPECIFICATION Spec
CONSTANTS
    Agent = {"a1", "a2", "a3"}
    Configured <- Ids
    WithRpc = {"a1", "a3"}
    Synthetic = {"a1", "a2"}
    Request <- Requests
    Kernel <- Kernels
    ChanCap = 2
    MaxCalls = 2
    MaxRegs = 2
    MaxRestarts = 1
INVARIANT ProfiledIsShown
CHECK_DEADLOCK FALSE
