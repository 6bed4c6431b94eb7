SPECIFICATION Spec
CONSTANTS
    Batch = {b1, b2, b3}
    Oversized = {b3}
    Thread = {t1, t2}
    Agent = {a1, a2}
    WireCap = 1
    NoAgent = NoAgent
    NoBatch = NoBatch
    NoThread = NoThread
INVARIANTS WrittenArrives DeliveredOnce DropsCounted
PROPERTY ShipReturns
CHECK_DEADLOCK FALSE
