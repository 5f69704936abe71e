CONSTANTS
    WindowSize = 3
    MaxCounter = 8
    Goroutine = {g1, g2}
    Nobody = Nobody
SPECIFICATION CallsSpec
INVARIANTS
    CallsInv
    IInv
    FreshAccepted
    NoReplayInsideWindow
PROPERTIES
    AtomicCalls
    KeepsPromise
