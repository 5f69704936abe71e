CONSTANTS
    c1 = c1
    c2 = c2
    device = device
    good = good
    bad = bad
    Nil = Nil
    NoSession = NoSession
    Params = params
    Device = device
    Commissioners = {c1}
    Manager = {c1, device}
    Passcode = {good, bad}
    DevicePasscode = good
    SessionID = {12345, 23456}
    WindowSize = 2
    CounterSeeds = {1}
    CounterMax = 99
    FaultKinds = {}
    MaxFaults = 0
    MaxCalls = 2
SPECIFICATION PASESpec
INVARIANT WrongPasscodeNotComplete
CHECK_DEADLOCK FALSE
