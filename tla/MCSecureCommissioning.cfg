CONSTANTS
    c1 = c1
    c2 = c2
    device = device
    good = good
    bad = bad
    Nil = Nil
    NoSession = NoSession
    Params = params
    Device = device
    Commissioners = {c1, c2}
    Manager = {c1, c2, device}
    Passcode = {good}
    DevicePasscode = good
    SessionID = {12345, 23456}
    WindowSize = 2
    CounterSeeds = {1}
    CounterMax = 99
    FaultKinds = {"loss", "restart", "controller restart", "PBKDFParamRequest", "PBKDFParamResponse", "Pake1", "Pake2"}
    MaxSent = 2
    MaxFaults = 1
    MaxCalls = 2
SPECIFICATION Spec
SYMMETRY ControllersAlike
INVARIANTS
    PASEInv
    ChannelInv
    NonceUnique
    EndToEnd
    NoRedelivery
PROPERTY
    KeepsExchange
CHECK_DEADLOCK FALSE
