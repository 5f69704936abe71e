CONSTANTS
    controller = controller
    device = device
    Manager = {controller, device}
    Ke = {ke1, ke2}
    SessionID = {1}
    Role <- MCRole
    LocalID <- MCLocalID
    NoSession = NoSession
    WindowSize = 2
    CounterMax = 4
    MaxSent = 5
SPECIFICATION Spec
INVARIANTS
    LinkInv
    NonceUnique
    DeliveredFromPeer
    WindowOnlyDelivered
    NoRedelivery
    FreshDeliverable
