SPECIFICATION BuilderSpec
CONSTANTS
    SessionIDs <- MCSessionIDs
    Counters <- MCCounters
    NodeIDs <- MCNodeIDs
    GroupIDs <- MCGroupIDs
    Protocols <- MCProtocols
    Opcodes <- MCOpcodes
    ExchangeIDs <- MCExchangeIDs
    Vendors <- MCVendors
    Payloads <- MCPayloads
    tlvMarshal <- Marshal
    MaxBuilds = 2
    MaxCalls = 4
INVARIANTS
    AskedIsSeen
    CutKeepsHeaders
    FirstErrorStays
PROPERTY
    BuiltFrameStable
\* Nothing is left to do at the bounds.
CHECK_DEADLOCK FALSE
