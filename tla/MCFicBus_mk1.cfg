CONSTANTS
    Mk2 = FALSE
    AddrWords = 4
    DataWords = 2
    CmdWords = 2
    HlsWords = 2
    PinFaults = TRUE
SPECIFICATION Spec
INVARIANTS
    IInv
    Delivered
    InOrder
    IdleAfterSuccess
    NoContention
PROPERTIES
    OverrunCause
    KeepsPromise
