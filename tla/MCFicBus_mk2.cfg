CONSTANTS
    Mk2 = TRUE
    AddrWords = 1
    DataWords = 1
    CmdWords = 1
    HlsWords = 2
    PinFaults = FALSE
SPECIFICATION FairSpec
INVARIANTS
    IInv
PROPERTIES
    OperationReturns
