CONSTANTS
    Functions = {"sm8", "sm16", "sm8_fast", "sm16_fast"}
    Modes = {"normal", "pr"}
    Words = {"zero", "one"}
    Streams <- MCStreams
    Zero = "zero"
    Behind = {0, 1, 3, 16}
    DeadFpga = TRUE
    First = {0, 1, 4}
    Second = {1, 5, 16}
    Third = {0, 3, 13}
SPECIFICATION FairSpec
INVARIANTS
    IInv
    StreamClocked
    DoneIsConfigured
    NoWordInReset
    StopsAtError
    TxSizeIsTransferred
    ReturnTellsResult
PROPERTY CallReturns
CHECK_DEADLOCK FALSE
