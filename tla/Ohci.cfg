SPECIFICATION Spec
CONSTANTS
    NUM_TD = 6
    Control = {ctl}
    Bulk = {blk}
    Interrupt = {int}
    BULK_TDS = 1
INVARIANTS
    FinishedMeansDone
    NoFreeTdInFlight
    TdsAccounted
    QuietWhenIdle
PROPERTY
    SubmitReturns
