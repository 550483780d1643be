CONSTANTS
    MaxCycles = 4
    FirstOrderId = 1
    BUY = BUY
    SELL = SELL
    None = None
SPECIFICATION Spec
PROPERTY NoOrderWhileWorking
\* The loop ends at its deadline; TWS then has nothing left to report.
CHECK_DEADLOCK FALSE
