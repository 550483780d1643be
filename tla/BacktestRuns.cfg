CONSTANTS
    a = a
    b = b
    TickerSeq <- MCTickerSeq
    Combos = 2
    MaxResets = 1
    NaN = NaN
    None = None
SPECIFICATION Spec
INVARIANT TypeOK
PROPERTY HandlerCompletes
\* Once each handler has run, the GUI waits for the user.
CHECK_DEADLOCK FALSE
