CONSTANTS
    t1 = t1
    t2 = t2
    Threads <- MCThreads
    NumTickers = 1
    MaxCycles = 2
    MaxConnects = 1
    FirstOrderId = 1
    LOG = LOG
    STOP = STOP
    None = None
SPECIFICATION Spec
CONSTRAINT QueueBound
PROPERTY NoCycleAfterStop
\* Once the connections and threads the bounds allow are used and every
\* thread has ended, the GUI only waits for user input.
CHECK_DEADLOCK FALSE
