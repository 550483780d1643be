\* Two tickers, one trade, three per-ticker evaluations.
CONSTANTS
    a = a
    b = b
    Tickers <- MCTickers
    RetrainFreq = 100
    MaxTrades = 1
    MaxEvals = 3
    Confidences <- MCConfidences
    ConfThreshold = 60
    None = None

SPECIFICATION Spec

INVARIANT PredictsWithOwnModels

\* The bounded evaluations end the behaviour.
CHECK_DEADLOCK FALSE
