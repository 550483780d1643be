\* The indicator columns over every market history of up to four bars, and
\* the trading cycles that feed them to generate_signals.
CONSTANTS
    Prices <- MCPrices
    AtrLength = 2
    AtrMult = 1
    MaxBars = 4
    NaN = NaN
    Poles = 2
    QcMult = 1
    MdMaLen = 3
    MdCalcLen = 2
    QAmaMaLen = 2
    T3FastLen = 1
    T3SlowLen = 3
    HistLen = 3
    Keep = 1
    MinRows = 3
    MinProcessed = 1
    MaxCycles = 3
    MdThreshold = 25
    Confidences <- MCConfidences
    MaxVoters = 2
    ConfThreshold = 60
    None = None

SPECIFICATION SpecPipeline

INVARIANT PipelineTypeOK

\* The market ends at MaxBars bars and the thread after MaxCycles cycles.
CHECK_DEADLOCK FALSE
