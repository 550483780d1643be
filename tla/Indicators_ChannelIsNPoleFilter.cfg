\* The channel centre against spec 4.1's n-pole filter.
CONSTANTS
    Prices <- MCPrices
    AtrLength = 2
    AtrMult = 1
    MaxBars = 4
    NaN = NaN
    Poles = 2
    QcMult = 1
    MdMaLen = 3
    MdCalcLen = 2
    QAmaMaLen = 2
    T3FastLen = 1
    T3SlowLen = 3

SPECIFICATION SpecColumns

INVARIANT ChannelIsNPoleFilter

\* The history is bounded by MaxBars: the bar feed ends there.
CHECK_DEADLOCK FALSE
