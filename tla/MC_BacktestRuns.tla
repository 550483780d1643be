--------------------------- MODULE MC_BacktestRuns ---------------------------
(* BacktestRuns for TLC: two tickers, enough for a second request under   *)
(* reqId 999 while the first ticker's bars are still stored.              *)
EXTENDS BacktestRuns

CONSTANTS a, b

MCTickerSeq == <<a, b>>

=============================================================================
