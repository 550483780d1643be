-------------------------- MODULE MC_Indicators --------------------------
(* Model-checking instance of Indicators: prices 1..3, an ATR window of   *)
(* two bars, a two-pole channel, histories of up to four bars.            *)
EXTENDS Indicators

MCPrices == 1..3

=============================================================================
