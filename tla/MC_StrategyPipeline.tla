------------------------- MODULE MC_StrategyPipeline -------------------------
(* StrategyPipeline for TLC: prices 1 and 3 (four bar shapes), an ATR     *)
(* window of two bars, a market of up to four bars, fresh histories of    *)
(* three bars, one row kept from the previous frame, three cycles;        *)
(* confidences straddle the threshold, the boundary value included.       *)
EXTENDS StrategyPipeline

MCPrices == {1, 3}
MCConfidences == {60, 90}

=============================================================================
