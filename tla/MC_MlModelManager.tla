-------------------------- MODULE MC_MlModelManager --------------------------
(* MlModelManager for TLC: two tickers, the default retrain_frequency of  *)
(* 100 and confidence_threshold of 0.6.  The per-model confidences 0.60   *)
(* and 0.84 make the mean of up to four of them exact in hundredths, and  *)
(* reach the threshold itself.                                             *)
EXTENDS MlModelManager

CONSTANTS a, b

MCTickers == {a, b}
MCConfidences == {60, 84}

=============================================================================
