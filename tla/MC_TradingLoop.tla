--------------------------- MODULE MC_TradingLoop ---------------------------
(* TradingLoop instantiated for TLC: two thread identities, enough for a *)
(* second start_strategy while the first thread still runs.               *)
EXTENDS TradingLoop

CONSTANTS t1, t2

MCThreads == {t1, t2}

\* Bound on the length of ui_queue explored (the queue itself is unbounded).
MaxQueue == 2
QueueBound == Len(queue) <= MaxQueue

=============================================================================
