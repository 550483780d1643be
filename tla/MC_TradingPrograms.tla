------------------------- MODULE MC_TradingPrograms -------------------------
(* TradingPrograms instantiated for TLC: both programs, two thread         *)
(* identities, the explored length of ui_queue bounded.                    *)
EXTENDS TradingPrograms

CONSTANTS t1, t2

MCThreads == {t1, t2}
MCPrograms == {"package", "legacy"}

\* Bound on the length of ui_queue explored (the queue itself is unbounded).
MaxQueue == 2
QueueBound == Len(queue) <= MaxQueue

=============================================================================
