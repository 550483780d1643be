-------------------------- MODULE AlphaWaveSignals --------------------------
(***************************************************************************)
(* Signal fusion of src/trading_bot_app/strategy.py: _alpha_wave_signals   *)
(* turns the last two rows of the indicator frame into long/short entry    *)
(* and exit triggers, and generate_signals lets the ML predictor veto      *)
(* entries.                                                                *)
(*                                                                         *)
(* Fusion is a pure function of the last two rows, with no state of its    *)
(* own; the trading cycle of StrategyPipeline builds the rows from the     *)
(* indicator frame and applies it.  Confidences are in hundredths.         *)
(***************************************************************************)
EXTENDS Integers

CONSTANTS
    MdThreshold,     \* md_threshold
    ConfThreshold,   \* confidence_threshold
    None             \* Python's None

(* One evaluation's inputs are a record: the last row (close, high, low,  *)
(* q_ama, wave, q_filter, density, dir, long_stop, short_stop), the       *)
(* previous row's wave, q_filter and dir, whether ML is enabled and        *)
(* trained, and what MLModelManager.predict returned: a record of signal  *)
(* (None, 0 or 1) and confidence.                                          *)

\* What generate_signals returns.
Decision == [longEntry : BOOLEAN, shortEntry : BOOLEAN,
             longExit : BOOLEAN, shortExit : BOOLEAN,
             mlSignal : {None, 0, 1}, mlConfidence : 0..100]

Sign(x, y) == IF x > y THEN 1 ELSE IF x < y THEN -1 ELSE 0

-----------------------------------------------------------------------------
\* ml_confidence > confidence_threshold
Confident(conf) == conf > ConfThreshold

(* _alpha_wave_signals.  A rising line is last > prev; anything else,     *)
(* a flat line included, counts as falling (direction -1).                *)
RuleSignals(in) ==
    LET l == in.last
        p == in.prev
        baseline   == Sign(l.close, l.q_ama)
        waveDir    == IF l.wave > p.wave THEN 1 ELSE -1
        filterDir  == IF l.q_filter > p.q_filter THEN 1 ELSE -1
        momentumOk == l.density > MdThreshold
        toLong     == l.dir = 1 /\ p.dir = -1
        toShort    == l.dir = -1 /\ p.dir = 1
    IN [longEntry  |-> toLong /\ baseline = 1
                       /\ waveDir > 0 /\ l.close > l.wave
                       /\ filterDir > 0 /\ l.close > l.q_filter
                       /\ momentumOk,
        shortEntry |-> toShort /\ baseline = -1
                       /\ waveDir < 0 /\ l.close < l.wave
                       /\ filterDir < 0 /\ l.close < l.q_filter
                       /\ momentumOk,
        longExit   |-> toShort \/ l.high > l.short_stop,
        shortExit  |-> toLong \/ l.low < l.long_stop]

(* Faulty variant: generate_signals returning only the four rule signals. *)
GenerateSignalsRuleOnly(in) == RuleSignals(in)

(* generate_signals' combination of the rule's signals with what predict *)
(* returned: a confident 1 vetoes shorts, any other confident signal      *)
(* vetoes longs, and the exits pass through.                              *)
Fuse(rule, ml) ==
    LET veto == ml.signal # None /\ Confident(ml.confidence)
    IN [longEntry  |-> rule.longEntry /\ ~(veto /\ ml.signal # 1),
        shortEntry |-> rule.shortEntry /\ ~(veto /\ ml.signal = 1),
        longExit   |-> rule.longExit,
        shortExit  |-> rule.shortExit,
        mlSignal   |-> ml.signal,
        mlConfidence |-> ml.confidence]

(* generate_signals: predict is consulted only when ML is enabled and     *)
(* trained.                                                                *)
GenerateSignals(in) ==
    Fuse(RuleSignals(in),
         IF in.use_ml /\ in.trained THEN in.predicted
         ELSE [signal |-> None, confidence |-> 0])

=============================================================================
