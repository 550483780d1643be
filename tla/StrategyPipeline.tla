-------------------------- MODULE StrategyPipeline --------------------------
(***************************************************************************)
(* One ticker's indicator pipeline in enhanced_trading_logic_thread        *)
(* (src/trading_bot_app/ui.py 93-137): each cycle the fresh history from   *)
(* reqHistoricalData is validated, update_indicators (utils.py 53-57)      *)
(* puts the last rows of the previous cycle's frame before it and runs     *)
(* compute_indicators, the result is kept in prev_data[ticker], filled,    *)
(* stripped of NaN rows, and handed to generate_signals.                   *)
(*                                                                         *)
(* The market is a bar history that grows one bar at a time; a cycle      *)
(* reads its last HistLen bars, the 30 days IB returns, and computes the   *)
(* columns with Indicators' operators.  Of the previous frame only the bars and  *)
(* the hlc3 column matter: compute_indicators overwrites every other       *)
(* column, but computes hlc3 only when the frame has no such column.      *)
(* What each model of the ML ensemble answers is free; MLModelManager.    *)
(* predict then combines the answers.                                     *)
(***************************************************************************)
EXTENDS Integers, Sequences, Bags, FiniteSetsExt, TLC

CONSTANTS
    Prices, AtrLength, AtrMult, MaxBars, NaN,   \* as in AtrTrailingStop
    Poles, QcMult, MdMaLen, MdCalcLen,         \* as in Indicators
    QAmaMaLen, T3FastLen, T3SlowLen,           \* as in Indicators
    HistLen,       \* bars in a fresh history ('30 D' of 5-minute bars)
    Keep,          \* prev_df.iloc[-100:]
    MinRows,       \* validate_dataframe(..., min_rows=200)
    MinProcessed,  \* the len(df_hist) < 100 check after dropna
    MaxCycles,     \* bound on the trading cycles explored
    MdThreshold,   \* md_threshold, in percent
    Confidences,   \* what one model reports as its confidence, in hundredths
    MaxVoters,     \* models that can answer in predict
    ConfThreshold, \* confidence_threshold, in hundredths
    None           \* Python's None

VARIABLES
    market,     \* the bars the market has produced so far
    prevData,   \* prev_data[ticker]: None, or the frame of the last cycle
    input,      \* the rows the last cycle handed to generate_signals
    decision,   \* what generate_signals returned (None if not called)
    outcome,    \* how the last cycle ended for the ticker
    cycles      \* cycles run so far

vars == <<market, prevData, input, decision, outcome, cycles>>

\* The indicator operators; their own state is not used here.
I == INSTANCE Indicators WITH bars <- market, frame <- <<>>, cols <- <<>>

Unit == I!Unit
Defined(x) == I!Defined(x)

ASSUME /\ Keep + HistLen <= MaxBars
       /\ MinProcessed <= MinRows /\ AtrLength <= MinRows
       /\ Unit % I!Scale = 0

Sig == INSTANCE AlphaWaveSignals WITH MdThreshold <- MdThreshold * Unit

\* reqHistoricalData(..., '30 D', '5 mins'): the market's last HistLen bars.
FreshHistory ==
    SubSeq(market, IF Len(market) > HistLen THEN Len(market) - HistLen + 1 ELSE 1,
           Len(market))

\* validate_dataframe(df_hist, ticker, min_rows): empty or too short fails.
ValidHistory(hist) == Len(hist) >= MinRows

(* update_indicators: with a previous frame, pd.concat of its last Keep   *)
(* rows and the fresh history.  The fresh rows have no hlc3, so the       *)
(* concatenated column holds NaN there, and compute_indicators, finding   *)
(* the column present, leaves it so; without one it computes hlc3.        *)
UpdateIndicators(hist, prev) ==
    IF prev = None
    THEN [bars |-> hist, hlc3 |-> I!Hlc3(hist)]
    ELSE LET n == Len(prev.bars)
             from == IF n > Keep THEN n - Keep + 1 ELSE 1
         IN [bars |-> SubSeq(prev.bars, from, n) \o hist,
             hlc3 |-> SubSeq(prev.hlc3, from, n)
                         \o [i \in 1..Len(hist) |-> NaN]]

\* The columns of the frame compute_indicators returns.
FrameColumns(df) ==
    [hlc3 |-> df.hlc3] @@ I!ColumnsOf(df.bars, df.hlc3) @@ I!Frame(df.bars)

\* fillna(method='ffill').fillna(method='bfill') on every column.
Filled(c) == [k \in DOMAIN c |-> I!FillForwardBack(c[k])]

\* After the fill a column is NaN only if it was NaN in every row, and then
\* dropna() removes every row.
Dropped(c) == \E k \in DOMAIN c : \A i \in DOMAIN c[k] : ~Defined(c[k][i])

\* generate_signals' ml_signal, ml_confidence = None, 0.0 when not asked.
NotAsked == [signal |-> None, confidence |-> 0]

(* One model's answer in predict: its class (pred_proba[1] > 0.5, or the  *)
(* LSTM's output > 0.5) and its confidence (max(pred_proba), or the LSTM's *)
(* output folded above one half).                                          *)
Answer == [pred : {0, 1}, conf : Confidences]

(* The answers predict collects, one per model that does not raise: a    *)
(* bag of at least one answer.                                            *)
Ballots ==
    {B \in SubBag([a \in Answer |-> MaxVoters]) : BagCardinality(B) \in 1..MaxVoters}

Ups(B) == MapThenSumSet(LAMBDA a : a.pred * B[a], DOMAIN B)
ConfSum(B) == MapThenSumSet(LAMBDA a : a.conf * B[a], DOMAIN B)

(* The ensemble's answer: hard voting (sum > len/2) and soft voting       *)
(* (mean > 0.5) are the same test on 0/1 votes, so a tie is 0; the        *)
(* confidence is the mean of the confidences.                             *)
Ensemble(B) ==
    [signal |-> IF 2 * Ups(B) > BagCardinality(B) THEN 1 ELSE 0,
     confidence |-> ConfSum(B) \div BagCardinality(B)]

(* What predict returns for a ballot; None stands for its (None, 0.0)    *)
(* returns: no model, a NaN in the last feature row, or no answer.        *)
Predict(ballot) == IF ballot = None THEN NotAsked ELSE Ensemble(ballot)

(* The inputs of generate_signals(df_hist): the last row and the one      *)
(* before it (the last row again in a one-row frame), in Unit; the ML     *)
(* manager's state and the models' answers, asked only when ML is         *)
(* enabled and trained, are free.                                          *)
Inputs(c, b) ==
    LET n == Len(b)
        p == IF n > 1 THEN n - 1 ELSE n
        stop(s) == s * (Unit \div I!Scale)
        last == [close |-> b[n].close * Unit, high |-> b[n].high * Unit,
                 low |-> b[n].low * Unit,
                 q_ama |-> c.q_ama[n], wave |-> c.wave_pulse_val[n], q_filter |-> c.q_filter[n],
                 density |-> c.momentum_density_val[n], dir |-> c.dir[n],
                 long_stop |-> stop(c.long[n]), short_stop |-> stop(c.short[n])]
        prev == [wave |-> c.wave_pulse_val[p], q_filter |-> c.q_filter[p],
                 dir |-> c.dir[p]]
        ballots(u, t) == IF u /\ t THEN {None} \cup Ballots ELSE {None}
    IN UNION { { [last |-> last, prev |-> prev, use_ml |-> u, trained |-> t,
                  ballot |-> bl, predicted |-> Predict(bl)] : bl \in ballots(u, t) } :
               u \in BOOLEAN, t \in BOOLEAN }

-----------------------------------------------------------------------------
InitPipeline ==
    /\ market \in {<<b>> : b \in I!Bar}
    /\ prevData = None
    /\ input = None
    /\ decision = None
    /\ outcome = "idle"
    /\ cycles = 0

\* The market moves on: a new bar.
MarketBar ==
    /\ Len(market) < MaxBars
    /\ \E b \in I!Bar : market' = Append(market, b)
    /\ UNCHANGED <<prevData, input, decision, outcome, cycles>>

(* One cycle of the thread for the ticker, from validate_dataframe to     *)
(* generate_signals; a failed check logs and continues with the next      *)
(* ticker.                                                                 *)
Cycle ==
    /\ cycles < MaxCycles
    /\ cycles' = cycles + 1
    /\ LET hist == FreshHistory IN
       IF ~ValidHistory(hist)
       THEN /\ outcome' = "invalid"
            /\ decision' = None
            /\ UNCHANGED <<prevData, input>>
       ELSE LET df == UpdateIndicators(hist, prevData)
                c == FrameColumns(df)
                filled == Filled(c)
            IN /\ prevData' = df
               /\ IF Dropped(c) \/ Len(df.bars) < MinProcessed
                  THEN /\ outcome' = "dropped"
                       /\ decision' = None
                       /\ UNCHANGED input
                  ELSE /\ input' \in Inputs(filled, df.bars)
                       /\ decision' = Sig!GenerateSignals(input')
                       /\ outcome' = "decided"
    /\ UNCHANGED market

NextPipeline == MarketBar \/ Cycle

SpecPipeline == InitPipeline /\ [][NextPipeline]_vars

-----------------------------------------------------------------------------
PipelineTypeOK ==
    /\ market \in Seq(I!Bar)
    /\ prevData \in {None} \cup [bars : Seq(I!Bar), hlc3 : Seq(Int \cup {NaN})]
    /\ decision \in {None} \cup Sig!Decision
    /\ outcome \in {"idle", "invalid", "dropped", "decided"}
    /\ cycles \in 0..MaxCycles

(* The thread keeps trading the ticker: a cycle whose fresh history       *)
(* passes validate_dataframe reaches generate_signals.  "Insufficient     *)
(* data after processing" (ui.py 108-110) is meant for a history too      *)
(* short for the indicators, which a valid history is not.                *)
TradesOnValidHistory == outcome # "dropped"

=============================================================================
