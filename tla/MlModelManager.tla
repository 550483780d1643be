---------------------------- MODULE MlModelManager ----------------------------
(***************************************************************************)
(* The ML ensemble of src/trading_bot_app/ml_manager.py (MLModelManager    *)
(* train_models and predict) as the trading thread drives it: one          *)
(* EnhancedAlphaWaveStrategy, and so one manager, serves every ticker;     *)
(* for each ticker of a cycle the thread retrains when                     *)
(* trade_count % retrain_frequency == 0 and the frame has over 300 rows    *)
(* (ui.py 113-124), then generate_signals consults predict and lets it     *)
(* veto the rule's entries (AlphaWaveSignals' Fuse).                       *)
(*                                                                         *)
(* A model is its name and what train_models left in it: fitted or not,   *)
(* and the ticker whose history it was fitted on.  What a fitted model    *)
(* answers (its class and max(predict_proba)) is free.  Confidences are   *)
(* in hundredths.  use_ml_models is on (its default); with it off the    *)
(* thread neither trains nor predicts.                                     *)
(***************************************************************************)
EXTENDS Integers, FiniteSets, FiniteSetsExt, TLC

CONSTANTS
    Tickers,          \* the tickers the trading thread processes
    RetrainFreq,      \* retrain_frequency
    MaxTrades,        \* bound on trade_count
    MaxEvals,         \* bound on per-ticker evaluations
    Confidences,      \* what max(predict_proba) can be, per model
    ConfThreshold,    \* confidence_threshold
    None              \* Python's None

AW == INSTANCE AlphaWaveSignals
        WITH MdThreshold <- 0

Classic == {"random_forest", "lightgbm", "xgboost"}
ModelNames == Classic \cup {"lstm"}

VARIABLES
    models,      \* self.models: name -> [fitted, ticker] of each model built
    isTrained,   \* self.is_trained
    tradeCount,  \* trade_count of the trading thread
    evals,       \* per-ticker evaluations made so far
    last         \* the last generate_signals call: ticker, voters, result

vars == <<models, isTrained, tradeCount, evals, last>>

Init ==
    /\ models = [n \in {} |-> None]
    /\ isTrained = FALSE
    /\ tradeCount = 0
    /\ evals = 0
    /\ last = None

-----------------------------------------------------------------------------
(* train_models(df) on ticker t's frame.  Either it returns False before  *)
(* touching the models (under 100 valid rows; an exception the caller     *)
(* catches ends it at the same point), or it rebuilds the three classic   *)
(* models in the existing dict, fits each (a failed fit is logged and the *)
(* model stays unfitted), fits a new LSTM when there are enough sequences *)
(* (a skipped or failed LSTM leaves any earlier 'lstm' entry in place),    *)
(* and sets is_trained.                                                    *)
TrainResults(t) ==
    {[models |-> models, isTrained |-> isTrained]}
    \cup
    {[models |-> [n \in Classic |-> [fitted |-> fit[n], ticker |-> t]]
                 @@ (IF newLstm THEN "lstm" :> [fitted |-> TRUE, ticker |-> t]
                     ELSE [n \in DOMAIN models \ Classic |-> models[n]]),
      isTrained |-> TRUE] :
        fit \in [Classic -> BOOLEAN], newLstm \in BOOLEAN}

\* The models whose prediction does not raise: the fitted ones.
Voters(ms) == {n \in DOMAIN ms : ms[n].fitted}

(* predict(df): (None, 0.0) when untrained, with no model, when the last *)
(* feature row has a NaN, or when no model answers; otherwise the         *)
(* ensemble vote (hard: sum > len/2; soft: mean > 0.5; the same for 0/1   *)
(* votes, a tie is 0) and the mean of the confidences.                    *)
Predictions(ms, trained) ==
    LET none == [signal |-> None, confidence |-> 0, voters |-> {}]
        V == Voters(ms)
    IN IF ~trained \/ DOMAIN ms = {} \/ V = {} THEN {none}
       ELSE {none} \cup
            {[signal |-> IF 2 * MapThenSumSet(LAMBDA n : vote[n], V) > Cardinality(V)
                         THEN 1 ELSE 0,
              confidence |-> MapThenSumSet(LAMBDA n : conf[n], V) \div Cardinality(V),
              voters |-> V] :
                vote \in [V -> {0, 1}], conf \in [V -> Confidences]}

\* The rule's entries and exits: at most one entry (the stop flips one way).
RuleResults ==
    {r \in [longEntry : BOOLEAN, shortEntry : BOOLEAN,
            longExit : BOOLEAN, shortExit : BOOLEAN] :
        ~(r.longEntry /\ r.shortEntry)}

-----------------------------------------------------------------------------
(* One ticker in a cycle of enhanced_trading_logic_thread: the retrain    *)
(* gate and train_models, then generate_signals (predict only when        *)
(* is_trained), then an order if a signal survives and the position       *)
(* allows it (OrderFlow models which), counted in trade_count.            *)
ProcessTicker(t) ==
    /\ evals < MaxEvals
    /\ \E over300 \in BOOLEAN :
         LET retrain == tradeCount % RetrainFreq = 0 /\ over300 IN
         \E tr \in (IF retrain THEN TrainResults(t)
                    ELSE {[models |-> models, isTrained |-> isTrained]}) :
         \E p \in Predictions(tr.models, tr.isTrained), rule \in RuleResults :
           LET d == AW!Fuse(rule, [signal |-> p.signal, confidence |-> p.confidence])
               acts == d.longEntry \/ d.shortEntry \/ d.longExit \/ d.shortExit
           IN /\ models' = tr.models
              /\ isTrained' = tr.isTrained
              /\ \E traded \in (IF acts /\ tradeCount < MaxTrades THEN BOOLEAN ELSE {FALSE}) :
                    tradeCount' = IF traded THEN tradeCount + 1 ELSE tradeCount
              /\ last' = [ticker |-> t, rule |-> rule, decision |-> d,
                          from |-> {tr.models[n].ticker : n \in p.voters}]
    /\ evals' = evals + 1

Next == \E t \in Tickers : ProcessTicker(t)

Spec == Init /\ [][Next]_vars

-----------------------------------------------------------------------------
TypeOK ==
    /\ DOMAIN models \subseteq ModelNames
    /\ \A n \in DOMAIN models : models[n] \in [fitted : BOOLEAN, ticker : Tickers]
    /\ isTrained \in BOOLEAN
    /\ tradeCount \in 0..MaxTrades
    /\ evals \in 0..MaxEvals
    /\ last = None \/ (last.ticker \in Tickers /\ last.from \subseteq Tickers)

(* The models predict consults for a ticker were fitted on that ticker's *)
(* history: the thread logs "Retraining ML models for {ticker}" and       *)
(* retrains per ticker.  One manager serves all tickers, and once a trade *)
(* makes trade_count % retrain_frequency nonzero (or a frame has 300 rows *)
(* or fewer) no retraining happens, so another ticker's models decide.    *)
PredictsWithOwnModels ==
    last # None => last.from \subseteq {last.ticker}

=============================================================================
