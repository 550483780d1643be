---------------------------- MODULE BacktestRuns ----------------------------
(***************************************************************************)
(* The GUI's offline handlers, backtest_strategy and optimize_params       *)
(* (src/trading_bot_app/ui.py 638-842), and the backtest strategy they run *)
(* (backtesting.py EnhancedAlphaWaveBacktestStrategy).                     *)
(*                                                                         *)
(* Both handlers run on the Tk thread and fetch every ticker's history     *)
(* under the same reqId 999; the IB reader thread stores the bars in       *)
(* app.data[999], appending when the key exists; a running trading thread  *)
(* may reset app.data = {} at the start of any cycle.  A history is        *)
(* abstracted to the tickers whose bars it holds, in arrival order.        *)
(*                                                                         *)
(* A backtest's statistics are what backtesting.py reports for the trades  *)
(* next() makes.  next() calls generate_signals on self.data.df, the       *)
(* frame handed to Backtest, whose columns are the bar columns only.       *)
(***************************************************************************)
EXTENDS Integers, Sequences, FiniteSets, Functions

CONSTANTS
    TickerSeq,   \* the tickers typed in the GUI, in order
    Combos,      \* parameter combinations optimize_params tries (50)
    MaxResets,   \* app.data resets by a concurrent trading thread
    NaN,         \* a NaN statistic
    None         \* Python's None

Tickers == Range(TickerSeq)

\* Columns of the frames dataDataframe returns (historicalData's bar_data).
BarColumns == {"Date", "Open", "High", "Low", "Close", "Volume"}
\* Columns _alpha_wave_signals reads from its frame.
SignalColumns == {"Close", "High", "Low", "q_ama", "wave_pulse_val", "q_filter",
                  "momentum_density_val", "aw_stop_direction", "aw_long_stop",
                  "aw_short_stop"}

-----------------------------------------------------------------------------
(* next(): generate_signals(current_df) on the first len(self.data) rows  *)
(* of self.data.df.  When a column it reads is missing, the KeyError is    *)
(* caught and logged and no order is made.  Otherwise the entries and      *)
(* exits may trade; how many is free here.                                 *)
TradesOf(columns) ==
    IF SignalColumns \subseteq columns THEN 0..2 ELSE {0}

(* backtesting.py's statistics: with no trade the equity is flat, the     *)
(* return 0 and the Sharpe ratio NaN (zero variance).                      *)
Stats(trades) ==
    IF trades = 0 THEN {[ret |-> 0, sharpe |-> NaN]}
    ELSE [ret : -1..1, sharpe : -1..1]

\* score = Return [%] + Sharpe * 10, NaN when either is NaN
Score(s) == IF s.sharpe = NaN THEN NaN ELSE s.ret + 10 * s.sharpe

\* score > best_score, false when either side is NaN (best starts at -inf)
Improves(score, best) ==
    score # NaN /\ (best = None \/ score > best)

-----------------------------------------------------------------------------
VARIABLES
    h,        \* the running handler: name, pc, ticker index, combination
              \* index, best_score and best_params of optimize_params
    ran,      \* handlers the user has run (each is run once)
    outcome,  \* what optimize_params ended with
    frame,    \* app.data[999]: the tickers whose bars it holds, in order
    pending,  \* reqId 999 requests TWS has still to answer, in order
    resets,   \* app.data resets made by the trading thread
    results   \* backtest_results: the tickers whose bars each run used

vars == <<h, ran, outcome, frame, pending, resets, results>>

Idle == [name |-> "idle", pc |-> "request", idx |-> 1, ci |-> 0,
         bestScore |-> None, bestParams |-> None]

Init ==
    /\ h = Idle
    /\ ran = {}
    /\ outcome = None
    /\ frame = <<>>
    /\ pending = <<>>
    /\ resets = 0
    /\ results = [t \in Tickers |-> None]

-----------------------------------------------------------------------------
(* GUI thread.                                                             *)

(* backtest_strategy and optimize_params, entered when connected and     *)
(* with tickers typed.                                                     *)
Start(name) ==
    /\ h.name = "idle"
    /\ name \notin ran
    /\ h' = [Idle EXCEPT !.name = name]
    /\ ran' = ran \cup {name}
    /\ UNCHANGED <<outcome, frame, pending, resets, results>>

\* optimize_params loops over tickers[:2], backtest_strategy over all
LastIdx == IF h.name = "opt" THEN IF Len(TickerSeq) < 2 THEN Len(TickerSeq) ELSE 2
           ELSE Len(TickerSeq)

(* End of the handler: optimize_params applies best_params to the GUI     *)
(* entries if it has one.                                                  *)
Finish ==
    /\ h' = Idle
    /\ outcome' = IF h.name # "opt" THEN outcome
                  ELSE IF h.bestParams # None THEN "applied"
                  ELSE IF h.ci > 0 THEN "none_found"
                  ELSE "no_data"

(* Faulty variant: the ticker loop running one index too far.            *)
AdvanceOffByOne ==
    IF h.idx <= LastIdx
    THEN /\ h' = [h EXCEPT !.idx = @ + 1, !.pc = "request"]
         /\ UNCHANGED outcome
    ELSE Finish

\* continue: the next ticker, or the end of the loop
Advance ==
    IF h.idx < LastIdx
    THEN /\ h' = [h EXCEPT !.idx = @ + 1, !.pc = "request"]
         /\ UNCHANGED outcome
    ELSE Finish

(* self.app.reqHistoricalData(reqId=999, contract=usTechStk(ticker), ...) *)
Request ==
    /\ h.name # "idle" /\ h.pc = "request"
    /\ pending' = Append(pending, TickerSeq[h.idx])
    /\ h' = [h EXCEPT !.pc = "wait"]
    /\ UNCHANGED <<ran, outcome, frame, resets, results>>

(* Faulty variant: wait_for_data without its timeout.                     *)
WaitNoTimeout ==
    /\ h.name # "idle" /\ h.pc = "wait"
    /\ frame # <<>>
    /\ h' = [h EXCEPT !.pc = "run"]
    /\ UNCHANGED <<ran, outcome, frame, pending, resets, results>>

(* wait_for_data(self.app, 999, timeout=15): returns once app.data[999]  *)
(* is non-empty; on timeout the ticker is skipped.                        *)
Wait ==
    /\ h.name # "idle" /\ h.pc = "wait"
    /\ IF frame # <<>>
       THEN /\ h' = [h EXCEPT !.pc = "run"]
            /\ UNCHANGED outcome
       ELSE Advance
    /\ UNCHANGED <<ran, frame, pending, resets, results>>

(* backtest_strategy's body: validate_dataframe(df, min_rows=500) (a      *)
(* delivered 2-year hourly history passes), Backtest(df, ...).run, and    *)
(* backtest_results[ticker] = its statistics.                              *)
RunBacktest ==
    /\ h.name = "bt" /\ h.pc = "run"
    /\ results' = [results EXCEPT ![TickerSeq[h.idx]] = Range(frame)]
    /\ Advance
    /\ UNCHANGED <<ran, frame, pending, resets>>

(* optimize_params' inner loop: one Backtest(df, ...).run per parameter   *)
(* combination; best_score and best_params follow score > best_score.     *)
RunCombo ==
    /\ h.name = "opt" /\ h.pc = "run" /\ h.ci < Combos
    /\ \E trades \in TradesOf(BarColumns) : \E s \in Stats(trades) :
          LET sc == Score(s) IN
          h' = IF Improves(sc, h.bestScore)
               THEN [h EXCEPT !.ci = @ + 1, !.bestScore = sc, !.bestParams = h.ci + 1]
               ELSE [h EXCEPT !.ci = @ + 1]
    /\ UNCHANGED <<ran, outcome, frame, pending, resets, results>>

\* break after the first ticker whose combinations all ran
EndOptimize ==
    /\ h.name = "opt" /\ h.pc = "run" /\ h.ci = Combos
    /\ Finish
    /\ UNCHANGED <<ran, frame, pending, resets, results>>

-----------------------------------------------------------------------------
(* Reader thread and trading thread.                                       *)

(* historicalData for reqId 999: a new frame when the key is missing,     *)
(* otherwise the bars are concatenated to the frame already there.        *)
Deliver ==
    /\ pending # <<>>
    /\ frame' = Append(frame, Head(pending))
    /\ pending' = Tail(pending)
    /\ UNCHANGED <<h, ran, outcome, resets, results>>

\* enhanced_trading_logic_thread's app.data = {} at a cycle start
TradingReset ==
    /\ resets < MaxResets
    /\ frame' = <<>>
    /\ resets' = resets + 1
    /\ UNCHANGED <<h, ran, outcome, pending, results>>

Next ==
    \/ Start("bt") \/ Start("opt")
    \/ Request \/ Wait \/ RunBacktest \/ RunCombo \/ EndOptimize
    \/ Deliver \/ TradingReset

(* The Tk thread runs a started handler to its end: every wait times out. *)
Fairness ==
    WF_vars(Request \/ Wait \/ RunBacktest \/ RunCombo \/ EndOptimize)

Spec == Init /\ [][Next]_vars /\ Fairness

-----------------------------------------------------------------------------
TypeOK ==
    /\ h.name \in {"idle", "bt", "opt"}
    /\ h.pc \in {"request", "wait", "run"}
    /\ h.idx \in 1..Len(TickerSeq)
    /\ h.ci \in 0..Combos
    /\ h.bestParams \in {None} \cup 1..Combos
    /\ ran \subseteq {"bt", "opt"}
    /\ outcome \in {None, "applied", "none_found", "no_data"}
    /\ frame \in Seq(Tickers) /\ pending \in Seq(Tickers)
    /\ resets \in 0..MaxResets
    /\ results \in [Tickers -> {None} \cup SUBSET Tickers]

(* A handler the user starts returns control to the Tk loop: every        *)
(* wait_for_data in backtest_strategy and optimize_params times out, and  *)
(* both loops are bounded, so the GUI does not freeze for good.            *)
HandlerCompletes ==
    h.name # "idle" ~> h.name = "idle"

(* The result backtest_strategy reports for a ticker is computed on that  *)
(* ticker's bars only.  All tickers share reqId 999 and app.data[999] is  *)
(* never cleared, so a later ticker's frame still holds the earlier       *)
(* ticker's bars and wait_for_data returns at once.                        *)
BacktestUsesOwnTicker ==
    \A t \in Tickers : results[t] \in {None, {t}}

=============================================================================
