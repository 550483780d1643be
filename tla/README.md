# TLA+ models of the IBKR Alpha Wave trading bot

This directory holds TLA+ models of the bot in `src/trading_bot_app/` (the package
`main.py` starts), the TLC configurations that check them, and `PROJECT.json`, which
records the components, the runs, the mutants, the map from every definition to the
source lines it models, the findings and the hazards.

## The system

| Part | Source | State | Operations |
|---|---|---|---|
| Indicators | `indicators.py` | none (pure functions of a bar frame) | `atr`, `atr_trailing_stop_alpha_wave`, the filters and moving averages |
| Strategy | `strategy.py` | params, `ml_manager` | `compute_indicators`, `generate_signals`, `_alpha_wave_signals` |
| ML manager | `ml_manager.py` | models, scaler, `is_trained` | `train_models`, `predict` (voting ensemble) |
| IB client | `ib_client.py` | `data`, `pos_df`, `order_df`, `nextValidOrderId` | callbacks on the IB reader thread: `historicalData`, `historicalDataEnd`, `nextValidId`, `position`, `openOrder`, `orderStatus`, `error`; `log_message` |
| Trading loop | `ui.py` `enhanced_trading_logic_thread`, `utils.py` | positions at start, `prev_data`, `trade_count` | one thread: 5-minute cycles until an 8-hour deadline or STOP_TRADING |
| GUI | `ui.py` `EnhancedTradingGUI` | `is_connected`, `is_running`, `app`, `logic_thread`, `ui_queue` | `toggle_connection`, `start_strategy`, `stop_strategy`, `process_ui_queue` (every 100 ms), backtest, optimise, save/load config |
| Backtesting | `backtesting.py` | backtesting.py `Strategy` | `init`, `next` |
| Legacy monolith | `src/trading_bot.py` | the same code in one file | the same functions; its strategy builds `EnhancedStrategyConfig` from a one-key dict |

How they interact. Three kinds of thread share one `TradeApp` and one `queue.Queue`:

- the Tk thread runs the GUI handlers;
- each press of Start runs a new trading thread;
- each `TradeApp` has an IB reader thread that runs its callbacks.

`ui_queue` carries every log line, from any thread, to the GUI. It also carries the
STOP_TRADING message from `stop_strategy` to the trading thread. The trading thread:

1. resets `app.data` and requests history under `req_id` = ticker index;
2. polls until the first bar appears;
3. puts the previous frame's last 100 rows before the fresh history (`update_indicators`), computes the indicators (`compute_indicators`), fills and drops NaN rows, and computes the signals (`generate_signals`);
4. reads positions after `reqPositions(); sleep(1)`;
5. places market orders with `app.nextValidOrderId`.

The behaviours that make it hard:

- three threads on one queue and one dict;
- a message that has two consumers;
- waits that end by timeout racing late callbacks;
- a request id reused every cycle;
- a batch indicator recomputed over a growing history;
- the equality edge cases of the stop.

## Modules

**`AtrTrailingStop`** models `atr` and `atr_trailing_stop_alpha_wave` (indicators.py 16-26 and 144-200).

- **State:** `bars` (the history) and `frame` (the long stop, short stop and direction columns).
- **`AppendBar`** appends a bar and recomputes the whole frame, as every `compute_indicators` call does.
- **Integer scaling:** prices are small integers. Every stop is kept multiplied by `Scale = 2*AtrLength`, so the mid price and the ATR mean are exact.
- **NaN:** pandas NaN is a model value, and comparisons with it are false, as in pandas.
- **Recurrences:** the ratchet and direction loops are recursive function definitions. `FirstValid` is `bfill().iloc[0]`; `FillForwardBack` is `ffill().bfill()`.
- **pandas semantics:** chained assignment to `aw_stop_direction` (indicators.py 185-197) is taken with pandas 2 semantics, where it writes through.
- **Refinement:** `CommittedRows` maps the frame's rows from bar `AtrLength` on to the state of `StopMachine`, and `ImplementsStopMachine` is `Abstract!Spec` under that mapping.

**`StopMachine`** is the abstract stop that spec section 4.6 describes, written from the spec rather than the code. It carries the stop forward one bar at a time.

- **State:** `bars`, and `stops`, one committed row (long stop, short stop, direction) per bar from the first full ATR window on. Earlier bars have no row: the indicator is Undefined there.
- **`NewBar`** appends a bar and extends `stops` by one row computed from the previous row alone (`Step`): the ratchet rule for the two levels, the flip rule (`Flip`) for the direction.
- **`Seed`** is the first row: the raw candidates of bar `AtrLength` as both levels, and the direction the flip rule gives over the warm-up bars against them (the back-filled seed of section 4.6).
- The true range and ATR are computed independently of `AtrTrailingStop` (`TR`, `Candidate`), with the same scaling.
- What the check shows: the batch code, which recomputes every column from scratch with `ffill`/`bfill` and reads the filled previous stops, never produces a row that the incremental rules would not. The incremental rules are exactly the spec's; the divergences listed below (a stop that falls while LONG, a flat market that flips) are therefore in the spec's rules as well as in the code.

**`Indicators`** extends `AtrTrailingStop` with the other columns `compute_indicators` writes (strategy.py 21-63): `an_filter` and `quantum_channel` (indicators.py 6-14, 111-132), `wave_pulse` (91-109), `momentum_density` (134-142), `quantum_adaptive_ma` (45-89) and the T3 pair (28-43).

- **State:** `cols` next to `bars` and `frame`. `AppendBarColumns` appends a bar and recomputes the stop and every column, as `compute_indicators` does.
- **Exact arithmetic:** every smoother runs with alpha = 1/2 (`wp_smooth` = 5, `md_smooth_len` = 3, `quantum_alpha` taken as 1/2; `wp_const` = 1/2). Every value is then dyadic and is kept as an integer times `Unit = 3 * 2^(MaxBars+9)`. `ExactDiv` asserts that each division is exact.
- **`an_filter`:** `Lagged` is `shift(1).fillna(method='bfill')`, `AnPass` one pass of the loop, `AnFilter` the passes and the final back-fill. A one-row frame gives NaN.
- **`momentum_density`:** the comparison with `mean - 0.2*std` is made exactly on integers, and a window of one close has a NaN std, so it never counts as above.
- **`NPoleFilter`** is spec 4.1's recurrence, the reference the channel is checked against.
- **`quantum_adaptive_ma`** (`QAma`) runs with its default `adx_length` = 2 and with `weight` = 1 (alpha 1/2):
  - the bull and bear moves, their EMAs (`EmaIgnoreNa`, since the first row is NaN) and the EMA of the range are dyadic;
  - the DI ratio `|pb - pr| / (pb + pr)` (the common `str_range` cancels) and its EMA, the ADX, are kept as exact reduced fractions (`Frac`, `FracEma`);
  - over a window of two, `adx_constant` is 1 when the ADX rose and 0 otherwise, so `var_ma` stays dyadic; `q_ama` is its rolling mean over `QAmaMaLen` rows.
  - The loop's NaN repairs (indicators.py 83-85) never fire, since the close is defined on every row.
- **T3** (`T3`, `Tilson`) runs with factor 1/2, the same cubic as `wave_pulse`; spans 1 and 3 give alpha 1 and 1/2 (`EmaSpan`).
- **`Recurrence`** builds `y[i] = step(y[i-1], x[i])` as a sequence with `FoldLeft`. The EMAs and `var_ma` use it, because a recursive function definition is re-evaluated at every application.
- **Not modelled:** the derivation of `quantum_alpha` from `qc_period` (cos and sqrt), and the parameter values whose smoothers are not dyadic (`q_ama_weight` 10, `t3_factor` 0.7, other spans).

**`AlphaWaveSignals`** models `_alpha_wave_signals` and `generate_signals` (strategy.py 71-147) as operators: `RuleSignals` (the rule's four signals), `Fuse` (the ML veto) and `GenerateSignals`. It has no actions of its own; `StrategyPipeline` applies it to the rows it computes.

**`StrategyPipeline`** models one ticker's indicator pipeline in the trading cycle (ui.py 93-138, utils.py 38-57, strategy.py 21-69).

- **State:** `market` (the bars so far), `prevData` (`prev_data[ticker]`: the bars and the hlc3 column of the last frame), `input` and `decision` (what `generate_signals` was given and returned), `outcome` and `cycles`.
- **`MarketBar`** appends a bar to the market.
- **`Cycle`** is one pass of the thread over the ticker:
  - the fresh history is the last `HistLen` bars, and `validate_dataframe` can reject it;
  - `update_indicators` puts the previous frame's last `Keep` rows before it;
  - `compute_indicators` computes the columns with `Indicators`' operators;
  - the frame is stored in `prev_data` and filled forward, then back;
  - `dropna` and the length check can drop it;
  - otherwise the last two rows go to `generate_signals`.
- **The previous frame:** of its columns only the bars and hlc3 matter. `compute_indicators` overwrites every other column, but computes hlc3 only when there is no such column (strategy.py 35). The fresh rows therefore keep a NaN hlc3 after the concatenation.
- **The ML answer:** when ML is enabled and trained, each model of the ensemble answers a class and a confidence, and the answers form a bag (`Ballots`) of one or two. `Predict` is `predict`'s combination (ml_manager.py 378-389): the majority vote, with a tie as 0, and the mean confidence. Hard and soft voting are the same test on 0/1 votes, so the `ensemble_voting` setting makes no difference. The ML manager's other state is free.
- **Timing:** `Indicators` is taken by `INSTANCE` for its operators only, so a new market bar costs no recomputation. The columns are computed only in `Cycle`.

**`TradingLoop`** models the GUI handlers, the trading threads and the reader threads, with `ui_queue` and `app.data`/`app.nextValidOrderId` shared.

| Code | Action |
|---|---|
| `toggle_connection` | `Connect` (a new `TradeApp` generation; the connection may fail), `Disconnect` |
| `start_strategy` | `StartStrategy` (starts a thread on the current app) |
| `stop_strategy` | `StopStrategy` |
| `process_ui_queue` | `ProcessUiQueue` (drains all) |
| thread start | `ThreadInit` |
| `while` test and `ui_queue.empty()` | `LoopHead` |
| `get_nowait` | `GetNowait` (STOP, another message, or `queue.Empty`) |
| data reset and requests | `BeginCycle` |
| `wait_for_data` | `WaitForData` (data or timeout) |
| per-ticker body | `ProcessTicker` (invalid frame, no order, no order id yet, order sent) |
| cycle end and sleep | `EndCycle` |
| `historicalData` and `historicalDataEnd` | `HistoricalData` |
| `nextValidId` | `NextValidId` |

Abstractions in `TradingLoop`:

- A log line is the value `LOG`.
- A history is the stage its delivery has reached:
  - `none`;
  - `few` bars (under the 200 that `validate_dataframe` asks for);
  - `many` bars;
  - `end` (`historicalDataEnd` has arrived).
- The decision to trade is a free choice; the signal engine is the other two modules.
- The 8-hour deadline is `MaxCycles` cycles.
- `MC_TradingLoop` gives two thread identities and bounds the explored length of `ui_queue` to `MaxQueue` = 2 with a state constraint. The queue itself is unbounded.

**`TradingPrograms`** extends `TradingLoop` with the program the user launched: the package, or the legacy `src/trading_bot.py`. The two programs' GUI handlers (trading_bot.py 1567-1712), reader callbacks (328-366) and thread loop (1140-1304) are `TradingLoop`'s actions, line for line.

- `mlOn` records, per thread, the "Enable ML Models" checkbox that `get_strategy_params` read at Start (`StartWithParams`). The checkbox defaults to on.
- The legacy thread starts differently (`LegacyThreadInit`). `EnhancedAlphaWaveStrategy.__init__` (912-916) builds `EnhancedStrategyConfig({'use_ml_models': True})`. That constructor indexes every Alpha Wave key of the GUI entries (`AlphaWaveKeys`, 486-521), so it raises `KeyError`. The strategy is built before the thread's `try` (1112), so with ML on the thread ends right after its first log line.
- `MC_TradingPrograms` explores both programs, with the bounds of `MC_TradingLoop`.

**`OrderFlow`** models one ticker's order path (ui.py 126-224) against TWS, together with the `position` and `orderStatus` callbacks.

- **Per cycle:** `ReqPositions` is `reqPositions()`, and TWS answers with the current position. `ReadPositions` copies `pos_df` after the sleep; the `order_df` copy is never read, so it is left out. `Decide` sends at most one order under `app.nextValidOrderId`.
- **TWS:** `Submit` does what TWS does with the id:
  - an unused id is accepted as a new order;
  - the id of a working order modifies that order;
  - any other used id is rejected (error 103).
- **TWS's own steps (the environment, no code of the bot):** `Fill`, and `Cancel`, which ends an order without a fill as `Cancelled`, `ApiCancelled` or `Inactive` (`UnfilledEnds`; Inactive is TWS's status for an order rejected by a risk or margin check or cancelled by the system). **Reader callback:** `Position` (the reports arrive in order, with any delay).
- **The open-order table:** `orderDf` is `order_df`, which the GUI lists every 100 ms (ui.py 937-956). Its rows carry the order id and the status.
  - `inbox` is the reader socket's queue of `openOrder` and `orderStatus` callbacks, in the order TWS sent them.
  - TWS sends a pair of them when it accepts or modifies an order. It sends them again for every working order when the thread calls `reqOpenOrders` (folded into `ReadPositions`). A fill or an end without a fill sends a final status.
  - `OpenOrder` appends a row on every call (ib_client.py 104-131), so an order collects one row per announcement. `OrderStatus` (133-155) filters out every row of the order on `Filled`, `Cancelled` or `ApiCancelled`.
  - A rejected id (error 103) reaches only `error()`, which logs; it is not modelled.
  - A fill is reported by its final `orderStatus` alone. An `openOrder` TWS sends for a filled order comes before that status, so it only adds a row the status then removes; one sent after it would leave the row. The model assumes TWS does not, so the only way `TableMatchesTws` fails is the code's own filter.

**`BacktestRuns`** models the GUI's offline handlers `backtest_strategy` and `optimize_params` (ui.py 638-842), and the `next()` of the backtest strategy (backtesting.py 78-109).

| Code | Action |
|---|---|
| pressing Backtest / Optimise | `Start` (each handler once) |
| `reqHistoricalData(reqId=999, ...)` | `Request` |
| `wait_for_data(app, 999, timeout)` | `Wait` (data, or timeout and `continue` with `Advance`) |
| `backtest_strategy`'s per-ticker body | `RunBacktest` (records which tickers' bars the run used) |
| one parameter combination | `RunCombo` (score, `score > best_score`) |
| `break` after the first ticker, and "Apply best parameters" | `EndOptimize`, `Finish` |
| `historicalData` for reqId 999 | `Deliver` (appends to the stored frame) |
| the trading thread's `app.data = {}` | `TradingReset` |

- A frame is the sequence of tickers whose bars it holds.
- A backtest is abstracted to its statistics. `TradesOf` says that `next()` can trade only if the frame has the columns `_alpha_wave_signals` reads; otherwise the `KeyError` is caught and nothing trades. With no trade the return is 0 and the Sharpe ratio is NaN.
- `MC_BacktestRuns` uses two tickers and two combinations (the code tries 50; two are enough to compare a score with a best score).

**`MlModelManager`** models `MLModelManager.train_models` and `predict` (ml_manager.py 136-394) as the trading thread drives them (ui.py 113-124). One strategy, and so one manager, serves all the thread's tickers.

- **`ProcessTicker(t)`** is one ticker of a cycle. It applies the retrain gate (`trade_count % retrain_frequency == 0` and more than 300 rows), then `generate_signals`, whose veto is `AlphaWaveSignals`' `Fuse`, then a possible order counted in `trade_count`.
- **`TrainResults`** gives what `train_models` can leave:
  - nothing changed (the early return, or an exception the caller catches);
  - three rebuilt classic models, each fitted or not;
  - the LSTM replaced, or the earlier one kept;
  - `is_trained` set in every case except the first.
- **`Predictions`** gives what `predict` can return from the fitted models: the majority vote (a tie is 0) and the mean confidence. The answers of a fitted model are free.
- Confidences 0.60 and 0.84 keep every mean of up to four exact in hundredths.

## Runs

| Run | Checks | Result |
|---|---|---|
| `indicators_no_repaint` | `IndicatorsTypeOK`, `NoRepaint`, `IndicatorsNoRepaint`, `ImplementsStopMachine` over every history of up to 4 bars with prices 1..3, AtrLength 2, two poles | pass: recomputing on a longer history never changes a stop whose ATR window is full, nor any defined channel, wave_pulse or density value. The batch stop implements the incremental `StopMachine` |
| `channel_not_npole` | `ChannelIsNPoleFilter` (spec 4.1) | violation: from the third bar on the channel centre differs from the n-pole recurrence. Each `an_filter` pass averages its input with the lagged input, not with its own previous output |
| `pipeline_pass` | `PipelineTypeOK` over every market of up to 4 bars and 3 cycles | pass: every cycle's input and decision are well formed on the frames the pipeline really produces. The run exercises every step of the cycle that `pipeline_stops_trading` and the `MlModelManager` runs build on |
| `pipeline_stops_trading` | `TradesOnValidHistory` | violation: in the third cycle a valid history is dropped as "Insufficient data after processing", and so is every later one |
| `loop_threads_end` | `ProgramsTypeOK`, `ThreadsEventuallyExit` under fairness, in both programs | pass: every trading thread ends, since every wait times out, the loop has a deadline, and a legacy thread started with ML on ends at once |
| `loop_stop_lost` | `NoCycleAfterStop` | violation: after Stop the thread starts another cycle |
| `orders_table_keeps_inactive` | `TableMatchesTws`, 4 cycles | violation: TWS ends an order as `Inactive`; once the reader has delivered every callback, the open-order table still lists it, because `orderStatus` filters only `Filled`, `Cancelled` and `ApiCancelled` (ib_client.py 150). The re-announced duplicate rows are not the problem: they all go with a final status the filter knows |
| `orders_while_working` | `NoOrderWhileWorking` | violation: an order is sent while the previous one is working, and under the same id it modifies that order |
| `backtest_completes` | `TypeOK`, `HandlerCompletes` under fairness | pass: a started backtest or optimisation always returns to the Tk loop, since every wait times out |
| `backtest_ticker_mixup` | `BacktestUsesOwnTicker` | violation: the second ticker is backtested on the first ticker's bars (reqId 999 reused, `app.data[999]` never cleared) |
| `ml_other_ticker_models` | `PredictsWithOwnModels` | violation: a ticker's entries are vetoed by models fitted on another ticker (no retrain after a trade, or on a frame of 300 rows or fewer) |
| `loop_partial_history` | `OrdersOnCompleteHistory` | violation: an order is decided on a history still being delivered |

Each property of a passing run has a mutant in `PROJECT.json`, a plausible slip in the modelled code that TLC shows breaks it:

| Property | Mutant |
|---|---|
| `NoRepaint` | `shift(-1)` in the true range |
| `IndicatorsNoRepaint` | `shift(-1).fillna(method='ffill')` in `an_filter` |
| `ImplementsStopMachine` | the flip compared with the same bar's stops instead of the previous bar's |
| `ThreadsEventuallyExit` | `wait_for_data` without its timeout |
| `HandlerCompletes` | `wait_for_data` without its timeout |
| `IndicatorsTypeOK`, `PipelineTypeOK`, `ProgramsTypeOK`, `TypeOK` (backtest) | the direction column never written (pandas copy-on-write); `generate_signals` returning only the rule's four values; no `validate_dataframe`; the ticker loop running one index too far |

**Bounds.**

- *Indicator modules:* four bars with AtrLength 2 give three full windows, and let a flip, a reset and a re-flip happen (the refinement's mutant is caught at this size). Two poles and three bars are the least at which the two-tap and the recursive filter can differ. The prices 1..3 give true ranges 0..2.
- *Pipeline module:*
  - Prices 1 and 3 give four bar shapes.
  - A 4-bar market with fresh histories of 3 bars and one kept row gives frames of 3 and 4 rows.
  - Three cycles reach the third frame, where hlc3 is NaN in every row.
  - `md_threshold` is a GUI entry. It is set to 25 because the density of a 3-row frame is at most 75, and a higher threshold would make every entry unreachable.
  - q_ama is computed with a window of two rows, T3 with spans 1 and 3.
  - Confidences 60 and 90 straddle the threshold of 60, the boundary included; the mean of two of them is exact. Two voters give a tie.
  - About 78,000 distinct states, a little over one minute.
- *Backtest module:* two tickers are the least for one ticker's frame to reach another's run. Two combinations let a score be compared with a best score, and one trading-thread reset lets it race a wait.
- *ML module:* two tickers, up to three evaluations, and `retrain_frequency` 100 with at most one trade. The gate is then open until the first trade and closed after it.
- *Loop module:* two threads are enough for a second Start while the first thread runs. Two cycles let a thread reach the loop head after a full cycle. One ticker suffices because the tickers share nothing but the queue.
- *Connections:* the passing liveness run uses one connection. It explores both programs: 1.8M distinct states, about 2.5 minutes. The violation runs also use one; a reconnect adds no new question yet.

**Fairness.** Each trading thread is weakly fair: every wait in it ends by timeout or by its sleep ending. `process_ui_queue` is weakly fair, because Tk re-arms it every 100 ms. The user and TWS are not fair: nobody has to press a button, and TWS may never answer. `CHECK_DEADLOCK FALSE` is used because, once the bounded connections and threads are used up and every thread has ended, the GUI only waits for input. The backtest handlers are weakly fair for the same reason (each wait times out); the user, TWS and the trading thread's reset are not. The indicator and pipeline modules assume no fairness: they are finite computations: the bar feed ends at `MaxBars`, and a call returns once.

**Divergences seen while modelling and not kept as runs.**

- *The long stop can fall while LONG* (spec section 3): the ratchet keeps the stop only while the previous low is above the previous stop (indicators.py 170-174). The flip, however, compares the current low with that stop. So after a breach that does not flip, the stop resets lower and the direction stays LONG.
- *Constant prices flip* (spec section 8): with a zero ATR both stops equal the price, and `current_low <= prev_long_stop` (indicators.py 192) holds on the second bar, so a flat market flips to SHORT.
- *Flat counts as falling* (spec section 4.8): `wave_pulse_direction` and `quantum_filter_direction` are -1 whenever `last > prev` fails (strategy.py 116-119). With the hlc3 defect that `pipeline_stops_trading` shows, the channel is flat over the fresh rows of the second cycle. The filter then reads as falling, so only short entries are possible there: with q_ama computed, a short entry is reachable on a concatenated frame in the pipeline model and a long entry is not.
- *The optimiser never finds parameters*: the backtest `next()` passes `self.data.df`, which has only the bar columns, to `generate_signals` (backtesting.py 93). `_alpha_wave_signals` raises `KeyError('q_ama')`, which is caught, so no run trades and every score is NaN. `score > best_score` (ui.py 810) never holds, and `optimize_params` always reports that it found nothing. `BacktestRuns` reaches this outcome (`none_found`); no run is spent on it.
- *Two trading threads*: `stop_strategy` clears `is_running` at once (ui.py 579), so Stop then Start runs a second thread while the first, whose STOP_TRADING the GUI may have taken, is still trading.
- *A split ensemble vetoes*: a tie of the votes is reported as 0 with the voters' mean confidence (ml_manager.py 383-387), so it suppresses long entries.
- *Configuration is never validated* (spec section 5): `EnhancedStrategyConfig.validate()` (config.py) checks the lookback and the confidence threshold, but nothing calls it, so a bad value is used as given.
- *A crash while saving loses the configuration*: `save_config` opens the file with `'w'` (ui.py 844-872), truncating it before `json.dump` writes. `load_config` (874-913) sets the entries section by section, so a file missing a key leaves the entries partly loaded. The spec puts configuration persistence out of scope.
- *The legacy program never trades with ML on*: in `src/trading_bot.py` the strategy's `KeyError` (trading_bot.py 915, raised outside the `try` at 1112) ends the thread after "Enhanced trading logic started". No error reaches the log, and `is_running` stays True. `loop_threads_end` reaches this end; no violation run is spent on it.
- *The open-order table lists an order several times*: each `reqOpenOrders` adds another row for every working order (`order_df` grows by one row per order per cycle). The rows all go with the order's final status; the `Inactive` order they can outlive is `orders_table_keeps_inactive`.
- *Reused order ids*: every order uses `app.nextValidOrderId`, which is never advanced (ui.py 177). The `orders_while_working` counterexample shows the consequence.

## Not modelled yet, and the plan

- **The order of the concatenated frame.** `update_indicators` puts the kept rows before a fresh history that overlaps them. The frame therefore repeats bars and is out of time order. `StrategyPipeline` computes over the frame exactly so, but no property yet states what the indicators should be over a deduplicated history.
- **Model fitting and feature engineering.** `FeatureEngineer` and the model builders are out of TLC's reach; a fitted model's answer is free in `MlModelManager`. Two hazards live there and are listed without a property: the last `prediction_horizon` rows are labelled 0 (down) because `(NaN > 0).astype(int)` is 0 and `dropna()` then drops nothing (ml_manager.py 109), and `predict` refits the scaler on the live window (ml_manager.py 130).
- **Backtesting internals.** `init`'s indicator series, ML training in `init`, and the backtesting.py engine are abstracted to the statistics a run yields.
- **Not planned:**
  - `config.py`, `main.py` and the widget code: a merge of default and given parameters, and layout. `validate()` would be the only behaviour to check, and nothing calls it.
  - the rest of `src/trading_bot.py` (indicators, ML, backtest): copies of the package code the other modules model. The legacy backtest `Strategy.__init__(params)`, which backtesting.py cannot call, is left out.
  - `src/test_refactor.py`: import tests.
