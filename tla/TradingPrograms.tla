--------------------------- MODULE TradingPrograms ---------------------------
(***************************************************************************)
(* The two programs that run the live loop: the package (main.py, with     *)
(* src/trading_bot_app/ui.py) and the legacy monolith src/trading_bot.py,  *)
(* run as a script.  Their GUI handlers, trading thread and IB callbacks   *)
(* are the same code line for line, so both are TradingLoop's actions;     *)
(* they differ in how the trading thread builds its strategy.  In the      *)
(* package EnhancedStrategyConfig(params) starts from a full set of        *)
(* defaults.  In the monolith, EnhancedAlphaWaveStrategy.__init__ builds   *)
(* EnhancedStrategyConfig({'use_ml_models': True}) when ML is enabled,     *)
(* and that constructor indexes the GUI entries by every Alpha Wave key.   *)
(*                                                                         *)
(* Which program runs is fixed for a behaviour.  Whether ML is enabled is  *)
(* the "Enable ML Models" checkbox, read by get_strategy_params at Start.  *)
(***************************************************************************)
EXTENDS TradingLoop

CONSTANT Programs   \* the programs explored: "package", "legacy"

VARIABLES
    program,  \* the program the user launched
    mlOn      \* per thread: strategy_params['use_ml_models'] it was started with

progVars == <<vars, program, mlOn>>

\* The keys trading_bot.py's EnhancedStrategyConfig reads with gui_entries[key].
AlphaWaveKeys ==
    {"q_ama_adx_len", "q_ama_weight", "q_ama_ma_len", "wp_smooth", "wp_const",
     "qc_poles", "qc_period", "qc_mult", "md_ma_len", "md_calc_len",
     "md_smooth_len", "md_threshold", "atr_stop_len", "atr_stop_mult",
     "t3_fast_len", "t3_slow_len", "t3_factor"}

\* EnhancedStrategyConfig(gui_entries) raises KeyError on a missing key.
LegacyConfigRaises(keys) == ~(AlphaWaveKeys \subseteq keys)

(* trading_bot.py's EnhancedAlphaWaveStrategy(params): with use_ml_models *)
(* it builds MLModelManager(EnhancedStrategyConfig({'use_ml_models':      *)
(* True})).                                                                *)
LegacyStrategyRaises(ml) == ml /\ LegacyConfigRaises({"use_ml_models"})

InitPrograms ==
    /\ Init
    /\ program \in Programs
    /\ mlOn = [t \in Threads |-> FALSE]

(* start_strategy: get_strategy_params reads use_ml_var into the          *)
(* parameters the new thread receives.                                     *)
StartWithParams ==
    /\ StartStrategy
    /\ \E on \in BOOLEAN : mlOn' = [mlOn EXCEPT ![gui'.logic] = on]

\* The GUI handlers of either program; only Start touches mlOn.
GuiStep ==
    \/ StartWithParams
    \/ (Connect \/ Disconnect \/ StopStrategy \/ ProcessUiQueue) /\ UNCHANGED mlOn

(* trading_bot.py's thread start: it logs "Enhanced trading logic started" *)
(* and builds the strategy before its try block, so the KeyError ends the *)
(* thread with nothing more on ui_queue; otherwise as in the package.      *)
LegacyThreadInit(t) ==
    /\ th[t].pc = "init"
    /\ IF LegacyStrategyRaises(mlOn[t])
       THEN /\ th' = SetPc(t, "exited")
            /\ queue' = Logged(queue)
            /\ UNCHANGED <<gui, app, tws, placed, stopAsked>>
       ELSE ThreadInit(t)

(* trading_bot.py's enhanced_trading_logic_thread: after the start, the   *)
(* loop is ui.py's, line for line.                                         *)
LegacyThreadStep(t) ==
    IF th[t].pc = "init" THEN LegacyThreadInit(t) ELSE ThreadStep(t)

ProgramThreadStep(t) ==
    /\ IF program = "legacy" THEN LegacyThreadStep(t) ELSE ThreadStep(t)
    /\ UNCHANGED <<program, mlOn>>

\* The reader thread's historicalData and nextValidId, the same in both.
ReaderStep(g) == (HistoricalData(g) \/ NextValidId(g)) /\ UNCHANGED mlOn

NextPrograms ==
    /\ \/ GuiStep
       \/ \E t \in Threads : ProgramThreadStep(t)
       \/ \E g \in Gens : ReaderStep(g)
    /\ UNCHANGED program

(* As in TradingLoop: the trading threads and the periodic                *)
(* process_ui_queue are fair, the user and TWS are not.                    *)
FairnessPrograms ==
    /\ \A t \in Threads : WF_progVars(ProgramThreadStep(t))
    /\ WF_progVars(ProcessUiQueue /\ UNCHANGED <<program, mlOn>>)

SpecPrograms == InitPrograms /\ [][NextPrograms]_progVars /\ FairnessPrograms

-----------------------------------------------------------------------------
ProgramsTypeOK ==
    /\ TypeOK
    /\ program \in Programs
    /\ mlOn \in [Threads -> BOOLEAN]

=============================================================================
