---------------------------- MODULE TradingLoop ----------------------------
(***************************************************************************)
(* The live trading loop of src/trading_bot_app: the Tk GUI thread         *)
(* (ui.py: toggle_connection, start_strategy, stop_strategy,               *)
(* process_ui_queue), the trading threads it starts                        *)
(* (enhanced_trading_logic_thread), and the IB reader thread of each       *)
(* TradeApp (ib_client.py callbacks).                                      *)
(*                                                                         *)
(* The threads share three things: ui_queue, which carries both the log    *)
(* lines every TradeApp.log_message puts and the "STOP_TRADING" message    *)
(* stop_strategy puts; app.data, which the trading thread resets and the   *)
(* reader thread fills; and app.nextValidOrderId, which the reader thread  *)
(* sets and the trading thread reads for every order.                      *)
(*                                                                         *)
(* Abstractions: a log line is the model value LOG; a history is the      *)
(* stage its delivery has reached ("none", "few" bars, "many" bars, i.e.   *)
(* at least validate_dataframe's 200, and "end" after historicalDataEnd);  *)
(* the strategy's decision to trade is a free choice (the signal engine    *)
(* is AtrTrailingStop and AlphaWaveSignals); the 8-hour deadline is        *)
(* MaxCycles cycles of the loop.  Each TradeApp object is a generation     *)
(* 1..MaxConnects, since toggle_connection builds a new one per connect    *)
(* and a running thread keeps the one it was started with.                *)
(***************************************************************************)
EXTENDS Integers, Sequences, FiniteSets

CONSTANTS
    Threads,      \* identities of the threads start_strategy may start
    NumTickers,   \* tickers per run; ticker i uses req_id i
    MaxCycles,    \* cycles of the while loop before the 8-hour timeout
    MaxConnects,  \* TradeApp objects toggle_connection may create
    FirstOrderId, \* the id TWS first reports through nextValidId
    LOG,          \* any log line put by TradeApp.log_message
    STOP,         \* the "STOP_TRADING" message
    None          \* Python's None

ReqIds == 0..(NumTickers - 1)
Gens == 1..MaxConnects
Stage == {"none", "few", "many", "end"}
\* validate_dataframe(df, ticker, min_rows=200) accepts these stages
Valid == {"many", "end"}
PC == {"unborn", "init", "head", "get", "wait", "process", "end", "exited"}

VARIABLES
    gui,        \* the GUI's is_connected, is_running, logic_thread, app
    queue,      \* ui_queue
    app,        \* per TradeApp: connected, nextValidOrderId, data, pending
    th,         \* per trading thread: pc, its app, cycle count, req_id
    tws,        \* the next order id TWS would hand out
    placed,     \* the placeOrder calls that reached TWS, in order
    stopAsked   \* history: stop_strategy targeted this thread

vars == <<gui, queue, app, th, tws, placed, stopAsked>>

NewApp == [connected |-> FALSE, nextId |-> None,
           data |-> [r \in ReqIds |-> "none"], pending |-> {}]

Init ==
    /\ gui = [connected |-> FALSE, running |-> FALSE, logic |-> None, gen |-> 0]
    /\ queue = <<>>
    /\ app = [g \in Gens |-> NewApp]
    /\ th = [t \in Threads |-> [pc |-> "unborn", gen |-> 0, cycle |-> 0, req |-> 0]]
    /\ tws = FirstOrderId
    /\ placed = <<>>
    /\ stopAsked = [t \in Threads |-> FALSE]

-----------------------------------------------------------------------------
(* GUI thread.  Each handler runs to completion on the Tk thread.          *)

(* toggle_connection, connect branch: a new TradeApp, connect, and a wait *)
(* of up to 10 s for isConnected(); on success reqIds(-1).                *)
Connect ==
    /\ ~gui.connected
    /\ gui.gen < MaxConnects
    /\ \E ok \in BOOLEAN :
          /\ app' = [app EXCEPT ![gui.gen + 1].connected = ok]
          /\ gui' = [gui EXCEPT !.connected = ok, !.gen = gui.gen + 1]
    /\ UNCHANGED <<queue, th, tws, placed, stopAsked>>

(* stop_strategy: clears is_running and, when a thread was ever started, *)
(* puts STOP_TRADING on the shared ui_queue.                              *)
StopEffects(g) ==
    /\ gui' = [g EXCEPT !.running = FALSE]
    /\ IF gui.logic # None
       THEN /\ queue' = Append(queue, STOP)
            /\ stopAsked' = [stopAsked EXCEPT ![gui.logic] = TRUE]
       ELSE UNCHANGED <<queue, stopAsked>>

StopStrategy ==
    /\ gui.running
    /\ StopEffects(gui)
    /\ UNCHANGED <<app, th, tws, placed>>

(* toggle_connection, disconnect branch: stop_strategy if running, then   *)
(* app.disconnect(), which also ends the app's reader thread.             *)
Disconnect ==
    /\ gui.connected
    /\ IF gui.running
       THEN StopEffects([gui EXCEPT !.connected = FALSE])
       ELSE /\ gui' = [gui EXCEPT !.connected = FALSE]
            /\ UNCHANGED <<queue, stopAsked>>
    /\ app' = [app EXCEPT ![gui.gen].connected = FALSE, ![gui.gen].pending = {}]
    /\ UNCHANGED <<th, tws, placed>>

(* start_strategy: connected and not running; a new thread runs           *)
(* enhanced_trading_logic_thread on the current app.                      *)
StartStrategy ==
    /\ gui.connected /\ ~gui.running
    /\ \E t \in Threads :
          /\ th[t].pc = "unborn"
          /\ th' = [th EXCEPT ![t] = [pc |-> "init", gen |-> gui.gen,
                                      cycle |-> 0, req |-> 0]]
          /\ gui' = [gui EXCEPT !.running = TRUE, !.logic = t]
    /\ UNCHANGED <<queue, app, tws, placed, stopAsked>>

(* process_ui_queue, every 100 ms: get_nowait until queue.Empty, showing *)
(* every message, STOP_TRADING included, in the log window.              *)
ProcessUiQueue ==
    /\ queue # <<>>
    /\ queue' = <<>>
    /\ UNCHANGED <<gui, app, th, tws, placed, stopAsked>>


-----------------------------------------------------------------------------
(* Trading thread t.  Its app is the TradeApp it was started with.         *)

Gen(t) == th[t].gen
Logged(q) == Append(q, LOG)
SetPc(t, pc) == [th EXCEPT ![t].pc = pc]

(* Start of enhanced_trading_logic_thread: log, reqPositions, sleep(2),   *)
(* record the initial positions.                                           *)
ThreadInit(t) ==
    /\ th[t].pc = "init"
    /\ th' = SetPc(t, "head")
    /\ queue' = Logged(queue)
    /\ UNCHANGED <<gui, app, tws, placed, stopAsked>>

(* A cycle's first half: log "Starting enhanced strategy cycle...", reset *)
(* app.data = {}, and reqHistoricalData for every ticker (sent only while *)
(* the app is connected), leaving the queue as q plus the log line.       *)
BeginCycle(t, q) ==
    LET g == Gen(t) IN
    /\ queue' = Logged(q)
    /\ app' = [app EXCEPT
                 ![g].data = [r \in ReqIds |-> "none"],
                 ![g].pending = IF app[g].connected THEN @ \cup ReqIds ELSE @]
    /\ th' = [th EXCEPT ![t].pc = "wait", ![t].req = 0]

(* Loop head: while time.time() <= timeout; then                         *)
(* "if not ui_queue.empty()", after which get_nowait is a separate step.  *)
LoopHead(t) ==
    /\ th[t].pc = "head"
    /\ \/ /\ th[t].cycle >= MaxCycles
          /\ th' = SetPc(t, "exited")
          /\ queue' = Logged(queue)
          /\ UNCHANGED app
       \/ /\ th[t].cycle < MaxCycles
          /\ queue # <<>>
          /\ th' = SetPc(t, "get")
          /\ UNCHANGED <<queue, app>>
       \/ /\ th[t].cycle < MaxCycles
          /\ queue = <<>>
          /\ BeginCycle(t, queue)
    /\ UNCHANGED <<gui, tws, placed, stopAsked>>

(* msg = ui_queue.get_nowait().  If another consumer emptied the queue    *)
(* since empty() was tested, queue.Empty escapes the loop and the outer   *)
(* handler logs a fatal error; STOP_TRADING ends the loop; any other      *)
(* message is consumed and the cycle starts.                               *)
GetNowait(t) ==
    /\ th[t].pc = "get"
    /\ \/ /\ queue = <<>>
          /\ th' = SetPc(t, "exited")
          /\ queue' = Logged(queue)
          /\ UNCHANGED app
       \/ /\ queue # <<>>
          /\ Head(queue) = STOP
          /\ th' = SetPc(t, "exited")
          /\ queue' = Logged(Tail(queue))
          /\ UNCHANGED app
       \/ /\ queue # <<>>
          /\ Head(queue) # STOP
          /\ BeginCycle(t, Tail(queue))
    /\ UNCHANGED <<gui, tws, placed, stopAsked>>

\* The loop moves to the next req_id, or to the end of the cycle.
NextTicker(t) ==
    IF th[t].req + 1 < NumTickers
    THEN [th EXCEPT ![t].pc = "wait", ![t].req = @ + 1]
    ELSE SetPc(t, "end")

(* Faulty variant: wait_for_data without its timeout.                     *)
WaitForDataNoTimeout(t) ==
    /\ th[t].pc = "wait"
    /\ app[Gen(t)].data[th[t].req] # "none"
    /\ th' = SetPc(t, "process")
    /\ queue' = Logged(queue)
    /\ UNCHANGED <<gui, app, tws, placed, stopAsked>>

(* wait_for_data(app, req_id, timeout=15) returns as soon as app.data     *)
(* holds a non-empty frame for req_id, and False when 15 s pass without   *)
(* one; either way a line is logged.                                       *)
WaitForData(t) ==
    /\ th[t].pc = "wait"
    /\ IF app[Gen(t)].data[th[t].req] # "none"
       THEN th' = SetPc(t, "process")
       ELSE th' = NextTicker(t)
    /\ queue' = Logged(queue)
    /\ UNCHANGED <<gui, app, tws, placed, stopAsked>>

(* Faulty variant: the per-ticker body without validate_dataframe.       *)
ProcessTickerUnvalidated(t) ==
    LET g == Gen(t)
        id == app[g].nextId
    IN
    /\ th[t].pc = "process"
    /\ th' = NextTicker(t)
    /\ queue' = Logged(queue)
    /\ \/ UNCHANGED <<tws, placed>>
       \/ /\ id # None /\ app[g].connected
          /\ placed' = Append(placed, [id |-> id, thread |-> t,
                                      stage |-> app[g].data[th[t].req]])
          /\ tws' = IF id >= tws THEN id + 1 ELSE tws
    /\ UNCHANGED <<gui, app, stopAsked>>

(* The per-ticker body.  dataDataframe reads the frame as it is now;      *)
(* validate_dataframe rejects fewer than 200 rows.  Whether the signals   *)
(* call for an order is free.  An order waits up to 5 s for               *)
(* nextValidOrderId and skips the ticker when it is still None; otherwise *)
(* placeOrder uses app.nextValidOrderId as it is, and reaches TWS only    *)
(* while the app is connected.                                             *)
ProcessTicker(t) ==
    LET g == Gen(t)
        stage == app[g].data[th[t].req]
        id == app[g].nextId
    IN
    /\ th[t].pc = "process"
    /\ th' = NextTicker(t)
    /\ queue' = Logged(queue)
    /\ \/ /\ stage \notin Valid
          /\ UNCHANGED <<tws, placed>>
       \/ /\ stage \in Valid
          /\ \/ UNCHANGED <<tws, placed>>
             \/ /\ id = None
                /\ UNCHANGED <<tws, placed>>
             \/ /\ id # None
                /\ IF app[g].connected
                   THEN /\ placed' = Append(placed, [id |-> id, thread |-> t,
                                                      stage |-> stage])
                        /\ tws' = IF id >= tws THEN id + 1 ELSE tws
                   ELSE UNCHANGED <<tws, placed>>
    /\ UNCHANGED <<gui, app, stopAsked>>

(* End of a cycle: log the trade count and sleep to the next 5-minute     *)
(* boundary.                                                               *)
EndCycle(t) ==
    /\ th[t].pc = "end"
    /\ th' = [th EXCEPT ![t].pc = "head", ![t].cycle = @ + 1]
    /\ queue' = Logged(queue)
    /\ UNCHANGED <<gui, app, tws, placed, stopAsked>>

ThreadStep(t) ==
    \/ ThreadInit(t) \/ LoopHead(t) \/ GetNowait(t)
    \/ WaitForData(t) \/ ProcessTicker(t) \/ EndCycle(t)

-----------------------------------------------------------------------------
(* Reader thread of TradeApp g, which runs while g is connected.           *)

(* historicalData: a bar of a pending request is stored in app.data; the *)
(* first one logs.  historicalDataEnd closes the request.  The bars of a  *)
(* request still arriving after the trading thread reset app.data land in *)
(* the new dict under the same req_id.                                     *)
HistoricalData(g) ==
    /\ app[g].connected
    /\ \E r \in app[g].pending :
          LET s == app[g].data[r] IN
          /\ app' = [app EXCEPT
                       ![g].data[r] = CASE s = "none" -> "few"
                                        [] s = "few"  -> "many"
                                        [] OTHER      -> "end",
                       ![g].pending = IF s \in {"many", "end"} THEN @ \ {r} ELSE @]
          /\ queue' = IF s = "few" THEN queue ELSE Logged(queue)
    /\ UNCHANGED <<gui, th, tws, placed, stopAsked>>

(* nextValidId: TWS reports its next order id, on connecting and in reply *)
(* to reqIds(-1); it is stored and logged.                                 *)
NextValidId(g) ==
    /\ app[g].connected
    /\ app[g].nextId = None
    /\ app' = [app EXCEPT ![g].nextId = tws]
    /\ queue' = Logged(queue)
    /\ UNCHANGED <<gui, th, tws, placed, stopAsked>>

-----------------------------------------------------------------------------
Next ==
    \/ Connect \/ Disconnect \/ StartStrategy \/ StopStrategy \/ ProcessUiQueue
    \/ \E t \in Threads :
          \/ ThreadInit(t) \/ LoopHead(t) \/ GetNowait(t)
          \/ WaitForData(t) \/ ProcessTicker(t) \/ EndCycle(t)
    \/ \E g \in Gens : HistoricalData(g) \/ NextValidId(g)

(* The trading threads are fair: each wait ends by its timeout, and each *)
(* sleep ends.  The GUI's periodic process_ui_queue is fair.  The user    *)
(* and TWS are not: nobody must press a button, and TWS may never answer. *)
Fairness ==
    /\ \A t \in Threads : WF_vars(ThreadStep(t))
    /\ WF_vars(ProcessUiQueue)

Spec == Init /\ [][Next]_vars /\ Fairness

-----------------------------------------------------------------------------
TypeOK ==
    /\ gui \in [connected : BOOLEAN, running : BOOLEAN,
                logic : Threads \cup {None}, gen : 0..MaxConnects]
    /\ queue \in Seq({LOG, STOP})
    /\ app \in [Gens -> [connected : BOOLEAN, nextId : Nat \cup {None},
                         data : [ReqIds -> Stage], pending : SUBSET ReqIds]]
    /\ th \in [Threads -> [pc : PC, gen : 0..MaxConnects,
                           cycle : 0..MaxCycles, req : ReqIds]]
    /\ tws \in Nat
    /\ placed \in Seq([id : Nat, thread : Threads, stage : Valid])
    /\ stopAsked \in [Threads -> BOOLEAN]

(* Every trading thread start_strategy starts eventually ends, whatever   *)
(* TWS and the user do: wait_for_data and wait_for_next_valid_order_id    *)
(* time out, and the while loop ends at the 8-hour deadline even when its *)
(* STOP_TRADING message never reaches it.                                  *)
ThreadsEventuallyExit ==
    \A t \in Threads : th[t].pc = "init" ~> th[t].pc = "exited"

(* stop_strategy's promise ("Enhanced strategy stopped successfully"):   *)
(* once it has put STOP_TRADING for the running thread, that thread does  *)
(* not start another cycle.  The thread looks for the message only at the *)
(* loop head, with get_nowait on the queue the GUI also drains, and takes *)
(* whatever message is first.                                              *)
NoCycleAfterStop ==
    [][\A t \in Threads :
          (stopAsked[t] /\ th[t].pc \in {"head", "get"})
              => th'[t].pc # "wait"]_vars

(* An order is decided on the complete history of its request.           *)
(* wait_for_data returns at the first bar, and validate_dataframe only    *)
(* counts rows, so a history still being delivered (bars arrive oldest    *)
(* first, the latest bar last) can be traded on.                          *)
OrdersOnCompleteHistory ==
    \A i \in DOMAIN placed : placed[i].stage = "end"

=============================================================================
