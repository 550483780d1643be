----------------------------- MODULE OrderFlow -----------------------------
(***************************************************************************)
(* The order path of one ticker in enhanced_trading_logic_thread           *)
(* (src/trading_bot_app/ui.py 121-211) against TWS and the TradeApp        *)
(* callbacks that report back (ib_client.py position, openOrder,           *)
(* orderStatus).                                                           *)
(*                                                                         *)
(* Each cycle the thread calls reqPositions, sleeps one second and copies  *)
(* pos_df; calls reqOpenOrders, sleeps and copies order_df (and never      *)
(* uses the copy); takes the signals; and sends at most one market order   *)
(* with app.nextValidOrderId.  TWS accepts an order under an unused id,    *)
(* treats an order under the id of a working order as a modification of   *)
(* it, and rejects an id already used (error 103).  Fills and position     *)
(* reports come back on the reader thread, in order, but with no bound on  *)
(* their delay.  openOrder and orderStatus callbacks arrive on the same   *)
(* socket in the order TWS sent them; they keep order_df, the table the    *)
(* GUI lists as open orders every 100 ms.                                  *)
(*                                                                         *)
(* Quantities are units of the planned quantity; the signals are free      *)
(* (AlphaWaveSignals computes them).                                       *)
(***************************************************************************)
EXTENDS Integers, Sequences, FiniteSets, TLC

LOCAL Seqs == INSTANCE SequencesExt

CONSTANTS
    MaxCycles,      \* cycles of the trading loop
    FirstOrderId,   \* the id nextValidId reported at connection
    BUY, SELL,      \* order actions
    None            \* Python's None

VARIABLES
    pc,          \* the thread's place in the cycle
    cycle,       \* cycles completed
    curPos,      \* current_pos the thread computed this cycle
    tradeCount,  \* trade_count
    posView,     \* the ticker's last row of pos_df, None as 0 rows
    reports,     \* position() callbacks in flight, in order
    pos,         \* TWS: the account's position in the ticker
    working,     \* TWS: working orders, id -> [action, qty]
    usedIds,     \* TWS: ids it has accepted
    inbox,       \* openOrder / orderStatus callbacks in flight, in order
    orderDf      \* app.order_df: its rows' OrderId and Status

vars == <<pc, cycle, curPos, tradeCount, posView, reports,
          pos, working, usedIds, inbox, orderDf>>

Init ==
    /\ pc = "positions"
    /\ cycle = 0
    /\ curPos = 0
    /\ tradeCount = 0
    /\ posView = None
    /\ reports = <<>>
    /\ pos = 0
    /\ working = <<>>
    /\ usedIds = {}
    /\ inbox = <<>>
    /\ orderDf = <<>>

-----------------------------------------------------------------------------
Signed(o) == IF o.action = BUY THEN o.qty ELSE -o.qty
Abs(x) == IF x < 0 THEN -x ELSE x

\* The callbacks TWS sends about order id: openOrder, then orderStatus.
OpenMsg(id, st) == [kind |-> "open", id |-> id, status |-> st]
StatusMsg(id, st) == [kind |-> "status", id |-> id, status |-> st]
Announce(id) == <<OpenMsg(id, "Submitted"), StatusMsg(id, "Submitted")>>

\* The statuses after which orderStatus drops the order from order_df.
Terminal == {"Filled", "Cancelled", "ApiCancelled"}

\* The statuses with which TWS ends an order that did not fill: cancelled
\* by the bot or the user, by the API, or made Inactive by TWS (rejected
\* by a risk or margin check, or cancelled by the system).
UnfilledEnds == {"Cancelled", "ApiCancelled", "Inactive"}

\* order_id = app.nextValidOrderId, read for every order and never advanced
OrderId == FirstOrderId

(* What TWS does with placeOrder(id, contract, order): a new order under  *)
(* an unused id, a modification under the id of a working order, and a   *)
(* rejection of any other used id, which only error() hears of (103).     *)
(* An accepted order is announced by openOrder and orderStatus.           *)
Submit(id, o) ==
    CASE id \in DOMAIN working ->
              [working |-> [working EXCEPT ![id] = o], usedIds |-> usedIds,
               msgs |-> Announce(id)]
      [] id \in usedIds ->
              [working |-> working, usedIds |-> usedIds, msgs |-> <<>>]
      [] OTHER ->
              [working |-> working @@ (id :> o), usedIds |-> usedIds \cup {id},
               msgs |-> Announce(id)]

(* The order the trading logic sends for current_pos p and the signals,   *)
(* or None.  Flat: a long entry buys, else a short entry sells.  Long: a  *)
(* long exit sells abs(p).  Short: a short exit buys abs(p).              *)
OrderFor(p, s) ==
    CASE p = 0 /\ s.longEntry  -> [action |-> BUY, qty |-> 1]
      [] p = 0 /\ s.shortEntry -> [action |-> SELL, qty |-> 1]
      [] p > 0 /\ s.longExit   -> [action |-> SELL, qty |-> Abs(p)]
      [] p < 0 /\ s.shortExit  -> [action |-> BUY, qty |-> Abs(p)]
      [] OTHER -> None

Signals == [longEntry : BOOLEAN, shortEntry : BOOLEAN,
             longExit : BOOLEAN, shortExit : BOOLEAN]

-----------------------------------------------------------------------------
(* Trading thread.                                                         *)

(* app.reqPositions(): TWS answers with the ticker's current position.    *)
ReqPositions ==
    /\ pc = "positions"
    /\ pc' = "read"
    /\ reports' = Append(reports, pos)
    /\ UNCHANGED <<cycle, curPos, tradeCount, posView, pos, working, usedIds, inbox, orderDf>>

(* After time.sleep(1): copy pos_df, drop duplicates keeping the last row, *)
(* and sum the ticker's Position (0 with no row).  reqOpenOrders follows: *)
(* TWS sends openOrder and orderStatus again for every working order.     *)
(* The copy of order_df taken after the sleep is never read.              *)
ReadPositions ==
    /\ pc = "read"
    /\ curPos' = IF posView = None THEN 0 ELSE posView
    /\ pc' = "decide"
    /\ inbox' = inbox \o Seqs!FlattenSeq(Seqs!SetToSeq({Announce(id) : id \in DOMAIN working}))
    /\ UNCHANGED <<cycle, tradeCount, posView, reports, pos, working, usedIds, orderDf>>

(* generate_signals, then the trading logic: at most one order, sent with *)
(* placeOrder(order_id, ...) and counted in trade_count.                  *)
Decide ==
    /\ pc = "decide"
    /\ pc' = "end"
    /\ \E s \in Signals :
          LET o == OrderFor(curPos, s) IN
          IF o = None
          THEN UNCHANGED <<tradeCount, working, usedIds, inbox>>
          ELSE LET r == Submit(OrderId, o) IN
               /\ working' = r.working
               /\ usedIds' = r.usedIds
               /\ inbox' = inbox \o r.msgs
               /\ tradeCount' = tradeCount + 1
    /\ UNCHANGED <<cycle, curPos, posView, reports, pos, orderDf>>

(* End of the cycle and the sleep; after MaxCycles cycles the 8-hour      *)
(* deadline ends the loop.                                                 *)
EndCycle ==
    /\ pc = "end"
    /\ cycle' = cycle + 1
    /\ pc' = IF cycle + 1 < MaxCycles THEN "positions" ELSE "done"
    /\ UNCHANGED <<curPos, tradeCount, posView, reports, pos, working, usedIds,
                   inbox, orderDf>>

-----------------------------------------------------------------------------
(* TWS and the reader thread.  Fill and Cancel are TWS's own steps (the   *)
(* environment); Position, OpenOrder and OrderStatus are TradeApp's       *)
(* callbacks, run on the reader thread in the order TWS sent them.        *)

(* A working market order fills; TWS reports its status and, with        *)
(* positions subscribed, the new position.                                 *)
Fill ==
    /\ \E id \in DOMAIN working :
          /\ pos' = pos + Signed(working[id])
          /\ working' = [i \in DOMAIN working \ {id} |-> working[i]]
          /\ reports' = Append(reports, pos + Signed(working[id]))
          /\ inbox' = Append(inbox, StatusMsg(id, "Filled"))
    /\ UNCHANGED <<pc, cycle, curPos, tradeCount, posView, usedIds, orderDf>>

(* TWS ends a working order without a fill and reports the final status. *)
Cancel ==
    /\ \E id \in DOMAIN working, st \in UnfilledEnds :
          /\ working' = [i \in DOMAIN working \ {id} |-> working[i]]
          /\ inbox' = Append(inbox, StatusMsg(id, st))
    /\ UNCHANGED <<pc, cycle, curPos, tradeCount, posView, reports, pos, usedIds, orderDf>>

(* TradeApp.position appends a row to pos_df; the last row is what a     *)
(* later drop_duplicates(keep='last') leaves.                              *)
Position ==
    /\ reports # <<>>
    /\ posView' = Head(reports)
    /\ reports' = Tail(reports)
    /\ UNCHANGED <<pc, cycle, curPos, tradeCount, pos, working, usedIds, inbox, orderDf>>

(* TradeApp.openOrder: pd.concat of order_df and a one-row frame, so     *)
(* every call adds a row, for an order already listed too.                *)
OpenOrder ==
    /\ inbox # <<>> /\ Head(inbox).kind = "open"
    /\ orderDf' = Append(orderDf, [id |-> Head(inbox).id, status |-> Head(inbox).status])
    /\ inbox' = Tail(inbox)
    /\ UNCHANGED <<pc, cycle, curPos, tradeCount, posView, reports, pos, working, usedIds>>

(* TradeApp.orderStatus: on a final status every row of the order is     *)
(* filtered out of order_df; other statuses are only logged.              *)
OrderStatus ==
    /\ inbox # <<>> /\ Head(inbox).kind = "status"
    /\ LET m == Head(inbox) IN
       orderDf' = IF m.status \in Terminal
                  THEN SelectSeq(orderDf, LAMBDA r : r.id # m.id)
                  ELSE orderDf
    /\ inbox' = Tail(inbox)
    /\ UNCHANGED <<pc, cycle, curPos, tradeCount, posView, reports, pos, working, usedIds>>

Next ==
    \/ ReqPositions \/ ReadPositions \/ Decide \/ EndCycle
    \/ Fill \/ Cancel \/ Position \/ OpenOrder \/ OrderStatus

Spec == Init /\ [][Next]_vars

-----------------------------------------------------------------------------
(* The GUI's open-order table (update_positions_orders lists order_df)    *)
(* shows exactly the orders working at TWS once the reader thread has     *)
(* delivered every callback: each accepted order has been announced by    *)
(* openOrder, and each one that filled or was cancelled has had its rows  *)
(* removed by orderStatus, even when reqOpenOrders re-announced it        *)
(* earlier.  orderStatus removes rows only on Filled, Cancelled and       *)
(* ApiCancelled (ib_client.py 150), so an order TWS ends as Inactive      *)
(* stays listed.                                                           *)
TableMatchesTws ==
    inbox = <<>> => {orderDf[i].id : i \in DOMAIN orderDf} = DOMAIN working

(* Orders are fetched "to get current positions and orders" before the   *)
(* decision, so no order should be sent while an earlier order of the    *)
(* bot is still working at TWS.  The copy of order_df is never read.     *)
NoOrderWhileWorking ==
    [][tradeCount' > tradeCount => DOMAIN working = {}]_vars

=============================================================================
