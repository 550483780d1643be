-------------------------- MODULE AtrTrailingStop --------------------------
(***************************************************************************)
(* The ATR ratchet trailing stop of src/trading_bot_app/indicators.py      *)
(* (atr, atr_trailing_stop_alpha_wave).                                    *)
(*                                                                         *)
(* The code is a batch computation: every evaluation recomputes the whole  *)
(* long-stop, short-stop and direction columns from the bar history.  The  *)
(* state machine below lets the history grow one bar at a time, as the     *)
(* caller's bar feed does, and after each append recomputes the frame      *)
(* exactly as the code does.                                               *)
(*                                                                         *)
(* Prices are small integers.  Every stop level is kept multiplied by      *)
(* Scale = 2 * AtrLength, which makes the mid price (high+low)/2 and the   *)
(* rolling mean of the true range exact integers: a stop level s and a     *)
(* price p are compared as s versus p * Scale.  pandas NaN is the model    *)
(* value NaN; every comparison with NaN is false, as in pandas.            *)
(***************************************************************************)
EXTENDS Integers, Sequences, FiniteSetsExt, Functions

CONSTANTS
    Prices,     \* the prices a bar's high, low and close can take
    AtrLength,  \* atr_length: the rolling window of the ATR
    AtrMult,    \* atr_mult (an integer multiplier in the model)
    MaxBars,    \* bound on the length of the bar history
    NaN         \* pandas' missing value

ASSUME AtrLength \in Nat \ {0} /\ AtrMult \in Nat /\ MaxBars \in Nat \ {0}

Scale == 2 * AtrLength

\* A bar as the stop reads it (Open and Volume are not used by the stop).
Bar == {b \in [high : Prices, low : Prices, close : Prices] :
            b.low <= b.close /\ b.close <= b.high}

AbsDiff(a, b) == IF a >= b THEN a - b ELSE b - a

\* Comparisons as pandas makes them: false when either side is NaN.
Defined(x) == x # NaN
Gt(a, b) == Defined(a) /\ Defined(b) /\ a > b
Le(a, b) == Defined(a) /\ Defined(b) /\ a =< b
Ge(a, b) == Defined(a) /\ Defined(b) /\ a >= b
\* min() and max() of the ratchet loop
Smaller(a, b) == IF a =< b THEN a ELSE b
Larger(a, b) == IF a >= b THEN a ELSE b

-----------------------------------------------------------------------------
(* Faulty variants of the code, each a plausible slip in indicators.py;  *)
(* a property that holds must fail when its variant replaces the code.   *)

\* atr() with Close.shift(-1): the next bar's close instead of the previous.
TrueRangeNextClose(h) ==
    [i \in 1..Len(h) |->
        IF i = Len(h) THEN h[i].high - h[i].low
        ELSE Max({h[i].high - h[i].low,
                  AbsDiff(h[i].high, h[i+1].close),
                  AbsDiff(h[i].low, h[i+1].close)})]

-----------------------------------------------------------------------------
(* atr(): the true range of bar i is the largest of high-low and the      *)
(* distances of high and low from the previous close.  At the first bar   *)
(* the previous close is NaN, which DataFrame.max(axis=1) skips.          *)
TrueRange(h) ==
    [i \in 1..Len(h) |->
        IF i = 1 THEN h[1].high - h[1].low
        ELSE Max({h[i].high - h[i].low,
                  AbsDiff(h[i].high, h[i-1].close),
                  AbsDiff(h[i].low, h[i-1].close)})]

(* rolling(length).mean() is NaN until a full window exists; here it is  *)
(* returned as the window's sum, the mean times AtrLength.               *)
AtrWindowSum(h) ==
    LET tr == TrueRange(h) IN
    [i \in 1..Len(h) |->
        IF i < AtrLength THEN NaN
        ELSE SumFunctionOnSet(tr, (i - AtrLength + 1)..i)]

(* calc_long_stop = mid - atr_mult * ATR and calc_short_stop = mid +      *)
(* atr_mult * ATR, both times Scale.                                      *)
CalcStop(h, side) ==
    LET atr == AtrWindowSum(h) IN
    [i \in 1..Len(h) |->
        IF atr[i] = NaN THEN NaN
        ELSE AtrLength * (h[i].high + h[i].low) + side * 2 * AtrMult * atr[i]]

CalcLongStop(h) == CalcStop(h, -1)
CalcShortStop(h) == CalcStop(h, 1)

\* series.bfill().iloc[0]: the first defined value, NaN if there is none.
FirstValid(s) ==
    IF \E i \in DOMAIN s : Defined(s[i])
    THEN s[Min({i \in DOMAIN s : Defined(s[i])})]
    ELSE NaN

\* fillna(method='ffill').fillna(method='bfill')
FillForwardBack(s) ==
    [i \in DOMAIN s |->
        LET before == {j \in 1..i : Defined(s[j])}
            after  == {j \in i..Len(s) : Defined(s[j])}
        IN IF before # {} THEN s[Max(before)]
           ELSE IF after # {} THEN s[Min(after)]
           ELSE NaN]

(* The ratchet loop, before the fill.  The long stop rises to            *)
(* max(calc, previous) while the previous bar's low stayed above the      *)
(* previous stop, and is otherwise reset to the bar's own candidate.      *)
(* The short stop mirrors it with highs and min.                          *)
RatchetLong(h) ==
    LET calc == CalcLongStop(h)
        f[i \in 1..Len(h)] ==
            IF i = 1 THEN FirstValid(calc)
            ELSE LET prev == f[i-1] IN
                 IF Defined(prev) /\ Defined(calc[i])
                    /\ Gt(h[i-1].low * Scale, prev)
                 THEN Larger(calc[i], prev)
                 ELSE calc[i]
    IN f

RatchetShort(h) ==
    LET calc == CalcShortStop(h)
        f[i \in 1..Len(h)] ==
            IF i = 1 THEN FirstValid(calc)
            ELSE LET prev == f[i-1] IN
                 IF Defined(prev) /\ Defined(calc[i])
                    /\ Gt(prev, h[i-1].high * Scale)
                 THEN Smaller(calc[i], prev)
                 ELSE calc[i]
    IN f

FinalLongStop(h) == FillForwardBack(RatchetLong(h))
FinalShortStop(h) == FillForwardBack(RatchetShort(h))

(* Faulty variant: under pandas copy-on-write the chained assignments    *)
(* df_copy['aw_stop_direction'].iloc[i] = ... write to a copy, and the    *)
(* column keeps the 0 it was initialised with.                            *)
StopDirectionCopyOnWrite(h) == [i \in 1..Len(h) |-> 0]

(* Faulty variant: the flip compares the bar's low and high with the     *)
(* stops of the same bar (long_stop.iloc[i]) instead of the previous one. *)
StopDirectionSameBar(h) ==
    LET long  == FinalLongStop(h)
        short == FinalShortStop(h)
        d[i \in 1..Len(h)] ==
            IF i = 1 THEN 1
            ELSE LET prev == d[i-1] IN
                 IF prev = 1 /\ Le(h[i].low * Scale, long[i]) THEN -1
                 ELSE IF prev = -1 /\ Ge(h[i].high * Scale, short[i]) THEN 1
                 ELSE prev
    IN d

(* The direction loop: 1 (long) at the first bar; a long flips to -1     *)
(* when the bar's low reaches the previous filled long stop, a short      *)
(* flips to 1 when the bar's high reaches the previous short stop.        *)
StopDirection(h) ==
    LET long  == FinalLongStop(h)
        short == FinalShortStop(h)
        d[i \in 1..Len(h)] ==
            IF i = 1 THEN 1
            ELSE LET prev == d[i-1] IN
                 IF prev = 1 /\ Le(h[i].low * Scale, long[i-1]) THEN -1
                 ELSE IF prev = -1 /\ Ge(h[i].high * Scale, short[i-1]) THEN 1
                 ELSE prev
    IN d

\* The three columns atr_trailing_stop_alpha_wave returns.
Frame(h) ==
    [long |-> FinalLongStop(h), short |-> FinalShortStop(h), dir |-> StopDirection(h)]

-----------------------------------------------------------------------------
VARIABLES
    bars,   \* the bar history the caller has appended so far
    frame   \* the stop columns computed over it

vars == <<bars, frame>>

Init ==
    /\ bars \in {<<b>> : b \in Bar}
    /\ frame = Frame(bars)

\* A new bar arrives and the whole stop is recomputed over the history.
AppendBar ==
    /\ Len(bars) < MaxBars
    /\ \E b \in Bar : bars' = Append(bars, b)
    /\ frame' = Frame(bars')

Next == AppendBar

Spec == Init /\ [][Next]_vars

-----------------------------------------------------------------------------
Level == Int \cup {NaN}

TypeOK ==
    /\ bars \in Seq(Bar)
    /\ frame.long \in [1..Len(bars) -> Level]
    /\ frame.short \in [1..Len(bars) -> Level]
    /\ frame.dir \in [1..Len(bars) -> {1, -1}]

(* No repaint: once the ATR window is full at bar i, appending further    *)
(* bars and recomputing the whole frame, as every evaluation of the       *)
(* strategy does, leaves the stops and the direction at bar i unchanged.  *)
(* A signal taken at bar i is therefore the one a later backtest of the   *)
(* same history reproduces (no look-ahead through the bfill seeding).     *)
NoRepaint ==
    [][\A i \in AtrLength..Len(bars) :
          /\ frame'.long[i] = frame.long[i]
          /\ frame'.short[i] = frame.short[i]
          /\ frame'.dir[i] = frame.dir[i]]_vars

-----------------------------------------------------------------------------
(* Refinement: the rows of the recomputed frame from the first full ATR   *)
(* window on are the state of the incremental stop machine of spec       *)
(* section 4.6.                                                           *)
CommittedRows ==
    [k \in 1..(Len(bars) - AtrLength + 1) |->
        [long  |-> frame.long[k + AtrLength - 1],
         short |-> frame.short[k + AtrLength - 1],
         dir   |-> frame.dir[k + AtrLength - 1]]]

Abstract == INSTANCE StopMachine WITH stops <- CommittedRows

(* Spec section 4.6 against atr_trailing_stop_alpha_wave: the batch        *)
(* recomputation over the whole history, with its ffill/bfill seeding and  *)
(* the direction loop reading the filled previous stops, behaves as the    *)
(* stop machine that carries the committed long stop, short stop and       *)
(* direction forward from the previous bar by the ratchet and flip rules.  *)
ImplementsStopMachine == Abstract!Spec

=============================================================================
