----------------------------- MODULE Indicators -----------------------------
(***************************************************************************)
(* The indicator columns that EnhancedAlphaWaveStrategy.compute_indicators *)
(* (src/trading_bot_app/strategy.py) adds next to the ATR stop and that    *)
(* _alpha_wave_signals reads: the quantum channel (an_filter over hlc3 and *)
(* over the true range), wave_pulse and momentum_density                   *)
(* (indicators.py).  As in AtrTrailingStop the history grows one bar at a  *)
(* time and every column is recomputed over the whole history.             *)
(*                                                                         *)
(* Every smoother runs with alpha = 1/2: wp_smooth = 5, md_smooth_len = 3, *)
(* and the channel's quantum_alpha is taken as 1/2 (its derivation from    *)
(* qc_period by cos and sqrt is not modelled); wp_const = 1/2.  With these *)
(* values every column is an exact dyadic number, kept as an integer times *)
(* Unit.  quantum_adaptive_ma runs with its default adx_length = 2 and     *)
(* weight = 1 (alpha 1/2): its ADX is then an exact rational, and its     *)
(* adaptive constant 0 or 1.  The T3 pair runs with factor = 1/2 and spans *)
(* 1 and 3 (alpha 1 and 1/2).                                              *)
(***************************************************************************)
EXTENDS AtrTrailingStop, TLC

LOCAL Seqs == INSTANCE SequencesExt

CONSTANTS
    Poles,       \* qc_poles
    QcMult,      \* qc_mult (an integer multiplier in the model)
    MdMaLen,     \* md_ma_len
    MdCalcLen,   \* md_calc_len
    QAmaMaLen,   \* q_ama_ma_len
    T3FastLen,   \* t3_fast_len
    T3SlowLen    \* t3_slow_len

ASSUME Poles \in Nat /\ QcMult \in Nat /\ MdMaLen \in Nat \ {0}
       /\ MdCalcLen \in {1, 2, 4} /\ QAmaMaLen \in {1, 2, 3, 4}
       /\ {T3FastLen, T3SlowLen} \subseteq {1, 3}

\* The unit of every column: exact through MaxBars halvings per stage.
Unit == 3 * 2^(MaxBars + 9)

\* x / d for a division the scale keeps exact.
ExactDiv(x, d) == IF Assert(x % d = 0, "inexact division") THEN x \div d ELSE 0

\* alpha * a + (1 - alpha) * b with alpha = 1/2, NaN if either is NaN
Mix(a, b) == IF Defined(a) /\ Defined(b) THEN ExactDiv(a + b, 2) ELSE NaN

\* fillna(method='bfill'): a NaN takes the next defined value.
BackFill(s) ==
    [i \in DOMAIN s |->
        LET after == {j \in i..Len(s) : Defined(s[j])}
        IN IF after # {} THEN s[Min(after)] ELSE NaN]

\* fillna(method='ffill'): a NaN takes the last defined value before it.
ForwardFill(s) ==
    [i \in DOMAIN s |->
        LET before == {j \in 1..i : Defined(s[j])}
        IN IF before # {} THEN s[Max(before)] ELSE NaN]

-----------------------------------------------------------------------------
(* Faulty variant: filtered.shift(-1).fillna(method='ffill'), the next    *)
(* value, the last row taking the one before it.                          *)
LaggedAhead(s) ==
    [i \in DOMAIN s |->
        IF i < Len(s) THEN s[i+1] ELSE IF Len(s) > 1 THEN s[Len(s)] ELSE NaN]

(* filtered.shift(1).fillna(method='bfill'): the previous value; the      *)
(* first row takes the value after it, the first value, or stays NaN in a *)
(* one-row frame.                                                          *)
Lagged(s) ==
    [i \in DOMAIN s |->
        IF i > 1 THEN s[i-1] ELSE IF Len(s) > 1 THEN s[1] ELSE NaN]

(* One pass of an_filter's loop: alpha * series + (1 - alpha) * the      *)
(* lagged copy of the same series, the previous pass's output.            *)
AnPass(s) == LET lag == Lagged(s) IN [i \in DOMAIN s |-> Mix(s[i], lag[i])]

RECURSIVE AnPasses(_, _)
AnPasses(s, k) == IF k = 0 THEN s ELSE AnPasses(AnPass(s), k - 1)

\* an_filter(series, alpha, poles)
AnFilter(s, poles) == BackFill(AnPasses(s, poles))

(* Spec 4.1's n_pole_filter: poles chained passes of                      *)
(* y[i] = alpha * x[i] + (1 - alpha) * y[i-1], each seeded with its first *)
(* input value.                                                           *)
RECURSIVE NPoleFilter(_, _)
NPoleFilter(s, poles) ==
    IF poles = 0 THEN s
    ELSE LET y[i \in DOMAIN s] == IF i = 1 THEN s[1] ELSE Mix(s[i], y[i-1])
         IN NPoleFilter(y, poles - 1)

-----------------------------------------------------------------------------
\* (High + Low + Close) / 3, in Unit
Hlc3(h) == [i \in DOMAIN h |-> (h[i].high + h[i].low + h[i].close) * (Unit \div 3)]

(* quantum_channel over the frame's hlc3 column: the centre q_filter is  *)
(* an_filter of that column after bfill then ffill, the half-width        *)
(* an_filter of the true range tr_qc (atr's, NaN previous close skipped   *)
(* by max).                                                               *)
QuantumChannel(h, hlc3) ==
    LET trh == TrueRange(h)
        tr == [i \in DOMAIN h |-> trh[i] * Unit]
        centre == AnFilter(ForwardFill(BackFill(hlc3)), Poles)
        width == AnFilter(tr, Poles)
        band(side) == [i \in DOMAIN h |->
                         IF Defined(centre[i]) /\ Defined(width[i])
                         THEN centre[i] + side * QcMult * width[i] ELSE NaN]
    IN [filter |-> centre, upper |-> band(1), lower |-> band(-1)]

(* A recursion y[1] = s[1], y[i] = step(y[i-1], s[i]), built as a         *)
(* sequence by a left fold.                                                *)
Recurrence(step(_, _), s) ==
    Seqs!FoldLeft(LAMBDA y, x : Append(y, IF y = <<>> THEN x ELSE step(y[Len(y)], x)),
                  <<>>, s)

(* ewm(alpha=1/2, adjust=False).mean(): y[1] = x[1],                      *)
(* y[i] = x[i] / 2 + y[i-1] / 2.                                          *)
Ema(s) == Recurrence(LAMBDA p, x : Mix(x, p), s)

RECURSIVE EmaCascade(_, _)
EmaCascade(s, k) == IF k = 0 THEN s ELSE EmaCascade(Ema(s), k - 1)

(* ewm(span=length, adjust=False): alpha = 2 / (length + 1), so the       *)
(* identity for span 1 and Ema for span 3.                                 *)
EmaSpan(s, length) == IF length = 1 THEN s ELSE Ema(s)

(* The cubic combination wave_pulse and t3_moving_average make of four    *)
(* chained EMAs, -c^3 e6 + 3(c^2+c^3) e5 - 3(2c^2+c+c^3) e4               *)
(* + (3c+1+c^3+3c^2) e3, for c = 1/2.                                     *)
Tilson(e3, e4, e5, e6) ==
    [i \in DOMAIN e3 |-> ExactDiv(-e6[i] + 9 * e5[i] - 27 * e4[i] + 27 * e3[i], 8)]

(* t3_moving_average(Close, length, factor = 1/2).                        *)
T3(h, length) ==
    LET e1 == EmaSpan([i \in DOMAIN h |-> h[i].close * Unit], length)
        e2 == EmaSpan(e1, length)
        e3 == EmaSpan(e2, length)
        e4 == EmaSpan(e3, length)
        e5 == EmaSpan(e4, length)
    IN Tilson(e3, e4, e5, EmaSpan(e5, length))

(* wave_pulse: six chained EMAs of the close and the cubic combination    *)
(* -c^3 i6 + 3(c^2+c^3) i5 - 3(2c^2+c+c^3) i4 + (3c+1+c^3+3c^2) i3, which *)
(* for c = 1/2 is (-i6 + 9 i5 - 27 i4 + 27 i3) / 8.                       *)
WavePulse(h) ==
    LET close == [i \in DOMAIN h |-> h[i].close * Unit]
        i3 == EmaCascade(close, 3)
        i4 == Ema(i3)
        i5 == Ema(i4)
    IN Tilson(i3, i4, i5, Ema(i5))

-----------------------------------------------------------------------------
(* quantum_adaptive_ma's ADX is a ratio of ratios, kept as an exact       *)
(* reduced fraction [n |-> numerator, d |-> positive denominator].        *)
RECURSIVE Gcd(_, _)
Gcd(a, b) == IF b = 0 THEN a ELSE Gcd(b, a % b)

Frac(n, d) == LET g == Gcd(IF n < 0 THEN -n ELSE n, d) IN [n |-> n \div g, d |-> d \div g]

FracLess(a, b) == a.n * b.d < b.n * a.d

\* ewm(alpha=1/2, adjust=False) over a column of fractions
FracEma(s) == Recurrence(LAMBDA p, x : Frac(x.n * p.d + p.n * x.d, 2 * x.d * p.d), s)

(* ewm(alpha=1/2, adjust=False, ignore_na=True): a NaN is skipped, the    *)
(* first defined value seeds the average.                                 *)
EmaIgnoreNa(s) ==
    Recurrence(LAMBDA p, x : CASE ~Defined(x) -> p
                               [] ~Defined(p) -> x
                               [] OTHER -> Mix(x, p), s)

\* 0.5 * (abs(x) + x)
PosPart(x) == IF x > 0 THEN x ELSE 0

(* quantum_adaptive_ma(df, adx_length = 2, weight = 1, ma_length =       *)
(* QAmaMaLen).  bulls1 / bears1 are the up-moves of the high and the      *)
(* down-moves of the low (NaN on the first row, the shift's); the smaller *)
(* side, and both on a tie, is zeroed.  pos_di / neg_di share the         *)
(* denominator str_range, so the DI ratio is                              *)
(* |power_bulls - power_bears| / (power_bulls + power_bears), or 0 when  *)
(* str_range or the sum is 0 or NaN.  Over a window of two, adx_constant  *)
(* is 1 when the ADX rose and 0 otherwise; the NaN repairs of the loop    *)
(* never fire, the close being defined on every row.                     *)
QAma(h) ==
    LET bulls1(i) == IF i = 1 THEN NaN ELSE PosPart(h[i].high - h[i-1].high) * Unit
        bears1(i) == IF i = 1 THEN NaN ELSE PosPart(h[i-1].low - h[i].low) * Unit
        bulls == [i \in DOMAIN h |->
                    IF i > 1 /\ bulls1(i) <= bears1(i) THEN 0 ELSE bulls1(i)]
        bears == [i \in DOMAIN h |->
                    IF i > 1 /\ bulls1(i) >= bears1(i) THEN 0 ELSE bears1(i)]
        pb == EmaIgnoreNa(bulls)
        pr == EmaIgnoreNa(bears)
        str == Ema([i \in DOMAIN h |-> (h[i].high - h[i].low) * Unit])
        ratio == [i \in DOMAIN h |->
                    IF str[i] > 0 /\ Defined(pb[i]) /\ pb[i] + pr[i] > 0
                    THEN Frac(IF pb[i] > pr[i] THEN pb[i] - pr[i] ELSE pr[i] - pb[i], pb[i] + pr[i])
                    ELSE Frac(0, 1)]
        adx == FracEma(ratio)
        step == [i \in DOMAIN h |->
                   [close |-> h[i].close * Unit,
                    rose |-> i > 1 /\ FracLess(adx[i-1], adx[i])]]
        varMa == Recurrence(LAMBDA p, x : [x EXCEPT !.close = IF x.rose
                                                  THEN Mix(p.close, x.close)
                                                  ELSE p.close], step)
        var == [i \in DOMAIN h |-> varMa[i].close]
    IN [i \in DOMAIN h |->
          LET W == (IF i > QAmaMaLen THEN i - QAmaMaLen + 1 ELSE 1)..i
          IN ExactDiv(SumFunctionOnSet(var, W), Cardinality(W))]

(* close > rolling(ma_length, min_periods=1).mean() - 0.2 * std(): with   *)
(* one close in the window std is NaN and the comparison false; else, for *)
(* n closes of sum S, close x is above unless S - n x >= 0 and            *)
(* n (n SumSq - S^2) <= 25 (n - 1) (S - n x)^2.                           *)
AboveBound(h, i) ==
    LET W == (IF i > MdMaLen THEN i - MdMaLen + 1 ELSE 1)..i
        n == Cardinality(W)
        S == SumFunctionOnSet([j \in W |-> h[j].close], W)
        Q == SumFunctionOnSet([j \in W |-> h[j].close * h[j].close], W)
        d == S - n * h[i].close
    IN n > 1 /\ (d < 0 \/ n * (n * Q - S * S) > 25 * (n - 1) * d * d)

(* momentum_density: the count of closes above the bound over the last   *)
(* calc_length bars (min_periods=1), times 100 / calc_length, smoothed by *)
(* ewm(span=md_smooth_len).                                               *)
MomentumDensity(h) ==
    LET above == [i \in DOMAIN h |-> IF AboveBound(h, i) THEN 1 ELSE 0]
        raw == [i \in DOMAIN h |->
                  LET W == (IF i > MdCalcLen THEN i - MdCalcLen + 1 ELSE 1)..i
                  IN SumFunctionOnSet(above, W) * 100 * (Unit \div MdCalcLen)]
    IN Ema(raw)

(* The indicator columns _alpha_wave_signals reads next to the stop,     *)
(* computed by compute_indicators over bars h whose hlc3 column is given. *)
ColumnsOf(h, hlc3) ==
    LET qc == QuantumChannel(h, hlc3) IN
    [q_filter |-> qc.filter, q_upper |-> qc.upper, q_lower |-> qc.lower,
     wave_pulse_val |-> WavePulse(h), momentum_density_val |-> MomentumDensity(h),
     q_ama |-> QAma(h), t3_fast |-> T3(h, T3FastLen), t3_slow |-> T3(h, T3SlowLen),
     t3_diff |-> LET f == T3(h, T3FastLen)
                     sl == T3(h, T3SlowLen)
                 IN [i \in DOMAIN h |-> f[i] - sl[i]]]

\* compute_indicators on a frame without hlc3: the column is computed first.
Columns(h) == ColumnsOf(h, Hlc3(h))

-----------------------------------------------------------------------------
VARIABLE cols   \* the indicator columns computed over bars

allVars == <<bars, frame, cols>>

InitColumns == Init /\ cols = Columns(bars)

\* compute_indicators on the grown history: the stop and the columns.
AppendBarColumns == AppendBar /\ cols' = Columns(bars')

SpecColumns == InitColumns /\ [][AppendBarColumns]_allVars

-----------------------------------------------------------------------------
IndicatorsTypeOK ==
    /\ TypeOK
    /\ \A c \in DOMAIN cols : cols[c] \in [1..Len(bars) -> Int \cup {NaN}]

(* No repaint of the other columns: a value compute_indicators gives a    *)
(* bar stays the same when later bars arrive and every column is          *)
(* recomputed.  an_filter seeds its first row by a back-fill of the       *)
(* lagged series and ends with another back-fill, so this is where a      *)
(* look-ahead would show.                                                 *)
IndicatorsNoRepaint ==
    [][\A c \in DOMAIN cols : \A i \in DOMAIN cols[c] :
          Defined(cols[c][i]) => cols'[c][i] = cols[c][i]]_allVars

(* Spec 4.1: the channel centre is an n-pole filter, poles chained        *)
(* passes of y[i] = alpha x[i] + (1 - alpha) y[i-1] with per-pole state.  *)
(* an_filter mixes each pass with the lagged copy of its own input, a     *)
(* two-tap average that forgets every bar older than poles bars.         *)
ChannelIsNPoleFilter ==
    Len(bars) > 1 => cols.q_filter = NPoleFilter(Hlc3(bars), Poles)

=============================================================================
