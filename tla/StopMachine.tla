---------------------------- MODULE StopMachine ----------------------------
(***************************************************************************)
(* What the ratchet trailing stop promises (spec section 4.6), as a state  *)
(* machine that carries the stop forward one bar at a time: the state is   *)
(* the committed (long stop, short stop, direction) of every bar from the  *)
(* first full ATR window on, and a new bar extends it from the previous    *)
(* row alone.  Nothing before bar AtrLength is exposed: the indicator is   *)
(* Undefined there.  The first row takes the raw candidates of bar         *)
(* AtrLength as both levels (the back-filled seed) and the direction that  *)
(* the flip rule gives over the warm-up bars against that seed.            *)
(*                                                                         *)
(* Levels and prices are scaled as in AtrTrailingStop: a level s and a     *)
(* price p are compared as s versus p * Scale.  The batch computation of   *)
(* AtrTrailingStop implements this machine (ImplementsStopMachine there).  *)
(***************************************************************************)
EXTENDS Integers, Sequences

LOCAL Seqs == INSTANCE SequencesExt

CONSTANTS Prices, AtrLength, AtrMult, MaxBars

VARIABLES
    bars,   \* the bar history
    stops   \* stops[k]: the committed row of bar k + AtrLength - 1

Scale == 2 * AtrLength

Bar == {b \in [high : Prices, low : Prices, close : Prices] :
            b.low <= b.close /\ b.close <= b.high}

\* The true range of bar i: its span, widened to reach the previous close.
TR(h, i) ==
    IF i = 1 THEN h[1].high - h[1].low
    ELSE LET c == h[i-1].close IN
         (IF h[i].high > c THEN h[i].high ELSE c) - (IF h[i].low < c THEN h[i].low ELSE c)

\* Scale times the raw candidate mid -/+ AtrMult * ATR of bar i (side -1 or 1).
Candidate(h, i, side) ==
    AtrLength * (h[i].high + h[i].low)
      + side * 2 * AtrMult * Seqs!FoldLeft(LAMBDA s, j : s + TR(h, j), 0,
                                         [k \in 1..AtrLength |-> i - AtrLength + k])

\* The flip rule: a long flips on a low at or below the previous long stop,
\* a short on a high at or above the previous short stop.
Flip(prev, b) ==
    IF prev.dir = 1 /\ b.low * Scale <= prev.long THEN -1
    ELSE IF prev.dir = -1 /\ b.high * Scale >= prev.short THEN 1
    ELSE prev.dir

\* The first row, at bar AtrLength = Len(h).
Seed(h) ==
    LET l == Candidate(h, AtrLength, -1)
        s == Candidate(h, AtrLength, 1)
    IN [long |-> l, short |-> s,
        dir |-> Seqs!FoldLeft(LAMBDA d, b : Flip([long |-> l, short |-> s, dir |-> d], b),
                              1, Tail(h))]

\* The ratchet rule: a level only tightens while the previous bar did not
\* breach it, and is reset to the raw candidate after a breach.
Step(prev, h) ==
    LET n == Len(h)
        cl == Candidate(h, n, -1)
        cs == Candidate(h, n, 1)
    IN [long  |-> IF h[n-1].low * Scale > prev.long
                  THEN (IF cl >= prev.long THEN cl ELSE prev.long) ELSE cl,
        short |-> IF h[n-1].high * Scale < prev.short
                  THEN (IF cs <= prev.short THEN cs ELSE prev.short) ELSE cs,
        dir   |-> Flip(prev, h[n])]

\* The rows after history h, given the rows st before its last bar.
Extend(h, st) ==
    IF Len(h) < AtrLength THEN <<>>
    ELSE IF Len(h) = AtrLength THEN <<Seed(h)>>
    ELSE Append(st, Step(st[Len(st)], h))

Init ==
    /\ bars \in {<<b>> : b \in Bar}
    /\ stops = Extend(bars, <<>>)

NewBar ==
    /\ Len(bars) < MaxBars
    /\ \E b \in Bar : bars' = Append(bars, b)
    /\ stops' = Extend(bars', stops)

Spec == Init /\ [][NewBar]_<<bars, stops>>

=============================================================================
