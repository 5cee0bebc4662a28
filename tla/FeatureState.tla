---------------------------- MODULE FeatureState ----------------------------
(***************************************************************************)
(* What research/stage3_features.py computes from the events of the        *)
(* catalog: the grid a series is held to, the check of a series read as a  *)
(* whole, and IncrementalFeatureState, the finite state that the batch     *)
(* loader and the engine's strategy both feed one event at a time.         *)
(*                                                                         *)
(* An event is its time.  A feature row is the set of events its values    *)
(* are computed from, which is what decides whether two rows are equal and *)
(* whether a row has seen too little or too much.                          *)
(***************************************************************************)
EXTENDS SourceArchives

CONSTANTS
    Lookback,           \* FEATURE_LOOKBACK_HOURS, in bars
    Horizon,            \* LABEL_HORIZON_HOURS, in bars
    FundingWindow,      \* FUNDING_WINDOW_HOURS, in ticks
    FundingMaxAge       \* FUNDING_MAX_AGE_NS; MarkMaxAge is MARK_MAX_AGE_NS too

\* A window of whole intervals holds one settlement of each, whatever the drift;
\* the tolerance is small, and what a bar looks back on is inside the lookback
\* and the bar: 24 hours, 15 minutes and 8 hours against 169 hours.
ASSUME FeatureAssumption ==
    /\ {Lookback, Horizon, FundingWindow, FundingMaxAge} \subseteq Nat
    /\ (FundingWindow % FundingInterval) + 2 * FundingTolerance <= FundingInterval
    /\ FundingTolerance < BarInterval /\ 2 * FundingTolerance < FundingInterval
    /\ FundingWindow + 2 * FundingTolerance <= (Lookback + 1) * BarInterval
    /\ MarkMaxAge < (Lookback + 1) * BarInterval
    /\ FundingMaxAge < (Lookback + 1) * BarInterval

None == -1
Magnitude(n) == IF n < 0 THEN -n ELSE n
Larger(a, b) == IF a > b THEN a ELSE b
Smaller(a, b) == IF a < b THEN a ELSE b

-----------------------------------------------------------------------------
(* The grid of a series. *)

GridIndex(g, t) == (2 * (t - g.first) + g.cadence) \div (2 * g.cadence)

OnGrid(g, t) ==
    /\ Magnitude(t - g.first - GridIndex(g, t) * g.cadence) <= g.tolerance
    /\ GridIndex(g, t) \in 0 .. g.last

\* The first and the last slot a window can hold, approved gaps left out.
FirstEligible(g, from) ==
    LET ceiling == Larger(0, -((-(from - g.first)) \div g.cadence))
    IN  Min((ceiling .. (ceiling + Cardinality(g.gaps))) \ g.gaps)

LastEligible(g, to) ==
    LET floor == Smaller(g.last, (to - 1 - g.first) \div g.cadence)
    IN  Max(((floor - Cardinality(g.gaps)) .. floor) \ g.gaps)

\* The approved omissions, as the close the missing row would have had and the
\* close of the row after it.
MarkGapCloses ==
    {<<g[1] + 2 * MarkInterval - 1, g[2] + MarkInterval - 1>> : g \in AllowedGaps}

\* The grid of the events a series was accepted with.
Slots(entry) == entry.rows - 1 + entry.gaps
Cadence(entry) == (entry.last - entry.first + Slots(entry) \div 2) \div Slots(entry)

PlainGrid(entry, kind) ==
    [first |-> entry.first, cadence |-> Cadence(entry), last |-> Slots(entry),
     tolerance |-> IF kind = "funding" THEN FundingTolerance ELSE 1, gaps |-> {}]

AcceptedGridExists(entry, kind) ==
    /\ entry.rows > 0 /\ entry.gaps >= 0 /\ Slots(entry) > 0 /\ entry.last > entry.first
    /\ Cadence(entry) > 0
    /\ Magnitude(entry.last - entry.first - Cadence(entry) * Slots(entry)) <= Slots(entry)
    /\ entry.gaps = IF kind = "marks" THEN Cardinality(AllowedGaps) ELSE 0
    /\ LET g == PlainGrid(entry, kind)
       IN  kind = "marks" => \A c \in MarkGapCloses :
              /\ OnGrid(g, c[1]) /\ OnGrid(g, c[2])
              /\ c[2] - c[1] = g.cadence
              /\ GridIndex(g, c[2]) = GridIndex(g, c[1]) + 1

AcceptedGrid(entry, kind) ==
    LET g == PlainGrid(entry, kind)
    IN  IF kind = "marks" THEN [g EXCEPT !.gaps = {GridIndex(g, c[1]) : c \in MarkGapCloses}]
        ELSE g

\* The rows read from the catalog are the accepted ones of the window.
SeriesMatches(g, seen, from, to) ==
    /\ seen # <<>>
    /\ \A i \in DOMAIN seen : OnGrid(g, seen[i]) /\ GridIndex(g, seen[i]) \notin g.gaps
    /\ \A i \in DOMAIN seen \ {1} :
          LET left == GridIndex(g, seen[i-1])
              right == GridIndex(g, seen[i])
          IN  left < right /\ (left + 1) .. (right - 1) \subseteq g.gaps
    /\ GridIndex(g, seen[1]) = FirstEligible(g, from)
    /\ GridIndex(g, Last(seen)) = LastEligible(g, to)

\* The fixed grids of the incremental state, which knows no catalog.
MillisecondGrid(kind) ==                \* mutant: settlements held to the grid of the closes
    LET step == IF kind = "marks" THEN MarkInterval ELSE FundingInterval
        first == IF kind = "marks" THEN MarkInterval - 1 ELSE 0
    IN  [first |-> first, cadence |-> step, last |-> (WindowEnd - 1 - first) \div step,
         tolerance |-> 1,
         gaps |-> IF kind = "marks"
                  THEN {(c[1] - first) \div step : c \in MarkGapCloses} ELSE {}]
FixedGrid(kind) ==
    LET step == IF kind = "marks" THEN MarkInterval ELSE FundingInterval
        first == IF kind = "marks" THEN MarkInterval - 1 ELSE 0
    IN  [first |-> first, cadence |-> step,
         last |-> (WindowEnd - 1 - first) \div step,
         tolerance |-> IF kind = "marks" THEN 1 ELSE FundingTolerance,
         gaps |-> IF kind = "marks"
                  THEN {(c[1] - first) \div step : c \in MarkGapCloses} ELSE {}]

-----------------------------------------------------------------------------
(* IncrementalFeatureState. *)

Fresh == [ok |-> TRUE, bars |-> <<>>, mark |-> None, funding |-> <<>>,
          lastMark |-> None, firstMark |-> None,
          lastFunding |-> None, firstFunding |-> None, row |-> <<>>]

\* The event after "last": later, on the grid, in a new slot, and nothing but
\* approved omissions between them.
IsNext(g, t, last) ==
    /\ OnGrid(g, t) /\ GridIndex(g, t) \notin g.gaps
    /\ last # None =>
          /\ t > last
          /\ GridIndex(g, t) > GridIndex(g, last)
          /\ GridIndex(g, t) - GridIndex(g, last) - 1 =
                Cardinality({i \in g.gaps : GridIndex(g, last) < i /\ i < GridIndex(g, t)})

PushMark(s, t) ==
    [s EXCEPT !.ok = @ /\ IsNext(FixedGrid("marks"), t, s.lastMark),
              !.lastMark = t, !.mark = t,
              !.firstMark = IF @ = None THEN t ELSE @]

PushFunding(s, t) ==
    [s EXCEPT !.ok = @ /\ IsNext(FixedGrid("funding"), t, s.lastFunding),
              !.lastFunding = t, !.funding = Append(@, t),
              !.firstFunding = IF @ = None THEN t ELSE @]

\* Settlements at or before the floor leave the state, except the newest.
PrunedNever(s, d) == s                  \* mutant: nothing leaves
Pruned(s, d) ==
    IF Len(s.funding) < 2 THEN s
    ELSE [s EXCEPT !.funding =
            Append(Kept(Front(@), {t \in ToSet(Front(@)) : t > d - FundingWindow}), Last(@))]

\* From the first to the newest event, the window misses no eligible slot.
WindowCovered(g, first, last, from, to) ==
    /\ first # None
    /\ GridIndex(g, first) <= FirstEligible(g, from)
    /\ GridIndex(g, last) >= LastEligible(g, to)

\* The newest auxiliary events are neither missing nor from the future nor old.
AsOf(t, d) == t # None /\ t <= d
NewestFunding(s) == IF s.funding = <<>> THEN None ELSE Last(s.funding)
AuxiliaryFresh(s, d) ==
    /\ AsOf(s.mark, d) /\ d - s.mark <= MarkMaxAge
    /\ AsOf(NewestFunding(s), d) /\ d - NewestFunding(s) <= FundingMaxAge

MarksCovered(s, d) ==                   \* mutant: the newest settlement is enough
    WindowCovered(FixedGrid("marks"), s.firstMark, s.mark, s.bars[1], d + 1)
Covered(s, d) ==
    /\ WindowCovered(FixedGrid("marks"), s.firstMark, s.mark, s.bars[1], d + 1)
    /\ WindowCovered(FixedGrid("funding"), s.firstFunding, Last(s.funding),
                     d - FundingWindow - FundingTolerance + 1, d - FundingTolerance + 1)

WindowShorter(s, d) ==                  \* mutant: the oldest settlement left out
    [bars |-> ToSet(s.bars), mark |-> s.mark, funding |-> Last(s.funding),
     sum |-> {t \in ToSet(s.funding) : d - FundingWindow + 1 < t /\ t <= d}]
FeatureValues(s, d) ==
    [bars |-> ToSet(s.bars), mark |-> s.mark, funding |-> Last(s.funding),
     sum |-> {t \in ToSet(s.funding) : d - FundingWindow < t /\ t <= d}]

\* The decision bar: pruning first, then the unbroken history, then the row.
PushBar(s0, d) ==
    LET s == Pruned(s0, d)
        follows == s.bars # <<>> => d - Last(s.bars) = BarInterval
        all == Append(s.bars, d)
        kept == IF Len(all) > Lookback + 1 THEN Tail(all) ELSE all
        t == [s EXCEPT !.bars = kept]
        ready == Len(kept) = Lookback + 1
        good == follows /\ (d + 1) % BarInterval = 0 /\ (ready => AuxiliaryFresh(t, d) /\ Covered(t, d))
    IN  [t EXCEPT !.ok = @ /\ good,
                  !.row = IF ready /\ good
                          THEN <<[ts |-> d, values |-> FeatureValues(t, d)]>> ELSE <<>>]
=============================================================================
