---------------------------- MODULE DataPipeline ----------------------------
(***************************************************************************)
(* One instrument's data from the source archives to a published backtest  *)
(* or a trained model: the archives are verified and written to the        *)
(* catalog (prepare_stage2_dataset), the catalog is accepted, bound and    *)
(* read as feature rows (load_accepted_feature_window), and read a second  *)
(* time as the event stream of the engine, whose strategy computes the     *)
(* same features one event at a time; the two must agree before anything   *)
(* is published.                                                           *)
(*                                                                         *)
(* What goes wrong outside the code, at most MaxFaults times: an archive   *)
(* or a row is not what the exchange published, a settlement drifts, the   *)
(* catalog loses or repeats an event while it is written or later.         *)
(***************************************************************************)
EXTENDS FeatureState

CONSTANTS
    Windows,        \* the windows asked for: [mode, start, end, decision]
    Splits,         \* the time splits, <<start, end>> in order
    Crosscheck,     \* <<start, end>> of the window fetched a second time
    Drifts,         \* how far a settlement may be from its schedule
    MaxFaults

\* The bounds of a window are bounds of folds, or the lookback before one, and
\* each fold begins and ends at midnight.
ASSUME DatasetAssumption ==
    /\ MaxFaults \in Nat /\ Drifts \subseteq Int
    /\ Splits \in Seq(Int \X Int) /\ Splits # <<>>
    /\ \A i, j \in DOMAIN Splits : i < j => Splits[i][2] <= Splits[j][1]
    /\ Crosscheck \in Int \X Int /\ Crosscheck[2] >= WindowEnd
    /\ Windows \subseteq [mode : {"evaluation", "training"},
                          start : Int, end : Int, decision : Int]
    /\ \A w \in Windows : w.start % BarInterval = 0 /\ w.end % BarInterval = 0

VARIABLES
    stage,          \* how far the data got
    failed,         \* the operation that refused it, or "none"
    faults,         \* what went wrong outside so far
    raw,            \* the archives
    catalog,        \* the events stored: [bars, marks, funding]
    accepted,       \* the coverage of the acceptance record and the catalog it is of
    window,         \* the window asked for
    input,          \* the events read and not yet consumed
    features,       \* IncrementalFeatureState
    rows,           \* the ready feature rows of the batch
    decisions       \* the ready, tradable rows the engine's strategy computed

research == <<window, input, features, rows, decisions>>
vars == <<stage, failed, faults, raw, catalog, accepted, research>>

Empty == [bars |-> <<>>, marks |-> <<>>, funding |-> <<>>]
NoWindow == [mode |-> "evaluation", start |-> 0, end |-> 0, decision |-> 0]
NotAccepted == [coverage |-> <<>>, events |-> Empty]

Kinds == {"bars", "marks", "funding"}
Within(times, from, to) == Kept(times, from .. to - 1)
UpTo(times, d) == Kept(times, {t \in ToSet(times) : t <= d})
After(times, d) == Kept(times, {t \in ToSet(times) : t > d})
Strict(times) == \A i \in DOMAIN times \ {1} : times[i-1] < times[i]

Init ==
    /\ stage = "raw" /\ failed = "none" /\ faults = 0
    /\ raw = [a \in Archives |-> Published(a)]
    /\ catalog = Empty /\ accepted = NotAccepted
    /\ window = NoWindow /\ input = Empty /\ features = Fresh
    /\ rows = <<>> /\ decisions = <<>>

\* An operation either completes or refuses the data.
PassSilently(operation, ok, next) ==    \* mutant: the refusal is not recorded
    stage' = (IF ok THEN next ELSE "refused") /\ failed' = failed
Pass(operation, ok, next) ==
    /\ stage' = IF ok THEN next ELSE "refused"
    /\ failed' = IF ok THEN failed ELSE operation

-----------------------------------------------------------------------------
(* What is outside the code. *)

SourceFault ==
    /\ stage = "raw" /\ faults < MaxFaults
    /\ \E a \in Archives : \E f \in Faulty(a, raw[a], Drifts) : raw' = [raw EXCEPT ![a] = f]
    /\ faults' = faults + 1
    /\ UNCHANGED <<stage, failed, catalog, accepted, research>>

\* A series that lost or repeats an event, and one with two out of order.
Miswritten(times) ==
    {RemoveAt(times, i) : i \in DOMAIN times}
    \cup {InsertAt(times, i, times[i]) : i \in DOMAIN times}

Swapped(times) ==
    {[times EXCEPT ![i] = times[i+1], ![i+1] = times[i]] :
            i \in {j \in DOMAIN times : j + 1 \in DOMAIN times}}

\* The catalog changes on the disk after it was accepted.
CatalogFault ==
    /\ stage \in {"accepted", "bound", "batched"} /\ faults < MaxFaults
    /\ \E k \in Kinds : \E times \in Miswritten(catalog[k]) \cup Swapped(catalog[k]) :
          catalog' = [catalog EXCEPT ![k] = times]
    /\ faults' = faults + 1
    /\ UNCHANGED <<stage, failed, raw, accepted, research>>

-----------------------------------------------------------------------------
(* prepare_stage2_dataset. *)

\* The index archives are only asked for their checksums, three times each.
ProbeIndex ==
    /\ stage = "raw"
    /\ \E available \in BOOLEAN : Pass("index", available, "probed")
    /\ UNCHANGED <<faults, raw, catalog, accepted, research>>

LoadBars ==
    /\ stage = "probed"
    /\ Pass("bars",
            /\ Discovered(raw, "bars") /\ AllVerified(raw, "bars")
            /\ ValidKlineSeries(Joined(raw, "bars"), BarInterval, {}),
            "bars")
    /\ UNCHANGED <<faults, raw, catalog, accepted, research>>

LoadMarksAndFunding ==
    /\ stage = "bars"
    /\ Pass("marks",
            /\ \A k \in {"marks", "funding", "fill"} :
                  Discovered(raw, k) /\ AllVerified(raw, k)
            /\ FillInOrder(raw) /\ FillAgrees(raw)
            /\ ValidMarkSeries(MarkRows(raw))
            /\ ValidFundingSeries(Joined(raw, "funding"))
            /\ RecentMark(MarkRows(raw), EarlyRows(raw), Joined(raw, "funding")),
            "loaded")
    /\ UNCHANGED <<faults, raw, catalog, accepted, research>>

\* A bar and a mark become an event at their close, a settlement at its time.
Events(kind, series) ==
    [i \in DOMAIN series |->
        IF kind = "funding" THEN series[i].time ELSE series[i].end]

SourceEvents ==
    [bars |-> Events("bars", Joined(raw, "bars")),
     marks |-> Events("marks", MarkRows(raw)),
     funding |-> Events("funding", Joined(raw, "funding"))]

GapCount(kind) ==
    IF kind = "marks" THEN Cardinality(Gaps(MarkRows(raw), MarkInterval)) ELSE 0

Coverage ==
    [k \in Kinds |-> [rows |-> Len(SourceEvents[k]), gaps |-> GapCount(k),
                      first |-> SourceEvents[k][1], last |-> Last(SourceEvents[k])]]

\* Bars and marks are read back; funding goes through a stream that is not.
ReadBack(written) == \A k \in {"bars", "marks"} : written[k] = SourceEvents[k]

\* A failure empties the catalog.
WriteCatalog ==
    /\ stage = "loaded"
    /\ \E k \in Kinds, fault \in BOOLEAN :
       \E times \in IF fault THEN Miswritten(SourceEvents[k]) ELSE {SourceEvents[k]} :
          LET written == [SourceEvents EXCEPT ![k] = times]
              ok == GapCount("marks") \in {0, Cardinality(AllowedGaps)} /\ ReadBack(written)
          IN  /\ fault => faults < MaxFaults
              /\ faults' = faults + (IF fault THEN 1 ELSE 0)
              /\ Pass("write", ok, "written")
              /\ catalog' = IF ok THEN written ELSE Empty
    /\ UNCHANGED <<raw, accepted, research>>

\* The exchange's own answer for the window: it settled where the archives say.
FetchedRows(kind) ==
    Kept(Joined(raw, kind), {row \in ToSet(Joined(raw, kind)) :
        LET t == IF kind = "funding" THEN row.time ELSE row.end
        IN  Crosscheck[1] <= t /\ t < Crosscheck[2]})

\* Event by event, the same time and the same value.
CrosscheckAgrees(kind) ==
    /\ Events(kind, FetchedRows(kind)) = Within(catalog[kind], Crosscheck[1], Crosscheck[2])
    /\ \A row \in ToSet(FetchedRows(kind)) : row.value = "v"

CrosscheckCatalog ==
    /\ stage = "written"
    /\ Pass("crosscheck", \A k \in {"bars", "funding"} : CrosscheckAgrees(k), "checked")
    /\ UNCHANGED <<faults, raw, catalog, accepted, research>>

LoadedWindow(times) == [rows |-> Len(times), first |-> times[1], last |-> Last(times)]

\* Research and backtest read every split.
SplitParts(kind) ==
    [i \in DOMAIN Splits |-> Within(catalog[kind], Splits[i][1], Splits[i][2])]

SplitsBegin(kind) ==                    \* mutant: the rows are not counted
    LET parts == SplitParts(kind)
    IN  /\ \A i \in DOMAIN parts : parts[i] # <<>> /\ Strict(parts[i])
        /\ parts[1][1] = Coverage[kind].first
        /\ Last(Last(parts)) = Coverage[kind].last
\* The splits add up to the coverage.
HomologyComplete(kind) ==
    LET parts == SplitParts(kind)
        whole == Coverage[kind]
    IN  /\ \A i \in DOMAIN parts : parts[i] # <<>> /\ Strict(parts[i])
        /\ Cardinality(UNION {{i} \X DOMAIN parts[i] : i \in DOMAIN parts}) = whole.rows
        /\ LoadedWindow(Head(parts)).first = whole.first
        /\ LoadedWindow(Last(parts)).last = whole.last

CoverageComplete(kind) ==
    /\ Coverage[kind].rows > 0 /\ Coverage[kind].first <= Coverage[kind].last
    /\ Coverage[kind].gaps \in {0} \cup (IF kind = "marks" THEN {Cardinality(AllowedGaps)} ELSE {})

CrosscheckComplete(kind) == Within(catalog[kind], Crosscheck[1], Crosscheck[2]) # <<>>

RecordComplete ==
    /\ \A k \in Kinds : CoverageComplete(k)
    /\ \A k \in {"bars", "funding"} : CrosscheckComplete(k) /\ HomologyComplete(k)

AcceptanceRecord == [coverage |-> Coverage, events |-> catalog]

Accept ==
    /\ stage = "checked"
    /\ Pass("accept", RecordComplete, "accepted")
    /\ accepted' = IF RecordComplete THEN AcceptanceRecord ELSE accepted
    /\ UNCHANGED <<faults, raw, catalog, research>>

-----------------------------------------------------------------------------
(* load_accepted_feature_window. *)

LegalWindow(w) ==
    /\ w.start < w.end /\ w.start >= 0 /\ w.end <= WindowEnd
    /\ w.mode = "evaluation" =>
          /\ w.start <= w.decision /\ w.decision < w.end
          /\ w.start <= w.decision - Lookback * BarInterval
    /\ w.mode = "training" => w.start < w.decision /\ w.decision <= w.end

LabelEnd(w) == Smaller(w.end + Horizon * BarInterval, WindowEnd)
AuxiliaryStart(w) == Larger(w.start - FundingInterval, 0)

\* The digests of the record, the sidecar files and the whole tree.
Bind ==
    /\ stage = "accepted"
    /\ \E w \in Windows :
          /\ window' = w
          /\ Pass("bind", catalog = accepted.events /\ LegalWindow(w), "bound")
    /\ UNCHANGED <<faults, raw, catalog, accepted, input, features, rows, decisions>>

\* The three reads of the views.
WindowFrom == [bars |-> window.start, marks |-> AuxiliaryStart(window),
               funding |-> AuxiliaryStart(window)]
WindowTo == [bars |-> LabelEnd(window), marks |-> window.end, funding |-> window.end]
WindowEvents == [k \in Kinds |-> Within(catalog[k], WindowFrom[k], WindowTo[k])]

\* They are held to the accepted coverage.
AcceptedSeries(events, k) ==
    /\ AcceptedGridExists(accepted.coverage[k], k)
    /\ SeriesMatches(AcceptedGrid(accepted.coverage[k], k), events[k],
                     WindowFrom[k], WindowTo[k])

BarsInOrder(bars) == \A i \in DOMAIN bars \ {1} : bars[i] - bars[i-1] = BarInterval

BatchRead ==
    /\ stage = "bound"
    /\ LET ok == /\ \A k \in Kinds : AcceptedSeries(WindowEvents, k)
                 /\ Strict(WindowEvents.marks) /\ Strict(WindowEvents.funding)
                 /\ BarsInOrder(WindowEvents.bars)
       IN  /\ Pass("read", ok, "batch")
           /\ input' = IF ok THEN WindowEvents ELSE input
           /\ features' = Fresh
    /\ UNCHANGED <<faults, raw, catalog, accepted, window, rows, decisions>>

\* Events of one kind, one after the other.
PushAll(s, kind, times) ==
    LET pushed[n \in 0 .. Len(times)] ==
            IF n = 0 THEN s
            ELSE IF kind = "marks" THEN PushMark(pushed[n-1], times[n])
                                   ELSE PushFunding(pushed[n-1], times[n])
    IN  pushed[Len(times)]

\* One decision bar, after the auxiliary events at or before it.
FeedBar(s, events, d) ==
    LET marked == PushAll(s, "marks", UpTo(events.marks, d))
    IN  PushBar(PushAll(marked, "funding", UpTo(events.funding, d)), d)

\* Bars of the window the batch has not decided on yet.
Undecided ==
    Kept(input.bars, {t \in ToSet(input.bars) :
        t < window.end /\ (features.bars # <<>> => t > Last(features.bars))})

BatchBar ==
    /\ stage = "batch" /\ Undecided # <<>>
    /\ LET d == Head(Undecided)
           s == FeedBar(features, input, d)
       IN  /\ features' = s
           /\ Pass("features", s.ok, "batch")
           /\ rows' = IF s.ok THEN rows \o s.row ELSE rows
           /\ input' = [input EXCEPT !.marks = After(@, d),
                                     !.funding = After(@, d)]
    /\ UNCHANGED <<faults, raw, catalog, accepted, window, decisions>>

Times(observed) == {observed[i].ts : i \in DOMAIN observed}
Tradable == Kept(rows, {row \in ToSet(rows) : row.ts >= window.decision})

\* The first bar that may be traded on has a complete history.
ReadyAtDecision ==
    LET bars == Within(input.bars, window.decision, window.end)
    IN  bars # <<>> /\ bars[1] \in Times(rows)

\* A label is the return to the close "Horizon" bars later.
LabelTime(d) == d + Horizon * BarInterval
Labelled(d) == \A n \in 1 .. Horizon : d + n * BarInterval \in ToSet(input.bars)

\* purge_training_rows: no label reaches the evaluation that follows.
PurgedByDecision(observed) ==           \* mutant: the decision, not its label, is before
    Kept(observed, {row \in ToSet(observed) : Labelled(row.ts) /\ row.ts < window.decision})
Purged(observed) ==
    Kept(observed, {row \in ToSet(observed) :
                        Labelled(row.ts) /\ LabelTime(row.ts) < window.decision})

FinishBatch ==
    /\ stage = "batch" /\ Undecided = <<>>
    /\ IF window.mode = "training"
       THEN /\ Pass("features", TRUE, "trained")
            /\ rows' = Purged(rows)
       ELSE /\ Pass("features", ReadyAtDecision, "batched")
            /\ rows' = rows
    /\ UNCHANGED <<faults, raw, catalog, accepted, window, input, features, decisions>>

-----------------------------------------------------------------------------
(* The engine. *)

InsertTime(times, t) == InsertAt(times, Place(times, t), t)
InTimeOrder(times) ==
    LET sorted[n \in 0 .. Len(times)] ==
            IF n = 0 THEN <<>> ELSE InsertTime(sorted[n-1], times[n])
    IN  sorted[Len(times)]

\* The second read of the catalog, put in the order of time.
EngineRead ==
    /\ stage = "batched"
    /\ LET read == [k \in Kinds |-> Within(catalog[k], window.start, window.end)]
           ok == (\A k \in Kinds : read[k] # <<>>) /\ Strict(read.funding)
       IN  /\ Pass("load", ok, "engine")
           /\ input' = [k \in Kinds |-> InTimeOrder(read[k])]
           /\ features' = Fresh
    /\ UNCHANGED <<faults, raw, catalog, accepted, window, rows, decisions>>

EventRankByBar == [marks |-> 3, funding |-> 2, bars |-> 0]   \* mutant: the bar first
EventRank == [marks |-> 0, funding |-> 2, bars |-> 3]

\* The event that comes next: the earliest, and of several the lowest rank.
IsNextEvent(k) ==
    /\ input[k] # <<>>
    /\ \A j \in Kinds : input[j] # <<>> =>
          \/ Head(input[k]) < Head(input[j])
          \/ Head(input[k]) = Head(input[j]) /\ EventRank[k] <= EventRank[j]

OnMarkPrice ==
    /\ stage = "engine" /\ IsNextEvent("marks")
    /\ features' = PushMark(features, Head(input.marks))
    /\ Pass("engine", features'.ok, "engine")
    /\ input' = [input EXCEPT !.marks = Tail(@)]
    /\ UNCHANGED <<faults, raw, catalog, accepted, window, rows, decisions>>

OnFundingRate ==
    /\ stage = "engine" /\ IsNextEvent("funding")
    /\ features' = PushFunding(features, Head(input.funding))
    /\ Pass("engine", features'.ok, "engine")
    /\ input' = [input EXCEPT !.funding = Tail(@)]
    /\ UNCHANGED <<faults, raw, catalog, accepted, window, rows, decisions>>

\* A bar of the evaluation must be ready, one before it is context.
OnBar ==
    /\ stage = "engine" /\ IsNextEvent("bars")
    /\ LET d == Head(input.bars)
           s == PushBar(features, d)
           tradable == window.decision <= d /\ d < window.end
           ok == s.ok /\ (tradable => s.row # <<>>)
       IN  /\ features' = s
           /\ Pass("engine", ok, "engine")
           /\ decisions' = IF ok /\ tradable THEN decisions \o s.row ELSE decisions
    /\ input' = [input EXCEPT !.bars = Tail(@)]
    /\ UNCHANGED <<faults, raw, catalog, accepted, window, rows>>

\* The engine's decisions are the tradable rows of the batch.
Parity ==
    /\ stage = "engine" /\ \A k \in Kinds : input[k] = <<>>
    /\ Pass("parity",
            /\ Len(decisions) = Cardinality(Times(Tradable))
            /\ ToSet(decisions) \subseteq ToSet(Tradable),
            "published")
    /\ UNCHANGED <<faults, raw, catalog, accepted, research>>

-----------------------------------------------------------------------------
Next ==
    \/ SourceFault \/ CatalogFault
    \/ ProbeIndex \/ LoadBars \/ LoadMarksAndFunding \/ WriteCatalog
    \/ CrosscheckCatalog \/ Accept
    \/ Bind \/ BatchRead \/ BatchBar \/ FinishBatch
    \/ EngineRead \/ OnMarkPrice \/ OnFundingRate \/ OnBar \/ Parity

Spec == Init /\ [][Next]_vars

-----------------------------------------------------------------------------
(* Properties. *)

Operations == {"index", "bars", "marks", "write", "crosscheck", "accept", "bind", "read",
               "features", "load", "engine", "parity"}

\* Every variable has its type.
TypeOK ==
    /\ stage \in {"raw", "probed", "bars", "loaded", "written", "checked", "accepted",
                  "bound", "batch", "batched", "engine", "published", "trained", "refused"}
    /\ failed \in Operations \cup {"none"} /\ (failed # "none" <=> stage = "refused")
    /\ faults \in 0 .. MaxFaults
    /\ DOMAIN raw = Archives
    /\ DOMAIN catalog = Kinds /\ DOMAIN input = Kinds
    /\ window \in Windows \cup {NoWindow}
    /\ Times(rows) \cup Times(decisions) \subseteq ToSet(accepted.events.bars)

\* What was accepted is what the archives say and the whole of it: the catalog
\* has every row (funding is not read back when it is written), bars miss
\* nothing, marks only what may be omitted, no settlement is further from the
\* one before it than announced, each has a mark of its own time, and the last
\* days are what the exchange answers today (stage2_btceth.py).
AcceptedIsWhole ==
    stage = "accepted" =>
        LET events == accepted.events
            settled == events.funding
        IN  /\ events = SourceEvents
            /\ events.bars = [i \in 1 .. WindowEnd \div BarInterval |-> i * BarInterval - 1]
            /\ \A t \in {n \in 0 .. WindowEnd - 1 : n % MarkInterval = 0} :
                  t + MarkInterval - 1 \in ToSet(events.marks) \/ t \in Omitted
            /\ \A i \in DOMAIN settled \ {1} :
                  settled[i] - settled[i-1] \in 1 .. FundingInterval + FundingTolerance
            /\ \A i \in DOMAIN settled :
                  \E m \in ToSet(events.marks) \cup {row.end : row \in EarlyRows(raw)} :
                      settled[i] - m \in 0 .. MarkMaxAge
            /\ \A i \in DOMAIN Joined(raw, "bars") :
                  events.bars[i] >= Crosscheck[1] => Joined(raw, "bars")[i].value = "v"

Latest(times, d) == Last(UpTo(times, d))

\* A row of features, from the batch or from the engine, is computed from the
\* newest accepted mark and misses at most a settlement of the last few ticks,
\* although the catalog may have lost or repeated events since it was checked
\* and old events are pruned (IncrementalFeatureState).
NoSilentGap ==
    \A row \in ToSet(rows) \cup ToSet(decisions) :
        LET d == row.ts
            due == {t \in ToSet(accepted.events.funding) : d - FundingWindow < t /\ t <= d}
        IN  /\ row.values.mark = Latest(accepted.events.marks, d)
            /\ row.values.sum \subseteq due
            /\ \A t \in due \ row.values.sum : t > d - FundingTolerance

\* The row of a decision as the definition of the features has it.
Reference(d) ==
    LET events == accepted.events
    IN  [bars |-> {d - n * BarInterval : n \in 0 .. Lookback},
         mark |-> Latest(events.marks, d),
         funding |-> Latest(events.funding, d),
         sum |-> {t \in ToSet(events.funding) : d - FundingWindow < t /\ t <= d}]

\* A published backtest decided on every bar of its evaluation, each time on
\* the row the accepted events define and on nothing later than the bar.  Only
\* a settlement of the last few ticks may be missing: nothing proves that one.
PublishedRowsAreReference ==
    stage = "published" =>
        LET bars == Within(accepted.events.bars, window.decision, window.end)
            settledNow(d) == \E t \in ToSet(accepted.events.funding) :
                                d - FundingTolerance < t /\ t <= d
        IN  /\ [i \in DOMAIN decisions |-> decisions[i].ts] = bars
            /\ \A i \in DOMAIN bars :
                  decisions[i].values = Reference(bars[i]) \/ settledNow(bars[i])

\* Once the batch has passed, the engine and the comparison only refuse a
\* catalog that changed: reading the events from the window's start instead of
\* one funding interval before, and one at a time, makes no difference.
EngineAgrees ==
    failed \in {"load", "engine", "parity"} => catalog # accepted.events

\* Settlements at most the tolerance late, on a grid the coverage gives away.
OnSchedule ==
    /\ \A t \in ToSet(accepted.events.funding) : t % FundingInterval <= FundingTolerance
    /\ Cadence(accepted.coverage.funding) = FundingInterval
    /\ accepted.coverage.marks.gaps = Cardinality(AllowedGaps)

\* What was accepted with settlements on schedule or late can be used: once a
\* legal window is bound, nothing refuses it while the catalog stays as it was.
SettledDataIsUsable ==
    failed \in {"read", "features", "load", "engine", "parity"} /\ OnSchedule
        => catalog # accepted.events

\* A model is trained on exactly the ready rows of its window whose label is
\* settled before the evaluation that follows, and inside the dataset.
NoLabelCrossesBoundary ==
    stage = "trained" =>
        Times(rows) = {d \in ToSet(accepted.events.bars) :
            /\ window.start + Lookback * BarInterval <= d /\ d < window.end
            /\ LabelTime(d) < window.decision /\ LabelTime(d) < WindowEnd}

\* The state the strategy keeps does not grow with the stream: of the
\* settlements up to the newest bar it has those of the window and no more.
RetainedBounded ==
    /\ Len(features.bars) <= Lookback + 1
    /\ features.ok /\ features.bars # <<>> =>
          Cardinality({i \in DOMAIN features.funding :
                          features.funding[i] <= Last(features.bars)})
             <= FundingWindow \div FundingInterval + 1

\* The settlements keep their slots, early or late by at most the tolerance.
InTolerance ==
    /\ \A i \in DOMAIN accepted.events.funding :
          Magnitude(accepted.events.funding[i] - (i - 1) * FundingInterval) <= FundingTolerance
    /\ accepted.coverage.marks.gaps = Cardinality(AllowedGaps)

\* Stated by the comment on FUNDING_GRID_TOLERANCE_NS in stage3_features.py:
\* the consumer is not stricter than the producer that accepted the data, whose
\* settlements stay inside the schedule tolerance.
ConsumerAcceptsProducer ==
    failed \in {"read", "features"} /\ InTolerance => catalog # accepted.events
=============================================================================
