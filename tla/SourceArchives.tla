--------------------------- MODULE SourceArchives ---------------------------
(***************************************************************************)
(* The source archives of one instrument and the checks a row must pass    *)
(* before it can become an event of the catalog (source_data and the       *)
(* loaders of integrations/nautilus/stage2_btceth.py).                     *)
(*                                                                         *)
(* Time is counted in ticks of one millisecond on a shrunken clock: the    *)
(* intervals, the month and the day are CONSTANTS.  A kline row opens at   *)
(* "time" and closes one tick before the next one opens; a funding row     *)
(* happens at "time" and its "end" is the interval it announces.  Prices   *)
(* are one of three values: v, a different w, and one no row may have.     *)
(***************************************************************************)
EXTENDS Integers, FiniteSets, SequencesExt

CONSTANTS
    BarInterval, MarkInterval, FundingInterval,
    FundingTolerance,   \* STAGE2_FUNDING_SCHEDULE_TOLERANCE_MS
    MarkMaxAge,         \* STAGE2_MARK_MAX_AGE_MS
    WindowEnd,          \* the dataset window is 0 .. WindowEnd - 1
    MonthLength, DayLength,
    FillDays,           \* the days of the daily mark archives; one may precede 0
    AllowedGaps,        \* pairs <<previous open, next open>> of omitted marks
    OnlyDaily           \* opens of marks the monthly archives do not have

ASSUME ClockAssumption ==
    /\ {BarInterval, MarkInterval, FundingInterval} \subseteq Nat \ {0}
    /\ {FundingTolerance, MarkMaxAge} \subseteq Nat
    /\ {WindowEnd, MonthLength, DayLength} \subseteq Nat \ {0}
    /\ BarInterval % MarkInterval = 0 /\ FundingInterval % BarInterval = 0
    /\ FillDays \in Seq(Int) /\ OnlyDaily \subseteq Int
    /\ AllowedGaps \subseteq Int \X Int /\ IsFiniteSet(AllowedGaps)
    /\ \A g \in AllowedGaps : g[2] = g[1] + 2 * MarkInterval
    /\ WindowEnd % MonthLength = 0 /\ MonthLength % BarInterval = 0

\* The elements of a sequence that are in S, in their order.
Kept(seq, S) ==
    FlattenSeq([i \in DOMAIN seq |-> IF seq[i] \in S THEN <<seq[i]>> ELSE <<>>])

\* An element goes behind those that are not later.
Place(times, t) == Cardinality({i \in DOMAIN times : times[i] <= t}) + 1
Insert(rows, row) ==
    InsertAt(rows, Place([i \in DOMAIN rows |-> rows[i].time], row.time), row)

Months == [i \in 1 .. WindowEnd \div MonthLength |-> (i - 1) * MonthLength]
Archives ==
    ({"bars", "marks", "funding"} \X ToSet(Months)) \cup ({"fill"} \X ToSet(FillDays))

Interval(kind) == CASE kind = "bars" -> BarInterval
                    [] kind = "funding" -> FundingInterval
                    [] OTHER -> MarkInterval

\* The times an archive may hold: its month, or its day.
Span(a) == a[2] .. (a[2] + (IF a[1] = "fill" THEN DayLength ELSE MonthLength) - 1)

\* The opens the exchange published for no mark, monthly or daily.
Omitted == {g[1] + MarkInterval : g \in AllowedGaps}

-----------------------------------------------------------------------------
(* What the exchange publishes, and what may be wrong with it. *)

PublishedTimes(a) ==
    Kept([i \in 1 .. Cardinality(Span(a)) |-> a[2] + i - 1],
         {t \in Span(a) : /\ t % Interval(a[1]) = 0
                          /\ a[1] \in {"marks", "fill"} => t \notin Omitted
                          /\ a[1] = "marks" => t \notin OnlyDaily})

PublishedRow(a, t) ==
    [time  |-> t,
     end   |-> IF a[1] = "funding" THEN FundingInterval ELSE t + Interval(a[1]) - 1,
     value |-> "v"]

Published(a) ==
    [file |-> TRUE, checksum |-> "ok", csv |-> "ok",
     rows |-> LET ts == PublishedTimes(a)
              IN  [i \in DOMAIN ts |-> PublishedRow(a, ts[i])]]

\* A missing, unverifiable or foreign file.
FaultyFile(f) ==
    {[f EXCEPT !.file = FALSE], [f EXCEPT !.checksum = "missing"],
     [f EXCEPT !.checksum = "other"], [f EXCEPT !.csv = "other"],
     [f EXCEPT !.rows = <<>>]}

\* A row lost, repeated, out of order, or with a wrong value or close.
FaultyRow(a, f, i) ==
    {[f EXCEPT !.rows = RemoveAt(f.rows, i)],
     [f EXCEPT !.rows = InsertAt(f.rows, i, f.rows[i])],
     [f EXCEPT !.rows[i].value = "illegal"],
     [f EXCEPT !.rows[i].value = IF a[1] = "marks" THEN "illegal" ELSE "w"],
     [f EXCEPT !.rows[i].end = @ - 1]}
    \cup {[f EXCEPT !.rows[i] = f.rows[j], !.rows[j] = f.rows[i]] :
            j \in {i + 1} \cap DOMAIN f.rows}

\* A settlement that drifts, announces another interval, or is one too many.
FaultySettlement(f, i, shifts) ==
    {[f EXCEPT !.rows[i].time = @ + d] : d \in shifts}
    \cup {[f EXCEPT !.rows[i].end = FundingInterval \div 2]}
    \cup {[f EXCEPT !.rows = InsertAt(@, i + 1, [f.rows[i] EXCEPT !.time = @ + 5])]}

\* A mark the exchange adds later in a place where it had published none.
LateRow(a, f, t) == [f EXCEPT !.rows = Insert(@, PublishedRow(a, t))]

Faulty(a, f, shifts) ==
    FaultyFile(f)
    \cup (UNION {FaultyRow(a, f, i) : i \in DOMAIN f.rows})
    \cup (IF a[1] = "funding"
          THEN UNION {FaultySettlement(f, i, shifts) : i \in DOMAIN f.rows} ELSE {})
    \cup (IF a[1] = "marks"
          THEN {LateRow(a, f, t) : t \in Omitted \cap Span(a)} ELSE {})

-----------------------------------------------------------------------------
(* The checks. *)

\* Every archive of the inventory is there with its checksum file.
Discovered(raw, kind) ==
    \A a \in Archives : a[1] = kind => raw[a].file /\ raw[a].checksum # "missing"

ValidKlineRow(row, interval, from) ==
    /\ row.end = row.time + interval - 1
    /\ row.time >= from /\ row.end < WindowEnd
    /\ row.value # "illegal"

ValidFundingRow(row) ==
    /\ row.time >= 0 /\ row.time < WindowEnd
    /\ row.end > 0
    /\ row.value # "illegal"

\* The zip holds one CSV of the right name, and it has rows.
Parsed(f) == f.csv = "ok" /\ f.rows # <<>>

\* One archive: the official bytes, and no row that is malformed or belongs to
\* another month or day.
Verified(a, f) ==
    /\ f.checksum = "ok" /\ Parsed(f)
    /\ \A i \in DOMAIN f.rows :
          /\ CASE a[1] = "funding" -> ValidFundingRow(f.rows[i])
               [] a[1] = "fill" -> ValidKlineRow(f.rows[i], MarkInterval, -DayLength)
               [] OTHER -> ValidKlineRow(f.rows[i], Interval(a[1]), 0)
          /\ f.rows[i].time \in Span(a)

AllVerified(raw, kind) == \A a \in Archives : a[1] = kind => Verified(a, raw[a])

\* The monthly rows of one kind, month after month.
Joined(raw, kind) ==
    FlattenSeq([i \in DOMAIN Months |-> raw[<<kind, Months[i]>>].rows])

\* No time twice and no step back.
InOrder(rows) == \A i, j \in DOMAIN rows : i < j => rows[i].time < rows[j].time

\* Steps of another length than the interval.
Gaps(rows, interval) ==
    {i \in DOMAIN rows : i > 1 /\ rows[i].time - rows[i-1].time # interval}

ValidKlineSeries(rows, interval, allowed) ==
    /\ rows # <<>>
    /\ InOrder(rows)
    /\ \A i \in Gaps(rows, interval) : <<rows[i-1].time, rows[i].time>> \in allowed
    /\ rows[1].time = 0
    /\ Last(rows).time + interval = WindowEnd

ValidMarkSeries(rows) == ValidKlineSeries(rows, MarkInterval, AllowedGaps)

\* A settlement may be late by the tolerance against the one before it, and
\* both edges of the window are held to the tolerance.
ValidFundingSeries(rows) ==
    /\ rows # <<>>
    /\ InOrder(rows)
    /\ \A i \in DOMAIN rows \ {1} :
          rows[i].time - rows[i-1].time <= rows[i-1].end + FundingTolerance
    /\ rows[1].time <= FundingTolerance
    /\ Last(rows).time + Last(rows).end - WindowEnd
          \in -FundingTolerance .. FundingTolerance

\* The daily rows: those before the window only vouch for the first settlement.
FillRows(raw) ==
    FlattenSeq([i \in DOMAIN FillDays |-> raw[<<"fill", FillDays[i]>>].rows])
EarlyRows(raw) == {row \in ToSet(FillRows(raw)) : row.time < 0}

FillInOrder(raw) ==
    InOrder(Joined(raw, "marks")) /\ \A d \in ToSet(FillDays) : InOrder(raw[<<"fill", d>>].rows)

\* A daily row must not contradict the monthly one of its time.
FillAgrees(raw) ==
    \A x \in ToSet(FillRows(raw)), y \in ToSet(Joined(raw, "marks")) :
        x.time = y.time => x = y

\* The rows of one series with those of another at their places.
Completed(rows, added) ==
    LET completed[n \in 0 .. Len(added)] ==
            IF n = 0 THEN rows ELSE Insert(completed[n-1], added[n])
    IN  completed[Len(added)]

\* The monthly marks, completed by the daily ones.
MarkRows(raw) ==
    LET monthly == Joined(raw, "marks")
        taken == {row.time : row \in ToSet(monthly)}
        added == Kept(FillRows(raw),
                      {row \in ToSet(FillRows(raw)) : row.time >= 0 /\ row.time \notin taken})
    IN  Completed(monthly, added)

\* Every settlement has a mark that closed at most MarkMaxAge before it, and
\* none falls in an interval the marks may omit.
RecentMark(marks, early, funding) ==
    \A i \in DOMAIN funding :
        /\ \A t \in Omitted : funding[i].time \notin t .. (t + MarkInterval - 1)
        /\ \E row \in ToSet(marks) \cup early :
              funding[i].time - row.end \in 0 .. MarkMaxAge
=============================================================================
