-------------------------- MODULE FeatureRowProofs --------------------------
(***************************************************************************)
(* For every clock, window and number of faults, the feature rows: what a  *)
(* row of the batch and of the engine is computed from, that a published   *)
(* backtest decided on each of its bars from the row the accepted events   *)
(* define, and that read, batch and engine agree.                          *)
(***************************************************************************)
EXTENDS DataPipelineProofs

-----------------------------------------------------------------------------
(* The accepted marks: on the grid of their interval, and without those that   *)
(* may be omitted when as many gaps were counted as may be.                    *)

MarkClose(k) == k * MarkInterval + MarkInterval - 1

MarksOnGrid(marks, gaps) ==
    /\ marks \in Seq(Int) /\ Ascending(marks)
    /\ \A t \in ToSet(marks) : t < WindowEnd /\ \E k \in Nat : t = MarkClose(k)
    /\ gaps = Cardinality(AllowedGaps) =>
          \A g \in AllowedGaps : \E k \in Nat :
              g[1] = k * MarkInterval /\ MarkClose(k + 1) \notin ToSet(marks)

LEMMA MarksOfSeries ==
  ASSUME RawTyped, AllVerified(raw, "marks"), AllVerified(raw, "fill"), ValidMarkSeries(MarkRows(raw))
  PROVE  MarksOnGrid(Events("marks", MarkRows(raw)), Cardinality(Gaps(MarkRows(raw), MarkInterval)))
<1> DEFINE M == MarkRows(raw)
           n == Len(M)
           m == MarkInterval
           E == Events("marks", M)
           G == Gaps(M, m)
<1>1. M \in Seq(Row) /\ n \in Nat \ {0} /\ DOMAIN M = 1 .. n
  <2>1. M \in Seq(Row) /\ M # <<>>
    BY MarkElements DEF ValidMarkSeries, ValidKlineSeries
  <2>2. QED
    BY <2>1
<1>2. \A i \in 1 .. n : M[i].time \in Int /\ M[i].end = M[i].time + m - 1
  <2>1. SUFFICES ASSUME NEW i \in 1 .. n PROVE M[i].time \in Int /\ M[i].end = M[i].time + m - 1
    OBVIOUS
  <2>2. M[i] \in ToSet(M) /\ M[i] \in Row
    BY <1>1 DEF ToSet
  <2>3. PICK a \in Archives : a[1] \in {"marks", "fill"} /\ M[i] \in ToSet(raw[a].rows)
    BY <2>2, MarkElements
  <2>4. Verified(a, raw[a])
    BY <2>3 DEF AllVerified
  <2>5. QED
    BY <2>2, <2>3, <2>4, VerifiedRows DEF Row
<1>3. M[1].time = 0 /\ M[n].time + m = WindowEnd
  BY DEF ValidMarkSeries, ValidKlineSeries, Last
<1>4. \A i \in G : <<M[i-1].time, M[i].time>> \in AllowedGaps
  BY DEF ValidMarkSeries, ValidKlineSeries
<1>5. \A i, j \in 1 .. n : i < j => M[i].time < M[j].time
  BY <1>1 DEF ValidMarkSeries, ValidKlineSeries, InOrder
<1>6. m \in Nat \ {0} /\ WindowEnd \in Nat \ {0}
  BY ClockFacts
<1>7. DOMAIN E = 1 .. n /\ \A i \in 1 .. n : E[i] = M[i].time + m - 1
  BY <1>1, <1>2 DEF Events
<1>7a. G = {i \in 1 .. n : i > 1 /\ M[i].time - M[i-1].time # m}
  BY <1>1 DEF Gaps
<1> HIDE DEF M, n, m, E, G
<1>8. E \in Seq(Int) /\ Len(E) = n
  <2>1. E \in [1 .. n -> Int]
    <3>1. E = [i \in 1 .. n |-> E[i]]
      <4>1. Events("marks", M) = [i \in DOMAIN M |-> M[i].end]
        BY DEF Events
      <4>2. QED
        BY <1>1, <4>1 DEF E
    <3>2. \A i \in 1 .. n : E[i] \in Int
      BY <1>2, <1>6, <1>7
    <3>3. QED
      BY <3>1, <3>2
  <2>2. QED
    BY <1>1, <2>1, IsASeq, LenProperties
<1>9. Ascending(E)
  <2>1. SUFFICES ASSUME NEW j \in 1 .. n, NEW i \in 1 .. j - 1 PROVE <<E[i], E[j]>> \in {p \in Int \X Int : p[1] < p[2]}
    BY <1>7 DEF Ascending, Pairwise
  <2>2. i \in 1 .. n /\ i < j
    BY <1>1
  <2>3. M[i].time < M[j].time
    BY <1>5, <2>2
  <2>4. QED
    BY <1>2, <1>6, <1>7, <2>2, <2>3
<1>10. \A i \in 1 .. n - 1 : M[i + 1].time = M[i].time + m \/ M[i + 1].time = M[i].time + 2 * m
  <2>1. SUFFICES ASSUME NEW i \in 1 .. n - 1, M[i + 1].time # M[i].time + m
                 PROVE  M[i + 1].time = M[i].time + 2 * m
    OBVIOUS
  <2>2. i + 1 \in 1 .. n /\ i + 1 > 1 /\ (i + 1) - 1 = i /\ i \in 1 .. n
    BY <1>1
  <2>3. M[i + 1].time - M[i].time # m
    BY <1>2, <1>6, <2>1, <2>2
  <2>4. i + 1 \in G
    BY <1>7a, <2>2, <2>3
  <2>5. <<M[i].time, M[i + 1].time>> \in AllowedGaps
    BY <1>4, <2>2, <2>4
  <2>6. QED
    BY <2>5, ClockAssumption DEF m
<1> DEFINE T == {j \in Nat : j + 1 <= n => \E k \in Nat : M[j + 1].time = k * m}
<1>11. 0 \in T
  <2>1. 0 = 0 * m
    BY <1>6
  <2>2. QED
    BY <1>3, <2>1
<1>12. ASSUME NEW j \in Nat, j \in T PROVE j + 1 \in T
  <2>1. SUFFICES ASSUME j + 2 <= n PROVE \E k \in Nat : M[j + 2].time = k * m
    <3>1. (j + 1) + 1 = j + 2
      OBVIOUS
    <3>2. QED
      BY <3>1
  <2>2. j + 1 \in 1 .. n - 1 /\ (j + 1) + 1 = j + 2 /\ j + 1 <= n
    BY <1>1, <2>1
  <2>3. PICK k \in Nat : M[j + 1].time = k * m
    BY <1>12, <2>2
  <2>4. M[j + 2].time = M[j + 1].time + m \/ M[j + 2].time = M[j + 1].time + 2 * m
    BY <1>10, <2>2
  <2>5. (k + 1) * m = k * m + m /\ (k + 2) * m = k * m + 2 * m
    BY <1>6
  <2>6. M[j + 2].time = (k + 1) * m \/ M[j + 2].time = (k + 2) * m
    BY <2>3, <2>4, <2>5
  <2>7. k + 1 \in Nat /\ k + 2 \in Nat
    OBVIOUS
  <2>8. QED
    BY <2>6, <2>7
<1>13. Nat \subseteq T
  BY <1>11, <1>12, Induction
<1>14. \A i \in 1 .. n : \E k \in Nat : M[i].time = k * m
  <2>1. SUFFICES ASSUME NEW i \in 1 .. n PROVE \E k \in Nat : M[i].time = k * m
    OBVIOUS
  <2>2. i - 1 \in Nat /\ (i - 1) + 1 = i /\ i <= n
    BY <1>1
  <2>3. i - 1 \in T
    BY <1>13, <2>2
  <2>4. QED
    BY <2>2, <2>3
<1>15. \A t \in ToSet(E) : t < WindowEnd /\ \E k \in Nat : t = MarkClose(k)
  <2>1. SUFFICES ASSUME NEW i \in 1 .. n PROVE E[i] < WindowEnd /\ \E k \in Nat : E[i] = MarkClose(k)
    BY <1>7 DEF ToSet
  <2>2. PICK k \in Nat : M[i].time = k * m
    BY <1>14
  <2>3. E[i] = MarkClose(k)
    BY <1>7, <2>2 DEF MarkClose, m
  <2>4. M[i].time <= M[n].time
    BY <1>1, <1>2, <1>5
  <2>5. M[i].time \in Int /\ M[n].time \in Int
    BY <1>1, <1>2
  <2>6. QED
    BY <1>3, <1>6, <1>7, <2>3, <2>4, <2>5
<1>16. ASSUME Cardinality(G) = Cardinality(AllowedGaps), NEW g \in AllowedGaps
       PROVE  \E k \in Nat : g[1] = k * m /\ MarkClose(k + 1) \notin ToSet(E)
  <2> DEFINE f == [i \in G |-> <<M[i-1].time, M[i].time>>]
  <2>1. \A i \in G : i \in 1 .. n /\ i - 1 \in 1 .. n
    BY <1>1, <1>7a
  <2>2. f \in [G -> AllowedGaps]
    BY <1>4
  <2>3. \A i, j \in G : f[i] = f[j] => i = j
    <3>1. SUFFICES ASSUME NEW i \in G, NEW j \in G, f[i] = f[j] PROVE i = j
      OBVIOUS
    <3>2. M[i].time = M[j].time
      BY <3>1
    <3>3. i \in 1 .. n /\ j \in 1 .. n
      BY <2>1
    <3> HIDE DEF f
    <3>4. QED
      BY <1>1, <1>2, <1>5, <3>2, <3>3
  <2>4. f \in Injection(G, AllowedGaps)
    BY <2>2, <2>3 DEF Injection, IsInjective
  <2>5. IsFiniteSet(AllowedGaps)
    BY ClockAssumption
  <2> HIDE DEF f
  <2>6. f \in Surjection(G, AllowedGaps)
    BY <1>16, <2>4, <2>5, FS_Injection
  <2>7. PICK i \in G : f[i] = g
    BY <2>6 DEF Surjection
  <2>8. g[1] = M[i-1].time /\ g[2] = M[i].time
    BY <2>7 DEF f
  <2>9. M[i].time = M[i-1].time + 2 * m
    BY <2>8, ClockAssumption DEF m
  <2>10. PICK k \in Nat : M[i-1].time = k * m
    BY <1>14, <2>1
  <2>11. MarkClose(k + 1) \notin ToSet(E)
    <3>1. SUFFICES ASSUME NEW j \in 1 .. n, E[j] = MarkClose(k + 1) PROVE FALSE
      BY <1>7 DEF ToSet
    <3>2. (k + 1) * m = k * m + m /\ k * m \in Int
      BY <1>6
    <3>3. M[j].time = k * m + m
      BY <1>2, <1>6, <1>7, <3>1, <3>2 DEF MarkClose, m
    <3>4. i \in 1 .. n /\ i - 1 \in 1 .. n /\ i - 1 \in Int
      BY <2>1
    <3>5. M[i-1].time < M[j].time /\ M[j].time < M[i].time
      BY <1>6, <2>9, <2>10, <3>2, <3>3
    <3>6. ~ (j <= i - 1) /\ ~ (i <= j)
      <4>1. \A a, b \in 1 .. n : M[a].time < M[b].time => a < b
        <5>1. SUFFICES ASSUME NEW a \in 1 .. n, NEW b \in 1 .. n, M[a].time < M[b].time, b <= a PROVE FALSE
          BY <1>1
        <5>2. CASE a = b
          BY <1>2, <5>1, <5>2
        <5>3. CASE b < a
          BY <1>2, <1>5, <5>1, <5>3
        <5>4. QED
          BY <1>1, <5>1, <5>2, <5>3
      <4>2. i - 1 < j /\ j < i
        BY <3>4, <3>5, <4>1
      <4>3. QED
        BY <3>4, <4>2
    <3>7. QED
      BY <1>1, <3>4, <3>6
  <2>12. QED
    BY <2>8, <2>10, <2>11
<1>17. QED
  BY <1>8, <1>9, <1>15, <1>16 DEF MarksOnGrid, E, G, M, m

(* The greatest of a sequence of integers up to a bound. *)
LEMMA LatestIs ==
  ASSUME NEW times \in Seq(Int), Ascending(times), NEW d \in Int,
         NEW x \in ToSet(times), x <= d, \A y \in ToSet(times) : y <= d => y <= x
  PROVE  Latest(times, d) = x
<1> DEFINE S == {t \in ToSet(times) : t <= d}
           U == Kept(times, S)
<1>1. U \in Seq(Int) /\ \A y : y \in ToSet(U) <=> y \in ToSet(times) /\ y \in S
  BY KeptElements
<1>2. Ascending(U)
  BY KeptPairs DEF Ascending
<1>3. Latest(times, d) = Last(U)
  BY DEF Latest, UpTo
<1>4. x \in S /\ \A y \in S : y <= x
  OBVIOUS
<1> HIDE DEF S, U
<1>5. x \in ToSet(U) /\ \A y \in ToSet(U) : y <= x
  BY <1>1, <1>4
<1>6. PICK i \in DOMAIN U : U[i] = x
  BY <1>5 DEF ToSet
<1>7. U # <<>>
  BY <1>6
<1>8. Len(U) \in Nat \ {0} /\ DOMAIN U = 1 .. Len(U) /\ Last(U) = U[Len(U)] /\ Last(U) \in Int
  BY <1>1, <1>7, LastIsElement
<1>9. CASE i = Len(U)
  BY <1>3, <1>6, <1>8, <1>9
<1>10. CASE i # Len(U)
  <2>1. i \in 1 .. Len(U) - 1 /\ Len(U) \in DOMAIN U
    BY <1>8, <1>10
  <2>2. <<U[i], U[Len(U)]>> \in {p \in Int \X Int : p[1] < p[2]}
    BY <1>2, <2>1, Zenon DEF Ascending, Pairwise
  <2>3. U[Len(U)] \in ToSet(U)
    BY <1>8 DEF ToSet
  <2>4. x < U[Len(U)] /\ U[Len(U)] <= x
    BY <1>5, <1>6, <2>2, <2>3
  <2>5. QED
    BY <1>6, <1>8, <2>2, <2>4
<1>11. QED
  BY <1>9, <1>10

-----------------------------------------------------------------------------
(* What was accepted, and that everything read later is of it. *)

ReadStages == {"accepted", "bound", "batch", "batched", "engine", "published", "trained"}

AcceptedData ==
    stage \in ReadStages =>
        LET events == accepted.events
        IN  /\ events \in [Kinds -> Seq(Int)]
            /\ events.bars = GridBars
            /\ MarksOnGrid(events.marks, accepted.coverage.marks.gaps)
            /\ Ascending(events.funding)
            /\ \A t \in {n \in 0 .. WindowEnd - 1 : n % MarkInterval = 0} :
                  t + MarkInterval - 1 \in ToSet(events.marks) \/ t \in Omitted

Held ==
    /\ stage \in {"accepted", "bound", "batch", "batched", "engine"} =>
           \A k \in Kinds : ToSet(catalog[k]) \subseteq ToSet(accepted.events[k])
    /\ stage \in {"batch", "engine"} =>
           \A k \in Kinds : ToSet(input[k]) \subseteq ToSet(accepted.events[k])

LEMMA FundingAscends ==
  ASSUME RawTyped, ValidFundingSeries(Joined(raw, "funding"))
  PROVE  Ascending(SourceEvents.funding)
<1> DEFINE J == Joined(raw, "funding")
           E == Events("funding", J)
<1>1. /\ Len(J) \in Nat /\ DOMAIN J = 1 .. Len(J)
      /\ \A k \in DOMAIN J : J[k].time \in Int /\ E[k] = J[k].time
      /\ E \in Seq(Int) /\ Len(E) = Len(J)
  BY FundingRows
<1>2. \A i, j \in DOMAIN J : i < j => J[i].time < J[j].time
  BY DEF ValidFundingSeries, InOrder
<1>3. DOMAIN E = DOMAIN J /\ SourceEvents.funding = E
  BY <1>1 DEF SourceEvents
<1> HIDE DEF J, E
<1>4. ASSUME NEW j \in DOMAIN E, NEW i \in 1 .. j - 1 PROVE <<E[i], E[j]>> \in {p \in Int \X Int : p[1] < p[2]}
  <2>1. i \in DOMAIN J /\ j \in DOMAIN J /\ i < j
    BY <1>1, <1>3, <1>4
  <2>2. QED
    BY <1>1, <1>2, <2>1
<1>5. QED
  BY <1>3, <1>4 DEF Ascending, Pairwise

LEMMA AcceptedDataNext == Sound /\ AcceptedData /\ [Next]_vars => AcceptedData'
<1>1. SUFFICES ASSUME Sound, AcceptedData, [Next]_vars PROVE AcceptedData'
  OBVIOUS
<1>2. CASE Accept
  <2>1. /\ raw' = raw /\ stage' \in {"accepted", "refused"}
        /\ stage' = "accepted" => RecordComplete
        /\ RecordComplete => accepted' = AcceptanceRecord
    BY <1>2 DEF Accept, Pass
  <2>2. SUFFICES ASSUME stage' = "accepted" PROVE AcceptedData'
    BY <2>1 DEF AcceptedData, ReadStages
  <2>3. Sound'
    BY <1>1, SoundNext
  <2>4. AcceptedIsWhole'
    BY <2>3, SoundIsWhole, PTL
  <2>5. accepted'.events = SourceEvents
    BY <2>1, <2>2, <2>3, SameData DEF Sound
  <2>6. /\ accepted'.events.bars = GridBars
        /\ \A t \in {n \in 0 .. WindowEnd - 1 : n % MarkInterval = 0} :
              t + MarkInterval - 1 \in ToSet(accepted'.events.marks) \/ t \in Omitted
    BY <2>2, <2>4 DEF AcceptedIsWhole, GridBars
  <2>7. RawTyped /\ AllVerified(raw, "marks") /\ AllVerified(raw, "fill") /\ ValidMarkSeries(MarkRows(raw))
    <3>1. RawTyped /\ stage = "checked"
      BY <1>1, <1>2 DEF Sound, Accept
    <3>2. MarksGood
      BY <1>1, <3>1 DEF Sound
    <3>3. QED
      BY <3>1, <3>2 DEF MarksGood
  <2>8. accepted'.events \in [Kinds -> Seq(Int)]
    BY <2>5, <2>7, SourceTyped
  <2>9. accepted'.coverage.marks.gaps = Cardinality(Gaps(MarkRows(raw), MarkInterval))
    <3>1. accepted'.coverage = Coverage
      BY <2>1, <2>2 DEF AcceptanceRecord
    <3>2. Coverage["marks"].gaps = GapCount("marks")
      BY DEF Coverage, Kinds
    <3>3. QED
      BY <3>1, <3>2 DEF GapCount
  <2>10. accepted'.events.marks = Events("marks", MarkRows(raw))
    BY <2>5 DEF SourceEvents
  <2>11. MarksOnGrid(accepted'.events.marks, accepted'.coverage.marks.gaps)
    BY <2>7, <2>9, <2>10, MarksOfSeries
  <2>13. Ascending(accepted'.events.funding)
    <3>1. RawTyped /\ stage = "checked"
      BY <1>1, <1>2 DEF Sound, Accept
    <3>2. MarksGood
      BY <1>1, <3>1 DEF Sound
    <3>3. Ascending(SourceEvents.funding)
      BY <3>1, <3>2, FundingAscends DEF MarksGood
    <3>4. QED
      BY <2>5, <3>3
  <2>12. QED
    BY <2>6, <2>8, <2>11, <2>13 DEF AcceptedData
<1>3. CASE Bind \/ BatchRead \/ BatchBar \/ FinishBatch \/ EngineRead \/ OnMarkPrice \/ OnFundingRate
           \/ OnBar \/ Parity
  <2>1. accepted' = accepted /\ stage \in ReadStages
    BY <1>3 DEF Bind, BatchRead, BatchBar, FinishBatch, EngineRead, OnMarkPrice, OnFundingRate, OnBar,
                Parity, ReadStages
  <2>2. QED
    BY <1>1, <2>1 DEF AcceptedData
<1>4. CASE CatalogFault \/ UNCHANGED vars
  <2>1. accepted' = accepted /\ stage' = stage
    BY <1>4 DEF CatalogFault, vars
  <2>2. QED
    BY <1>1, <2>1 DEF AcceptedData
<1>5. CASE SourceFault \/ ProbeIndex \/ LoadBars \/ LoadMarksAndFunding \/ WriteCatalog \/ CrosscheckCatalog
  <2>1. stage' \notin ReadStages
    BY <1>5 DEF SourceFault, ProbeIndex, LoadBars, LoadMarksAndFunding, WriteCatalog,
                CrosscheckCatalog, Pass, ReadStages
  <2>2. QED
    BY <2>1 DEF AcceptedData
<1>6. QED
  BY <1>1, <1>2, <1>3, <1>4, <1>5 DEF Next

(* A part of a series that is read and its tail have no other events. *)
LEMMA PartElements ==
  ASSUME NEW times \in Seq(Int)
  PROVE  /\ \A S : Kept(times, S) \in Seq(Int) /\ ToSet(Kept(times, S)) \subseteq ToSet(times)
         /\ times # <<>> => Tail(times) \in Seq(Int) /\ ToSet(Tail(times)) \subseteq ToSet(times)
BY KeptElements, EndElements

LEMMA HeldNext == Typed /\ Held /\ [Next]_vars => Held'
<1>1. SUFFICES ASSUME Typed, Held, [Next]_vars PROVE Held'
  OBVIOUS
<1> DEFINE A(k) == ToSet(accepted.events[k])
<1>2. /\ Sound /\ RawTyped /\ Shaped
      /\ stage \in {"accepted", "bound", "batch", "batched", "engine"} =>
             catalog \in [Kinds -> Seq(Int)] /\ \A k \in Kinds : ToSet(catalog[k]) \subseteq A(k)
      /\ stage \in {"batch", "engine"} =>
             input \in [Kinds -> Seq(Int)] /\ \A k \in Kinds : ToSet(input[k]) \subseteq A(k)
  BY <1>1 DEF Typed, Drawn, Sound, Held
<1>4. SUFFICES /\ stage' \in {"accepted", "bound", "batch", "batched", "engine"} =>
                      \A k \in Kinds : ToSet(catalog'[k]) \subseteq ToSet(accepted'.events[k])
               /\ stage' \in {"batch", "engine"} =>
                      \A k \in Kinds : ToSet(input'[k]) \subseteq ToSet(accepted'.events[k])
  BY DEF Held, ToSet
<1>5. accepted' = accepted => \A k : A(k) = ToSet(accepted'.events[k])
  OBVIOUS
<1> HIDE DEF A
<1>6. CASE SourceFault \/ ProbeIndex \/ LoadBars \/ LoadMarksAndFunding \/ WriteCatalog \/ CrosscheckCatalog
  <2>1. stage' \notin {"accepted", "bound", "batch", "batched", "engine"}
    BY <1>6 DEF SourceFault, ProbeIndex, LoadBars, LoadMarksAndFunding, WriteCatalog, CrosscheckCatalog, Pass
  <2>2. QED
    BY <2>1
<1>7. CASE CatalogFault
  <2>1. /\ accepted' = accepted /\ stage' = stage /\ stage \in {"accepted", "bound", "batched"}
        /\ \E k \in Kinds : \E times \in Miswritten(catalog[k]) \cup Swapped(catalog[k]) :
              catalog' = [catalog EXCEPT ![k] = times]
    BY <1>7 DEF CatalogFault
  <2>2. PICK k \in Kinds : \E times \in Miswritten(catalog[k]) \cup Swapped(catalog[k]) :
              catalog' = [catalog EXCEPT ![k] = times]
    BY <2>1
  <2>3. PICK times \in Miswritten(catalog[k]) \cup Swapped(catalog[k]) : catalog' = [catalog EXCEPT ![k] = times]
    BY <2>2
  <2>4. /\ catalog \in [Kinds -> Seq(Int)] /\ catalog[k] \in Seq(Int)
        /\ \A j \in Kinds : ToSet(catalog[j]) \subseteq A(j)
    BY <1>2, <2>1
  <2>5. ToSet(times) \subseteq ToSet(catalog[k])
    BY <2>4, AlteredElements
  <2>6. catalog'[k] = times /\ \A j \in Kinds : j # k => catalog'[j] = catalog[j]
    BY <2>3, <2>4
  <2>7. \A j \in Kinds : ToSet(catalog'[j]) \subseteq A(j)
    BY <2>4, <2>5, <2>6
  <2>8. QED
    BY <1>5, <2>1, <2>7
<1>8. CASE Accept
  <2>1. /\ catalog' = catalog /\ stage = "checked"
        /\ stage' \in {"accepted", "refused"}
        /\ stage' = "accepted" => RecordComplete
        /\ RecordComplete => accepted' = AcceptanceRecord
    BY <1>8 DEF Accept, Pass
  <2>2. stage' = "accepted" => accepted'.events = catalog'
    BY <2>1 DEF AcceptanceRecord
  <2>3. QED
    BY <2>1, <2>2
<1>9. CASE Bind
  <2>1. UNCHANGED <<accepted, catalog>> /\ stage = "accepted" /\ stage' \in {"bound", "refused"}
    BY <1>9 DEF Bind, Pass
  <2>2. QED
    BY <1>2, <1>5, <2>1
<1>10. CASE BatchRead
  <2>1. /\ UNCHANGED <<accepted, catalog>> /\ stage = "bound" /\ stage' \in {"batch", "refused"}
        /\ stage' = "batch" => input' = WindowEvents
    BY <1>10 DEF BatchRead, Pass
  <2>2. ASSUME NEW k \in Kinds PROVE ToSet(WindowEvents[k]) \subseteq A(k)
    <3>1. catalog[k] \in Seq(Int) /\ ToSet(catalog[k]) \subseteq A(k)
          /\ WindowEvents[k] = Within(catalog[k], WindowFrom[k], WindowTo[k])
      BY <1>2, <2>1 DEF WindowEvents
    <3>2. ToSet(WindowEvents[k]) \subseteq ToSet(catalog[k])
      BY <3>1, WithinElements
    <3>3. QED
      BY <3>1, <3>2
  <2>3. QED
    BY <1>2, <1>5, <2>1, <2>2
<1>11. CASE BatchBar
  <2> DEFINE d == Head(Undecided)
  <2>1. /\ UNCHANGED <<accepted, catalog>> /\ stage = "batch"
        /\ input' = [input EXCEPT !.marks = After(@, d), !.funding = After(@, d)]
    BY <1>11 DEF BatchBar
  <2>2. input \in [Kinds -> Seq(Int)] /\ \A k \in Kinds : ToSet(input[k]) \subseteq A(k)
    BY <1>2, <2>1
  <2> HIDE DEF d
  <2>3. \A k \in {"marks", "funding"} : ToSet(After(input[k], d)) \subseteq ToSet(input[k])
    BY <2>2, PartElements DEF After, Kinds
  <2>4. \A k \in Kinds : input'[k] = input[k] \/ (k \in {"marks", "funding"} /\ input'[k] = After(input[k], d))
    BY <2>1, <2>2 DEF Kinds
  <2>5. \A k \in Kinds : ToSet(input'[k]) \subseteq A(k)
    BY <2>2, <2>3, <2>4
  <2>6. QED
    BY <1>2, <1>5, <2>1, <2>5
<1>12. CASE FinishBatch
  <2>1. /\ UNCHANGED <<accepted, catalog>> /\ stage = "batch" /\ stage' \in {"batched", "trained", "refused"}
    BY <1>12 DEF FinishBatch, Pass
  <2>2. QED
    BY <1>2, <1>5, <2>1
<1>13. CASE EngineRead
  <2> DEFINE read == [k \in Kinds |-> Within(catalog[k], window.start, window.end)]
  <2>1. /\ UNCHANGED <<accepted, catalog>> /\ stage = "batched"
        /\ stage' \in {"engine", "refused"}
        /\ input' = [k \in Kinds |-> InTimeOrder(read[k])]
    BY <1>13 DEF EngineRead, Pass
  <2>2. ASSUME NEW k \in Kinds PROVE ToSet(input'[k]) \subseteq A(k)
    <3>1. catalog[k] \in Seq(Int) /\ ToSet(catalog[k]) \subseteq A(k)
          /\ read[k] = Within(catalog[k], window.start, window.end)
      BY <1>2, <2>1
    <3>2. read[k] \in Seq(Int) /\ ToSet(read[k]) \subseteq ToSet(catalog[k])
      BY <3>1, WithinElements
    <3>3. input'[k] = InTimeOrder(read[k])
      BY <2>1
    <3> HIDE DEF read
    <3>4. ToSet(input'[k]) \subseteq ToSet(read[k])
      BY <3>2, <3>3, OrderedElements
    <3>5. QED
      BY <3>1, <3>2, <3>4
  <2>3. QED
    BY <1>2, <1>5, <2>1, <2>2
<1>14. CASE OnMarkPrice \/ OnFundingRate \/ OnBar
  <2>1. /\ UNCHANGED <<accepted, catalog>> /\ stage = "engine"
        /\ \E k \in Kinds : input[k] # <<>> /\ input' = [input EXCEPT ![k] = Tail(@)]
    BY <1>14 DEF OnMarkPrice, OnFundingRate, OnBar, IsNextEvent, Kinds
  <2>2. input \in [Kinds -> Seq(Int)] /\ \A k \in Kinds : ToSet(input[k]) \subseteq A(k)
    BY <1>2, <2>1
  <2>3. PICK k \in Kinds : input[k] # <<>> /\ input' = [input EXCEPT ![k] = Tail(@)]
    BY <2>1
  <2>4. input[k] \in Seq(Int) /\ ToSet(Tail(input[k])) \subseteq ToSet(input[k])
    BY <2>2, <2>3, PartElements
  <2>5. \A j \in Kinds : input'[j] = IF j = k THEN Tail(input[k]) ELSE input[j]
    BY <2>2, <2>3
  <2>6. \A j \in Kinds : ToSet(input'[j]) \subseteq A(j)
    BY <2>2, <2>4, <2>5
  <2>7. stage' \in {"engine", "refused"}
    BY <1>14 DEF OnMarkPrice, OnFundingRate, OnBar, Pass
  <2>8. QED
    BY <1>2, <1>5, <2>1, <2>6, <2>7
<1>15. CASE Parity
  <2>1. stage' \in {"published", "refused"}
    BY <1>15 DEF Parity, Pass
  <2>2. QED
    BY <2>1
<1>16. CASE UNCHANGED vars
  <2>1. UNCHANGED <<accepted, catalog, input, stage>>
    BY <1>16 DEF vars, research
  <2>2. QED
    BY <1>2, <1>5, <2>1
<1>17. QED
  BY <1>1, <1>6, <1>7, <1>8, <1>9, <1>10, <1>11, <1>12, <1>13, <1>14, <1>15, <1>16 DEF Next

-----------------------------------------------------------------------------
(* The grids the incremental state holds its events to. *)

LEMMA FloorIs ==
  ASSUME NEW m \in Nat \ {0}, NEW a \in Int, NEW k \in Int
  PROVE  k <= a \div m <=> k * m <= a
<1> DEFINE q == a \div m
           r == a % m
<1>1. a = q * m + r /\ q \in Int /\ r \in 0 .. m - 1
  BY Division, DivisionType
<1> HIDE DEF q, r
<1>2. k * m \in Int /\ q * m \in Int /\ (q + 1) * m = q * m + m /\ (q + 1) * m \in Int
  BY <1>1
<1>3. ASSUME k <= q PROVE k * m <= a
  <2>1. k * m <= q * m
    BY <1>1, <1>3, TimesGrow
  <2>2. QED
    BY <1>1, <1>2, <2>1
<1>4. ASSUME k * m <= a PROVE k <= q
  <2>1. k * m < (q + 1) * m
    BY <1>1, <1>2, <1>4
  <2>2. k < q + 1
    BY <1>1, <2>1, TimesLess
  <2>3. QED
    BY <1>1, <2>2
<1>5. QED
  BY <1>3, <1>4 DEF q

LEMMA CeilingIs ==
  ASSUME NEW m \in Nat \ {0}, NEW a \in Int, NEW k \in Int
  PROVE  -((-a) \div m) <= k <=> a <= k * m
<1> DEFINE q == (-a) \div m
<1>1. q \in Int /\ -a \in Int /\ -k \in Int
  BY DivisionType
<1>2. -k <= q <=> (-k) * m <= -a
  BY <1>1, FloorIs
<1> HIDE DEF q
<1>3. (-k) * m = -(k * m) /\ k * m \in Int
  OBVIOUS
<1>4. QED
  BY <1>1, <1>2, <1>3 DEF q

LEMMA GreatestInteger ==
  ASSUME NEW a \in Int, NEW b \in Int, NEW S, S \subseteq a .. b, S # {}
  PROVE  Max(S) \in S /\ \A x \in S : x <= Max(S)
<1>1. a <= b /\ b - a + 1 \in Nat
  <2>1. PICK x \in S : x \in a .. b
    OBVIOUS
  <2>2. QED
    BY <2>1
<1> DEFINE T == {x - a + 1 : x \in S}
           n == b - a + 1
<1>2. T \subseteq 1 .. n /\ T # {}
  <2>1. \A x \in S : x \in Int /\ a <= x /\ x <= b
    OBVIOUS
  <2>2. \A x \in S : x - a + 1 \in 1 .. n
    BY <2>1
  <2> HIDE DEF n
  <2>3. QED
    BY <2>2
<1> HIDE DEF T
<1>3. PICK h \in T : \A i \in T : i <= h
  BY <1>1, <1>2, Greatest
<1>4. PICK y \in S : h = y - a + 1
  BY DEF T
<1>5. \A x \in S : x - a + 1 \in T /\ x \in Int
  BY DEF T
<1>6. \A x \in S : y >= x
  BY <1>3, <1>4, <1>5
<1>7. Max(S) \in S /\ \A x \in S : Max(S) >= x
  BY <1>6 DEF Max
<1>8. QED
  BY <1>5, <1>7

LEMMA LeastInteger ==
  ASSUME NEW a \in Int, NEW b \in Int, NEW S, S \subseteq a .. b, S # {}
  PROVE  Min(S) \in S /\ \A x \in S : Min(S) <= x
<1>1. a <= b /\ b - a + 1 \in Nat
  <2>1. PICK x \in S : x \in a .. b
    OBVIOUS
  <2>2. QED
    BY <2>1
<1> DEFINE T == {b - x + 1 : x \in S}
           n == b - a + 1
<1>2. T \subseteq 1 .. n /\ T # {}
  <2>1. \A x \in S : x \in Int /\ a <= x /\ x <= b
    OBVIOUS
  <2>2. \A x \in S : b - x + 1 \in 1 .. n
    BY <2>1
  <2> HIDE DEF n
  <2>3. QED
    BY <2>2
<1> HIDE DEF T
<1>3. PICK h \in T : \A i \in T : i <= h
  BY <1>1, <1>2, Greatest
<1>4. PICK y \in S : h = b - y + 1
  BY DEF T
<1>5. \A x \in S : b - x + 1 \in T /\ x \in Int
  BY DEF T
<1>6. \A x \in S : y <= x
  BY <1>3, <1>4, <1>5
<1>7. QED
  BY <1>6 DEF Min

(* Among one more slots than there are gaps, one is eligible. *)
LEMMA SomeEligible ==
  ASSUME NEW G, IsFiniteSet(G), NEW a \in Int
  PROVE  /\ Cardinality(G) \in Nat
         /\ ((a - Cardinality(G)) .. a) \ G # {}
         /\ (a .. (a + Cardinality(G))) \ G # {}
<1> DEFINE c == Cardinality(G)
<1>1. c \in Nat
  BY FS_CardinalityType
<1>2. ASSUME NEW x \in Int, NEW y \in Int, y = x + c, x .. y \subseteq G PROVE FALSE
  <2>1. Cardinality(x .. y) <= c
    BY <1>2, FS_Subset
  <2>2. Cardinality(x .. y) = c + 1
    <3>1. Cardinality(x .. y) = IF x > y THEN 0 ELSE y - x + 1
      BY FS_Interval
    <3> HIDE DEF c
    <3>2. QED
      BY <1>1, <1>2, <3>1
  <2> HIDE DEF c
  <2>3. QED
    BY <1>1, <2>1, <2>2
<1> HIDE DEF c
<1>3. a - c \in Int /\ a = (a - c) + c /\ a + c \in Int
  BY <1>1
<1>4. ~ ((a - c) .. a \subseteq G) /\ ~ (a .. (a + c) \subseteq G)
  BY <1>2, <1>3
<1>5. QED
  BY <1>1, <1>4 DEF c

LEMMA LastEligibleIs ==
  ASSUME NEW g, IsFiniteSet(g.gaps), NEW to \in Int, g.first \in Int, g.last \in Int, g.cadence \in Nat \ {0}
  PROVE  LET floor == Smaller(g.last, (to - 1 - g.first) \div g.cadence)
         IN  /\ LastEligible(g, to) \in Int /\ LastEligible(g, to) \notin g.gaps
             /\ LastEligible(g, to) <= floor /\ floor \in Int
             /\ \A k \in Int : k <= floor /\ k \notin g.gaps => k <= LastEligible(g, to)
<1> DEFINE floor == Smaller(g.last, (to - 1 - g.first) \div g.cadence)
           c == Cardinality(g.gaps)
           S == ((floor - c) .. floor) \ g.gaps
<1>1. floor \in Int
  <2>1. to - 1 - g.first \in Int
    OBVIOUS
  <2>2. (to - 1 - g.first) \div g.cadence \in Int
    BY <2>1, DivisionType
  <2>3. QED
    BY <2>2 DEF Smaller
<1>2. LastEligible(g, to) = Max(S)
  BY DEF LastEligible
<1> HIDE DEF floor
<1>3. c \in Nat /\ S # {}
  BY <1>1, SomeEligible
<1> HIDE DEF c
<1>4. Max(S) \in S /\ \A x \in S : x <= Max(S)
  BY <1>1, <1>3, GreatestInteger
<1>5. Max(S) \in Int /\ Max(S) \notin g.gaps /\ Max(S) <= floor /\ floor - c <= Max(S)
  BY <1>1, <1>3, <1>4
<1>6. ASSUME NEW k \in Int, k <= floor, k \notin g.gaps PROVE k <= Max(S)
  <2>1. CASE floor - c <= k
    BY <1>1, <1>3, <1>4, <1>6, <2>1
  <2>2. CASE k < floor - c
    BY <1>1, <1>3, <1>5, <1>6, <2>2
  <2>3. QED
    BY <1>1, <1>3, <2>1, <2>2
<1> HIDE DEF S
<1>7. QED
  BY <1>1, <1>2, <1>5, <1>6 DEF floor

LEMMA FirstEligibleIs ==
  ASSUME NEW g, IsFiniteSet(g.gaps), NEW from \in Int, g.first \in Int, g.cadence \in Nat \ {0}
  PROVE  LET ceiling == Larger(0, -((-(from - g.first)) \div g.cadence))
         IN  /\ FirstEligible(g, from) \in Nat /\ FirstEligible(g, from) \notin g.gaps
             /\ ceiling <= FirstEligible(g, from) /\ ceiling \in Nat
             /\ \A k \in Int : ceiling <= k /\ k \notin g.gaps => FirstEligible(g, from) <= k
<1> DEFINE ceiling == Larger(0, -((-(from - g.first)) \div g.cadence))
           c == Cardinality(g.gaps)
           S == (ceiling .. (ceiling + c)) \ g.gaps
<1>1. ceiling \in Nat
  <2>1. -(from - g.first) \in Int
    OBVIOUS
  <2>2. (-(from - g.first)) \div g.cadence \in Int
    BY <2>1, DivisionType
  <2>3. QED
    BY <2>2 DEF Larger
<1>2. FirstEligible(g, from) = Min(S)
  BY DEF FirstEligible
<1> HIDE DEF ceiling
<1>3. c \in Nat /\ S # {}
  BY <1>1, SomeEligible
<1> HIDE DEF c
<1>4. Min(S) \in S /\ \A x \in S : Min(S) <= x
  BY <1>1, <1>3, LeastInteger
<1>5. Min(S) \in Nat /\ Min(S) \notin g.gaps /\ ceiling <= Min(S) /\ Min(S) <= ceiling + c
  BY <1>1, <1>3, <1>4
<1>6. ASSUME NEW k \in Int, ceiling <= k, k \notin g.gaps PROVE Min(S) <= k
  <2>1. CASE k <= ceiling + c
    BY <1>1, <1>3, <1>4, <1>6, <2>1
  <2>2. CASE ceiling + c < k
    BY <1>1, <1>3, <1>5, <1>6, <2>2
  <2>3. QED
    BY <1>1, <1>3, <2>1, <2>2
<1> HIDE DEF S
<1>7. QED
  BY <1>1, <1>2, <1>5, <1>6 DEF ceiling

MarkGrid == FixedGrid("marks")

LEMMA MarkGridFacts ==
  /\ MarkGrid.first = MarkInterval - 1 /\ MarkGrid.cadence = MarkInterval /\ MarkGrid.tolerance = 1
  /\ MarkGrid.last = (WindowEnd - MarkInterval) \div MarkInterval /\ MarkGrid.last \in Int
  /\ MarkGrid.gaps = {(g[1] + MarkInterval) \div MarkInterval : g \in AllowedGaps}
  /\ IsFiniteSet(MarkGrid.gaps)
<1> DEFINE m == MarkInterval
           G == {(c[1] - (m - 1)) \div m : c \in MarkGapCloses}
           H == {(g[1] + m) \div m : g \in AllowedGaps}
<1>1. m \in Nat \ {0} /\ WindowEnd \in Int
  BY ClockFacts
<1>2. /\ MarkGrid.first = m - 1 /\ MarkGrid.cadence = m /\ MarkGrid.tolerance = 1
      /\ MarkGrid.last = (WindowEnd - 1 - (m - 1)) \div m /\ MarkGrid.gaps = G
  BY DEF MarkGrid, FixedGrid
<1>3. WindowEnd - 1 - (m - 1) = WindowEnd - m /\ WindowEnd - m \in Int
  BY <1>1
<1>4. (WindowEnd - m) \div m \in Int
  BY <1>1, <1>3, DivisionType
<1>5. \A g \in AllowedGaps : (g[1] + 2 * m - 1) - (m - 1) = g[1] + m
  BY <1>1, ClockAssumption, SMTT(30)
<1>6. G = H
  <2> DEFINE w(c) == (c[1] - (m - 1)) \div m
             p(g) == <<g[1] + 2 * MarkInterval - 1, g[2] + MarkInterval - 1>>
  <2>1. G = {((g[1] + 2 * m - 1) - (m - 1)) \div m : g \in AllowedGaps}
    <3>1. G = {w(c) : c \in {p(g) : g \in AllowedGaps}}
      BY DEF MarkGapCloses
    <3>2. \A g : w(p(g)) = ((g[1] + 2 * m - 1) - (m - 1)) \div m
      OBVIOUS
    <3> HIDE DEF w, p
    <3>3. QED
      BY <3>1, <3>2, ZenonT(60)
  <2> HIDE DEF m
  <2>2. QED
    BY <1>5, <2>1
<1>7. IsFiniteSet(H)
  <2> DEFINE f == [g \in AllowedGaps |-> (g[1] + m) \div m]
  <2>1. f \in Surjection(AllowedGaps, H)
    <3>1. f \in [AllowedGaps -> H]
      OBVIOUS
    <3>2. \A y \in H : \E g \in AllowedGaps : f[g] = y
      OBVIOUS
    <3>3. QED
      BY <3>1, <3>2 DEF Surjection
  <2>2. IsFiniteSet(AllowedGaps)
    BY ClockAssumption
  <2> HIDE DEF f, H
  <2>3. QED
    BY <2>1, <2>2, FS_Surjection
<1>8. QED
  BY <1>1, <1>2, <1>3, <1>4, <1>6, <1>7

LEMMA MarkIndex ==
  ASSUME NEW k \in Int
  PROVE  MarkClose(k) \in Int /\ GridIndex(MarkGrid, MarkClose(k)) = k
<1> DEFINE m == MarkInterval
           a == 2 * (MarkClose(k) - MarkGrid.first) + MarkGrid.cadence
<1>1. m \in Nat \ {0} /\ k * m \in Int /\ k * (2 * m) = 2 * (k * m) /\ MarkClose(k) = k * m + m - 1
  BY ClockFacts DEF MarkClose
<1>2. a = k * (2 * m) + m /\ a \in Int
  <2>1. a = 2 * ((k * m + m - 1) - (m - 1)) + m
    BY <1>1, MarkGridFacts
  <2> HIDE DEF a, m
  <2>2. QED
    BY <1>1, <2>1
<1>3. 2 * m \in Nat \ {0} /\ m \in 0 .. 2 * m - 1
  BY <1>1
<1>4. GridIndex(MarkGrid, MarkClose(k)) = a \div (2 * m)
  BY MarkGridFacts DEF GridIndex
<1> HIDE DEF a, m
<1>5. a \div (2 * m) = k
  BY <1>2, <1>3, DivisionUnique
<1>6. QED
  BY <1>1, <1>4, <1>5

(* The mark that covers the last slot eligible at a bar is the newest one      *)
(* accepted up to it.                                                          *)
LEMMA NewestMark ==
  ASSUME NEW marks, NEW gaps, MarksOnGrid(marks, gaps), gaps = Cardinality(AllowedGaps),
         NEW d \in Int, NEW x \in ToSet(marks), x <= d,
         GridIndex(MarkGrid, x) >= LastEligible(MarkGrid, d + 1)
  PROVE  Latest(marks, d) = x
<1> DEFINE m == MarkInterval
           floor == Smaller(MarkGrid.last, (d - (m - 1)) \div m)
<1>1. m \in Nat \ {0} /\ WindowEnd \in Int
  BY ClockFacts
<1>2. PICK j \in Nat : x = MarkClose(j)
  BY DEF MarksOnGrid
<1>3. /\ LastEligible(MarkGrid, d + 1) \in Int
      /\ \A k \in Int : k <= floor /\ k \notin MarkGrid.gaps => k <= LastEligible(MarkGrid, d + 1)
  <2>1. MarkGrid.first \in Int /\ MarkGrid.last \in Int /\ MarkGrid.cadence \in Nat \ {0} /\ d + 1 \in Int
        /\ IsFiniteSet(MarkGrid.gaps)
    BY <1>1, MarkGridFacts
  <2>2. (d + 1) - 1 - MarkGrid.first = d - (m - 1)
    BY <1>1, MarkGridFacts
  <2>3. floor = Smaller(MarkGrid.last, ((d + 1) - 1 - MarkGrid.first) \div MarkGrid.cadence)
    BY <2>2, MarkGridFacts
  <2> HIDE DEF floor
  <2>4. QED
    BY <2>1, <2>3, LastEligibleIs
<1>4. GridIndex(MarkGrid, x) = j
  BY <1>2, MarkIndex
<1>5. ASSUME NEW y \in ToSet(marks), y <= d PROVE y <= x
  <2>1. PICK k \in Nat : y = MarkClose(k)
    BY <1>5 DEF MarksOnGrid
  <2>2. y < WindowEnd
    BY <1>5 DEF MarksOnGrid
  <2>3. k * m \in Int /\ y = k * m + m - 1
    BY <1>1, <2>1 DEF MarkClose
  <2>4. k * m <= d - (m - 1) /\ k * m <= WindowEnd - m
    BY <1>1, <1>5, <2>2, <2>3
  <2>5. d - (m - 1) \in Int /\ WindowEnd - m \in Int
    BY <1>1
  <2>6. k <= (d - (m - 1)) \div m /\ k <= (WindowEnd - m) \div m
    BY <1>1, <2>4, <2>5, FloorIs
  <2>7. k <= floor
    BY <2>6, MarkGridFacts DEF Smaller
  <2>8. k \notin MarkGrid.gaps
    <3>1. SUFFICES ASSUME NEW g \in AllowedGaps, k = (g[1] + m) \div m PROVE FALSE
      BY MarkGridFacts
    <3>2. PICK i \in Nat : g[1] = i * m /\ MarkClose(i + 1) \notin ToSet(marks)
      BY DEF MarksOnGrid
    <3>3. g[1] + m = (i + 1) * m + 0 /\ g[1] + m \in Int /\ i + 1 \in Int /\ 0 \in 0 .. m - 1
      BY <1>1, <3>2
    <3>4. (g[1] + m) \div m = i + 1
      BY <1>1, <3>3, DivisionUnique
    <3>5. QED
      BY <1>5, <2>1, <3>1, <3>2, <3>4
  <2> HIDE DEF floor
  <2>9. k <= j
    BY <1>3, <1>4, <2>7, <2>8
  <2>10. k * m <= j * m /\ j * m \in Int
    BY <1>1, <2>9, TimesGrow
  <2>11. QED
    BY <1>1, <1>2, <2>3, <2>10 DEF MarkClose
<1>6. marks \in Seq(Int) /\ Ascending(marks)
  BY DEF MarksOnGrid
<1>7. QED
  BY <1>5, <1>6, LatestIs

-----------------------------------------------------------------------------
(* Settlements that keep their slots. *)

LEMMA ToleranceFacts ==
  /\ FundingInterval \in Nat \ {0} /\ FundingTolerance \in Nat /\ BarInterval \in Nat \ {0}
  /\ FundingTolerance < BarInterval /\ 2 * FundingTolerance < FundingInterval
BY ClockFacts, FeatureAssumption

LEMMA FundingGridFacts ==
  /\ FundingGrid.first = 0 /\ FundingGrid.cadence = FundingInterval
  /\ FundingGrid.tolerance = FundingTolerance /\ FundingGrid.gaps = {}
  /\ FundingGrid.last = (WindowEnd - 1) \div FundingInterval /\ FundingGrid.last \in Int
<1>1. FundingInterval \in Nat \ {0} /\ WindowEnd \in Int
  BY ClockFacts
<1>2. WindowEnd - 1 - 0 = WindowEnd - 1 /\ WindowEnd - 1 \in Int
  BY <1>1
<1>3. (WindowEnd - 1) \div FundingInterval \in Int
  BY <1>1, <1>2, DivisionType
<1>4. QED
  BY <1>2, <1>3 DEF FundingGrid, FixedGrid

LEMMA SlotIs ==
  ASSUME NEW x \in Int, NEW k \in Int, x - k * FundingInterval \in -FundingTolerance .. FundingTolerance
  PROVE  Slot(x) = k
<1> DEFINE F == FundingInterval
           y == k * F
           r == 2 * (x - y) + F
<1>1. F \in Nat \ {0} /\ y \in Int /\ 2 * FundingTolerance < F /\ FundingTolerance \in Nat
  BY ToleranceFacts
<1>2. x - y \in -FundingTolerance .. FundingTolerance /\ k * (2 * F) = 2 * y
  BY <1>1
<1>3. Slot(x) = (2 * (x - 0) + F) \div (2 * F)
  BY FundingGridFacts DEF Slot, GridIndex
<1> HIDE DEF F, y
<1>4. r \in 0 .. 2 * F - 1 /\ 2 * (x - 0) + F = 2 * y + r /\ 2 * (x - 0) + F \in Int /\ 2 * F \in Nat \ {0}
  BY <1>1, <1>2
<1> HIDE DEF r
<1>5. (2 * (x - 0) + F) \div (2 * F) = k
  BY <1>2, <1>4, DivisionUnique
<1>6. QED
  BY <1>3, <1>5

(* The time of a slot is a number that is not multiplied out.                  *)
SlotTime(k) == k * FundingInterval

LEMMA SlotTimes ==
  ASSUME NEW j \in Int, NEW k \in Int
  PROVE  /\ SlotTime(j) \in Int
         /\ j < k <=> SlotTime(j) + FundingInterval <= SlotTime(k)
         /\ j <= k <=> SlotTime(j) <= SlotTime(k)
<1>1. FundingInterval \in Nat \ {0}
  BY ToleranceFacts
<1>2. SlotTime(j) \in Int /\ SlotTime(k) \in Int /\ SlotTime(j + 1) = SlotTime(j) + FundingInterval
      /\ SlotTime(k + 1) = SlotTime(k) + FundingInterval
  BY <1>1, TimesNext DEF SlotTime
<1>3. \A a, b \in Int : a <= b => SlotTime(a) <= SlotTime(b)
  BY <1>1, TimesGrow DEF SlotTime
<1>4. j < k => SlotTime(j + 1) <= SlotTime(k)
  BY <1>3
<1>5. k <= j => SlotTime(k) <= SlotTime(j)
  BY <1>3
<1>6. k < j => SlotTime(k + 1) <= SlotTime(j)
  BY <1>3
<1>7. j <= k => SlotTime(j) <= SlotTime(k)
  BY <1>3
<1>8. QED
  BY <1>1, <1>2, <1>4, <1>5, <1>6, <1>7

Slotted(settled) ==
    \A x \in settled :
        /\ x \in Int /\ Slot(x) \in Nat
        /\ x - SlotTime(Slot(x)) \in -FundingTolerance .. FundingTolerance
        /\ \A y \in settled : x < y <=> Slot(x) < Slot(y)

LEMMA SlottedFunding ==
  ASSUME AcceptedData, stage \in ReadStages, InTolerance
  PROVE  Slotted(ToSet(accepted.events.funding))
<1> DEFINE f == accepted.events.funding
<1>1. f \in Seq(Int) /\ DOMAIN f = 1 .. Len(f) /\ Len(f) \in Nat /\ \A i \in DOMAIN f : f[i] \in Int
  <2>1. f \in Seq(Int)
    BY DEF AcceptedData, Kinds
  <2> HIDE DEF f
  <2>2. QED
    BY <2>1
<1>2. FundingTolerance \in Nat /\ FundingInterval \in Nat \ {0} /\ 2 * FundingTolerance < FundingInterval
  BY ToleranceFacts
<1>3. \A i \in DOMAIN f : Magnitude(f[i] - SlotTime(i - 1)) <= FundingTolerance
  BY DEF InTolerance, SlotTime
<1> HIDE DEF f
<1>4. ASSUME NEW i \in DOMAIN f
      PROVE  /\ Slot(f[i]) = i - 1 /\ i - 1 \in Nat /\ SlotTime(i - 1) \in Int
             /\ f[i] - SlotTime(i - 1) \in -FundingTolerance .. FundingTolerance
  <2>1. i - 1 \in Int /\ f[i] \in Int /\ i - 1 \in Nat
    BY <1>1
  <2>2. SlotTime(i - 1) \in Int
    BY <2>1, SlotTimes
  <2> DEFINE y == SlotTime(i - 1)
  <2>3. Magnitude(f[i] - y) <= FundingTolerance /\ y \in Int
    BY <1>3, <2>2
  <2> HIDE DEF y
  <2>4. f[i] - y \in -FundingTolerance .. FundingTolerance
    BY <1>2, <2>1, <2>3 DEF Magnitude
  <2>5. Slot(f[i]) = i - 1
    BY <2>1, <2>4, SlotIs DEF y, SlotTime
  <2>6. QED
    BY <2>1, <2>2, <2>4, <2>5 DEF y
<1>5. ASSUME NEW i \in DOMAIN f, NEW j \in DOMAIN f PROVE f[i] < f[j] <=> Slot(f[i]) < Slot(f[j])
  <2> DEFINE x == SlotTime(i - 1)
             y == SlotTime(j - 1)
  <2>1. /\ x \in Int /\ y \in Int /\ f[i] \in Int /\ f[j] \in Int
        /\ f[i] - x \in -FundingTolerance .. FundingTolerance
        /\ f[j] - y \in -FundingTolerance .. FundingTolerance
        /\ i - 1 \in Int /\ j - 1 \in Int
    BY <1>1, <1>4
  <2>2. i - 1 < j - 1 <=> x + FundingInterval <= y
    BY <2>1, SlotTimes
  <2>3. j - 1 < i - 1 <=> y + FundingInterval <= x
    BY <2>1, SlotTimes
  <2>4. Slot(f[i]) = i - 1 /\ Slot(f[j]) = j - 1
    BY <1>4
  <2> HIDE DEF x, y
  <2>5. CASE i - 1 < j - 1
    <3>1. x + FundingInterval <= y
      BY <2>2, <2>5
    <3>2. f[i] < f[j]
      BY <1>2, <2>1, <3>1
    <3>3. QED
      BY <2>4, <2>5, <3>2
  <2>6. CASE j - 1 < i - 1
    <3>1. y + FundingInterval <= x
      BY <2>3, <2>6
    <3>2. ~ (f[i] < f[j])
      BY <1>2, <2>1, <3>1
    <3>3. QED
      BY <2>1, <2>4, <2>6, <3>2
  <2>7. CASE i - 1 = j - 1
    <3>1. i = j
      BY <1>1, <2>7
    <3>2. QED
      BY <2>1, <2>4, <3>1
  <2>8. QED
    BY <2>1, <2>5, <2>6, <2>7
<1>6. SUFFICES ASSUME NEW i \in DOMAIN f
               PROVE  /\ f[i] \in Int /\ Slot(f[i]) \in Nat
                      /\ f[i] - SlotTime(Slot(f[i])) \in -FundingTolerance .. FundingTolerance
                      /\ \A j \in DOMAIN f : f[i] < f[j] <=> Slot(f[i]) < Slot(f[j])
  <2>1. ToSet(f) = {f[i] : i \in DOMAIN f}
    BY DEF ToSet
  <2>2. QED
    BY <1>6, <2>1 DEF Slotted, f
<1>7. QED
  BY <1>1, <1>4, <1>5

-----------------------------------------------------------------------------
(* A state that was fed accepted events and refused none has all of them from  *)
(* its first settlement to its last, but for those it may forget.              *)

TracedFunding(s, settled) ==
    \A t \in settled :
        s.funding # <<>> /\ s.firstFunding <= t /\ t <= s.lastFunding =>
            t \in ToSet(s.funding) \/ (s.bars # <<>> /\ t <= Last(s.bars) - FundingWindow)

Traced(s, settled, marks) ==
    /\ ToSet(s.funding) \subseteq settled
    /\ s.mark \in marks \cup {None}
    /\ s.funding = <<>> => s.lastFunding = None /\ s.firstFunding = None
    /\ s.funding # <<>> => s.firstFunding \in settled \cap Nat
    /\ s.ok => BarsInOrder(s.bars) /\ TracedFunding(s, settled)

LEMMA AppendElements ==
  ASSUME NEW T, NEW seq \in Seq(T), NEW t \in T
  PROVE  Append(seq, t) # <<>> /\ ToSet(Append(seq, t)) = ToSet(seq) \cup {t}
<1> DEFINE g == Append(seq, t)
           n == Len(seq)
<1>1. DOMAIN g = 1 .. n + 1 /\ DOMAIN seq = 1 .. n /\ n \in Nat
      /\ \A i \in 1 .. n + 1 : g[i] = IF i <= n THEN seq[i] ELSE t
  OBVIOUS
<1>a. g # <<>>
  BY LastAppended
<1> HIDE DEF g, n
<1>2. \A i \in 1 .. n : i \in 1 .. n + 1 /\ g[i] = seq[i]
  BY <1>1
<1>3. n + 1 \in 1 .. n + 1 /\ g[n + 1] = t
  BY <1>1
<1>4. \A i \in 1 .. n + 1 : i \in 1 .. n \/ i = n + 1
  BY <1>1
<1>5. \A x : x \in ToSet(g) <=> x \in ToSet(seq) \/ x = t
  BY <1>1, <1>2, <1>3, <1>4 DEF ToSet
<1>6. QED
  BY <1>5, <1>a DEF g

LEMMA FreshTraced == \A settled, marks : Traced(Fresh, settled, marks)
BY DEF Traced, Fresh, TracedFunding, BarsInOrder, ToSet

LEMMA MarkTraced ==
  ASSUME NEW s, Retains(s), NEW settled, NEW marks, Traced(s, settled, marks), NEW t \in marks
  PROVE  Traced(PushMark(s, t), settled, marks)
<1> DEFINE next == IsNext(FixedGrid("marks"), t, s.lastMark)
           p == PushMark(s, t)
<1>1. /\ p.funding = s.funding /\ p.bars = s.bars /\ p.mark = t
      /\ p.lastFunding = s.lastFunding /\ p.firstFunding = s.firstFunding /\ (p.ok => s.ok)
  <2> HIDE DEF next
  <2>1. QED
    BY FieldNames DEF Retains, PushMark, next
<1> HIDE DEF p
<1>2. TracedFunding(s, settled) => TracedFunding(p, settled)
  BY <1>1 DEF TracedFunding
<1>3. Traced(p, settled, marks)
  BY <1>1, <1>2 DEF Traced
<1>4. QED
  BY <1>3 DEF p

LEMMA FundingTraced ==
  ASSUME NEW s, Retains(s), NEW settled, NEW marks, Slotted(settled), Traced(s, settled, marks),
         NEW t \in settled \cap Nat
  PROVE  Traced(PushFunding(s, t), settled, marks)
<1> DEFINE next == IsNext(FundingGrid, t, s.lastFunding)
           p == PushFunding(s, t)
<1>1. /\ p.funding = Append(s.funding, t) /\ p.bars = s.bars /\ p.mark = s.mark
      /\ p.lastFunding = t /\ p.ok = (s.ok /\ next)
      /\ p.firstFunding = IF s.firstFunding = None THEN t ELSE s.firstFunding
  <2> HIDE DEF next
  <2>1. QED
    BY FieldNames DEF Retains, PushFunding, next, FundingGrid
<1>2. next \in BOOLEAN /\ s.ok \in BOOLEAN /\ s.funding \in Seq(Nat)
  BY DEF Retains, IsNext
<1>3. p.funding # <<>> /\ ToSet(p.funding) = ToSet(s.funding) \cup {t}
  <2>1. t \in Nat
    OBVIOUS
  <2>2. QED
    BY <1>1, <1>2, <2>1, AppendElements
<1> HIDE DEF p
<1>4. p.firstFunding \in settled \cap Nat
  <2>1. CASE s.funding = <<>>
    BY <1>1, <2>1 DEF Traced
  <2>2. CASE s.funding # <<>>
    BY <1>1, <2>2 DEF Traced
  <2>3. QED
    BY <2>1, <2>2
<1>5. ASSUME p.ok PROVE TracedFunding(p, settled)
  <2>1. SUFFICES ASSUME NEW u \in settled, p.firstFunding <= u, u <= t
                 PROVE  u \in ToSet(p.funding) \/ (s.bars # <<>> /\ u <= Last(s.bars) - FundingWindow)
    BY <1>1 DEF TracedFunding
  <2>2. s.ok /\ next
    BY <1>1, <1>2, <1>5
  <2>3. u \in Int /\ t \in Int
    BY DEF Slotted
  <2>4. CASE s.funding = <<>>
    <3>1. p.firstFunding = t
      BY <1>1, <2>4 DEF Traced
    <3>2. u = t
      BY <2>1, <2>3, <3>1
    <3>3. QED
      BY <1>3, <3>2
  <2>5. CASE s.funding # <<>>
    <3> DEFINE l == s.lastFunding
    <3>1. s.firstFunding \in Nat /\ p.firstFunding = s.firstFunding
      <4>1. s.firstFunding \in Nat
        BY <2>5 DEF Traced
      <4>2. s.firstFunding # None
        BY <4>1 DEF None
      <4>3. QED
        BY <1>1, <4>1, <4>2
    <3>2. l \in settled /\ l \in Nat
      <4>1. l = Last(s.funding)
        BY <2>5 DEF Retains
      <4>2. l \in Nat /\ l = s.funding[Len(s.funding)] /\ Len(s.funding) \in DOMAIN s.funding
        BY <1>2, <2>5, <4>1, LastIsElement
      <4>3. l \in ToSet(s.funding)
        BY <4>2 DEF ToSet
      <4>4. QED
        BY <4>2, <4>3 DEF Traced
    <3>3. t > l /\ Slot(t) - Slot(l) - 1 = 0
      <4>1. l # None
        BY <3>2 DEF None
      <4>2. /\ t > l
            /\ GridIndex(FundingGrid, t) - GridIndex(FundingGrid, l) - 1 =
                 Cardinality({i \in FundingGrid.gaps : GridIndex(FundingGrid, l) < i /\ i < GridIndex(FundingGrid, t)})
        BY <2>2, <4>1 DEF IsNext
      <4>3. {i \in FundingGrid.gaps : GridIndex(FundingGrid, l) < i /\ i < GridIndex(FundingGrid, t)} = {}
        BY FundingGridFacts
      <4>4. QED
        BY <4>2, <4>3, FS_EmptySet DEF Slot
    <3> HIDE DEF l
    <3>4. CASE u <= l
      <4>1. u \in ToSet(s.funding) \/ (s.bars # <<>> /\ u <= Last(s.bars) - FundingWindow)
        BY <2>1, <2>2, <2>5, <3>1, <3>4 DEF Traced, TracedFunding, l
      <4>2. QED
        BY <1>3, <4>1
    <3>5. CASE u > l
      <4>1. Slot(u) \in Int /\ Slot(l) \in Int /\ Slot(t) \in Int
        BY <3>2 DEF Slotted
      <4>2. Slot(l) < Slot(u)
        BY <2>3, <3>2, <3>5 DEF Slotted
      <4>3. ~ (Slot(u) < Slot(t))
        BY <3>3, <4>1, <4>2
      <4>4. ~ (u < t)
        BY <4>3 DEF Slotted
      <4>5. u = t
        BY <2>1, <2>3, <4>4
      <4>6. QED
        BY <1>3, <4>5
    <3>6. QED
      BY <2>3, <3>2, <3>4, <3>5
  <2>6. QED
    BY <2>4, <2>5
<1>6. Traced(p, settled, marks)
  BY <1>1, <1>2, <1>3, <1>4, <1>5 DEF Traced
<1>7. QED
  BY <1>6 DEF p

Offered(kind, times, settled, marks) ==
    \A t \in ToSet(times) : t \in IF kind = "marks" THEN marks ELSE settled

LEMMA AllTraced ==
  ASSUME NEW s, Retains(s), NEW kind \in {"marks", "funding"}, NEW times, Len(times) \in Nat, DOMAIN times = 1 .. Len(times),
         Later(s, kind, times), NEW settled, NEW marks, Slotted(settled), Traced(s, settled, marks),
         Offered(kind, times, settled, marks)
  PROVE  /\ Retains(PushAll(s, kind, times)) /\ PushAll(s, kind, times).bars = s.bars
         /\ Traced(PushAll(s, kind, times), settled, marks)
<1>a. PICK f : PushSteps(f, s, kind, times)
  BY PushedDef
<1>1. /\ f[0] = s
      /\ \A m \in 1 .. Len(times) : f[m] = Push(kind, f[m-1], times[m])
      /\ PushAll(s, kind, times) = f[Len(times)]
  BY <1>a DEF PushSteps
<1> DEFINE Good(g) == Retains(g) /\ g.bars = s.bars /\ Traced(g, settled, marks)
           T == {n \in Nat : n <= Len(times) => Good(f[n])}
<1>2. 0 \in T
  BY <1>1
<1>3. ASSUME NEW n \in Nat, n \in T PROVE n + 1 \in T
  <2>1. SUFFICES ASSUME n + 1 <= Len(times) PROVE Good(f[n + 1])
    OBVIOUS
  <2>2. Good(f[n]) /\ n + 1 \in 1 .. Len(times) /\ (n + 1) - 1 = n
    BY <1>3, <2>1
  <2> DEFINE g == f[n]
             t == times[n + 1]
  <2>3. f[n + 1] = Push(kind, g, t)
    <3>1. f[n + 1] = Push(kind, f[(n + 1) - 1], times[n + 1])
      BY <1>1, <2>2
    <3>2. QED
      BY <2>2, <3>1
  <2>4. t \in ToSet(times)
    BY <2>2 DEF ToSet
  <2>5. Retains(g) /\ g.bars = s.bars /\ Traced(g, settled, marks)
    BY <2>2
  <2> HIDE DEF g, t
  <2>6. CASE kind = "marks"
    <3>1. f[n + 1] = PushMark(g, t) /\ t \in marks
      BY <2>3, <2>4, <2>6 DEF Push, Offered
    <3>2. QED
      BY <2>5, <3>1, MarkRetains, MarkTraced
  <2>7. CASE kind = "funding"
    <3>1. f[n + 1] = PushFunding(g, t) /\ t \in settled
      BY <2>3, <2>4, <2>7 DEF Push, Offered
    <3>2. t \in Nat /\ (g.bars # <<>> => t > Last(g.bars))
      BY <2>4, <2>5, <2>7 DEF Later
    <3>3. QED
      BY <2>5, <3>1, <3>2, FundingRetains, FundingTraced
  <2>8. QED
    BY <2>6, <2>7
<1> HIDE DEF T
<1>4. Nat \subseteq T
  BY <1>2, <1>3, Induction
<1>5. QED
  BY <1>1, <1>4 DEF T

-----------------------------------------------------------------------------
(* What a bar does to the state: the bars it keeps, the state it shows to the  *)
(* checks, and the checks.                                                     *)

KeptBars(s, d) ==
    IF Len(Append(s.bars, d)) > Lookback + 1 THEN Tail(Append(s.bars, d)) ELSE Append(s.bars, d)
Shown(s, d) == [Pruned(s, d) EXCEPT !.bars = KeptBars(s, d)]
Takes(s, d) ==
    /\ s.bars # <<>> => d - Last(s.bars) = BarInterval
    /\ (d + 1) % BarInterval = 0
    /\ Len(KeptBars(s, d)) = Lookback + 1 => AuxiliaryFresh(Shown(s, d), d) /\ Covered(Shown(s, d), d)

LEMMA PrunedElements ==
  ASSUME NEW s, Retains(s), NEW d \in Int
  PROVE  LET p == Pruned(s, d)
         IN  /\ DOMAIN p = FeatureFields /\ p.funding \in Seq(Nat)
             /\ p.mark = s.mark /\ p.bars = s.bars /\ p.ok = s.ok /\ p.lastMark = s.lastMark
             /\ p.firstMark = s.firstMark
             /\ p.lastFunding = s.lastFunding /\ p.firstFunding = s.firstFunding
             /\ ToSet(p.funding) \subseteq ToSet(s.funding)
             /\ \A t \in ToSet(s.funding) : t \in ToSet(p.funding) \/ t <= d - FundingWindow
             /\ s.funding = <<>> <=> p.funding = <<>>
             /\ s.funding # <<>> => Last(p.funding) = Last(s.funding)
<1> DEFINE f == s.funding
           p == Pruned(s, d)
<1>1. f \in Seq(Nat) /\ Len(f) \in Nat /\ DOMAIN f = 1 .. Len(f) /\ \A i \in 1 .. Len(f) : f[i] \in Nat
  BY DEF Retains
<1>2. DOMAIN p = FeatureFields /\ p.bars = s.bars /\ p.ok = s.ok /\ p.funding \in Seq(Nat)
  BY PrunedRetains
<1>3. CASE Len(f) < 2
  <2>1. p = s
    BY <1>3 DEF Pruned
  <2>2. QED
    BY <1>2, <2>1
<1>4. CASE Len(f) >= 2
  <2> DEFINE front == Front(f)
             S == {t \in ToSet(front) : t > d - FundingWindow}
             K == Kept(front, S)
             last == Last(f)
             g == Append(K, last)
  <2>1. /\ front \in Seq(Nat) /\ DOMAIN front = 1 .. Len(f) - 1
        /\ \A i \in 1 .. Len(f) - 1 : front[i] = f[i]
    <3>1. front = SubSeq(f, 1, Len(f) - 1)
      BY DEF Front
    <3> HIDE DEF f
    <3>2. QED
      BY <1>1, <1>4, <3>1
  <2>2. last = f[Len(f)] /\ last \in Nat /\ f # <<>> /\ Len(f) \in 1 .. Len(f)
    BY <1>1, <1>4 DEF Last
  <2>3. p = [s EXCEPT !.funding = g]
    BY <1>1, <1>4 DEF Pruned, Front
  <2>4. /\ p.mark = s.mark /\ p.lastMark = s.lastMark /\ p.firstMark = s.firstMark /\ p.funding = g
        /\ p.lastFunding = s.lastFunding /\ p.firstFunding = s.firstFunding
    <3> HIDE DEF g
    <3>1. QED
      BY <2>3, FieldNames DEF Retains
  <2> HIDE DEF front, last
  <2>5. K \in Seq(Nat) /\ \A x : x \in ToSet(K) <=> x \in ToSet(front) /\ x \in S
    BY <2>1, KeptElements
  <2> HIDE DEF K
  <2>6. Last(g) = last /\ g # <<>> /\ ToSet(g) = ToSet(K) \cup {last}
    BY <2>2, <2>5, LastAppended, AppendElements
  <2> HIDE DEF g
  <2>7. last \in ToSet(f) /\ ToSet(front) \subseteq ToSet(f) /\ ToSet(f) \subseteq ToSet(front) \cup {last}
    <3>1. \A i \in 1 .. Len(f) - 1 : i \in DOMAIN f /\ f[i] = front[i] /\ i \in DOMAIN front
      BY <1>1, <2>1
    <3>2. Len(f) \in DOMAIN f /\ \A i \in DOMAIN f : i \in 1 .. Len(f) - 1 \/ i = Len(f)
      BY <1>1, <2>2
    <3> HIDE DEF f
    <3>3. QED
      BY <2>1, <2>2, <3>1, <3>2 DEF ToSet
  <2>8. ToSet(g) \subseteq ToSet(f)
    BY <2>5, <2>6, <2>7
  <2>9. \A t \in ToSet(f) : t \in Int
    BY <1>1 DEF ToSet
  <2>10. ASSUME NEW t \in ToSet(f) PROVE t \in ToSet(g) \/ t <= d - FundingWindow
    <3>1. CASE t = last
      BY <2>6, <3>1
    <3>2. CASE t # last
      <4>1. t \in ToSet(front)
        BY <2>7, <3>2
      <4>2. t \in Int /\ FundingWindow \in Nat
        BY <2>9, FeatureFacts
      <4>3. CASE t > d - FundingWindow
        BY <2>5, <2>6, <4>1, <4>3
      <4>4. QED
        BY <4>2, <4>3
    <3>3. QED
      BY <3>1, <3>2
  <2> HIDE DEF p
  <2>11. QED
    BY <1>2, <2>2, <2>4, <2>6, <2>8, <2>10 DEF p, last
<1> HIDE DEF p
<1>5. QED
  BY <1>1, <1>3, <1>4 DEF p

LEMMA ShownFields ==
  ASSUME NEW s, Retains(s), NEW d \in Int
  PROVE  LET t == Shown(s, d)
         IN  /\ t.bars = KeptBars(s, d) /\ t.mark = s.mark /\ t.firstMark = s.firstMark
             /\ t.firstFunding = s.firstFunding /\ t.funding = Pruned(s, d).funding
<1> DEFINE p == Pruned(s, d)
           k == KeptBars(s, d)
<1>1. DOMAIN p = FeatureFields /\ p.mark = s.mark /\ p.firstMark = s.firstMark /\ p.firstFunding = s.firstFunding
  BY PrunedElements
<1>2. Shown(s, d) = [p EXCEPT !.bars = k]
  BY DEF Shown
<1> HIDE DEF p, k
<1>3. QED
  BY <1>1, <1>2, FieldNames DEF p, k

LEMMA BarIs ==
  ASSUME NEW s, Retains(s), NEW d \in Int
  PROVE  LET p == PushBar(s, d)
         IN  /\ p.bars = KeptBars(s, d) /\ p.funding = Pruned(s, d).funding
             /\ p.mark = s.mark /\ p.lastMark = s.lastMark /\ p.firstMark = s.firstMark
             /\ p.lastFunding = s.lastFunding /\ p.firstFunding = s.firstFunding
             /\ p.ok = (s.ok /\ Takes(s, d)) /\ Takes(s, d) \in BOOLEAN
             /\ p.row = IF Len(KeptBars(s, d)) = Lookback + 1 /\ Takes(s, d)
                        THEN <<[ts |-> d, values |-> FeatureValues(Shown(s, d), d)]>> ELSE <<>>
<1> DEFINE p == Pruned(s, d)
           t == Shown(s, d)
           row == IF Len(KeptBars(s, d)) = Lookback + 1 /\ Takes(s, d)
                  THEN <<[ts |-> d, values |-> FeatureValues(Shown(s, d), d)]>> ELSE <<>>
<1>1. /\ DOMAIN p = FeatureFields /\ p.bars = s.bars /\ p.ok = s.ok
      /\ p.mark = s.mark /\ p.lastMark = s.lastMark /\ p.firstMark = s.firstMark
      /\ p.lastFunding = s.lastFunding /\ p.firstFunding = s.firstFunding
  BY PrunedElements
<1>2. PushBar(s, d) = [t EXCEPT !.ok = @ /\ Takes(s, d), !.row = row]
  <2>1. p.bars = s.bars
    BY <1>1
  <2> HIDE DEF p
  <2>2. Pruned(s, d).bars = s.bars
    BY <2>1 DEF p
  <2>3. QED
    BY <2>2 DEF PushBar, Takes, Shown, KeptBars
<1>3. Takes(s, d) \in BOOLEAN
  BY DEF Takes, AuxiliaryFresh, AsOf, Covered, WindowCovered
<1>4. DOMAIN t = FeatureFields /\ t = [p EXCEPT !.bars = KeptBars(s, d)]
  BY <1>1 DEF Shown
<1> HIDE DEF row, p, t
<1>5. QED
  BY <1>1, <1>2, <1>3, <1>4, FieldNames DEF row, p

LEMMA KeptBarsAre ==
  ASSUME NEW s, s.bars \in Seq(Int), Len(s.bars) <= Lookback + 1, BarsInOrder(s.bars), NEW d \in Int,
         s.bars # <<>> => d - Last(s.bars) = BarInterval
  PROVE  /\ KeptBars(s, d) \in Seq(Int) /\ BarsInOrder(KeptBars(s, d))
         /\ KeptBars(s, d) # <<>> /\ Last(KeptBars(s, d)) = d
         /\ Len(KeptBars(s, d)) = Lookback + 1 =>
                ToSet(KeptBars(s, d)) = {d - n * BarInterval : n \in 0 .. Lookback}
<1> DEFINE b == s.bars
           n == Len(b)
           a == Append(b, d)
           B == BarInterval
<1>1. b \in Seq(Int) /\ n \in Nat /\ DOMAIN b = 1 .. n /\ Lookback \in Nat /\ B \in Nat \ {0} /\ n <= Lookback + 1
  BY FeatureFacts, ClockFacts
<1>2. /\ a \in Seq(Int) /\ Len(a) = n + 1 /\ DOMAIN a = 1 .. n + 1 /\ Last(a) = d /\ a # <<>> /\ a[n + 1] = d
      /\ \A i \in 1 .. n : a[i] = b[i]
  <2>1. a \in Seq(Int) /\ Len(a) = n + 1 /\ Last(a) = d /\ a # <<>>
    BY <1>1, LastAppended
  <2> HIDE DEF b
  <2>2. QED
    BY <1>1, <2>1
<1>3. b # <<>> => b[n] = d - B /\ n >= 1
  <2>1. ASSUME b # <<>> PROVE b[n] = d - B /\ n >= 1
    <3>1. d - Last(b) = B /\ Last(b) = b[n] /\ Last(b) \in Int /\ n >= 1
      BY <1>1, <2>1, LastIsElement
    <3> HIDE DEF b
    <3>2. QED
      BY <1>1, <3>1, SMTT(30)
  <2>2. QED
    BY <2>1
<1>4. \A i \in 2 .. n : b[i] - b[i-1] = B
  <2>1. \A i \in 2 .. n : i \in DOMAIN b \ {1}
    BY <1>1
  <2>2. QED
    BY <2>1 DEF BarsInOrder
<1>5. KeptBars(s, d) = IF Len(a) > Lookback + 1 THEN Tail(a) ELSE a
  BY DEF KeptBars
<1> HIDE DEF a, b, n, B
<1>6. \A i \in 2 .. n + 1 : a[i] - a[i-1] = B
  <2>1. SUFFICES ASSUME NEW i \in 2 .. n + 1 PROVE a[i] - a[i-1] = B
    OBVIOUS
  <2>2. CASE i <= n
    <3>1. i \in 1 .. n /\ i - 1 \in 1 .. n /\ i \in 2 .. n
      BY <1>1, <2>1, <2>2
    <3>2. QED
      BY <1>2, <1>4, <3>1
  <2>3. CASE i = n + 1
    <3>1. i - 1 = n /\ n \in 1 .. n
      BY <1>1, <2>1, <2>3
    <3>2. b # <<>>
      BY <1>1, <3>1
    <3>3. a[i] = d /\ a[i-1] = d - B
      BY <1>2, <1>3, <2>3, <3>1, <3>2
    <3>4. QED
      BY <1>1, <3>3
  <2>4. QED
    BY <1>1, <2>1, <2>2, <2>3
<1>7. BarsInOrder(a)
  <2>1. \A i \in DOMAIN a \ {1} : i \in 2 .. n + 1
    BY <1>1, <1>2
  <2>2. QED
    BY <1>6, <2>1 DEF BarsInOrder, B
<1> DEFINE k == KeptBars(s, d)
<1>8. k \in Seq(Int) /\ BarsInOrder(k) /\ k # <<>> /\ Last(k) = d
  <2>1. CASE Len(a) > Lookback + 1
    <3>1. k = Tail(a) /\ Len(a) >= 2
      BY <1>1, <1>2, <1>5, <2>1
    <3>2. Tail(a) \in Seq(Int) /\ Len(Tail(a)) = n /\ DOMAIN Tail(a) = 1 .. n /\ \A i \in 1 .. n : Tail(a)[i] = a[i + 1]
      BY <1>1, <1>2
    <3>3. n >= 1 /\ n \in 1 .. n
      BY <1>1, <1>2, <3>1
    <3>4. Tail(a) # <<>> /\ Last(Tail(a)) = d
      <4>1. Tail(a) # <<>>
        <5> DEFINE z == Tail(a)
        <5>1. Len(z) = n /\ n >= 1
          BY <3>2, <3>3
        <5> HIDE DEF z
        <5>2. z # <<>>
          BY <1>1, <5>1
        <5>3. QED
          BY <5>2 DEF z
      <4>2. Last(Tail(a)) = Tail(a)[Len(Tail(a))]
        BY DEF Last
      <4>3. Tail(a)[n] = a[n + 1]
        BY <3>2, <3>3
      <4>4. QED
        BY <1>2, <3>2, <4>1, <4>2, <4>3
    <3>5. ASSUME NEW i \in DOMAIN Tail(a) \ {1} PROVE Tail(a)[i] - Tail(a)[i-1] = B
      <4>1. i \in 1 .. n /\ i - 1 \in 1 .. n /\ (i - 1) + 1 = i /\ i + 1 \in 2 .. n + 1 /\ (i + 1) - 1 = i
        <5>1. i \in 1 .. n /\ i # 1
          BY <3>2, <3>5
        <5>2. QED
          BY <1>1, <5>1
      <4>2. Tail(a)[i] = a[i + 1] /\ Tail(a)[i-1] = a[(i-1) + 1]
        BY <3>2, <4>1
      <4>3. a[i + 1] - a[(i + 1) - 1] = B
        BY <1>6, <4>1
      <4>4. QED
        BY <4>1, <4>2, <4>3
    <3>6. BarsInOrder(Tail(a))
      BY <3>5 DEF BarsInOrder, B
    <3>7. QED
      BY <3>1, <3>2, <3>4, <3>6
  <2>2. CASE ~ (Len(a) > Lookback + 1)
    BY <1>2, <1>5, <1>7, <2>2
  <2>3. QED
    BY <2>1, <2>2
<1> HIDE DEF k
<1>9. ASSUME Len(k) = Lookback + 1 PROVE ToSet(k) = {d - m * BarInterval : m \in 0 .. Lookback}
  <2> DEFINE L == Lookback
  <2>1. DOMAIN k = 1 .. L + 1 /\ L \in Nat /\ \A i \in 1 .. L + 1 : k[i] \in Int
    BY <1>1, <1>8, <1>9
  <2>2. k[L + 1] = d
    BY <1>8, <1>9, LastIsElement
  <2>3. \A i \in 1 .. L + 1 : k[i] = k[1] + (i - 1) * B
    BY <1>8, <2>1, BarSteps DEF B
  <2>4. ASSUME NEW i \in 1 .. L + 1 PROVE k[i] = d - (L + 1 - i) * B
    <3> DEFINE x == (i - 1) * B
               y == L * B
               z == (L + 1 - i) * B
    <3>1. L + 1 \in 1 .. L + 1 /\ (L + 1) - 1 = L /\ 1 \in 1 .. L + 1 /\ k[1] \in Int /\ k[i] \in Int
      BY <2>1
    <3>2. k[L + 1] = k[1] + ((L + 1) - 1) * B
      BY <2>3, <3>1
    <3>3. d = k[1] + y
      BY <2>2, <3>1, <3>2
    <3>4. k[i] = k[1] + x
      BY <2>3
    <3>5. x \in Int /\ y \in Int /\ z = y - x
      BY <1>1, <2>1
    <3> HIDE DEF x, y, z
    <3>6. k[i] = d - z
      BY <3>1, <3>3, <3>4, <3>5
    <3>7. QED
      BY <3>6 DEF z
  <2>5. \A m \in 0 .. L : L + 1 - m \in 1 .. L + 1 /\ L + 1 - (L + 1 - m) = m
    BY <2>1
  <2>6. \A i \in 1 .. L + 1 : L + 1 - i \in 0 .. L
    BY <2>1
  <2>7. \A m \in 0 .. L : k[L + 1 - m] = d - m * B
    <3>1. ASSUME NEW m \in 0 .. L PROVE k[L + 1 - m] = d - m * B
      <4>1. L + 1 - m \in 1 .. L + 1 /\ L + 1 - (L + 1 - m) = m
        BY <2>5
      <4>2. k[L + 1 - m] = d - (L + 1 - (L + 1 - m)) * B
        BY <2>4, <4>1
      <4>3. QED
        BY <4>1, <4>2
    <3>2. QED
      BY <3>1
  <2>8. ToSet(k) = {k[i] : i \in 1 .. L + 1}
    BY <2>1 DEF ToSet
  <2> HIDE DEF L
  <2>9. ToSet(k) = {d - m * B : m \in 0 .. L}
    <3>1. ASSUME NEW i \in 1 .. L + 1 PROVE k[i] \in {d - m * B : m \in 0 .. L}
      BY <2>4, <2>6
    <3>2. ASSUME NEW m \in 0 .. L PROVE d - m * B \in {k[i] : i \in 1 .. L + 1}
      BY <2>5, <2>7
    <3>3. QED
      BY <2>8, <3>1, <3>2
  <2>10. QED
    BY <2>9 DEF L, B
<1>10. QED
  BY <1>8, <1>9 DEF k

-----------------------------------------------------------------------------
(* A bar keeps the state traced, and the row it shows is exact: computed from  *)
(* the newest mark, the bars of its history, and all the settlements of its    *)
(* window but for those of the last ticks.                                     *)

LEMMA BarTraced ==
  ASSUME NEW s, Retains(s), NEW settled, settled \subseteq Int, NEW marks, Traced(s, settled, marks),
         NEW d \in Int
  PROVE  Traced(PushBar(s, d), settled, marks)
<1> DEFINE p == PushBar(s, d)
           q == Pruned(s, d)
<1>1. /\ p.bars = KeptBars(s, d) /\ p.funding = q.funding /\ p.mark = s.mark
      /\ p.lastFunding = s.lastFunding /\ p.firstFunding = s.firstFunding
      /\ p.ok = (s.ok /\ Takes(s, d)) /\ Takes(s, d) \in BOOLEAN
  BY BarIs
<1>2. /\ ToSet(q.funding) \subseteq ToSet(s.funding)
      /\ \A t \in ToSet(s.funding) : t \in ToSet(q.funding) \/ t <= d - FundingWindow
      /\ s.funding = <<>> <=> q.funding = <<>>
  BY PrunedElements
<1>3. s.bars \in Seq(Int) /\ Len(s.bars) <= Lookback + 1 /\ s.ok \in BOOLEAN
  BY DEF Retains
<1>4. ASSUME p.ok PROVE BarsInOrder(p.bars) /\ TracedFunding(p, settled)
  <2>1. s.ok /\ (s.bars # <<>> => d - Last(s.bars) = BarInterval)
    BY <1>1, <1>3, <1>4 DEF Takes
  <2>2. BarsInOrder(s.bars) /\ TracedFunding(s, settled)
    BY <2>1 DEF Traced
  <2>3. BarsInOrder(p.bars) /\ p.bars # <<>> /\ Last(p.bars) = d
    BY <1>1, <1>3, <2>1, <2>2, KeptBarsAre
  <2>4. ASSUME NEW t \in settled, s.funding # <<>>, s.firstFunding <= t, t <= s.lastFunding
        PROVE  t \in ToSet(q.funding) \/ t <= d - FundingWindow
    <3>1. CASE t \in ToSet(s.funding)
      BY <1>2, <3>1
    <3>2. CASE s.bars # <<>> /\ t <= Last(s.bars) - FundingWindow
      <4>1. Last(s.bars) \in Int /\ d - Last(s.bars) = BarInterval
        BY <1>3, <2>1, <3>2, LastIsElement
      <4>2. t \in Int
        OBVIOUS
      <4> DEFINE b == Last(s.bars)
      <4> HIDE DEF b
      <4>3. b \in Int /\ d - b = BarInterval /\ t <= b - FundingWindow
        BY <3>2, <4>1 DEF b
      <4>5. BarInterval \in Nat /\ FundingWindow \in Nat
        BY ClockFacts, FeatureFacts
      <4>6. b - FundingWindow <= d - FundingWindow
        BY <4>3, <4>5
      <4>7. QED
        BY <4>2, <4>3, <4>5, <4>6
    <3>3. t \in ToSet(s.funding) \/ (s.bars # <<>> /\ t <= Last(s.bars) - FundingWindow)
      BY <2>2, <2>4 DEF TracedFunding
    <3> HIDE DEF q
    <3>4. QED
      BY <3>1, <3>2, <3>3
  <2>5. TracedFunding(p, settled)
    BY <1>1, <1>2, <2>3, <2>4 DEF TracedFunding
  <2>6. QED
    BY <2>3, <2>5
<1> HIDE DEF p, q
<1>5. Traced(p, settled, marks)
  BY <1>1, <1>2, <1>4 DEF Traced
<1>6. QED
  BY <1>5 DEF p

Due(settled, d) == {t \in settled : d - FundingWindow < t /\ t <= d}

Exact(r, events) ==
    LET d == r.ts
        settled == ToSet(events.funding)
    IN  /\ r.values = [bars |-> r.values.bars, mark |-> r.values.mark,
                        funding |-> r.values.funding, sum |-> r.values.sum]
        /\ r.values.mark = Latest(events.marks, d)
        /\ r.values.bars = {d - n * BarInterval : n \in 0 .. Lookback}
        /\ r.values.sum \subseteq Due(settled, d)
        /\ \A t \in Due(settled, d) \ r.values.sum : t > d - FundingTolerance
        /\ r.values.funding \in settled /\ r.values.funding <= d
        /\ \A t \in settled : t <= d - FundingTolerance => t <= r.values.funding

(* A settlement up to the bar is in a slot that is eligible at the bar.        *)
LEMMA SlotEligible ==
  ASSUME NEW t \in Int, NEW k \in Nat, t - SlotTime(k) \in -FundingTolerance .. FundingTolerance,
         NEW d \in Bars, t <= d - FundingTolerance
  PROVE  k <= LastEligible(FundingGrid, d - FundingTolerance + 1)
<1> DEFINE tol == FundingTolerance
           F == FundingInterval
           B == BarInterval
           y == SlotTime(k)
           floor == Smaller(FundingGrid.last, (d - tol) \div F)
<1>1. tol \in Nat /\ F \in Nat \ {0} /\ B \in Nat \ {0} /\ tol < B /\ d \in Nat /\ d < WindowEnd /\ WindowEnd \in Nat
  BY ToleranceFacts, BarFacts, ClockFacts
<1>2. y \in Int /\ y = k * F
  BY SlotTimes DEF SlotTime
<1>3. y <= d
  <2> HIDE DEF y
  <2>1. t - y \in -tol .. tol /\ t <= d - tol
    BY DEF y
  <2> HIDE DEF tol
  <2>2. QED
    BY <1>1, <1>2, <2>1
<1>4. PICK j \in 1 .. BarCount : d = j * B - 1
  BY DEF Bars
<1>5. PICK q \in Int : F = q * B
  <2>1. F % B = 0
    BY ClockAssumption
  <2>2. F = (F \div B) * B + (F % B) /\ F \div B \in Int
    BY <1>1, Division, DivisionType
  <2> HIDE DEF F, B
  <2>3. (F \div B) * B \in Int
    BY <1>1, <2>2
  <2>4. F = (F \div B) * B
    BY <1>1, <2>1, <2>2, <2>3
  <2>5. QED
    BY <2>2, <2>4
<1>6. y <= d - tol
  <2> DEFINE u == k * q
  <2>1. u \in Int /\ y = u * B /\ j \in Int
    <3>1. k \in Int /\ q \in Int /\ B \in Int /\ BarCount \in Int
      BY <1>1, BarCountFacts
    <3>2. k * (q * B) = (k * q) * B /\ k * q \in Int
      BY <3>1
    <3>3. QED
      BY <1>2, <1>5, <3>1, <3>2
  <2> HIDE DEF u, y, B, F
  <2>2. u * B \in Int /\ j * B \in Int /\ (j - 1) * B = j * B - B
    BY <1>1, <2>1, TimesNext
  <2>3. u * B < j * B
    BY <1>1, <1>3, <1>4, <2>1, <2>2
  <2>4. u < j
    BY <1>1, <2>1, <2>3, TimesLess
  <2>5. u * B <= (j - 1) * B
    BY <1>1, <2>1, <2>4, TimesGrow
  <2> DEFINE v == u * B
             w == j * B
  <2>6. v <= w - B /\ d = w - 1 /\ y = v /\ v \in Int /\ w \in Int
    BY <1>4, <2>1, <2>2, <2>5
  <2> HIDE DEF v, w, tol
  <2>7. QED
    BY <1>1, <2>6
<1>7. d - tol \in Int /\ WindowEnd - 1 \in Int /\ k \in Int
  BY <1>1
<1>8. k <= (d - tol) \div F
  <2> HIDE DEF tol, F
  <2>1. k * F <= d - tol
    BY <1>2, <1>6
  <2>2. QED
    BY <1>1, <1>7, <2>1, FloorIs
<1>9. k <= (WindowEnd - 1) \div F
  <2> HIDE DEF F
  <2>1. k * F <= WindowEnd - 1
    <3> HIDE DEF y
    <3>1. y <= WindowEnd - 1
      BY <1>1, <1>2, <1>3
    <3>2. QED
      BY <1>2, <3>1
  <2>2. QED
    BY <1>1, <1>7, <2>1, FloorIs
<1>10. LastEligible(FundingGrid, d - tol + 1) = floor
  <2>1. (d - tol + 1) - 1 - FundingGrid.first = d - tol
    BY <1>1, FundingGridFacts
  <2>2. floor \in Int
    <3>1. (d - tol) \div F \in Int
      BY <1>1, <1>7, DivisionType
    <3>2. QED
      BY <3>1, FundingGridFacts DEF Smaller
  <2>3. floor = Smaller(FundingGrid.last, ((d - tol + 1) - 1 - FundingGrid.first) \div FundingGrid.cadence)
    BY <2>1, FundingGridFacts
  <2> HIDE DEF floor, tol
  <2>4. Max(((floor - Cardinality({})) .. floor) \ {}) = floor
    BY <2>2, OnlyOne
  <2>5. QED
    BY <2>3, <2>4, FundingGridFacts DEF LastEligible
<1>11. QED
  BY <1>8, <1>9, <1>10, FundingGridFacts DEF Smaller

(* A settlement of the window is not in a slot before the first eligible one.  *)
LEMMA SlotDue ==
  ASSUME NEW t \in Int, NEW k \in Nat, t - SlotTime(k) \in -FundingTolerance .. FundingTolerance,
         NEW d \in Int, d - FundingWindow < t
  PROVE  FirstEligible(FundingGrid, d - FundingWindow - FundingTolerance + 1) <= k
<1> DEFINE tol == FundingTolerance
           F == FundingInterval
           y == SlotTime(k)
           from == d - FundingWindow - FundingTolerance + 1
           ceiling == Larger(0, -((-from) \div F))
<1>1. tol \in Nat /\ F \in Nat \ {0} /\ FundingWindow \in Nat /\ from \in Int /\ -from \in Int /\ k \in Int
  BY ToleranceFacts, FeatureFacts
<1>2. y \in Int /\ y = k * F
  BY SlotTimes DEF SlotTime
<1>3. from <= y
  <2> HIDE DEF y
  <2>1. t - y \in -tol .. tol
    BY DEF y
  <2>2. QED
    BY <1>1, <1>2, <2>1
<1> HIDE DEF from
<1>4. -((-from) \div F) <= k
  <2> HIDE DEF F, tol
  <2>1. from <= k * F
    BY <1>2, <1>3
  <2>2. QED
    BY <1>1, <2>1, CeilingIs
<1>5. (-from) \div F \in Int
  BY <1>1, DivisionType
<1>6. ceiling <= k /\ ceiling \in Int
  BY <1>4, <1>5 DEF Larger
<1>7. FirstEligible(FundingGrid, from) = ceiling
  <2>1. from - FundingGrid.first = from
    BY <1>1, FundingGridFacts
  <2>2. ceiling = Larger(0, -((-(from - FundingGrid.first)) \div FundingGrid.cadence))
    BY <2>1, FundingGridFacts
  <2> HIDE DEF ceiling
  <2>3. Min((ceiling .. (ceiling + Cardinality({}))) \ {}) = ceiling
    BY <1>6, OnlyOne
  <2>4. QED
    BY <2>2, <2>3, FundingGridFacts DEF FirstEligible
<1>8. QED
  BY <1>6, <1>7 DEF from

LEMMA BarExact ==
  ASSUME NEW s, Retains(s), NEW events, MarksOnGrid(events.marks, Cardinality(AllowedGaps)),
         Slotted(ToSet(events.funding)), Traced(s, ToSet(events.funding), ToSet(events.marks)),
         NEW d \in Bars, PushBar(s, d).ok, NEW r, PushBar(s, d).row = <<r>>
  PROVE  r.ts = d /\ Exact(r, events)
<1> DEFINE settled == ToSet(events.funding)
           q == Pruned(s, d)
           t == Shown(s, d)
           k == KeptBars(s, d)
           v == FeatureValues(t, d)
           tol == FundingTolerance
           W == FundingWindow
<1>1. d \in Int /\ d \in Nat
  BY BarFacts
<1>2. /\ s.ok /\ Takes(s, d) /\ Len(k) = Lookback + 1 /\ r = [ts |-> d, values |-> v]
  <2>1. PushBar(s, d).row = IF Len(k) = Lookback + 1 /\ Takes(s, d) THEN <<[ts |-> d, values |-> v]>> ELSE <<>>
    BY <1>1, BarIs
  <2>2. PushBar(s, d).ok = (s.ok /\ Takes(s, d)) /\ s.ok \in BOOLEAN /\ Takes(s, d) \in BOOLEAN
    BY <1>1, BarIs DEF Retains
  <2> DEFINE w == [ts |-> d, values |-> v]
  <2> HIDE DEF k, v
  <2>3. PushBar(s, d).row # <<>>
    OBVIOUS
  <2>4. s.ok /\ Takes(s, d) /\ Len(k) = Lookback + 1 /\ <<r>> = <<w>>
    BY <2>1, <2>2, <2>3
  <2> HIDE DEF w
  <2>5. r = w
    BY <2>4
  <2>6. QED
    BY <2>4, <2>5 DEF w
<1>3. /\ t.bars = k /\ t.mark = s.mark /\ t.firstMark = s.firstMark
      /\ t.firstFunding = s.firstFunding /\ t.funding = q.funding
  BY <1>1, ShownFields
<1>4. /\ q.funding \in Seq(Nat) /\ ToSet(q.funding) \subseteq ToSet(s.funding)
      /\ \A u \in ToSet(s.funding) : u \in ToSet(q.funding) \/ u <= d - W
      /\ s.funding = <<>> <=> q.funding = <<>>
      /\ s.funding # <<>> => Last(q.funding) = Last(s.funding)
  BY <1>1, PrunedElements
<1>5. /\ s.bars # <<>> => d - Last(s.bars) = BarInterval
      /\ AuxiliaryFresh(t, d) /\ Covered(t, d)
  BY <1>2 DEF Takes
<1> HIDE DEF q, t, k
<1>6. v.mark = s.mark /\ v.bars = ToSet(k) /\ v.funding = Last(q.funding)
      /\ v.sum = {u \in ToSet(q.funding) : d - W < u /\ u <= d}
  BY <1>3 DEF FeatureValues
<1>6a. v = [bars |-> v.bars, mark |-> v.mark, funding |-> v.funding, sum |-> v.sum]
  BY DEF FeatureValues
<1> HIDE DEF v
<1>7. r.ts = d /\ r.values = v
  BY <1>2
<1>8. s.mark # None /\ s.mark <= d
  BY <1>3, <1>5 DEF AuxiliaryFresh, AsOf
<1>9. q.funding # <<>> /\ Last(q.funding) <= d /\ s.funding # <<>>
  BY <1>3, <1>4, <1>5 DEF AuxiliaryFresh, AsOf, NewestFunding
<1>10. v.mark = Latest(events.marks, d)
  <2>1. s.mark \in ToSet(events.marks)
    BY <1>8 DEF Traced
  <2>2. GridIndex(MarkGrid, s.mark) >= LastEligible(MarkGrid, d + 1)
    BY <1>3, <1>5 DEF Covered, WindowCovered, MarkGrid
  <2>3. QED
    BY <1>1, <1>6, <1>8, <2>1, <2>2, NewestMark
<1>11. v.bars = {d - n * BarInterval : n \in 0 .. Lookback}
  <2>1. s.bars \in Seq(Int) /\ Len(s.bars) <= Lookback + 1 /\ BarsInOrder(s.bars)
    BY <1>2 DEF Retains, Traced
  <2>2. QED
    BY <1>1, <1>2, <1>5, <1>6, <2>1, KeptBarsAre DEF k
<1>12. /\ s.funding \in Seq(Nat) /\ s.lastFunding = Last(s.funding) /\ Last(q.funding) \in ToSet(s.funding)
       /\ Last(q.funding) = s.lastFunding /\ ToSet(s.funding) \subseteq settled
       /\ s.firstFunding \in settled /\ TracedFunding(s, settled)
  <2>1. s.funding \in Seq(Nat) /\ s.lastFunding = Last(s.funding)
    BY <1>9 DEF Retains
  <2>2. Last(s.funding) = s.funding[Len(s.funding)] /\ Len(s.funding) \in DOMAIN s.funding
    BY <1>9, <2>1, LastIsElement
  <2>3. Last(s.funding) \in ToSet(s.funding)
    BY <2>2 DEF ToSet
  <2>4. QED
    BY <1>2, <1>4, <1>9, <2>1, <2>3 DEF Traced
<1>13. /\ Slot(s.firstFunding) <= FirstEligible(FundingGrid, d - W - tol + 1)
       /\ Slot(s.lastFunding) >= LastEligible(FundingGrid, d - tol + 1)
  BY <1>3, <1>5, <1>12 DEF Covered, WindowCovered, FundingGrid, Slot
<1>14. /\ tol \in Nat /\ W \in Nat /\ BarInterval \in Nat \ {0} /\ tol < BarInterval
  BY ToleranceFacts, FeatureFacts
<1>15. /\ FirstEligible(FundingGrid, d - W - tol + 1) \in Int
       /\ LastEligible(FundingGrid, d - tol + 1) \in Int
  <2>1. d - W - tol + 1 \in Int /\ d - tol + 1 \in Int /\ FundingInterval \in Nat \ {0}
    BY <1>1, <1>14, ToleranceFacts
  <2>2. IsFiniteSet(FundingGrid.gaps)
    BY FundingGridFacts, FS_EmptySet
  <2>3. FundingGrid.first \in Int /\ FundingGrid.last \in Int /\ FundingGrid.cadence \in Nat \ {0}
    BY <2>1, FundingGridFacts
  <2> HIDE DEF tol, W
  <2>4. FirstEligible(FundingGrid, d - W - tol + 1) \in Nat
    BY <2>1, <2>2, <2>3, FirstEligibleIs
  <2>5. LastEligible(FundingGrid, d - tol + 1) \in Int
    BY <2>1, <2>2, <2>3, LastEligibleIs
  <2>6. QED
    BY <2>4, <2>5
<1>16. s.lastFunding \in settled /\ \A u \in settled : u \in Int
  BY <1>12 DEF Slotted
<1>17. ASSUME NEW u \in settled, u <= d - tol PROVE u <= s.lastFunding
  <2>1. u \in Int /\ Slot(u) \in Nat /\ u - SlotTime(Slot(u)) \in -FundingTolerance .. FundingTolerance
    BY DEF Slotted
  <2>2. Slot(u) <= LastEligible(FundingGrid, d - tol + 1)
    BY <1>17, <2>1, SlotEligible
  <2>3. Slot(s.lastFunding) \in Int /\ Slot(u) \in Int /\ s.lastFunding \in Int
    BY <1>16 DEF Slotted
  <2>4. ~ (Slot(s.lastFunding) < Slot(u))
    BY <1>13, <1>15, <2>2, <2>3
  <2>5. ~ (s.lastFunding < u)
    BY <1>16, <2>4 DEF Slotted
  <2>6. QED
    BY <2>1, <2>3, <2>5
<1>18. ASSUME NEW u \in settled, d - W < u PROVE s.firstFunding <= u
  <2>1. u \in Int /\ Slot(u) \in Nat /\ u - SlotTime(Slot(u)) \in -FundingTolerance .. FundingTolerance
    BY DEF Slotted
  <2>2. FirstEligible(FundingGrid, d - W - tol + 1) <= Slot(u)
    BY <1>1, <1>18, <2>1, SlotDue
  <2>3. Slot(s.firstFunding) \in Int /\ Slot(u) \in Int /\ s.firstFunding \in Int
    BY <1>12 DEF Slotted
  <2>4. ~ (Slot(u) < Slot(s.firstFunding))
    BY <1>13, <1>15, <2>2, <2>3
  <2>5. ~ (u < s.firstFunding)
    BY <1>12, <2>4 DEF Slotted
  <2>6. QED
    BY <2>1, <2>3, <2>5
<1>19. v.sum \subseteq Due(settled, d)
  BY <1>4, <1>6, <1>12 DEF Due
<1>20. ASSUME NEW u \in Due(settled, d) \ v.sum PROVE u > d - tol
  <2>1. u \in settled /\ d - W < u /\ u <= d /\ u \in Int
    BY <1>16 DEF Due
  <2>2. u \notin ToSet(q.funding)
    BY <1>6, <2>1
  <2>3. SUFFICES ASSUME u <= d - tol PROVE FALSE
    <3> HIDE DEF tol
    <3>1. QED
      BY <1>1, <1>14, <2>1, <2>3
  <2>4. s.firstFunding <= u /\ u <= s.lastFunding
    BY <1>17, <1>18, <2>1, <2>3
  <2>5. u \in ToSet(s.funding) \/ (s.bars # <<>> /\ u <= Last(s.bars) - W)
    BY <1>9, <1>12, <2>1, <2>4 DEF TracedFunding
  <2>6. u \notin ToSet(s.funding)
    <3>1. ~ (u <= d - W)
      BY <1>1, <1>14, <2>1
    <3>2. QED
      BY <1>4, <2>2, <3>1
  <2>7. s.bars # <<>> /\ u <= Last(s.bars) - W
    BY <2>5, <2>6
  <2>8. Last(s.bars) \in Int /\ d - Last(s.bars) = BarInterval
    <3>1. s.bars \in Seq(Int)
      BY DEF Retains
    <3>2. QED
      BY <1>5, <2>7, <3>1, LastIsElement
  <2> DEFINE b == Last(s.bars)
  <2>9. b \in Int /\ d - b = BarInterval /\ u <= b - W
    BY <2>7, <2>8
  <2> HIDE DEF b, W
  <2>10. QED
    BY <1>1, <1>14, <2>1, <2>9
<1>21. v.funding \in settled /\ v.funding <= d /\ v.funding = s.lastFunding
  BY <1>6, <1>9, <1>12
<1>22. \A u \in settled : u <= d - tol => u <= v.funding
  BY <1>17, <1>21
<1>23. QED
  BY <1>6a, <1>7, <1>10, <1>11, <1>19, <1>20, <1>21, <1>22 DEF Exact

LEMMA LaterTimes ==
  ASSUME NEW times \in Seq(Int), NEW S
  PROVE  LET k == Kept(times, S)
         IN k \in Seq(Int) /\ Len(k) \in Nat /\ DOMAIN k = 1 .. Len(k) /\ ToSet(k) \subseteq ToSet(times)
<1> DEFINE k == Kept(times, S)
<1>1. k \in Seq(Int) /\ \A x : x \in ToSet(k) <=> x \in ToSet(times) /\ x \in S
  BY KeptElements
<1> HIDE DEF k
<1>2. QED
  BY <1>1 DEF k

(* One bar of the batch with the events before it.                             *)
LEMMA FedTraced ==
  ASSUME NEW s, Retains(s), NEW events \in [Kinds -> Seq(Int)], NEW d \in Int,
         Later(s, "funding", events.funding), NEW settled, NEW marks, Slotted(settled), Traced(s, settled, marks),
         ToSet(events.marks) \subseteq marks, ToSet(events.funding) \subseteq settled
  PROVE  \E g : /\ Retains(g) /\ Traced(g, settled, marks) /\ g.bars = s.bars
                /\ FeedBar(s, events, d) = PushBar(g, d)
<1> DEFINE M == UpTo(events.marks, d)
           U == UpTo(events.funding, d)
           m == PushAll(s, "marks", M)
           g == PushAll(m, "funding", U)
<1>1. events.marks \in Seq(Int) /\ events.funding \in Seq(Int)
  BY DEF Kinds
<1>2. /\ Len(M) \in Nat /\ DOMAIN M = 1 .. Len(M) /\ ToSet(M) \subseteq ToSet(events.marks)
      /\ Len(U) \in Nat /\ DOMAIN U = 1 .. Len(U) /\ ToSet(U) \subseteq ToSet(events.funding)
  BY <1>1, LaterTimes DEF UpTo
<1>3. FeedBar(s, events, d) = PushBar(g, d)
  BY DEF FeedBar
<1> HIDE DEF M, U
<1>4. Later(s, "marks", M) /\ Offered("marks", M, settled, marks)
  BY <1>2 DEF Later, Offered
<1>5. Retains(m) /\ m.bars = s.bars /\ Traced(m, settled, marks)
  BY <1>2, <1>4, AllTraced
<1> HIDE DEF m
<1>6. Later(m, "funding", U) /\ Offered("funding", U, settled, marks)
  BY <1>2, <1>5 DEF Later, Offered
<1>7. Retains(g) /\ g.bars = m.bars /\ Traced(g, settled, marks)
  BY <1>2, <1>5, <1>6, AllTraced
<1> HIDE DEF g
<1>8. QED
  BY <1>3, <1>5, <1>7

-----------------------------------------------------------------------------
(* The rows and decisions of settlements that keep their slots are exact. *)

TracedState ==
    InTolerance /\ stage \in {"batch", "engine"} =>
        Traced(features, ToSet(accepted.events.funding), ToSet(accepted.events.marks))
ExactRows ==
    InTolerance => \A r \in ToSet(rows) \cup ToSet(decisions) : Exact(r, accepted.events)

RowInv == RetainInv /\ AcceptedData /\ Held /\ TracedState /\ ExactRows

LEMMA AddedElements ==
  ASSUME NEW list, list \in Seq(ToSet(list)), NEW t, t = <<>> \/ \E r : t = <<r>>, NEW x \in ToSet(list \o t)
  PROVE  x \in ToSet(list) \/ t = <<x>>
<1>1. CASE t = <<>>
  <2>1. list \o t = list
    BY <1>1
  <2>2. QED
    BY <2>1
<1>2. ASSUME NEW r, t = <<r>> PROVE x \in ToSet(list) \/ t = <<x>>
  <2> DEFINE T == ToSet(list) \cup {r}
  <2>1. ToSet(list) \subseteq T /\ r \in T
    OBVIOUS
  <2>2. list \in Seq(T)
    BY <2>1, SeqMonotonic
  <2> HIDE DEF T
  <2>3. t \in Seq(T) /\ DOMAIN t = {1} /\ t[1] = r
    BY <1>2, <2>1
  <2>4. ToSet(t) = {r}
    BY <2>3 DEF ToSet
  <2>5. x \in ToSet(list) \/ x \in ToSet(t)
    BY <2>2, <2>3, ConcatElements
  <2>6. QED
    BY <1>2, <2>4, <2>5
<1>3. QED
  BY <1>1, <1>2

LEMMA TracedNext == RowInv /\ [Next]_vars => TracedState' /\ ExactRows'
<1>1. SUFFICES ASSUME RowInv, [Next]_vars PROVE TracedState' /\ ExactRows'
  OBVIOUS
<1> DEFINE E == accepted.events
           F == ToSet(E.funding)
           M == ToSet(E.marks)
<1>2. /\ RetainInv /\ AcceptedData /\ Held /\ TracedState /\ ExactRows
      /\ Typed /\ Drawn /\ Retains(features) /\ Coming /\ DOMAIN input = Kinds
  BY <1>1 DEF RowInv, RetainInv, Typed, Shaped
<1>3. /\ TracedState' = (InTolerance' /\ stage' \in {"batch", "engine"} =>
            Traced(features', ToSet(accepted'.events.funding), ToSet(accepted'.events.marks)))
      /\ ExactRows' = (InTolerance' => \A r \in ToSet(rows') \cup ToSet(decisions') : Exact(r, accepted'.events))
  BY DEF TracedState, ExactRows, Traced, TracedFunding, Exact, ToSet, BarsInOrder, Due
<1>4. ASSUME accepted' = accepted,
             InTolerance => /\ stage' \in {"batch", "engine"} => Traced(features', F, M)
                            /\ \A r \in ToSet(rows') \cup ToSet(decisions') : Exact(r, E)
      PROVE  TracedState' /\ ExactRows'
  <2>1. InTolerance' = InTolerance
    BY <1>4 DEF InTolerance
  <2>2. InTolerance' /\ stage' \in {"batch", "engine"} =>
            Traced(features', ToSet(accepted'.events.funding), ToSet(accepted'.events.marks))
    BY <1>4, <2>1
  <2>3. InTolerance' => \A r \in ToSet(rows') \cup ToSet(decisions') : Exact(r, accepted'.events)
    BY <1>4, <2>1
  <2>4. QED
    BY <1>3, <2>2, <2>3
<1>4a. InTolerance => \A r \in ToSet(rows) \cup ToSet(decisions) : Exact(r, E)
  BY <1>2 DEF ExactRows
<1>5. /\ rows \in Seq(ToSet(rows)) /\ decisions \in Seq(ToSet(decisions))
  BY <1>2 DEF Drawn, Rowed
<1>6. CASE Accept
  <2>1. stage = "checked" /\ stage' \in {"accepted", "refused"} /\ UNCHANGED <<rows, decisions>>
    BY <1>6 DEF Accept, Pass, research
  <2>2. rows = <<>> /\ decisions = <<>>
    BY <1>2, <2>1 DEF Drawn
  <2>3. ToSet(rows') \cup ToSet(decisions') = {}
    BY <2>1, <2>2 DEF ToSet
  <2>4. QED
    BY <1>3, <2>1, <2>3
<1>7. CASE SourceFault \/ ProbeIndex \/ LoadBars \/ LoadMarksAndFunding \/ WriteCatalog \/ CrosscheckCatalog
           \/ Bind \/ Parity
  <2>1. /\ UNCHANGED <<accepted, rows, decisions>> /\ stage' \notin {"batch", "engine"}
    BY <1>7 DEF SourceFault, ProbeIndex, LoadBars, LoadMarksAndFunding, WriteCatalog, CrosscheckCatalog,
                Bind, Parity, Pass, research
  <2>2. QED
    BY <1>4, <1>4a, <2>1
<1>8. CASE CatalogFault \/ UNCHANGED vars
  <2>1. UNCHANGED <<accepted, rows, decisions, features, stage>>
    BY <1>8 DEF CatalogFault, vars, research
  <2>2. QED
    <3>1. InTolerance /\ stage' \in {"batch", "engine"} => Traced(features', F, M)
      BY <1>2, <2>1 DEF TracedState
    <3>2. InTolerance => \A r \in ToSet(rows') \cup ToSet(decisions') : Exact(r, E)
      BY <1>4a, <2>1
    <3>3. QED
      BY <1>4, <2>1, <3>1, <3>2
<1>9. CASE FinishBatch
  <2>1. /\ UNCHANGED <<accepted, decisions>> /\ stage' \notin {"batch", "engine"}
        /\ rows' = rows \/ rows' = Purged(rows)
    BY <1>9 DEF FinishBatch, Pass
  <2>2. ToSet(rows') \subseteq ToSet(rows)
    <3>1. \A S : ToSet(Kept(rows, S)) \subseteq ToSet(rows)
      BY <1>5, KeptElements
    <3>2. QED
      BY <2>1, <3>1 DEF Purged
  <2>3. QED
    <3>1. InTolerance => \A r \in ToSet(rows') \cup ToSet(decisions') : Exact(r, E)
      BY <1>4a, <2>1, <2>2
    <3>2. QED
      BY <1>4, <2>1, <3>1
<1>10. CASE BatchRead \/ EngineRead
  <2>1. UNCHANGED <<accepted, rows, decisions>> /\ features' = Fresh
    BY <1>10 DEF BatchRead, EngineRead
  <2>2. QED
    <3>1. Traced(features', F, M)
      BY <2>1, FreshTraced
    <3>2. InTolerance => \A r \in ToSet(rows') \cup ToSet(decisions') : Exact(r, E)
      BY <1>4a, <2>1
    <3>3. QED
      BY <1>4, <2>1, <3>1, <3>2
<1>11. ASSUME stage \in {"batch", "engine"}, InTolerance
       PROVE  /\ MarksOnGrid(E.marks, Cardinality(AllowedGaps)) /\ Slotted(F) /\ F \subseteq Int
              /\ Traced(features, F, M) /\ ToSet(E.bars) = Bars
              /\ input \in [Kinds -> Seq(Int)]
              /\ ToSet(input.bars) \subseteq Bars /\ ToSet(input.marks) \subseteq M
              /\ ToSet(input.funding) \subseteq F
  <2>1. stage \in ReadStages
    BY <1>11 DEF ReadStages
  <2>2. MarksOnGrid(E.marks, accepted.coverage.marks.gaps) /\ E.bars = GridBars
    BY <1>2, <2>1 DEF AcceptedData
  <2>3. Slotted(F)
    BY <1>2, <1>11, <2>1, SlottedFunding
  <2>4. accepted.coverage.marks.gaps = Cardinality(AllowedGaps)
    BY <1>11 DEF InTolerance
  <2>5. Traced(features, F, M)
    BY <1>2, <1>11 DEF TracedState
  <2>6. ToSet(E.bars) = Bars
    BY <2>2, GridElements
  <2>7. input \in [Kinds -> Seq(Int)] /\ \A k \in Kinds : ToSet(input[k]) \subseteq ToSet(E[k])
    BY <1>2, <1>11 DEF Drawn, Held
  <2>8. F \subseteq Int
    BY <2>3 DEF Slotted
  <2>9. ToSet(input.bars) \subseteq Bars /\ ToSet(input.marks) \subseteq M /\ ToSet(input.funding) \subseteq F
    <3>1. \A k \in Kinds : ToSet(input[k]) \subseteq ToSet(E[k])
      BY <2>7
    <3> HIDE DEF E, F, M
    <3>2. "bars" \in Kinds /\ "marks" \in Kinds /\ "funding" \in Kinds
      BY DEF Kinds
    <3>3. ToSet(input["bars"]) \subseteq ToSet(E["bars"]) /\ ToSet(input["marks"]) \subseteq ToSet(E["marks"])
          /\ ToSet(input["funding"]) \subseteq ToSet(E["funding"])
      BY <3>1, <3>2
    <3>4. QED
      BY <2>6, <3>3 DEF F, M
  <2>10. QED
    BY <2>2, <2>3, <2>4, <2>5, <2>6, <2>7, <2>8, <2>9
<1>12. CASE BatchBar
  <2> DEFINE d == Head(Undecided)
             s == FeedBar(features, input, d)
  <2>1. /\ stage = "batch" /\ Undecided # <<>> /\ features' = s /\ UNCHANGED <<accepted, decisions>>
        /\ rows' = IF s.ok THEN rows \o s.row ELSE rows
    BY <1>12 DEF BatchBar
  <2>2. SUFFICES ASSUME InTolerance PROVE Traced(s, F, M) /\ \A r \in ToSet(rows') : Exact(r, E)
    <3>1. ASSUME InTolerance => Traced(s, F, M) /\ \A r \in ToSet(rows') : Exact(r, E)
          PROVE  TracedState' /\ ExactRows'
      <4>1. InTolerance => Traced(features', F, M)
        BY <2>1, <3>1
      <4>2. InTolerance => \A r \in ToSet(rows') \cup ToSet(decisions') : Exact(r, E)
        BY <1>4a, <2>1, <3>1
      <4>3. QED
        BY <1>4, <2>1, <4>1, <4>2
    <3>2. QED
      BY <3>1
  <2>3. /\ MarksOnGrid(E.marks, Cardinality(AllowedGaps)) /\ Slotted(F) /\ F \subseteq Int /\ Traced(features, F, M)
        /\ input \in [Kinds -> Seq(Int)] /\ ToSet(input.bars) \subseteq Bars
        /\ ToSet(input.marks) \subseteq M /\ ToSet(input.funding) \subseteq F
    BY <1>11, <2>1, <2>2
  <2>4. d \in Bars /\ d \in Int
    <3>1. input.bars \in Seq(Int)
      BY <2>3 DEF Kinds
    <3>2. Undecided \in Seq(Int) /\ ToSet(Undecided) \subseteq ToSet(input.bars)
      BY <3>1, LaterTimes DEF Undecided
    <3>3. d \in ToSet(Undecided)
      BY <2>1, <3>2, EndElements
    <3>4. d \in Bars
      BY <2>3, <3>2, <3>3
    <3> HIDE DEF d
    <3>5. QED
      BY <3>4, BarFacts
  <2>5. Later(features, "funding", input.funding)
    BY <1>2, <2>1 DEF Coming
  <2> HIDE DEF d
  <2>6. PICK g : Retains(g) /\ Traced(g, F, M) /\ s = PushBar(g, d)
    <3> HIDE DEF F, M
    <3>1. \E g : /\ Retains(g) /\ Traced(g, F, M) /\ g.bars = features.bars
                 /\ FeedBar(features, input, d) = PushBar(g, d)
      BY <1>2, <2>3, <2>4, <2>5, FedTraced, ZenonT(60)
    <3>2. QED
      BY <3>1
  <2>7. Traced(s, F, M)
    BY <2>3, <2>4, <2>6, BarTraced
  <2>8. s.row = <<>> \/ \E r : s.row = <<r>>
    <3>1. DOMAIN g = FeatureFields
      BY <2>6 DEF Retains
    <3>2. QED
      BY <2>6, <3>1, BarRow
  <2> HIDE DEF s
  <2>9. ASSUME NEW r \in ToSet(rows') PROVE Exact(r, E)
    <3>1. CASE r \in ToSet(rows)
      BY <1>2, <2>2, <3>1 DEF ExactRows
    <3>2. CASE r \notin ToSet(rows)
      <4>1. s.ok /\ rows' = rows \o s.row
        BY <2>1, <2>9, <3>2
      <4>2. s.row = <<r>>
        BY <1>5, <2>8, <2>9, <3>2, <4>1, AddedElements
      <4>3. Exact(r, E)
        BY <2>3, <2>4, <2>6, <4>1, <4>2, BarExact
      <4>4. QED
        BY <4>3
    <3>3. QED
      BY <3>1, <3>2
  <2>10. QED
    BY <2>7, <2>9
<1>13. CASE OnMarkPrice
  <2> DEFINE t == Head(input.marks)
  <2>1. /\ stage = "engine" /\ input.marks # <<>> /\ features' = PushMark(features, t)
        /\ UNCHANGED <<accepted, rows, decisions>>
    BY <1>2, <1>13 DEF OnMarkPrice, IsNextEvent, Kinds
  <2>2. SUFFICES ASSUME InTolerance PROVE Traced(PushMark(features, t), F, M)
    <3>1. ASSUME InTolerance => Traced(PushMark(features, t), F, M) PROVE TracedState' /\ ExactRows'
      <4>1. InTolerance => Traced(features', F, M)
        BY <2>1, <3>1
      <4>2. InTolerance => \A r \in ToSet(rows') \cup ToSet(decisions') : Exact(r, E)
        BY <1>4a, <2>1
      <4>3. QED
        BY <1>4, <2>1, <4>1, <4>2
    <3>2. QED
      BY <3>1
  <2>3. Traced(features, F, M) /\ input \in [Kinds -> Seq(Int)] /\ ToSet(input.marks) \subseteq M
    BY <1>11, <2>1, <2>2
  <2>4. t \in M
    <3>1. input.marks \in Seq(Int)
      BY <2>3 DEF Kinds
    <3>2. t \in ToSet(input.marks)
      BY <2>1, <3>1, EndElements
    <3>3. QED
      BY <2>3, <3>2
  <2> HIDE DEF t, F, M
  <2>5. QED
    BY <1>2, <2>3, <2>4, MarkTraced
<1>14. CASE OnFundingRate
  <2> DEFINE t == Head(input.funding)
  <2>1. /\ stage = "engine" /\ input.funding # <<>> /\ features' = PushFunding(features, t)
        /\ UNCHANGED <<accepted, rows, decisions>>
    BY <1>2, <1>14 DEF OnFundingRate, IsNextEvent, Kinds
  <2>2. SUFFICES ASSUME InTolerance PROVE Traced(PushFunding(features, t), F, M)
    <3>1. ASSUME InTolerance => Traced(PushFunding(features, t), F, M) PROVE TracedState' /\ ExactRows'
      <4>1. InTolerance => Traced(features', F, M)
        BY <2>1, <3>1
      <4>2. InTolerance => \A r \in ToSet(rows') \cup ToSet(decisions') : Exact(r, E)
        BY <1>4a, <2>1
      <4>3. QED
        BY <1>4, <2>1, <4>1, <4>2
    <3>2. QED
      BY <3>1
  <2>3. Slotted(F) /\ Traced(features, F, M) /\ input \in [Kinds -> Seq(Int)] /\ ToSet(input.funding) \subseteq F
    BY <1>11, <2>1, <2>2
  <2>4. t \in F \cap Nat
    <3>1. input.funding \in Seq(Int)
      BY <2>3 DEF Kinds
    <3>2. t \in ToSet(input.funding)
      BY <2>1, <3>1, EndElements
    <3>3. t \in Nat
      BY <1>2, <2>1, <3>2 DEF Coming, Later
    <3>4. QED
      BY <2>3, <3>2, <3>3
  <2> HIDE DEF t, F, M
  <2>5. QED
    BY <1>2, <2>3, <2>4, FundingTraced
<1>15. CASE OnBar
  <2> DEFINE d == Head(input.bars)
             s == PushBar(features, d)
  <2>1. /\ stage = "engine" /\ input.bars # <<>> /\ features' = s /\ UNCHANGED <<accepted, rows>>
        /\ decisions' = decisions \/ (s.ok /\ decisions' = decisions \o s.row)
    <3>1. stage = "engine" /\ input.bars # <<>> /\ features' = s /\ UNCHANGED <<accepted, rows>>
      BY <1>2, <1>15 DEF OnBar, IsNextEvent, Kinds
    <3>2. decisions' = decisions \/ (s.ok /\ decisions' = decisions \o s.row)
      BY <1>15 DEF OnBar
    <3>3. QED
      BY <3>1, <3>2
  <2>2. SUFFICES ASSUME InTolerance PROVE Traced(s, F, M) /\ \A r \in ToSet(decisions') : Exact(r, E)
    <3>1. ASSUME InTolerance => Traced(s, F, M) /\ \A r \in ToSet(decisions') : Exact(r, E)
          PROVE  TracedState' /\ ExactRows'
      <4>1. InTolerance => Traced(features', F, M)
        BY <2>1, <3>1
      <4>2. InTolerance => \A r \in ToSet(rows') \cup ToSet(decisions') : Exact(r, E)
        BY <1>4a, <2>1, <3>1
      <4>3. QED
        BY <1>4, <2>1, <4>1, <4>2
    <3>2. QED
      BY <3>1
  <2>3. /\ MarksOnGrid(E.marks, Cardinality(AllowedGaps)) /\ Slotted(F) /\ F \subseteq Int /\ Traced(features, F, M)
        /\ input \in [Kinds -> Seq(Int)] /\ ToSet(input.bars) \subseteq Bars
    BY <1>11, <2>1, <2>2
  <2>4. d \in Bars /\ d \in Int
    <3>1. input.bars \in Seq(Int)
      BY <2>3 DEF Kinds
    <3>2. d \in ToSet(input.bars)
      BY <2>1, <3>1, EndElements
    <3>3. d \in Bars
      BY <2>3, <3>2
    <3> HIDE DEF d
    <3>4. QED
      BY <3>3, BarFacts
  <2> HIDE DEF d
  <2>5. Traced(s, F, M)
    BY <1>2, <2>3, <2>4, BarTraced
  <2>6. s.row = <<>> \/ \E r : s.row = <<r>>
    <3>1. DOMAIN features = FeatureFields
      BY <1>2 DEF Retains
    <3>2. QED
      BY <3>1, BarRow
  <2>7. ASSUME NEW r \in ToSet(decisions') PROVE Exact(r, E)
    <3>1. CASE r \in ToSet(decisions)
      BY <1>2, <2>2, <3>1 DEF ExactRows
    <3>2. CASE r \notin ToSet(decisions)
      <4>1. s.ok /\ decisions' = decisions \o s.row
        BY <2>1, <2>7, <3>2
      <4> HIDE DEF s
      <4>2. s.row = <<r>>
        BY <1>5, <2>6, <2>7, <3>2, <4>1, AddedElements
      <4>3. Exact(r, E)
        BY <1>2, <2>3, <2>4, <4>1, <4>2, BarExact DEF s
      <4>4. QED
        BY <4>3
    <3>3. QED
      BY <3>1, <3>2
  <2>8. QED
    BY <2>5, <2>7
<1>16. QED
  BY <1>1, <1>6, <1>7, <1>8, <1>9, <1>10, <1>12, <1>13, <1>14, <1>15 DEF Next

LEMMA RetainInvNext == RetainInv /\ [Next]_vars => RetainInv'
<1>1. SUFFICES ASSUME RetainInv, [Next]_vars PROVE RetainInv'
  OBVIOUS
<1>2. Typed /\ WindowIsLegal
  BY <1>1 DEF RetainInv
<1>3. Typed'
  BY <1>1, <1>2, TypedNext
<1>4. WindowIsLegal'
  BY <1>1, <1>2, WindowNext
<1>5. Retains(features)' /\ Coming'
  BY <1>1, RetainNext
<1>6. QED
  BY <1>3, <1>4, <1>5 DEF RetainInv

LEMMA RowInvNext == RowInv /\ [Next]_vars => RowInv'
<1>1. SUFFICES ASSUME RowInv, [Next]_vars PROVE RowInv'
  OBVIOUS
<1>2. RetainInv /\ AcceptedData /\ Held /\ Typed /\ Sound
  BY <1>1 DEF RowInv, RetainInv, Typed
<1>3. RetainInv' /\ AcceptedData' /\ Held'
  BY <1>1, <1>2, RetainInvNext, AcceptedDataNext, HeldNext
<1>4. TracedState' /\ ExactRows'
  BY <1>1, TracedNext
<1>5. QED
  BY <1>3, <1>4 DEF RowInv

LEMMA RowInvInit == Init => RowInv
<1>1. SUFFICES ASSUME Init PROVE RowInv
  OBVIOUS
<1>2. RetainInv
  BY <1>1, RetainInit
<1>3. AcceptedData /\ Held /\ TracedState
  BY <1>1 DEF Init, AcceptedData, ReadStages, Held, TracedState
<1>4. ExactRows
  BY <1>1 DEF Init, ExactRows, ToSet
<1>5. QED
  BY <1>2, <1>3, <1>4 DEF RowInv

LEMMA ExactIsGapless == ExactRows => (InTolerance => NoSilentGap)
<1>1. SUFFICES ASSUME ExactRows, InTolerance PROVE NoSilentGap
  OBVIOUS
<1>2. \A r \in ToSet(rows) \cup ToSet(decisions) : Exact(r, accepted.events)
  BY <1>1 DEF ExactRows
<1>3. QED
  BY <1>2 DEF NoSilentGap, Exact, Due

(* A row of features, of the batch or of the engine, has the newest accepted   *)
(* mark, its own bars and every settlement of its window but one of the last    *)
(* few ticks, for settlements that keep their slots: one that shares a slot     *)
(* with another would not be missed (IncrementalFeatureState).                  *)
THEOREM NoSilentGapHolds == Spec => [](InTolerance => NoSilentGap)
<1>1. Init => RowInv
  BY RowInvInit
<1>2. RowInv /\ [Next]_vars => RowInv'
  BY RowInvNext
<1>3. RowInv => (InTolerance => NoSilentGap)
  BY ExactIsGapless DEF RowInv
<1>4. QED
  BY <1>1, <1>2, <1>3, PTL DEF Spec

-----------------------------------------------------------------------------
(* Ascending series: as many elements as places, and the set tells the series. *)

LEMMA AscendingPair ==
  ASSUME NEW s \in Seq(Int), Ascending(s), NEW i \in 1 .. Len(s), NEW j \in 1 .. Len(s), i < j
  PROVE  s[i] < s[j]
<1>1. i \in 1 .. j - 1 /\ j \in DOMAIN s
  OBVIOUS
<1>2. <<s[i], s[j]>> \in {p \in Int \X Int : p[1] < p[2]}
  BY <1>1 DEF Ascending, Pairwise
<1>3. QED
  BY <1>2

LEMMA AscendingCount ==
  ASSUME NEW s \in Seq(Int), Ascending(s)
  PROVE  IsFiniteSet(ToSet(s)) /\ Cardinality(ToSet(s)) = Len(s) /\ Len(s) \in Nat
<1> DEFINE f == [i \in 1 .. Len(s) |-> s[i]]
<1>1. DOMAIN s = 1 .. Len(s) /\ Len(s) \in Nat
  OBVIOUS
<1>2. IsFiniteSet(ToSet(s)) /\ Cardinality(ToSet(s)) \in Nat /\ Cardinality(ToSet(s)) <= Len(s)
  BY ElementCount
<1>3. f \in Injection(1 .. Len(s), ToSet(s))
  <2>1. \A i \in 1 .. Len(s) : f[i] \in ToSet(s)
    BY <1>1 DEF ToSet
  <2>2. ASSUME NEW i \in 1 .. Len(s), NEW j \in 1 .. Len(s), f[i] = f[j] PROVE i = j
    <3>1. s[i] = s[j] /\ s[i] \in Int
      BY <1>1, <2>2
    <3>2. ~ (i < j) /\ ~ (j < i)
      <4>1. i < j => s[i] < s[j]
        BY AscendingPair
      <4>2. j < i => s[j] < s[i]
        BY AscendingPair
      <4>3. QED
        BY <3>1, <4>1, <4>2
    <3>3. QED
      BY <1>1, <3>2
  <2>3. QED
    BY <2>1, <2>2 DEF Injection, IsInjective
<1>4. Cardinality(1 .. Len(s)) = Len(s)
  BY <1>1, FS_Interval, SMTT(30)
<1>5. Len(s) <= Cardinality(ToSet(s))
  BY <1>2, <1>3, <1>4, FS_Injection
<1>6. QED
  BY <1>1, <1>2, <1>5

LEMMA AscendingUnique ==
  ASSUME NEW a \in Seq(Int), NEW b \in Seq(Int), Ascending(a), Ascending(b), ToSet(a) = ToSet(b)
  PROVE  a = b
<1>1. Len(a) = Len(b) /\ Len(a) \in Nat /\ DOMAIN a = 1 .. Len(a) /\ DOMAIN b = 1 .. Len(a)
  <2>1. Len(a) = Cardinality(ToSet(a)) /\ Len(b) = Cardinality(ToSet(b)) /\ Len(a) \in Nat
    BY AscendingCount
  <2>2. QED
    BY <2>1
<1>2. \A i \in 1 .. Len(a) : a[i] \in Int /\ b[i] \in Int
  BY <1>1
<1> DEFINE T == {n \in Nat : n <= Len(a) => \A i \in 1 .. n : a[i] = b[i]}
<1>3. 0 \in T
  OBVIOUS
<1>4. ASSUME NEW n \in Nat, n \in T PROVE n + 1 \in T
  <2>1. SUFFICES ASSUME n + 1 <= Len(a) PROVE a[n+1] = b[n+1]
    BY <1>1, <1>4
  <2>2. n + 1 \in 1 .. Len(a) /\ \A i \in 1 .. n : a[i] = b[i]
    BY <1>1, <1>4, <2>1
  <2>3. b[n+1] <= a[n+1]
    <3>1. a[n+1] \in ToSet(b)
      BY <1>1, <2>2 DEF ToSet
    <3>2. PICK j \in 1 .. Len(a) : a[n+1] = b[j]
      BY <1>1, <3>1 DEF ToSet
    <3>3. CASE j < n + 1
      <4>1. a[j] < a[n+1]
        BY <2>2, <3>3, AscendingPair
      <4>2. a[j] = b[j]
        BY <2>2, <3>3
      <4>3. QED
        BY <1>2, <2>2, <3>2, <4>1, <4>2
    <3>4. CASE j = n + 1
      BY <1>2, <2>2, <3>2, <3>4
    <3>5. CASE n + 1 < j
      <4>1. b[n+1] < b[j]
        BY <1>1, <2>2, <3>5, AscendingPair
      <4>2. QED
        BY <1>2, <2>2, <3>2, <4>1
    <3>6. QED
      BY <3>3, <3>4, <3>5
  <2>4. a[n+1] <= b[n+1]
    <3>1. b[n+1] \in ToSet(a)
      BY <1>1, <2>2 DEF ToSet
    <3>2. PICK j \in 1 .. Len(a) : b[n+1] = a[j]
      BY <1>1, <3>1 DEF ToSet
    <3>3. CASE j < n + 1
      <4>1. b[j] < b[n+1]
        BY <1>1, <2>2, <3>3, AscendingPair
      <4>2. a[j] = b[j]
        BY <2>2, <3>3
      <4>3. QED
        BY <1>2, <2>2, <3>2, <4>1, <4>2
    <3>4. CASE j = n + 1
      BY <1>2, <2>2, <3>2, <3>4
    <3>5. CASE n + 1 < j
      <4>1. a[n+1] < a[j]
        BY <1>1, <2>2, <3>5, AscendingPair
      <4>2. QED
        BY <1>2, <2>2, <3>2, <4>1
    <3>6. QED
      BY <3>3, <3>4, <3>5
  <2>5. QED
    BY <1>2, <2>2, <2>3, <2>4
<1> HIDE DEF T
<1>5. Len(a) \in T
  BY <1>1, <1>3, <1>4, Induction
<1>6. \A i \in 1 .. Len(a) : a[i] = b[i]
  BY <1>1, <1>5 DEF T
<1>7. a = [i \in 1 .. Len(a) |-> a[i]] /\ b = [i \in 1 .. Len(a) |-> b[i]]
  BY <1>1
<1>8. QED
  BY <1>6, <1>7

LEMMA GridAscends == GridBars \in Seq(Int) /\ Ascending(GridBars)
<1> DEFINE B == BarInterval
           N == BarCount
<1>1. B \in Nat \ {0} /\ N \in Nat
  BY ClockFacts, BarCountFacts
<1>2. GridBars = [i \in 1 .. N |-> i * B - 1]
  BY DEF GridBars, BarCount
<1> HIDE DEF B, N
<1>3. \A i \in 1 .. N : i * B \in Int
  BY <1>1
<1>4. GridBars \in Seq(Int) /\ DOMAIN GridBars = 1 .. N /\ \A i \in 1 .. N : GridBars[i] = i * B - 1 /\ GridBars[i] \in Int
  BY <1>1, <1>2, <1>3
<1>5. ASSUME NEW j \in 1 .. N, NEW i \in 1 .. j - 1 PROVE GridBars[i] < GridBars[j]
  <2>1. (j - 1) * B = j * B - B /\ i * B <= (j - 1) * B /\ i * B \in Int /\ j * B \in Int /\ i \in 1 .. N
    <3>1. i <= j - 1 /\ i \in Int /\ j - 1 \in Int /\ j \in Int /\ i \in 1 .. N
      BY <1>1
    <3>2. QED
      BY <1>1, <3>1, TimesNext, TimesGrow
  <2> DEFINE u == i * B
             w == j * B
  <2>2. u <= w - B /\ GridBars[i] = u - 1 /\ GridBars[j] = w - 1 /\ u \in Int /\ w \in Int
    BY <1>4, <2>1
  <2> HIDE DEF u, w
  <2>3. QED
    BY <1>1, <2>2
<1>6. ASSUME NEW j \in DOMAIN GridBars, NEW i \in 1 .. j - 1
      PROVE  <<GridBars[i], GridBars[j]>> \in {p \in Int \X Int : p[1] < p[2]}
  <2>1. j \in 1 .. N /\ i \in 1 .. N
    BY <1>1, <1>4
  <2>2. GridBars[i] < GridBars[j] /\ GridBars[i] \in Int /\ GridBars[j] \in Int
    BY <1>4, <1>5, <2>1
  <2>3. QED
    BY <2>2
<1>7. QED
  BY <1>4, <1>6, Zenon DEF Ascending, Pairwise

-----------------------------------------------------------------------------
(* What a published backtest decided on. *)

ReadyBars == {b \in Bars : window.start + Lookback * BarInterval <= b /\ b < window.end}
DecisionBars == {b \in Bars : window.decision <= b /\ b < window.end}
TimeList(list) == [i \in DOMAIN list |-> list[i].ts]

(* When no bar is left, the batch has a row for every ready bar.               *)
LEMMA AllDecided ==
  ASSUME RetainInv, BatchRun, stage = "batch", Undecided = <<>>
  PROVE  Times(rows) = ReadyBars
<1> DEFINE z == Lookback * BarInterval
           ready == {b \in Bars : window.start + z <= b /\ b < window.end}
<1>1. Drawn /\ Controlled /\ LegalWindow(window)
  BY DEF RetainInv, Typed, WindowIsLegal
<1>2. window.start \in Nat /\ window.end \in Int
  BY <1>1, WindowType DEF LegalWindow
<1>3. 0 * BarInterval <= z /\ 0 * BarInterval = 0 /\ z \in Int
  BY ClockFacts, FeatureFacts, TimesGrow
<1>4. \A b \in Bars : b \in Nat
  BY BarFacts
<1>5. \A b \in Bars : window.start <= b /\ b < window.end =>
          features.bars # <<>> /\ ~ (b > Last(features.bars))
  <2>1. \A b : b \in ToSet(Undecided) <=>
               /\ b \in Bars /\ window.start <= b /\ b < window.end
               /\ features.bars # <<>> => b > Last(features.bars)
    BY UndecidedIs
  <2>2. \A b : b \notin ToSet(Undecided)
    BY DEF ToSet
  <2>3. QED
    BY <2>1, <2>2
<1>6. Decided(features.bars, Times(rows))
  BY DEF BatchRun
<1> HIDE DEF z
<1>7. Times(rows) = ready
  <2>1. CASE features.bars = <<>>
    <3>1. Times(rows) = {}
      BY <1>6, <2>1 DEF Decided
    <3>2. \A b \in Bars : ~ (window.start + z <= b /\ b < window.end)
      BY <1>2, <1>3, <1>4, <1>5, <2>1
    <3>3. QED
      BY <3>1, <3>2
  <2>2. CASE features.bars # <<>>
    <3>1. /\ Last(features.bars) \in Bars /\ Last(features.bars) < window.end
          /\ Times(rows) = {b \in Bars : window.start + z <= b /\ b <= Last(features.bars)}
      BY <1>6, <2>2 DEF Decided, z
    <3> DEFINE last == Last(features.bars)
    <3>2. last \in Nat /\ last < window.end /\ Times(rows) = {b \in Bars : window.start + z <= b /\ b <= last}
      BY <1>4, <3>1
    <3>3. \A b \in Bars : window.start <= b /\ b < window.end => ~ (b > last)
      BY <1>5
    <3> HIDE DEF last
    <3>4. \A b \in Bars : window.start + z <= b => (b <= last <=> b < window.end)
      BY <1>2, <1>3, <1>4, <3>2, <3>3
    <3>5. QED
      BY <3>2, <3>4
  <2>3. QED
    BY <2>1, <2>2
<1>8. QED
  BY <1>7 DEF ReadyBars, z

BatchKept ==
    stage \in {"batched", "engine"} =>
        window.mode = "evaluation" /\ LegalWindow(window) /\ Times(rows) = ReadyBars

LEMMA BatchKeptNext == RetainInv /\ BatchRun /\ BatchKept /\ [Next]_vars => BatchKept'
<1>1. SUFFICES ASSUME RetainInv, BatchRun, BatchKept, [Next]_vars PROVE BatchKept'
  OBVIOUS
<1>2. ASSUME window' = window, rows' = rows, stage \in {"batched", "engine"} PROVE BatchKept'
  <2>1. window.mode = "evaluation" /\ LegalWindow(window) /\ Times(rows) = ReadyBars
    BY <1>1, <1>2 DEF BatchKept
  <2>2. LegalWindow(window)' /\ Times(rows)' = Times(rows) /\ ReadyBars' = ReadyBars
    BY <1>2, <2>1 DEF LegalWindow, Times, ReadyBars
  <2>3. QED
    BY <1>2, <2>1, <2>2 DEF BatchKept
<1>3. CASE FinishBatch
  <2>1. SUFFICES ASSUME stage' \in {"batched", "engine"} PROVE BatchKept'
    BY DEF BatchKept
  <2>2. stage = "batch" /\ Undecided = <<>> /\ window' = window /\ window.mode # "training" /\ rows' = rows
    BY <1>3, <2>1 DEF FinishBatch, Pass
  <2>3. window.mode = "evaluation"
    <3>1. window \in Windows \cup {NoWindow}
      BY <1>1 DEF RetainInv, Typed, Controlled
    <3>2. window.mode \in {"evaluation", "training"}
      BY <3>1, DatasetAssumption DEF NoWindow
    <3>3. QED
      BY <2>2, <3>2
  <2>4. LegalWindow(window)
    BY <1>1, <2>2 DEF RetainInv, WindowIsLegal
  <2>5. Times(rows) = ReadyBars
    BY <1>1, <2>2, AllDecided
  <2>6. LegalWindow(window)' /\ Times(rows)' = Times(rows) /\ ReadyBars' = ReadyBars
    BY <2>2, <2>4 DEF LegalWindow, Times, ReadyBars
  <2>7. QED
    BY <2>2, <2>3, <2>5, <2>6 DEF BatchKept
<1>4. CASE EngineRead \/ OnMarkPrice \/ OnFundingRate \/ OnBar
  <2>1. window' = window /\ rows' = rows /\ stage \in {"batched", "engine"}
    BY <1>4 DEF EngineRead, OnMarkPrice, OnFundingRate, OnBar
  <2>2. QED
    BY <1>2, <2>1
<1>5. CASE CatalogFault \/ UNCHANGED vars
  <2>1. window' = window /\ rows' = rows /\ stage' = stage
    BY <1>5 DEF CatalogFault, vars, research
  <2>2. QED
    BY <1>2, <2>1 DEF BatchKept
<1>6. CASE SourceFault \/ ProbeIndex \/ LoadBars \/ LoadMarksAndFunding \/ WriteCatalog
           \/ CrosscheckCatalog \/ Accept \/ Bind \/ BatchRead \/ BatchBar \/ Parity
  <2>1. stage' \notin {"batched", "engine"}
    BY <1>6 DEF SourceFault, ProbeIndex, LoadBars, LoadMarksAndFunding, WriteCatalog,
                CrosscheckCatalog, Accept, Bind, BatchRead, BatchBar, Parity, Pass
  <2>2. QED
    BY <2>1 DEF BatchKept
<1>7. QED
  BY <1>1, <1>3, <1>4, <1>5, <1>6 DEF Next

(* The decisions of the engine follow its bars. *)
DecidedOn ==
    /\ stage \in {"accepted", "bound", "batch", "batched"} => decisions = <<>>
    /\ stage = "engine" =>
           /\ Ascending(TimeList(decisions))
           /\ \A t \in Times(decisions) : features.bars # <<>> /\ t <= Last(features.bars)
    /\ stage = "published" =>
           TimeList(decisions) = Within(GridBars, window.decision, window.end)

LEMMA TimeListIs ==
  ASSUME NEW list, list \in Seq(ToSet(list)), Times(list) \subseteq Int
  PROVE  /\ TimeList(list) \in Seq(Int) /\ Len(TimeList(list)) = Len(list) /\ Len(list) \in Nat
         /\ DOMAIN list = 1 .. Len(list) /\ ToSet(TimeList(list)) = Times(list)
<1>1. DOMAIN list = 1 .. Len(list) /\ Len(list) \in Nat
  OBVIOUS
<1> DEFINE T == TimeList(list)
<1>2. DOMAIN T = 1 .. Len(list) /\ T = [i \in 1 .. Len(list) |-> list[i].ts]
  BY <1>1 DEF TimeList
<1>3. \A i \in 1 .. Len(list) : list[i].ts \in Int
  BY <1>1 DEF Times
<1> HIDE DEF T
<1>4. T \in Seq(Int) /\ Len(T) = Len(list)
  BY <1>1, <1>2, <1>3
<1>5. ToSet(T) = Times(list)
  BY <1>1, <1>2 DEF ToSet, Times
<1>6. QED
  BY <1>1, <1>4, <1>5 DEF T

LEMMA TimesAdded ==
  ASSUME NEW list, list \in Seq(ToSet(list)), Times(list) \subseteq Int, NEW r, r.ts \in Int,
         Ascending(TimeList(list)), \A t \in Times(list) : t < r.ts
  PROVE  Ascending(TimeList(list \o <<r>>)) /\ \A t \in Times(list \o <<r>>) : t \in Times(list) \/ t = r.ts
<1> DEFINE T == TimeList(list)
           n == Len(list)
           U == list \o <<r>>
           R == {p \in Int \X Int : p[1] < p[2]}
<1>1. T \in Seq(Int) /\ Len(T) = n /\ n \in Nat /\ DOMAIN list = 1 .. n /\ ToSet(T) = Times(list)
  BY TimeListIs
<1>2. DOMAIN U = 1 .. n + 1 /\ U[n+1] = r /\ \A i \in 1 .. n : U[i] = list[i]
  <2>1. list \in Seq(ToSet(list) \cup {r}) /\ <<r>> \in Seq(ToSet(list) \cup {r})
    <3>1. ToSet(list) \subseteq ToSet(list) \cup {r}
      OBVIOUS
    <3>2. QED
      BY <3>1, SeqMonotonic
  <2>2. Len(<<r>>) = 1 /\ <<r>>[1] = r
    OBVIOUS
  <2>3. QED
    BY <1>1, <2>1, <2>2
<1>3. TimeList(U) = [i \in 1 .. n + 1 |-> U[i].ts] /\ T = [i \in 1 .. n |-> list[i].ts]
  BY <1>1, <1>2 DEF TimeList
<1> HIDE DEF U
<1>4. TimeList(U) = Append(T, r.ts)
  <2>1. DOMAIN T = 1 .. n
    BY <1>3
  <2>2. Append(T, r.ts) = [i \in 1 .. n + 1 |-> IF i = n + 1 THEN r.ts ELSE T[i]]
    BY <1>1
  <2>3. \A i \in 1 .. n + 1 : U[i].ts = IF i = n + 1 THEN r.ts ELSE T[i]
    BY <1>1, <1>2, <1>3
  <2>4. QED
    BY <1>3, <2>2, <2>3
<1>5. \A i \in DOMAIN T : <<T[i], r.ts>> \in R
  <2>1. ASSUME NEW i \in DOMAIN T PROVE <<T[i], r.ts>> \in R
    <3>1. T[i] \in ToSet(T)
      BY DEF ToSet
    <3>2. T[i] < r.ts /\ T[i] \in Int
      BY <1>1, <3>1
    <3>3. QED
      BY <3>2
  <2>2. QED
    BY <2>1
<1>6. Pairwise(Append(T, r.ts), R)
  <2> HIDE DEF T, R
  <2>1. Pairwise(T, R)
    BY DEF Ascending, T, R
  <2>2. QED
    BY <1>1, <1>5, <2>1, AppendedPairs
<1>7. \A t \in Times(U) : t \in Times(list) \/ t = r.ts
  BY <1>1, <1>2 DEF Times
<1>8. QED
  BY <1>4, <1>6, <1>7 DEF Ascending, U

(* The rows the comparison takes are those of the bars that may be traded on.  *)
LEMMA TradableTimes ==
  ASSUME RetainInv, BatchKept, stage = "engine"
  PROVE  /\ Times(Tradable) = DecisionBars
         /\ \A x : x \in ToSet(Tradable) <=> x \in ToSet(rows) /\ x.ts >= window.decision
<1> DEFINE S == {row \in ToSet(rows) : row.ts >= window.decision}
           z == Lookback * BarInterval
<1>1. Drawn /\ Controlled
  BY DEF RetainInv, Typed
<1>2. window.mode = "evaluation" /\ LegalWindow(window) /\ Times(rows) = ReadyBars
  BY DEF BatchKept
<1>3. /\ window.start \in Nat /\ window.end \in Int /\ window.decision \in Int
      /\ window.start <= window.decision - z
  BY <1>1, <1>2, WindowType DEF LegalWindow
<1>4. z \in Int
  BY ClockFacts, FeatureFacts, TimesGrow
<1>5. \A b \in Bars : b \in Int
  BY BarFacts
<1>6. rows \in Seq(ToSet(rows))
  BY <1>1 DEF Drawn, Rowed
<1>7. Tradable = Kept(rows, S)
  BY DEF Tradable
<1>8. \A x : x \in ToSet(Kept(rows, S)) <=> x \in ToSet(rows) /\ x \in S
  <2> HIDE DEF S
  <2>1. QED
    BY <1>6, KeptElements
<1>9. \A x : x \in ToSet(Tradable) <=> x \in ToSet(rows) /\ x.ts >= window.decision
  BY <1>7, <1>8
<1>10. Times(Tradable) = {x.ts : x \in ToSet(Tradable)} /\ Times(rows) = {x.ts : x \in ToSet(rows)}
  BY TimesOf
<1>11. Times(Tradable) = {t \in Times(rows) : t >= window.decision}
  BY <1>9, <1>10
<1>12. ReadyBars = {b \in Bars : window.start + z <= b /\ b < window.end}
  BY DEF ReadyBars
<1> HIDE DEF z
<1>13. Times(Tradable) = DecisionBars
  BY <1>2, <1>3, <1>4, <1>5, <1>11, <1>12 DEF DecisionBars
<1>14. QED
  BY <1>9, <1>13

(* The comparison passes only if there is a decision for every tradable bar.   *)
LEMMA ParityIsComplete ==
  ASSUME RetainInv, BatchKept, DecidedOn, stage = "engine",
         accepted.events.bars = GridBars,
         Len(decisions) = Cardinality(Times(Tradable)), ToSet(decisions) \subseteq ToSet(Tradable)
  PROVE  TimeList(decisions) = Within(GridBars, window.decision, window.end)
<1> DEFINE D == DecisionBars
           T == TimeList(decisions)
           W == Within(GridBars, window.decision, window.end)
<1>1. Drawn /\ Controlled
  BY DEF RetainInv, Typed
<1>2. window.mode = "evaluation" /\ LegalWindow(window) /\ Times(rows) = ReadyBars
  BY DEF BatchKept
<1>3. /\ window.start \in Nat /\ window.end \in Int /\ window.decision \in Int
  BY <1>1, <1>2, WindowType DEF LegalWindow
<1>5. \A b \in Bars : b \in Int
  BY BarFacts
<1>6. decisions \in Seq(ToSet(decisions))
  BY <1>1 DEF Drawn, Rowed
<1>7. Times(Tradable) = D
  BY TradableTimes
<1>8. Times(decisions) \subseteq D
  <2>1. Times(decisions) = {x.ts : x \in ToSet(decisions)} /\ Times(Tradable) = {x.ts : x \in ToSet(Tradable)}
    BY TimesOf
  <2>2. QED
    BY <1>7, <2>1
<1>9. Times(decisions) \subseteq Int
  BY <1>5, <1>8 DEF DecisionBars
<1>10. T \in Seq(Int) /\ Len(T) = Len(decisions) /\ ToSet(T) = Times(decisions) /\ Ascending(T)
  <2>1. Ascending(T)
    BY DEF DecidedOn
  <2>2. QED
    BY <1>6, <1>9, <2>1, TimeListIs
<1>11. W \in Seq(Int) /\ ToSet(W) = D /\ Ascending(W)
  <2>1. GridBars \in Seq(Int) /\ Ascending(GridBars) /\ ToSet(GridBars) = Bars
    BY GridAscends, GridElements
  <2>2. W \in Seq(Int) /\ \A t : t \in ToSet(W) <=> t \in Bars /\ t \in Int /\ window.decision <= t /\ t < window.end
    BY <1>3, <2>1, WithinIs
  <2>3. Ascending(W)
    BY <2>1, KeptPairs DEF Ascending, Within
  <2> HIDE DEF W
  <2>4. ToSet(W) = D
    BY <1>5, <2>2 DEF DecisionBars
  <2>5. QED
    BY <2>2, <2>3, <2>4
<1> HIDE DEF T, W, D
<1>12. IsFiniteSet(D) /\ Cardinality(D) = Len(W)
  BY <1>11, AscendingCount
<1>13. Cardinality(ToSet(T)) = Len(T)
  BY <1>10, AscendingCount
<1>14. ToSet(T) = D
  <2>1. ToSet(T) \subseteq D /\ Cardinality(ToSet(T)) = Cardinality(D)
    BY <1>7, <1>8, <1>10, <1>13
  <2>2. QED
    BY <1>12, <2>1, FS_Subset
<1>15. T = W
  BY <1>10, <1>11, <1>14, AscendingUnique
<1>16. QED
  BY <1>15 DEF T, W

LEMMA DecidedOnNext ==
  RetainInv /\ BatchKept /\ DecidedOn /\ AcceptedData /\ [Next]_vars => DecidedOn'
<1>1. SUFFICES ASSUME RetainInv, BatchKept, DecidedOn, AcceptedData, [Next]_vars PROVE DecidedOn'
  OBVIOUS
<1>2. Drawn /\ Retains(features) /\ DOMAIN input = Kinds /\ Controlled
  BY <1>1 DEF RetainInv, Typed, Shaped
<1>3. ASSUME decisions' = <<>>, stage' # "published" PROVE DecidedOn'
  <2>1. Times(decisions)' = {} /\ Ascending(TimeList(decisions))'
    BY <1>3 DEF Times, TimeList, Ascending, Pairwise
  <2>2. QED
    BY <1>3, <2>1 DEF DecidedOn
<1>4. ASSUME stage' \notin {"accepted", "bound", "batch", "batched", "engine", "published"} PROVE DecidedOn'
  BY <1>4 DEF DecidedOn
<1>5. ASSUME decisions' = decisions, stage = "engine", stage' = "engine", features'.bars = features.bars
      PROVE  DecidedOn'
  <2>1. /\ Ascending(TimeList(decisions))
        /\ \A t \in Times(decisions) : features.bars # <<>> /\ t <= Last(features.bars)
    BY <1>1, <1>5 DEF DecidedOn
  <2>2. Ascending(TimeList(decisions))' /\ Times(decisions)' = Times(decisions)
    BY <1>5, <2>1 DEF Ascending, Pairwise, TimeList, Times
  <2>3. QED
    BY <1>5, <2>1, <2>2 DEF DecidedOn
<1>6. CASE SourceFault \/ ProbeIndex \/ LoadBars \/ LoadMarksAndFunding \/ WriteCatalog \/ CrosscheckCatalog
  <2>1. stage' \notin {"accepted", "bound", "batch", "batched", "engine", "published"}
    BY <1>6 DEF SourceFault, ProbeIndex, LoadBars, LoadMarksAndFunding, WriteCatalog, CrosscheckCatalog, Pass
  <2>2. QED
    BY <1>4, <2>1
<1>7. CASE Accept \/ Bind \/ BatchRead \/ BatchBar \/ FinishBatch \/ EngineRead
  <2>1. /\ decisions' = decisions /\ stage' # "published"
        /\ stage \in {"checked", "accepted", "bound", "batch", "batched"}
    BY <1>7 DEF Accept, Bind, BatchRead, BatchBar, FinishBatch, EngineRead, Pass, research
  <2>2. decisions = <<>>
    BY <1>1, <1>2, <2>1 DEF DecidedOn, Drawn
  <2>3. QED
    BY <1>3, <2>1, <2>2
<1>8. CASE CatalogFault
  <2>1. stage' = stage /\ decisions' = decisions /\ stage \in {"accepted", "bound", "batched"}
    BY <1>8 DEF CatalogFault, research
  <2>2. decisions = <<>>
    BY <1>1, <2>1 DEF DecidedOn
  <2>3. QED
    BY <1>3, <2>1, <2>2
<1>9. CASE OnMarkPrice \/ OnFundingRate
  <2>1. /\ stage = "engine" /\ decisions' = decisions /\ stage' \in {"engine", "refused"}
        /\ \/ features' = PushMark(features, Head(input.marks))
           \/ features' = PushFunding(features, Head(input.funding))
    BY <1>9 DEF OnMarkPrice, OnFundingRate, Pass
  <2>2. features'.bars = features.bars
    <3>1. "bars" \in DOMAIN features
      BY <1>2 DEF Retains, FeatureFields, Fresh
    <3>2. QED
      BY <2>1, <3>1 DEF PushMark, PushFunding
  <2>3. QED
    BY <1>4, <1>5, <2>1, <2>2
<1>10. CASE OnBar
  <2> DEFINE d == Head(input.bars)
             s == PushBar(features, d)
  <2>1. /\ stage = "engine" /\ input.bars # <<>> /\ features' = s
        /\ stage' = (IF s.ok /\ (window.decision <= d /\ d < window.end => s.row # <<>>) THEN "engine" ELSE "refused")
        /\ decisions' = decisions \/ (s.ok /\ decisions' = decisions \o s.row)
    <3>1. IsNextEvent("bars") => input.bars # <<>>
      BY DEF IsNextEvent
    <3>2. QED
      BY <1>10, <3>1 DEF OnBar, Pass
  <2>2. SUFFICES ASSUME s.ok, stage' = "engine" PROVE DecidedOn'
    <3>1. stage' = "refused" => DecidedOn'
      BY <1>4
    <3>2. stage' # "refused" => s.ok /\ stage' = "engine"
      BY <2>1
    <3>3. QED
      BY <2>2, <3>1, <3>2
  <2>3. d \in Bars /\ d \in Int
    <3>1. input.bars \in Seq(Int) /\ ToSet(input.bars) \subseteq ToSet(accepted.events.bars)
      BY <1>2, <2>1 DEF Drawn, Kinds
    <3>2. ToSet(accepted.events.bars) = Bars
      BY <1>1, <2>1, GridElements DEF AcceptedData, ReadStages
    <3>3. d \in ToSet(input.bars)
      BY <2>1, <3>1, EndElements
    <3> HIDE DEF d
    <3>4. QED
      BY <3>1, <3>2, <3>3, BarFacts
  <2>4. s.bars # <<>> /\ Last(s.bars) = d
    BY <1>2, <2>3, BarRetains
  <2>5. features.bars # <<>> => d - Last(features.bars) = BarInterval
    <3>1. s.ok = (features.ok /\ Takes(features, d)) /\ Takes(features, d) \in BOOLEAN /\ features.ok \in BOOLEAN
      BY <1>2, <2>3, BarIs DEF Retains
    <3> HIDE DEF d
    <3>2. Takes(features, d)
      BY <2>2, <3>1
    <3>3. QED
      BY <3>2 DEF Takes
  <2>6. s.row = <<>> \/ \E r : s.row = <<r>> /\ r.ts = d
    <3>1. s.row = IF Len(KeptBars(features, d)) = Lookback + 1 /\ Takes(features, d)
                  THEN <<[ts |-> d, values |-> FeatureValues(Shown(features, d), d)]>> ELSE <<>>
      BY <1>2, <2>3, BarIs
    <3> DEFINE w == [ts |-> d, values |-> FeatureValues(Shown(features, d), d)]
    <3>2. w.ts = d /\ (s.row = <<>> \/ s.row = <<w>>)
      BY <3>1
    <3> HIDE DEF w, s, d
    <3>3. QED
      BY <3>2
  <2>7. /\ Ascending(TimeList(decisions))
        /\ \A t \in Times(decisions) : features.bars # <<>> /\ t <= Last(features.bars)
    BY <1>1, <2>1 DEF DecidedOn
  <2>8. decisions \in Seq(ToSet(decisions)) /\ Times(decisions) \subseteq Int
    <3>1. decisions \in Seq(ToSet(decisions)) /\ Times(decisions) \subseteq ToSet(accepted.events.bars)
      BY <1>2 DEF Drawn, Rowed
    <3>2. ToSet(accepted.events.bars) = Bars /\ \A b \in Bars : b \in Int
      BY <1>1, <2>1, GridElements, BarFacts DEF AcceptedData, ReadStages
    <3>3. QED
      BY <3>1, <3>2
  <2> HIDE DEF d, s
  <2>9. \A t \in Times(decisions) : t < d
    <3>1. ASSUME NEW t \in Times(decisions) PROVE t < d
      <4>1. features.bars # <<>> /\ t <= Last(features.bars) /\ t \in Int
        BY <2>7, <2>8
      <4>2. Last(features.bars) \in Int
        <5>1. features.bars \in Seq(Int)
          BY <1>2 DEF Retains
        <5>2. QED
          BY <4>1, <5>1, LastIsElement
      <4> DEFINE l == Last(features.bars)
      <4>3. l \in Int /\ d - l = BarInterval /\ t <= l
        BY <2>5, <4>1, <4>2
      <4> HIDE DEF l
      <4>4. QED
        BY <2>3, <4>1, <4>3, ClockFacts
    <3>2. QED
      BY <3>1
  <2>10. Ascending(TimeList(decisions')) /\ \A t \in Times(decisions') : t <= d
    <3>1. CASE decisions' = decisions
      BY <2>3, <2>7, <2>8, <2>9, <3>1
    <3>2. CASE decisions' = decisions \o s.row
      <4>1. CASE s.row = <<>>
        <5>1. decisions' = decisions
          BY <2>8, <3>2, <4>1
        <5>2. QED
          BY <3>1, <5>1
      <4>2. ASSUME NEW r, s.row = <<r>>, r.ts = d
            PROVE Ascending(TimeList(decisions')) /\ \A t \in Times(decisions') : t <= d
        <5>1. /\ Ascending(TimeList(decisions \o <<r>>))
              /\ \A t \in Times(decisions \o <<r>>) : t \in Times(decisions) \/ t = r.ts
          BY <2>3, <2>7, <2>8, <2>9, <4>2, TimesAdded
        <5>2. \A t \in Times(decisions') : t \in Times(decisions) \/ t = d
          BY <3>2, <4>2, <5>1
        <5>3. QED
          BY <2>3, <2>8, <2>9, <3>2, <4>2, <5>1, <5>2
      <4>3. QED
        BY <2>6, <4>1, <4>2
    <3>3. QED
      BY <2>1, <3>1, <3>2
  <2>11. Ascending(TimeList(decisions))' /\ Times(decisions)' = Times(decisions')
    BY <2>10 DEF Ascending, Pairwise, TimeList, Times
  <2>12. QED
    BY <2>1, <2>2, <2>4, <2>10, <2>11 DEF DecidedOn
<1>11. CASE Parity
  <2>1. /\ stage = "engine" /\ stage' \in {"published", "refused"}
        /\ decisions' = decisions /\ window' = window
        /\ stage' = "published" =>
              Len(decisions) = Cardinality(Times(Tradable)) /\ ToSet(decisions) \subseteq ToSet(Tradable)
    BY <1>11 DEF Parity, Pass, research
  <2>2. SUFFICES ASSUME stage' = "published" PROVE DecidedOn'
    BY <1>4, <2>1
  <2>3. accepted.events.bars = GridBars
    BY <1>1, <2>1 DEF AcceptedData, ReadStages
  <2>4. TimeList(decisions) = Within(GridBars, window.decision, window.end)
    BY <1>1, <2>1, <2>2, <2>3, ParityIsComplete
  <2>5. TimeList(decisions)' = TimeList(decisions)
    BY <2>1 DEF TimeList
  <2>6. (Within(GridBars, window.decision, window.end))' = Within(GridBars, window.decision, window.end)
    BY <2>1 DEF Within, GridBars
  <2>7. QED
    BY <2>2, <2>4, <2>5, <2>6 DEF DecidedOn
<1>12. CASE UNCHANGED vars
  <2>1. stage' = stage /\ decisions' = decisions /\ window' = window /\ features' = features
    BY <1>12 DEF vars, research
  <2>2. /\ TimeList(decisions)' = TimeList(decisions) /\ Times(decisions)' = Times(decisions)
        /\ Ascending(TimeList(decisions))' = Ascending(TimeList(decisions))
        /\ (Within(GridBars, window.decision, window.end))' = Within(GridBars, window.decision, window.end)
    BY <2>1 DEF TimeList, Times, Ascending, Pairwise, Within, GridBars
  <2>3. QED
    BY <1>1, <2>1, <2>2 DEF DecidedOn
<1>13. QED
  BY <1>1, <1>6, <1>7, <1>8, <1>9, <1>10, <1>11, <1>12 DEF Next

-----------------------------------------------------------------------------
(* What a published backtest computed. *)

LEMMA ExactIsReference ==
  ASSUME AcceptedData, stage = "published", NEW r, Exact(r, accepted.events), NEW d \in Int, r.ts = d,
         \A t \in ToSet(accepted.events.funding) : ~ (d - FundingTolerance < t /\ t <= d)
  PROVE  r.values = Reference(d)
<1> DEFINE E == accepted.events
           settled == ToSet(E.funding)
           v == r.values
<1>1. E.funding \in Seq(Int) /\ Ascending(E.funding) /\ settled \subseteq Int
  <2>1. E.funding \in Seq(Int) /\ Ascending(E.funding)
    BY DEF AcceptedData, ReadStages, Kinds
  <2>2. QED
    BY <2>1 DEF ToSet
<1>2. /\ v = [bars |-> v.bars, mark |-> v.mark, funding |-> v.funding, sum |-> v.sum]
      /\ v.mark = Latest(E.marks, d)
      /\ v.bars = {d - n * BarInterval : n \in 0 .. Lookback}
      /\ v.sum \subseteq Due(settled, d)
      /\ \A t \in Due(settled, d) \ v.sum : t > d - FundingTolerance
      /\ v.funding \in settled /\ v.funding <= d
      /\ \A t \in settled : t <= d - FundingTolerance => t <= v.funding
  BY DEF Exact
<1>3. FundingTolerance \in Nat
  BY ClockFacts
<1> HIDE DEF v
<1>4. v.sum = Due(settled, d)
  <2>1. \A t \in Due(settled, d) : t \in settled /\ t <= d
    BY DEF Due
  <2>2. QED
    BY <1>2, <2>1
<1>5. Latest(E.funding, d) = v.funding
  <2>1. \A t \in settled : t <= d => t <= v.funding
    <3>1. ASSUME NEW t \in settled, t <= d PROVE t <= v.funding
      <4>1. t \in Int /\ ~ (d - FundingTolerance < t)
        BY <1>1, <3>1
      <4>2. t <= d - FundingTolerance
        BY <1>3, <4>1
      <4>3. QED
        BY <1>2, <4>2
    <3>2. QED
      BY <3>1
  <2> HIDE DEF settled, E
  <2>2. QED
    BY <1>1, <1>2, <2>1, LatestIs DEF settled
<1>6. Due(settled, d) = {t \in settled : d - FundingWindow < t /\ t <= d}
  BY DEF Due
<1> DEFINE w == Reference(d)
<1>7. w = [bars |-> v.bars, mark |-> v.mark, funding |-> v.funding, sum |-> v.sum]
  BY <1>2, <1>4, <1>5, <1>6 DEF Reference
<1>8. v = w
  BY <1>2, <1>7
<1>9. QED
  BY <1>8 DEF v

PublishedInv == RowInv /\ AcceptedBars /\ BatchRun /\ BatchKept /\ DecidedOn

LEMMA PublishedIsReference == PublishedInv => (InTolerance => PublishedRowsAreReference)
<1>1. SUFFICES ASSUME PublishedInv, InTolerance, stage = "published" PROVE PublishedRowsAreReference
  BY DEF PublishedRowsAreReference
<1> DEFINE E == accepted.events
           bars == Within(E.bars, window.decision, window.end)
<1>2. AcceptedData /\ ExactRows /\ DecidedOn /\ Drawn
  BY <1>1 DEF PublishedInv, RowInv, RetainInv, Typed
<1>3. E.bars = GridBars
  BY <1>1, <1>2 DEF AcceptedData, ReadStages
<1>4. TimeList(decisions) = bars
  BY <1>1, <1>2, <1>3 DEF DecidedOn
<1>5. decisions \in Seq(ToSet(decisions)) /\ Times(decisions) \subseteq Int
  <2>1. decisions \in Seq(ToSet(decisions)) /\ Times(decisions) \subseteq ToSet(E.bars)
    BY <1>2 DEF Drawn, Rowed
  <2>2. QED
    BY <1>3, <2>1, GridElements, BarFacts
<1>6. DOMAIN bars = DOMAIN decisions /\ \A i \in DOMAIN bars : bars[i] = decisions[i].ts
  BY <1>4 DEF TimeList
<1> HIDE DEF bars
<1>7. ASSUME NEW i \in DOMAIN bars,
             ~ \E t \in ToSet(E.funding) : bars[i] - FundingTolerance < t /\ t <= bars[i]
      PROVE  decisions[i].values = Reference(bars[i])
  <2>1. decisions[i] \in ToSet(decisions) /\ decisions[i].ts = bars[i]
    BY <1>6 DEF ToSet
  <2>2. Exact(decisions[i], E)
    BY <1>1, <1>2, <2>1 DEF ExactRows
  <2>3. bars[i] \in Int
    BY <1>5, <1>6 DEF Times
  <2>4. QED
    BY <1>1, <1>2, <1>7, <2>1, <2>2, <2>3, ExactIsReference
<1>8. [i \in DOMAIN decisions |-> decisions[i].ts] = bars
  BY <1>4 DEF TimeList
<1>9. QED
  BY <1>7, <1>8 DEF PublishedRowsAreReference, bars

LEMMA PublishedInvNext == PublishedInv /\ [Next]_vars => PublishedInv'
<1>1. SUFFICES ASSUME PublishedInv, [Next]_vars PROVE PublishedInv'
  OBVIOUS
<1>2. RowInv /\ RetainInv /\ Sound /\ AcceptedBars /\ BatchRun /\ BatchKept /\ DecidedOn /\ AcceptedData
  BY <1>1 DEF PublishedInv, RowInv, RetainInv, Typed
<1>3. RowInv' /\ AcceptedBars' /\ BatchRun'
  BY <1>1, <1>2, RowInvNext, AcceptedBarsNext, BatchRunNext
<1>4. BatchKept' /\ DecidedOn'
  BY <1>1, <1>2, BatchKeptNext, DecidedOnNext
<1>5. QED
  BY <1>3, <1>4 DEF PublishedInv

LEMMA PublishedInvInit == Init => PublishedInv
<1>1. SUFFICES ASSUME Init PROVE PublishedInv
  OBVIOUS
<1>2. RowInv
  BY <1>1, RowInvInit
<1>3. AcceptedBars /\ BatchRun /\ BatchKept /\ DecidedOn
  BY <1>1 DEF Init, AcceptedBars, BatchRun, BatchKept, DecidedOn
<1>4. QED
  BY <1>2, <1>3 DEF PublishedInv

(* A published backtest of settlements that keep their slots has decided once   *)
(* on every bar of its evaluation, each time on the row the accepted events     *)
(* define, unless a settlement of the last few ticks is missing from it         *)
(* (_verify_signal_parity).                                                     *)
THEOREM PublishedRowsAreReferenceHolds == Spec => [](InTolerance => PublishedRowsAreReference)
<1>1. Init => PublishedInv
  BY PublishedInvInit
<1>2. PublishedInv /\ [Next]_vars => PublishedInv'
  BY PublishedInvNext
<1>3. PublishedInv => (InTolerance => PublishedRowsAreReference)
  BY PublishedIsReference
<1>4. QED
  BY <1>1, <1>2, <1>3, PTL DEF Spec

-----------------------------------------------------------------------------
(* A state that was fed the marks M and the settlements F, every one of them   *)
(* and in order, and has refused nothing.                                      *)

Newest(x, S) == IF S = {} THEN x = None ELSE x \in S /\ \A y \in S : y <= x
Oldest(x, S) == IF S = {} THEN x = None ELSE x \in S /\ \A y \in S : x <= y

(* Each event of S may follow the one before it.                               *)
Linked(g, S) ==
    /\ \A t \in S : OnGrid(g, t) /\ GridIndex(g, t) \notin g.gaps
    /\ \A t \in S : \A u \in S :
          t < u /\ (\A v \in S : v <= t \/ u <= v) => IsNext(g, u, t)

Consumed(s, M, F) ==
    /\ M \subseteq Nat /\ F \subseteq Nat /\ s.ok
    /\ s.lastMark = s.mark /\ Newest(s.mark, M) /\ Oldest(s.firstMark, M)
    /\ Newest(s.lastFunding, F) /\ Oldest(s.firstFunding, F)
    /\ s.funding = <<>> <=> F = {}
    /\ ToSet(s.funding) \subseteq F
    /\ \A t \in F : t \in ToSet(s.funding) \/ (s.bars # <<>> /\ t <= Last(s.bars) - FundingWindow)
    /\ BarsInOrder(s.bars)
    /\ Linked(MarkGrid, M) /\ Linked(FundingGrid, F)

LEMMA NewestAdded ==
  ASSUME NEW S, S \subseteq Nat, NEW t \in Nat, \A u \in S : u < t
  PROVE  /\ Newest(t, S \cup {t})
         /\ \A x : Oldest(x, S) => Oldest(IF x = None THEN t ELSE x, S \cup {t})
<1>1. \A u \in S : u \in Nat /\ u # None
  BY DEF None
<1>2. S \cup {t} # {}
  OBVIOUS
<1>3. \A y \in S \cup {t} : y <= t
  BY <1>1
<1>4. ASSUME NEW x, Oldest(x, S) PROVE Oldest(IF x = None THEN t ELSE x, S \cup {t})
  <2>1. CASE S = {}
    <3>1. x = None
      BY <1>4, <2>1 DEF Oldest
    <3>2. QED
      BY <2>1, <3>1 DEF Oldest
  <2>2. CASE S # {}
    <3>1. x \in S /\ \A y \in S : x <= y
      BY <1>4, <2>2 DEF Oldest
    <3>2. x # None /\ x <= t
      BY <1>1, <3>1
    <3>3. QED
      BY <1>2, <3>1, <3>2 DEF Oldest
  <2>3. QED
    BY <2>1, <2>2
<1>5. QED
  BY <1>2, <1>3, <1>4 DEF Newest

(* What follows the newest event links to all of them.                         *)
LEMMA LinkedAdded ==
  ASSUME NEW g, NEW S, S \subseteq Nat, Linked(g, S), NEW t \in Nat, \A u \in S : u < t,
         NEW last, Newest(last, S)
  PROVE  Linked(g, S \cup {t}) <=> IsNext(g, t, last)
<1> DEFINE T == S \cup {t}
<1>1. \A u \in S : u \in Nat /\ u # None /\ u # t
  BY DEF None
<1>2. ASSUME IsNext(g, t, last) PROVE Linked(g, T)
  <2>1. \A u \in T : OnGrid(g, u) /\ GridIndex(g, u) \notin g.gaps
    BY <1>2 DEF Linked, IsNext
  <2>2. ASSUME NEW a \in T, NEW b \in T, a < b, \A v \in T : v <= a \/ b <= v PROVE IsNext(g, b, a)
    <3>1. a \in S
      BY <1>1, <2>2
    <3>2. CASE b \in S
      BY <2>2, <3>1, <3>2 DEF Linked
    <3>3. CASE b = t
      <4>1. last \in S /\ \A y \in S : y <= last
        BY <3>1 DEF Newest
      <4>2. last <= a
        <5>1. last <= a \/ t <= last
          BY <2>2, <3>3, <4>1
        <5>2. last < t /\ last \in Nat
          BY <1>1, <4>1
        <5>3. QED
          BY <5>1, <5>2
      <4>3. a = last
        BY <1>1, <3>1, <4>1, <4>2
      <4>4. QED
        BY <1>2, <3>3, <4>3
    <3>4. QED
      BY <3>2, <3>3
  <2>3. QED
    BY <2>1, <2>2 DEF Linked
<1>3. ASSUME Linked(g, T) PROVE IsNext(g, t, last)
  <2>1. OnGrid(g, t) /\ GridIndex(g, t) \notin g.gaps
    BY <1>3 DEF Linked
  <2>2. CASE S = {}
    BY <2>1, <2>2 DEF Newest, IsNext
  <2>3. CASE S # {}
    <3>1. last \in S /\ \A y \in S : y <= last
      BY <2>3 DEF Newest
    <3>2. last \in T /\ t \in T /\ last < t /\ \A v \in T : v <= last \/ t <= v
      BY <3>1
    <3> HIDE DEF T
    <3>3. QED
      BY <1>3, <3>2 DEF Linked
  <2>4. QED
    BY <2>2, <2>3
<1>4. QED
  BY <1>2, <1>3

(* A part without holes is linked too.                                         *)
LEMMA LinkedPart ==
  ASSUME NEW g, NEW S, Linked(g, S), NEW T, T \subseteq S,
         \A t \in T : \A u \in T : \A v \in S : t < v /\ v < u => v \in T,
         S \subseteq Nat
  PROVE  Linked(g, T)
<1>1. ASSUME NEW a \in T, NEW b \in T, a < b, \A v \in T : v <= a \/ b <= v PROVE IsNext(g, b, a)
  <2>1. \A v \in S : v <= a \/ b <= v
    BY <1>1
  <2>2. QED
    BY <1>1, <2>1 DEF Linked
<1>2. QED
  BY <1>1 DEF Linked

LEMMA MarkConsumed ==
  ASSUME NEW s, Retains(s), NEW M, NEW F, Consumed(s, M, F), NEW t \in Nat, \A u \in M : u < t
  PROVE  /\ PushMark(s, t).ok <=> Linked(MarkGrid, M \cup {t})
         /\ PushMark(s, t).ok => Consumed(PushMark(s, t), M \cup {t}, F)
<1> DEFINE next == IsNext(MarkGrid, t, s.lastMark)
           p == PushMark(s, t)
<1>1. /\ p.funding = s.funding /\ p.bars = s.bars /\ p.mark = t /\ p.lastMark = t
      /\ p.lastFunding = s.lastFunding /\ p.firstFunding = s.firstFunding
      /\ p.firstMark = IF s.firstMark = None THEN t ELSE s.firstMark
      /\ p.ok = (s.ok /\ next)
  <2> HIDE DEF next
  <2>1. QED
    BY FieldNames DEF Retains, PushMark, next, MarkGrid
<1>2. /\ M \subseteq Nat /\ F \subseteq Nat /\ s.ok /\ s.lastMark = s.mark /\ Newest(s.mark, M)
      /\ Oldest(s.firstMark, M) /\ Linked(MarkGrid, M)
  BY DEF Consumed
<1>3. next <=> Linked(MarkGrid, M \cup {t})
  BY <1>2, LinkedAdded
<1>4. next \in BOOLEAN
  BY DEF IsNext
<1> HIDE DEF next, p
<1>5. p.ok <=> Linked(MarkGrid, M \cup {t})
  BY <1>1, <1>2, <1>3, <1>4
<1>6. ASSUME p.ok PROVE Consumed(p, M \cup {t}, F)
  <2>1. Linked(MarkGrid, M \cup {t}) /\ M \cup {t} \subseteq Nat
    BY <1>2, <1>5, <1>6
  <2>2. Newest(t, M \cup {t}) /\ Oldest(p.firstMark, M \cup {t})
    BY <1>1, <1>2, NewestAdded
  <2>3. QED
    BY <1>1, <1>6, <2>1, <2>2 DEF Consumed
<1>7. QED
  BY <1>5, <1>6 DEF p

LEMMA FundingConsumed ==
  ASSUME NEW s, Retains(s), NEW M, NEW F, Consumed(s, M, F), NEW t \in Nat, \A u \in F : u < t
  PROVE  /\ PushFunding(s, t).ok <=> Linked(FundingGrid, F \cup {t})
         /\ PushFunding(s, t).ok => Consumed(PushFunding(s, t), M, F \cup {t})
<1> DEFINE next == IsNext(FundingGrid, t, s.lastFunding)
           p == PushFunding(s, t)
<1>1. /\ p.funding = Append(s.funding, t) /\ p.bars = s.bars /\ p.mark = s.mark
      /\ p.lastMark = s.lastMark /\ p.firstMark = s.firstMark /\ p.lastFunding = t
      /\ p.firstFunding = IF s.firstFunding = None THEN t ELSE s.firstFunding
      /\ p.ok = (s.ok /\ next)
  <2> HIDE DEF next
  <2>1. QED
    BY FieldNames DEF Retains, PushFunding, next, FundingGrid
<1>2. /\ M \subseteq Nat /\ F \subseteq Nat /\ s.ok /\ Newest(s.lastFunding, F)
      /\ Oldest(s.firstFunding, F) /\ Linked(FundingGrid, F) /\ ToSet(s.funding) \subseteq F
      /\ \A u \in F : u \in ToSet(s.funding) \/ (s.bars # <<>> /\ u <= Last(s.bars) - FundingWindow)
  BY DEF Consumed
<1>3. next <=> Linked(FundingGrid, F \cup {t})
  BY <1>2, LinkedAdded
<1>4. next \in BOOLEAN /\ s.funding \in Seq(Nat)
  BY DEF IsNext, Retains
<1> HIDE DEF next, p
<1>5. p.funding # <<>> /\ ToSet(p.funding) = ToSet(s.funding) \cup {t}
  BY <1>1, <1>4, AppendElements, SMTT(30)
<1>6. p.ok <=> Linked(FundingGrid, F \cup {t})
  BY <1>1, <1>2, <1>3, <1>4
<1>7. ASSUME p.ok PROVE Consumed(p, M, F \cup {t})
  <2>1. Linked(FundingGrid, F \cup {t}) /\ F \cup {t} \subseteq Nat /\ F \cup {t} # {}
    BY <1>2, <1>6, <1>7
  <2>2. Newest(t, F \cup {t}) /\ Oldest(p.firstFunding, F \cup {t})
    BY <1>1, <1>2, NewestAdded
  <2>3. /\ ToSet(p.funding) \subseteq F \cup {t}
        /\ \A u \in F \cup {t} : u \in ToSet(p.funding) \/ (p.bars # <<>> /\ u <= Last(p.bars) - FundingWindow)
    BY <1>1, <1>2, <1>5
  <2>4. QED
    BY <1>1, <1>5, <1>7, <2>1, <2>2, <2>3 DEF Consumed
<1>8. QED
  BY <1>6, <1>7 DEF p

LEMMA FreshConsumed == Consumed(Fresh, {}, {})
BY DEF Consumed, Fresh, Newest, Oldest, Linked, ToSet, BarsInOrder

LEMMA BarConsumed ==
  ASSUME NEW s, Retains(s), NEW M, NEW F, Consumed(s, M, F), NEW d \in Int, PushBar(s, d).ok
  PROVE  Consumed(PushBar(s, d), M, F)
<1> DEFINE p == PushBar(s, d)
           q == Pruned(s, d)
<1>1. /\ p.bars = KeptBars(s, d) /\ p.funding = q.funding /\ p.mark = s.mark /\ p.lastMark = s.lastMark
      /\ p.firstMark = s.firstMark /\ p.lastFunding = s.lastFunding /\ p.firstFunding = s.firstFunding
      /\ p.ok = (s.ok /\ Takes(s, d)) /\ Takes(s, d) \in BOOLEAN
  BY BarIs
<1>2. /\ ToSet(q.funding) \subseteq ToSet(s.funding)
      /\ \A t \in ToSet(s.funding) : t \in ToSet(q.funding) \/ t <= d - FundingWindow
      /\ s.funding = <<>> <=> q.funding = <<>>
  BY PrunedElements
<1>3. s.bars \in Seq(Int) /\ Len(s.bars) <= Lookback + 1 /\ s.ok
  BY DEF Retains, Consumed
<1>4. s.bars # <<>> => d - Last(s.bars) = BarInterval
  BY <1>1, <1>3 DEF Takes
<1>5. BarsInOrder(p.bars) /\ p.bars # <<>> /\ Last(p.bars) = d
  BY <1>1, <1>3, <1>4, KeptBarsAre DEF Consumed
<1>6. ASSUME NEW t \in F PROVE t \in ToSet(q.funding) \/ t <= d - FundingWindow
  <2>1. CASE t \in ToSet(s.funding)
    BY <1>2, <2>1
  <2>2. CASE s.bars # <<>> /\ t <= Last(s.bars) - FundingWindow
    <3>1. Last(s.bars) \in Int /\ d - Last(s.bars) = BarInterval
      BY <1>3, <1>4, <2>2, LastIsElement
    <3>2. t \in Int
      BY DEF Consumed
    <3> DEFINE b == Last(s.bars)
    <3> HIDE DEF b
    <3>3. b \in Int /\ d - b = BarInterval /\ t <= b - FundingWindow
      BY <2>2, <3>1 DEF b
    <3>4. BarInterval \in Nat /\ FundingWindow \in Nat
      BY ClockFacts, FeatureFacts
    <3>5. QED
      BY <3>2, <3>3, <3>4
  <2>3. QED
    BY <2>1, <2>2 DEF Consumed
<1>a. p.ok
  OBVIOUS
<1> HIDE DEF p, q
<1>7. Consumed(p, M, F)
  BY <1>1, <1>2, <1>5, <1>6, <1>a DEF Consumed
<1>8. QED
  BY <1>7 DEF p

LEMMA PushedOk ==
  ASSUME NEW s, Retains(s), NEW t
  PROVE  (PushMark(s, t).ok => s.ok) /\ (PushFunding(s, t).ok => s.ok)
<1> DEFINE a == IsNext(FixedGrid("marks"), t, s.lastMark)
           b == IsNext(FixedGrid("funding"), t, s.lastFunding)
<1>1. a \in BOOLEAN /\ b \in BOOLEAN /\ s.ok \in BOOLEAN
  BY DEF IsNext, Retains
<1>2. PushMark(s, t).ok = (s.ok /\ a) /\ PushFunding(s, t).ok = (s.ok /\ b)
  <2> HIDE DEF a, b
  <2>1. QED
    BY FieldNames DEF Retains, PushMark, PushFunding, a, b
<1> HIDE DEF a, b
<1>3. QED
  BY <1>1, <1>2

(* The events of one kind, one after the other.                                *)
LEMMA AllConsumed ==
  ASSUME NEW s, Retains(s), NEW M, NEW F, Consumed(s, M, F), NEW kind \in {"marks", "funding"},
         NEW times \in Seq(Nat), Ascending(times), Later(s, kind, times),
         \A t \in ToSet(times) : \A u \in (IF kind = "marks" THEN M ELSE F) : u < t,
         PushAll(s, kind, times).ok
  PROVE  Consumed(PushAll(s, kind, times), IF kind = "marks" THEN M \cup ToSet(times) ELSE M,
                                           IF kind = "marks" THEN F ELSE F \cup ToSet(times))
<1> DEFINE P(n) == {times[i] : i \in 1 .. n}
           MM(n) == IF kind = "marks" THEN M \cup P(n) ELSE M
           FF(n) == IF kind = "marks" THEN F ELSE F \cup P(n)
<1>1. Len(times) \in Nat /\ DOMAIN times = 1 .. Len(times) /\ times \in Seq(Int)
      /\ \A i \in 1 .. Len(times) : times[i] \in Nat /\ times[i] \in ToSet(times)
  <2>1. Nat \subseteq Int
    OBVIOUS
  <2>2. times \in Seq(Int)
    BY <2>1, SeqMonotonic
  <2>3. QED
    BY <2>2 DEF ToSet
<1>2. PICK f : PushSteps(f, s, kind, times)
  BY <1>1, PushedDef
<1>3. /\ f[0] = s
      /\ \A m \in 1 .. Len(times) : f[m] = Push(kind, f[m-1], times[m])
      /\ PushAll(s, kind, times) = f[Len(times)]
  BY <1>2 DEF PushSteps
<1> DEFINE Good(n) == Retains(f[n]) /\ f[n].bars = s.bars /\ (f[n].ok => Consumed(f[n], MM(n), FF(n)))
           T == {n \in Nat : n <= Len(times) => Good(n)}
<1>4. 0 \in T
  <2>1. P(0) = {}
    OBVIOUS
  <2>2. MM(0) = M /\ FF(0) = F
    BY <2>1
  <2> HIDE DEF MM, FF
  <2>3. QED
    BY <1>3, <2>2
<1>5. ASSUME NEW n \in Nat, n \in T PROVE n + 1 \in T
  <2>1. SUFFICES ASSUME n + 1 <= Len(times) PROVE Good(n + 1)
    OBVIOUS
  <2>2. Good(n) /\ n + 1 \in 1 .. Len(times) /\ (n + 1) - 1 = n
    BY <1>5, <2>1
  <2> DEFINE g == f[n]
             t == times[n + 1]
  <2>3. f[n + 1] = Push(kind, g, t)
    <3>1. f[n + 1] = Push(kind, f[(n + 1) - 1], times[n + 1])
      BY <1>3, <2>2
    <3>2. QED
      BY <2>2, <3>1
  <2>4. t \in ToSet(times) /\ t \in Nat
    BY <1>1, <2>2
  <2>5. P(n + 1) = P(n) \cup {t}
    OBVIOUS
  <2>6. \A u \in P(n) : u < t
    <3>1. ASSUME NEW i \in 1 .. n PROVE times[i] < t
      <4>1. i \in 1 .. Len(times) /\ i < n + 1
        BY <2>1
      <4>2. QED
        BY <1>1, <2>2, <4>1, AscendingPair
    <3>2. QED
      BY <3>1
  <2>7. Retains(g) /\ g.bars = s.bars /\ (g.ok => Consumed(g, MM(n), FF(n)))
    BY <2>2
  <2> HIDE DEF g, t, P
  <2>8. CASE kind = "marks"
    <3>1. f[n + 1] = PushMark(g, t) /\ MM(n + 1) = MM(n) \cup {t} /\ FF(n + 1) = FF(n)
      BY <2>3, <2>5, <2>8 DEF Push
    <3>2. \A u \in MM(n) : u < t
      BY <2>4, <2>6, <2>8
    <3> HIDE DEF MM, FF
    <3>3. f[n + 1].ok => g.ok
      BY <2>7, <3>1, PushedOk
    <3>4. f[n + 1].ok => Consumed(f[n + 1], MM(n + 1), FF(n + 1))
      BY <2>4, <2>7, <3>1, <3>2, <3>3, MarkConsumed
    <3>5. Retains(f[n + 1]) /\ f[n + 1].bars = s.bars
      BY <2>7, <3>1, MarkRetains
    <3>6. QED
      BY <3>4, <3>5
  <2>9. CASE kind = "funding"
    <3>1. f[n + 1] = PushFunding(g, t) /\ FF(n + 1) = FF(n) \cup {t} /\ MM(n + 1) = MM(n)
      BY <2>3, <2>5, <2>9 DEF Push
    <3>2. \A u \in FF(n) : u < t
      BY <2>4, <2>6, <2>9
    <3> HIDE DEF MM, FF
    <3>3. f[n + 1].ok => g.ok
      BY <2>7, <3>1, PushedOk
    <3>4. f[n + 1].ok => Consumed(f[n + 1], MM(n + 1), FF(n + 1))
      BY <2>4, <2>7, <3>1, <3>2, <3>3, FundingConsumed
    <3>5. t \in Nat /\ (g.bars # <<>> => t > Last(g.bars))
      BY <2>4, <2>7, <2>9 DEF Later
    <3>6. Retains(f[n + 1]) /\ f[n + 1].bars = s.bars
      BY <2>7, <3>1, <3>5, FundingRetains
    <3>7. QED
      BY <3>4, <3>6
  <2>10. QED
    BY <2>8, <2>9
<1> HIDE DEF T
<1>6. Len(times) \in T
  BY <1>1, <1>4, <1>5, Induction
<1>7. P(Len(times)) = ToSet(times)
  BY <1>1 DEF ToSet
<1> HIDE DEF P
<1>8. Consumed(f[Len(times)], MM(Len(times)), FF(Len(times)))
  BY <1>1, <1>3, <1>6 DEF T
<1>9. QED
  BY <1>3, <1>7, <1>8

-----------------------------------------------------------------------------
(* What a bar with a full history asks of the events before it. *)

NewestReach(M, F, d) ==
    \E mark \in M : \E settled \in F :
        /\ Newest(mark, M) /\ mark <= d /\ d - mark <= MarkMaxAge
        /\ GridIndex(MarkGrid, mark) >= LastEligible(MarkGrid, d + 1)
        /\ Newest(settled, F) /\ settled <= d /\ d - settled <= FundingMaxAge
        /\ Slot(settled) >= LastEligible(FundingGrid, d - FundingTolerance + 1)

OldestReach(M, F, d) ==
    \E mark \in M : \E settled \in F :
        /\ Oldest(mark, M) /\ GridIndex(MarkGrid, mark) <= FirstEligible(MarkGrid, d - Lookback * BarInterval)
        /\ Oldest(settled, F)
        /\ Slot(settled) <= FirstEligible(FundingGrid, d - FundingWindow - FundingTolerance + 1)

Enough(M, F, d) == NewestReach(M, F, d) /\ OldestReach(M, F, d)

LEMMA FullHistory ==
  ASSUME NEW bars \in Seq(Int), BarsInOrder(bars), bars # <<>>, Len(bars) = Lookback + 1
  PROVE  bars[1] = Last(bars) - Lookback * BarInterval
<1>1. Len(bars) \in DOMAIN bars /\ Last(bars) = bars[Len(bars)] /\ 1 \in DOMAIN bars
  BY LastIsElement
<1>2. Len(bars) - 1 = Lookback
  BY FeatureFacts
<1>3. bars[Len(bars)] = bars[1] + (Len(bars) - 1) * BarInterval
  BY <1>1, BarSteps
<1>4. bars[1] \in Int /\ Lookback * BarInterval \in Int
  BY <1>1, ClockFacts, FeatureFacts
<1> DEFINE z == Lookback * BarInterval
<1>5. Last(bars) = bars[1] + z /\ z \in Int
  BY <1>1, <1>2, <1>3, <1>4
<1> HIDE DEF z
<1>6. bars[1] = Last(bars) - z
  BY <1>4, <1>5
<1>7. QED
  BY <1>6 DEF z

LEMMA OnlyNewest ==
  ASSUME NEW S, S \subseteq Nat, NEW a, NEW b
  PROVE  /\ Newest(a, S) /\ Newest(b, S) => a = b
         /\ Oldest(a, S) /\ Oldest(b, S) => a = b
         /\ Newest(a, S) \/ Oldest(a, S) => (S # {} <=> a # None) /\ (S # {} => a \in S)
<1>1. \A x \in S : x \in Int /\ x # None
  BY DEF None
<1>2. \A x, y \in S : x <= y /\ y <= x => x = y
  BY <1>1
<1>3. QED
  BY <1>1, <1>2 DEF Newest, Oldest

LEMMA BarAsks ==
  ASSUME NEW s, Retains(s), NEW M, NEW F, Consumed(s, M, F), NEW d \in Int,
         s.bars # <<>> => d - Last(s.bars) = BarInterval, (d + 1) % BarInterval = 0
  PROVE  /\ Takes(s, d) <=> (Len(KeptBars(s, d)) = Lookback + 1 => Enough(M, F, d))
         /\ Takes(s, d) \in BOOLEAN
<1> DEFINE k == KeptBars(s, d)
           t == Shown(s, d)
           q == Pruned(s, d)
<1>1. /\ t.bars = k /\ t.mark = s.mark /\ t.firstMark = s.firstMark
      /\ t.firstFunding = s.firstFunding /\ t.funding = q.funding
  BY ShownFields
<1>2. /\ s.funding = <<>> <=> q.funding = <<>>
      /\ s.funding # <<>> => Last(q.funding) = Last(s.funding)
  BY PrunedElements
<1>3. /\ M \subseteq Nat /\ F \subseteq Nat /\ Newest(s.mark, M) /\ Oldest(s.firstMark, M)
      /\ Newest(s.lastFunding, F) /\ Oldest(s.firstFunding, F)
      /\ s.funding = <<>> <=> F = {}
  BY DEF Consumed
<1>4. s.funding # <<>> => s.lastFunding = Last(s.funding)
  BY DEF Retains
<1>5. Len(k) = Lookback + 1 => k[1] = d - Lookback * BarInterval
  <2>1. s.bars \in Seq(Int) /\ Len(s.bars) <= Lookback + 1 /\ BarsInOrder(s.bars)
    BY DEF Retains, Consumed
  <2>2. k \in Seq(Int) /\ BarsInOrder(k) /\ k # <<>> /\ Last(k) = d
    BY <2>1, KeptBarsAre
  <2>3. QED
    BY <2>2, FullHistory
<1> HIDE DEF k, t, q
<1> DEFINE mf == GridIndex(MarkGrid, s.firstMark) <= FirstEligible(MarkGrid, k[1])
           ml == GridIndex(MarkGrid, s.mark) >= LastEligible(MarkGrid, d + 1)
           ff == Slot(s.firstFunding) <= FirstEligible(FundingGrid, d - FundingWindow - FundingTolerance + 1)
           fl == Slot(s.lastFunding) >= LastEligible(FundingGrid, d - FundingTolerance + 1)
           fresh == AuxiliaryFresh(t, d)
           covered == Covered(t, d)
<1>6. /\ M # {} <=> s.mark # None
      /\ M # {} <=> s.firstMark # None
      /\ F # {} <=> s.firstFunding # None
      /\ F # {} => s.lastFunding \in F
      /\ M # {} => s.mark \in M /\ s.firstMark \in M
      /\ F # {} => s.firstFunding \in F
      /\ F # {} => s.lastFunding # None
  BY <1>3, OnlyNewest
<1>7. fresh <=> /\ M # {} /\ s.mark <= d /\ d - s.mark <= MarkMaxAge
                /\ F # {} /\ s.lastFunding <= d /\ d - s.lastFunding <= FundingMaxAge
  <2>1. AsOf(t.mark, d) <=> M # {} /\ s.mark <= d
    BY <1>1, <1>6 DEF AsOf
  <2>2. F # {} => NewestFunding(t) = s.lastFunding /\ s.lastFunding # None
    BY <1>1, <1>2, <1>3, <1>4, <1>6 DEF NewestFunding
  <2>3. F = {} => NewestFunding(t) = None
    BY <1>1, <1>2, <1>3 DEF NewestFunding
  <2>4. AsOf(NewestFunding(t), d) <=> F # {} /\ s.lastFunding <= d
    BY <2>2, <2>3 DEF AsOf
  <2>5. fresh <=> /\ AsOf(t.mark, d) /\ d - s.mark <= MarkMaxAge
                  /\ AsOf(NewestFunding(t), d) /\ d - NewestFunding(t) <= FundingMaxAge
    BY <1>1 DEF AuxiliaryFresh
  <2> HIDE DEF fresh
  <2>6. QED
    BY <2>1, <2>2, <2>4, <2>5
<1>8. F # {} => (covered <=> s.firstMark # None /\ mf /\ ml /\ s.firstFunding # None /\ ff /\ fl)
  <2>1. F # {} => Last(t.funding) = s.lastFunding
    BY <1>1, <1>2, <1>3, <1>4
  <2>2. covered <=> /\ s.firstMark # None
                    /\ mf /\ ml
                    /\ s.firstFunding # None
                    /\ ff
                    /\ Slot(Last(t.funding)) >= LastEligible(FundingGrid, d - FundingTolerance + 1)
    BY <1>1 DEF Covered, WindowCovered, Slot, MarkGrid, FundingGrid
  <2> HIDE DEF covered, mf, ml, ff
  <2>3. QED
    BY <2>1, <2>2
<1>9. Takes(s, d) <=> (Len(k) = Lookback + 1 => fresh /\ covered)
  BY DEF Takes, k, t
<1>10. Takes(s, d) \in BOOLEAN
  BY BarIs
<1>11. \A x \in M : (Newest(x, M) => x = s.mark) /\ (Oldest(x, M) => x = s.firstMark)
  BY <1>3, OnlyNewest
<1>12. \A x \in F : (Newest(x, F) => x = s.lastFunding) /\ (Oldest(x, F) => x = s.firstFunding)
  BY <1>3, OnlyNewest
<1>13. NewestReach(M, F, d) <=> fresh /\ ml /\ fl
  <2>1. ASSUME NewestReach(M, F, d) PROVE fresh /\ ml /\ fl
    <3>1. PICK mark \in M : \E settled \in F :
             /\ Newest(mark, M) /\ mark <= d /\ d - mark <= MarkMaxAge
             /\ GridIndex(MarkGrid, mark) >= LastEligible(MarkGrid, d + 1)
             /\ Newest(settled, F) /\ settled <= d /\ d - settled <= FundingMaxAge
             /\ Slot(settled) >= LastEligible(FundingGrid, d - FundingTolerance + 1)
      BY <2>1 DEF NewestReach
    <3>2. PICK settled \in F :
             /\ Newest(mark, M) /\ mark <= d /\ d - mark <= MarkMaxAge
             /\ GridIndex(MarkGrid, mark) >= LastEligible(MarkGrid, d + 1)
             /\ Newest(settled, F) /\ settled <= d /\ d - settled <= FundingMaxAge
             /\ Slot(settled) >= LastEligible(FundingGrid, d - FundingTolerance + 1)
      BY <3>1
    <3>3. mark = s.mark /\ settled = s.lastFunding
      BY <1>11, <1>12, <3>2
    <3>4. fresh
      <4> HIDE DEF fresh
      <4>1. QED
        BY <1>7, <3>2, <3>3
    <3>5. QED
      BY <3>2, <3>3, <3>4
  <2>2. ASSUME fresh, ml, fl PROVE NewestReach(M, F, d)
    <3>1. /\ s.mark \in M /\ s.mark <= d /\ d - s.mark <= MarkMaxAge
          /\ s.lastFunding \in F /\ s.lastFunding <= d /\ d - s.lastFunding <= FundingMaxAge
      <4> HIDE DEF fresh
      <4>1. QED
        BY <1>6, <1>7, <2>2
    <3>2. QED
      BY <1>3, <2>2, <3>1 DEF NewestReach
  <2>3. QED
    BY <2>1, <2>2
<1>14. ASSUME Len(k) = Lookback + 1
       PROVE  OldestReach(M, F, d) <=> M # {} /\ F # {} /\ mf /\ ff
  <2>1. k[1] = d - Lookback * BarInterval
    BY <1>5, <1>14 DEF k
  <2> DEFINE first == d - Lookback * BarInterval
  <2>2. mf <=> GridIndex(MarkGrid, s.firstMark) <= FirstEligible(MarkGrid, first)
    BY <2>1
  <2>3. OldestReach(M, F, d) <=>
           \E mark \in M : \E settled \in F :
             /\ Oldest(mark, M) /\ GridIndex(MarkGrid, mark) <= FirstEligible(MarkGrid, first)
             /\ Oldest(settled, F)
             /\ Slot(settled) <= FirstEligible(FundingGrid, d - FundingWindow - FundingTolerance + 1)
    BY DEF OldestReach
  <2> HIDE DEF first, mf
  <2>4. QED
    BY <1>3, <1>6, <1>11, <1>12, <2>2, <2>3
<1>15. ASSUME Len(k) = Lookback + 1 PROVE fresh /\ covered <=> Enough(M, F, d)
  <2> HIDE DEF fresh, covered, mf, ml, ff, fl
  <2>1. fresh => M # {} /\ F # {}
    BY <1>7
  <2>2. QED
    BY <1>6, <1>8, <1>13, <1>14, <1>15, <2>1 DEF Enough
<1> HIDE DEF fresh, covered
<1>16. QED
  BY <1>9, <1>10, <1>15 DEF k

-----------------------------------------------------------------------------
(* The engine starts later than the batch and still has what a bar asks.       *)

Stretch(S, from, to) == {t \in S : from <= t /\ t < to}

LEMMA HistoryFacts ==
  /\ (Lookback + 1) * BarInterval \in Nat
  /\ (Lookback + 1) * BarInterval = Lookback * BarInterval + BarInterval
  /\ Lookback * BarInterval \in Nat
  /\ FundingWindow + 2 * FundingTolerance <= (Lookback + 1) * BarInterval
  /\ MarkMaxAge < (Lookback + 1) * BarInterval
  /\ FundingMaxAge < (Lookback + 1) * BarInterval
<1>1. Lookback \in Int /\ BarInterval \in Int /\ 0 * BarInterval <= Lookback * BarInterval /\ 0 * BarInterval = 0
  BY ClockFacts, FeatureFacts, TimesGrow
<1>2. (Lookback + 1) * BarInterval = Lookback * BarInterval + BarInterval /\ Lookback * BarInterval \in Int
  BY <1>1, TimesNext
<1> DEFINE z == Lookback * BarInterval
<1>3. z \in Nat /\ z + BarInterval \in Nat
  <2>1. z \in Int /\ 0 <= z /\ BarInterval \in Nat
    BY <1>1, <1>2, ClockFacts
  <2> HIDE DEF z
  <2>2. QED
    BY <2>1
<1>4. QED
  BY <1>2, <1>3, FeatureAssumption

LEMMA IndexGrows ==
  ASSUME NEW g, g.first \in Int, g.cadence \in Nat \ {0}, NEW t \in Int, NEW u \in Int, t <= u
  PROVE  GridIndex(g, t) \in Int /\ GridIndex(g, u) \in Int /\ GridIndex(g, t) <= GridIndex(g, u)
<1> DEFINE c == g.cadence
           a == 2 * (t - g.first) + c
           b == 2 * (u - g.first) + c
           k == a \div (2 * c)
<1>1. a \in Int /\ b \in Int /\ a <= b /\ 2 * c \in Nat \ {0}
  <2> DEFINE first == g.first
  <2>1. first \in Int /\ c \in Nat \ {0}
    OBVIOUS
  <2>2. a = 2 * (t - first) + c /\ b = 2 * (u - first) + c
    OBVIOUS
  <2> HIDE DEF first, c, a, b
  <2>3. QED
    BY <2>1, <2>2
<1>2. GridIndex(g, t) = k /\ GridIndex(g, u) = b \div (2 * c)
  BY DEF GridIndex
<1> DEFINE m == 2 * c
<1> HIDE DEF a, b, m
<1>3. k = a \div m /\ m \in Nat \ {0}
  BY <1>1 DEF m
<1> HIDE DEF k
<1>4. k \in Int /\ b \div m \in Int
  BY <1>1, <1>3, DivisionType
<1>5. k <= a \div m
  BY <1>3, <1>4
<1>6. k * m <= a
  BY <1>1, <1>3, <1>4, <1>5, FloorIs
<1>7. k * m <= b
  <2>1. k * m \in Int
    BY <1>3, <1>4
  <2> DEFINE y == k * m
  <2>2. y <= a /\ y \in Int
    BY <1>6, <2>1
  <2> HIDE DEF y
  <2>3. y <= b
    BY <1>1, <2>2
  <2>4. QED
    BY <2>3 DEF y
<1>8. k <= b \div m
  BY <1>1, <1>3, <1>4, <1>7, FloorIs
<1>9. QED
  BY <1>2, <1>4, <1>8 DEF m

(* Linked events leave no slot between them empty that is not a gap.           *)
LEMMA SlotOccupied ==
  ASSUME NEW g, g.first \in Int, g.cadence \in Nat \ {0}, IsFiniteSet(g.gaps), g.gaps \subseteq Int,
         NEW S, NEW b \in Int, S \subseteq 0 .. b, Linked(g, S),
         NEW low \in S, NEW high \in S, \A y \in S : y <= high,
         NEW x \in Int, x \notin g.gaps, GridIndex(g, low) <= x, x <= GridIndex(g, high)
  PROVE  \E u \in S : GridIndex(g, u) = x
<1>1. \A t \in S : t \in Int /\ GridIndex(g, t) \in Int
  <2>1. ASSUME NEW t \in S PROVE t \in Int /\ GridIndex(g, t) \in Int
    <3>1. t \in Int /\ t <= t
      OBVIOUS
    <3>2. QED
      BY <3>1, IndexGrows
  <2>2. QED
    BY <2>1
<1> DEFINE T == {t \in S : GridIndex(g, t) <= x}
           u == Max(T)
<1>2. T \subseteq 0 .. b /\ T # {}
  OBVIOUS
<1>3. u \in T /\ \A t \in T : t <= u
  BY <1>2, GreatestInteger
<1> HIDE DEF u
<1>4. u \in S /\ GridIndex(g, u) <= x /\ \A t \in S : GridIndex(g, t) <= x => t <= u
  BY <1>3
<1>5. SUFFICES ASSUME GridIndex(g, u) # x PROVE FALSE
  BY <1>4
<1> DEFINE V == {t \in S : t > u}
           v == Min(V)
<1>6. V \subseteq 0 .. b /\ V # {}
  <2>1. high # u
    BY <1>1, <1>4, <1>5
  <2>2. u <= high
    BY <1>4
  <2>3. u \in Int /\ high \in Int
    BY <1>1, <1>4
  <2>4. high > u
    BY <2>1, <2>2, <2>3
  <2>5. QED
    BY <2>4
<1>7. v \in V /\ \A t \in V : v <= t
  BY <1>6, LeastInteger
<1> HIDE DEF v
<1>8. v \in S /\ u < v /\ \A t \in S : t <= u \/ v <= t
  BY <1>1, <1>4, <1>7
<1>9. IsNext(g, v, u)
  BY <1>4, <1>8 DEF Linked
<1> DEFINE i == GridIndex(g, u)
           j == GridIndex(g, v)
           H == {h \in g.gaps : i < h /\ h < j}
<1>10. u # None
  <2>1. u \in 0 .. b
    BY <1>4
  <2>2. QED
    BY <2>1 DEF None
<1>11. j > i /\ j - i - 1 = Cardinality(H)
  BY <1>9, <1>10 DEF IsNext
<1>12. i \in Int /\ j \in Int /\ i < x /\ x < j
  <2>1. i \in Int /\ j \in Int /\ i <= x /\ i # x
    BY <1>1, <1>4, <1>5, <1>8
  <2>2. ~ (j <= x)
    <3>1. ~ (v <= u)
      BY <1>1, <1>4, <1>8
    <3>2. QED
      BY <1>4, <1>8, <3>1
  <2> HIDE DEF i, j
  <2>3. QED
    BY <2>1, <2>2
<1> HIDE DEF i, j
<1>13. H \subseteq ((i + 1) .. (j - 1)) \ {x}
  BY <1>12
<1>14. QED
  <2>1. H \subseteq (g.gaps \ {x}) /\ IsFiniteSet(H)
    BY FS_Subset
  <2> DEFINE J == (i + 1) .. (j - 1)
  <2>2. IsFiniteSet(J) /\ Cardinality(J) = j - i - 1
    <3>1. i + 1 \in Int /\ j - 1 \in Int /\ i + 1 <= j - 1
      BY <1>12
    <3>2. IsFiniteSet(J) /\ Cardinality(J) = (j - 1) - (i + 1) + 1
      BY <3>1, FS_Interval
    <3>3. (j - 1) - (i + 1) + 1 = j - i - 1
      BY <1>12
    <3>4. QED
      BY <3>2, <3>3
  <2>3. x \in J
    BY <1>12
  <2>4. IsFiniteSet(J \ {x}) /\ Cardinality(J \ {x}) = Cardinality(J) - 1
    BY <2>2, <2>3, FS_RemoveElement
  <2>5. H \subseteq J \ {x}
    BY <1>13
  <2>6. Cardinality(H) <= Cardinality(J \ {x})
    BY <2>4, <2>5, FS_Subset
  <2>7. Cardinality(H) \in Nat
    BY <2>1, FS_CardinalityType
  <2> HIDE DEF H, J
  <2>8. QED
    BY <1>11, <1>12, <2>2, <2>4, <2>6, <2>7

LEMMA OldestShorter ==
  ASSUME NEW g, g.first \in Int, g.cadence \in Nat \ {0}, IsFiniteSet(g.gaps), g.gaps \subseteq Int,
         NEW S, S \subseteq Int, NEW aux \in Nat, NEW start \in Int, aux <= start, NEW d \in Int, NEW from \in Int,
         NEW T, T = Stretch(S, aux, d + 1), Linked(g, T),
         NEW new \in T, Newest(new, T), start <= new,
         NEW old \in T, Oldest(old, T), GridIndex(g, old) <= FirstEligible(g, from),
         \A u \in T : GridIndex(g, u) = FirstEligible(g, from) => start <= u
  PROVE  \E o \in Stretch(S, start, d + 1) :
            Oldest(o, Stretch(S, start, d + 1)) /\ GridIndex(g, o) <= FirstEligible(g, from)
<1> DEFINE P == Stretch(S, start, d + 1)
           x == FirstEligible(g, from)
           o == Min(P)
<1>1. x \in Nat /\ x \notin g.gaps
  BY FirstEligibleIs
<1>2. /\ P \subseteq start .. d /\ P \subseteq Int /\ T \subseteq 0 .. d
      /\ \A u \in T : u \in Int /\ (start <= u => u \in P)
  <2>1. \A u \in P : u \in Int /\ start <= u /\ u < d + 1
    BY DEF Stretch
  <2>2. \A u \in T : u \in Int /\ aux <= u /\ u < d + 1 /\ u \in S
    BY DEF Stretch
  <2>3. \A u \in T : start <= u => u \in P
    BY <2>2 DEF Stretch
  <2> HIDE DEF P
  <2>4. QED
    BY <2>1, <2>2, <2>3
<1>3. new \in P
  BY <1>2
<1> HIDE DEF P, o
<1>4. o \in P /\ \A u \in P : o <= u
  BY <1>2, <1>3, LeastInteger DEF o
<1>5. Oldest(o, P)
  BY <1>4 DEF Oldest
<1>6. \A u \in P : o <= u => GridIndex(g, o) \in Int /\ GridIndex(g, u) \in Int /\ GridIndex(g, o) <= GridIndex(g, u)
  BY <1>2, <1>4, IndexGrows
<1>7. GridIndex(g, new) \in Int
  BY <1>3, <1>4, <1>6
<1> HIDE DEF x
<1>8. CASE ~ (x <= GridIndex(g, new))
  <2>1. GridIndex(g, o) <= GridIndex(g, new) /\ GridIndex(g, o) \in Int
    BY <1>3, <1>4, <1>6
  <2>2. GridIndex(g, o) <= x
    BY <1>1, <1>7, <1>8, <2>1
  <2>3. QED
    BY <1>4, <1>5, <2>2 DEF P, x
<1>9. CASE x <= GridIndex(g, new)
  <2>1. \A y \in T : y <= new
    BY DEF Newest
  <2>2. GridIndex(g, old) <= x /\ x \in Int
    BY <1>1 DEF x
  <2>3. \E u \in T : GridIndex(g, u) = x
    BY <1>1, <1>2, <1>9, <2>1, <2>2, SlotOccupied
  <2>4. PICK u \in T : GridIndex(g, u) = x
    BY <2>3
  <2>5. u \in P
    BY <1>2, <2>4 DEF x
  <2>6. GridIndex(g, o) <= x
    BY <1>4, <1>6, <2>4, <2>5
  <2>7. QED
    BY <1>4, <1>5, <2>6 DEF P, x
<1>10. QED
  BY <1>8, <1>9

\* The newest event stays, if it is not older than the context is long.
LEMMA NewestShorter ==
  ASSUME NEW S, S \subseteq Int, NEW aux \in Int, NEW start \in Int, aux <= start, NEW d \in Int,
         NEW new \in Stretch(S, aux, d + 1), Newest(new, Stretch(S, aux, d + 1)), start <= new
  PROVE  new \in Stretch(S, start, d + 1) /\ Newest(new, Stretch(S, start, d + 1))
<1>1. /\ new \in Stretch(S, start, d + 1)
      /\ \A y \in Stretch(S, start, d + 1) : y \in Stretch(S, aux, d + 1)
  BY DEF Stretch
<1>2. \A y \in Stretch(S, aux, d + 1) : y <= new
  BY DEF Newest
<1>3. QED
  BY <1>1, <1>2 DEF Newest

\* A mark of the first slot of a history is not older than the history.
LEMMA MarkInHistory ==
  ASSUME NEW k \in Int, NEW from \in Int, k = FirstEligible(MarkGrid, from)
  PROVE  from <= MarkClose(k)
<1> DEFINE r == from - MarkGrid.first
           ceiling == -((-r) \div MarkInterval)
<1>1. MarkInterval \in Nat \ {0} /\ MarkGrid.first = MarkInterval - 1 /\ MarkGrid.cadence = MarkInterval
      /\ MarkGrid.first \in Int
  BY ClockFacts, MarkGridFacts
<1>2. /\ Larger(0, -((-(from - MarkGrid.first)) \div MarkGrid.cadence)) <= k
      /\ Larger(0, -((-(from - MarkGrid.first)) \div MarkGrid.cadence)) \in Nat
  BY <1>1, MarkGridFacts, FirstEligibleIs
<1>3. Larger(0, ceiling) <= k
  BY <1>1, <1>2
<1>4. r \in Int
  BY <1>1
<1> HIDE DEF r
<1>5. ceiling \in Int
  <2>1. -r \in Int
    BY <1>4
  <2>2. (-r) \div MarkInterval \in Int
    BY <1>1, <2>1, DivisionType
  <2>3. QED
    BY <2>2
<1>6. ceiling <= k
  <2> HIDE DEF ceiling
  <2>1. QED
    BY <1>3, <1>5 DEF Larger
<1>7. r <= k * MarkInterval
  BY <1>1, <1>4, <1>6, CeilingIs
<1> DEFINE y == k * MarkInterval
<1>8. y \in Int /\ r <= y /\ MarkClose(k) = y + MarkInterval - 1
  BY <1>1, <1>7 DEF MarkClose
<1> HIDE DEF y
<1>9. QED
  BY <1>1, <1>8 DEF r

LEMMA SettledInHistory ==
  ASSUME NEW t \in Int, OnGrid(FundingGrid, t), NEW from \in Int, Slot(t) = FirstEligible(FundingGrid, from)
  PROVE  from - FundingTolerance <= t
<1> DEFINE k == Slot(t)
           r == from - 0
           ceiling == -((-r) \div FundingInterval)
<1>1. FundingInterval \in Nat \ {0} /\ FundingTolerance \in Nat /\ IsFiniteSet(FundingGrid.gaps)
      /\ FundingGrid.first \in Int /\ FundingGrid.cadence \in Nat \ {0}
  <2>1. IsFiniteSet({})
    BY FS_EmptySet
  <2>2. QED
    BY <2>1, ClockFacts, FundingGridFacts
<1>2. /\ Larger(0, -((-(from - FundingGrid.first)) \div FundingGrid.cadence)) <= FirstEligible(FundingGrid, from)
      /\ FirstEligible(FundingGrid, from) \in Nat
  BY <1>1, FirstEligibleIs
<1>3. Larger(0, ceiling) <= k /\ k \in Nat
  BY <1>2, FundingGridFacts
<1>4. r \in Int /\ r = from
  OBVIOUS
<1> HIDE DEF r
<1>5. ceiling \in Int
  <2>1. -r \in Int
    BY <1>4
  <2>2. (-r) \div FundingInterval \in Int
    BY <1>1, <2>1, DivisionType
  <2>3. QED
    BY <2>2
<1>6. ceiling <= k
  <2> HIDE DEF ceiling, k
  <2>1. QED
    BY <1>3, <1>5 DEF Larger
<1>7. Magnitude(t - 0 - k * FundingInterval) <= FundingTolerance
  BY FundingGridFacts DEF OnGrid, Slot
<1> HIDE DEF k
<1>8. r <= k * FundingInterval
  BY <1>1, <1>3, <1>4, <1>6, CeilingIs
<1> DEFINE y == k * FundingInterval
<1>9. y \in Int /\ r <= y /\ Magnitude(t - 0 - y) <= FundingTolerance
  BY <1>1, <1>3, <1>7, <1>8
<1> HIDE DEF y
<1>10. QED
  BY <1>1, <1>4, <1>9 DEF Magnitude

\* A row computed from the marks M and the settlements F.
RowIs(r, M, F) ==
    LET d == r.ts
    IN  \E mark \in M : \E settled \in F :
            /\ Newest(mark, M) /\ Newest(settled, F)
            /\ r = [ts |-> d, values |-> [bars |-> {d - n * BarInterval : n \in 0 .. Lookback},
                                          mark |-> mark, funding |-> settled, sum |-> Due(F, d)]]

LEMMA OnlyRow ==
  ASSUME NEW M, NEW F, M \subseteq Nat, F \subseteq Nat, NEW a, NEW b, RowIs(a, M, F), RowIs(b, M, F), a.ts = b.ts
  PROVE  a = b
<1> DEFINE d == a.ts
           row(mark, settled) == [ts |-> d, values |-> [bars |-> {d - n * BarInterval : n \in 0 .. Lookback},
                                          mark |-> mark, funding |-> settled, sum |-> Due(F, d)]]
<1>1. PICK m \in M : \E f \in F : Newest(m, M) /\ Newest(f, F) /\ a = row(m, f)
  BY DEF RowIs
<1>2. PICK f \in F : Newest(m, M) /\ Newest(f, F) /\ a = row(m, f)
  BY <1>1
<1>3. PICK x \in M : \E y \in F : Newest(x, M) /\ Newest(y, F) /\ b = row(x, y)
  BY DEF RowIs
<1>4. PICK y \in F : Newest(x, M) /\ Newest(y, F) /\ b = row(x, y)
  BY <1>3
<1>5. m = x /\ f = y
  BY <1>2, <1>4, OnlyNewest
<1>6. QED
  BY <1>2, <1>4, <1>5

LEMMA ConsumedRow ==
  ASSUME NEW s, Retains(s), NEW M, NEW F, Consumed(s, M, F), NEW d \in Int, PushBar(s, d).ok,
         NEW r, PushBar(s, d).row = <<r>>
  PROVE  r.ts = d /\ RowIs(r, M, F) /\ Enough(M, F, d)
<1> DEFINE q == Pruned(s, d)
           t == Shown(s, d)
           k == KeptBars(s, d)
           v == FeatureValues(t, d)
           W == FundingWindow
<1>2. /\ s.ok /\ Takes(s, d) /\ Len(k) = Lookback + 1 /\ r = [ts |-> d, values |-> v]
  <2>1. PushBar(s, d).row = IF Len(k) = Lookback + 1 /\ Takes(s, d) THEN <<[ts |-> d, values |-> v]>> ELSE <<>>
    BY BarIs
  <2>2. PushBar(s, d).ok = (s.ok /\ Takes(s, d)) /\ s.ok \in BOOLEAN /\ Takes(s, d) \in BOOLEAN
    BY BarIs DEF Retains
  <2> DEFINE w == [ts |-> d, values |-> v]
  <2> HIDE DEF k, v
  <2>3. PushBar(s, d).row # <<>>
    OBVIOUS
  <2>4. s.ok /\ Takes(s, d) /\ Len(k) = Lookback + 1 /\ <<r>> = <<w>>
    BY <2>1, <2>2, <2>3
  <2> HIDE DEF w
  <2>5. r = w
    BY <2>4
  <2>6. QED
    BY <2>4, <2>5 DEF w
<1>3. /\ t.bars = k /\ t.mark = s.mark /\ t.funding = q.funding
  BY ShownFields
<1>4. /\ q.funding \in Seq(Nat) /\ ToSet(q.funding) \subseteq ToSet(s.funding)
      /\ \A u \in ToSet(s.funding) : u \in ToSet(q.funding) \/ u <= d - W
      /\ s.funding = <<>> <=> q.funding = <<>>
      /\ s.funding # <<>> => Last(q.funding) = Last(s.funding)
  BY PrunedElements
<1>5. /\ s.bars # <<>> => d - Last(s.bars) = BarInterval
      /\ (d + 1) % BarInterval = 0 /\ AuxiliaryFresh(t, d)
  BY <1>2 DEF Takes
<1>6. Enough(M, F, d)
  <2> HIDE DEF k
  <2>1. Takes(s, d) <=> (Len(k) = Lookback + 1 => Enough(M, F, d))
    BY <1>5, BarAsks DEF k
  <2>2. QED
    BY <1>2, <2>1
<1> HIDE DEF q, t, k
<1>7. v = [bars |-> ToSet(k), mark |-> s.mark, funding |-> Last(q.funding),
           sum |-> {u \in ToSet(q.funding) : d - W < u /\ u <= d}]
  BY <1>3 DEF FeatureValues
<1> HIDE DEF v
<1>8. s.mark # None
  BY <1>3, <1>5 DEF AuxiliaryFresh, AsOf
<1>9. q.funding # <<>> /\ s.funding # <<>>
  BY <1>3, <1>4, <1>5 DEF AuxiliaryFresh, AsOf, NewestFunding
<1>10. /\ M \subseteq Nat /\ F \subseteq Nat /\ Newest(s.mark, M)
       /\ Newest(s.lastFunding, F) /\ F # {} /\ ToSet(s.funding) \subseteq F
       /\ \A u \in F : u \in ToSet(s.funding) \/ (s.bars # <<>> /\ u <= Last(s.bars) - W)
       /\ BarsInOrder(s.bars)
  BY <1>9 DEF Consumed
<1>11. s.mark \in M /\ s.lastFunding \in F
  BY <1>8, <1>10 DEF Newest
<1>12. Last(q.funding) = s.lastFunding
  BY <1>4, <1>9 DEF Retains
<1>13. ToSet(k) = {d - n * BarInterval : n \in 0 .. Lookback}
  <2>1. s.bars \in Seq(Int) /\ Len(s.bars) <= Lookback + 1
    BY DEF Retains
  <2>2. QED
    BY <1>2, <1>5, <1>10, <2>1, KeptBarsAre DEF k
<1>14. {u \in ToSet(q.funding) : d - W < u /\ u <= d} = Due(F, d)
  <2>1. ASSUME NEW u \in F, d - W < u PROVE u \in ToSet(q.funding)
    <3>1. u \in Int /\ W \in Nat /\ BarInterval \in Nat \ {0}
      BY <1>10, FeatureFacts, ClockFacts
    <3>2. ASSUME s.bars # <<>>, u <= Last(s.bars) - W PROVE FALSE
      <4>1. Last(s.bars) \in Int /\ d - Last(s.bars) = BarInterval
        <5>1. s.bars \in Seq(Int)
          BY DEF Retains
        <5>2. QED
          BY <1>5, <3>2, <5>1, LastIsElement
      <4> DEFINE b == Last(s.bars)
      <4>2. b \in Int /\ d - b = BarInterval /\ u <= b - W
        BY <3>2, <4>1
      <4> HIDE DEF b, W
      <4>3. QED
        BY <2>1, <3>1, <4>2
    <3>3. u \in ToSet(s.funding)
      BY <1>10, <3>2
    <3>4. ~ (u <= d - W)
      BY <2>1, <3>1
    <3>5. QED
      BY <1>4, <3>3, <3>4
  <2>2. QED
    BY <1>4, <1>10, <2>1 DEF Due
<1>15. r = [ts |-> d, values |-> [bars |-> {d - n * BarInterval : n \in 0 .. Lookback},
                                  mark |-> s.mark, funding |-> s.lastFunding, sum |-> Due(F, d)]]
  BY <1>2, <1>7, <1>12, <1>13, <1>14
<1>16. r.ts = d
  BY <1>15
<1>17. RowIs(r, M, F)
  BY <1>10, <1>11, <1>15, <1>16 DEF RowIs
<1>18. QED
  BY <1>6, <1>16, <1>17

\* With a full history behind it, a bar asks for nothing before the history.
LEMMA ShorterContext ==
  ASSUME NEW A, \A t \in A : \E k \in Nat : t = MarkClose(k), NEW G, G \subseteq Int,
         NEW aux \in Nat, NEW start \in Int, aux <= start,
         NEW d \in Int, start + (Lookback + 1) * BarInterval <= d + 1,
         NEW M, M = Stretch(A, aux, d + 1), NEW F, F = Stretch(G, aux, d + 1),
         Linked(MarkGrid, M), Linked(FundingGrid, F), Enough(M, F, d)
  PROVE  /\ Enough(Stretch(A, start, d + 1), Stretch(G, start, d + 1), d)
         /\ \A r : r.ts = d /\ RowIs(r, M, F) => RowIs(r, Stretch(A, start, d + 1), Stretch(G, start, d + 1))
<1> DEFINE P == Stretch(A, start, d + 1)
           Q == Stretch(G, start, d + 1)
           h == (Lookback + 1) * BarInterval
           z == Lookback * BarInterval
           tol == FundingTolerance
           W == FundingWindow
<1>1. /\ h \in Nat /\ h = z + BarInterval /\ z \in Nat /\ W + 2 * tol <= h
      /\ MarkMaxAge < h /\ FundingMaxAge < h /\ start + h <= d + 1
      /\ tol \in Nat /\ W \in Nat /\ MarkMaxAge \in Nat /\ FundingMaxAge \in Nat /\ BarInterval \in Nat \ {0}
  BY HistoryFacts, ClockFacts, FeatureFacts
<1>2. A \subseteq Int
  BY MarkIndex
<1>3. M \subseteq Int /\ F \subseteq Int /\ M \subseteq Nat /\ F \subseteq Nat
  <2>1. \A u \in M : u \in Int /\ aux <= u
    BY <1>2 DEF Stretch
  <2>2. \A u \in F : u \in Int /\ aux <= u
    BY DEF Stretch
  <2>3. QED
    BY <2>1, <2>2
<1> HIDE DEF h, z, tol, W
<1>4. PICK mark \in M : \E settled \in F :
        /\ Newest(mark, M) /\ mark <= d /\ d - mark <= MarkMaxAge
        /\ GridIndex(MarkGrid, mark) >= LastEligible(MarkGrid, d + 1)
        /\ Newest(settled, F) /\ settled <= d /\ d - settled <= FundingMaxAge
        /\ Slot(settled) >= LastEligible(FundingGrid, d - FundingTolerance + 1)
  BY DEF Enough, NewestReach
<1>5. PICK settled \in F :
        /\ Newest(mark, M) /\ mark <= d /\ d - mark <= MarkMaxAge
        /\ GridIndex(MarkGrid, mark) >= LastEligible(MarkGrid, d + 1)
        /\ Newest(settled, F) /\ settled <= d /\ d - settled <= FundingMaxAge
        /\ Slot(settled) >= LastEligible(FundingGrid, d - FundingTolerance + 1)
  BY <1>4
<1>6. start <= mark /\ start <= settled
  <2>1. mark \in Int /\ settled \in Int
    BY <1>3
  <2>2. QED
    BY <1>1, <1>5, <2>1
<1>7. mark \in P /\ Newest(mark, P) /\ settled \in Q /\ Newest(settled, Q)
  <2>1. mark \in P /\ Newest(mark, P)
    <3>1. mark \in Stretch(A, aux, d + 1) /\ Newest(mark, Stretch(A, aux, d + 1)) /\ aux \in Int /\ start <= mark
      BY <1>5, <1>6
    <3>2. QED
      BY <1>2, <3>1, NewestShorter
  <2>2. settled \in Q /\ Newest(settled, Q)
    <3>1. settled \in Stretch(G, aux, d + 1) /\ Newest(settled, Stretch(G, aux, d + 1)) /\ aux \in Int /\ start <= settled
      BY <1>5, <1>6
    <3>2. QED
      BY <3>1, NewestShorter
  <2>3. QED
    BY <2>1, <2>2
<1>8. NewestReach(P, Q, d)
  <2> HIDE DEF P, Q
  <2>1. QED
    BY <1>5, <1>7 DEF NewestReach
<1> DEFINE fm == d - Lookback * BarInterval
           ff == d - FundingWindow - FundingTolerance + 1
<1>9. PICK om \in M : \E of \in F :
        /\ Oldest(om, M) /\ GridIndex(MarkGrid, om) <= FirstEligible(MarkGrid, fm)
        /\ Oldest(of, F) /\ Slot(of) <= FirstEligible(FundingGrid, ff)
  BY DEF Enough, OldestReach
<1>10. PICK of \in F :
        /\ Oldest(om, M) /\ GridIndex(MarkGrid, om) <= FirstEligible(MarkGrid, fm)
        /\ Oldest(of, F) /\ Slot(of) <= FirstEligible(FundingGrid, ff)
  BY <1>9
<1>11. fm = d - z /\ ff = d - W - tol + 1 /\ fm \in Int /\ ff \in Int
  <2>1. fm = d - z /\ ff = d - W - tol + 1
    BY DEF z, W, tol
  <2>2. d - z \in Int /\ d - W - tol + 1 \in Int
    BY <1>1
  <2>3. QED
    BY <2>1, <2>2
<1> HIDE DEF fm, ff
<1>12. \A u \in M : GridIndex(MarkGrid, u) = FirstEligible(MarkGrid, fm) => start <= u
  <2>1. ASSUME NEW u \in M, GridIndex(MarkGrid, u) = FirstEligible(MarkGrid, fm) PROVE start <= u
    <3>1. u \in A
      BY DEF Stretch
    <3>2. PICK k \in Nat : u = MarkClose(k)
      BY <3>1
    <3>3. GridIndex(MarkGrid, u) = k /\ u \in Int
      BY <3>2, MarkIndex
    <3>4. fm <= u
      BY <1>11, <2>1, <3>2, <3>3, MarkInHistory
    <3>5. QED
      BY <1>1, <1>11, <3>3, <3>4
  <2>2. QED
    BY <2>1
<1>13. \A u \in F : GridIndex(FundingGrid, u) = FirstEligible(FundingGrid, ff) => start <= u
  <2>1. ASSUME NEW u \in F, GridIndex(FundingGrid, u) = FirstEligible(FundingGrid, ff) PROVE start <= u
    <3>1. u \in Int /\ OnGrid(FundingGrid, u) /\ Slot(u) = FirstEligible(FundingGrid, ff)
      BY <1>3, <2>1 DEF Linked, Slot
    <3>2. ff - tol <= u
      BY <1>11, <3>1, SettledInHistory DEF tol
    <3>3. QED
      BY <1>1, <1>11, <3>1, <3>2
  <2>2. QED
    BY <2>1
<1>14. /\ MarkGrid.first \in Int /\ MarkGrid.cadence \in Nat \ {0}
       /\ IsFiniteSet(MarkGrid.gaps) /\ MarkGrid.gaps \subseteq Int
  <2>1. MarkInterval \in Nat \ {0}
    BY ClockFacts
  <2>2. ASSUME NEW g \in AllowedGaps PROVE (g[1] + MarkInterval) \div MarkInterval \in Int
    <3>1. g[1] \in Int
      BY ClockAssumption
    <3>2. g[1] + MarkInterval \in Int
      BY <2>1, <3>1
    <3>3. QED
      BY <2>1, <3>2, DivisionType
  <2>3. MarkGrid.gaps \subseteq Int
    BY <2>2, MarkGridFacts
  <2>4. QED
    BY <2>1, <2>3, MarkGridFacts
<1>15. /\ FundingGrid.first \in Int /\ FundingGrid.cadence \in Nat \ {0}
       /\ IsFiniteSet(FundingGrid.gaps) /\ FundingGrid.gaps \subseteq Int
  BY ClockFacts, FundingGridFacts, FS_EmptySet
<1>16. \E o \in P : Oldest(o, P) /\ GridIndex(MarkGrid, o) <= FirstEligible(MarkGrid, fm)
  <2> DEFINE g == MarkGrid
  <2>1. g.first \in Int /\ g.cadence \in Nat \ {0} /\ IsFiniteSet(g.gaps) /\ g.gaps \subseteq Int
    BY <1>14
  <2>2. Linked(g, M) /\ GridIndex(g, om) <= FirstEligible(g, fm)
        /\ \A u \in M : GridIndex(g, u) = FirstEligible(g, fm) => start <= u
    BY <1>10, <1>12
  <2> HIDE DEF g
  <2>3. \E o \in Stretch(A, start, d + 1) :
            Oldest(o, Stretch(A, start, d + 1)) /\ GridIndex(g, o) <= FirstEligible(g, fm)
    BY <1>2, <1>5, <1>6, <1>10, <1>11, <2>1, <2>2, OldestShorter
  <2>4. QED
    BY <2>3 DEF g
<1>17. \E o \in Q : Oldest(o, Q) /\ Slot(o) <= FirstEligible(FundingGrid, ff)
  <2> DEFINE g == FundingGrid
  <2>1. g.first \in Int /\ g.cadence \in Nat \ {0} /\ IsFiniteSet(g.gaps) /\ g.gaps \subseteq Int
    BY <1>15
  <2>2. Linked(g, F) /\ GridIndex(g, of) <= FirstEligible(g, ff)
        /\ \A u \in F : GridIndex(g, u) = FirstEligible(g, ff) => start <= u
    BY <1>10, <1>13 DEF Slot
  <2> HIDE DEF g
  <2>3. \E o \in Stretch(G, start, d + 1) :
            Oldest(o, Stretch(G, start, d + 1)) /\ GridIndex(g, o) <= FirstEligible(g, ff)
    BY <1>5, <1>6, <1>10, <1>11, <2>1, <2>2, OldestShorter
  <2>4. QED
    BY <2>3 DEF g, Slot
<1>18. OldestReach(P, Q, d)
  <2> HIDE DEF P, Q
  <2>1. PICK o \in P : Oldest(o, P) /\ GridIndex(MarkGrid, o) <= FirstEligible(MarkGrid, fm)
    BY <1>16
  <2>2. PICK y \in Q : Oldest(y, Q) /\ Slot(y) <= FirstEligible(FundingGrid, ff)
    BY <1>17
  <2>3. QED
    BY <2>1, <2>2 DEF OldestReach, fm, ff
<1>19. Due(F, d) = Due(Q, d)
  <2>1. ASSUME NEW u \in F, d - W < u, u <= d PROVE u \in Q
    <3>1. u \in Int /\ u \in G
      BY <1>3 DEF Stretch
    <3>2. start <= u
      BY <1>1, <2>1, <3>1
    <3>3. u < d + 1
      BY <2>1, <3>1
    <3>4. QED
      BY <3>1, <3>2, <3>3 DEF Stretch
  <2>2. Q \subseteq F
    <3>1. \A u \in Q : u \in G /\ u \in Int /\ start <= u /\ u < d + 1
      BY DEF Stretch
    <3>2. \A u \in Q : aux <= u
      BY <3>1
    <3>3. QED
      BY <3>1, <3>2 DEF Stretch
  <2>3. QED
    BY <2>1, <2>2 DEF Due, W
<1>20. ASSUME NEW r, r.ts = d, RowIs(r, M, F) PROVE RowIs(r, P, Q)
  <2>1. PICK m \in M : \E f \in F :
            /\ Newest(m, M) /\ Newest(f, F)
            /\ r = [ts |-> d, values |-> [bars |-> {d - n * BarInterval : n \in 0 .. Lookback},
                                          mark |-> m, funding |-> f, sum |-> Due(F, d)]]
    BY <1>20 DEF RowIs
  <2>2. PICK f \in F :
            /\ Newest(m, M) /\ Newest(f, F)
            /\ r = [ts |-> d, values |-> [bars |-> {d - n * BarInterval : n \in 0 .. Lookback},
                                          mark |-> m, funding |-> f, sum |-> Due(F, d)]]
    BY <2>1
  <2>3. m = mark /\ f = settled
    BY <1>3, <1>5, <2>2, OnlyNewest
  <2>4. /\ mark \in P /\ settled \in Q /\ Newest(mark, P) /\ Newest(settled, Q)
        /\ r = [ts |-> r.ts, values |-> [bars |-> {r.ts - n * BarInterval : n \in 0 .. Lookback},
                                      mark |-> mark, funding |-> settled, sum |-> Due(Q, r.ts)]]
    <3> HIDE DEF P, Q
    <3>1. QED
      BY <1>7, <1>19, <1>20, <2>2, <2>3
  <2> HIDE DEF P, Q
  <2>5. QED
    BY <2>4 DEF RowIs
<1>21. QED
  BY <1>8, <1>18, <1>20 DEF Enough

-----------------------------------------------------------------------------
(* What the batch read of a whole catalog, and what the engine reads again.    *)

MarksFrom(from, to) == Stretch(ToSet(accepted.events.marks), from, to)
FundingFrom(from, to) == Stretch(ToSet(accepted.events.funding), from, to)

\* The row of d, and that what the engine has at d is enough for it.
Agreed(r) ==
    LET M == MarksFrom(window.start, r.ts + 1)
        F == FundingFrom(window.start, r.ts + 1)
    IN  RowIs(r, M, F) /\ Enough(M, F, r.ts)

\* Events only leave the catalog: as long as none did, none had.
Whole == \A k \in Kinds : ToSet(accepted.events[k]) \subseteq ToSet(catalog[k])

BatchEnd == IF features.bars = <<>> THEN AuxiliaryStart(window) ELSE Last(features.bars) + 1

BatchWhole ==
    Whole =>
        /\ stage = "batch" =>
              /\ Consumed(features, MarksFrom(AuxiliaryStart(window), BatchEnd),
                                    FundingFrom(AuxiliaryStart(window), BatchEnd))
              /\ Ascending(input.marks) /\ Ascending(input.funding)
              /\ ToSet(input.marks) = MarksFrom(BatchEnd, window.end)
              /\ ToSet(input.funding) = FundingFrom(BatchEnd, window.end)
        /\ stage \in {"batch", "batched", "engine"} => \A r \in ToSet(rows) : Agreed(r)
        /\ stage \in {"batched", "engine"} =>
              /\ rows # <<>>
              /\ Linked(MarkGrid, MarksFrom(window.start, window.end))
              /\ Linked(FundingGrid, FundingFrom(window.start, window.end))

\* The events of the window, and those of them the engine has consumed.
WindowOf(k) == Stretch(ToSet(accepted.events[k]), window.start, window.end)
Behind(events, k) == WindowOf(k) \ ToSet(events[k])

\* What the engine has in hand: the events to come, the state and the decisions.
InHand(events, s, made) ==
    /\ \A k \in Kinds :
          /\ events[k] \in Seq(Int) /\ Ascending(events[k]) /\ ToSet(events[k]) \subseteq WindowOf(k)
          /\ \A u \in Behind(events, k) : /\ \A t \in ToSet(events[k]) : u < t
                                          /\ \A b \in ToSet(events.bars) : u <= b
    /\ Consumed(s, Behind(events, "marks"), Behind(events, "funding"))
    /\ IF s.bars = <<>> THEN Behind(events, "bars") = {}
       ELSE Behind(events, "bars") = {b \in Bars : window.start <= b /\ b <= Last(s.bars)}
    /\ Decided(s.bars, {b \in Behind(events, "bars") : window.start + Lookback * BarInterval <= b})
    /\ \A r \in ToSet(made) : Agreed(r)
    /\ Times(made) = {b \in Behind(events, "bars") : window.decision <= b}

EngineWhole == stage = "engine" /\ catalog = accepted.events => InHand(input, features, decisions)

LEMMA StretchParts ==
  ASSUME NEW S, S \subseteq Int, NEW a \in Int, NEW b \in Int, NEW c \in Int, a <= b, b <= c
  PROVE  /\ \A u : u \in Stretch(S, a, c) <=> u \in Stretch(S, a, b) \/ u \in Stretch(S, b, c)
         /\ Stretch(S, a, a) = {} /\ Stretch(S, a, c) \subseteq Int
         /\ \A u \in Stretch(S, a, b) : \A t \in Stretch(S, b, c) : u < t
         /\ a \in Nat => Stretch(S, a, c) \subseteq Nat
<1>1. \A u \in Stretch(S, a, b) : u \in Int /\ u \in S /\ a <= u /\ u < b
  BY DEF Stretch
<1>2. \A u \in Stretch(S, b, c) : u \in Int /\ u \in S /\ b <= u /\ u < c
  BY DEF Stretch
<1>3. \A u \in Stretch(S, a, c) : u \in Int /\ u \in S /\ a <= u /\ u < c
  BY DEF Stretch
<1>4. Stretch(S, a, b) \cup Stretch(S, b, c) \subseteq Stretch(S, a, c)
  <2>1. \A u \in Stretch(S, a, b) : u < c
    BY <1>1
  <2>2. \A u \in Stretch(S, b, c) : a <= u
    BY <1>2
  <2>3. QED
    BY <1>1, <1>2, <2>1, <2>2 DEF Stretch
<1>5. Stretch(S, a, c) \subseteq Stretch(S, a, b) \cup Stretch(S, b, c)
  <2>1. \A u \in Stretch(S, a, c) : u < b \/ b <= u
    BY <1>3
  <2>2. QED
    BY <1>3, <2>1 DEF Stretch
<1>6. Stretch(S, a, a) = {}
  <2>1. \A u \in Stretch(S, a, a) : u \in Int /\ a <= u /\ u < a
    BY DEF Stretch
  <2>2. QED
    BY <2>1
<1>7. \A u \in Stretch(S, a, b) : \A t \in Stretch(S, b, c) : u < t
  BY <1>1, <1>2
<1>8. a \in Nat => Stretch(S, a, c) \subseteq Nat
  BY <1>3
<1>9. \A u : u \in Stretch(S, a, c) <=> u \in Stretch(S, a, b) \/ u \in Stretch(S, b, c)
  BY <1>4, <1>5
<1>10. QED
  BY <1>3, <1>6, <1>7, <1>8, <1>9

LEMMA StrictAscends ==
  ASSUME NEW times \in Seq(Int)
  PROVE  Strict(times) <=> Ascending(times)
<1> DEFINE R == {p \in Int \X Int : p[1] < p[2]}
<1>1. DOMAIN times = 1 .. Len(times) /\ Len(times) \in Nat /\ \A i \in DOMAIN times : times[i] \in Int
  OBVIOUS
<1>2. ASSUME Strict(times) PROVE Ascending(times)
  <2>1. ASSUME NEW j \in DOMAIN times, NEW i \in 1 .. j - 1 PROVE <<times[i], times[j]>> \in R
    <3>1. i \in DOMAIN times /\ i < j
      BY <1>1
    <3>2. times[i] < times[j]
      BY <1>2, <3>1, StrictIncreases
    <3>3. QED
      BY <1>1, <3>1, <3>2
  <2>2. QED
    BY <2>1 DEF Ascending, Pairwise
<1>3. ASSUME Ascending(times) PROVE Strict(times)
  <2>1. ASSUME NEW i \in DOMAIN times \ {1} PROVE times[i-1] < times[i]
    <3>1. i - 1 \in 1 .. Len(times) /\ i \in 1 .. Len(times) /\ i - 1 < i
      BY <1>1
    <3>2. QED
      BY <1>3, <3>1, AscendingPair
  <2>2. QED
    BY <2>1 DEF Strict
<1>4. QED
  BY <1>2, <1>3

LEMMA AllOk ==
  ASSUME NEW s, Retains(s), NEW kind, NEW times, Len(times) \in Nat, DOMAIN times = 1 .. Len(times),
         Later(s, kind, times), PushAll(s, kind, times).ok
  PROVE  s.ok
<1>1. PICK f : PushSteps(f, s, kind, times)
  BY PushedDef
<1>2. /\ f[0] = s
      /\ \A m \in 1 .. Len(times) : f[m] = Push(kind, f[m-1], times[m])
      /\ PushAll(s, kind, times) = f[Len(times)]
  BY <1>1 DEF PushSteps
<1> DEFINE Good(n) == Retains(f[n]) /\ f[n].bars = s.bars /\ (f[n].ok => s.ok)
           T == {n \in Nat : n <= Len(times) => Good(n)}
<1>3. 0 \in T
  BY <1>2
<1>4. ASSUME NEW n \in Nat, n \in T PROVE n + 1 \in T
  <2>1. SUFFICES ASSUME n + 1 <= Len(times) PROVE Good(n + 1)
    OBVIOUS
  <2>2. Good(n) /\ n + 1 \in 1 .. Len(times) /\ (n + 1) - 1 = n
    BY <1>4, <2>1
  <2> DEFINE g == f[n]
             t == times[n + 1]
  <2>3. f[n + 1] = Push(kind, g, t)
    <3>1. f[n + 1] = Push(kind, f[(n + 1) - 1], times[n + 1])
      BY <1>2, <2>2
    <3>2. QED
      BY <2>2, <3>1
  <2>4. t \in ToSet(times)
    BY <2>2 DEF ToSet
  <2>5. Retains(g) /\ g.bars = s.bars /\ (g.ok => s.ok)
    BY <2>2
  <2> HIDE DEF g, t
  <2>6. (PushMark(g, t).ok => g.ok) /\ (PushFunding(g, t).ok => g.ok)
    BY <2>5, PushedOk
  <2>7. CASE kind = "marks"
    <3>1. f[n + 1] = PushMark(g, t)
      BY <2>3, <2>7 DEF Push
    <3>2. Retains(f[n + 1]) /\ f[n + 1].bars = s.bars
      BY <2>5, <3>1, MarkRetains
    <3>3. QED
      BY <2>5, <2>6, <3>1, <3>2
  <2>8. CASE kind # "marks"
    <3>1. f[n + 1] = PushFunding(g, t)
      BY <2>3, <2>8 DEF Push
    <3>2. t \in Nat /\ (g.bars # <<>> => t > Last(g.bars))
      BY <2>4, <2>5, <2>8 DEF Later
    <3>3. Retains(f[n + 1]) /\ f[n + 1].bars = s.bars
      BY <2>5, <3>1, <3>2, FundingRetains
    <3>4. QED
      BY <2>5, <2>6, <3>1, <3>3
  <2>9. QED
    BY <2>7, <2>8
<1> HIDE DEF T
<1>5. Len(times) \in T
  BY <1>3, <1>4, Induction
<1>6. QED
  BY <1>2, <1>5 DEF T

\* What is fed to a bar are the events up to it.
LEMMA FedConsumed ==
  ASSUME NEW s, Retains(s), NEW events \in [Kinds -> Seq(Int)], Later(s, "funding", events.funding),
         NEW A, A \subseteq Int, NEW G, G \subseteq Int,
         NEW aux \in Nat, NEW b \in Int, NEW d \in Int, NEW end \in Int, aux <= b, b <= d + 1, d < end,
         Consumed(s, Stretch(A, aux, b), Stretch(G, aux, b)),
         Ascending(events.marks), ToSet(events.marks) = Stretch(A, b, end),
         Ascending(events.funding), ToSet(events.funding) = Stretch(G, b, end),
         FeedBar(s, events, d).ok
  PROVE  \E g : /\ Retains(g) /\ g.bars = s.bars /\ FeedBar(s, events, d) = PushBar(g, d)
                /\ Consumed(g, Stretch(A, aux, d + 1), Stretch(G, aux, d + 1))
<1> DEFINE U == UpTo(events.marks, d)
           V == UpTo(events.funding, d)
           M == Stretch(A, aux, b)
           F == Stretch(G, aux, b)
           m == PushAll(s, "marks", U)
           g == PushAll(m, "funding", V)
<1>1. events.marks \in Seq(Int) /\ events.funding \in Seq(Int)
  BY DEF Kinds
<1>2. FeedBar(s, events, d) = PushBar(g, d)
  BY DEF FeedBar
<1>3. ASSUME NEW times \in Seq(Int), Ascending(times), NEW S, S \subseteq Int, ToSet(times) = Stretch(S, b, end)
      PROVE  /\ UpTo(times, d) \in Seq(Nat) /\ Ascending(UpTo(times, d))
             /\ ToSet(UpTo(times, d)) = Stretch(S, b, d + 1)
             /\ Stretch(S, aux, b) \cup Stretch(S, b, d + 1) = Stretch(S, aux, d + 1)
             /\ \A t \in Stretch(S, b, d + 1) : \A u \in Stretch(S, aux, b) : u < t
             /\ ToSet(UpTo(times, d)) \subseteq ToSet(times)
  <2> DEFINE k == UpTo(times, d)
             T == {t \in ToSet(times) : t <= d}
  <2>1. k = Kept(times, T)
    BY DEF UpTo
  <2>2. k \in Seq(Int \cap T) /\ (\A x : x \in ToSet(k) <=> x \in ToSet(times) /\ x \in T)
    <3> HIDE DEF T, k
    <3>1. QED
      BY <2>1, KeptElements
  <2>3. Ascending(k)
    <3> HIDE DEF T, k
    <3>1. QED
      BY <1>3, <2>1, KeptPairs DEF Ascending
  <2>4. ToSet(k) = Stretch(S, b, d + 1)
    <3>1. \A x \in ToSet(times) : x \in Int /\ x \in S /\ b <= x /\ x < end
      BY <1>3 DEF Stretch
    <3>2. \A x \in Int : x <= d <=> x < d + 1
      OBVIOUS
    <3>3. \A x \in Int : x < d + 1 => x < end
      OBVIOUS
    <3>4. \A x : x \in ToSet(k) <=> x \in ToSet(times) /\ x <= d
      BY <2>2
    <3> HIDE DEF k
    <3>5. \A x \in ToSet(k) : x \in Stretch(S, b, d + 1)
      BY <3>1, <3>2, <3>4 DEF Stretch
    <3>6. \A x \in Stretch(S, b, d + 1) : x \in Int /\ x \in S /\ b <= x /\ x < d + 1
      BY <1>3 DEF Stretch
    <3>7. \A x \in Stretch(S, b, d + 1) : x \in Stretch(S, b, end)
      BY <3>3, <3>6 DEF Stretch
    <3>8. QED
      BY <1>3, <3>2, <3>4, <3>5, <3>6, <3>7
  <2>5. d + 1 \in Int /\ aux \in Int
    OBVIOUS
  <2>6. /\ Stretch(S, aux, b) \cup Stretch(S, b, d + 1) = Stretch(S, aux, d + 1)
        /\ \A u \in Stretch(S, aux, b) : \A t \in Stretch(S, b, d + 1) : u < t
    <3> DEFINE c == d + 1
    <3>1. c \in Int /\ aux \in Int /\ b \in Int /\ aux <= b /\ b <= c /\ S \subseteq Int
      BY <1>3, <2>5
    <3> HIDE DEF c
    <3>2. /\ Stretch(S, aux, b) \cup Stretch(S, b, c) = Stretch(S, aux, c)
          /\ \A u \in Stretch(S, aux, b) : \A t \in Stretch(S, b, c) : u < t
      <4>1. Stretch(S, aux, b) \cup Stretch(S, b, c) = Stretch(S, aux, c)
        <5>1. \A u : u \in Stretch(S, aux, c) <=> u \in Stretch(S, aux, b) \/ u \in Stretch(S, b, c)
          BY <3>1, StretchParts
        <5>2. QED
          BY <5>1
      <4>2. \A u \in Stretch(S, aux, b) : \A t \in Stretch(S, b, c) : u < t
        <5>1. (\A u \in Stretch(S, aux, b) : u \in Int /\ u < b) /\ (\A t \in Stretch(S, b, c) : t \in Int /\ b <= t)
          BY <3>1 DEF Stretch
        <5>2. QED
          BY <3>1, <5>1
      <4>3. QED
        BY <4>1, <4>2
    <3>3. QED
      BY <3>2 DEF c
  <2>7. b \in Nat
    OBVIOUS
  <2>8. Int \cap T \subseteq Nat
    <3>1. \A x \in ToSet(times) : x \in Int /\ b <= x
      BY <1>3 DEF Stretch
    <3>2. \A x \in Int : b <= x => x \in Nat
      BY <2>7
    <3>3. QED
      BY <3>1, <3>2
  <2>9. k \in Seq(Nat)
    <3> HIDE DEF T, k
    <3>1. QED
      BY <2>2, <2>8, SeqMonotonic
  <2> HIDE DEF k
  <2>10. QED
    BY <2>2, <2>3, <2>4, <2>6, <2>9 DEF k
<1>4. /\ U \in Seq(Nat) /\ Ascending(U) /\ ToSet(U) = Stretch(A, b, d + 1)
      /\ M \cup Stretch(A, b, d + 1) = Stretch(A, aux, d + 1)
      /\ \A t \in Stretch(A, b, d + 1) : \A u \in M : u < t
  BY <1>1, <1>3
<1>5. /\ V \in Seq(Nat) /\ Ascending(V) /\ ToSet(V) = Stretch(G, b, d + 1)
      /\ F \cup Stretch(G, b, d + 1) = Stretch(G, aux, d + 1)
      /\ \A t \in Stretch(G, b, d + 1) : \A u \in F : u < t
      /\ ToSet(V) \subseteq ToSet(events.funding)
  BY <1>1, <1>3
<1> HIDE DEF U, V
<1>6. Len(U) \in Nat /\ DOMAIN U = 1 .. Len(U) /\ Len(V) \in Nat /\ DOMAIN V = 1 .. Len(V)
  BY <1>4, <1>5
<1>7. Later(s, "marks", U)
  BY DEF Later
<1>8. Retains(m) /\ m.bars = s.bars
  BY <1>6, <1>7, AllRetain
<1>9. Later(m, "funding", V)
  BY <1>5, <1>8 DEF Later
<1>a. m = PushAll(s, "marks", U)
  OBVIOUS
<1> HIDE DEF m
<1>10. Retains(g) /\ g.bars = m.bars
  BY <1>6, <1>8, <1>9, AllRetain
<1>b. g = PushAll(m, "funding", V)
  OBVIOUS
<1> HIDE DEF g
<1>11. g.ok
  <2>1. PushBar(g, d).ok = (g.ok /\ Takes(g, d)) /\ Takes(g, d) \in BOOLEAN /\ g.ok \in BOOLEAN
    BY <1>10, BarIs DEF Retains
  <2>2. QED
    BY <1>2, <2>1
<1>12. m.ok
  BY <1>6, <1>8, <1>9, <1>11, <1>b, AllOk
<1> HIDE DEF M, F
<1>13. Consumed(m, M \cup ToSet(U), F)
  <2>1. Consumed(s, M, F) /\ PushAll(s, "marks", U).ok
    BY <1>12, <1>a DEF M, F
  <2>2. \A t \in ToSet(U) : \A u \in M : u < t
    BY <1>4
  <2>3. QED
    BY <1>4, <1>7, <1>a, <2>1, <2>2, AllConsumed
<1>14. Consumed(g, M \cup ToSet(U), F \cup ToSet(V))
  <2> DEFINE MU == M \cup ToSet(U)
  <2>1. Consumed(m, MU, F) /\ PushAll(m, "funding", V).ok
    BY <1>11, <1>13, <1>b
  <2>2. \A t \in ToSet(V) : \A u \in F : u < t
    BY <1>5
  <2> HIDE DEF MU
  <2>3. Consumed(g, MU, F \cup ToSet(V))
    BY <1>5, <1>8, <1>9, <1>b, <2>1, <2>2, AllConsumed
  <2>4. QED
    BY <2>3 DEF MU
<1>15. Consumed(g, Stretch(A, aux, d + 1), Stretch(G, aux, d + 1))
  BY <1>4, <1>5, <1>14
<1>16. QED
  BY <1>2, <1>8, <1>10, <1>15

LEMMA ReadyHistory ==
  ASSUME NEW start \in Int, start % BarInterval = 0, NEW d \in Bars, start + Lookback * BarInterval <= d
  PROVE  start + (Lookback + 1) * BarInterval <= d + 1
<1> DEFINE B == BarInterval
           j == start \div B
           z == Lookback * B
<1>1. B \in Nat \ {0} /\ Lookback \in Int /\ z \in Nat /\ (Lookback + 1) * BarInterval = z + B
  BY ClockFacts, FeatureFacts, HistoryFacts
<1>2. j \in Int /\ start = j * B
  <2>1. start = (start \div B) * B + (start % B) /\ start \div B \in Int
    BY <1>1, Division, DivisionType
  <2> HIDE DEF B
  <2>2. j * B \in Int
    BY <1>1, <2>1
  <2>3. start % B = 0
    BY DEF B
  <2>4. QED
    BY <1>1, <2>1, <2>2, <2>3
<1>3. PICK k \in 1 .. BarCount : d = k * B - 1
  BY DEF Bars
<1>4. k \in Int /\ k * B \in Int
  <2>1. k \in Int
    BY <1>3, BarCountFacts
  <2> HIDE DEF B
  <2>2. QED
    BY <1>1, <2>1
<1> HIDE DEF j, B
<1>5. (j + Lookback) * B = j * B + Lookback * B /\ j + Lookback \in Int
  BY <1>1, <1>2
<1>6. (j + Lookback) * B < k * B
  <2> DEFINE x == j * B
             y == k * B
  <2>1. x = start /\ y \in Int /\ d = y - 1 /\ (j + Lookback) * B = x + z /\ x + z <= d
    BY <1>2, <1>3, <1>4, <1>5 DEF B
  <2>2. (j + Lookback) * B < y
    <3> HIDE DEF x, y, z
    <3>1. QED
      BY <1>1, <2>1
  <2>3. QED
    BY <2>2
<1>7. j + Lookback < k
  BY <1>1, <1>4, <1>5, <1>6, TimesLess
<1>8. (j + Lookback) + 1 <= k
  BY <1>4, <1>5, <1>7
<1>9. ((j + Lookback) + 1) * B <= k * B /\ ((j + Lookback) + 1) * B = (j + Lookback) * B + B
  BY <1>1, <1>4, <1>5, <1>8, TimesGrow, TimesNext
<1>10. QED
  <2> DEFINE x == j * B
             y == k * B
  <2>1. x = start /\ y \in Int /\ d = y - 1 /\ (x + z) + B <= y
    BY <1>2, <1>3, <1>4, <1>5, <1>9
  <2> HIDE DEF x, y, z
  <2>2. start + (z + B) <= d + 1
    BY <1>1, <2>1
  <2>3. QED
    BY <1>1, <2>2 DEF z, B

LEMMA SeriesFacts ==
  ASSUME AcceptedData, stage \in ReadStages
  PROVE  /\ accepted.events \in [Kinds -> Seq(Int)]
         /\ \A k \in Kinds : Ascending(accepted.events[k]) /\ ToSet(accepted.events[k]) \subseteq Int
         /\ \A t \in ToSet(accepted.events.marks) : \E k \in Nat : t = MarkClose(k)
         /\ ToSet(accepted.events.bars) = Bars
<1>1. /\ accepted.events \in [Kinds -> Seq(Int)] /\ accepted.events.bars = GridBars
      /\ MarksOnGrid(accepted.events.marks, accepted.coverage.marks.gaps)
      /\ Ascending(accepted.events.funding)
  BY DEF AcceptedData
<1>2. Ascending(accepted.events.marks) /\ \A t \in ToSet(accepted.events.marks) : \E k \in Nat : t = MarkClose(k)
  BY <1>1 DEF MarksOnGrid
<1>3. \A k \in Kinds : Ascending(accepted.events[k])
  BY <1>1, <1>2, GridAscends DEF Kinds
<1>4. \A k \in Kinds : ToSet(accepted.events[k]) \subseteq Int
  BY <1>1 DEF ToSet
<1>5. QED
  BY <1>1, <1>2, <1>3, <1>4, GridElements

LEMMA WindowFacts ==
  ASSUME Controlled, LegalWindow(window)
  PROVE  /\ window.start \in Nat /\ window.end \in Int /\ window.decision \in Int /\ window.start < window.end
         /\ window.end <= WindowEnd
         /\ window.start % BarInterval = 0 /\ window.end % BarInterval = 0
         /\ AuxiliaryStart(window) \in Nat /\ AuxiliaryStart(window) <= window.start
<1>1. window.start \in Int /\ window.end \in Int /\ window.decision \in Int
  BY WindowType
<1>2. window.start < window.end /\ window.start >= 0 /\ window.end <= WindowEnd
  BY DEF LegalWindow
<1>3. window \in Windows
  <2>1. window # NoWindow
    BY <1>2 DEF NoWindow
  <2>2. QED
    BY <2>1 DEF Controlled
<1>4. window.start % BarInterval = 0 /\ window.end % BarInterval = 0
  BY <1>3, DatasetAssumption
<1>5. AuxiliaryStart(window) \in Nat /\ AuxiliaryStart(window) <= window.start
  <2> DEFINE x == window.start
  <2>1. AuxiliaryStart(window) = Larger(x - FundingInterval, 0) /\ x \in Int /\ x >= 0 /\ FundingInterval \in Nat \ {0}
    BY <1>1, <1>2, ClockFacts DEF AuxiliaryStart
  <2> HIDE DEF x
  <2>2. Larger(x - FundingInterval, 0) \in Nat /\ Larger(x - FundingInterval, 0) <= x
    BY <2>1 DEF Larger
  <2>3. QED
    BY <2>1, <2>2 DEF x
<1>6. QED
  BY <1>1, <1>2, <1>4, <1>5

-----------------------------------------------------------------------------
(* The batch of a whole catalog. *)

LEMMA WholeSets ==
  ASSUME Held, Whole, stage \in {"accepted", "bound", "batch", "batched", "engine"}
  PROVE  \A k \in Kinds : ToSet(catalog[k]) = ToSet(accepted.events[k])
BY DEF Held, Whole

LEMMA WholeKept ==
  ASSUME Typed, [Next]_vars, accepted' = accepted, Whole',
         stage \in {"accepted", "bound", "batch", "batched", "engine"}
  PROVE  Whole
<1>1. catalog \in [Kinds -> Seq(Int)]
  BY DEF Typed, Drawn
<1>2. CASE CatalogFault
  <2>1. PICK k \in Kinds : \E times \in Miswritten(catalog[k]) \cup Swapped(catalog[k]) :
              catalog' = [catalog EXCEPT ![k] = times]
    BY <1>2 DEF CatalogFault
  <2>2. PICK times \in Miswritten(catalog[k]) \cup Swapped(catalog[k]) : catalog' = [catalog EXCEPT ![k] = times]
    BY <2>1
  <2>3. ToSet(times) \subseteq ToSet(catalog[k])
    BY <1>1, AlteredElements
  <2>4. catalog'[k] = times /\ \A j \in Kinds : j # k => catalog'[j] = catalog[j]
    BY <1>1, <2>2
  <2>5. \A j \in Kinds : ToSet(catalog'[j]) \subseteq ToSet(catalog[j])
    BY <2>3, <2>4
  <2>6. \A j \in Kinds : ToSet(accepted.events[j]) \subseteq ToSet(catalog'[j])
    BY DEF Whole
  <2>7. QED
    BY <2>5, <2>6 DEF Whole
<1>3. CASE ~ CatalogFault
  <2>1. catalog' = catalog
    BY <1>3 DEF Next, SourceFault, ProbeIndex, LoadBars, LoadMarksAndFunding, WriteCatalog, CrosscheckCatalog, Accept,
                Bind, BatchRead, BatchBar, FinishBatch, EngineRead, OnMarkPrice, OnFundingRate, OnBar, Parity,
                vars, research
  <2>2. QED
    BY <2>1 DEF Whole
<1>4. QED
  BY <1>2, <1>3

LEMMA WithinWhole ==
  ASSUME NEW times \in Seq(Int), NEW S, ToSet(times) = S, NEW from \in Int, NEW to \in Int
  PROVE  /\ Within(times, from, to) \in Seq(Int) /\ ToSet(Within(times, from, to)) = Stretch(S, from, to)
         /\ Ascending(times) => Ascending(Within(times, from, to))
<1>1. S \subseteq Int
  BY DEF ToSet
<1>2. Within(times, from, to) \in Seq(Int)
      /\ \A t : t \in ToSet(Within(times, from, to)) <=> t \in S /\ t \in Int /\ from <= t /\ t < to
  BY WithinIs
<1>3. ToSet(Within(times, from, to)) = Stretch(S, from, to)
  BY <1>1, <1>2 DEF Stretch
<1>4. Ascending(times) => Ascending(Within(times, from, to))
  BY KeptPairs DEF Ascending, Within
<1>5. QED
  BY <1>2, <1>3, <1>4

LEMMA BatchReadWhole ==
  ASSUME RetainInv, AcceptedData, Held, Whole, BatchRead, stage' = "batch"
  PROVE  /\ features' = Fresh /\ Ascending(input'.marks) /\ Ascending(input'.funding)
         /\ ToSet(input'.marks) = MarksFrom(AuxiliaryStart(window), window.end)
         /\ ToSet(input'.funding) = FundingFrom(AuxiliaryStart(window), window.end)
<1>1. /\ stage = "bound" /\ features' = Fresh /\ input' = WindowEvents
      /\ Strict(WindowEvents.marks) /\ Strict(WindowEvents.funding)
  BY DEF BatchRead, Pass
<1>2. Controlled /\ LegalWindow(window) /\ catalog \in [Kinds -> Seq(Int)]
  BY <1>1 DEF RetainInv, Typed, Drawn, WindowIsLegal
<1>3. window.end \in Int /\ AuxiliaryStart(window) \in Int
  BY <1>2, WindowFacts
<1>4. \A k \in Kinds : ToSet(catalog[k]) = ToSet(accepted.events[k])
  BY <1>1, WholeSets
<1>5. /\ WindowEvents.marks = Within(catalog.marks, AuxiliaryStart(window), window.end)
      /\ WindowEvents.funding = Within(catalog.funding, AuxiliaryStart(window), window.end)
  BY DEF WindowEvents, WindowFrom, WindowTo, Kinds
<1>6. catalog.marks \in Seq(Int) /\ catalog.funding \in Seq(Int)
      /\ ToSet(catalog.marks) = ToSet(accepted.events.marks) /\ ToSet(catalog.funding) = ToSet(accepted.events.funding)
  BY <1>2, <1>4 DEF Kinds
<1>7. /\ WindowEvents.marks \in Seq(Int)
      /\ ToSet(WindowEvents.marks) = MarksFrom(AuxiliaryStart(window), window.end)
  BY <1>3, <1>5, <1>6, WithinWhole DEF MarksFrom
<1>8. /\ WindowEvents.funding \in Seq(Int)
      /\ ToSet(WindowEvents.funding) = FundingFrom(AuxiliaryStart(window), window.end)
  BY <1>3, <1>5, <1>6, WithinWhole DEF FundingFrom
<1>9. QED
  BY <1>1, <1>7, <1>8, StrictAscends

LEMMA BatchBarWhole ==
  ASSUME RetainInv, AcceptedData, BatchRun, BatchWhole, Whole, BatchBar, stage' = "batch"
  PROVE  LET e == Last(features'.bars) + 1
             aux == AuxiliaryStart(window)
         IN  /\ features'.bars # <<>>
             /\ Consumed(features', MarksFrom(aux, e), FundingFrom(aux, e))
             /\ Ascending(input'.marks) /\ Ascending(input'.funding)
             /\ ToSet(input'.marks) = MarksFrom(e, window.end)
             /\ ToSet(input'.funding) = FundingFrom(e, window.end)
             /\ \A r \in ToSet(rows') : Agreed(r)
<1> DEFINE d == Head(Undecided)
           s == FeedBar(features, input, d)
           A == ToSet(accepted.events.marks)
           G == ToSet(accepted.events.funding)
           aux == AuxiliaryStart(window)
           b == BatchEnd
           end == window.end
<1>1. /\ stage = "batch" /\ Undecided # <<>> /\ features' = s /\ s.ok /\ rows' = rows \o s.row
      /\ input' = [input EXCEPT !.marks = After(@, d), !.funding = After(@, d)]
  BY DEF BatchBar, Pass
<1>2. Drawn /\ Controlled /\ Retains(features) /\ LegalWindow(window) /\ Later(features, "funding", input.funding)
  BY <1>1 DEF RetainInv, Typed, WindowIsLegal, Coming
<1>3. /\ input \in [Kinds -> Seq(Int)] /\ rows \in Seq(ToSet(rows))
      /\ input.marks \in Seq(Int) /\ input.funding \in Seq(Int)
  BY <1>1, <1>2 DEF Drawn, Rowed, Kinds
<1>4. /\ window.start \in Nat /\ end \in Int /\ aux \in Nat /\ aux <= window.start
      /\ window.start % BarInterval = 0
  BY <1>2, WindowFacts
<1>5. /\ A \subseteq Int /\ G \subseteq Int /\ \A t \in A : \E k \in Nat : t = MarkClose(k)
  BY <1>1, SeriesFacts DEF ReadStages, Kinds
<1>6. /\ Undecided \in Seq(Int) /\ Ascending(Undecided)
      /\ \A t : t \in ToSet(Undecided) <=>
            /\ t \in Bars /\ window.start <= t /\ t < end
            /\ features.bars # <<>> => t > Last(features.bars)
  BY <1>1, UndecidedIs
<1>7. d \in ToSet(Undecided)
  BY <1>1, <1>6, HeadIsLeast
<1>a. s = FeedBar(features, input, d)
  OBVIOUS
<1> HIDE DEF d
<1>8. /\ d \in Bars /\ d \in Nat /\ window.start <= d /\ d < end
      /\ features.bars # <<>> => d > Last(features.bars)
  BY <1>6, <1>7, BarFacts
<1>9. b \in Int /\ aux <= b /\ b <= d + 1
  <2>1. CASE features.bars = <<>>
    <3>1. b = aux
      BY <2>1 DEF BatchEnd
    <3> HIDE DEF b, aux
    <3>2. QED
      BY <1>4, <1>8, <3>1
  <2>2. CASE features.bars # <<>>
    <3> DEFINE l == Last(features.bars)
    <3>1. l \in Int /\ window.start <= l
      <4>1. features.bars \in Seq(Int)
        BY <1>2 DEF Retains
      <4>2. Decided(features.bars, Times(rows))
        BY <1>1 DEF BatchRun
      <4>3. QED
        BY <2>2, <4>1, <4>2, LastIsElement DEF Decided
    <3>2. b = l + 1 /\ d > l
      BY <1>8, <2>2 DEF BatchEnd
    <3> HIDE DEF l, b, aux
    <3>3. QED
      BY <1>4, <1>8, <3>1, <3>2
  <2>3. QED
    BY <2>1, <2>2
<1>10. /\ Consumed(features, Stretch(A, aux, b), Stretch(G, aux, b))
       /\ Ascending(input.marks) /\ Ascending(input.funding)
       /\ ToSet(input.marks) = Stretch(A, b, end) /\ ToSet(input.funding) = Stretch(G, b, end)
       /\ \A r \in ToSet(rows) : Agreed(r)
  BY <1>1 DEF BatchWhole, MarksFrom, FundingFrom
<1> HIDE DEF A, G, aux, b, end, s
<1>11. \E g : /\ Retains(g) /\ g.bars = features.bars /\ FeedBar(features, input, d) = PushBar(g, d)
              /\ Consumed(g, Stretch(A, aux, d + 1), Stretch(G, aux, d + 1))
  <2>1. d \in Int /\ FeedBar(features, input, d).ok
    BY <1>1, <1>8, <1>a
  <2>2. QED
    BY <1>2, <1>3, <1>4, <1>5, <1>8, <1>9, <1>10, <2>1, FedConsumed
<1>12. PICK g : /\ Retains(g) /\ g.bars = features.bars /\ FeedBar(features, input, d) = PushBar(g, d)
                /\ Consumed(g, Stretch(A, aux, d + 1), Stretch(G, aux, d + 1))
  BY <1>11
<1>13. /\ s = PushBar(g, d) /\ s.bars # <<>> /\ Last(s.bars) = d
       /\ Consumed(s, Stretch(A, aux, d + 1), Stretch(G, aux, d + 1))
  <2>1. s = PushBar(g, d) /\ PushBar(g, d).ok /\ d \in Int
    BY <1>1, <1>8, <1>12, <1>a
  <2>2. QED
    BY <1>12, <2>1, BarRetains, BarConsumed
<1>14. ASSUME NEW times \in Seq(Int), Ascending(times), NEW S, S \subseteq Int, ToSet(times) = Stretch(S, b, end)
       PROVE  Ascending(After(times, d)) /\ ToSet(After(times, d)) = Stretch(S, d + 1, end)
  <2> DEFINE k == After(times, d)
             T == {t \in ToSet(times) : t > d}
  <2>1. k = Kept(times, T)
    BY DEF After
  <2>2. \A x : x \in ToSet(k) <=> x \in ToSet(times) /\ x \in T
    <3> HIDE DEF T, k
    <3>1. QED
      BY <2>1, KeptElements
  <2>3. Ascending(k)
    <3> HIDE DEF T, k
    <3>1. QED
      BY <1>14, <2>1, KeptPairs DEF Ascending
  <2>4. \A x : x \in ToSet(k) <=> x \in ToSet(times) /\ x > d
    BY <2>2
  <2> HIDE DEF k
  <2>5. \A x \in Stretch(S, d + 1, end) : x \in Int /\ x \in S /\ d + 1 <= x /\ x < end
    BY <1>14 DEF Stretch
  <2>6. \A x \in Stretch(S, d + 1, end) : b <= x /\ x > d
    BY <1>8, <1>9, <2>5
  <2>7. \A x \in Stretch(S, d + 1, end) : x \in Stretch(S, b, end)
    BY <2>5, <2>6 DEF Stretch
  <2>8. \A x \in ToSet(times) : x \in Int /\ x \in S /\ b <= x /\ x < end
    BY <1>14 DEF Stretch
  <2>9. \A x \in ToSet(times) : x > d => d + 1 <= x
    BY <1>8, <2>8
  <2>10. \A x \in ToSet(k) : x \in Stretch(S, d + 1, end)
    BY <2>4, <2>8, <2>9 DEF Stretch
  <2>11. ToSet(k) = Stretch(S, d + 1, end)
    BY <1>14, <2>4, <2>6, <2>7, <2>10
  <2>12. QED
    BY <2>3, <2>11 DEF k
<1>15. input'.marks = After(input.marks, d) /\ input'.funding = After(input.funding, d)
  BY <1>1, <1>3 DEF Kinds
<1>16. /\ Ascending(input'.marks) /\ ToSet(input'.marks) = Stretch(A, d + 1, end)
  BY <1>3, <1>5, <1>10, <1>14, <1>15
<1>17. /\ Ascending(input'.funding) /\ ToSet(input'.funding) = Stretch(G, d + 1, end)
  BY <1>3, <1>5, <1>10, <1>14, <1>15
<1>18. ASSUME NEW r \in ToSet(rows') PROVE Agreed(r)
  <2>1. CASE r \in ToSet(rows)
    BY <1>10, <2>1
  <2>2. CASE r \notin ToSet(rows)
    <3>1. s.row = <<>> \/ \E x : s.row = <<x>>
      <4>1. DOMAIN g = FeatureFields
        BY <1>12 DEF Retains
      <4>2. QED
        BY <1>13, <4>1, BarRow
    <3>2. s.row = <<r>>
      BY <1>1, <1>3, <1>18, <2>2, <3>1, AddedElements
    <3> DEFINE M == Stretch(A, aux, d + 1)
               F == Stretch(G, aux, d + 1)
    <3>3. PushBar(g, d).ok /\ PushBar(g, d).row = <<r>> /\ d \in Int /\ Retains(g) /\ Consumed(g, M, F)
      BY <1>1, <1>8, <1>12, <1>13, <3>2
    <3>4. r.ts = d /\ RowIs(r, M, F) /\ Enough(M, F, d)
      <4> HIDE DEF M, F
      <4>1. QED
        BY <3>3, ConsumedRow
    <3>5. Linked(MarkGrid, M) /\ Linked(FundingGrid, F)
      BY <3>3 DEF Consumed
    <3>6. window.start + Lookback * BarInterval <= d
      <4>1. Decided(features'.bars, Times(rows'))
        BY BarDecided
      <4>2. d \in Times(rows')
        <5>1. Times(rows') = {x.ts : x \in ToSet(rows')}
          BY TimesOf
        <5>2. QED
          BY <1>18, <3>4, <5>1
      <4>3. QED
        BY <1>1, <1>13, <4>1, <4>2 DEF Decided
    <3>7. window.start + (Lookback + 1) * BarInterval <= d + 1
      BY <1>4, <1>8, <3>6, ReadyHistory
    <3>8. /\ Enough(Stretch(A, window.start, d + 1), Stretch(G, window.start, d + 1), d)
          /\ \A x : x.ts = d /\ RowIs(x, M, F) =>
                RowIs(x, Stretch(A, window.start, d + 1), Stretch(G, window.start, d + 1))
      <4>1. M = Stretch(A, aux, d + 1) /\ F = Stretch(G, aux, d + 1) /\ window.start \in Int /\ d \in Int
        BY <1>4, <3>3
      <4> HIDE DEF M, F
      <4>2. QED
        BY <1>4, <1>5, <3>4, <3>5, <3>7, <4>1, ShorterContext
    <3>9. QED
      <4> HIDE DEF M, F
      <4>1. QED
        BY <3>4, <3>8 DEF Agreed, MarksFrom, FundingFrom, A, G
  <2>3. QED
    BY <2>1, <2>2
<1>19. QED
  BY <1>1, <1>13, <1>16, <1>17, <1>18 DEF MarksFrom, FundingFrom, A, G, aux, end

LEMMA LastTick ==
  ASSUME NEW end \in Int, 0 < end, end <= WindowEnd, end % BarInterval = 0
  PROVE  end - 1 \in Bars
<1> DEFINE B == BarInterval
           n == end \div B
<1>1. B \in Nat \ {0} /\ BarCount \in Nat \ {0} /\ WindowEnd = BarCount * B
  BY ClockFacts, BarCountFacts
<1>2. n \in Int /\ end = n * B
  <2>1. end = (end \div B) * B + (end % B) /\ end \div B \in Int
    BY <1>1, Division, DivisionType
  <2>2. (end \div B) * B \in Int
    BY <1>1, <2>1
  <2>3. QED
    BY <2>1, <2>2
<1> HIDE DEF n, B
<1>3. 0 < n
  <2>1. 0 * B = 0 /\ 0 * B < n * B
    BY <1>1, <1>2
  <2>2. QED
    BY <1>1, <1>2, <2>1, TimesLess
<1>4. n <= BarCount
  <2>1. CASE BarCount < n
    <3>1. BarCount + 1 <= n /\ BarCount + 1 \in Int /\ BarCount \in Int
      BY <1>1, <1>2, <2>1
    <3>2. (BarCount + 1) * B <= n * B /\ (BarCount + 1) * B = BarCount * B + B
      BY <1>1, <1>2, <3>1, TimesGrow, TimesNext
    <3> DEFINE x == BarCount * B
               y == n * B
    <3>3. x = WindowEnd /\ y = end /\ x + B <= y
      BY <1>1, <1>2, <3>2
    <3>4. WindowEnd \in Nat
      BY ClockFacts
    <3> HIDE DEF x, y
    <3>5. FALSE
      BY <1>1, <3>3, <3>4
    <3>6. QED
      BY <3>5
  <2>2. QED
    BY <1>1, <1>2, <2>1
<1>5. n \in 1 .. BarCount
  BY <1>1, <1>2, <1>3, <1>4
<1>6. QED
  BY <1>2, <1>5 DEF Bars, B

LEMMA FinishWhole ==
  ASSUME RetainInv, AcceptedData, BatchRun, BatchWhole, Whole, FinishBatch, stage' = "batched"
  PROVE  /\ rows # <<>>
         /\ Linked(MarkGrid, MarksFrom(window.start, window.end))
         /\ Linked(FundingGrid, FundingFrom(window.start, window.end))
<1> DEFINE end == window.end
           start == window.start
           aux == AuxiliaryStart(window)
<1>1. stage = "batch" /\ Undecided = <<>> /\ ReadyAtDecision
  BY DEF FinishBatch, Pass
<1>2. Controlled /\ LegalWindow(window)
  BY <1>1 DEF RetainInv, Typed, WindowIsLegal
<1>3. /\ start \in Nat /\ end \in Int /\ start < end /\ end <= WindowEnd /\ end % BarInterval = 0
      /\ aux \in Nat /\ aux <= start
  BY <1>2, WindowFacts
<1>4. rows # <<>>
  <2>1. Times(<<>>) = {}
    BY DEF Times
  <2>2. Times(rows) # {}
    BY <1>1 DEF ReadyAtDecision
  <2>3. QED
    BY <2>1, <2>2
<1>5. 0 < end /\ start <= end - 1 /\ end - 1 < end /\ end - 1 \in Int
  BY <1>3
<1>6. end - 1 \in Bars
  BY <1>3, <1>5, LastTick
<1>7. features.bars # <<>> /\ ~ (end - 1 > Last(features.bars))
  <2>1. \A t : t \in ToSet(Undecided) <=>
            /\ t \in Bars /\ start <= t /\ t < end
            /\ features.bars # <<>> => t > Last(features.bars)
    BY <1>1, UndecidedIs
  <2>2. \A t : t \notin ToSet(Undecided)
    BY <1>1 DEF ToSet
  <2>3. QED
    BY <1>5, <1>6, <2>1, <2>2
<1>8. BatchEnd = end
  <2> DEFINE l == Last(features.bars)
  <2>1. l \in Bars /\ l < end
    <3>1. Decided(features.bars, Times(rows))
      BY <1>1 DEF BatchRun
    <3>2. QED
      BY <1>7, <3>1 DEF Decided
  <2>2. BatchEnd = l + 1 /\ l \in Int /\ ~ (end - 1 > l)
    BY <1>7, <2>1, BarFacts DEF BatchEnd
  <2> HIDE DEF l
  <2>3. QED
    BY <1>3, <2>1, <2>2
<1>9. /\ Linked(MarkGrid, MarksFrom(aux, end)) /\ Linked(FundingGrid, FundingFrom(aux, end))
      /\ MarksFrom(aux, end) \subseteq Nat /\ FundingFrom(aux, end) \subseteq Nat
  BY <1>1, <1>8 DEF BatchWhole, Consumed
<1>10. ASSUME NEW g, NEW S, S \subseteq Int, Linked(g, Stretch(S, aux, end)), Stretch(S, aux, end) \subseteq Nat
       PROVE  Linked(g, Stretch(S, start, end))
  <2> DEFINE P == Stretch(S, aux, end)
             T == Stretch(S, start, end)
  <2>1. T \subseteq P
    <3>1. \A t \in T : t \in S /\ start <= t /\ t < end
      BY DEF Stretch
    <3>2. \A t \in T : t \in Int /\ aux <= t
      <4>1. ASSUME NEW t \in Int, start <= t PROVE aux <= t
        <5> HIDE DEF aux, start
        <5>1. QED
          BY <1>3, <4>1
      <4>2. QED
        BY <1>10, <3>1, <4>1
    <3>3. QED
      BY <3>1, <3>2 DEF Stretch
  <2>2. \A t \in T : \A u \in T : \A v \in P : t < v /\ v < u => v \in T
    <3>1. ASSUME NEW t \in T, NEW u \in T, NEW v \in P, t < v, v < u PROVE v \in T
      <4>1. t \in Nat /\ v \in Nat /\ start <= t /\ v \in S /\ v < end
        BY <1>10, <2>1 DEF Stretch
      <4>2. start <= v
        BY <1>3, <3>1, <4>1
      <4>3. QED
        BY <4>1, <4>2 DEF Stretch
    <3>2. QED
      BY <3>1
  <2> HIDE DEF P, T
  <2>3. Linked(g, P) /\ P \subseteq Nat
    BY <1>10 DEF P
  <2>4. Linked(g, T)
    BY <2>1, <2>2, <2>3, LinkedPart
  <2>5. QED
    BY <2>4 DEF T
<1>11. ToSet(accepted.events.marks) \subseteq Int /\ ToSet(accepted.events.funding) \subseteq Int
  BY <1>1, SeriesFacts DEF ReadStages, Kinds
<1>12. QED
  BY <1>4, <1>9, <1>10, <1>11 DEF MarksFrom, FundingFrom

LEMMA BatchWholeNext == PublishedInv /\ BatchWhole /\ [Next]_vars => BatchWhole'
<1>1. SUFFICES ASSUME PublishedInv, BatchWhole, [Next]_vars PROVE BatchWhole'
  OBVIOUS
<1>2. RetainInv /\ Typed /\ AcceptedData /\ Held /\ BatchRun /\ Controlled
  BY <1>1 DEF PublishedInv, RowInv, RetainInv, Typed
<1>3. SUFFICES ASSUME Whole', stage' \in {"batch", "batched", "engine"} PROVE BatchWhole'
  BY DEF BatchWhole
<1>4. CASE SourceFault \/ ProbeIndex \/ LoadBars \/ LoadMarksAndFunding \/ WriteCatalog
           \/ CrosscheckCatalog \/ Accept \/ Bind \/ Parity
  <2>1. stage' \notin {"batch", "batched", "engine"}
    BY <1>4 DEF SourceFault, ProbeIndex, LoadBars, LoadMarksAndFunding, WriteCatalog,
                CrosscheckCatalog, Accept, Bind, Parity, Pass
  <2>2. QED
    BY <1>3, <2>1
<1>5. SUFFICES ASSUME BatchRead \/ BatchBar \/ FinishBatch \/ CatalogFault \/ EngineRead \/ OnMarkPrice
                      \/ OnFundingRate \/ OnBar \/ UNCHANGED vars
               PROVE  BatchWhole'
  BY <1>1, <1>4 DEF Next
<1>6. accepted' = accepted /\ window' = window /\ stage \in {"bound", "batch", "batched", "engine"}
  BY <1>3, <1>5 DEF BatchRead, BatchBar, FinishBatch, CatalogFault, EngineRead, OnMarkPrice, OnFundingRate, OnBar,
                    vars, research
<1>7. Whole
  BY <1>1, <1>2, <1>3, <1>6, WholeKept
<1>8. (\A r \in ToSet(rows) : Agreed(r))' = \A r \in ToSet(rows') : Agreed(r)
  BY <1>6 DEF Agreed, MarksFrom, FundingFrom
<1>9. CASE BatchRead \/ BatchBar
  <2> DEFINE aux == AuxiliaryStart(window)
             e == BatchEnd'
  <2>1. stage' = "batch"
    BY <1>3, <1>9 DEF BatchRead, BatchBar, Pass
  <2>2. SUFFICES /\ Consumed(features', MarksFrom(aux, e), FundingFrom(aux, e))
                 /\ Ascending(input'.marks) /\ Ascending(input'.funding)
                 /\ ToSet(input'.marks) = MarksFrom(e, window.end)
                 /\ ToSet(input'.funding) = FundingFrom(e, window.end)
                 /\ \A r \in ToSet(rows') : Agreed(r)
    <3>1. Consumed(features, MarksFrom(AuxiliaryStart(window), BatchEnd), FundingFrom(AuxiliaryStart(window), BatchEnd))'
            = Consumed(features', MarksFrom(AuxiliaryStart(window), BatchEnd'), FundingFrom(AuxiliaryStart(window), BatchEnd'))
      BY <1>6 DEF MarksFrom, FundingFrom, AuxiliaryStart
    <3>2. QED
      BY <1>6, <1>8, <2>1, <3>1 DEF BatchWhole, MarksFrom, FundingFrom
  <2>3. CASE BatchRead
    <3>1. /\ features' = Fresh /\ Ascending(input'.marks) /\ Ascending(input'.funding)
          /\ ToSet(input'.marks) = MarksFrom(AuxiliaryStart(window), window.end)
          /\ ToSet(input'.funding) = FundingFrom(AuxiliaryStart(window), window.end)
      BY <1>2, <1>7, <2>1, <2>3, BatchReadWhole
    <3>2. e = aux
      <4>1. features'.bars = <<>>
        BY <3>1 DEF Fresh
      <4>2. QED
        BY <1>6, <4>1 DEF BatchEnd, AuxiliaryStart
    <3>3. MarksFrom(aux, aux) = {} /\ FundingFrom(aux, aux) = {}
      <4>1. stage = "bound" /\ aux \in Int
        BY <1>2, <2>3, WindowFacts DEF BatchRead, RetainInv, WindowIsLegal
      <4>2. ToSet(accepted.events.marks) \subseteq Int /\ ToSet(accepted.events.funding) \subseteq Int
        BY <1>2, <4>1, SeriesFacts DEF ReadStages, Kinds
      <4> HIDE DEF aux
      <4>3. QED
        BY <4>1, <4>2, StretchParts DEF MarksFrom, FundingFrom
    <3>4. ToSet(rows') = {}
      <4>1. rows' = rows /\ rows = <<>>
        BY <1>2, <2>3 DEF BatchRead, BatchRun
      <4>2. QED
        BY <4>1 DEF ToSet
    <3> HIDE DEF e, aux
    <3>5. QED
      BY <3>1, <3>2, <3>3, <3>4, FreshConsumed DEF aux
  <2>4. CASE BatchBar
    <3>1. LET b == Last(features'.bars) + 1
          IN  /\ features'.bars # <<>>
              /\ Consumed(features', MarksFrom(aux, b), FundingFrom(aux, b))
              /\ Ascending(input'.marks) /\ Ascending(input'.funding)
              /\ ToSet(input'.marks) = MarksFrom(b, window.end)
              /\ ToSet(input'.funding) = FundingFrom(b, window.end)
              /\ \A r \in ToSet(rows') : Agreed(r)
      BY <1>1, <1>2, <1>7, <2>1, <2>4, BatchBarWhole
    <3>2. e = Last(features'.bars) + 1
      BY <3>1 DEF BatchEnd
    <3> HIDE DEF e, aux
    <3>3. QED
      BY <3>1, <3>2
  <2>5. QED
    BY <1>9, <2>3, <2>4
<1>10. ASSUME rows' = rows, stage' \in {"batched", "engine"},
              rows # <<>>, Linked(MarkGrid, MarksFrom(window.start, window.end)),
              Linked(FundingGrid, FundingFrom(window.start, window.end)), \A r \in ToSet(rows) : Agreed(r)
       PROVE  BatchWhole'
  <2>1. /\ MarksFrom(window.start, window.end)' = MarksFrom(window.start, window.end)
        /\ FundingFrom(window.start, window.end)' = FundingFrom(window.start, window.end)
    BY <1>6 DEF MarksFrom, FundingFrom
  <2>2. /\ Linked(MarkGrid, MarksFrom(window.start, window.end))' = Linked(MarkGrid, MarksFrom(window.start, window.end))
        /\ Linked(FundingGrid, FundingFrom(window.start, window.end))'
              = Linked(FundingGrid, FundingFrom(window.start, window.end))
    BY <1>6 DEF MarksFrom, FundingFrom
  <2>3. QED
    BY <1>8, <1>10, <2>2 DEF BatchWhole
<1>11. CASE FinishBatch
  <2>1. stage = "batch" /\ rows' = rows /\ stage' = "batched"
    BY <1>3, <1>11 DEF FinishBatch, Pass
  <2>2. \A r \in ToSet(rows) : Agreed(r)
    BY <1>1, <1>7, <2>1 DEF BatchWhole
  <2>3. QED
    BY <1>1, <1>2, <1>7, <1>10, <1>11, <2>1, <2>2, FinishWhole
<1>12. CASE stage \in {"batched", "engine"} /\ rows' = rows /\ stage' \in {"batched", "engine"}
  <2>1. /\ rows # <<>> /\ \A r \in ToSet(rows) : Agreed(r)
        /\ Linked(MarkGrid, MarksFrom(window.start, window.end))
        /\ Linked(FundingGrid, FundingFrom(window.start, window.end))
    BY <1>1, <1>7, <1>12 DEF BatchWhole
  <2>2. QED
    BY <1>10, <1>12, <2>1
<1>13. CASE CatalogFault \/ EngineRead \/ OnMarkPrice \/ OnFundingRate \/ OnBar
  <2>1. stage \in {"batched", "engine"} /\ rows' = rows /\ stage' \in {"batched", "engine"}
    BY <1>3, <1>13 DEF CatalogFault, EngineRead, OnMarkPrice, OnFundingRate, OnBar, Pass, research
  <2>2. QED
    BY <1>12, <2>1
<1>14. CASE UNCHANGED vars
  <2>1. stage' = stage /\ rows' = rows /\ features' = features /\ input' = input
    BY <1>14 DEF vars, research
  <2>2. CASE stage \in {"batched", "engine"}
    BY <1>12, <2>1, <2>2
  <2>3. CASE stage = "batch"
    <3>1. BatchEnd' = BatchEnd
      BY <1>6, <2>1 DEF BatchEnd, AuxiliaryStart
    <3>2. Consumed(features, MarksFrom(AuxiliaryStart(window), BatchEnd), FundingFrom(AuxiliaryStart(window), BatchEnd))'
            = Consumed(features, MarksFrom(AuxiliaryStart(window), BatchEnd), FundingFrom(AuxiliaryStart(window), BatchEnd))
      BY <1>6, <2>1, <3>1 DEF MarksFrom, FundingFrom, AuxiliaryStart
    <3>3. (\A r \in ToSet(rows) : Agreed(r))' = \A r \in ToSet(rows) : Agreed(r)
      BY <1>8, <2>1
    <3>4. Ascending(input.marks)' = Ascending(input.marks) /\ Ascending(input.funding)' = Ascending(input.funding)
      BY <2>1
    <3>5. QED
      BY <1>1, <1>6, <1>7, <2>1, <2>3, <3>1, <3>2, <3>3, <3>4 DEF BatchWhole, MarksFrom, FundingFrom
  <2>4. QED
    BY <1>3, <2>1, <2>2, <2>3
<1>15. QED
  BY <1>5, <1>9, <1>11, <1>13, <1>14

-----------------------------------------------------------------------------
(* What the engine of a whole catalog has consumed. *)

LEMMA InsertAtEnd ==
  ASSUME NEW g \in Seq(Int), NEW t \in Int
  PROVE  InsertAt(g, Len(g) + 1, t) = Append(g, t)
<1> DEFINE p == Len(g) + 1
           h == InsertAt(g, p, t)
           a == Append(g, t)
<1>1. p \in 1 .. Len(g) + 1 /\ Len(g) \in Nat
  OBVIOUS
<1>p. p = Len(g) + 1
  OBVIOUS
<1> HIDE DEF p
<1>2. /\ InsertAt(g, p, t) \in Seq(Int) /\ Len(InsertAt(g, p, t)) = Len(g) + 1
      /\ \A x : x \in ToSet(InsertAt(g, p, t)) <=> x \in ToSet(g) \/ x = t
      /\ \A j \in 1 .. Len(g) + 1 :
            InsertAt(g, p, t)[j] = IF j < p THEN g[j] ELSE IF j = p THEN t ELSE g[j-1]
  BY <1>1, InsertElements
<1>3. /\ a \in Seq(Int) /\ Len(a) = Len(g) + 1 /\ a[Len(g) + 1] = t
      /\ \A i \in 1 .. Len(g) : a[i] = g[i]
  BY AppendProperties
<1>4. /\ h \in Seq(Int) /\ Len(h) = Len(g) + 1
      /\ \A j \in 1 .. Len(g) + 1 : h[j] = IF j < p THEN g[j] ELSE IF j = p THEN t ELSE g[j-1]
  BY <1>2
<1> HIDE DEF h, a
<1>5. ASSUME NEW j \in 1 .. Len(h) PROVE h[j] = a[j]
  <2>1. j \in 1 .. Len(g) + 1
    BY <1>4
  <2>2. CASE j = p
    BY <1>3, <1>4, <1>p, <2>1, <2>2
  <2>3. CASE j # p
    <3>1. j < p /\ j \in 1 .. Len(g)
      BY <1>1, <1>p, <2>1, <2>3
    <3>2. QED
      BY <1>3, <1>4, <2>1, <3>1
  <2>4. QED
    BY <2>2, <2>3
<1>6. h = a
  BY <1>3, <1>4, <1>5, SeqEqual
<1>7. QED
  BY <1>6 DEF h, a, p

LEMMA InsertedLast ==
  ASSUME NEW g \in Seq(Int), NEW t \in Int, \A i \in DOMAIN g : g[i] < t
  PROVE  InsertTime(g, t) = Append(g, t)
<1> DEFINE n == Len(g)
<1>1. n \in Nat /\ DOMAIN g = 1 .. n /\ \A i \in 1 .. n : g[i] \in Int
  OBVIOUS
<1>2. {i \in DOMAIN g : g[i] <= t} = 1 .. n
  BY <1>1
<1>3. Place(g, t) = n + 1
  <2>1. Cardinality(1 .. n) = n
    BY <1>1, FS_Interval, SMTT(30)
  <2>2. QED
    BY <1>2, <2>1 DEF Place
<1>4. QED
  BY <1>3, InsertAtEnd DEF InsertTime

\* Putting an ascending series in the order of time changes nothing.
LEMMA AscendingInOrder ==
  ASSUME NEW times \in Seq(Int), Ascending(times)
  PROVE  InTimeOrder(times) = times
<1>0. Len(times) \in Nat /\ DOMAIN times = 1 .. Len(times) /\ \A i \in 1 .. Len(times) : times[i] \in Int
  OBVIOUS
<1>1. PICK f : /\ f[0] = <<>>
               /\ \A m \in 1 .. Len(times) : f[m] = InsertTime(f[m-1], times[m])
               /\ InTimeOrder(times) = f[Len(times)]
  BY <1>0, InTimeOrderDef
<1> DEFINE Good(n) == f[n] = [i \in 1 .. n |-> times[i]]
           T == {n \in Nat : n <= Len(times) => Good(n)}
<1>2. 0 \in T
  <2>1. [i \in 1 .. 0 |-> times[i]] = <<>>
    OBVIOUS
  <2>2. QED
    BY <1>1, <2>1
<1>3. ASSUME NEW n \in Nat, n \in T PROVE n + 1 \in T
  <2>1. SUFFICES ASSUME n + 1 <= Len(times) PROVE Good(n + 1)
    OBVIOUS
  <2>2. Good(n) /\ n + 1 \in 1 .. Len(times) /\ (n + 1) - 1 = n
    BY <1>0, <1>3, <2>1
  <2> DEFINE g == [i \in 1 .. n |-> times[i]]
             t == times[n + 1]
  <2>3. f[n + 1] = InsertTime(g, t)
    <3>1. f[n + 1] = InsertTime(f[(n + 1) - 1], times[n + 1])
      BY <1>1, <2>2
    <3>2. QED
      BY <2>2, <3>1
  <2>4. g \in Seq(Int) /\ Len(g) = n /\ DOMAIN g = 1 .. n /\ t \in Int
    <3>1. \A i \in 1 .. n : times[i] \in Int
      BY <1>0, <2>2
    <3>2. QED
      BY <1>0, <2>2, <3>1
  <2>5. \A i \in 1 .. n : g[i] < t
    <3>1. ASSUME NEW i \in 1 .. n PROVE times[i] < times[n + 1]
      <4>1. i \in 1 .. Len(times) /\ n + 1 \in 1 .. Len(times) /\ i < n + 1
        BY <1>0, <2>2
      <4>2. QED
        BY <4>1, AscendingPair
    <3>2. QED
      BY <3>1
  <2> DEFINE G == [i \in 1 .. n + 1 |-> times[i]]
  <2>6. Append(g, t) = G
    <3>1. Append(g, t) = [i \in 1 .. n + 1 |-> IF i = n + 1 THEN t ELSE g[i]]
      BY <2>4
    <3>2. \A i \in 1 .. n + 1 : G[i] = IF i = n + 1 THEN t ELSE g[i]
      OBVIOUS
    <3>3. QED
      BY <3>1, <3>2
  <2>7. InsertTime(g, t) = Append(g, t)
    <3> HIDE DEF g, t
    <3>1. QED
      BY <2>4, <2>5, InsertedLast
  <2>8. QED
    BY <2>3, <2>6, <2>7
<1> HIDE DEF T
<1>4. Len(times) \in T
  BY <1>0, <1>2, <1>3, Induction
<1>5. Good(Len(times))
  BY <1>0, <1>4 DEF T
<1>6. [i \in 1 .. Len(times) |-> times[i]] = times
  BY <1>0
<1>7. QED
  BY <1>1, <1>5, <1>6

\* The first of the events to come is passed.
LEMMA HeadPassed ==
  ASSUME NEW times \in Seq(Int), times # <<>>, Ascending(times), NEW W, ToSet(times) \subseteq W, W \subseteq Int,
         \A u \in W \ ToSet(times) : \A t \in ToSet(times) : u < t
  PROVE  LET h == Head(times)
             P == W \ ToSet(times)
             Q == W \ ToSet(Tail(times))
         IN  /\ h \in W /\ h \in ToSet(times) /\ Q = P \cup {h}
             /\ Tail(times) \in Seq(Int) /\ Ascending(Tail(times)) /\ ToSet(Tail(times)) \subseteq ToSet(times)
             /\ \A u \in P : u < h
             /\ \A t \in ToSet(Tail(times)) : h < t
             /\ \A u \in Q : \A t \in ToSet(Tail(times)) : u < t
             /\ \A g : Linked(g, W) /\ W \subseteq Nat => Linked(g, P \cup {h})
<1> DEFINE h == Head(times)
           S == ToSet(times)
           r == Tail(times)
           P == W \ S
           Q == W \ ToSet(r)
<1>1. Len(times) \in Nat \ {0} /\ DOMAIN times = 1 .. Len(times) /\ h = times[1] /\ r \in Seq(Int)
      /\ Len(r) = Len(times) - 1 /\ DOMAIN r = 1 .. Len(times) - 1 /\ \A i \in 1 .. Len(times) - 1 : r[i] = times[i+1]
  OBVIOUS
<1>2. Ascending(r)
  BY TailPairs DEF Ascending
<1>3. \A i \in 1 .. Len(times) - 1 : h < r[i]
  <2>1. ASSUME NEW i \in 1 .. Len(times) - 1 PROVE times[1] < times[i + 1]
    <3>1. 1 \in 1 .. Len(times) /\ i + 1 \in 1 .. Len(times) /\ 1 < i + 1
      BY <1>1
    <3>2. QED
      BY <3>1, AscendingPair
  <2> HIDE DEF h, r
  <2>2. QED
    BY <1>1, <2>1
<1>4. h \in S /\ ToSet(r) \subseteq S /\ \A x \in S : x = h \/ x \in ToSet(r)
  <2> HIDE DEF h, r
  <2>1. h \in ToSet(times)
    BY <1>1, SMTT(30) DEF ToSet
  <2>2. ASSUME NEW x \in ToSet(r) PROVE x \in ToSet(times)
    <3>1. PICK i \in DOMAIN r : x = r[i]
      BY <2>2 DEF ToSet
    <3>2. i + 1 \in DOMAIN times /\ x = times[i + 1]
      BY <1>1, <3>1, SMTT(30)
    <3>3. QED
      BY <3>2 DEF ToSet
  <2>3. ASSUME NEW x \in ToSet(times) PROVE x = h \/ x \in ToSet(r)
    <3>1. PICK i \in DOMAIN times : x = times[i]
      BY <2>3 DEF ToSet
    <3>2. CASE i = 1
      BY <1>1, <3>1, <3>2
    <3>3. CASE i # 1
      <4>1. i - 1 \in DOMAIN r /\ r[i - 1] = times[(i - 1) + 1] /\ (i - 1) + 1 = i
        BY <1>1, <3>1, <3>3, SMTT(30)
      <4>2. QED
        BY <3>1, <4>1 DEF ToSet
    <3>4. QED
      BY <3>2, <3>3
  <2>4. QED
    BY <2>1, <2>2, <2>3
<1>5. \A t \in ToSet(r) : h < t
  BY <1>1, <1>3 DEF ToSet
<1>6. h \in Int /\ \A t \in ToSet(r) : t \in Int
  BY <1>1, <1>4
<1> HIDE DEF h, r, S
<1>7. h \notin ToSet(r)
  BY <1>5, <1>6
<1>8. h \in W /\ Q = P \cup {h}
  BY <1>4, <1>7 DEF S
<1>9. \A u \in P : u < h
  BY <1>4 DEF S
<1>10. \A u \in Q : \A t \in ToSet(r) : u < t
  BY <1>4, <1>5, <1>8 DEF S
<1>11. ASSUME NEW g, Linked(g, W), W \subseteq Nat PROVE Linked(g, Q)
  <2>1. \A t \in Q : \A u \in Q : \A v \in W : t < v /\ v < u => v \in Q
    <3>1. ASSUME NEW u \in Q, NEW v \in W, v < u PROVE v \in Q
      <4>1. CASE v \in ToSet(r)
        <5>1. u < v /\ u \in Int /\ v \in Int
          BY <1>10, <4>1
        <5>2. QED
          BY <3>1, <5>1
      <4>2. QED
        BY <4>1
    <3>2. QED
      BY <3>1
  <2> HIDE DEF Q
  <2>2. Q \subseteq W
    BY DEF Q
  <2>3. QED
    BY <1>11, <2>1, <2>2, LinkedPart
<1>12. QED
  BY <1>1, <1>2, <1>4, <1>5, <1>8, <1>9, <1>10, <1>11 DEF h, r, S

\* Reading a whole catalog again succeeds: the batch had rows.
LEMMA EngineReadWhole ==
  ASSUME RetainInv, AcceptedData, BatchKept, DecidedOn, BatchWhole, EngineRead, catalog = accepted.events
  PROVE  stage' = "engine" /\ InHand(input', features', decisions')
<1> DEFINE z == Lookback * BarInterval
           read == [k \in Kinds |-> Within(catalog[k], window.start, window.end)]
           ok == (\A k \in Kinds : read[k] # <<>>) /\ Strict(read.funding)
<1>1. /\ stage = "batched" /\ stage' = (IF ok THEN "engine" ELSE "refused")
      /\ input' = [k \in Kinds |-> InTimeOrder(read[k])] /\ features' = Fresh /\ decisions' = decisions
  BY DEF EngineRead, Pass
<1>2. Controlled /\ LegalWindow(window) /\ Times(rows) = ReadyBars /\ decisions = <<>>
  BY <1>1 DEF RetainInv, Typed, BatchKept, DecidedOn
<1>3. /\ window.start \in Nat /\ window.end \in Int /\ window.start < window.end
  BY <1>2, WindowFacts
<1>4. /\ \A k \in Kinds : accepted.events[k] \in Seq(Int) /\ Ascending(accepted.events[k])
                          /\ ToSet(accepted.events[k]) \subseteq Int
      /\ ToSet(accepted.events.bars) = Bars
  BY <1>1, SeriesFacts DEF ReadStages
<1>5. Whole
  BY DEF Whole
<1>6. rows # <<>> /\ \A r \in ToSet(rows) : Agreed(r)
  BY <1>1, <1>5 DEF BatchWhole
<1>7. \A k \in Kinds : read[k] \in Seq(Int) /\ Ascending(read[k]) /\ ToSet(read[k]) = WindowOf(k)
  <2>1. ASSUME NEW k \in Kinds
        PROVE  read[k] \in Seq(Int) /\ Ascending(read[k]) /\ ToSet(read[k]) = WindowOf(k)
    <3>1. read[k] = Within(accepted.events[k], window.start, window.end)
      OBVIOUS
    <3>2. QED
      BY <1>3, <1>4, <3>1, WithinWhole DEF WindowOf
  <2>2. QED
    BY <2>1
<1>8. \E r \in ToSet(rows) : Agreed(r) /\ r.ts \in Bars /\ window.start <= r.ts /\ r.ts < window.end
  <2>1. rows[1] \in ToSet(rows)
    <3>1. rows \in Seq(ToSet(rows))
      BY DEF RetainInv, Typed, Drawn, Rowed
    <3>2. 1 \in DOMAIN rows
      BY <1>6, <3>1
    <3>3. QED
      BY <3>2 DEF ToSet
  <2>2. PICK r : r \in ToSet(rows)
    BY <2>1
  <2>3. r.ts \in ReadyBars
    BY <1>2, <2>2, TimesOf
  <2>4. r.ts \in Bars /\ window.start + z <= r.ts /\ r.ts < window.end
    BY <2>3 DEF ReadyBars
  <2>5. window.start <= r.ts
    <3>1. z \in Nat /\ r.ts \in Int
      BY <2>4, HistoryFacts, BarFacts
    <3> HIDE DEF z
    <3>2. QED
      BY <1>3, <2>4, <3>1
  <2>6. QED
    BY <1>6, <2>2, <2>4, <2>5
<1>9. PICK r \in ToSet(rows) : Agreed(r) /\ r.ts \in Bars /\ window.start <= r.ts /\ r.ts < window.end
  BY <1>8
<1>10. ok
  <2>1. r.ts \in Int
    BY <1>9, BarFacts
  <2>2. ASSUME NEW k \in Kinds, NEW t, t \in Stretch(ToSet(accepted.events[k]), window.start, r.ts + 1)
        PROVE  read[k] # <<>>
    <3>1. t \in Int /\ t \in ToSet(accepted.events[k]) /\ window.start <= t /\ t < r.ts + 1
      BY <1>4, <2>2 DEF Stretch
    <3>2. t < window.end
      BY <1>3, <1>9, <2>1, <3>1
    <3>3. t \in WindowOf(k)
      BY <3>1, <3>2 DEF WindowOf, Stretch
    <3>4. t \in ToSet(read[k])
      BY <1>7, <3>3
    <3>5. QED
      BY <3>4 DEF ToSet
  <2>3. (\E t : t \in MarksFrom(window.start, r.ts + 1)) /\ (\E t : t \in FundingFrom(window.start, r.ts + 1))
    BY <1>9 DEF Agreed, RowIs
  <2>4. r.ts \in Stretch(ToSet(accepted.events.bars), window.start, r.ts + 1)
    <3>1. r.ts < r.ts + 1
      BY <2>1
    <3>2. QED
      BY <1>4, <1>9, <3>1 DEF Stretch
  <2>5. read["bars"] # <<>> /\ read["marks"] # <<>> /\ read["funding"] # <<>>
    <3>1. "bars" \in Kinds /\ "marks" \in Kinds /\ "funding" \in Kinds
      BY DEF Kinds
    <3> HIDE DEF read
    <3>2. QED
      BY <2>2, <2>3, <2>4, <3>1 DEF MarksFrom, FundingFrom
  <2>6. Strict(read.funding)
    <3>1. "funding" \in Kinds
      BY DEF Kinds
    <3> HIDE DEF read
    <3>2. read.funding \in Seq(Int) /\ Ascending(read.funding)
      BY <1>7, <3>1
    <3>3. QED
      BY <3>2, StrictAscends
  <2>7. QED
    <3> HIDE DEF read
    <3>1. QED
      BY <2>5, <2>6 DEF Kinds
<1>11. stage' = "engine"
  BY <1>1, <1>10
<1> HIDE DEF ok
<1>12. \A k \in Kinds : input'[k] = read[k]
  <2>1. ASSUME NEW k \in Kinds PROVE input'[k] = read[k]
    <3>1. input'[k] = InTimeOrder(read[k])
      BY <1>1
    <3> HIDE DEF read
    <3>2. QED
      BY <1>7, <3>1, AscendingInOrder
  <2>2. QED
    BY <2>1
<1> HIDE DEF read
<1>13. \A k \in Kinds : Behind(input', k) = {}
  BY <1>7, <1>12 DEF Behind
<1>14. \A k \in Kinds : input'[k] \in Seq(Int) /\ Ascending(input'[k]) /\ ToSet(input'[k]) \subseteq WindowOf(k)
  BY <1>7, <1>12
<1>15. features'.bars = <<>> /\ Consumed(features', {}, {})
  BY <1>1, FreshConsumed DEF Fresh
<1>16. ToSet(decisions') = {} /\ Times(decisions') = {}
  BY <1>1, <1>2 DEF ToSet, Times
<1>17. Behind(input', "bars") = {} /\ Behind(input', "marks") = {} /\ Behind(input', "funding") = {}
  BY <1>13 DEF Kinds
<1>18. Decided(features'.bars, {})
  BY <1>15 DEF Decided
<1>19. InHand(input', features', decisions')
  BY <1>13, <1>14, <1>15, <1>16, <1>17, <1>18 DEF InHand
<1>20. QED
  BY <1>11, <1>19

\* The first conjunct of InHand.
Ordered(events) ==
    \A k \in Kinds :
        /\ events[k] \in Seq(Int) /\ Ascending(events[k]) /\ ToSet(events[k]) \subseteq WindowOf(k)
        /\ \A u \in Behind(events, k) : /\ \A t \in ToSet(events[k]) : u < t
                                        /\ \A b \in ToSet(events.bars) : u <= b

\* What taking the first event h of a kind does to the events passed.
Taken(events, next, k, h) ==
    /\ Ordered(next)
    /\ Behind(next, k) = Behind(events, k) \cup {h}
    /\ \A j \in Kinds : j # k => Behind(next, j) = Behind(events, j)
    /\ h \in WindowOf(k) /\ \A u \in Behind(events, k) : u < h
    /\ \A t \in ToSet(events[k]) : h <= t
    /\ \A g : Linked(g, WindowOf(k)) /\ WindowOf(k) \subseteq Nat => Linked(g, Behind(events, k) \cup {h})

LEMMA EventTaken ==
  ASSUME NEW events, Ordered(events), NEW k \in Kinds, events[k] # <<>>,
         NEW next, next[k] = Tail(events[k]), \A j \in Kinds : j # k => next[j] = events[j], NEW h, h = Head(events[k]),
         events.bars # <<>> => h <= Head(events.bars), WindowOf(k) \subseteq Int
  PROVE  Taken(events, next, k, h)
<1> DEFINE times == events[k]
           W == WindowOf(k)
<1>1. times \in Seq(Int) /\ times # <<>> /\ Ascending(times) /\ ToSet(times) \subseteq W /\ W \subseteq Int
      /\ \A u \in W \ ToSet(times) : \A t \in ToSet(times) : u < t
  BY DEF Ordered, Behind
<1>2. /\ Behind(events, k) = W \ ToSet(times) /\ h = Head(times) /\ next[k] = Tail(times)
      /\ Behind(next, k) = W \ ToSet(Tail(times))
      /\ \A j \in Kinds : j # k => next[j] = events[j]
  BY DEF Behind
<1> HIDE DEF times, W
<1>3. /\ h \in W /\ h \in ToSet(times) /\ W \ ToSet(Tail(times)) = (W \ ToSet(times)) \cup {h}
      /\ Tail(times) \in Seq(Int) /\ Ascending(Tail(times)) /\ ToSet(Tail(times)) \subseteq ToSet(times)
      /\ \A u \in W \ ToSet(times) : u < h
      /\ \A u \in W \ ToSet(Tail(times)) : \A t \in ToSet(Tail(times)) : u < t
      /\ \A g : Linked(g, W) /\ W \subseteq Nat => Linked(g, (W \ ToSet(times)) \cup {h})
  BY <1>1, <1>2, HeadPassed, ZenonT(60)
<1>4. \A t \in ToSet(times) : h <= t
  BY <1>1, <1>2, HeadIsLeast
<1>5. Behind(next, k) = Behind(events, k) \cup {h} /\ \A j \in Kinds : j # k => Behind(next, j) = Behind(events, j)
  BY <1>2, <1>3 DEF Behind
<1>6. ToSet(next.bars) \subseteq ToSet(events.bars) /\ \A b \in ToSet(events.bars) : h <= b
  <2>1. "bars" \in Kinds
    BY DEF Kinds
  <2>2. ToSet(next.bars) \subseteq ToSet(events.bars)
    BY <1>2, <1>3, <2>1 DEF times
  <2>3. ASSUME NEW b \in ToSet(events.bars) PROVE h <= b
    <3>1. events.bars \in Seq(Int) /\ Ascending(events.bars)
      BY <2>1 DEF Ordered
    <3>2. events.bars # <<>>
      BY <2>3 DEF ToSet
    <3>3. Head(events.bars) \in ToSet(events.bars) /\ Head(events.bars) <= b
      BY <2>3, <3>1, <3>2, HeadIsLeast
    <3>4. b \in Int /\ Head(events.bars) \in Int /\ h \in Int
      BY <1>1, <1>3, <2>3, <3>1, <3>3 DEF ToSet
    <3> DEFINE x == Head(events.bars)
    <3>5. h <= x /\ x <= b /\ x \in Int
      BY <3>2, <3>3, <3>4
    <3> HIDE DEF x
    <3>6. QED
      BY <3>4, <3>5
  <2>4. QED
    BY <2>2, <2>3
<1>7. ASSUME NEW j \in Kinds
      PROVE  /\ next[j] \in Seq(Int) /\ Ascending(next[j]) /\ ToSet(next[j]) \subseteq WindowOf(j)
             /\ \A u \in Behind(next, j) : /\ \A t \in ToSet(next[j]) : u < t
                                           /\ \A b \in ToSet(next.bars) : u <= b
  <2>1. CASE j = k
    <3>1. \A u \in Behind(events, k) : \A b \in ToSet(events.bars) : u <= b
      BY DEF Ordered
    <3>2. \A u \in Behind(next, k) : \A b \in ToSet(next.bars) : u <= b
      BY <1>5, <1>6, <3>1
    <3>3. QED
      BY <1>1, <1>2, <1>3, <2>1, <3>2 DEF W
  <2>2. CASE j # k
    <3>1. next[j] = events[j] /\ Behind(next, j) = Behind(events, j)
      BY <1>2, <1>5, <2>2
    <3>2. /\ events[j] \in Seq(Int) /\ Ascending(events[j]) /\ ToSet(events[j]) \subseteq WindowOf(j)
          /\ \A u \in Behind(events, j) : /\ \A t \in ToSet(events[j]) : u < t
                                          /\ \A b \in ToSet(events.bars) : u <= b
      BY DEF Ordered
    <3>3. QED
      BY <1>6, <3>1, <3>2
  <2>3. QED
    BY <2>1, <2>2
<1>8. Ordered(next)
  BY <1>7 DEF Ordered
<1>9. QED
  BY <1>2, <1>3, <1>4, <1>5, <1>8 DEF Taken, W, times

LEMMA EngineFacts ==
  ASSUME RetainInv, AcceptedData, BatchKept, BatchWhole, stage = "engine", catalog = accepted.events
  PROVE  /\ Retains(features) /\ DOMAIN input = Kinds
         /\ window.start \in Nat /\ window.end \in Int /\ window.decision \in Int /\ window.start < window.end
         /\ window.end <= WindowEnd /\ window.start % BarInterval = 0
         /\ window.start + Lookback * BarInterval <= window.decision
         /\ WindowOf("marks") \subseteq Nat /\ Linked(MarkGrid, WindowOf("marks"))
         /\ WindowOf("funding") \subseteq Nat /\ Linked(FundingGrid, WindowOf("funding"))
         /\ WindowOf("bars") = {b \in Bars : window.start <= b /\ b < window.end}
         /\ WindowOf("bars") \subseteq Nat
         /\ Times(rows) = ReadyBars /\ \A r \in ToSet(rows) : Agreed(r)
<1>1. Controlled /\ LegalWindow(window) /\ window.mode = "evaluation" /\ Times(rows) = ReadyBars
      /\ Retains(features) /\ DOMAIN input = Kinds
  BY DEF RetainInv, Typed, BatchKept, Shaped
<1>2. /\ window.start \in Nat /\ window.end \in Int /\ window.decision \in Int /\ window.start < window.end
      /\ window.end <= WindowEnd /\ window.start % BarInterval = 0
  BY <1>1, WindowFacts
<1>3. window.start + Lookback * BarInterval <= window.decision
  <2> DEFINE z == Lookback * BarInterval
  <2>1. window.start <= window.decision - z /\ z \in Nat
    BY <1>1, HistoryFacts DEF LegalWindow
  <2> HIDE DEF z
  <2>2. window.start + z <= window.decision
    BY <1>2, <2>1
  <2>3. QED
    BY <2>2 DEF z
<1>4. Whole
  BY DEF Whole
<1>5. /\ Linked(MarkGrid, MarksFrom(window.start, window.end))
      /\ Linked(FundingGrid, FundingFrom(window.start, window.end)) /\ \A r \in ToSet(rows) : Agreed(r)
  BY <1>4 DEF BatchWhole
<1>6. WindowOf("marks") = MarksFrom(window.start, window.end) /\ WindowOf("funding") = FundingFrom(window.start, window.end)
  BY DEF WindowOf, MarksFrom, FundingFrom
<1>7. /\ \A k \in Kinds : ToSet(accepted.events[k]) \subseteq Int
      /\ ToSet(accepted.events.bars) = Bars
  BY SeriesFacts DEF ReadStages
<1>8. \A k \in Kinds : WindowOf(k) \subseteq Nat
  <2>1. ASSUME NEW k \in Kinds, NEW x \in WindowOf(k) PROVE x \in Nat
    <3>1. x \in Int /\ window.start <= x
      BY <1>7, <2>1 DEF WindowOf, Stretch
    <3>2. QED
      BY <1>2, <3>1
  <2>2. QED
    BY <2>1
<1>9. WindowOf("bars") = {b \in Bars : window.start <= b /\ b < window.end}
  BY <1>7 DEF WindowOf, Stretch
<1>10. "bars" \in Kinds /\ "marks" \in Kinds /\ "funding" \in Kinds
  BY DEF Kinds
<1>11. WindowOf("bars") \subseteq Nat /\ WindowOf("marks") \subseteq Nat /\ WindowOf("funding") \subseteq Nat
  BY <1>8, <1>10
<1>12. QED
  BY <1>1, <1>2, <1>3, <1>5, <1>6, <1>9, <1>11

LEMMA NextIsFirst ==
  ASSUME NEW k \in Kinds, IsNextEvent(k), Ordered(input)
  PROVE  /\ input[k] # <<>>
         /\ \A j \in Kinds : input[j] # <<>> =>
               /\ Head(input[k]) <= Head(input[j])
               /\ EventRank[j] < EventRank[k] => Head(input[k]) < Head(input[j])
<1>1. \A j \in Kinds : input[j] \in Seq(Int) /\ EventRank[j] \in Int
  BY DEF Ordered, EventRank, Kinds
<1>2. \A j \in Kinds : input[j] # <<>> => Head(input[j]) \in Int
  BY <1>1
<1>3. input[k] # <<>>
  BY DEF IsNextEvent
<1>4. ASSUME NEW j \in Kinds, input[j] # <<>>
      PROVE  /\ Head(input[k]) <= Head(input[j])
             /\ EventRank[j] < EventRank[k] => Head(input[k]) < Head(input[j])
  <2> DEFINE x == Head(input[k])
             y == Head(input[j])
             a == EventRank[k]
             b == EventRank[j]
  <2>1. x \in Int /\ y \in Int /\ a \in Int /\ b \in Int /\ (x < y \/ (x = y /\ a <= b))
    BY <1>1, <1>2, <1>3, <1>4 DEF IsNextEvent
  <2> HIDE DEF x, y, a, b
  <2>2. x <= y /\ (b < a => x < y)
    BY <2>1
  <2>3. QED
    BY <2>2 DEF x, y, a, b
<1>5. QED
  BY <1>3, <1>4

LEMMA MarkWhole ==
  ASSUME RetainInv, AcceptedData, BatchKept, BatchWhole, stage = "engine", catalog = accepted.events,
         InHand(input, features, decisions), OnMarkPrice
  PROVE  stage' = "engine" /\ InHand(input', features', decisions')
<1> DEFINE h == Head(input.marks)
           M == Behind(input, "marks")
           F == Behind(input, "funding")
<1>1. /\ IsNextEvent("marks") /\ features' = PushMark(features, h) /\ decisions' = decisions
      /\ stage' = (IF features'.ok THEN "engine" ELSE "refused")
      /\ input'["marks"] = Tail(input["marks"]) /\ \A j \in Kinds : j # "marks" => input'[j] = input[j]
  <2>1. DOMAIN input = Kinds /\ "marks" \in Kinds
    BY EngineFacts DEF Kinds
  <2>2. QED
    BY <2>1 DEF OnMarkPrice, Pass
<1>2. Ordered(input) /\ Consumed(features, M, F)
  BY DEF InHand, Ordered
<1>3. /\ Retains(features) /\ DOMAIN input = Kinds
      /\ WindowOf("marks") \subseteq Nat /\ Linked(MarkGrid, WindowOf("marks"))
  BY EngineFacts
<1>4. "marks" \in Kinds /\ "bars" \in Kinds /\ "funding" \in Kinds
  BY DEF Kinds
<1>5. input["marks"] # <<>> /\ (input["bars"] # <<>> => h <= Head(input["bars"]))
  BY <1>1, <1>2, <1>4, NextIsFirst
<1>6. /\ Ordered(input') /\ Behind(input', "marks") = M \cup {h}
      /\ Behind(input', "bars") = Behind(input, "bars") /\ Behind(input', "funding") = F
      /\ h \in WindowOf("marks") /\ \A u \in M : u < h
      /\ Linked(MarkGrid, M \cup {h})
  <2>1. WindowOf("marks") \subseteq Int
    BY <1>3
  <2>2. h = Head(input["marks"]) /\ input["marks"] # <<>> /\ (input.bars # <<>> => h <= Head(input.bars))
    BY <1>5
  <2> HIDE DEF h
  <2>3. Taken(input, input', "marks", h)
    BY <1>1, <1>2, <1>3, <1>4, <2>1, <2>2, EventTaken
  <2>4. QED
    BY <1>3, <1>4, <2>3 DEF Taken
<1> HIDE DEF h, M, F
<1>7. PushMark(features, h).ok /\ Consumed(PushMark(features, h), M \cup {h}, F)
  <2>1. h \in Nat
    BY <1>3, <1>6
  <2>2. QED
    BY <1>2, <1>3, <1>6, <2>1, MarkConsumed
<1>8. features'.bars = features.bars
  <2>1. "bars" \in DOMAIN features
    BY <1>3 DEF Retains, FeatureFields, Fresh
  <2>2. QED
    BY <1>1, <2>1 DEF PushMark
<1>9. Behind(input', "bars") = Behind(input, "bars") /\ Consumed(features', Behind(input', "marks"), Behind(input', "funding"))
  BY <1>1, <1>6, <1>7
<1>10. stage' = "engine"
  BY <1>1, <1>7
<1>11. /\ IF features.bars = <<>> THEN Behind(input, "bars") = {}
          ELSE Behind(input, "bars") = {b \in Bars : window.start <= b /\ b <= Last(features.bars)}
       /\ Decided(features.bars, {b \in Behind(input, "bars") : window.start + Lookback * BarInterval <= b})
       /\ \A r \in ToSet(decisions) : Agreed(r)
       /\ Times(decisions) = {b \in Behind(input, "bars") : window.decision <= b}
  BY DEF InHand
<1>12. InHand(input', features', decisions')
  BY <1>1, <1>6, <1>8, <1>9, <1>11 DEF InHand, Ordered
<1>13. QED
  BY <1>10, <1>12

LEMMA FundingWhole ==
  ASSUME RetainInv, AcceptedData, BatchKept, BatchWhole, stage = "engine", catalog = accepted.events,
         InHand(input, features, decisions), OnFundingRate
  PROVE  stage' = "engine" /\ InHand(input', features', decisions')
<1> DEFINE h == Head(input.funding)
           M == Behind(input, "marks")
           F == Behind(input, "funding")
<1>1. /\ IsNextEvent("funding") /\ features' = PushFunding(features, h) /\ decisions' = decisions
      /\ stage' = (IF features'.ok THEN "engine" ELSE "refused")
      /\ input'["funding"] = Tail(input["funding"]) /\ \A j \in Kinds : j # "funding" => input'[j] = input[j]
  <2>1. DOMAIN input = Kinds /\ "funding" \in Kinds
    BY EngineFacts DEF Kinds
  <2>2. QED
    BY <2>1 DEF OnFundingRate, Pass
<1>2. Ordered(input) /\ Consumed(features, M, F)
  BY DEF InHand, Ordered
<1>3. /\ Retains(features) /\ DOMAIN input = Kinds
      /\ WindowOf("funding") \subseteq Nat /\ Linked(FundingGrid, WindowOf("funding"))
  BY EngineFacts
<1>4. "marks" \in Kinds /\ "bars" \in Kinds /\ "funding" \in Kinds
  BY DEF Kinds
<1>5. input["funding"] # <<>> /\ (input["bars"] # <<>> => h <= Head(input["bars"]))
  BY <1>1, <1>2, <1>4, NextIsFirst
<1>6. /\ Ordered(input') /\ Behind(input', "funding") = F \cup {h}
      /\ Behind(input', "bars") = Behind(input, "bars") /\ Behind(input', "marks") = M
      /\ h \in WindowOf("funding") /\ \A u \in F : u < h
      /\ Linked(FundingGrid, F \cup {h})
  <2>1. WindowOf("funding") \subseteq Int
    BY <1>3
  <2>2. h = Head(input["funding"]) /\ input["funding"] # <<>> /\ (input.bars # <<>> => h <= Head(input.bars))
    BY <1>5
  <2> HIDE DEF h
  <2>3. Taken(input, input', "funding", h)
    BY <1>1, <1>2, <1>3, <1>4, <2>1, <2>2, EventTaken
  <2>4. QED
    BY <1>3, <1>4, <2>3 DEF Taken
<1> HIDE DEF h, M, F
<1>7. PushFunding(features, h).ok /\ Consumed(PushFunding(features, h), M, F \cup {h})
  <2>1. h \in Nat
    BY <1>3, <1>6
  <2>2. QED
    BY <1>2, <1>3, <1>6, <2>1, FundingConsumed
<1>8. features'.bars = features.bars
  <2>1. "bars" \in DOMAIN features
    BY <1>3 DEF Retains, FeatureFields, Fresh
  <2>2. QED
    BY <1>1, <2>1 DEF PushFunding
<1>9. Behind(input', "bars") = Behind(input, "bars") /\ Consumed(features', Behind(input', "marks"), Behind(input', "funding"))
  BY <1>1, <1>6, <1>7
<1>10. stage' = "engine"
  BY <1>1, <1>7
<1>11. /\ IF features.bars = <<>> THEN Behind(input, "bars") = {}
          ELSE Behind(input, "bars") = {b \in Bars : window.start <= b /\ b <= Last(features.bars)}
       /\ Decided(features.bars, {b \in Behind(input, "bars") : window.start + Lookback * BarInterval <= b})
       /\ \A r \in ToSet(decisions) : Agreed(r)
       /\ Times(decisions) = {b \in Behind(input, "bars") : window.decision <= b}
  BY DEF InHand
<1>12. InHand(input', features', decisions')
  BY <1>1, <1>6, <1>8, <1>9, <1>11 DEF InHand, Ordered
<1>13. QED
  BY <1>10, <1>12

LEMMA RowAdded ==
  ASSUME NEW list, list \in Seq(ToSet(list)), NEW r
  PROVE  /\ \A x : x \in ToSet(list \o <<r>>) <=> x \in ToSet(list) \/ x = r
         /\ Times(list \o <<r>>) = Times(list) \cup {r.ts}
<1> DEFINE T == ToSet(list) \cup {r}
<1>1. list \in Seq(T) /\ <<r>> \in Seq(T) /\ ToSet(<<r>>) = {r}
  <2>1. ToSet(list) \subseteq T /\ r \in T
    OBVIOUS
  <2>2. list \in Seq(T)
    BY <2>1, SeqMonotonic
  <2> HIDE DEF T
  <2>3. <<r>> \in Seq(T) /\ DOMAIN <<r>> = {1} /\ <<r>>[1] = r
    BY <2>1
  <2>4. QED
    BY <2>2, <2>3 DEF ToSet
<1> HIDE DEF T
<1>2. \A x : x \in ToSet(list \o <<r>>) <=> x \in ToSet(list) \/ x \in ToSet(<<r>>)
  BY <1>1, ConcatElements
<1>3. \A x : x \in ToSet(list \o <<r>>) <=> x \in ToSet(list) \/ x = r
  BY <1>1, <1>2
<1>4. Times(list \o <<r>>) = {x.ts : x \in ToSet(list \o <<r>>)} /\ Times(list) = {x.ts : x \in ToSet(list)}
  BY TimesOf
<1>5. QED
  BY <1>3, <1>4

\* At a bar the engine has consumed what came at or before it.
LEMMA PassedAtBar ==
  ASSUME Ordered(input), IsNextEvent("bars"), NEW k \in {"marks", "funding"}, NEW d, d = Head(input.bars),
         WindowOf(k) \subseteq Int, d \in Int, d < window.end, window.end \in Int, window.start \in Int,
         ToSet(accepted.events[k]) \subseteq Int
  PROVE  Behind(input, k) = Stretch(ToSet(accepted.events[k]), window.start, d + 1)
<1>1. k \in Kinds /\ "bars" \in Kinds /\ EventRank[k] < EventRank["bars"]
  BY DEF Kinds, EventRank
<1>2. /\ input["bars"] # <<>>
      /\ \A j \in Kinds : input[j] # <<>> =>
             /\ Head(input["bars"]) <= Head(input[j])
             /\ EventRank[j] < EventRank["bars"] => Head(input["bars"]) < Head(input[j])
  BY <1>1, NextIsFirst
<1>3. input[k] # <<>> => d < Head(input[k])
  BY <1>1, <1>2
<1>4. /\ input[k] \in Seq(Int) /\ Ascending(input[k]) /\ ToSet(input[k]) \subseteq WindowOf(k)
      /\ \A u \in Behind(input, k) : \A b \in ToSet(input.bars) : u <= b
      /\ input.bars \in Seq(Int)
  BY <1>1 DEF Ordered
<1>5. d \in ToSet(input.bars)
  BY <1>2, <1>4, EndElements
<1>6. \A u \in Behind(input, k) : u <= d /\ u \in Int /\ u \in WindowOf(k)
  BY <1>4, <1>5 DEF Behind
<1>7. \A t \in ToSet(input[k]) : d < t /\ t \in Int
  <2>1. ASSUME NEW t \in ToSet(input[k]) PROVE d < t /\ t \in Int
    <3> DEFINE x == Head(input[k])
    <3>1. input[k] # <<>>
      BY <2>1 DEF ToSet
    <3>2. x \in ToSet(input[k]) /\ x <= t
      BY <1>4, <2>1, <3>1, HeadIsLeast
    <3>3. x \in Int /\ t \in Int /\ d < x
      BY <1>3, <1>4, <2>1, <3>1, <3>2
    <3>4. x <= t
      BY <3>2
    <3> HIDE DEF x
    <3>5. QED
      BY <3>3, <3>4
  <2>2. QED
    BY <2>1
<1>8. ASSUME NEW u \in Behind(input, k) PROVE u \in Stretch(ToSet(accepted.events[k]), window.start, d + 1)
  <2>1. u <= d /\ u \in Int /\ u \in ToSet(accepted.events[k]) /\ window.start <= u
    BY <1>6, <1>8 DEF WindowOf, Stretch
  <2>2. u < d + 1
    BY <2>1
  <2>3. QED
    BY <2>1, <2>2 DEF Stretch
<1>9. ASSUME NEW u \in Stretch(ToSet(accepted.events[k]), window.start, d + 1) PROVE u \in Behind(input, k)
  <2>1. u \in Int /\ u \in ToSet(accepted.events[k]) /\ window.start <= u /\ u < d + 1
    BY <1>9 DEF Stretch
  <2>2. u < window.end /\ ~ (d < u)
    BY <2>1
  <2>3. u \in WindowOf(k)
    BY <2>1, <2>2 DEF WindowOf, Stretch
  <2>4. u \notin ToSet(input[k])
    BY <1>7, <2>2
  <2>5. QED
    BY <2>3, <2>4 DEF Behind
<1>10. QED
  BY <1>8, <1>9

LEMMA BarWhole ==
  ASSUME RetainInv, AcceptedData, BatchKept, BatchWhole, stage = "engine", catalog = accepted.events,
         InHand(input, features, decisions), OnBar
  PROVE  stage' = "engine" /\ InHand(input', features', decisions')
<1> DEFINE d == Head(input.bars)
           s == PushBar(features, d)
           M == Behind(input, "marks")
           F == Behind(input, "funding")
           P == Behind(input, "bars")
           z == Lookback * BarInterval
           ready == {b \in P : window.start + z <= b}
           full == Len(s.bars) = Lookback + 1
           tradable == window.decision <= d /\ d < window.end
           ok == s.ok /\ (tradable => s.row # <<>>)
<1>1. /\ IsNextEvent("bars") /\ features' = s /\ stage' = (IF ok THEN "engine" ELSE "refused")
      /\ decisions' = (IF ok /\ tradable THEN decisions \o s.row ELSE decisions)
      /\ input'["bars"] = Tail(input["bars"]) /\ \A j \in Kinds : j # "bars" => input'[j] = input[j]
  <2>1. DOMAIN input = Kinds /\ "bars" \in Kinds
    BY EngineFacts DEF Kinds
  <2>2. QED
    BY <2>1 DEF OnBar, Pass
<1>2. /\ Ordered(input) /\ Consumed(features, M, F)
      /\ IF features.bars = <<>> THEN P = {}
         ELSE P = {b \in Bars : window.start <= b /\ b <= Last(features.bars)}
      /\ Decided(features.bars, ready)
      /\ \A r \in ToSet(decisions) : Agreed(r)
      /\ Times(decisions) = {b \in P : window.decision <= b}
  BY DEF InHand, Ordered
<1>3. /\ Retains(features)
      /\ window.start \in Nat /\ window.end \in Int /\ window.decision \in Int /\ window.start < window.end
      /\ window.start + z <= window.decision
      /\ WindowOf("marks") \subseteq Nat /\ WindowOf("funding") \subseteq Nat
      /\ WindowOf("bars") = {b \in Bars : window.start <= b /\ b < window.end} /\ WindowOf("bars") \subseteq Nat
      /\ Times(rows) = ReadyBars /\ \A r \in ToSet(rows) : Agreed(r)
  BY EngineFacts
<1>4. "marks" \in Kinds /\ "bars" \in Kinds /\ "funding" \in Kinds
  BY DEF Kinds
<1>5. input["bars"] # <<>> /\ d = Head(input["bars"]) /\ (input.bars # <<>> => d <= Head(input.bars))
  <2>1. input["bars"] # <<>> /\ input.bars \in Seq(Int)
    BY <1>1, <1>2, <1>4 DEF IsNextEvent, Ordered
  <2>2. Head(input.bars) \in Int
    BY <2>1
  <2>3. QED
    BY <2>1, <2>2
<1>a. s = PushBar(features, d) /\ tradable = (window.decision <= d /\ d < window.end) /\ full = (Len(s.bars) = Lookback + 1)
  OBVIOUS
<1> HIDE DEF d
<1>6. Taken(input, input', "bars", d)
  <2>1. WindowOf("bars") \subseteq Int
    BY <1>3
  <2>2. QED
    BY <1>1, <1>2, <1>4, <1>5, <2>1, EventTaken
<1>7. /\ Ordered(input') /\ Behind(input', "bars") = P \cup {d}
      /\ Behind(input', "marks") = M /\ Behind(input', "funding") = F
      /\ d \in WindowOf("bars") /\ \A u \in P : u < d
      /\ \A t \in ToSet(input["bars"]) : d <= t
  BY <1>4, <1>6 DEF Taken
<1>8. d \in Bars /\ d \in Nat /\ window.start <= d /\ d < window.end
  BY <1>3, <1>7
<1>b. z \in Nat /\ BarInterval \in Nat \ {0} /\ Lookback \in Nat
  BY HistoryFacts, ClockFacts, FeatureFacts
<1>9. /\ M = MarksFrom(window.start, d + 1) /\ F = FundingFrom(window.start, d + 1)
  <2>1. ToSet(accepted.events.marks) \subseteq Int /\ ToSet(accepted.events.funding) \subseteq Int
    BY SeriesFacts DEF ReadStages, Kinds
  <2>2. WindowOf("marks") \subseteq Int /\ WindowOf("funding") \subseteq Int /\ window.start \in Int /\ d \in Int
    BY <1>3, <1>8
  <2>3. Behind(input, "marks") = Stretch(ToSet(accepted.events["marks"]), window.start, d + 1)
    BY <1>1, <1>2, <1>3, <1>5, <1>8, <2>1, <2>2, PassedAtBar
  <2>4. Behind(input, "funding") = Stretch(ToSet(accepted.events["funding"]), window.start, d + 1)
    BY <1>1, <1>2, <1>3, <1>5, <1>8, <2>1, <2>2, PassedAtBar
  <2>5. QED
    BY <2>3, <2>4 DEF MarksFrom, FundingFrom
<1> HIDE DEF z, M, F, P
<1>10. features.bars \in Seq(Int) /\ Len(features.bars) <= Lookback + 1
  BY <1>3 DEF Retains
<1>11. \A b \in Bars : window.start <= b /\ b < window.end => b \in P \/ d <= b
  <2>1. P = WindowOf("bars") \ ToSet(input["bars"])
    BY DEF P, Behind
  <2>2. QED
    BY <1>3, <1>7, <2>1
<1>12. features.bars # <<>> => d - Last(features.bars) = BarInterval
  <2> DEFINE l == Last(features.bars)
  <2>1. SUFFICES ASSUME features.bars # <<>> PROVE d - l = BarInterval
    OBVIOUS
  <2>2. l \in Bars /\ window.start <= l /\ l < window.end
    BY <1>2, <2>1 DEF Decided
  <2>3. P = {b \in Bars : window.start <= b /\ b <= l}
    BY <1>2, <2>1
  <2> HIDE DEF l
  <2>4. l \in Nat /\ \A c \in Bars : l < c => l + BarInterval <= c
    BY <2>2, BarFacts
  <2>5. l < d
    <3>1. l <= l
      BY <2>4
    <3>2. l \in P
      BY <2>2, <2>3, <3>1
    <3>3. QED
      BY <1>7, <3>2
  <2>6. l + BarInterval <= d
    BY <1>8, <2>4, <2>5
  <2>7. l + BarInterval \in Bars
    <3>1. d < WindowEnd /\ WindowEnd \in Nat
      BY <1>8, BarFacts, ClockFacts
    <3>2. 1 * BarInterval = BarInterval
      BY <1>b
    <3>3. l + 1 * BarInterval >= 0 /\ l + 1 * BarInterval < WindowEnd
      BY <1>b, <1>8, <2>4, <2>6, <3>1, <3>2
    <3>4. l + 1 * BarInterval \in Bars
      BY <2>2, <3>3, BarFacts
    <3>5. QED
      BY <3>2, <3>4
  <2> DEFINE n == l + BarInterval
  <2>8. n \in Bars /\ n \in Int /\ l < n /\ n <= d
    BY <1>b, <2>4, <2>6, <2>7
  <2> HIDE DEF n
  <2>9. window.start <= n /\ n < window.end /\ n \notin P
    BY <1>3, <1>8, <2>2, <2>3, <2>4, <2>8
  <2>10. d <= n
    BY <1>11, <2>8, <2>9
  <2>11. d = n
    BY <1>8, <2>8, <2>10
  <2>12. QED
    BY <1>b, <2>4, <2>11 DEF n
<1>13. (d + 1) % BarInterval = 0
  <2>1. PICK k \in 1 .. BarCount : d = k * BarInterval - 1
    BY <1>8 DEF Bars
  <2>2. k \in Int /\ k * BarInterval \in Int
    BY <1>b, <2>1, BarCountFacts
  <2> DEFINE y == k * BarInterval
  <2>3. d + 1 = y /\ y = k * BarInterval + 0 /\ y \in Int /\ 0 \in 0 .. BarInterval - 1
    <3>1. d = y - 1 /\ y \in Int
      BY <2>1, <2>2
    <3>2. y = k * BarInterval
      OBVIOUS
    <3> HIDE DEF y
    <3>3. QED
      BY <1>b, <2>2, <3>1, <3>2
  <2> HIDE DEF y
  <2>4. y % BarInterval = 0
    BY <1>b, <2>2, <2>3, DivisionUnique
  <2>5. QED
    BY <2>3, <2>4
<1>14. /\ Retains(s) /\ s.bars # <<>> /\ Last(s.bars) = d /\ s.bars \in Seq(Int)
       /\ s.bars = KeptBars(features, d) /\ s.ok = (features.ok /\ Takes(features, d))
       /\ Len(s.bars) = IF Len(features.bars) <= Lookback THEN Len(features.bars) + 1 ELSE Lookback + 1
       /\ s.ok /\ full => \E r : s.row = <<r>> /\ r.ts = d
  <2>1. d \in Int
    BY <1>8
  <2>2. /\ Retains(PushBar(features, d)) /\ PushBar(features, d).bars # <<>> /\ Last(PushBar(features, d).bars) = d
    BY <1>3, <2>1, BarRetains
  <2>3. /\ PushBar(features, d).bars = KeptBars(features, d)
        /\ PushBar(features, d).ok = (features.ok /\ Takes(features, d))
    BY <1>3, <2>1, BarIs
  <2>4. /\ Len(PushBar(features, d).bars) = IF Len(features.bars) <= Lookback THEN Len(features.bars) + 1 ELSE Lookback + 1
        /\ PushBar(features, d).ok =>
               IF Len(PushBar(features, d).bars) = Lookback + 1
               THEN \E r : PushBar(features, d).row = <<r>> /\ r.ts = d
               ELSE PushBar(features, d).row = <<>>
    BY <1>3, <2>1, BarPushed
  <2>5. PushBar(features, d).bars \in Seq(Int)
    BY <2>2 DEF Retains
  <2>6. QED
    BY <2>2, <2>3, <2>4, <2>5
<1>c. full = (Len(s.bars) = Lookback + 1) /\ full \in BOOLEAN
  OBVIOUS
<1> HIDE DEF s
<1>15. Decided(s.bars, ready \cup (IF full THEN {d} ELSE {}))
  <2>1. CASE features.bars = <<>>
    <3>1. Len(s.bars) = 1
      BY <1>b, <1>14, <2>1
    <3>2. \A b \in Bars : window.start <= b => d <= b
      <4>1. ASSUME NEW b \in Bars, window.start <= b PROVE d <= b
        <5>1. b \in Nat
          BY BarFacts
        <5>2. CASE b < window.end
          BY <1>2, <1>11, <2>1, <4>1, <5>2
        <5>3. CASE ~ (b < window.end)
          BY <1>3, <1>8, <5>1, <5>3
        <5>4. QED
          BY <5>2, <5>3
      <4>2. QED
        BY <4>1
    <3>3. Decided(<<>>, ready)
      BY <1>2, <2>1
    <3> HIDE DEF ready
    <3>4. Decided(s.bars, ready \cup (IF Len(s.bars) = Lookback + 1 THEN {d} ELSE {}))
      BY <1>3, <1>8, <1>14, <3>1, <3>2, <3>3, DecidedFirst
    <3>5. QED
      BY <1>c, <3>4
  <2>2. CASE features.bars # <<>>
    <3>1. d - Last(features.bars) = BarInterval
      BY <1>12, <2>2
    <3>2. Decided(features.bars, ready)
      BY <1>2
    <3> HIDE DEF ready
    <3>3. Decided(s.bars, ready \cup (IF Len(s.bars) = Lookback + 1 THEN {d} ELSE {}))
      BY <1>3, <1>8, <1>10, <1>14, <2>2, <3>1, <3>2, DecidedNext
    <3>4. QED
      BY <1>c, <3>3
  <2>3. QED
    BY <2>1, <2>2
<1>16. full <=> window.start + z <= d
  <2>1. ready \cup (IF full THEN {d} ELSE {}) = {b \in Bars : window.start + z <= b /\ b <= d}
    BY <1>14, <1>15 DEF Decided, z
  <2>2. d \notin ready
    <3>1. d \in P => d < d
      BY <1>7
    <3>2. ~ (d < d)
      BY <1>8
    <3>3. QED
      BY <3>1, <3>2
  <2>3. d \in {b \in Bars : window.start + z <= b /\ b <= d} <=> window.start + z <= d
    <3>1. d <= d
      BY <1>8
    <3>2. QED
      BY <1>8, <3>1
  <2> HIDE DEF ready, full
  <2>4. QED
    BY <1>c, <2>1, <2>2, <2>3
<1>17. Takes(features, d)
  <2>1. Takes(features, d) <=> (Len(KeptBars(features, d)) = Lookback + 1 => Enough(M, F, d))
    <3>1. d \in Int
      BY <1>8
    <3>2. QED
      BY <1>2, <1>3, <1>12, <1>13, <3>1, BarAsks
  <2>2. ASSUME full PROVE Enough(M, F, d)
    <3>1. d \in Times(rows)
      <4>1. window.start + z <= d
        BY <1>16, <2>2
      <4>2. QED
        BY <1>3, <1>8, <4>1 DEF ReadyBars, z
    <3>2. PICK r \in ToSet(rows) : r.ts = d
      BY <3>1, TimesOf
    <3>3. Agreed(r)
      BY <1>3
    <3>4. QED
      BY <1>9, <3>2, <3>3 DEF Agreed
  <2>3. QED
    BY <1>14, <2>1, <2>2
<1>18. s.ok
  <2>1. features.ok
    BY <1>2 DEF Consumed
  <2>2. QED
    BY <1>14, <1>17, <2>1
<1>19. ASSUME window.decision <= d
       PROVE  \E r : s.row = <<r>> /\ r.ts = d /\ Agreed(r)
  <2>1. window.start + z <= d
    <3> DEFINE x == window.start + z
    <3>1. x \in Int /\ x <= window.decision
      BY <1>3, <1>b
    <3> HIDE DEF x
    <3>2. x <= d
      BY <1>3, <1>8, <1>19, <3>1
    <3>3. QED
      BY <3>2 DEF x
  <2>2. PICK r : s.row = <<r>> /\ r.ts = d
    BY <1>14, <1>16, <1>18, <2>1
  <2>3. RowIs(r, M, F) /\ Enough(M, F, d)
    <3>1. PushBar(features, d).ok /\ PushBar(features, d).row = <<r>> /\ d \in Int
      BY <1>8, <1>18, <2>2 DEF s
    <3>2. QED
      BY <1>2, <1>3, <3>1, ConsumedRow
  <2>4. Agreed(r)
    BY <1>9, <2>2, <2>3 DEF Agreed
  <2>5. QED
    BY <2>2, <2>4
<1>20. tradable <=> window.decision <= d
  BY <1>8
<1>21. ok
  <2>1. ASSUME tradable PROVE s.row # <<>>
    <3>1. window.decision <= d
      BY <1>20, <2>1
    <3>2. PICK r : s.row = <<r>> /\ r.ts = d /\ Agreed(r)
      BY <1>19, <3>1
    <3>3. QED
      BY <3>2
  <2>2. QED
    BY <1>18, <2>1
<1>d. (ok => stage' = "engine") /\ (ok /\ tradable => decisions' = decisions \o s.row) /\ (~ tradable => decisions' = decisions)
  BY <1>1
<1> HIDE DEF ok, tradable, full
<1>22. stage' = "engine"
  BY <1>21, <1>d
<1>23. (\A r \in ToSet(decisions') : Agreed(r)) /\ Times(decisions') = {b \in P \cup {d} : window.decision <= b}
  <2>1. CASE window.decision <= d
    <3>1. PICK r : s.row = <<r>> /\ r.ts = d /\ Agreed(r)
      BY <1>19, <2>1
    <3>2. decisions' = decisions \o <<r>>
      BY <1>20, <1>21, <1>d, <2>1, <3>1
    <3>3. decisions \in Seq(ToSet(decisions))
      BY DEF RetainInv, Typed, Drawn, Rowed
    <3>4. /\ \A x : x \in ToSet(decisions \o <<r>>) <=> x \in ToSet(decisions) \/ x = r
          /\ Times(decisions \o <<r>>) = Times(decisions) \cup {r.ts}
      BY <3>3, RowAdded
    <3>5. \A x \in ToSet(decisions') : Agreed(x)
      BY <1>2, <3>1, <3>2, <3>4
    <3>6. Times(decisions') = {b \in P \cup {d} : window.decision <= b}
      BY <1>2, <2>1, <3>1, <3>2, <3>4
    <3>7. QED
      BY <3>5, <3>6
  <2>2. CASE ~ (window.decision <= d)
    <3>1. decisions' = decisions
      BY <1>20, <1>d, <2>2
    <3>2. QED
      BY <1>2, <2>2, <3>1
  <2>3. QED
    BY <2>1, <2>2
<1>24. P \cup {d} = {b \in Bars : window.start <= b /\ b <= d}
  <2>1. \A u \in P : u \in WindowOf("bars")
    BY DEF P, Behind
  <2>2. \A u \in P : u \in Bars /\ window.start <= u /\ u <= d
    BY <1>3, <1>7, <1>8, <2>1
  <2>3. ASSUME NEW b \in Bars, window.start <= b, b <= d PROVE b \in P \cup {d}
    <3>1. b \in Nat /\ b < window.end
      BY <1>3, <1>8, <2>3, BarFacts
    <3>2. b \in P \/ b = d
      BY <1>8, <1>11, <2>3, <3>1
    <3>3. QED
      BY <3>2
  <2>4. d <= d
    BY <1>8
  <2>5. QED
    BY <1>8, <2>2, <2>3, <2>4
<1>25. {b \in P \cup {d} : window.start + z <= b} = ready \cup (IF full THEN {d} ELSE {})
  BY <1>16, <1>c
<1>26. Consumed(s, M, F)
  <2>1. PushBar(features, d).ok /\ d \in Int
    BY <1>8, <1>18 DEF s
  <2>2. QED
    BY <1>2, <1>3, <2>1, BarConsumed DEF s
<1>27. features' = s
  BY <1>1 DEF s, d
<1>28. Decided(s.bars, {b \in P \cup {d} : window.start + Lookback * BarInterval <= b})
  BY <1>15, <1>25 DEF z
<1>29. InHand(input', features', decisions')
  BY <1>7, <1>14, <1>23, <1>24, <1>26, <1>27, <1>28 DEF InHand, Ordered
<1>30. QED
  BY <1>22, <1>29

LEMMA ParityWhole ==
  ASSUME RetainInv, AcceptedData, BatchKept, BatchWhole, DecidedOn, stage = "engine", catalog = accepted.events,
         InHand(input, features, decisions), \A k \in Kinds : input[k] = <<>>
  PROVE  Len(decisions) = Cardinality(Times(Tradable)) /\ ToSet(decisions) \subseteq ToSet(Tradable)
<1> DEFINE T == TimeList(decisions)
<1>1. /\ window.start \in Nat /\ window.end \in Int /\ window.decision \in Int
      /\ window.start + Lookback * BarInterval <= window.decision
      /\ WindowOf("marks") \subseteq Nat /\ WindowOf("funding") \subseteq Nat
      /\ WindowOf("bars") = {b \in Bars : window.start <= b /\ b < window.end}
      /\ \A r \in ToSet(rows) : Agreed(r)
  BY EngineFacts
<1>2. (\A r \in ToSet(decisions) : Agreed(r)) /\ Times(decisions) = {b \in Behind(input, "bars") : window.decision <= b}
  BY DEF InHand
<1>3. Behind(input, "bars") = WindowOf("bars")
  <2>1. input["bars"] = <<>>
    BY DEF Kinds
  <2>2. ToSet(<<>>) = {}
    BY DEF ToSet
  <2>3. QED
    BY <2>1, <2>2 DEF Behind
<1>4. \A b \in Bars : b \in Nat
  BY BarFacts
<1>5. Times(decisions) = DecisionBars
  <2> DEFINE z == Lookback * BarInterval
  <2>1. z \in Nat /\ window.start + z <= window.decision
    BY <1>1, HistoryFacts
  <2> HIDE DEF z
  <2>2. window.start <= window.decision
    BY <1>1, <2>1
  <2>3. \A b \in Bars : window.decision <= b => window.start <= b
    BY <1>1, <1>4, <2>2
  <2>4. QED
    BY <1>1, <1>2, <1>3, <2>3 DEF DecisionBars
<1>6. Times(Tradable) = DecisionBars /\ \A x : x \in ToSet(Tradable) <=> x \in ToSet(rows) /\ x.ts >= window.decision
  BY TradableTimes
<1>7. Len(decisions) = Cardinality(Times(Tradable))
  <2>1. decisions \in Seq(ToSet(decisions)) /\ Times(decisions) \subseteq Int
    <3>1. decisions \in Seq(ToSet(decisions))
      BY DEF RetainInv, Typed, Drawn, Rowed
    <3>2. QED
      BY <1>4, <1>5, <3>1 DEF DecisionBars
  <2>2. T \in Seq(Int) /\ Len(T) = Len(decisions) /\ ToSet(T) = Times(decisions)
    BY <2>1, TimeListIs
  <2>3. Ascending(T)
    BY DEF DecidedOn
  <2> HIDE DEF T
  <2>4. Cardinality(ToSet(T)) = Len(T)
    BY <2>2, <2>3, AscendingCount
  <2>5. QED
    BY <1>5, <1>6, <2>2, <2>4
<1>8. ASSUME NEW r \in ToSet(decisions) PROVE r \in ToSet(Tradable)
  <2>1. r.ts \in Times(Tradable)
    BY <1>5, <1>6, <1>8, TimesOf
  <2>2. PICK x \in ToSet(Tradable) : x.ts = r.ts
    BY <2>1, TimesOf
  <2>3. Agreed(r) /\ Agreed(x)
    BY <1>1, <1>2, <1>6, <1>8, <2>2
  <2> DEFINE M == MarksFrom(window.start, r.ts + 1)
             F == FundingFrom(window.start, r.ts + 1)
  <2>4. RowIs(r, M, F) /\ RowIs(x, M, F)
    BY <2>2, <2>3 DEF Agreed
  <2>5. M \subseteq Nat /\ F \subseteq Nat
    <3>1. ToSet(accepted.events.marks) \subseteq Int /\ ToSet(accepted.events.funding) \subseteq Int
      BY SeriesFacts DEF ReadStages, Kinds
    <3>2. \A t \in Int : window.start <= t => t \in Nat
      BY <1>1
    <3>3. QED
      BY <3>1, <3>2 DEF MarksFrom, FundingFrom, Stretch
  <2> HIDE DEF M, F
  <2>6. x = r
    BY <2>2, <2>4, <2>5, OnlyRow
  <2>7. QED
    BY <2>2, <2>6
<1>9. QED
  BY <1>7, <1>8

EngineInv == PublishedInv /\ BatchWhole /\ EngineWhole /\ EngineAgrees

\* A step of the engine of a whole catalog is not refused.
LEMMA EngineStep ==
  ASSUME PublishedInv, BatchWhole, EngineWhole, catalog = accepted.events,
         EngineRead \/ OnMarkPrice \/ OnFundingRate \/ OnBar
  PROVE  stage' = "engine" /\ InHand(input', features', decisions')
<1>1. RetainInv /\ AcceptedData /\ BatchKept /\ DecidedOn
  BY DEF PublishedInv, RowInv
<1>2. CASE EngineRead
  BY <1>1, <1>2, EngineReadWhole
<1>3. CASE OnMarkPrice \/ OnFundingRate \/ OnBar
  <2>1. stage = "engine"
    BY <1>3 DEF OnMarkPrice, OnFundingRate, OnBar
  <2>2. InHand(input, features, decisions)
    BY <2>1 DEF EngineWhole
  <2>3. QED
    BY <1>1, <1>3, <2>1, <2>2, MarkWhole, FundingWhole, BarWhole
<1>4. QED
  BY <1>2, <1>3

LEMMA EngineWholeNext == EngineInv /\ [Next]_vars => EngineWhole'
<1>1. SUFFICES ASSUME EngineInv, [Next]_vars, stage' = "engine", catalog' = accepted'.events PROVE EngineWhole'
  BY DEF EngineWhole
<1>2. PublishedInv /\ BatchWhole /\ EngineWhole
  BY <1>1 DEF EngineInv
<1>3. CASE SourceFault \/ CatalogFault \/ ProbeIndex \/ LoadBars \/ LoadMarksAndFunding \/ WriteCatalog
           \/ CrosscheckCatalog \/ Accept \/ Bind \/ BatchRead \/ BatchBar \/ FinishBatch \/ Parity
  <2>1. stage' # "engine"
    BY <1>3 DEF SourceFault, CatalogFault, ProbeIndex, LoadBars, LoadMarksAndFunding, WriteCatalog, CrosscheckCatalog,
                Accept, Bind, BatchRead, BatchBar, FinishBatch, Parity, Pass
  <2>2. QED
    BY <1>1, <2>1
<1>4. ASSUME accepted' = accepted, window' = window, InHand(input', features', decisions') PROVE EngineWhole'
  <2>1. InHand(input, features, decisions)' = InHand(input', features', decisions')
    BY <1>4 DEF InHand, Behind, WindowOf, Agreed, MarksFrom, FundingFrom, Decided
  <2>2. QED
    BY <1>4, <2>1 DEF EngineWhole
<1>5. CASE EngineRead \/ OnMarkPrice \/ OnFundingRate \/ OnBar
  <2>1. accepted' = accepted /\ window' = window /\ catalog' = catalog
    BY <1>5 DEF EngineRead, OnMarkPrice, OnFundingRate, OnBar
  <2>2. InHand(input', features', decisions')
    BY <1>1, <1>2, <1>5, <2>1, EngineStep
  <2>3. QED
    BY <1>4, <2>1, <2>2
<1>6. CASE UNCHANGED vars
  <2>1. /\ stage' = stage /\ accepted' = accepted /\ window' = window /\ catalog' = catalog
        /\ input' = input /\ features' = features /\ decisions' = decisions
    BY <1>6 DEF vars, research
  <2>2. InHand(input, features, decisions)
    BY <1>1, <1>2, <2>1 DEF EngineWhole
  <2>3. InHand(input', features', decisions')
    BY <2>1, <2>2
  <2>4. QED
    BY <1>4, <2>1, <2>3
<1>7. QED
  BY <1>1, <1>3, <1>5, <1>6 DEF Next

LEMMA EngineAgreesNext == EngineInv /\ [Next]_vars => EngineAgrees'
<1>1. SUFFICES ASSUME EngineInv, [Next]_vars, failed' \in {"load", "engine", "parity"}, catalog' = accepted'.events
               PROVE  FALSE
  BY DEF EngineAgrees
<1>2. PublishedInv /\ BatchWhole /\ EngineWhole /\ EngineAgrees /\ Controlled
  BY <1>1 DEF EngineInv, PublishedInv, RowInv, RetainInv, Typed
<1>3. ASSUME stage # "refused" PROVE failed = "none"
  BY <1>2, <1>3 DEF Controlled
<1>4. CASE SourceFault \/ CatalogFault \/ ProbeIndex \/ LoadBars \/ LoadMarksAndFunding \/ WriteCatalog
           \/ CrosscheckCatalog \/ Accept \/ Bind \/ BatchRead \/ BatchBar \/ FinishBatch
  <2>1. stage # "refused"
        /\ failed' \in {failed, "index", "bars", "marks", "write", "crosscheck", "accept", "bind", "read", "features"}
    BY <1>4 DEF SourceFault, CatalogFault, ProbeIndex, LoadBars, LoadMarksAndFunding, WriteCatalog, CrosscheckCatalog,
                Accept, Bind, BatchRead, BatchBar, FinishBatch, Pass
  <2>2. QED
    BY <1>1, <1>3, <2>1
<1>5. CASE EngineRead \/ OnMarkPrice \/ OnFundingRate \/ OnBar
  <2>1. catalog' = catalog /\ accepted' = accepted
    BY <1>5 DEF EngineRead, OnMarkPrice, OnFundingRate, OnBar
  <2>2. stage' = "engine"
    BY <1>1, <1>2, <1>5, <2>1, EngineStep
  <2>3. Controlled'
    BY <1>1, <1>2, ControlNext
  <2>4. QED
    BY <1>1, <2>2, <2>3 DEF Controlled
<1>6. CASE Parity
  <2>1. stage = "engine" /\ catalog' = catalog /\ accepted' = accepted /\ \A k \in Kinds : input[k] = <<>>
    BY <1>6 DEF Parity
  <2>2. RetainInv /\ AcceptedData /\ BatchKept /\ DecidedOn
    BY <1>2 DEF PublishedInv, RowInv
  <2>3. InHand(input, features, decisions)
    BY <1>1, <1>2, <2>1 DEF EngineWhole
  <2>4. Len(decisions) = Cardinality(Times(Tradable)) /\ ToSet(decisions) \subseteq ToSet(Tradable)
    BY <1>1, <1>2, <2>1, <2>2, <2>3, ParityWhole
  <2>5. failed' = failed
    BY <1>6, <2>4 DEF Parity, Pass
  <2>6. QED
    BY <1>1, <1>3, <2>1, <2>5
<1>7. CASE UNCHANGED vars
  <2>1. failed' = failed /\ catalog' = catalog /\ accepted' = accepted
    BY <1>7 DEF vars
  <2>2. QED
    BY <1>1, <1>2, <2>1 DEF EngineAgrees
<1>8. QED
  BY <1>1, <1>4, <1>5, <1>6, <1>7 DEF Next

(* Read, batch and engine never disagree over the accepted events: a window     *)
(* whose batch was complete is not refused when it is loaded a second time, by  *)
(* the engine, whose state starts empty at the start of the window, or by the   *)
(* comparison of its decisions with the batch (_verify_signal_parity), as long  *)
(* as the catalog is what was accepted.                                         *)
THEOREM EngineAgreesHolds == Spec => []EngineAgrees
<1>1. Init => EngineInv
  <2>1. Init => PublishedInv
    BY PublishedInvInit
  <2>2. Init => BatchWhole /\ EngineWhole /\ EngineAgrees
    BY DEF Init, BatchWhole, EngineWhole, EngineAgrees
  <2>3. QED
    BY <2>1, <2>2 DEF EngineInv
<1>2. EngineInv /\ [Next]_vars => EngineInv'
  <2>1. EngineInv => PublishedInv /\ BatchWhole
    BY DEF EngineInv
  <2>2. QED
    BY <2>1, PublishedInvNext, BatchWholeNext, EngineWholeNext, EngineAgreesNext DEF EngineInv
<1>3. EngineInv => EngineAgrees
  BY DEF EngineInv
<1>4. QED
  BY <1>1, <1>2, <1>3, PTL DEF Spec

=============================================================================
