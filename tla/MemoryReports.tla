---------------------------- MODULE MemoryReports ----------------------------
(***************************************************************************)
(* What the scripts compute from runtime-metrics.csv: the summaries of     *)
(* phase-report.py, the row of compare-results.py, the curve of            *)
(* chart_report.py, and the look validate-run.py takes at the samples.     *)
(*                                                                         *)
(* A row has the time since the start of the observation (elapsed), its    *)
(* phase and the time since that phase began (since), the working set      *)
(* (used) and the CPU counter (cpu), which stand for the other memory      *)
(* fields and counters.  Quotients are pairs of integers.                  *)
(***************************************************************************)
EXTENDS Integers, SequencesExt

None == <<>>    \* Python's None
Missing == -1   \* an empty field

Between(lo, hi, x) == lo <= x /\ x <= hi

Greater(a, b) == IF a >= b THEN a ELSE b

Distance(a, b) == IF a >= b THEN a - b ELSE b - a

Quotient(a, b) == IF b >= 0 THEN <<a, b>> ELSE <<-a, -b>>

\* The rows at some positions, first to last.
Nth(positions, n) ==
  CHOOSE i \in positions : Cardinality({j \in positions : j <= i}) = n
At(rows, positions) ==
  [n \in 1 .. Cardinality(positions) |-> rows[Nth(positions, n)]]

\* The sums of the first numbers of a sequence, and that of all.
Sums(f) ==
  LET s[n \in 0 .. Len(f)] == IF n = 0 THEN 0 ELSE s[n - 1] + f[n] IN s
Total(f) == Sums(f)[Len(f)]

-----------------------------------------------------------------------------
(* phase-report.py *)

\* In seconds: the steps of three hours, from border to border, then the hours.
Borders == <<0, 60, 300, 600, 1200, 1800, 3600, 7200, 10800>>
Step(k) == <<Borders[k], Borders[k + 1]>>
Steps == {Step(k) : k \in 1 .. Len(Borders) - 1}
Hours == {<<0, 3600>>, <<3600, 7200>>, <<7200, 10800>>}

Trends == {3600, 5400}

\* Pairs of a time and a value.
Points(rows, time, field) ==
  LET kept == At(rows, {i \in DOMAIN rows : rows[i][field] # Missing})
  IN [i \in DOMAIN kept |-> <<kept[i][time], kept[i][field]>>]

\* Twice the area below the points, by trapezoids.
Area(p) ==
  Total([i \in 1 .. Len(p) - 1 |-> (p[i + 1][1] - p[i][1]) * (p[i][2] + p[i + 1][2])])

Span(p) == IF p = <<>> THEN 0 ELSE Last(p)[1] - p[1][1]

WeightedMean(p) == IF Span(p) = 0 THEN None ELSE Quotient(Area(p), 2 * Span(p))

\* Least squares.
LinearSlope(p) ==
  LET n  == Len(p)
      x  == [i \in 1 .. n |-> p[i][1] - p[1][1]]
      y  == [i \in 1 .. n |-> p[i][2]]
      times(a, b) == Total([i \in 1 .. n |-> a[i] * b[i]])
      sx == Total(x)
      d  == n * times(x, x) - sx * sx
  IN IF n < 2 \/ d = 0 THEN None
     ELSE Quotient(n * times(x, y) - sx * Total(y), d)

\* The rows a trend is drawn through.
Recent(rows, span) ==
  At(rows, {i \in DOMAIN rows : rows[i].since >= Last(rows).since - span /\ rows[i].used # Missing})

Trend(rows, span) == LinearSlope(Points(Recent(rows, span), "since", "used"))

Delta(rows, field) ==
  IF rows[1][field] = Missing \/ Last(rows)[field] = Missing THEN None
  ELSE <<Last(rows)[field] - rows[1][field], 1>>

\* Of a non-empty selection of rows.
Summary(rows) ==
  LET p == Points(rows, "elapsed", "used")
  IN [samples  |-> Len(rows),
      observed |-> Last(rows).elapsed - rows[1].elapsed,
      mean     |-> WeightedMean(p),
      max      |-> IF p = <<>> THEN None ELSE <<Max({p[i][2] : i \in DOMAIN p}), 1>>,
      cpu      |-> Delta(rows, "cpu")]

OfPhase(rows, phase) == At(rows, {i \in DOMAIN rows : rows[i].phase = phase})

InWindow(rows, w) == At(rows, {i \in DOMAIN rows : Between(w[1], w[2], rows[i].since)})

\* The report on one phase; a window without samples is absent.
PhaseReport(rows, phase) ==
  LET selected == OfPhase(rows, phase)
      present  == {w \in Steps \cup Hours : InWindow(selected, w) # <<>>}
  IN [whole   |-> Summary(selected),
      windows |-> [w \in present |-> Summary(InWindow(selected, w))],
      trends  |-> [t \in Trends |-> Trend(selected, t)]]

\* The phase a scrape of the application is attributed to: that of the first row
\* with its time.
PhaseOfScrape(rows, elapsed) ==
  LET i == SelectInSeq(rows, LAMBDA r : r.elapsed = elapsed)
  IN IF i = 0 THEN None ELSE <<rows[i].phase>>

-----------------------------------------------------------------------------
(* compare-results.py and chart_report.py *)

\* The samples of the measured phase.
Compared(rows, scenario) == Points(OfPhase(rows, scenario), "since", "used")

\* Variant: the plain mean of the samples.
PlainAverage(p) == IF p = <<>> THEN None
                   ELSE <<Total([i \in DOMAIN p |-> p[i][2]]), Len(p)>>

MemoryAverage(p) ==
  IF Len(p) > 1 /\ Span(p) > 0 THEN <<Area(p), 2 * Span(p)>>
  ELSE IF p # <<>> THEN <<p[1][2], 1>> ELSE None

MemoryPeak(p) == IF p = <<>> THEN None ELSE <<Max({p[i][2] : i \in DOMAIN p}), 1>>

\* The sample closest to a time, if the samples reach that far and one is close.
Closest(p, target) ==
  CHOOSE i \in DOMAIN p : \A j \in DOMAIN p :
    Distance(p[i][1], target) <= Distance(p[j][1], target)

\* Variant: within one interval.
CloseEnoughOnce(interval) == interval

CloseEnough(interval) == Greater(2 * interval, 5)

MemoryAt(p, interval, target) ==
  IF \A i \in DOMAIN p : p[i][1] < target THEN None
  ELSE LET c == p[Closest(p, target)]
       IN IF Distance(c[1], target) <= CloseEnough(interval) THEN <<c[2], 1>> ELSE None

\* The curve leaves out what was measured before the phase began.
Drawn(rows, scenario) ==
  LET p == Compared(rows, scenario) IN At(p, {i \in DOMAIN p : p[i][1] >= 0})

-----------------------------------------------------------------------------
(* validate-run.py *)

Tolerance(interval) == Greater(3 * interval, 3)

\* Variant: a step back in time is no gap.
NoGapsAhead(t, interval) == \A i \in 1 .. Len(t) - 1 : t[i + 1] - t[i] <= Tolerance(interval)

NoGaps(t, interval) ==
  \A i \in 1 .. Len(t) - 1 : Between(0, Tolerance(interval), t[i + 1] - t[i])

Covered(rows, phase, interval, duration) ==
  LET own == OfPhase(rows, phase)
      t   == [i \in DOMAIN own |-> own[i].since]
  IN /\ Len(t) >= 2
     /\ t[1] <= Tolerance(interval)
     /\ Last(t) >= duration - Tolerance(interval)
     /\ NoGaps(t, interval)

\* Every counter is there, and the phase is sampled from end to end.
Admissible(rows, phase, interval, duration) ==
  /\ \A i \in DOMAIN rows : rows[i].used # Missing /\ rows[i].cpu # Missing
  /\ Covered(rows, phase, interval, duration)
=============================================================================
