---------------------------- MODULE LatencyReports ----------------------------
(***************************************************************************)
(* What the scripts compute from the stream of k6: the minutes of          *)
(* chart_report.py and the buckets of plot-latency-over-time.py.  A point  *)
(* of the stream has the time it was taken at (time, in seconds), a        *)
(* duration (ms) and whether the response was one that k6 expects.         *)
(***************************************************************************)
EXTENDS Integers, SequencesExt

ValuesOf(points) == [i \in DOMAIN points |-> points[i].ms]

\* A hundred times the value at a percentile of a sequence, by linear interpolation.
Interpolated(sequence, p) ==
  LET pos == (Len(sequence) - 1) * p
      lo  == sequence[pos \div 100 + 1]
      hi  == sequence[(pos + 99) \div 100 + 1]
  IN lo * 100 + (hi - lo) * (pos % 100)

\* The k-th of some values in order: the least that k of them do not exceed.
Ordered(values) ==
  LET upTo(v) == Cardinality({i \in DOMAIN values : values[i] <= v})
  IN [k \in 1 .. Cardinality(DOMAIN values) |-> Min({v \in Range(values) : upTo(v) >= k})]

Percentile(values, p) == Interpolated(Ordered(values), p)

\* Variant: the first point of the file is taken for the earliest.
MinuteFromFirst(points, i) == (points[i].time - points[1].time) \div 60

\* Minutes since the first point of the file, which need not be the earliest.
MinuteOf(points, i) ==
  LET minute == (points[i].time - points[1].time) \div 60
  IN IF minute < 0 THEN 0 ELSE minute

\* The minutes with points: how many, and their 95th percentile.
Minutes(points) ==
  LET own(m) == {i \in DOMAIN points : MinuteOf(points, i) = m}
  IN [m \in {MinuteOf(points, i) : i \in DOMAIN points} |->
        [n   |-> Cardinality(own(m)),
         p95 |-> Percentile([i \in own(m) |-> points[i].ms], 95)]]

\* Buckets of ten seconds by the clock.
BucketOf(point) == (point.time \div 10) * 10

Aggregate(points, own) ==
  LET values == [i \in own |-> points[i].ms]
  IN [p50 |-> Percentile(values, 50), p95 |-> Percentile(values, 95),
      p99 |-> Percentile(values, 99), max |-> Max(Range(values)),
      requests |-> Cardinality(own),
      failures |-> Cardinality({i \in own : ~points[i].expected})]

\* By the time since the start of the first bucket.
Buckets(points) ==
  LET starts == {BucketOf(points[i]) : i \in DOMAIN points}
      own(s) == {i \in DOMAIN points : BucketOf(points[i]) = s}
  IN [since \in {s - Min(starts) : s \in starts} |-> Aggregate(points, own(since + Min(starts)))]
=============================================================================
