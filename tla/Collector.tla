------------------------------ MODULE Collector ------------------------------
(***************************************************************************)
(* collect-container-metrics.py beside the runner that enters the phases:  *)
(* each loop measures the container, computes the CPU share against the    *)
(* previous reading, saves the raw text, files a row under the phase found *)
(* in phases.json and scrapes the application.  Intervals are timed by the *)
(* monotonic clock, rows by the wall clock, which may be set back.         *)
(***************************************************************************)
EXTENDS MemoryReports

CONSTANTS
  Interval,      \* INTERVAL_SECONDS
  Planned,       \* the phases until STOP is set, the measured one last
  Duration,      \* the planned length of the measured phase
  Counters,      \* <<memory.current, inactive_file>> of a reading
  Work,          \* CPU time used between two readings
  Tick,          \* step of the clock
  MaxClock,      \* bound: the clock stops
  Shift,         \* how far the wall clock is set back at once
  MaxSetBacks,   \* bound: how often
  MaxMalformed   \* bound: readings with a malformed line

ASSUME CollectorAssumption ==
  /\ Planned \in Seq(STRING) \ {<<>>}
  /\ \A i \in DOMAIN Planned : Planned[i] = Last(Planned) => i = Len(Planned)
  /\ {Interval, Duration, Tick, Shift} \subseteq Nat \ {0}
  /\ {MaxClock, MaxSetBacks, MaxMalformed} \subseteq Nat
  /\ Counters \subseteq Nat \X Nat
  /\ Work \subseteq Nat

VARIABLES
  clock,      \* time.monotonic
  setbacks,   \* how often the wall clock was set back
  phases,     \* phases.json
  stop,       \* STOP
  collector,  \* waiting, filing, stopped or dead
  final,      \* final_sample
  due,        \* when the next reading is due
  usage,      \* usage_usec of the container
  taken,      \* the reading in hand
  previous,   \* time and CPU counter of the one before
  rows,       \* runtime-metrics.csv
  errors,     \* cgroup-errors/
  malformed   \* readings with a malformed line

container == <<usage, malformed>>
loop == <<collector, final, due>>
vars == <<clock, setbacks, phases, stop, loop, container, taken, previous, rows, errors>>

Scenario == Last(Planned)

\* time.time(), from the start of the observation
Now == clock - Shift * setbacks

Alive == collector \in {"waiting", "filing"}

Init ==
  /\ clock = 0
  /\ setbacks = 0
  /\ phases = <<[name |-> Planned[1], epoch |-> 0]>>
  /\ stop = FALSE
  /\ collector = "waiting"
  /\ final = FALSE
  /\ due = 0
  /\ usage = 0
  /\ taken = None
  /\ previous = None
  /\ rows = <<>>
  /\ errors = 0
  /\ malformed = 0

-----------------------------------------------------------------------------
(* Around the collector *)

Advance ==
  /\ Alive
  /\ clock < MaxClock
  /\ clock' = clock + Tick
  /\ UNCHANGED <<setbacks, phases, stop, loop, container, taken, previous, rows, errors>>

SetBack ==
  /\ Alive
  /\ setbacks < MaxSetBacks
  /\ setbacks' = setbacks + 1
  /\ UNCHANGED <<clock, phases, stop, loop, container, taken, previous, rows, errors>>

EnterPhase ==
  /\ Alive
  /\ Len(phases) < Len(Planned)
  /\ phases' = Append(phases, [name |-> Planned[Len(phases) + 1], epoch |-> Now])
  /\ UNCHANGED <<clock, setbacks, stop, loop, container, taken, previous, rows, errors>>

RequestStop ==
  /\ Alive
  /\ Len(phases) = Len(Planned)
  /\ ~stop
  /\ stop' = TRUE
  /\ UNCHANGED <<clock, setbacks, phases, loop, container, taken, previous, rows, errors>>

-----------------------------------------------------------------------------
(* The loop *)

WorkingSet(counters) ==
  IF counters[2] < counters[1] THEN counters[1] - counters[2] ELSE counters[1]

\* STOP.wait returns when the next reading is due, or as soon as STOP is set;
\* docker exec takes less than a tick, but no two readings have the same time.
Look ==
  /\ collector = "waiting"
  /\ stop \/ clock >= due
  /\ previous # None => clock > previous.tick

\* docker exec succeeds with both memory counters; the line of the CPU counter may
\* be malformed.
Measure(counters, work, lost) ==
  /\ Look
  /\ collector' = "filing"
  /\ final' = stop
  /\ due' = clock + Interval
  /\ usage' = usage + work
  /\ malformed' = IF lost THEN malformed + 1 ELSE malformed
  /\ malformed' <= MaxMalformed
  /\ taken' = [tick |-> clock, now |-> Now, used |-> WorkingSet(counters),
               cpu |-> IF lost THEN Missing ELSE usage']
  /\ UNCHANGED <<clock, setbacks, phases, stop, previous, rows, errors>>

\* docker exec fails, or a memory counter is not in the reading.
MeasureFails ==
  /\ Look
  /\ collector' = "dead"
  /\ errors' = errors + 1
  /\ UNCHANGED <<clock, setbacks, phases, stop, final, due, container, taken, previous, rows>>

\* The CPU share since the previous reading cannot be computed.
NoShare ==
  /\ previous # None
  /\ Missing \in {taken.cpu, previous.cpu} \/ taken.now = previous.now

ShareFails ==
  /\ collector = "filing"
  /\ NoShare
  /\ collector' = "dead"
  /\ UNCHANGED <<clock, setbacks, phases, stop, final, due, container, taken, previous, rows,
                 errors>>

File ==
  LET phase == Last(phases)
      row   == [elapsed |-> taken.now, phase |-> phase.name,
                since |-> taken.now - phase.epoch, used |-> taken.used, cpu |-> taken.cpu]
  IN /\ collector = "filing"
     /\ ~NoShare
     /\ collector' = IF final THEN "stopped" ELSE "waiting"
     /\ previous' = taken
     /\ taken' = None
     /\ rows' = Append(rows, row)
     /\ UNCHANGED <<clock, setbacks, phases, stop, final, due, container, errors>>

\* Variant: named by the time since the phase began.
NamedSince(row) == row.since

\* The name of the scrape taken with a row, if the application answers.
ScrapeName(row) == row.elapsed

Next ==
  \/ Advance
  \/ SetBack
  \/ EnterPhase
  \/ RequestStop
  \/ \E c \in Counters, w \in Work, lost \in BOOLEAN : Measure(c, w, lost)
  \/ MeasureFails
  \/ ShareFails
  \/ File

Spec == Init /\ [][Next]_vars

-----------------------------------------------------------------------------
(* Properties *)

\* The rows of a run validate-run.py takes the samples of.
Taken == collector = "stopped" /\ Admissible(rows, Scenario, Interval, Duration)

Own == OfPhase(rows, Scenario)

Whole == PhaseReport(rows, Scenario).whole
Windows == PhaseReport(rows, Scenario).windows

AtMost(q, r) == q[1] * r[2] <= r[1] * q[2]

\* A mean lies between the smallest and the largest sample it is a mean of.
MeanSound(selected, s) ==
  LET used == {selected[i].used : i \in DOMAIN selected}
  IN s.mean # None => AtMost(<<Min(used), 1>>, s.mean) /\ AtMost(s.mean, <<Max(used), 1>>)

\* A window begins with the sample the one before ended with, up to the last one.
Seamless(own) ==
  /\ own[1].since >= Borders[1] /\ Last(own).since <= Last(Borders)
  /\ \A k \in DOMAIN Borders : own[1].since < Borders[k] /\ Borders[k] < Last(own).since =>
       \E i \in DOMAIN own : own[i].since = Borders[k]

\* The CPU time of all steps.
Counted(windows) ==
  Total([k \in 1 .. Len(Borders) - 1 |->
           IF Step(k) \in DOMAIN windows THEN windows[Step(k)].cpu[1] ELSE 0])

\* phase-report.py summarises an admitted run soundly whatever happened to the
\* clock: every mean lies within its samples, every sample of the first three hours
\* of the phase is in a window, consecutive windows never count more CPU time than the
\* phase and count all of it where samples lie on their borders, and memory that
\* only grows has no falling trend.
SummariesSound ==
  Taken =>
    LET own     == Own
        whole   == Whole
        windows == Windows
        counted == Counted(windows)
    IN /\ MeanSound(own, whole)
       /\ \A w \in DOMAIN windows : MeanSound(InWindow(own, w), windows[w])
       /\ \A i \in DOMAIN own : Between(Borders[1], Last(Borders), own[i].since) =>
            \E w \in DOMAIN windows \cap Steps : Between(w[1], w[2], own[i].since)
       /\ counted <= whole.cpu[1] /\ (Seamless(own) => counted = whole.cpu[1])
       /\ (\A i \in 1 .. Len(own) - 1 : own[i].used <= own[i + 1].used)
            => \A t \in Trends : LET trend == Trend(own, t) IN trend # None => trend[1] >= 0

\* The two reports that summarise an admitted run tell the same: the average and
\* the peak of compare-results.py are those of phase-report.py, which measures time
\* from another origin, and the curve of chart_report.py never exceeds the peak.
ReportsAgree ==
  Taken =>
    LET p == Compared(rows, Scenario)
        drawn == Drawn(rows, Scenario)
    IN /\ Whole.mean # None =>
            Whole.mean[1] * MemoryAverage(p)[2] = MemoryAverage(p)[1] * Whole.mean[2]
       /\ MemoryPeak(p) = Whole.max
       /\ \A i \in DOMAIN drawn : AtMost(<<drawn[i][2], 1>>, MemoryPeak(p))

\* The gaps the validator admits are never too wide for the comparison: an
\* admitted run that was sampled up to a minute of the comparison has a reading
\* there, that of a sample no other one is closer than.
MinuteReadings ==
  Taken =>
    LET p == Compared(rows, Scenario)
    IN \A target \in {300, 600, 1200, 1800} :
         (\E i \in DOMAIN p : p[i][1] >= target) =>
           /\ MemoryAt(p, Interval, target) # None
           /\ \E i \in DOMAIN p :
                /\ MemoryAt(p, Interval, target) = <<p[i][2], 1>>
                /\ \A j \in DOMAIN p : Distance(p[i][1], target) <= Distance(p[j][1], target)

\* While the clock is not set back, phase-report.py attributes every scrape of the
\* application to the phase its row was filed under.
ScrapesFiled ==
  setbacks = 0 =>
    \A i \in DOMAIN rows : PhaseOfScrape(rows, ScrapeName(rows[i])) = <<rows[i].phase>>

\* DECISIONS.md: a sample without the counters it needs ends the collection, but
\* the error is saved in cgroup-errors.
FailureLeavesEvidence == collector = "dead" => errors > 0
=============================================================================
