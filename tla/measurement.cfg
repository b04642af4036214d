\* An idle scenario of five minutes and more, sampled every 200 seconds with up to
\* five or six readings; the wall clock may be set back once.
SPECIFICATION Spec
CONSTANTS
  Interval = 200
  Planned <- MCPlanned
  Duration = 600
  Counters <- MCCounters
  Work <- MCWork
  Tick = 100
  Shift = 300
  MaxClock = 700
  MaxSetBacks = 1
  MaxMalformed = 0
CHECK_DEADLOCK FALSE
INVARIANTS
  SummariesSound
  ReportsAgree
  MinuteReadings
  ScrapesFiled
