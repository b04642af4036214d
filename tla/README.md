# Verification of the JVM research sandbox

The repository compares Java runtimes on one Spring Boot application. The application is a small order
system (MongoDB, Kafka, an external HTTP service), a runner starts it with its dependencies, drives a
workload, waits for the background work to end and records measurements. A measurement is only worth
something if every run does the same work: no event lost, none applied twice, and no work left when the idle
phase is measured. This directory holds the TLA+ model of that work, its checks and its proofs.

Paths below are relative to the repository; `J` is `src/main/java/dev/pushkin/jvmresearch/enterprise`.

## 1. Inventory

| Component | State | Operations | Works with |
|---|---|---|---|
| Order aggregate (`J/domain`, `J/repository/OrderBounds`) | one MongoDB document per order: status, FNS attempts, version, receipts of applied events, outbox | trimmed and bounded on every save | everything below |
| Locks (`J/service/OrderLocks`) | 1024 `ReentrantLock`s, an order's by its hash | run an action under the lock of an order | all writers of orders |
| Requests and retry (`J/service/OrderFlowService`, `J/scheduler/RetryOrdersScheduler`) | none of their own | call the external service, change the status, stage the status event, save | HTTP threads, the retry scheduler |
| Polling (`J/scheduler/StatusPollingScheduler`) | its page of candidates | the same, for waiting orders | |
| Dispatcher (`J/kafka/OutboxDispatcher`) | its page, the copy it works through | send the head of the outbox (twice for a synthetic duplicate), remove it, save | Kafka |
| Listeners (`J/kafka/EventProcessor`) | the record in hand, committed afterwards | receipt check, apply, stage the business event of a completion, save, mark, count | Kafka, dedup cache |
| Dedup cache (`J/kafka/InMemoryBusinessEventDeduplicationService`) | insertion-ordered map with capacity and time to live | mark, look up, purge, evict | listeners |
| Counters and state (`J/service/ResearchMetrics`, `J/web/ResearchStateController`) | 20 counters | increment; read bounds, then counters one by one | all, the runner |
| Traffic profile (`J/service/TrafficProfile`), trace (`scripts/workload.py`), `load/k6` | the trace; k6's iteration counter | fault mode, synthetic conflict, synthetic duplicate by hash of id and call site; order of requests; arrivals and answers | requests, polling, dispatcher, validation |
| External client (`J/external/ExternalApiClient`) | none | call the service, classify its failure | requests, polling |
| Seeding (`J/service/OrderSeedService`) | none | fill an empty collection in batches | runner |
| Experiment runner (`scripts/run-experiment.sh`, `check-drained.py`) | `phase.txt`, the result directory, child processes | start, seed, load, drain, idle, finish, clean up | the application over HTTP |
| Collector (`scripts/collect-container-metrics.py`) | the previous reading; rows, raw files, scrapes | measure, compute the CPU share, file, scrape, stop | runner (phases), reports |
| Validation (`scripts/validate-run.py`) | none | accept or reject a run from its files | runner |
| Matrix runners (`scripts/run-*-matrix.sh`), network isolation | progress files | run a list of experiments, resume, retry | runner |
| Reports (`scripts/phase-report.py`, `compare-results.py`, `chart_report.py`, `metrics/`) | none | summarise the files of a run | collector, k6 |
| Host preparation, run info, synthetic load, JMH | | | |

What is hard about it:

* HTTP threads, three schedulers and two listener threads interleave on the same documents; scheduler
  pages are stale by the time they are worked through.
* Every save and every send may fail, take effect and report a failure all the same, or be cut off by a
  crash; records are redelivered after a lost commit; sends are duplicated on purpose; the cache forgets.
* Receipts and outboxes are bounded, and what happens at the bound must lose nothing.
* The drain of a run is decided from bounds and counters that are read one after the other while all of it goes on,
  requests that k6 has given up included.
* An experiment runs for hours as a shell script with two children and a compose project; every command may
  fail, a signal may come at any time, and afterwards the files must not look like a better run than it was.
* Rows, phases and requests are stamped by different clocks, one of which may be set back; gaps, borders of
  windows and empty spans are judged by several scripts, each with its own tolerance.
* What a request meets is decided twice, in Java and in Python, by remainders of hash codes that may be negative.
* A series of experiments runs for days and is resumed from its files by new processes, while an experiment of
  a killed wrapper may still be running.

`PROJECT.json` lists the single hazards at their lines, with the properties that cover them.

## 2. Modules

| Module | Models | Role |
|---|---|---|
| `OrderDocument` | the document and the pure changes of it | operators, constants |
| `OrderPipeline` | threads, locks, schedulers, dispatcher, listeners, crash | state machine |
| `OrderPipelineProps` | | invariants, action properties, fairness, liveness, refinement mapping |
| `OrderLedger` | what the pipeline promises of an order | abstract specification |
| `DrainCheck` | the drain phase of a run over the pipeline at work | state machine composed with the pipeline |
| `DedupCache` | the cache on its own, with its clock | state machine |
| `ExperimentRun` | one run of `run-experiment.sh`, its collector and its verdict | state machine |
| `MatrixRun` | the resumable series of `run-vps-rate10-matrix.sh` and `accept-network-isolation.py` | state machine |
| `MemoryReports` | what the scripts compute from `runtime-metrics.csv`, and what `validate-run.py` demands of it | operators |
| `Collector` | the collector beside the phases of a run, and the reports over the rows it leaves | state machine over `MemoryReports` |
| `LatencyReports` | what the scripts compute from the stream of k6 | operators |
| `LoadRun` | seeding, trace, k6, the application's answers, the checks of the load | state machine over `LatencyReports` |
| `OrderPipelineProofs`, `OrderEventProofs`, `DrainCheckProofs`, `DedupCacheProofs`, `ExperimentRunProofs`, `MatrixRunProofs`, `LoadRunProofs`, `CollectorProofs` | | theorems |
| `MCOrderPipeline`, `MCDrainCheck`, `MCDedupCache`, `MCExperimentRun`, `MCMatrixRun`, `MCCollector`, `MCLoadRun` | | instances for TLC |

### OrderPipeline and the code

`db` is the collection, `queue` the uncommitted records of each topic and partition; both survive a crash.
`holder` is the array of locks, `pc`, `at` and `copy` a thread's place, order and document, `todo` what is
left of a scheduler's page, `cache` the dedup cache as a set, `count` the five counters of the event flow.
`issued` and `applied` are histories: the statuses written to an order and the ids of the events its document
has applied; the code does not keep them and no guard reads them, except that `Len(issued[o])` numbers the
status events.

| Code | Actions |
|---|---|
| `OrderFlowController.process` | `HttpBegin`, then the caller's actions |
| `RetryOrdersScheduler`, `StatusPollingScheduler`, `OutboxDispatcher.dispatch`: query and loop | `Query`, `TakeCandidate` |
| `processLocked`, `pollOne`: answer, staging, save, counter | `SaveStatusChange`, `CountEnqueued`; on an exception `CallFails`, `StageRefused` |
| dispatch loop | `Send`, `RemoveHead`, `CountPublished` |
| `EventProcessor.process` | `Receive`, `Apply` or `ApplyRefused`, `Mark`, `CountDownstream` |
| record acknowledgement of the container | `Commit`, `CommitLost` |
| purge and eviction; end of the process | `Forget`, `Crash` |

An action is what happens between two points where another thread can see the difference: reading the
document belongs to taking the lock, because nobody else writes the order from then on (`CopyIsCurrent` checks
exactly this, and `Save` still models the version check that would fail otherwise). The external call and the
save are one action because only the save is visible; each counter is an action of its own, because
`/research/state` can read between them. A `Result` of a save or a send is `"ok"`, `"failed"` (no effect, an
exception) or `"unacked"` (the effect happened, an exception all the same).

What is abstracted, and why nothing is lost for the properties:

* A status event's random UUID is its number among the changes of its order; a fresh UUID is distinct from all
  others, and so is the number. The id of a business event is derived from its parent's in the code as here.
* The hash of `OrderLocks` and the partitioner of Kafka are arbitrary functions (`StripeOf`, `PartitionOf`).
  That two orders may share a lock is the interesting case, and it is the one checked.
* A send that times out and reaches Kafka later appends at the time of the attempt: the producer keeps its
  order within a partition, so nothing sent afterwards overtakes it.
* Which orders meet a synthetic fault, conflict or duplicate is decided by a hash of the id; here outcomes are
  free and `Duplicated` is any set. Answers that are neither good nor an expected fault end in `CallFails`.
* A scheduler page is any set of matching orders of the page size, or all of them if fewer match.
* Payload, clients, history, fail messages and time stamps are read by no guard.

### ExperimentRun and the code

`stage` is where `run-experiment.sh` is: the main stages, named for what the script is doing, then the steps of
its EXIT trap. `code` is the exit code it is going to report, `phases` the content of `phases.json`,
`workload` and `collector` its children, `containers` the compose project, `recorded` and `verdict` the exit code in
`metadata.json` and the outcome in `validation.json`. Each action stands for the commands up to the next point
that a child, a signal or a reader of the files can tell apart; `CommandFails` is `set -e`, an explicit `exit 1`
or a wait that ran out, at any of them, those after `finished` included.

The drain, which `DrainCheck` looks into, is one wait here. Of the verdict, exit code and phases are
modelled; all other checks of `validate-run.py` are one free Boolean. The trap's
`stop_collector || { ... code=1; }` cannot change the code: inside `||` the shell ignores `set -e`, so the function
goes on after a failed `wait` and returns the status of an assignment. `Reaped` models this; it does no harm,
because a script that arrives in the trap with code 0 has already stopped its collector (`EligibleRun`, `ExitTells`).

### MatrixRun and the code

`pc`, `at`, `retry` and `code` are a wrapper's; `child` is the run its experiment measures, which goes on when the
wrapper is killed. The lock is not a variable: descriptor 9 is inherited, so `Held` says who still has it. The
files are `stored` (`fingerprint.txt`), `baseline` (`images.json`), `prepared` (`prepared.ok`), `result` (a run's directory
with its verdict), `marker` (`<id>.exit`), `attempts` (`_attempts/`) and `completed`. Every command whose effect
survives a kill is an action of its own, the two `mv` of an archive and the writing of the marker included. The copy of
the fingerprint is two, with a `"torn"` file in between; the others do no harm when cut off: a short marker is not 0, an unfinished `images.json` has no `prepared.ok` yet, a torn verdict admits
nothing, directories are renamed and the acceptance replaces its file at once.
Source and images are compared as a whole: three trees (the original, the one with the approved network change,
any other) and two states of the images. An experiment ends in the ways `ExperimentRun` allows: with code 0 and
admitted, or with another code and any verdict.

The two other matrix scripts keep no lock, no fingerprint and no archive; they are not modelled.

### Collector, MemoryReports and the code

A loop of `collect` is `Measure` (from `STOP.is_set` to the parsed reading, with the time taken after it) and `File`
(CPU share, raw text, phase, row and the wait for the next), because the runner may enter a phase or ask for the stop
between the two. `MeasureFails` is a failed `docker exec` or a reading without the memory counters, recorded in
`cgroup-errors`; `ShareFails` is the exception of the CPU share, which is not. `clock` is `time.monotonic`; the wall
clock, `Now`, is behind it by what it was set back. The scrape of the application has no state of its own: it is
named after its row, so `ScrapeName` is enough. `ScrapesFiled` holds while the clock is not set back; afterwards names
may repeat, a scrape then replaces the earlier one of that name, and no property says what that does to the
application's values in a report.
`Measure` takes no time of its own: the start of the loop and the time after the reading are one value of the clock, so a
`docker exec` longer than the interval, after which the next loop starts at once, is not modelled as such (a late reading
is: the clock may run on before `Measure`). Times in the rows are not rounded to milliseconds (`:130-131`).
The runner is reduced to its phases: one preparation and the measured phase, until `RequestStop`.

`MemoryReports` keeps of a row what the scripts decide by: both times, the phase, one memory field and one counter.
The division of a mean or a slope is left undone: quotients are pairs of integers, compared by cross-multiplication.
`Admissible` is the part of `validate-run.py` about the samples; the properties of the reports are stated for
admitted files, which are the ones that are compared.

### LoadRun, LatencyReports and the code

`trace` is computed in the initial state from one of the `Plans`, as `workload.py` does before k6 starts. A plan gives
the settings of the profile and, for each order, the hash codes of the two decisions that matter for a request; how
Java and Python compute the hash of a string is left out, what they do with it is modelled twice, as in the code
(`Mode` and `Stride` of `workload.py`; `ExternalMode` and `MongoConflict` of `TrafficProfile`, with the floor modulus).
`SeedBegin`, `SeedInsert` and `SeedFails` are a seed request of the runner and one of somebody else; `StartLoad` is the
runner's check of the answer. `Arrive` is a tick of k6's arrival rate, with or without a free VU, `Process` what the
application does with the request and counts, `Answer` what k6 sees of it or loses, in any order. The external
service behaves as `check-wiremock.py` probes it (`Probed`) or, as a fault, in any other way. `Admitted` is the part of
`validate-run.py` about the load. In `LatencyReports` a sorted list is `Ordered`, and the points of a minute or a bucket are
a set of indices, since the order within one is not used.

Names that begin with `Variant:` in their comment are plausible mistakes in one definition (a dropped guard, a
lost `finally`, a stack for a queue). No specification uses them. Each property below fails on at least one
of them when it takes its original's place, which shows that the property depends on that part of the code.

## 3. Properties and runs

| Run | Instance | Checked |
|---|---|---|
| `pipeline_two_orders` | two orders, one lock, one partition, page of one, two requests, o1 duplicated, two attempts | `TypeOK`, `CopyIsCurrent`, `WorkInHand`, `NothingInvented`, `CountersAccount`, `PollWritesOnlyWaiting`, `RetryStaysInLimit` |
| `pipeline_failures` | one order, every event sent twice, receipt window of one; one failed call, one unacknowledged effect, one forgotten id, one crash, anywhere | `LockDiscipline`, `NothingLost`, `AppliedOnceInWindow` |
| `pipeline_ledger` | one order, outbox of one, every event sent twice; one failed call, two unacknowledged effects | `ImplementsLedger`, `DeliversLedger`, `EventuallySettled` |
| `drain_phase` | one order, two requests, receipt window of eight; one failed call anywhere, requests answered or left behind by k6 | `LeftoversCharged`, `AppliedInOrder`, `DrainEnds` |
| `drain_complete` | one order, no event duplicated | violated, see findings |
| `dedup_cache` | three ids, capacity two, time to live two, clock to four | `ForgetsForCause`, `AcceptedOnce` |
| `experiment_run` | both scenarios, two signals, failures and a kill anywhere | `PhasesInOrder`, `EligibleRun`, `ExitTells`, `FirstCodeKept`, `RunEnds` |
| `sample_phase` | both scenarios, no signal | violated, see findings |
| `matrix_run` | two wrappers, a plan of two runs; two kills or crashes, one failed run, one change of source or images, anywhere | `OneExperiment`, `ZeroMarkerIsTrue`, `CompleteMeansVerified`, `AttemptsPreserved`, `Comparable`, `VerifiedStays`, `FingerprintOnlyAccepted`, `SeriesCompletes` |
| `measurement` | a phase of 600 s sampled every 200 s, two memory readings, the clock set back 300 s once, anywhere | `SummariesSound`, `ReportsAgree`, `MinuteReadings`, `ScrapesFiled` |
| `sample_evidence` | one reading without its CPU counter | violated, see findings |
| `load_run` | five plans, up to four requests, two VUs, one fault, another seed request | `SeededExactly`, `PoolUsedEvenly`, `OutcomesPredicted`, `AdmittedAsPlanned`, `LatencyAccounted` |

Why the bounds are enough. Locks, stripes and partitions matter when they are shared, so one of each with two
orders is the hardest case; the properties of events speak of a single order, so the failure runs use one order
and spend the states on failures. One request gives an order up to two status changes (and with a retry limit of
two, four), both topics, a downstream event and, with the outbox of one or two, refusals. One crash, fault
or unacknowledged effect reaches every window between two effects; combinations of one of each are explored
together. `EventIds = 8` is above what one order can receive in the other runs; `pipeline_failures` goes to the other
extreme. `AppliedInOrder` speaks of histories within the window, so it is checked where the window is eight: in
`drain_phase` an order applies several status changes, and the failed call makes the dispatcher send one of them again
after later ones were staged. The bounds `MaxRequests`, `MaxFaults`, `MaxUnacked`, `MaxForgets` and `MaxCrashes` are
budgets in the guards and appear in no property. `ExperimentRun` is finite but for the signals:
the second one reaches the script in its EXIT trap. Two runs of a plan are what it takes to resume after one
and before another; a kill and a crash, or two kills, reach a wrapper that was killed while its experiment went
on and one that was killed while it put the pieces in order; the budgets `MaxKills`, `MaxFailures` and
`MaxChanges` appear in no property. In
`measurement` time goes in steps of half an interval, so that readings come early, late and on the borders of the
windows at 60, 300 and 600 s, gaps of one to three and a half intervals occur, and the phase reaches two of the minutes
the comparison looks at; setting the clock back by more than an interval makes times repeat, cross and turn negative. The
plans of `load_run` put hash codes on both sides of every limit and below zero, take a pool whose first odd stride is not
coprime to it, and a rate at which the last tick falls on the end of the duration; two VUs are enough to drop an arrival
and to reorder answers. Deadlock is not checked in the runs of experiments,
series, measurements and loads, which end. It is not checked in the pipeline and drain runs either: requests are
bounded and the system legitimately comes to rest once they are done (`EventuallySettled` says it does so in
the right state). In `dedup_cache` it is checked.

The properties worth knowing:

* `CopyIsCurrent`: a thread's copy is the stored document whenever it decides or saves; the optimistic version
  check can never fire (DECISIONS.md D-003 wants one writer per order).
* `NothingLost`, `NothingInvented`: at any time, failures and crashes included, a written status change is in
  the outbox, in the topic or applied, and nothing else is.
* `AppliedInOrder`, `AppliedOnceInWindow`: status events are applied in the order of the changes (`drain_phase`), and an event
  is not applied twice before the receipt window has passed. Outside the window it may be: `pipeline_failures`,
  with a window of one, reaches such states (with a window of 1024 events this is beyond any run of the repository).
* `CountersAccount`: while all effects are acknowledged, counters, outboxes, topics and receipts balance
  whenever no operation is under way: the balance `validate-run.py` requires.
* `ImplementsLedger`, `DeliversLedger`: refinement of `OrderLedger`. Sends, receipts, locks, retries and
  duplicates are stutters; the ledger's `Deliver` is the first application of a status event and its `Open`
  that of a business event. The ledger's fairness is a consequence of the pipeline's.
* `LeftoversCharged`: when the runner calls the drain of an answered workload complete, no order is waiting or to be
  retried, no thread works on one, and this stays so. The counters are weaker: they are read one by one, in the order
  enqueued, consumed, published, and may balance by accident. What the property says is how far: no more status
  changes are left unapplied than calls have failed, none in particular if none has. One failed removal after a send is
  enough for one: the event that was sent is consumed, but `events_published` is not incremented until it is sent again. If k6
  ends with another code than 0 (a time-out of 15 s fails its threshold, and `gracefulStop` waits 30 s for it), requests it gave up after 15 s may still be at work, the drain proves nothing, and the
  property does not speak of it (`answered`); `validate-run.py` rejects such a run.
* `EligibleRun`, `ExitTells`: a run is admitted only if it went through all its phases with both children alive and
  its containers are gone, and exit code 0 means an admitted run, whatever failed, whoever interrupted it.
* `OneExperiment`: two measurements never share the host, although the check for a running experiment and the
  start of one are far apart and wrappers die before their experiments.
* `SummariesSound`, `ReportsAgree`, `MinuteReadings`: over every file of an admitted run, whatever the clock did, means lie
  within their samples, windows neither lose samples of the three hours they reach nor count work twice, the two reports agree on mean and peak although
  they measure time from different origins, and the tolerance of the validator is never wider than the comparison's
  readings can bear. `SummariesSound` needs the validator: a file with a step back in time breaks it.
* `OutcomesPredicted`, `AdmittedAsPlanned`: the two implementations of the traffic profile agree, so a service that
  behaves as probed leads to an admitted load; and the counts that admit a load cannot balance by accident.
* `SeededExactly`: an acknowledged seed is the whole collection, for ever, although check and inserts are not atomic.
* `Comparable`, `VerifiedStays`, `ZeroMarkerIsTrue`, `AttemptsPreserved`: what a series resumes from can be trusted
  after any kill; `SeriesCompletes`: and no kill leaves it in a state it refuses for ever, with one exception. The copy of
  the fingerprint (`cp`, `run-vps-rate10-matrix.sh:86`) is not atomic, and cut off it leaves a `fingerprint.txt` that is
  there and equal to nothing: every later wrapper dies at `:84`, until the operator removes the file by hand. This
  can only happen before anything was measured, and the property says so (`CopyCutOff`, `tries = 0`).

### Fairness

`Fairness` in `OrderPipelineProps`: the schedulers run with a fixed delay for ever and listeners poll for ever
(weak fairness of `Query`); whoever holds a lock goes on (weak fairness of its steps: all calls in the locked
section have time-outs). Taking a lock needs strong fairness, because the lock is taken and released by others
again and again in between. `ReentrantLock` parks its waiters in a queue and wakes the first, and although a
non-fair lock lets a newcomer overtake, the other threads do not ask for one order's lock without pause: the schedulers
sleep between pages. Requests, failures, forgetting and crashes are not fair: they need never happen.
The drain adds weak fairness of the runner's poll, which reads one value after the other.

`ExperimentRun`: each wait of the script has a limit of time or waits for a child that ends; k6 and `sleep` end by
themselves, and the collector's readings time out and are repeated until one finds the request to stop. A failing
command, a signal and a kill are not fair.

`MatrixRun`: live processes go on. `SeriesCompletes` is a statement about an operator, too, and its fairness says
so: again and again he puts source, images and containers in order when nothing is running (`Restore`, what the
messages of the script ask for) and resumes with `--retry-failed`. Both are strongly fair, since other attempts keep
taking the lock in between.

### Findings

* `drain_complete`: the runner can leave the drain with a business event still to be dispatched. The state
  answer reads the outboxes first (`ResearchStateController.java:31-34`) and the counters afterwards; a listener
  that applies a completion between them counts `events_consumed` (`EventProcessor.java:62`) before it counts the
  downstream event as enqueued (`:63`), and at that point the three counters agree while the business event is in
  an outbox that was seen empty. `RESEARCH_PROTOCOL.md:46` wants the outbox empty and all events processed.
  The example needs no failure. With one, a status change can be left behind as well: if the removal of a sent head fails,
  the event is consumed and not yet counted as published, and the counters balance one event too early. `LeftoversCharged`
  bounds this by the number of failed calls.
* `sample_phase`: the collector measures first and looks up the phase afterwards (`collect-container-metrics.py:120`
  and `:127`), so at each boundary a sample measured in one phase can be filed under the next, where it counts as
  one of that phase's first samples. `DECISIONS.md:26` wants the phases accounted for separately. The window is
  the duration of one `docker exec`, at most one sample per boundary.
* `sample_evidence`: a reading whose line with the CPU counter is malformed passes the parser, which demands the memory
  counters only, and the subtraction at `collect-container-metrics.py:122` ends the collector outside of the handler that
  records errors, before the raw text is saved. `DECISIONS.md:48-49` wants raw text and error in `cgroup-errors/` for
  every sample without a counter it needs. The run is rejected as it should be; its cause is not on file.

## 4. Proofs

`OrderPipelineProofs` proves, for every set of orders, threads, stripes and partitions, every page size,
retry limit, outbox and window size and all budgets, from `BoundsAssumption` and `PipelineAssumption` alone:

* `TypeCorrect`, `LocksAreDisciplined`, `WorkStaysInHand`, `CopiesAreCurrent`. None of the four is inductive
  without the others: that a copy stays current needs that no other thread saves an order of a held stripe
  (locks), that a listener's commit removes the record it applied needs that the record stays at the head
  (work in hand), and both need the types. The inductive invariant is their conjunction `IInv`, with one lemma
  per part (`TypeStep`, `LockStep`, `WorkStep`, `CopyStep`) and one step per action in each.
* `PollRespectsStatus` and `RetryRespectsLimit`, action properties. They need, beside `IInv`, that what
  `StillDue` saw when the candidate was taken still holds of the copy while the call is under way (`DueInv`);
  with `CopyIsCurrent` it holds of the stored document.

`OrderEventProofs` first proves `OnceInWindow`, for every window size. The invariant `WindowInv` ties the receipts to
the history (the stored receipts are the last `EventIds` entries of `applied`), says that equal entries
are far apart, and that the event a listener is about to apply is not among its copy's receipts. The
lemmas about `KeepLast` (trimming after an append, trimming twice) carry the argument.

It then follows an event from the write that stages it to the history and proves `NoEventInvented`
(`NothingInvented`), `NoEventLost` (`NothingLost`) and `DiscardsOnlyApplied`: a record that the cache or the receipts call a
duplicate was applied. `EventStep` reduces every step of the pipeline to one of five that move an event (announced with
its status change, sent, applied, removed from its outbox, committed) or to none; the rest is proved of these five.

* `CauseInv`: every event in an outbox or a topic, and every id in a history, has its cause, and a status event tells the
  status that was written under its number. That makes `Downstream`, which looks at the event, agree with `NothingLost`,
  which looks at what was written.
* `ArrivedInv` says what each removal relies on: the dispatcher removes a head only if it is in its topic or applied
  (`HeadSent`), a listener is done with a record only if it is applied (`AckInv`), and the cache knows only applied
  events (`CacheInv`); `Windowed` says the same of the receipts. With it nothing known of an order is ever
  forgotten (`SentGrows`, `KnownGrows`), and each new change and each applied completion stages its event in the same write.

The second half of `OrderEventProofs` proves how the events of an order follow each other.

* `NoneOvertakes`: whatever event of an order was applied, those of its kind before it were applied earlier (`NoGap`). In an
  outbox each event has the earlier ones further ahead or already sent, in a topic further ahead or already applied
  (`Ordered`); sending and committing take the head of the one list to the end of the other. A retried send repeats the head
  only, so it cannot put an event in front of an earlier one. This holds beyond the receipt window, too.
* `StatusesInOrder` (`AppliedInOrder`). The numbers of one kind in a history are listed by position: `Numbers` takes the i-th
  place of that kind, and `Nth` is the place that i of them do not exceed, so what it lists is found by counting
  (`Cardinality`) and no recursion over the history is needed. Within the window a record is applied for the first time
  (`OnceInWindow`), the ones before it were applied (`NoGap`), hence it is the next one.
* `PipelineImplementsLedger`: every step of the pipeline is a step of `OrderLedger` or stutters (`LedgerStep`), if no order
  exceeds its receipt window (`[]Fits`). Beyond it the code does apply an event again, and the ledger does not; the run
  `pipeline_failures` reaches such states on purpose. Announcing a change is the ledger's `Issue`, the application of a status
  event its `Deliver`, that of a business event its `Open`; that it opens the oldest completion is `NoGap` again.

`DrainCheckProofs` proves what the drain relies on, over all of the above.

* `CountersAddUp` (`CountersAccount`). The code counts after the effect, in another step, so counters and effects never agree
  while something is under way. `CountInv` says by how much: the events known, staged, recorded and applied are counted as
  places in outboxes, topics and histories (`Slots`), and each counter lags by the threads at the steps between effect and
  counter (`At`, `Owed`). Every step moves a balance by one on both sides. When nothing is under way the lag is nothing.
  `Fits` stands in front of the first balance because an event applied again stages its business event again.
* `DrainMeansDone` (`LeftoversCharged`). `Progress` says where the run is: an answered workload is over, none of its
  requests is at work, and the counters are read once every order was visited. An order that the bounds found without work
  stays without (`Cleared`), whatever fails or crashes: its outbox can gain business events only. The counters are read in
  the order enqueued, consumed, published, and they only grow: when the last one agrees with the first two, no more is
  published than is consumed. By the balance of `CountInv` there are then no more unapplied events than events in outboxes,
  and one more if the dispatcher is between the removal of a head and its counter. A staged business event that is
  unapplied accounts for itself, so each unapplied status change stands against a staged event that was applied, that is,
  sent and not removed. Only heads are ever sent, so an outbox has at most one of these (`StagedFresh`), its order is `Stuck`,
  and each of these orders has cost a failed call (`StuckBound`). For the dispatcher between removal and counter,
  `CountersRead` says that the event it removed is still to be applied, or that a failed call is left to charge, or that
  the published counter is below what was enqueued: while a listener owes the count of a business event, that event is staged
  or known and unapplied (`ChildInv`, `EnqueuedAbove`). `Verdict` counts these together. The part about unapplied
  changes is stated while every effect was acknowledged, nothing crashed (`Exact`) and histories fit the receipts: a
  restarted replica begins to count at zero, and its counters say nothing.

`DedupCacheProofs` proves `NothingForgottenEarly`, `NothingAcceptedTwice` and `CacheIsTyped` for any ids, capacity, time to
live and clock (`CacheAssumption`). `ForgetsForCause` does not carry itself: it needs to know what the cache holds, in
which order. `CacheInv` says that the entries are the latest ids accepted (`Matches`), that whatever is older was
forgotten for a reason that lasts (`Justified`), and that no id is in the cache twice (`Distinct`), which is what makes
the first accepted entry found the only one. A purge looks for the first entry young enough; that there is a first one
is where the least element of a finite set comes from `FiniteSetTheorems`.

`ExperimentRunProofs` proves `PhasesNeverSkipped`, `EligibleMeansComplete`, `ExitCodeTells`, `CodeIsKept` and `RunIsTyped`
for any number of signals (`SignalsAssumption`). That exit code 0 means an admitted run is true because of everything the
script did before; `RunInv` says what is known at each of its stages: how many phases were entered (`PhaseInv`), what the
two children have come to (`ChildrenInv`, `CollectorInv`), that code 0 survives only if all of it succeeded (`CodeInv`)
and that what is on file says so (`EvidenceInv`). The number of the phase decides whether `WorkloadOver` still has to
enter the drain, and `DrainEntered` ties it to what the code looks at.

`MatrixRunProofs` proves every safety property of a series, for any number of wrappers, any length of the plan and any
number of kills, failures and changes (`MatrixAssumption`): `HostIsExclusive`, `MarkersAreTrue`, `CompletionIsTrue`,
`NoAttemptIsLost`, `RunsAreComparable`, `VerifiedForGood`, `FingerprintIsKept`, `MatrixIsTyped`. `MatrixInv` has seven parts:

* `LockInv`: the inherited lock leaves at most one wrapper or orphaned experiment at work, and none beside the acceptance.
  All the others rest on it: lemma `Alone` says that nobody else is at work when a wrapper or its experiment makes a step,
  so each part has to be shown of one wrapper only (`LockOfOne`, `StepsOfOne`, `OriginOfOne`).
* `CleanInv`: from the second look for remains to the end of the experiment there are none. With the lock, `OneExperiment`.
* `StepsInv`: what a wrapper knows of the run it is at and of those before. It carries `ZeroMarkerIsTrue`: between the two
  moves of an archive the old marker is not 0, because a marker of 0 at a run that is not verified would already be false.
  `VerifiedStep`, used for the earlier runs of a plan, is proved from it.
* `RestInv`: a wrapper begins at the first run.
* `AttemptsInv`: attempts have different numbers and every number is somewhere.
* `OriginInv`: the source and images of the results, of the control files and of the host agree as far as the last
  check reaches. That nobody touches them between the check and the end of the experiment is the assumption that `Undisturbed`
  states, not something the script ensures.

`LoadRunProofs` proves all five properties of a load, for every plan, any number of VUs and any number of faults.

* `SeedsAreExact`: check and inserts are not atomic and two requests may both find the collection empty; `SeedInv` says why
  one of them fails all the same: whoever is past order 0 has inserted all there is, and the other one meets order 0 first.
* `PoolIsUsedEvenly`: two requests meet the same order only if their distance times the stride is a multiple of the pool; the
  stride is coprime to the pool (`StrideCoprime`: the search always ends, at twice the pool and one at the latest), so the distance itself is a multiple
  (`NoMultiple`, by the least multiple in question). So each round of the pool takes every order once.
* `AdmissionIsSound`: an index is handed out once (`IndexInv`), each is in flight or in the log, and the counters of the
  application are those of the answers (`AppInv`, `FlowInv`). As many answers as requests, with different numbers below
  `Count`, are an answer to each; equal numbers of outcomes then leave no room for two that are swapped.
* `PredictionHolds`: without a fault the two implementations find the same mode for the same hash code (`ModesAgree`: the
  floor modulus of Java and the remainder of Python, below zero as well), so every answer is the planned one and quick enough.
* `LatencyIsAccounted`: every point falls into one class of a partition (`CountedByClass`), no class lies before the first, and
  a percentile is a mixture of two neighbours of the values in order (`PercentileMixed`), which grows with the percentile.

`Ordered` gives the k-th value as the least that k values do not exceed, which is what sorting does; `Altogether`, the sum of the
numbers in classes, is the size of their disjoint union. Both can be reasoned about without induction over data. Where numbers
need an induction, `Least` takes its place: a non-empty set of naturals has a least member, which follows from the
well-foundedness of `<` in the library without a theorem that takes an operator.

`LoadAssumption` says what the runner and the profiles ensure before: a positive rate, duration and pool, a whole number of
requests (`run-experiment.sh`), and at least as many orders seeded as the pool is large (`experiment_support.py`).

`CollectorProofs` proves the four properties of the reports over `runtime-metrics.csv`, for any phases, readings,
clock steps and durations. `CollectorInv` is its invariant: the types, `PhasesInv` (phases are entered in their order, and
all rows of the measured one are timed from one moment) and `TimesInv` (until the wall clock is set back, the reading in hand
is later than the one before, which is that of the last row). `RowsInv`, inductive beside it, says what holds of the rows
whatever the clock did: neighbours differ in time (else there is no CPU share and no row), the rows of the measured phase come
last, and the CPU counter does not fall where it could be read.

* `ScrapesHavePhases` (`ScrapesFiled`) follows from `TimesInv`: no two rows have the same time.
* `TheReportsAgree` (`ReportsAgree`). By `PhasesInv` the times of the two reports differ by a constant, so the areas are sums of
  the same numbers; that the validator admits no step back in time makes the span positive for both.
* `MinutesAreRead` (`MinuteReadings`), for an interval of at most 300 seconds; the scripts take 5 by default, the runs of the
  repository do not change it. The least sample that reaches the minute either is the first, or ends a gap of at most three
  intervals around the minute, whose nearer end is close enough (`CloseSample`). The bound is needed: the validator
  lets the first sample be three intervals late, the comparison looks two intervals around minute five.
* `SummariesAreSound` (`SummariesSound`). `RowsInv` and the validator make the samples `Orderly`: strictly in the order of
  their time, and of the CPU counter. So a window, like the samples of a trend, is a `Part` of them from one to another
  (`WindowIs`). Each trapezoid lies between the extremes of the samples (`AreaBetween`). The CPU time of a window is no more
  than what was counted from the last sample up to its lower border to the last one up to its upper border; where a sample
  lies on the lower border it is exactly this (`WindowCounts`), and the sum over the steps telescopes (`WindowsCount`). The sign
  of a slope is Chebyshev's inequality for sums: of two lists in the same order, n times the sum of the products is at
  least the product of the sums (`SameOrder`).

These sums run over any number of rows. `Sums` is a recursive function of the partial sums, whose recursion equation `SumsIs`
proves from its definition, and `UpwardsTo` is induction up to a number in the form of a set that 0 belongs to and that contains
with k, below the number, k + 1: it takes no operator, so the provers can instantiate it. `RowsInv` was first checked
by TLC, on the instance of `measurement` cut to 600 seconds, with an interval of 100 and up to one malformed line.

A selection of rows is given by its positions, `Nth` being the one that n of them do not exceed, so that what
is selected, and that selecting all changes nothing, is found by counting.

Only model-checked: liveness and the ledger's fairness (temporal reasoning under fairness is out of the prover's
reach), and with it `RunEnds` and `SeriesCompletes`. Every safety invariant and action property that a passing run checks is
a theorem.

## 5. Not modelled, and why

* Of the matrix runners only the one with a lock and a resume protocol is modelled.
* Of `validate-run.py`: container limits, Git state, bounds of the application state, the text of the Kafka lag and the
  names of JVM metrics are single comparisons of recorded values; the event balance is checked where it arises
  (`CountersAccount`).
* Of the reports: medians, detection of runtime and scenario by directory name, group keys, Prometheus text, HTML and
  figures are formatting or single expressions; `plot-memory-over-time.py` draws the raw column.
* The hash of a string, and with it which orders meet a synthetic fault: `LoadRun` takes hash codes as inputs.
* Which page of candidates the schedulers see: the pipeline takes any page of the size, the code the oldest first. An order
  whose polls never end could keep a page to itself; only a service that misbehaves without end does this.
* Host preparation, run info, the synthetic endpoints and the JMH benchmarks are pure I/O or stateless measurements.
* Malformed records, records of unknown orders and restarts of the application in the middle of an experiment cannot be
  produced by the program and its compose file.
* `check-drained.py` does not compare deliveries with duplicates; `DrainCheck` models what it does compare.

## 6. Plan

In order of importance:

1. *Done*: document, pipeline, ledger, drain, cache; proofs of the lock discipline, of current copies and of the
   receipt window.
2. *Done*: `ExperimentRun`, the runner's phases, children, signals and cleanup, and the verdict of `validate-run.py`.
3. *Done*: `MatrixRun`, resume, lock, archive and fingerprint of the matrix runner.
4. *Done*: `LoadRun` with `LatencyReports`, `Collector` with `MemoryReports`: seeding, trace, traffic profile, external
   client, collector and the reports over what it leaves.
5. Open: the oldest-first page of the schedulers and starvation.
6. *Done*: proofs of the cache, the experiment run, the series and the seeding.
7. *Done*: proofs that events are neither lost nor invented and that none overtakes another.
8. *Done*: proofs of the refinement, the counters, the drain, the load, and of the reports over the rows of the collector.
