------------------------------- MODULE LoadRun -------------------------------
(***************************************************************************)
(* The load of an experiment: the collection is seeded, k6 requests the    *)
(* orders of a trace written beforehand, the application decides again     *)
(* what each request meets, and the reports and validate-run.py compare.   *)
(*                                                                         *)
(* An order is its number.  OrderPipeline models what a request does to    *)
(* the order; here it has an outcome.  A duration is what the external     *)
(* service takes, in milliseconds.                                         *)
(***************************************************************************)
EXTENDS LatencyReports

CONSTANTS
  Plans,         \* settings and hash codes of an experiment
  OtherCounts,   \* what somebody else asks to seed
  MaxVUs,        \* requests k6 sends at a time
  MaxFaults      \* bound: failed inserts, misbehaviour of the service, lost answers

ASSUME LoadAssumption ==
  /\ MaxVUs \in Nat \ {0}
  /\ MaxFaults \in Nat
  /\ \A p \in Plans :
       /\ p.profile \in {"normal", "faults"}
       /\ {p.rate, p.duration, p.unit, p.pool, p.seedOrders} \subseteq Nat \ {0}
       /\ p.seed \in Nat
       /\ p.seedOrders >= p.pool
       /\ (p.rate * p.duration) % p.unit = 0
       /\ p.external \in [0 .. p.pool - 1 -> Int]
       /\ p.mongo \in [0 .. p.pool - 1 -> Int]

VARIABLES
  plan,        \* one of Plans
  trace,       \* workload.json
  stage,       \* seeding, loading, over or aborted
  collection,  \* the orders in MongoDB
  seeds,       \* the seed requests of the runner and of somebody else
  ticks,       \* arrivals k6 has scheduled
  dropped,     \* those without a free VU
  inflight,    \* requests without an answer
  log,         \* answered requests, in the order of the stream
  app,         \* counters of the application
  faults       \* failures so far

load == <<ticks, dropped, inflight, log, app>>
given == <<plan, trace>>
vars == <<given, stage, collection, seeds, load, faults>>

-----------------------------------------------------------------------------
(* workload.py *)

Modes == <<"long_delay", "error", "bad_response", "slow", "ok">>

Config(longDelay, error, badResponse, slow, mongo) ==
  [long_delay |-> longDelay, error |-> error, bad_response |-> badResponse,
   slow |-> slow, mongo |-> mongo]

Profiles == [normal |-> Config(0, 0, 0, 15, 0), faults |-> Config(3, 5, 2, 15, 2)]

\* The first mode whose bound is above the hash code modulo 100.
Mode(hash, c) ==
  LET bound == <<c.long_delay, c.long_delay + c.error, c.long_delay + c.error + c.bad_response,
                 c.long_delay + c.error + c.bad_response + c.slow>>
      above == {k \in 1 .. 4 : hash % 100 < bound[k]}
  IN IF above = {} THEN "ok" ELSE Modes[Min(above)]

Count == (plan.rate * plan.duration) \div plan.unit

\* Variant: an odd number, whatever it has in common with the pool.
OddStride == 2 * (plan.seed % plan.pool) + 1

Coprime(a, b) == \A d \in 2 .. b : ~(a % d = 0 /\ b % d = 0)

\* The first odd number from there on that is coprime to the pool.
Stride ==
  LET first == 2 * (plan.seed % plan.pool) + 1
  IN Min({first + 2 * k : k \in {k \in 0 .. plan.pool : Coprime(first + 2 * k, plan.pool)}})

Faulty == {"long_delay", "error", "bad_response"}

TraceOf ==
  [i \in 0 .. Count - 1 |->
     LET order    == (plan.seed + i * Stride) % plan.pool
         c        == Profiles[plan.profile]
         mode     == Mode(plan.external[order], c)
         conflict == plan.mongo[order] % 100 < c.mongo
     IN [order |-> order, mode |-> mode,
         outcome |-> IF mode \in Faulty \/ conflict THEN "expected_fault" ELSE "processed"]]

Init ==
  /\ plan \in Plans
  /\ trace = TraceOf
  /\ stage = "seeding"
  /\ collection = {}
  /\ seeds = [c \in {"runner", "other"} |-> [step |-> "idle", count |-> 0, next |-> 0]]
  /\ ticks = 0
  /\ dropped = 0
  /\ inflight = {}
  /\ log = <<>>
  /\ app = [processed |-> 0, expected_fault |-> 0, unexpected |-> 0]
  /\ faults = 0

Fails == faults < MaxFaults /\ faults' = faults + 1

-----------------------------------------------------------------------------
(* OrderSeedService, and the runner that waits for it *)

Seeding(c, step, count, next) ==
  seeds' = [seeds EXCEPT ![c] = [step |-> step, count |-> count, next |-> next]]

CountAllowed(count) == count \in 1 .. 100000

\* The service refuses a count out of range and a collection that is not empty.
SeedBegin(c, count) ==
  /\ seeds[c].step = "idle"
  /\ IF CountAllowed(count) /\ collection = {}
     THEN Seeding(c, "inserting", count, 0) ELSE Seeding(c, "failed", 0, 0)
  /\ UNCHANGED <<given, stage, collection, load, faults>>

\* Variant: an order with this id is replaced.
Replaces(id) == TRUE

\* An insert meets no order with its id.
Inserts(id) == id \notin collection

\* The documents of a batch are inserted in order, up to the first that exists.
SeedInsert(c) ==
  LET s == seeds[c]
  IN /\ s.step = "inserting"
     /\ IF Inserts(s.next)
        THEN /\ collection' = collection \cup {s.next}
             /\ Seeding(c, IF s.next + 1 = s.count THEN "done" ELSE "inserting",
                        s.count, s.next + 1)
        ELSE /\ Seeding(c, "failed", s.count, s.next)
             /\ UNCHANGED collection
     /\ UNCHANGED <<given, stage, load, faults>>

\* A batch fails after some of its documents, or the last one is not acknowledged.
SeedFails(c) ==
  /\ seeds[c].step = "inserting"
  /\ Fails
  /\ Seeding(c, "failed", seeds[c].count, seeds[c].next)
  /\ collection' \in {collection, collection \cup {seeds[c].next}}
  /\ UNCHANGED <<given, stage, load>>

\* The answer must acknowledge every order.
StartLoad ==
  /\ stage = "seeding"
  /\ seeds.runner.step \in {"done", "failed"}
  /\ stage' = IF seeds.runner.step = "done" /\ seeds.runner.next = plan.seedOrders
              THEN "loading" ELSE "aborted"
  /\ UNCHANGED <<given, collection, seeds, load, faults>>

-----------------------------------------------------------------------------
(* The application: TrafficProfile, ExternalApiClient, OrderFlowService *)

\* profiles/traffic
Settings ==
  [normal |-> [longDelay |-> 0, error |-> 0, invalid |-> 0, slow |-> 15, mongoConflict |-> 0],
   faults |-> [longDelay |-> 3, error |-> 5, invalid |-> 2, slow |-> 15, mongoConflict |-> 2]]

\* Variant: Java's remainder.
Remainder(hash) == IF hash < 0 THEN -((-hash) % 100) ELSE hash % 100

FloorMod(hash) == hash % 100

ExternalMode(hash) ==
  LET s == Settings[plan.profile]
      v == FloorMod(hash)
  IN CASE v < s.longDelay -> "long_delay"
       [] s.longDelay <= v /\ v < s.longDelay + s.error -> "error"
       [] s.longDelay + s.error <= v /\ v < s.longDelay + s.error + s.invalid -> "bad_response"
       [] /\ s.longDelay + s.error + s.invalid <= v
          /\ v < s.longDelay + s.error + s.invalid + s.slow -> "slow"
       [] OTHER -> "ok"

MongoConflict(hash) == FloorMod(hash) < Settings[plan.profile].mongoConflict

ReadTimeout == 2000

\* What the external service may do.
Behaviours == [delay : {0, 1200, 3000}, status : {"200", "500", "503"}, json : BOOLEAN]

\* The behaviours check-wiremock.py accepts of the mapping of a mode.
Probed(mode) ==
  {b \in Behaviours :
     CASE mode = "long_delay"   -> b.delay >= 2000
       [] mode = "error"        -> b.delay < 2000 /\ b.status = "503"
       [] mode = "bad_response" -> b.delay < 2000 /\ b.status = "200" /\ ~b.json
       [] mode = "slow"         -> b.delay \in 1100 .. 1999 /\ b.status = "200" /\ b.json
       [] mode = "ok"           -> b.delay < 2000 /\ b.status = "200" /\ b.json}

\* What the client observes.
Observed(b) ==
  CASE b.delay >= ReadTimeout -> "timeout"
    [] b.delay < ReadTimeout /\ b.status # "200" -> b.status
    [] b.delay < ReadTimeout /\ b.status = "200" -> IF b.json THEN "200" ELSE "unreadable"

\* A failure is expected if it is the one the mode stands for.
Expected == {<<"error", "503">>, <<"long_delay", "timeout">>, <<"bad_response", "unreadable">>}

Outcome(order, b) ==
  LET mode == ExternalMode(plan.external[order])
  IN CASE order \notin collection -> "unexpected"
       [] order \in collection /\ Observed(b) = "200" ->
            IF MongoConflict(plan.mongo[order]) THEN "expected_fault" ELSE "processed"
       [] order \in collection /\ Observed(b) # "200" ->
            IF <<mode, Observed(b)>> \in Expected THEN "expected_fault" ELSE "unexpected"

\* The service behaves as probed, or misbehaves.
Process(r, b) ==
  /\ r.outcome = "none"
  /\ IF b \in Probed(ExternalMode(plan.external[trace[r.index].order]))
     THEN UNCHANGED faults ELSE Fails
  /\ LET outcome == Outcome(trace[r.index].order, b)
     IN /\ app' = [app EXCEPT ![outcome] = @ + 1]
        /\ inflight' = (inflight \ {r})
             \cup {[r EXCEPT !.outcome = outcome,
                             !.ms = IF b.delay > ReadTimeout THEN ReadTimeout ELSE b.delay]}
  /\ UNCHANGED <<given, stage, collection, seeds, ticks, dropped, log>>

-----------------------------------------------------------------------------
(* enterprise-flow.js *)

Spacing == plan.unit \div plan.rate

Iterations == ticks - dropped

\* Variant: the iterations that are over.
CompletedIterations == Len(log)

\* exec.scenario.iterationInTest: every iteration has the next number, whichever VU
\* executes it.
NextIndex == Iterations

\* An iteration per arrival, if a VU is free; the one after the last request of the
\* trace, at the end of the duration, does nothing.
Arrive ==
  /\ stage = "loading"
  /\ ticks <= Count
  /\ ticks' = ticks + 1
  /\ IF Cardinality(inflight) = MaxVUs
     THEN dropped' = dropped + 1 /\ UNCHANGED inflight
     ELSE /\ inflight' = IF NextIndex = Count THEN inflight
                         ELSE inflight \cup {[index |-> NextIndex, outcome |-> "none", ms |-> 0,
                                              start |-> ticks * Spacing]}
          /\ UNCHANGED dropped
  /\ UNCHANGED <<given, stage, collection, seeds, log, app, faults>>

\* The answer arrives, or is lost.
Answer(r, lost) ==
  /\ r.outcome # "none"
  /\ IF lost THEN Fails ELSE UNCHANGED faults
  /\ inflight' = inflight \ {r}
  /\ log' = Append(log, [index |-> r.index, outcome |-> r.outcome, ms |-> r.ms,
                         time |-> r.start + r.ms \div 1000,
                         expected |-> ~lost /\ r.outcome # "unexpected"])
  /\ UNCHANGED <<given, stage, collection, seeds, ticks, dropped, app>>

\* The arrival at the very end of the duration may be missing.
End ==
  /\ stage = "loading"
  /\ ticks >= Count
  /\ inflight = {}
  /\ stage' = "over"
  /\ UNCHANGED <<given, collection, seeds, load, faults>>

Next ==
  \/ SeedBegin("runner", plan.seedOrders)
  \/ \E n \in OtherCounts : SeedBegin("other", n)
  \/ \E c \in DOMAIN seeds : SeedInsert(c) \/ SeedFails(c)
  \/ StartLoad
  \/ Arrive
  \/ \E r \in inflight, b \in Behaviours : Process(r, b)
  \/ \E r \in inflight, lost \in BOOLEAN : Answer(r, lost)
  \/ End

Spec == Init /\ [][Next]_vars

-----------------------------------------------------------------------------
(* validate-run.py on the summary of k6 and the counters of the application *)

\* The answer carries the outcome of the trace.
Valid(e) == e.expected /\ e.outcome = trace[e.index].outcome

Logged(test(_)) == Cardinality({k \in DOMAIN log : test(log[k])})

Planned(test(_)) == Cardinality({i \in DOMAIN trace : test(trace[i])})

Slo == IF plan.profile = "normal" THEN <<1500, 2000>> ELSE <<2500, 3000>>

Admitted ==
  LET boundary == Iterations - Len(log)
  IN /\ boundary \in {0, 1}
     /\ Iterations = Count + boundary
     /\ Len(log) = Count
     /\ dropped = 0
     /\ Logged(LAMBDA e : ~Valid(e)) = 0
     /\ Logged(LAMBDA e : ~e.expected) = 0
     /\ \A o \in {"processed", "expected_fault"} :
          Logged(LAMBDA e : Valid(e) /\ e.outcome = o) = Planned(LAMBDA r : r.outcome = o)
     /\ \A m \in ToSet(Modes) :
          Logged(LAMBDA e : trace[e.index].mode = m) = Planned(LAMBDA r : r.mode = m)
     /\ Percentile(ValuesOf(log), 95) < 100 * Slo[1]
     /\ Percentile(ValuesOf(log), 99) < 100 * Slo[2]
     /\ app.unexpected = 0
     /\ app.processed + app.expected_fault = Count

-----------------------------------------------------------------------------
(* Properties *)

\* A seed request that was acknowledged inserted every order itself: the collection
\* holds exactly its orders from then on, whatever another seed request, a failed
\* batch or an insert without acknowledgement did before or does after it.
SeededExactly ==
  \A c \in DOMAIN seeds :
    seeds[c].step = "done" => collection = 0 .. seeds[c].count - 1

\* k6 requests no order a second time before every order of the pool was requested,
\* whatever the seed of the trace, the VUs and the dropped arrivals.
PoolUsedEvenly ==
  LET n == IF Iterations < Count THEN Iterations ELSE Count
      requested(o) == Cardinality({i \in 0 .. n - 1 : trace[i].order = o})
  IN \A a, b \in 0 .. plan.pool - 1 : requested(a) <= requested(b) + 1

\* workload.py predicts the application: if the external service behaves as probed
\* and no answer is lost or arrival dropped, validate-run.py admits the load, its
\* limits of the latency included.
OutcomesPredicted == stage = "over" /\ faults = 0 /\ dropped = 0 => Admitted

\* A load that is admitted is the planned one: every request of the trace was
\* answered once, with the outcome planned for it, and the counters of the
\* application say the same.
AdmittedAsPlanned ==
  stage = "over" /\ Admitted =>
    /\ \A i \in DOMAIN trace : \E k \in DOMAIN log :
         log[k].index = i /\ log[k].outcome = trace[i].outcome
    /\ \A o \in {"processed", "expected_fault"} :
         app[o] = Planned(LAMBDA r : r.outcome = o)

\* The sum of numbers: as many things, each with the number it is counted under.
Altogether(n) == Cardinality(UNION {{x} \X (1 .. n[x]) : x \in DOMAIN n})

\* The reports count every request once although the stream is not in the order of
\* time: no minute or bucket lies before the start, the percentiles of a bucket are
\* in order and among its values, and every HTTP error that validate-run.py counts is
\* drawn once.
LatencyAccounted ==
  log # <<>> =>
    LET minutes == Minutes(log)
        buckets == Buckets(log)
        least == Min(Range(ValuesOf(log)))
    IN /\ \A m \in DOMAIN minutes : m >= 0
       /\ Altogether([m \in DOMAIN minutes |-> minutes[m].n]) = Len(log)
       /\ \A s \in DOMAIN buckets : s >= 0
       /\ Altogether([s \in DOMAIN buckets |-> buckets[s].requests]) = Len(log)
       /\ \A s \in DOMAIN buckets :
            /\ 100 * least <= buckets[s].p50
            /\ buckets[s].p50 <= buckets[s].p95
            /\ buckets[s].p95 <= buckets[s].p99
            /\ buckets[s].p99 <= 100 * buckets[s].max
       /\ Altogether([s \in DOMAIN buckets |-> buckets[s].failures]) = Logged(LAMBDA e : ~e.expected)
=============================================================================
