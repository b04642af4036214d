------------------------------ MODULE MatrixRun --------------------------------
(***************************************************************************)
(* The resumable series of run-vps-rate10-matrix.sh: wrappers started by   *)
(* the operator, one lock, the experiments they start as children that may *)
(* outlive them, and the files a series is resumed from; together with     *)
(* accept-network-isolation.py, which replaces the fingerprint.            *)
(*                                                                         *)
(* An experiment is what ExperimentRun leaves behind: an exit code and a   *)
(* result directory with or without a verdict.  Source tree and images are *)
(* compared as a whole, as the code compares their digests.                *)
(***************************************************************************)
EXTENDS Integers, FiniteSets

CONSTANTS
  Wrappers,      \* wrapper processes the operator may have
  Runs,          \* length of the plan
  MaxKills,      \* bound: kills of a process, and crashes of the host
  MaxFailures,   \* bound: experiments that end without a verified result
  MaxChanges     \* bound: changes of the source tree or the images by others

ASSUME MatrixAssumption ==
  /\ Runs \in Nat \ {0}
  /\ {MaxKills, MaxFailures, MaxChanges} \subseteq Nat

VARIABLES
  pc, at, retry, code,   \* of a wrapper: place, run of the plan, option, exit code of its run
  child,                 \* the run the experiment started by a wrapper measures, 0 if none
  strays,                \* k6 or a collector of a killed experiment is still alive
  leftover,              \* containers of an experiment that is gone
  tree, image,           \* the checked-out source, the images of the host
  stored, baseline, prepared,   \* control/: fingerprint.txt, images.json, prepared.ok
  result, marker,        \* of a run: its directory, control/<id>.exit
  attempts,              \* _attempts/
  completed,             \* completed.txt
  accept, transitions,   \* accept-network-isolation.py, its archive directories
  tries,                 \* experiments that created a directory
  budget                 \* kills, failures and changes so far

wrapper == <<pc, at, retry, code>>
host == <<child, strays, leftover>>
environment == <<tree, image>>
control == <<stored, baseline, prepared>>
evidence == <<result, marker, attempts, completed, tries>>
transition == <<accept, transitions>>
vars == <<wrapper, host, environment, control, evidence, transition, budget>>

Trees == {"original", "isolated", "other"}
Images == {"first", "newer"}
None == [try |-> 0, kind |-> "none", tree |-> "none", image |-> "none"]
Results == [try : Nat, kind : {"none", "partial", "rejected", "eligible"},
            tree : Trees \cup {"none"}, image : Images \cup {"none"}]
Places == {"off", "entered", "idle", "storing", "preparing", "snapshot", "certify",
           "next", "archived", "checking", "fingerprint", "images", "ready",
           "running", "marking", "judging"}

\* Types; -1 stands for a marker that is not there.
MatrixTypeOK ==
  /\ pc \in [Wrappers -> Places]
  /\ at \in [Wrappers -> 1 .. Runs + 1]
  /\ retry \in [Wrappers -> BOOLEAN]
  /\ code \in [Wrappers -> 0 .. 2]
  /\ child \in [Wrappers -> 0 .. Runs]
  /\ strays \in BOOLEAN /\ leftover \in BOOLEAN
  /\ tree \in Trees /\ image \in Images
  /\ stored \in Trees \cup {"none", "torn"}
  /\ baseline \in Images \cup {"none"}
  /\ prepared \in BOOLEAN
  /\ prepared => baseline # "none" /\ stored \in Trees
  /\ result \in [1 .. Runs -> Results]
  /\ marker \in [1 .. Runs -> -1 .. 2]
  /\ tries \in Nat /\ attempts \subseteq 1 .. tries
  /\ completed \in BOOLEAN
  /\ accept \in {"off", "checked", "archived"}
  /\ transitions \subseteq Trees
  /\ budget \in [kills : 0 .. MaxKills, failures : 0 .. MaxFailures, changes : 0 .. MaxChanges]

Init ==
  /\ pc = [w \in Wrappers |-> "off"]
  /\ at = [w \in Wrappers |-> 1]
  /\ retry = [w \in Wrappers |-> FALSE]
  /\ code = [w \in Wrappers |-> 0]
  /\ child = [w \in Wrappers |-> 0]
  /\ strays = FALSE /\ leftover = FALSE
  /\ tree = "original" /\ image = "first"
  /\ stored = "none" /\ baseline = "none" /\ prepared = FALSE
  /\ result = [e \in 1 .. Runs |-> None]
  /\ marker = [e \in 1 .. Runs |-> -1]
  /\ attempts = {} /\ tries = 0
  /\ completed = FALSE
  /\ accept = "off" /\ transitions = {}
  /\ budget = [kills |-> 0, failures |-> 0, changes |-> 0]

Spend(what, limit) ==
  /\ budget[what] < limit
  /\ budget' = [budget EXCEPT ![what] = @ + 1]

Experiments == {w \in Wrappers : child[w] # 0}

\* Descriptor 9 is inherited: the lock is free once the wrapper, its experiment and
\* the experiment's children are all gone.
Held ==
  \/ \E w \in Wrappers : pc[w] # "off"
  \/ Experiments # {}
  \/ strays
  \/ accept # "off"

\* Variant: docker ps left out.
IdleByProcesses == Experiments = {} /\ ~strays

\* idle_check
Idle == Experiments = {} /\ ~strays /\ ~leftover

Goto(w, place) ==
  /\ pc' = [pc EXCEPT ![w] = place]
  /\ UNCHANGED <<at, retry, code>>

\* The wrapper ends: die, a failed command, a signal, or the end of the plan.
Off(w) ==
  /\ pc' = [pc EXCEPT ![w] = "off"]
  /\ at' = [at EXCEPT ![w] = 1]
  /\ retry' = [retry EXCEPT ![w] = FALSE]
  /\ code' = [code EXCEPT ![w] = 0]

\* A check that ends the wrapper when it fails.
Check(w, from, condition, to) ==
  /\ pc[w] = from
  /\ IF condition THEN Goto(w, to) ELSE Off(w)

NextRun(w) ==
  /\ pc' = [pc EXCEPT ![w] = "next"]
  /\ at' = [at EXCEPT ![w] = @ + 1]
  /\ code' = [code EXCEPT ![w] = 0]
  /\ UNCHANGED retry

-----------------------------------------------------------------------------
(* Start of a wrapper: lock, first checks, preparation *)

\* flock -n
Invoke(w, option) ==
  /\ pc[w] = "off"
  /\ ~Held
  /\ pc' = [pc EXCEPT ![w] = "entered"]
  /\ retry' = [retry EXCEPT ![w] = option]
  /\ UNCHANGED <<at, code, host, environment, control, evidence, transition, budget>>

CheckIdleFirst(w) ==
  /\ Check(w, "entered", Idle, "idle")
  /\ UNCHANGED <<host, environment, control, evidence, transition, budget>>

\* cmp with the file that is there, be it a part of a copy.
CompareFingerprint(w) ==
  /\ stored # "none"
  /\ Check(w, "idle", stored = tree, "preparing")
  /\ UNCHANGED <<host, environment, control, evidence, transition, budget>>

\* cp opens the new file; until it is done the file holds less than a fingerprint.
CopyFingerprint(w) ==
  /\ stored = "none"
  /\ Check(w, "idle", TRUE, "storing")
  /\ stored' = "torn"
  /\ UNCHANGED <<host, environment, baseline, prepared, evidence, transition, budget>>

CopyEnds(w) ==
  /\ Check(w, "storing", TRUE, "preparing")
  /\ stored' = tree
  /\ UNCHANGED <<host, environment, baseline, prepared, evidence, transition, budget>>

\* Some metadata.json is found below the series.
Measured == tries > 0

AlreadyPrepared(w) ==
  /\ prepared
  /\ Check(w, "preparing", TRUE, "next")
  /\ UNCHANGED <<host, environment, control, evidence, transition, budget>>

\* Whatever the registry offers now.
Pull(w) ==
  /\ ~prepared
  /\ Check(w, "preparing", ~Measured, "snapshot")
  /\ image' \in IF Measured THEN {image} ELSE Images
  /\ UNCHANGED <<host, tree, control, evidence, transition, budget>>

Snapshot(w) ==
  /\ Check(w, "snapshot", TRUE, "certify")
  /\ baseline' = image
  /\ UNCHANGED <<host, environment, stored, prepared, evidence, transition, budget>>

Certify(w) ==
  /\ Check(w, "certify", TRUE, "next")
  /\ prepared' = TRUE
  /\ UNCHANGED <<host, environment, stored, baseline, evidence, transition, budget>>

-----------------------------------------------------------------------------
(* One run of the plan *)

Eligible(e) == result[e].kind = "eligible"

Verified(e) == marker[e] = 0 /\ Eligible(e)

AtRun(w) == pc[w] = "next" /\ at[w] <= Runs

Skip(w) ==
  /\ AtRun(w)
  /\ Verified(at[w])
  /\ NextRun(w)
  /\ UNCHANGED <<host, environment, control, evidence, transition, budget>>

\* Variant: the previous attempt is deleted.
ArchiveDeleting(w) ==
  /\ AtRun(w)
  /\ ~Verified(at[w])
  /\ result[at[w]] # None
  /\ IF retry[w] THEN Goto(w, "archived") ELSE Off(w)
  /\ result' = IF retry[w] THEN [result EXCEPT ![at[w]] = None] ELSE result
  /\ UNCHANGED <<host, environment, control, marker, attempts, completed, tries, transition, budget>>

\* Variant: the previous attempt is copied and stays where it is.
ArchiveCopying(w) ==
  /\ AtRun(w)
  /\ ~Verified(at[w])
  /\ result[at[w]] # None
  /\ IF retry[w]
     THEN Goto(w, "archived") /\ attempts' = attempts \cup {result[at[w]].try}
     ELSE Off(w) /\ UNCHANGED attempts
  /\ UNCHANGED <<host, environment, control, result, marker, completed, tries, transition, budget>>

\* Variant: --retry-failed repeats what has not failed.
ArchiveAll(w) ==
  /\ AtRun(w)
  /\ result[at[w]] # None
  /\ IF retry[w]
     THEN /\ Goto(w, "archived")
          /\ attempts' = attempts \cup {result[at[w]].try}
          /\ result' = [result EXCEPT ![at[w]] = None]
     ELSE Off(w) /\ UNCHANGED <<attempts, result>>
  /\ UNCHANGED <<host, environment, control, marker, completed, tries, transition, budget>>

\* mv of the directory; without --retry-failed the series stops here.
Archive(w) ==
  /\ AtRun(w)
  /\ ~Verified(at[w])
  /\ result[at[w]] # None
  /\ IF retry[w]
     THEN /\ Goto(w, "archived")
          /\ attempts' = attempts \cup {result[at[w]].try}
          /\ result' = [result EXCEPT ![at[w]] = None]
     ELSE Off(w) /\ UNCHANGED <<attempts, result>>
  /\ UNCHANGED <<host, environment, control, marker, completed, tries, transition, budget>>

\* mv of the marker, a step of its own.
ArchiveMarker(w) ==
  /\ Check(w, "archived", TRUE, "checking")
  /\ marker' = [marker EXCEPT ![at[w]] = -1]
  /\ UNCHANGED <<host, environment, control, result, attempts, completed, tries, transition, budget>>

Fresh(w) ==
  /\ AtRun(w)
  /\ ~Verified(at[w])
  /\ result[at[w]] = None
  /\ Goto(w, "checking")
  /\ UNCHANGED <<host, environment, control, evidence, transition, budget>>

CheckIdle(w) ==
  /\ Check(w, "checking", Idle, "fingerprint")
  /\ UNCHANGED <<host, environment, control, evidence, transition, budget>>

CheckFingerprint(w) ==
  /\ Check(w, "fingerprint", tree = stored, "images")
  /\ UNCHANGED <<host, environment, control, evidence, transition, budget>>

\* Variant: the images are inspected and not compared.
CheckImagesAnyhow(w) ==
  /\ Check(w, "images", TRUE, "ready")
  /\ UNCHANGED <<host, environment, control, evidence, transition, budget>>

CheckImages(w) ==
  /\ Check(w, "images", image = baseline, "ready")
  /\ UNCHANGED <<host, environment, control, evidence, transition, budget>>

\* run-experiment.sh creates the directory, which must not exist.
Start(w) ==
  /\ pc[w] = "ready"
  /\ result[at[w]] = None
  /\ Goto(w, "running")
  /\ tries' = tries + 1
  /\ result' = [result EXCEPT ![at[w]] =
                  [try |-> tries + 1, kind |-> "partial", tree |-> tree, image |-> image]]
  /\ child' = [child EXCEPT ![w] = at[w]]
  /\ UNCHANGED <<strays, leftover, environment, control, marker, attempts, completed, transition, budget>>

\* It finds the directory, or fails before it has created it.
StartFails(w) ==
  /\ pc[w] = "ready"
  /\ pc' = [pc EXCEPT ![w] = "marking"]
  /\ code' = [code EXCEPT ![w] = 1]
  /\ \/ result[at[w]] # None /\ UNCHANGED budget
     \/ result[at[w]] = None /\ Spend("failures", MaxFailures)
  /\ UNCHANGED <<at, retry, host, environment, control, evidence, transition>>

\* Variant: the marker says that there is a result.
WriteMarkerOfResult(w) ==
  /\ Check(w, "marking", TRUE, "judging")
  /\ marker' = [marker EXCEPT ![at[w]] = IF result[at[w]] # None THEN 0 ELSE code[w]]
  /\ UNCHANGED <<host, environment, control, result, attempts, completed, tries, transition, budget>>

WriteMarker(w) ==
  /\ Check(w, "marking", TRUE, "judging")
  /\ marker' = [marker EXCEPT ![at[w]] = code[w]]
  /\ UNCHANGED <<host, environment, control, result, attempts, completed, tries, transition, budget>>

\* Variant: a failed run is left behind and the series goes on.
JudgeAndGoOn(w) ==
  /\ pc[w] = "judging"
  /\ NextRun(w)
  /\ UNCHANGED <<host, environment, control, evidence, transition, budget>>

Judge(w) ==
  /\ pc[w] = "judging"
  /\ IF code[w] = 0 /\ Eligible(at[w]) THEN NextRun(w) ELSE Off(w)
  /\ UNCHANGED <<host, environment, control, evidence, transition, budget>>

Complete(w) ==
  /\ pc[w] = "next"
  /\ at[w] > Runs
  /\ Off(w)
  /\ completed' = TRUE
  /\ UNCHANGED <<host, environment, control, result, marker, attempts, tries, transition, budget>>

-----------------------------------------------------------------------------
(* Experiments, kills, the operator *)

\* The wrapper, if it is still there, gets the exit code.
Exit(w, c) ==
  /\ child' = [child EXCEPT ![w] = 0]
  /\ IF pc[w] = "running"
     THEN /\ pc' = [pc EXCEPT ![w] = "marking"]
          /\ code' = [code EXCEPT ![w] = c]
          /\ UNCHANGED <<at, retry>>
     ELSE UNCHANGED wrapper

Passes(w) ==
  /\ child[w] # 0
  /\ result' = [result EXCEPT ![child[w]].kind = "eligible"]
  /\ Exit(w, 0)
  /\ UNCHANGED <<strays, leftover, environment, control, marker, attempts, completed, tries, transition, budget>>

\* Rejected; admitted, but without its report; or ended early.  Containers may be left
\* if compose down failed.
Fails(w) ==
  /\ child[w] # 0
  /\ Spend("failures", MaxFailures)
  /\ \E kind \in {"partial", "rejected", "eligible"} :
       /\ result' = [result EXCEPT ![child[w]].kind = kind]
       /\ leftover' \in IF kind = "eligible" THEN {leftover} ELSE {leftover, TRUE}
       /\ Exit(w, IF kind = "partial" THEN 1 ELSE 2)
  /\ UNCHANGED <<strays, environment, control, marker, attempts, completed, tries, transition>>

KillExperiment(w) ==
  /\ child[w] # 0
  /\ Spend("kills", MaxKills)
  /\ strays' \in BOOLEAN
  /\ leftover' \in BOOLEAN
  /\ Exit(w, 1)
  /\ UNCHANGED <<environment, control, evidence, transition>>

KillWrapper(w) ==
  /\ pc[w] # "off"
  /\ Spend("kills", MaxKills)
  /\ Off(w)
  /\ UNCHANGED <<host, environment, control, evidence, transition>>

StraysEnd ==
  /\ strays
  /\ strays' = FALSE
  /\ UNCHANGED <<wrapper, child, leftover, environment, control, evidence, transition, budget>>

\* The host restarts: every process and container is gone, the files stay.
Crash ==
  /\ Spend("kills", MaxKills)
  /\ Held \/ leftover
  /\ pc' = [w \in Wrappers |-> "off"]
  /\ at' = [w \in Wrappers |-> 1]
  /\ retry' = [w \in Wrappers |-> FALSE]
  /\ code' = [w \in Wrappers |-> 0]
  /\ child' = [w \in Wrappers |-> 0]
  /\ strays' = FALSE
  /\ leftover' = FALSE
  /\ accept' = "off"
  /\ UNCHANGED <<environment, control, evidence, transitions>>

\* From the checks of a run to its end nobody touches source or images: the code
\* cannot see it, and rate10-matrix.md asks the operator to see to it.
Undisturbed ==
  /\ Experiments = {}
  /\ \A w \in Wrappers : pc[w] \notin {"snapshot", "certify", "images", "ready"}
  /\ accept = "off"

Change ==
  /\ Undisturbed
  /\ Spend("changes", MaxChanges)
  /\ \/ tree' \in Trees \ {tree} /\ UNCHANGED image
     \/ image' \in Images \ {image} /\ UNCHANGED tree
  /\ UNCHANGED <<wrapper, host, control, evidence, transition>>

\* The operator does what the messages ask for: original source and images, no
\* containers left.
Restore ==
  /\ Undisturbed
  /\ tree' = IF stored \in Trees THEN stored ELSE tree
  /\ image' = IF baseline = "none" THEN image ELSE baseline
  /\ leftover' = FALSE
  /\ UNCHANGED <<wrapper, child, strays, control, evidence, transition, budget>>

-----------------------------------------------------------------------------
(* accept-network-isolation.py *)

\* Variant: the lock is not taken.
AcceptCheckUnlocked ==
  /\ accept = "off"
  /\ prepared
  /\ Idle
  /\ stored = "original" /\ tree = "isolated"
  /\ image = baseline
  /\ accept' = "checked"
  /\ UNCHANGED <<wrapper, host, environment, control, evidence, transitions, budget>>

AcceptCheck ==
  /\ accept = "off"
  /\ prepared
  /\ ~Held
  /\ Idle
  /\ stored = "original" /\ tree = "isolated"
  /\ image = baseline
  /\ accept' = "checked"
  /\ UNCHANGED <<wrapper, host, environment, control, evidence, transitions, budget>>

\* mkdir refuses a directory that exists.
AcceptArchive ==
  /\ accept = "checked"
  /\ accept' = IF tree \in transitions THEN "off" ELSE "archived"
  /\ transitions' = transitions \cup {tree}
  /\ UNCHANGED <<wrapper, host, environment, control, evidence, budget>>

AcceptReplace ==
  /\ accept = "archived"
  /\ stored' = tree
  /\ accept' = "off"
  /\ UNCHANGED <<wrapper, host, environment, baseline, prepared, evidence, transitions, budget>>

KillAccept ==
  /\ accept # "off"
  /\ Spend("kills", MaxKills)
  /\ accept' = "off"
  /\ UNCHANGED <<wrapper, host, environment, control, evidence, transitions>>

-----------------------------------------------------------------------------
Wrapper(w) ==
  \/ CheckIdleFirst(w)
  \/ CompareFingerprint(w) \/ CopyFingerprint(w) \/ CopyEnds(w)
  \/ AlreadyPrepared(w) \/ Pull(w) \/ Snapshot(w) \/ Certify(w)
  \/ Skip(w) \/ Archive(w) \/ ArchiveMarker(w) \/ Fresh(w)
  \/ CheckIdle(w) \/ CheckFingerprint(w) \/ CheckImages(w)
  \/ Start(w) \/ StartFails(w) \/ WriteMarker(w) \/ Judge(w)
  \/ Complete(w)

Experiment(w) == Passes(w) \/ Fails(w)

Accept == AcceptCheck \/ AcceptArchive \/ AcceptReplace

Next ==
  \/ \E w \in Wrappers :
       \/ \E option \in BOOLEAN : Invoke(w, option)
       \/ Wrapper(w) \/ Experiment(w)
       \/ KillExperiment(w) \/ KillWrapper(w)
  \/ StraysEnd \/ Crash
  \/ Change \/ Restore
  \/ Accept \/ KillAccept

Spec == Init /\ [][Next]_vars

\* Processes that live make progress.  The operator restores what was changed and
\* resumes the series with --retry-failed again and again, whatever else is tried.
FairSpec ==
  /\ Spec
  /\ \A w \in Wrappers : WF_vars(Wrapper(w)) /\ WF_vars(Experiment(w))
  /\ WF_vars(StraysEnd)
  /\ WF_vars(AcceptArchive \/ AcceptReplace)
  /\ SF_vars(Restore)
  /\ SF_vars(\E w \in Wrappers : Invoke(w, TRUE))

-----------------------------------------------------------------------------
(* What a series is worth *)

\* One measurement at a time: never two experiments, nor one next to the remains of
\* another, though wrappers are killed and started again while their experiment goes on.
OneExperiment ==
  /\ Cardinality(Experiments) <= 1
  /\ Experiments # {} => ~strays /\ ~leftover

\* An exit marker of 0 belongs to an admitted result that is still in its place; a
\* marker left behind between the two moves of an archive never says 0.
ZeroMarkerIsTrue == \A e \in 1 .. Runs : marker[e] = 0 => Eligible(e)

\* completed.txt: every run of the plan has been verified.
CompleteMeansVerified == completed => \A e \in 1 .. Runs : Verified(e)

\* Every attempt that created a directory can be looked at later: it is in its place
\* or below _attempts, never both, whichever step was cut off.
AttemptsPreserved ==
  \A n \in 1 .. tries :
    (\E e \in 1 .. Runs : result[e].try = n) # (n \in attempts)

\* All verified runs of a series were measured with the images of its preparation and
\* with its source, or with the source of before an accepted transition.
Comparable ==
  \A e \in 1 .. Runs : Verified(e) =>
    /\ result[e].image = baseline
    /\ \/ result[e].tree = stored
       \/ result[e].tree = "original" /\ stored \in transitions

\* A verified run is never repeated, moved or rewritten.
VerifiedStays ==
  [][\A e \in 1 .. Runs : Verified(e) => result'[e] = result[e] /\ marker'[e] = 0]_vars

\* The fingerprint of a series changes only while the series is stopped, and only after
\* the evidence of the transition has been written.
FingerprintOnlyAccepted ==
  [][stored' # stored /\ stored \in Trees =>
       /\ stored' \in transitions
       /\ \A w \in Wrappers : pc[w] = "off" /\ child[w] = 0]_vars

\* The first copy of the fingerprint was cut off: the file is there and compares equal to
\* nothing, so that every later wrapper of the series dies.
CopyCutOff == stored = "torn" /\ \A w \in Wrappers : pc[w] # "storing"

\* An operator who restores the environment and resumes with --retry-failed gets the
\* series completed, whatever was killed at whatever step: all but the very first copy
\* of the fingerprint, before anything was measured.
SeriesCompletes == <>(completed \/ (CopyCutOff /\ tries = 0))
=============================================================================
