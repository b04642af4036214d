----------------------------- MODULE ExperimentRun -----------------------------
(***************************************************************************)
(* One experiment: run-experiment.sh with its collector, its workload and  *)
(* its containers, from the first command to the verdict of                *)
(* validate-run.py.  The script may fail at any command, be interrupted or *)
(* be killed; the EXIT trap cleans up, records the exit code and validates.*)
(*                                                                         *)
(* DrainCheck looks into the drain phase; here it is one wait that ends    *)
(* one way or the other.  The content of the evidence files is abstracted  *)
(* to whether validate-run.py finds it sound.                              *)
(***************************************************************************)
EXTENDS Integers, Sequences, SequencesExt

CONSTANTS MaxSignals   \* bound: SIGINT and SIGTERM sent to the script

ASSUME SignalsAssumption == MaxSignals \in Nat

VARIABLES
  scenario,    \* "idle", or "load" for the scenarios with requests
  stage,       \* where the script is
  code,        \* the exit code it is going to report
  phases,      \* phases.json
  workload,    \* k6, or the sleep of the idle scenario
  collector,   \* the metric collector
  containers,  \* the compose project of this run
  reading,     \* the phase in which the collector's sample was measured
  samples,     \* <<phase measured in, phase it is filed under>> of each sample
  recorded,    \* exitCode in metadata.json, -1 if there is none
  verdict,     \* eligible in validation.json
  signals      \* signals sent

children == <<workload, collector>>
evidence == <<recorded, verdict>>
sampling == <<reading, samples>>
vars == <<scenario, stage, code, phases, children, containers, sampling,
          evidence, signals>>

Main == {"building", "starting", "launching", "waiting", "preparing", "loading", "draining",
         "idling", "collecting", "stopping", "finished"}
Cleanup == {"ending", "reaping", "removing", "recording", "validating", "reporting"}
Over == {"exited", "killed"}

PhaseNames == {"startup", "preparation", "idle", "load", "drain",
               "post-load-idle", "finished"}

\* The collector at work: sampling, told to stop, or taking its last sample.
Sampling == {"up", "asked", "final"}

\* What validate-run.py demands of phases.json.
Needed ==
  IF scenario = "idle"
  THEN <<"startup", "preparation", "idle", "finished">>
  ELSE <<"startup", "preparation", "load", "drain", "post-load-idle", "finished">>

\* Types; a run that is over has a verdict on file, or none.
RunTypeOK ==
  /\ scenario \in {"idle", "load"}
  /\ stage \in Main \cup Cleanup \cup Over
  /\ code \in 0 .. 255
  /\ phases \in Seq(PhaseNames)
  /\ workload \in {"none", "up", "ok", "bad"}
  /\ collector \in {"none", "up", "asked", "final", "ok", "bad"}
  /\ containers \in {"none", "up", "removed"}
  /\ reading \in {"none"} \cup PhaseNames
  /\ samples \subseteq PhaseNames \X PhaseNames
  /\ recorded \in -1 .. 255
  /\ verdict \in {"none", "eligible", "rejected"}
  /\ signals \in 0 .. MaxSignals

Init ==
  /\ scenario \in {"idle", "load"}
  /\ stage = "building"
  /\ code = 0
  /\ phases = <<>>
  /\ workload = "none"
  /\ collector = "none"
  /\ containers = "none"
  /\ reading = "none"
  /\ samples = {}
  /\ recorded = -1
  /\ verdict = "none"
  /\ signals = 0

-----------------------------------------------------------------------------
(* The script up to its end, each stage entered by the commands before it *)

SetPhase(name) == phases' = Append(phases, name)

\* set -e, or an explicit exit: the EXIT trap runs with this code.
ExitWith(c) ==
  /\ code' = c
  /\ stage' = "ending"

Goto(next) == stage' = next /\ UNCHANGED code

\* compose_started is set before the dependencies are brought up.
StartDependencies ==
  /\ stage = "building"
  /\ Goto("starting")
  /\ containers' = "up"
  /\ UNCHANGED <<scenario, phases, children, sampling, evidence, signals>>

DependenciesReady ==
  /\ stage = "starting"
  /\ Goto("launching")
  /\ SetPhase("startup")
  /\ UNCHANGED <<scenario, children, containers, sampling, evidence, signals>>

\* The service is started and the collector after it.
StartCollector ==
  /\ stage = "launching"
  /\ Goto("waiting")
  /\ collector' = "up"
  /\ UNCHANGED <<scenario, phases, workload, containers, sampling, evidence, signals>>

Ready ==
  /\ stage = "waiting"
  /\ Goto("preparing")
  /\ SetPhase("preparation")
  /\ UNCHANGED <<scenario, children, containers, sampling, evidence, signals>>

\* The orders are seeded, the scenario begins.
StartWorkload ==
  /\ stage = "preparing"
  /\ Goto("loading")
  /\ SetPhase(scenario)
  /\ workload' = "up"
  /\ UNCHANGED <<scenario, collector, containers, sampling, evidence, signals>>

\* load_phase_finished
LoadFinished == "drain" \in ToSet(phases)

\* The planned duration is over, k6 still waits for the last answers.
DeadlinePasses ==
  /\ stage = "loading"
  /\ scenario # "idle"
  /\ workload = "up"
  /\ ~LoadFinished
  /\ SetPhase("drain")
  /\ UNCHANGED <<scenario, stage, code, children, containers, sampling, evidence, signals>>

\* Variant: the drain phase is entered whether it has been or not.
WorkloadOverTwice ==
  /\ stage = "loading"
  /\ workload \in {"ok", "bad"}
  /\ IF scenario = "idle" THEN Goto("collecting") /\ UNCHANGED phases
                          ELSE Goto("draining") /\ SetPhase("drain")
  /\ UNCHANGED <<scenario, children, containers, sampling, evidence, signals>>

WorkloadOver ==
  /\ stage = "loading"
  /\ workload \in {"ok", "bad"}
  /\ Goto(IF scenario = "idle" THEN "collecting" ELSE "draining")
  /\ IF scenario = "idle" \/ LoadFinished THEN UNCHANGED phases ELSE SetPhase("drain")
  /\ UNCHANGED <<scenario, children, containers, sampling, evidence, signals>>

Drained ==
  /\ stage = "draining"
  /\ Goto("idling")
  /\ SetPhase("post-load-idle")
  /\ UNCHANGED <<scenario, children, containers, sampling, evidence, signals>>

IdleOver ==
  /\ stage = "idling"
  /\ Goto("collecting")
  /\ UNCHANGED <<scenario, phases, children, containers, sampling, evidence, signals>>

\* The final state is stored, the collector is told to stop.
StopCollector ==
  /\ stage = "collecting"
  /\ Goto("stopping")
  /\ collector' = IF collector = "up" THEN "asked" ELSE collector
  /\ UNCHANGED <<scenario, phases, workload, containers, sampling, evidence, signals>>

\* Variant: the collector's end is not looked at.
CollectorStoppedAnyhow ==
  /\ stage = "stopping"
  /\ collector \in {"ok", "bad"}
  /\ Goto("finished") /\ SetPhase("finished")
  /\ UNCHANGED <<scenario, children, containers, sampling, evidence, signals>>

\* wait returns the collector's exit code.
CollectorStopped ==
  /\ stage = "stopping"
  /\ collector \in {"ok", "bad"}
  /\ IF collector = "ok" THEN Goto("finished") /\ SetPhase("finished")
                         ELSE ExitWith(1) /\ UNCHANGED phases
  /\ UNCHANGED <<scenario, children, containers, sampling, evidence, signals>>

\* exit "$workload_code"; k6 reports a missed threshold as 99.
Finish ==
  /\ stage = "finished"
  /\ ExitWith(IF workload = "ok" THEN 0 ELSE 99)
  /\ UNCHANGED <<scenario, phases, children, containers, sampling, evidence, signals>>

\* A command fails, a wait times out, or the collector is found dead.
CommandFails ==
  /\ stage \in Main
  /\ stage = "stopping" => collector = "ok"
  /\ ExitWith(1)
  /\ UNCHANGED <<scenario, phases, children, containers, sampling, evidence, signals>>

-----------------------------------------------------------------------------
(* cleanup(), the EXIT trap *)

\* Variant: the code of the last failure counts.
LastCode(c) == c

\* The code of a step that fails in cleanup counts only if nothing failed before.
Unless0(c) == IF code = 0 THEN c ELSE code

\* Variant: the collector is waited for without being told to stop.
EndWorkloadOnly ==
  /\ stage = "ending"
  /\ Goto("reaping")
  /\ workload' = IF workload = "up" THEN "bad" ELSE workload
  /\ UNCHANGED <<scenario, phases, collector, containers, sampling, evidence, signals>>

\* Both children are told to stop, the workload is waited for.
EndWorkload ==
  /\ stage = "ending"
  /\ Goto("reaping")
  /\ workload' = IF workload = "up" THEN "bad" ELSE workload
  /\ collector' = IF collector = "up" THEN "asked" ELSE collector
  /\ UNCHANGED <<scenario, phases, containers, sampling, evidence, signals>>

\* How the collector ended is lost here: in "stop_collector || ..." set -e is off, so
\* the function goes on after a failed wait and returns the status of its last command.
Reaped ==
  /\ stage = "reaping"
  /\ collector \notin Sampling
  /\ Goto("removing")
  /\ UNCHANGED <<scenario, phases, children, containers, sampling, evidence, signals>>

\* Variant: it does not matter whether compose down succeeds.
RemoveAnyhow ==
  /\ stage = "removing"
  /\ Goto("recording")
  /\ containers' \in {containers, IF containers = "up" THEN "removed" ELSE containers}
  /\ UNCHANGED <<scenario, phases, children, sampling, evidence, signals>>

\* compose down, which may fail.
RemoveContainers ==
  /\ stage = "removing"
  /\ stage' = "recording"
  /\ \/ /\ containers' = IF containers = "up" THEN "removed" ELSE containers
        /\ UNCHANGED code
     \/ /\ containers = "up"
        /\ code' = Unless0(1)
        /\ UNCHANGED containers
  /\ UNCHANGED <<scenario, phases, children, sampling, evidence, signals>>

\* experiment_support.py finish; its failure is ignored.
Record ==
  /\ stage = "recording"
  /\ Goto("validating")
  /\ recorded' \in {code, -1}
  /\ UNCHANGED <<scenario, phases, children, containers, sampling, verdict, signals>>

Admissible(sound) ==
  /\ sound
  /\ recorded = 0
  /\ phases = Needed

\* sound: what validate-run.py finds in the other files.  It may fail before it
\* has written its result, or after that.
Validate ==
  /\ stage = "validating"
  /\ stage' = "reporting"
  /\ \E sound \in BOOLEAN :
       verdict' \in {IF Admissible(sound) THEN "eligible" ELSE "rejected", "none"}
  /\ code' \in (IF verdict' = "eligible" THEN {code} ELSE {}) \cup {Unless0(2)}
  /\ UNCHANGED <<scenario, phases, children, containers, sampling, recorded, signals>>

Report ==
  /\ stage = "reporting"
  /\ stage' = "exited"
  /\ code' \in {code, Unless0(2)}
  /\ UNCHANGED <<scenario, phases, children, containers, sampling, evidence, signals>>

-----------------------------------------------------------------------------
(* The children, signals, and the end of it all *)

WorkloadEnds ==
  /\ workload = "up"
  /\ workload' \in {"ok", "bad"}
  /\ UNCHANGED <<scenario, stage, code, phases, collector, containers, sampling, evidence, signals>>

\* docker exec reads the counters ...
Measure ==
  /\ collector \in {"up", "asked"}
  /\ reading = "none"
  /\ containers = "up"
  /\ reading' = Last(phases)
  /\ collector' = IF collector = "asked" THEN "final" ELSE collector
  /\ UNCHANGED <<scenario, stage, code, phases, workload, containers, samples, evidence, signals>>

\* ... and the sample is filed under the phase found in phases.json by then.
File ==
  /\ reading # "none"
  /\ samples' = samples \cup {<<reading, Last(phases)>>}
  /\ reading' = "none"
  /\ collector' = IF collector = "final" THEN "ok" ELSE collector
  /\ UNCHANGED <<scenario, stage, code, phases, workload, containers, evidence, signals>>

\* The container is lost or a reading fails.
CollectorFails ==
  /\ collector \in Sampling
  /\ collector' = "bad"
  /\ reading' = "none"
  /\ UNCHANGED <<scenario, stage, code, phases, workload, containers, samples, evidence, signals>>

\* The traps of the script; cleanup has reset them, a signal ends it.
Interrupt(c) ==
  /\ signals < MaxSignals
  /\ signals' = signals + 1
  /\ \/ stage \in Main /\ ExitWith(c)
     \/ stage \in Cleanup /\ stage' = "killed" /\ UNCHANGED code
  /\ UNCHANGED <<scenario, phases, children, containers, sampling, evidence>>

Kill ==
  /\ stage \in Main \cup Cleanup
  /\ stage' = "killed"
  /\ UNCHANGED <<scenario, code, phases, children, containers, sampling, evidence, signals>>

-----------------------------------------------------------------------------
Script ==
  \/ StartDependencies \/ DependenciesReady \/ StartCollector
  \/ Ready \/ StartWorkload
  \/ WorkloadOver \/ Drained \/ IdleOver
  \/ StopCollector \/ CollectorStopped \/ Finish
  \/ EndWorkload \/ Reaped \/ RemoveContainers \/ Record \/ Validate \/ Report

Next ==
  \/ Script
  \/ CommandFails
  \/ DeadlinePasses
  \/ WorkloadEnds
  \/ Measure
  \/ File
  \/ CollectorFails
  \/ Interrupt(130) \/ Interrupt(143)
  \/ Kill

Spec == Init /\ [][Next]_vars

\* Every wait of the script has a time limit, the workload ends by itself, and
\* the collector's readings time out.
FairSpec ==
  /\ Spec
  /\ WF_vars(Script)
  /\ WF_vars(WorkloadEnds)
  /\ WF_vars(Measure \/ File)

-----------------------------------------------------------------------------
(* What makes a run worth comparing *)

\* RESEARCH_PROTOCOL.md:26, the phases: whatever happens they are entered in this
\* order, each once and none skipped.
PhasesInOrder == IsPrefix(phases, Needed)

\* "Process completion is not research validity": a run admitted for comparison
\* went through all of its phases with a workload that succeeded and a collector
\* that was alive to the end and stopped on request, and has left no container
\* behind, even if the script was interrupted or killed during cleanup.
EligibleRun ==
  verdict = "eligible" =>
    /\ phases = Needed
    /\ workload = "ok"
    /\ collector = "ok"
    /\ containers = "removed"

\* A script that ends with code 0 has an eligible run to show, one that ends by
\* itself leaves no child and, unless it reports a failure, no container.
ExitTells ==
  stage = "exited" =>
    /\ code = 0 => verdict = "eligible"
    /\ workload # "up"
    /\ collector \notin Sampling
    /\ containers = "up" => code # 0

\* The first failure decides the exit code; cleanup does not replace it.
FirstCodeKept == [][code # 0 => code' = code]_vars

\* A script that is not killed comes to its end.
RunEnds == <>(stage \in Over)

\* DECISIONS.md D-004, phases are accounted for separately: a sample is filed
\* under the phase it was measured in.
SampleOfItsPhase == \A s \in samples : s[1] = s[2]
=============================================================================
