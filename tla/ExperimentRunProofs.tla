-------------------------- MODULE ExperimentRunProofs --------------------------
(***************************************************************************)
(* Theorems about ExperimentRun for any number of signals.                 *)
(***************************************************************************)
EXTENDS ExperimentRun, TLAPS

\* The script has entered exactly the first n phases.
Upto(n) ==
  /\ phases \in Seq(PhaseNames)
  /\ Len(phases) = n
  /\ \A i \in 1 .. n : phases[i] = Needed[i]

\* All of them.
Through == Upto(Len(Needed))

\* Where the script is tells how many phases it has entered.
PhaseInv ==
  /\ scenario \in {"idle", "load"}
  /\ stage \in Main \cup Cleanup \cup Over
  /\ \E n \in 0 .. Len(Needed) : Upto(n)
  /\ stage \in {"building", "starting"} => Upto(0)
  /\ stage \in {"launching", "waiting"} => Upto(1)
  /\ stage = "preparing" => Upto(2)
  /\ stage = "loading" => Upto(3) \/ (scenario = "load" /\ Upto(4))
  /\ stage = "draining" => scenario = "load" /\ Upto(4)
  /\ stage = "idling" => scenario = "load" /\ Upto(5)
  /\ stage \in {"collecting", "stopping"} => Upto(IF scenario = "idle" THEN 3 ELSE 5)
  /\ stage = "finished" => Through

\* The collector is started after the first phase was entered; only a collector at
\* work has a reading.
CollectorInv ==
  /\ stage \in {"building", "starting", "launching"} => collector = "none"
  /\ collector # "none" => Len(phases) > 0
  /\ reading # "none" => collector \in Sampling

\* The children while the script is on its way, and after cleanup dealt with them.
ChildrenInv ==
  /\ stage \in {"draining", "idling", "collecting", "stopping", "finished"}
       => workload \in {"ok", "bad"}
  /\ stage = "finished" => collector = "ok"
  /\ stage \in {"reaping", "removing", "recording", "validating", "reporting", "exited"}
       => workload # "up"
  /\ stage \in {"removing", "recording", "validating", "reporting", "exited"}
       => collector \notin Sampling

\* A failure is not forgotten: with code 0 everything so far has succeeded.
CodeInv ==
  /\ stage \in Main => code = 0
  /\ stage \in Main \ {"building"} => containers = "up"
  /\ stage \in Cleanup \cup {"exited"} /\ code = 0 =>
       Through /\ workload = "ok" /\ collector = "ok"
  /\ stage \in {"ending", "reaping", "removing"} /\ code = 0 => containers = "up"
  /\ stage \in {"recording", "validating", "reporting", "exited"} /\ code = 0 =>
       containers = "removed"

\* What is on file is true, and stays so.
EvidenceInv ==
  /\ stage \in Main \cup {"ending", "reaping", "removing", "recording"} => recorded = -1
  /\ stage \in Main \cup (Cleanup \ {"reporting"}) => verdict = "none"
  /\ recorded = 0 =>
       Through /\ workload = "ok" /\ collector = "ok" /\ containers = "removed"
  /\ verdict = "eligible" => recorded = 0
  /\ stage \in {"reporting", "exited"} /\ code = 0 => verdict = "eligible"

-----------------------------------------------------------------------------
(* The phases *)

\* A run has four phases, or six.
LEMMA NeededLength ==
  /\ scenario = "idle" => Len(Needed) = 4
  /\ scenario = "load" => Len(Needed) = 6
BY DEF Needed

\* The numbers of phases at which a stage is entered are among the possible ones.
LEMMA PhaseCounts ==
  /\ scenario = "idle" => /\ Len(Needed) = 4
                          /\ 0 \in 0 .. Len(Needed) /\ 3 \in 0 .. Len(Needed)
                          /\ 4 \in 0 .. Len(Needed)
  /\ scenario = "load" => /\ Len(Needed) = 6
                          /\ 0 \in 0 .. Len(Needed) /\ 5 \in 0 .. Len(Needed)
                          /\ 6 \in 0 .. Len(Needed)
<1>1. 0 \in 0 .. 4 /\ 3 \in 0 .. 4 /\ 4 \in 0 .. 4
  OBVIOUS
<1>2. 0 \in 0 .. 6 /\ 5 \in 0 .. 6 /\ 6 \in 0 .. 6
  OBVIOUS
<1> QED
  BY <1>1, <1>2, NeededLength, Zenon

\* All of them are phases.
LEMMA NeededType ==
  ASSUME scenario \in {"idle", "load"}
  PROVE  Needed \in Seq(PhaseNames)
<1>1. CASE scenario = "idle"
  BY <1>1 DEF Needed, PhaseNames
<1>2. CASE scenario = "load"
  BY <1>2 DEF Needed, PhaseNames
<1> QED BY <1>1, <1>2

\* The phases of an idle run.
LEMMA NeededIdle ==
  ASSUME scenario = "idle"
  PROVE  /\ Needed[1] = "startup" /\ Needed[2] = "preparation"
         /\ Needed[3] = "idle" /\ Needed[4] = "finished"
BY DEF Needed

\* The phases of a run with load.
LEMMA NeededLoad ==
  ASSUME scenario = "load"
  PROVE  /\ Needed[1] = "startup" /\ Needed[2] = "preparation"
         /\ Needed[3] = "load" /\ Needed[4] = "drain"
         /\ Needed[5] = "post-load-idle" /\ Needed[6] = "finished"
BY DEF Needed

\* The next phase is appended.
LEMMA UptoAppend ==
  ASSUME NEW n \in Nat, Upto(n), NEW name \in PhaseNames,
         name = Needed[n + 1], SetPhase(name), scenario' = scenario
  PROVE  Upto(n + 1)'
<1>1. Needed' = Needed
  BY DEF Needed
<1>2. phases' \in Seq(PhaseNames) /\ Len(phases') = n + 1
  BY DEF Upto, SetPhase
<1>3. ASSUME NEW i \in 1 .. n + 1
      PROVE  phases'[i] = Needed[i]
  BY DEF Upto, SetPhase
<1> QED
  BY <1>1, <1>2, <1>3 DEF Upto

\* A step that enters no phase.
LEMMA UptoKept ==
  ASSUME NEW n, Upto(n), phases' = phases, scenario' = scenario
  PROVE  Upto(n)'
BY DEF Upto, Needed

\* The drain phase is the fourth of a load scenario.
LEMMA DrainEntered ==
  ASSUME scenario = "load"
  PROVE  /\ Upto(3) => ~LoadFinished
         /\ Upto(4) => LoadFinished
<1>1. ASSUME Upto(3) PROVE ~LoadFinished
  BY <1>1, NeededLoad DEF Upto, LoadFinished, ToSet
<1>2. ASSUME Upto(4) PROVE LoadFinished
  <2>1. 4 \in DOMAIN phases /\ phases[4] = "drain"
    BY <1>2, NeededLoad DEF Upto
  <2> QED BY <2>1 DEF LoadFinished, ToSet
<1> QED BY <1>1, <1>2

\* The script begins with no phase entered.
LEMMA PhaseInvInit == Init => PhaseInv
<1> SUFFICES ASSUME Init PROVE PhaseInv
  OBVIOUS
<1>1. Upto(0)
  BY DEF Init, Upto
<1>2. scenario \in {"idle", "load"}
  BY DEF Init
<1>3. 0 \in 0 .. Len(Needed)
  BY <1>2, PhaseCounts, Zenon
<1> QED
  BY <1>1, <1>3 DEF Init, PhaseInv, Main

\* A step that leaves scenario and phases alone keeps the number of phases; the
\* script goes on only to a stage with the same number, or stops.
LEMMA PhaseInvStop ==
  ASSUME PhaseInv, UNCHANGED <<scenario, phases>>,
         stage' \in {stage} \cup Cleanup \cup Over
  PROVE  PhaseInv'
<1>1. \E n \in 0 .. Len(Needed) : Upto(n)'
  BY UptoKept DEF PhaseInv
<1>2. Needed' = Needed
  BY DEF Needed
<1>3. stage' \in Main \cup Cleanup \cup Over
  BY DEF PhaseInv
<1>4. CASE stage' = stage
  <2> \A n : Upto(n) => Upto(n)'
    BY UptoKept
  <2> QED
    BY <1>1, <1>2, <1>3, <1>4 DEF PhaseInv, Through
<1>5. CASE stage' \in Cleanup \cup Over
  BY <1>1, <1>2, <1>3, <1>5 DEF PhaseInv, Cleanup, Over
<1> QED
  BY <1>4, <1>5

\* Each stage is entered with the phases before it.
LEMMA PhaseInvStep == PhaseInv /\ [Next]_vars => PhaseInv'
<1> SUFFICES ASSUME PhaseInv, [Next]_vars PROVE PhaseInv'
  OBVIOUS
<1>0. /\ scenario \in {"idle", "load"} /\ Len(Needed) \in {4, 6}
      /\ scenario = "load" => Len(Needed) = 6
  BY NeededLength DEF PhaseInv
\* What remains to be shown of a step to the stage next, by the number of phases.
<1>1. ASSUME scenario' = scenario, NEW n \in 0 .. Len(Needed), Upto(n)',
             \/ stage' = "starting" /\ n = 0
             \/ stage' \in {"launching", "waiting"} /\ n = 1
             \/ stage' = "preparing" /\ n = 2
             \/ stage' = "loading" /\ (n = 3 \/ (scenario = "load" /\ n = 4))
             \/ stage' = "draining" /\ scenario = "load" /\ n = 4
             \/ stage' = "idling" /\ scenario = "load" /\ n = 5
             \/ stage' \in {"collecting", "stopping"} /\ n = (IF scenario = "idle" THEN 3 ELSE 5)
             \/ stage' = "finished" /\ n = Len(Needed)
      PROVE  PhaseInv'
  <2>1. Needed' = Needed
    BY <1>1 DEF Needed
  <2> QED
    BY <1>0, <1>1, <2>1 DEF PhaseInv, Through, Main
<1>2. CASE StartDependencies
  <2>1. Upto(0)'
    BY <1>2, UptoKept DEF StartDependencies, PhaseInv
  <2>2. scenario' = scenario /\ stage' = "starting"
    BY <1>2 DEF StartDependencies, Goto
  <2> QED BY <1>0, <1>1, <2>1, <2>2
<1>3. CASE DependenciesReady
  <2>1. Upto(1)'
    BY <1>3, <1>0, UptoAppend, NeededIdle, NeededLoad
    DEF DependenciesReady, PhaseInv, PhaseNames
  <2>2. scenario' = scenario /\ stage' = "launching"
    BY <1>3 DEF DependenciesReady, Goto
  <2> QED BY <1>0, <1>1, <2>1, <2>2
<1>4. CASE StartCollector
  <2>1. Upto(1)'
    BY <1>4, UptoKept DEF StartCollector, PhaseInv
  <2>2. scenario' = scenario /\ stage' = "waiting"
    BY <1>4 DEF StartCollector, Goto
  <2> QED BY <1>0, <1>1, <2>1, <2>2
<1>5. CASE Ready
  <2>1. Upto(2)'
    BY <1>5, <1>0, UptoAppend, NeededIdle, NeededLoad DEF Ready, PhaseInv, PhaseNames
  <2>2. scenario' = scenario /\ stage' = "preparing"
    BY <1>5 DEF Ready, Goto
  <2> QED BY <1>0, <1>1, <2>1, <2>2
<1>6. CASE StartWorkload
  <2>1. Upto(3)'
    BY <1>6, <1>0, UptoAppend, NeededIdle, NeededLoad DEF StartWorkload, PhaseInv, PhaseNames
  <2>2. scenario' = scenario /\ stage' = "loading"
    BY <1>6 DEF StartWorkload, Goto
  <2> QED BY <1>0, <1>1, <2>1, <2>2
<1>7. CASE DeadlinePasses
  <2>1. scenario = "load" /\ Upto(3)
    BY <1>7, <1>0, DrainEntered DEF DeadlinePasses, PhaseInv
  <2>2. Upto(4)'
    BY <1>7, <2>1, UptoAppend, NeededLoad DEF DeadlinePasses, PhaseNames
  <2>3. scenario' = scenario /\ stage' = "loading"
    BY <1>7 DEF DeadlinePasses
  <2> QED BY <1>0, <1>1, <2>1, <2>2, <2>3
<1>8. CASE WorkloadOver
  <2>1. CASE scenario = "idle"
    <3>1. Upto(3)'
      BY <1>8, <2>1, UptoKept DEF WorkloadOver, PhaseInv
    <3>2. scenario' = scenario /\ stage' = "collecting"
      BY <1>8, <2>1 DEF WorkloadOver, Goto
    <3> QED BY <1>0, <1>1, <2>1, <3>1, <3>2
  <2>2. CASE scenario = "load"
    <3>0. scenario' = scenario /\ stage' = "draining"
      BY <1>8, <2>2 DEF WorkloadOver, Goto
    <3>1. CASE Upto(3)
      <4>1. SetPhase("drain")
        BY <1>8, <2>2, <3>1, DrainEntered DEF WorkloadOver
      <4>2. Upto(4)'
        BY <1>8, <2>2, <3>1, <4>1, UptoAppend, NeededLoad DEF WorkloadOver, PhaseNames
      <4> QED BY <1>0, <1>1, <2>2, <3>0, <4>2
    <3>2. CASE Upto(4)
      <4>1. Upto(4)'
        BY <1>8, <2>2, <3>2, DrainEntered, UptoKept DEF WorkloadOver
      <4> QED BY <1>0, <1>1, <2>2, <3>0, <4>1
    <3> QED BY <1>8, <3>1, <3>2 DEF WorkloadOver, PhaseInv
  <2> QED BY <1>0, <2>1, <2>2
<1>9. CASE Drained
  <2>1. Upto(5)' /\ scenario = "load"
    BY <1>9, <1>0, UptoAppend, NeededLoad DEF Drained, PhaseInv, PhaseNames
  <2>2. scenario' = scenario /\ stage' = "idling"
    BY <1>9 DEF Drained, Goto
  <2>3. scenario = "load"
    BY <2>1
  <2>4. 5 \in 0 .. Len(Needed)
    BY <2>3, PhaseCounts, Zenon
  <2> QED BY <1>1, <2>1, <2>2, <2>4
<1>10. CASE IdleOver
  <2>1. Upto(5)' /\ scenario = "load"
    BY <1>10, UptoKept DEF IdleOver, PhaseInv
  <2>2. scenario' = scenario /\ stage' = "collecting"
    BY <1>10 DEF IdleOver, Goto
  <2>3. scenario = "load"
    BY <2>1
  <2>4. 5 \in 0 .. Len(Needed)
    BY <2>3, PhaseCounts, Zenon
  <2> QED BY <1>0, <1>1, <2>1, <2>2, <2>4
<1>11. CASE StopCollector
  <2>1. scenario' = scenario /\ stage' = "stopping"
    BY <1>11 DEF StopCollector, Goto
  <2>2. CASE scenario = "idle"
    <3>1. 3 \in 0 .. Len(Needed)
      BY <2>2, PhaseCounts, Zenon
    <3>2. Upto(3)'
      BY <1>11, <2>2, UptoKept DEF StopCollector, PhaseInv
    <3> QED BY <1>1, <2>1, <2>2, <3>1, <3>2
  <2>3. CASE scenario = "load"
    <3>1. 5 \in 0 .. Len(Needed)
      BY <2>3, PhaseCounts, Zenon
    <3>2. Upto(5)'
      BY <1>11, <2>3, UptoKept DEF StopCollector, PhaseInv
    <3> QED BY <1>1, <2>1, <2>3, <3>1, <3>2
  <2> QED BY <1>0, <2>2, <2>3
<1>12. CASE CollectorStopped
  <2>1. CASE collector = "ok"
    <3>1. CASE scenario = "idle"
      <4>1. Upto(4)'
        BY <1>12, <2>1, <3>1, UptoAppend, NeededIdle
        DEF CollectorStopped, PhaseInv, PhaseNames
      <4>2. scenario' = scenario /\ stage' = "finished"
        BY <1>12, <2>1 DEF CollectorStopped, Goto
      <4>3. Len(Needed) = 4 /\ 4 \in 0 .. Len(Needed)
        BY <3>1, PhaseCounts, Zenon
      <4> QED BY <1>1, <4>1, <4>2, <4>3
    <3>2. CASE scenario = "load"
      <4>1. Upto(6)'
        BY <1>12, <2>1, <3>2, UptoAppend, NeededLoad
        DEF CollectorStopped, PhaseInv, PhaseNames
      <4>2. scenario' = scenario /\ stage' = "finished"
        BY <1>12, <2>1 DEF CollectorStopped, Goto
      <4>3. Len(Needed) = 6 /\ 6 \in 0 .. Len(Needed)
        BY <3>2, PhaseCounts, Zenon
      <4> QED BY <1>1, <4>1, <4>2, <4>3
    <3> QED BY <1>0, <3>1, <3>2
  <2>2. CASE collector # "ok"
    BY <1>12, <2>2, PhaseInvStop DEF CollectorStopped, ExitWith, Cleanup
  <2> QED BY <2>1, <2>2
<1>13. CASE Finish \/ CommandFails
  BY <1>13, PhaseInvStop DEF Finish, CommandFails, ExitWith, Cleanup
<1>14. CASE EndWorkload \/ Reaped \/ RemoveContainers \/ Record \/ Validate \/ Report
  BY <1>14, PhaseInvStop
  DEF EndWorkload, Reaped, RemoveContainers, Record, Validate, Report, Goto, Cleanup, Over
<1>15. CASE WorkloadEnds \/ Measure \/ File \/ CollectorFails
  BY <1>15, PhaseInvStop DEF WorkloadEnds, Measure, File, CollectorFails
<1>16. CASE Interrupt(130) \/ Interrupt(143) \/ Kill
  BY <1>16, PhaseInvStop DEF Interrupt, Kill, ExitWith, Cleanup, Over
<1>17. CASE UNCHANGED vars
  BY <1>17, PhaseInvStop DEF vars
<1> QED
  BY <1>2, <1>3, <1>4, <1>5, <1>6, <1>7, <1>8, <1>9, <1>10, <1>11, <1>12, <1>13,
     <1>14, <1>15, <1>16, <1>17 DEF Next, Script
-----------------------------------------------------------------------------
(* Types *)

\* The phase a sample is measured in or filed under is one that was entered.
LEMMA LastPhase ==
  ASSUME phases \in Seq(PhaseNames), Len(phases) > 0
  PROVE  Last(phases) \in PhaseNames
BY DEF Last

\* No phase is taken back.
LEMMA LengthKept ==
  ASSUME phases \in Seq(PhaseNames), Len(phases) > 0,
         phases' = phases \/ \E name \in PhaseNames : SetPhase(name)
  PROVE  Len(phases') > 0
BY DEF SetPhase

\* What the script and its environment write.
CodesType == code \in 0 .. 255 /\ recorded \in -1 .. 255 /\ signals \in 0 .. MaxSignals

PartsType ==
  /\ workload \in {"none", "up", "ok", "bad"}
  /\ collector \in {"none", "up", "asked", "final", "ok", "bad"}
  /\ containers \in {"none", "up", "removed"}
  /\ verdict \in {"none", "eligible", "rejected"}

SamplesType ==
  /\ reading \in {"none"} \cup PhaseNames
  /\ samples \subseteq PhaseNames \X PhaseNames

\* Types at the beginning.
LEMMA TypesInit == Init => CodesType /\ PartsType /\ SamplesType /\ CollectorInv
BY SignalsAssumption DEF Init, CodesType, PartsType, SamplesType, CollectorInv

\* Exit codes and signals keep their types.
LEMMA CodesStep == CodesType /\ [Next]_vars => CodesType'
<1> SUFFICES ASSUME CodesType, [Next]_vars PROVE CodesType'
  OBVIOUS
<1> USE DEF CodesType
<1>1. CASE UNCHANGED <<code, recorded, signals>>
  BY <1>1
<1>2. CASE CollectorStopped
  BY <1>2 DEF CollectorStopped, Goto, ExitWith, evidence
<1>3. CASE Finish \/ CommandFails
  BY <1>3 DEF Finish, CommandFails, ExitWith, evidence
<1>4. CASE RemoveContainers
  BY <1>4 DEF RemoveContainers, Unless0, evidence
<1>5. CASE Record
  BY <1>5 DEF Record, Goto
<1>6. CASE Validate
  BY <1>6 DEF Validate, Unless0
<1>7. CASE Report
  BY <1>7 DEF Report, Unless0, evidence
<1>8. ASSUME NEW c \in 0 .. 255, Interrupt(c) PROVE CodesType'
  <2>1. signals' \in 0 .. MaxSignals
    BY <1>8, SignalsAssumption DEF Interrupt
  <2>2. code' \in 0 .. 255
    BY <1>8 DEF Interrupt, ExitWith
  <2> QED
    BY <1>8, <2>1, <2>2 DEF Interrupt, evidence
<1>9. CASE Interrupt(130) \/ Interrupt(143)
  <2>1. 130 \in 0 .. 255 /\ 143 \in 0 .. 255
    OBVIOUS
  <2> QED BY <1>8, <1>9, <2>1, Zenon
<1>10. CASE StartDependencies \/ DependenciesReady \/ StartCollector \/ Ready \/ StartWorkload
  BY <1>1, <1>10
  DEF StartDependencies, DependenciesReady, StartCollector, Ready, StartWorkload, Goto, evidence
<1>11. CASE DeadlinePasses \/ WorkloadOver \/ Drained \/ IdleOver \/ StopCollector
  BY <1>1, <1>11
  DEF DeadlinePasses, WorkloadOver, Drained, IdleOver, StopCollector, Goto, evidence
<1>12. CASE EndWorkload \/ Reaped
  BY <1>1, <1>12 DEF EndWorkload, Reaped, Goto, evidence
<1>13. CASE WorkloadEnds \/ Measure \/ File \/ CollectorFails \/ Kill \/ UNCHANGED vars
  BY <1>1, <1>13 DEF WorkloadEnds, Measure, File, CollectorFails, Kill, evidence, vars
<1> QED
  BY <1>2, <1>3, <1>4, <1>5, <1>6, <1>7, <1>9, <1>10, <1>11, <1>12, <1>13 DEF Next, Script

\* The children, the containers and the verdict keep their types.
LEMMA PartsStep == PartsType /\ [Next]_vars => PartsType'
<1> SUFFICES ASSUME PartsType, [Next]_vars PROVE PartsType'
  OBVIOUS
<1> USE DEF PartsType
<1>1. CASE UNCHANGED <<workload, collector, containers, verdict>>
  BY <1>1
<1>2. CASE StartDependencies \/ StartCollector \/ StartWorkload \/ StopCollector
  BY <1>2 DEF StartDependencies, StartCollector, StartWorkload, StopCollector, children, evidence
<1>3. CASE EndWorkload \/ RemoveContainers
  BY <1>3 DEF EndWorkload, RemoveContainers, children, evidence
<1>4. CASE Validate
  BY <1>4 DEF Validate, children
<1>5. CASE WorkloadEnds \/ CollectorFails
  BY <1>5 DEF WorkloadEnds, CollectorFails, evidence
<1>6. CASE Measure \/ File
  BY <1>6 DEF Measure, File, evidence
<1> QED
  BY <1>1, <1>2, <1>3, <1>4, <1>5, <1>6
  DEF Next, Script, DependenciesReady, Ready, DeadlinePasses, WorkloadOver, Drained, IdleOver,
      CollectorStopped, Finish, CommandFails, Reaped, Record, Report, Interrupt, Kill,
      children, evidence, vars

\* A collector reads a phase that was entered.
LEMMA CollectorStep ==
  ASSUME PhaseInv, PhaseInv', SamplesType, CollectorInv, [Next]_vars
  PROVE  SamplesType' /\ CollectorInv'
<1>1. phases \in Seq(PhaseNames) /\ phases' \in Seq(PhaseNames)
  BY DEF PhaseInv, Upto
<1>2. Len(phases) > 0 => Last(phases) \in PhaseNames
  BY <1>1, LastPhase
\* A step that leaves the collector alone.
<1>3. ASSUME UNCHANGED <<collector, sampling>>, Len(phases) > 0 => Len(phases') > 0,
             stage' \in {"building", "starting", "launching"} =>
               stage \in {"building", "starting", "launching"}
      PROVE  SamplesType' /\ CollectorInv'
  BY <1>3 DEF SamplesType, CollectorInv, sampling
<1>4. CASE StartDependencies
  BY <1>3, <1>4 DEF StartDependencies, Goto, children
<1>5. CASE DependenciesReady \/ Ready \/ StartWorkload
  <2>1. Len(phases) > 0 => Len(phases') > 0
    BY <1>1, <1>5, LengthKept DEF DependenciesReady, Ready, StartWorkload, PhaseNames, PhaseInv
  <2> QED
    BY <1>3, <1>5, <2>1 DEF DependenciesReady, Ready, StartWorkload, Goto, children
<1>6. CASE StartCollector
  <2>1. Len(phases') > 0
    BY <1>6 DEF StartCollector, PhaseInv, Upto
  <2>2. reading = "none"
    BY <1>6 DEF StartCollector, CollectorInv, Sampling
  <2> QED
    BY <1>6, <2>1, <2>2 DEF StartCollector, Goto, sampling, SamplesType, CollectorInv
<1>7. CASE DeadlinePasses \/ WorkloadOver \/ Drained \/ IdleOver
  <2>1. Len(phases) > 0 => Len(phases') > 0
    BY <1>1, <1>7, LengthKept DEF DeadlinePasses, WorkloadOver, Drained, IdleOver, PhaseNames
  <2> QED
    BY <1>3, <1>7, <2>1 DEF DeadlinePasses, WorkloadOver, Drained, IdleOver, Goto, children
<1>8. CASE StopCollector
  BY <1>8 DEF StopCollector, Goto, sampling, SamplesType, CollectorInv, Sampling
<1>9. CASE CollectorStopped
  <2>1. Len(phases) > 0 => Len(phases') > 0
    BY <1>1, <1>9, LengthKept DEF CollectorStopped, PhaseNames
  <2> QED
    BY <1>3, <1>9, <2>1 DEF CollectorStopped, Goto, ExitWith, children
<1>10. CASE Finish \/ CommandFails
  BY <1>3, <1>10 DEF Finish, CommandFails, ExitWith, children
<1>11. CASE EndWorkload
  BY <1>11 DEF EndWorkload, Goto, sampling, SamplesType, CollectorInv, Sampling
<1>12. CASE Reaped \/ RemoveContainers \/ Record \/ Validate \/ Report
  BY <1>3, <1>12 DEF Reaped, RemoveContainers, Record, Validate, Report, Goto, children
<1>13. CASE WorkloadEnds
  BY <1>3, <1>13 DEF WorkloadEnds
<1>14. CASE Measure
  BY <1>2, <1>14 DEF Measure, SamplesType, CollectorInv, Sampling
<1>15. CASE File
  BY <1>2, <1>15 DEF File, SamplesType, CollectorInv, Sampling
<1>16. CASE CollectorFails
  BY <1>16 DEF CollectorFails, SamplesType, CollectorInv, Sampling
<1>17. CASE Interrupt(130) \/ Interrupt(143) \/ Kill
  BY <1>3, <1>17 DEF Interrupt, Kill, ExitWith, children
<1>18. CASE UNCHANGED vars
  BY <1>3, <1>18 DEF vars, children
<1> QED
  BY <1>4, <1>5, <1>6, <1>7, <1>8, <1>9, <1>10, <1>11, <1>12, <1>13, <1>14, <1>15, <1>16,
     <1>17, <1>18 DEF Next, Script

-----------------------------------------------------------------------------
(* The children, the exit code and the evidence *)

\* At the beginning nothing runs and nothing is on file.
LEMMA OutcomeInit == Init => ChildrenInv /\ CodeInv /\ EvidenceInv
BY DEF Init, ChildrenInv, CodeInv, EvidenceInv, Main, Cleanup, Sampling

\* Cleanup leaves no child behind.
LEMMA ChildrenStep ==
  ASSUME PartsType, ChildrenInv, [Next]_vars
  PROVE  ChildrenInv'
<1> USE DEF PartsType, ChildrenInv, Main, Cleanup
<1>1. CASE StartDependencies \/ DependenciesReady \/ StartCollector \/ Ready \/ StartWorkload
  BY <1>1 DEF StartDependencies, DependenciesReady, StartCollector, Ready, StartWorkload, Goto
<1>2. CASE DeadlinePasses \/ WorkloadOver \/ Drained \/ IdleOver \/ StopCollector
  BY <1>2 DEF DeadlinePasses, WorkloadOver, Drained, IdleOver, StopCollector, Goto, children
<1>3. CASE CollectorStopped \/ Finish \/ CommandFails
  BY <1>3 DEF CollectorStopped, Finish, CommandFails, Goto, ExitWith, children
<1>4. CASE EndWorkload
  BY <1>4 DEF EndWorkload, Goto
<1>5. CASE Reaped \/ RemoveContainers \/ Record \/ Validate \/ Report
  BY <1>5 DEF Reaped, RemoveContainers, Record, Validate, Report, Goto, children
<1>6. CASE WorkloadEnds
  BY <1>6 DEF WorkloadEnds
<1>7. CASE Measure
  BY <1>7 DEF Measure, Sampling
<1>8. CASE File
  BY <1>8 DEF File, Sampling
<1>9. CASE CollectorFails
  BY <1>9 DEF CollectorFails, Sampling
<1>10. CASE Interrupt(130) \/ Interrupt(143) \/ Kill
  BY <1>10 DEF Interrupt, Kill, ExitWith, children
<1>11. CASE UNCHANGED vars
  BY <1>11 DEF vars, children
<1> QED
  BY <1>1, <1>2, <1>3, <1>4, <1>5, <1>6, <1>7, <1>8, <1>9, <1>10, <1>11 DEF Next, Script

\* All phases stay entered.
LEMMA ThroughKept ==
  ASSUME Through, phases' = phases, scenario' = scenario
  PROVE  Through'
BY DEF Through, Upto, Needed

\* An exit code of 0 survives only what succeeds.
LEMMA CodeStep ==
  ASSUME CodesType, PartsType, PhaseInv, ChildrenInv, CodeInv, [Next]_vars
  PROVE  CodeInv'
<1> USE DEF CodeInv, Main, Cleanup
\* The script stops with a failure.
<1>1. ASSUME NEW c \in {1, 99, 130, 143}, stage \in Main, code' = c, stage' = "ending"
      PROVE  CodeInv'
  BY <1>1
<1>2. CASE StartDependencies \/ DependenciesReady \/ StartCollector \/ Ready \/ StartWorkload
  BY <1>2 DEF StartDependencies, DependenciesReady, StartCollector, Ready, StartWorkload, Goto
<1>3. CASE DeadlinePasses \/ WorkloadOver \/ Drained \/ IdleOver \/ StopCollector
  BY <1>3 DEF DeadlinePasses, WorkloadOver, Drained, IdleOver, StopCollector, Goto
<1>4. CASE CollectorStopped
  BY <1>1, <1>4 DEF CollectorStopped, Goto, ExitWith
<1>5. CASE Finish
  <2>1. CASE workload = "ok"
    <3>1. Through'
      BY <1>5, ThroughKept DEF Finish, PhaseInv
    <3>2. collector' = "ok" /\ workload' = "ok" /\ containers' = "up"
      BY <1>5, <2>1 DEF Finish, ChildrenInv, children
    <3> QED
      BY <1>5, <2>1, <3>1, <3>2 DEF Finish, ExitWith
  <2>2. CASE workload # "ok"
    BY <1>1, <1>5, <2>2 DEF Finish, ExitWith
  <2> QED BY <2>1, <2>2
<1>6. CASE CommandFails
  BY <1>1, <1>6 DEF CommandFails, ExitWith
<1>7. CASE EndWorkload
  <2>1. code = 0 => Through'
    BY <1>7, ThroughKept DEF EndWorkload
  <2> QED BY <1>7, <2>1 DEF EndWorkload, Goto
<1>8. CASE Reaped
  <2>1. code = 0 => Through'
    BY <1>8, ThroughKept DEF Reaped
  <2> QED BY <1>8, <2>1 DEF Reaped, Goto, children
<1>9. CASE RemoveContainers
  <2>1. code' = 0 => code = 0 /\ containers' = "removed"
    BY <1>9 DEF RemoveContainers, Unless0
  <2>2. code = 0 => Through'
    BY <1>9, ThroughKept DEF RemoveContainers
  <2> QED BY <1>9, <2>1, <2>2 DEF RemoveContainers, children
<1>10. CASE Record \/ Validate \/ Report
  <2>1. code' = 0 => code = 0
    BY <1>10 DEF Record, Validate, Report, Goto, Unless0
  <2>2. code = 0 => Through'
    BY <1>10, ThroughKept DEF Record, Validate, Report
  <2> QED BY <1>10, <2>1, <2>2 DEF Record, Validate, Report, Goto, children
<1>11. ASSUME UNCHANGED <<scenario, stage, code, phases, containers>>,
              workload = "ok" => workload' = "ok", collector = "ok" => collector' = "ok"
       PROVE  CodeInv'
  <2>1. Through => Through'
    BY <1>11, ThroughKept
  <2> QED BY <1>11, <2>1
<1>12. CASE WorkloadEnds \/ Measure \/ File \/ CollectorFails
  BY <1>11, <1>12 DEF WorkloadEnds, Measure, File, CollectorFails, Sampling
<1>13. CASE Interrupt(130) \/ Interrupt(143)
  BY <1>1, <1>13 DEF Interrupt, ExitWith
<1>14. CASE Kill
  BY <1>14 DEF Kill
<1>15. CASE UNCHANGED vars
  BY <1>11, <1>15 DEF vars, children
<1> QED
  BY <1>2, <1>3, <1>4, <1>5, <1>6, <1>7, <1>8, <1>9, <1>10, <1>12, <1>13, <1>14, <1>15
  DEF Next, Script

\* The exit code and the verdict are recorded of what has come to its end.
LEMMA EvidenceStep ==
  ASSUME CodesType, PartsType, PhaseInv, CodeInv, EvidenceInv, [Next]_vars
  PROVE  EvidenceInv'
<1> USE DEF EvidenceInv, Main, Cleanup
<1>1. ASSUME stage \in Main, UNCHANGED evidence, stage' \in Main \cup {"ending"}
      PROVE  EvidenceInv'
  BY <1>1 DEF evidence
<1>2. CASE StartDependencies \/ DependenciesReady \/ StartCollector \/ Ready \/ StartWorkload
  BY <1>1, <1>2
  DEF StartDependencies, DependenciesReady, StartCollector, Ready, StartWorkload, Goto
<1>3. CASE DeadlinePasses \/ WorkloadOver \/ Drained \/ IdleOver \/ StopCollector
  BY <1>1, <1>3 DEF DeadlinePasses, WorkloadOver, Drained, IdleOver, StopCollector, Goto
<1>4. CASE CollectorStopped \/ Finish \/ CommandFails
  BY <1>1, <1>4 DEF CollectorStopped, Finish, CommandFails, Goto, ExitWith
<1>5. CASE EndWorkload \/ Reaped \/ RemoveContainers
  BY <1>5 DEF EndWorkload, Reaped, RemoveContainers, Goto, evidence
<1>6. CASE Record
  <2>1. code = 0 => Through'
    BY <1>6, ThroughKept DEF Record, CodeInv
  <2>2. recorded' = 0 => code = 0
    BY <1>6 DEF Record
  <2> QED
    BY <1>6, <2>1, <2>2 DEF Record, Goto, CodeInv, children
<1>7. CASE Validate
  <2>1. Through => Through'
    BY <1>7, ThroughKept DEF Validate
  <2>2. verdict' = "eligible" => recorded = 0
    BY <1>7 DEF Validate, Admissible
  <2>3. code' = 0 => verdict' = "eligible"
    BY <1>7 DEF Validate, Unless0
  <2> QED
    BY <1>7, <2>1, <2>2, <2>3 DEF Validate, children
<1>8. ASSUME UNCHANGED <<scenario, phases, containers, evidence>>,
             workload = "ok" => workload' = "ok", collector = "ok" => collector' = "ok",
             \/ UNCHANGED <<stage, code>>
             \/ stage = "reporting" /\ stage' = "exited" /\ (code' = 0 => code = 0)
             \/ stage' = "killed"
      PROVE  EvidenceInv'
  <2>1. Through => Through'
    BY <1>8, ThroughKept
  <2> QED BY <1>8, <2>1 DEF evidence
<1>9. CASE Report
  BY <1>8, <1>9 DEF Report, Unless0, children
<1>10. CASE WorkloadEnds \/ Measure \/ File \/ CollectorFails
  BY <1>8, <1>10 DEF WorkloadEnds, Measure, File, CollectorFails, Sampling
<1>11. ASSUME NEW c, Interrupt(c) PROVE EvidenceInv'
  BY <1>1, <1>8, <1>11 DEF Interrupt, ExitWith, children
<1>12. CASE Kill
  BY <1>8, <1>12 DEF Kill, children
<1>13. CASE UNCHANGED vars
  BY <1>8, <1>13 DEF vars, children
<1> QED
  BY <1>2, <1>3, <1>4, <1>5, <1>6, <1>7, <1>9, <1>10, <1>11, <1>12, <1>13 DEF Next, Script

-----------------------------------------------------------------------------
(* The invariant and what follows from it *)

RunInv ==
  /\ PhaseInv
  /\ CodesType /\ PartsType /\ SamplesType
  /\ CollectorInv
  /\ ChildrenInv
  /\ CodeInv
  /\ EvidenceInv

\* The invariant of a run holds whatever fails, ends or interrupts it.
THEOREM RunInvariant == Spec => []RunInv
<1>1. Init => RunInv
  BY PhaseInvInit, TypesInit, OutcomeInit DEF RunInv
<1>2. RunInv /\ [Next]_vars => RunInv'
  <2> SUFFICES ASSUME RunInv, [Next]_vars PROVE RunInv'
    OBVIOUS
  <2>1. PhaseInv'
    BY PhaseInvStep DEF RunInv
  <2>2. CodesType' /\ PartsType'
    BY CodesStep, PartsStep DEF RunInv
  <2>3. SamplesType' /\ CollectorInv'
    BY <2>1, CollectorStep DEF RunInv
  <2>4. ChildrenInv' /\ CodeInv' /\ EvidenceInv'
    BY ChildrenStep, CodeStep, EvidenceStep DEF RunInv
  <2> QED
    BY <2>1, <2>2, <2>3, <2>4 DEF RunInv
<1> QED
  BY <1>1, <1>2, PTL DEF Spec

\* The first phases are a prefix.
LEMMA UptoIsPrefix ==
  ASSUME NEW n \in 0 .. Len(Needed), Upto(n), scenario \in {"idle", "load"}
  PROVE  IsPrefix(phases, Needed)
<1>1. Needed \in Seq(PhaseNames)
  BY NeededType
<1>2. Len(phases) = n /\ n \in Nat /\ n <= Len(Needed) /\ phases \in Seq(PhaseNames)
  BY <1>1 DEF Upto
<1>3. \A i \in 1 .. n : phases[i] = Needed[i]
  BY DEF Upto
<1>4. SubSeq(phases, 1, n) = SubSeq(Needed, 1, n)
  BY <1>1, <1>2, <1>3
<1> QED
  BY <1>2, <1>4 DEF IsPrefix

\* All phases entered are all phases needed.
LEMMA ThroughIsNeeded ==
  ASSUME Through, scenario \in {"idle", "load"}
  PROVE  phases = Needed
<1>1. Needed \in Seq(PhaseNames)
  BY NeededType
<1> QED
  BY <1>1 DEF Through, Upto

\* PhasesInOrder: whatever fails, the phases on file are the first ones of those that
\* the scenario needs, each once and none skipped.
THEOREM PhasesNeverSkipped == Spec => []PhasesInOrder
<1>1. PhaseInv => PhasesInOrder
  BY UptoIsPrefix DEF PhaseInv, PhasesInOrder
<1> QED
  BY <1>1, RunInvariant, PTL DEF RunInv

\* EligibleRun: a run is admitted only if it is complete in every part, for any
\* number of signals.
THEOREM EligibleMeansComplete == Spec => []EligibleRun
<1>1. PhaseInv /\ EvidenceInv => EligibleRun
  BY ThroughIsNeeded DEF PhaseInv, EvidenceInv, EligibleRun
<1> QED
  BY <1>1, RunInvariant, PTL DEF RunInv

\* ExitTells: the exit code of the script can be relied upon.
THEOREM ExitCodeTells == Spec => []ExitTells
<1>1. ChildrenInv /\ CodeInv /\ EvidenceInv => ExitTells
  BY DEF ChildrenInv, CodeInv, EvidenceInv, ExitTells, Cleanup
<1> QED
  BY <1>1, RunInvariant, PTL DEF RunInv

\* FirstCodeKept: no step of the script or of its cleanup replaces the code of the
\* first failure.
THEOREM CodeIsKept == Spec => FirstCodeKept
<1>1. CodeInv /\ [Next]_vars => [code # 0 => code' = code]_vars
  <2> SUFFICES ASSUME CodeInv, Next, code # 0 PROVE code' = code
    OBVIOUS
  <2>1. stage \notin Main
    BY DEF CodeInv
  <2> USE <2>1 DEF Main
  <2>2. CASE StartDependencies \/ DependenciesReady \/ StartCollector \/ Ready \/ StartWorkload
    BY <2>2 DEF StartDependencies, DependenciesReady, StartCollector, Ready, StartWorkload
  <2>3. CASE DeadlinePasses \/ WorkloadOver \/ Drained \/ IdleOver \/ StopCollector
    BY <2>3 DEF DeadlinePasses, WorkloadOver, Drained, IdleOver, StopCollector
  <2>4. CASE CollectorStopped \/ Finish \/ CommandFails
    BY <2>4 DEF CollectorStopped, Finish, CommandFails
  <2>5. CASE EndWorkload \/ Reaped \/ Record
    BY <2>5 DEF EndWorkload, Reaped, Record, Goto
  <2>6. CASE RemoveContainers \/ Validate \/ Report
    BY <2>6 DEF RemoveContainers, Validate, Report, Unless0
  <2>7. CASE WorkloadEnds \/ Measure \/ File \/ CollectorFails \/ Kill
    BY <2>7 DEF WorkloadEnds, Measure, File, CollectorFails, Kill
  <2>8. CASE Interrupt(130) \/ Interrupt(143)
    BY <2>8 DEF Interrupt
  <2> QED
    BY <2>2, <2>3, <2>4, <2>5, <2>6, <2>7, <2>8 DEF Next, Script
<1> QED
  BY <1>1, RunInvariant, PTL DEF Spec, RunInv, FirstCodeKept

\* RunTypeOK: every variable of a run keeps its type.
THEOREM RunIsTyped == Spec => []RunTypeOK
<1>1. RunInv => RunTypeOK
  BY DEF RunInv, PhaseInv, Upto, CodesType, PartsType, SamplesType, RunTypeOK
<1> QED
  BY <1>1, RunInvariant, PTL
=============================================================================
