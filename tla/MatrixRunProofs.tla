---------------------------- MODULE MatrixRunProofs ----------------------------
(***************************************************************************)
(* Theorems about MatrixRun for any set of wrappers, any length of the     *)
(* plan and any number of kills, failures and changes.                     *)
(***************************************************************************)
EXTENDS MatrixRun, FiniteSetTheorems, TLAPS

Active(w) == pc[w] # "off" \/ child[w] # 0

\* One wrapper is at work, or its experiment is, or the script that accepts a
\* transition.
LockInv ==
  /\ \A v, w \in Wrappers : Active(v) /\ Active(w) => v = w
  /\ \A w \in Wrappers : pc[w] = "running" => child[w] = at[w]
  /\ \A w \in Wrappers : child[w] # 0 => pc[w] \in {"off", "running"}
  /\ accept # "off" => \A w \in Wrappers : ~Active(w)

\* Between the last look for remains and the end of the experiment there are none.
CleanOf(w) ==
  pc[w] \in {"fingerprint", "images", "ready"} \/ child[w] # 0 => ~strays /\ ~leftover

CleanInv == \A w \in Wrappers : CleanOf(w)

Cleared == {"archived", "checking", "fingerprint", "images", "ready"}
Unjudged == Cleared \cup {"running", "marking"}
OnRun == Unjudged \cup {"judging"}

\* What a wrapper knows of the run it is at, and of those before.
StepsOf(w) ==
  /\ pc[w] \in OnRun => at[w] <= Runs
  /\ pc[w] \in Cleared => result[at[w]] = None
  /\ pc[w] \in Unjudged => marker[at[w]] # 0
  /\ pc[w] \in {"marking", "judging"} /\ code[w] = 0 => Eligible(at[w])
  /\ pc[w] = "judging" => marker[at[w]] = code[w]
  /\ child[w] # 0 => result[child[w]].kind = "partial" /\ marker[child[w]] # 0
  /\ pc[w] # "off" => \A e \in 1 .. Runs : e < at[w] => Verified(e)

StepsInv ==
  /\ \A w \in Wrappers : StepsOf(w)
  /\ ZeroMarkerIsTrue
  /\ CompleteMeansVerified

\* A wrapper begins at the first run of the plan.
RestInv == \A w \in Wrappers : pc[w] = "off" => at[w] = 1

\* The numbers of the attempts.
AttemptsInv ==
  /\ \A e \in 1 .. Runs : result[e].try \in 0 .. tries \ attempts
  /\ \A e \in 1 .. Runs : result[e].try = 0 <=> result[e] = None
  /\ \A e, f \in 1 .. Runs : result[e].try = result[f].try /\ result[e] # None => e = f
  /\ \A n \in 1 .. tries : n \in attempts \/ \E e \in 1 .. Runs : result[e].try = n

\* What a wrapper knows of source and images.
OriginOf(w) ==
  /\ pc[w] \notin {"off", "entered", "idle", "storing"} => stored \in Trees
  /\ pc[w] = "storing" => stored = "torn"
  /\ pc[w] \in {"snapshot", "certify"} => tries = 0
  /\ pc[w] = "certify" => baseline # "none"
  /\ pc[w] \in OnRun \cup {"next"} => prepared
  /\ pc[w] \in {"images", "ready"} => tree = stored
  /\ pc[w] = "ready" => image = baseline

\* Where the results come from.
ComesFrom(e) ==
  /\ result[e].image = baseline
  /\ \/ result[e].tree = stored
     \/ result[e].tree = "original" /\ stored \in transitions

OriginInv ==
  /\ \A w \in Wrappers : OriginOf(w)
  /\ tries > 0 => prepared
  /\ \A e \in 1 .. Runs : result[e] # None => ComesFrom(e)
  /\ accept # "off" => stored = "original" /\ tree = "isolated"
  /\ accept = "archived" => tree \in transitions
  /\ transitions \subseteq {"isolated"}

MatrixInv ==
  /\ MatrixTypeOK
  /\ LockInv
  /\ CleanInv
  /\ StepsInv
  /\ RestInv
  /\ AttemptsInv
  /\ OriginInv
-----------------------------------------------------------------------------
(* Types *)

WrapperType ==
  /\ pc \in [Wrappers -> Places]
  /\ at \in [Wrappers -> 1 .. Runs + 1]
  /\ retry \in [Wrappers -> BOOLEAN]
  /\ code \in [Wrappers -> 0 .. 2]

RunsType ==
  /\ child \in [Wrappers -> 0 .. Runs]
  /\ result \in [1 .. Runs -> Results]
  /\ marker \in [1 .. Runs -> -1 .. 2]
  /\ tries \in Nat /\ attempts \subseteq 1 .. tries

HostType ==
  /\ strays \in BOOLEAN /\ leftover \in BOOLEAN
  /\ tree \in Trees /\ image \in Images
  /\ stored \in Trees \cup {"none", "torn"}
  /\ baseline \in Images \cup {"none"}
  /\ prepared \in BOOLEAN
  /\ prepared => baseline # "none" /\ stored \in Trees
  /\ completed \in BOOLEAN
  /\ accept \in {"off", "checked", "archived"}
  /\ transitions \subseteq Trees

BudgetType ==
  budget \in [kills : 0 .. MaxKills, failures : 0 .. MaxFailures, changes : 0 .. MaxChanges]

\* The parts of MatrixTypeOK.
LEMMA TypeParts == MatrixTypeOK <=> WrapperType /\ RunsType /\ HostType /\ BudgetType
BY DEF MatrixTypeOK, WrapperType, RunsType, HostType, BudgetType

\* The ends and the moves of a wrapper.
LEMMA WrapperMoves ==
  ASSUME WrapperType, NEW w \in Wrappers,
         \/ UNCHANGED wrapper
         \/ Off(w)
         \/ \E place \in Places : Goto(w, place)
         \/ at[w] <= Runs /\ NextRun(w)
         \/ \E place \in Places, c \in 0 .. 2 :
              /\ pc' = [pc EXCEPT ![w] = place]
              /\ code' = [code EXCEPT ![w] = c]
              /\ UNCHANGED <<at, retry>>
  PROVE  WrapperType'
<1>0. Runs \in Nat \ {0}
  BY MatrixAssumption
<1>1. CASE UNCHANGED wrapper
  BY <1>1 DEF WrapperType, wrapper
<1>2. CASE Off(w)
  BY <1>0, <1>2 DEF WrapperType, Off, Places
<1>3. CASE \E place \in Places : Goto(w, place)
  BY <1>3 DEF WrapperType, Goto
<1>4. CASE at[w] <= Runs /\ NextRun(w)
  <2>1. at[w] + 1 \in 1 .. Runs + 1
    BY <1>0, <1>4 DEF WrapperType
  <2> QED
    BY <1>4, <2>1 DEF WrapperType, NextRun, Places
<1>5. CASE \E place \in Places, c \in 0 .. 2 :
              /\ pc' = [pc EXCEPT ![w] = place]
              /\ code' = [code EXCEPT ![w] = c]
              /\ UNCHANGED <<at, retry>>
  BY <1>5 DEF WrapperType
<1> QED
  BY <1>1, <1>2, <1>3, <1>4, <1>5

\* One unit of a budget.
LEMMA Spent ==
  ASSUME BudgetType,
         \/ UNCHANGED budget
         \/ Spend("kills", MaxKills)
         \/ Spend("failures", MaxFailures)
         \/ Spend("changes", MaxChanges)
  PROVE  BudgetType'
BY MatrixAssumption DEF BudgetType, Spend

\* A step of a wrapper other than the start of an experiment: where it is, where it
\* goes, and what it leaves alone.
LEMMA Walk ==
  ASSUME NEW w \in Wrappers, Wrapper(w), WrapperType
  PROVE  /\ pc[w] \notin {"off", "running"}
         /\ \E place \in Places : pc' = [pc EXCEPT ![w] = place]
         /\ \A v \in Wrappers \ {w} : at'[v] = at[v] /\ code'[v] = code[v]
         /\ pc'[w] = "off" => at'[w] = 1
         /\ UNCHANGED <<strays, leftover, tree, accept, transitions>>
         /\ Start(w) \/ (UNCHANGED child /\ pc'[w] # "running")
<1> USE DEF WrapperType, Goto, Off, NextRun, Check, Places, host, environment, control,
            evidence, transition
<1>1. CASE CheckIdleFirst(w) \/ CompareFingerprint(w) \/ CopyFingerprint(w) \/ CopyEnds(w)
  BY <1>1 DEF CheckIdleFirst, CompareFingerprint, CopyFingerprint, CopyEnds
<1>2. CASE AlreadyPrepared(w) \/ Pull(w) \/ Snapshot(w) \/ Certify(w)
  BY <1>2 DEF AlreadyPrepared, Pull, Snapshot, Certify
<1>3. CASE Skip(w) \/ Archive(w) \/ Fresh(w)
  BY <1>3 DEF Skip, Archive, Fresh, AtRun
<1>4. CASE ArchiveMarker(w) \/ CheckIdle(w) \/ CheckFingerprint(w) \/ CheckImages(w)
  BY <1>4 DEF ArchiveMarker, CheckIdle, CheckFingerprint, CheckImages
<1>5. CASE Start(w)
  BY <1>5 DEF Start
<1>6. CASE StartFails(w) \/ WriteMarker(w)
  BY <1>6 DEF StartFails, WriteMarker
<1>7. CASE Judge(w) \/ Complete(w)
  BY <1>7 DEF Judge, Complete
<1> QED
  BY <1>1, <1>2, <1>3, <1>4, <1>5, <1>6, <1>7 DEF Wrapper
\* They make up the types after a step.
LEMMA TypePartsNext ==
  ASSUME WrapperType', RunsType', HostType', BudgetType'
  PROVE  MatrixTypeOK'
BY DEF MatrixTypeOK, WrapperType, RunsType, HostType, BudgetType

\* A verdict is written into a result.
LEMMA Judged ==
  ASSUME NEW r \in Results, NEW kind \in {"partial", "rejected", "eligible"}
  PROVE  /\ [r EXCEPT !.kind = kind] \in Results
         /\ [r EXCEPT !.kind = kind].kind = kind
         /\ [r EXCEPT !.kind = kind].try = r.try
BY DEF Results

\* The types at the start.
LEMMA TypeInit == Init => MatrixTypeOK
<1> SUFFICES ASSUME Init PROVE MatrixTypeOK
  OBVIOUS
<1>0. Runs \in Nat \ {0} /\ MaxKills \in Nat /\ MaxFailures \in Nat /\ MaxChanges \in Nat
  BY MatrixAssumption
<1>1. WrapperType
  BY <1>0 DEF Init, WrapperType, Places
<1>2. RunsType
  BY <1>0 DEF Init, RunsType, Results, None
<1>3. HostType
  BY DEF Init, HostType, Trees, Images
<1>4. BudgetType
  BY <1>0 DEF Init, BudgetType
<1> QED
  BY <1>1, <1>2, <1>3, <1>4, TypeParts

\* A result is written or moved by these steps only.
LEMMA TypeStep == MatrixInv /\ [Next]_vars => MatrixTypeOK'
<1> SUFFICES ASSUME MatrixInv, [Next]_vars PROVE MatrixTypeOK'
  OBVIOUS
<1>0. WrapperType /\ RunsType /\ HostType /\ BudgetType
  BY TypeParts DEF MatrixInv
<1>00. /\ Runs \in Nat \ {0}
       /\ \A w \in Wrappers : OriginOf(w) /\ StepsOf(w)
  BY MatrixAssumption DEF MatrixInv, OriginInv, StepsInv
<1>1. ASSUME NEW w \in Wrappers, NEW option \in BOOLEAN, Invoke(w, option)
      PROVE  MatrixTypeOK'
  <2>1. WrapperType'
    BY <1>0, <1>1 DEF Invoke, WrapperType, Places
  <2>2. RunsType' /\ HostType' /\ BudgetType'
    BY <1>0, <1>1 DEF Invoke, RunsType, HostType, BudgetType,
       host, environment, control, evidence, transition
  <2> QED BY <2>1, <2>2, TypePartsNext
<1>2. ASSUME NEW w \in Wrappers, Wrapper(w)
      PROVE  MatrixTypeOK'
  <2>1. WrapperType'
    <3>1. CASE CheckIdleFirst(w) \/ CompareFingerprint(w) \/ CopyFingerprint(w) \/ CopyEnds(w)
      BY <1>0, <3>1, WrapperMoves
      DEF CheckIdleFirst, CompareFingerprint, CopyFingerprint, CopyEnds, Check, Places
    <3>2. CASE AlreadyPrepared(w) \/ Pull(w) \/ Snapshot(w) \/ Certify(w)
      BY <1>0, <3>2, WrapperMoves DEF AlreadyPrepared, Pull, Snapshot, Certify, Check, Places
    <3>3. CASE Skip(w) \/ Archive(w) \/ Fresh(w)
      BY <1>0, <3>3, WrapperMoves DEF Skip, Archive, Fresh, AtRun, Places
    <3>4. CASE ArchiveMarker(w) \/ CheckIdle(w) \/ CheckFingerprint(w) \/ CheckImages(w)
      BY <1>0, <3>4, WrapperMoves
      DEF ArchiveMarker, CheckIdle, CheckFingerprint, CheckImages, Check, Places
    <3>5. CASE Start(w) \/ WriteMarker(w)
      BY <1>0, <3>5, WrapperMoves DEF Start, WriteMarker, Check, Places
    <3>6. CASE StartFails(w)
      <4>1. /\ "marking" \in Places /\ 1 \in 0 .. 2
            /\ pc' = [pc EXCEPT ![w] = "marking"]
            /\ code' = [code EXCEPT ![w] = 1]
            /\ UNCHANGED <<at, retry>>
        BY <3>6 DEF StartFails, Places
      <4> QED BY <1>0, <4>1, WrapperMoves
    <3>7. CASE Judge(w)
      <4>1. at[w] <= Runs
        BY <1>00, <3>7 DEF Judge, StepsOf, OnRun
      <4> QED BY <1>0, <3>7, <4>1, WrapperMoves DEF Judge
    <3>8. CASE Complete(w)
      BY <1>0, <3>8, WrapperMoves DEF Complete
    <3> QED
      BY <1>2, <3>1, <3>2, <3>3, <3>4, <3>5, <3>6, <3>7, <3>8 DEF Wrapper
  <2>2. RunsType'
    <3>1. CASE UNCHANGED <<child, evidence>>
      BY <1>0, <3>1 DEF RunsType, evidence
    <3>2. CASE Archive(w)
      <4>1. at[w] \in 1 .. Runs /\ result[at[w]] # None
        BY <1>0, <1>00, <3>2 DEF Archive, AtRun, WrapperType
      <4>2. result[at[w]].try \in 1 .. tries
        BY <4>1, <1>0 DEF MatrixInv, AttemptsInv, RunsType, Results
      <4>3. None \in Results
        BY DEF None, Results
      <4> QED
        BY <1>0, <3>2, <4>1, <4>2, <4>3 DEF Archive, RunsType, host
    <3>3. CASE ArchiveMarker(w)
      <4>1. -1 \in -1 .. 2
        OBVIOUS
      <4>2. marker' \in [1 .. Runs -> -1 .. 2]
        BY <1>0, <3>3, <4>1 DEF ArchiveMarker, RunsType
      <4> QED BY <1>0, <3>3, <4>2 DEF ArchiveMarker, RunsType, host
    <3>4. CASE Start(w)
      <4>1. at[w] \in 1 .. Runs
        BY <1>0, <1>00, <3>4 DEF Start, StepsOf, OnRun, Unjudged, Cleared, WrapperType
      <4>2. tries' \in Nat /\ attempts \subseteq 1 .. tries'
        BY <1>0, <3>4 DEF Start, RunsType
      <4>3. [try |-> tries + 1, kind |-> "partial", tree |-> tree, image |-> image] \in Results
        BY <1>0 DEF RunsType, HostType, Results
      <4> QED
        BY <1>0, <3>4, <4>1, <4>2, <4>3 DEF Start, RunsType
    <3>5. CASE WriteMarker(w)
      <4>1. code[w] \in -1 .. 2
        BY <1>0 DEF WrapperType
      <4> QED
        BY <1>0, <3>5, <4>1 DEF WriteMarker, RunsType, host
    <3>6. CASE Complete(w)
      BY <1>0, <3>6 DEF Complete, RunsType, host
    <3>7. CASE CheckIdleFirst(w) \/ CompareFingerprint(w) \/ CopyFingerprint(w)
               \/ CopyEnds(w) \/ AlreadyPrepared(w) \/ Pull(w)
                 \/ Snapshot(w) \/ Certify(w)
      BY <3>1, <3>7
      DEF CheckIdleFirst, CompareFingerprint, CopyFingerprint, CopyEnds, AlreadyPrepared, Pull,
          Snapshot, Certify, host
    <3>8. CASE Skip(w) \/ Fresh(w) \/ CheckIdle(w) \/ CheckFingerprint(w) \/ CheckImages(w)
                 \/ StartFails(w) \/ Judge(w)
      BY <3>1, <3>8
      DEF Skip, Fresh, CheckIdle, CheckFingerprint, CheckImages, StartFails, Judge, host
    <3> QED
      BY <1>2, <3>2, <3>3, <3>4, <3>5, <3>6, <3>7, <3>8 DEF Wrapper
  <2>3. HostType'
    <3> USE DEF host, environment, control, evidence, transition
    <3>0. UNCHANGED <<strays, leftover, tree, accept, transitions>>
      BY <1>0, <1>2, Walk
    <3>0a. tree \in Trees /\ (stored = "none" => ~ prepared)
      BY <1>0 DEF HostType, Trees
    <3>1. CASE CopyFingerprint(w) \/ CopyEnds(w)
      <4>1. CASE CopyFingerprint(w)
        BY <1>0, <3>0, <3>0a, <4>1 DEF CopyFingerprint, HostType
      <4>2. CASE CopyEnds(w)
        BY <1>0, <3>0, <3>0a, <4>2 DEF CopyEnds, HostType
      <4> QED BY <3>1, <4>1, <4>2
    <3>2. CASE Pull(w)
      BY <1>0, <3>0, <3>2 DEF Pull, HostType
    <3>3. CASE Snapshot(w)
      BY <1>0, <3>0, <3>3 DEF Snapshot, HostType, Images
    <3>4. CASE Certify(w)
      <4>1. baseline # "none" /\ stored \in Trees
        BY <1>00, <3>4 DEF Certify, Check, OriginOf
      <4> QED BY <1>0, <3>0, <3>4, <4>1 DEF Certify, HostType
    <3>5. CASE Complete(w)
      BY <1>0, <3>0, <3>5 DEF Complete, HostType
    <3>6. CASE UNCHANGED <<image, control, completed>>
      BY <1>0, <3>0, <3>6 DEF HostType
    <3>7. CASE CheckIdleFirst(w) \/ CompareFingerprint(w) \/ AlreadyPrepared(w) \/ Skip(w)
                 \/ Archive(w) \/ ArchiveMarker(w) \/ Fresh(w) \/ CheckIdle(w)
      BY <3>6, <3>7
      DEF CheckIdleFirst, CompareFingerprint, AlreadyPrepared, Skip, Archive, ArchiveMarker,
          Fresh, CheckIdle
    <3>8. CASE CheckFingerprint(w) \/ CheckImages(w) \/ Start(w) \/ StartFails(w)
                 \/ WriteMarker(w) \/ Judge(w)
      BY <3>6, <3>8
      DEF CheckFingerprint, CheckImages, Start, StartFails, WriteMarker, Judge
    <3> QED
      BY <1>2, <3>1, <3>2, <3>3, <3>4, <3>5, <3>7, <3>8 DEF Wrapper
  <2>4. BudgetType'
    <3>1. UNCHANGED budget \/ Spend("failures", MaxFailures)
      BY <1>2
      DEF Wrapper, CheckIdleFirst, CompareFingerprint, CopyFingerprint, CopyEnds,
          AlreadyPrepared, Pull, Snapshot,
         Certify, Skip, Archive, ArchiveMarker, Fresh, CheckIdle, CheckFingerprint,
         CheckImages, Start, StartFails, WriteMarker, Judge, Complete
    <3> QED BY <1>0, <3>1, Spent
  <2> QED BY <2>1, <2>2, <2>3, <2>4, TypePartsNext
<1>3. ASSUME NEW w \in Wrappers, Experiment(w) \/ KillExperiment(w) \/ KillWrapper(w)
      PROVE  MatrixTypeOK'
  <2>1. WrapperType'
    <3>1. CASE Experiment(w) \/ KillExperiment(w)
      <4>1. PICK c \in 0 .. 2 : Exit(w, c)
        <5>1. CASE Fails(w)
          <6>1. PICK kind : Exit(w, IF kind = "partial" THEN 1 ELSE 2)
            BY <5>1 DEF Fails
          <6> QED BY <6>1
        <5>2. CASE Passes(w) \/ KillExperiment(w)
          BY <5>2 DEF Passes, KillExperiment
        <5> QED BY <3>1, <5>1, <5>2 DEF Experiment
      <4> QED
        BY <1>0, <4>1, WrapperMoves DEF Exit, Places
    <3>2. CASE KillWrapper(w)
      BY <1>0, <3>2, WrapperMoves DEF KillWrapper
    <3> QED BY <1>3, <3>1, <3>2
  <2>2. RunsType'
    <3>1. CASE Experiment(w)
      <4>1. /\ child[w] \in 1 .. Runs
            /\ child' = [child EXCEPT ![w] = 0]
            /\ UNCHANGED <<marker, attempts, tries>>
            /\ \E kind \in {"partial", "rejected", "eligible"} :
                 result' = [result EXCEPT ![child[w]].kind = kind]
        <5>1. CASE Passes(w)
          BY <1>0, <5>1 DEF Passes, Exit, RunsType
        <5>2. CASE Fails(w)
          <6>1. /\ child[w] \in 1 .. Runs
                /\ UNCHANGED <<marker, attempts, tries>>
            BY <1>0, <5>2 DEF Fails, RunsType
          <6>2. PICK kind \in {"partial", "rejected", "eligible"} :
                  /\ result' = [result EXCEPT ![child[w]].kind = kind]
                  /\ Exit(w, IF kind = "partial" THEN 1 ELSE 2)
            BY <5>2 DEF Fails
          <6>3. child' = [child EXCEPT ![w] = 0]
            BY <6>2 DEF Exit
          <6> QED BY <6>1, <6>2, <6>3
        <5> QED BY <3>1, <5>1, <5>2 DEF Experiment
      <4>2. PICK kind \in {"partial", "rejected", "eligible"} :
              result' = [result EXCEPT ![child[w]].kind = kind]
        BY <4>1
      <4>3. [result[child[w]] EXCEPT !.kind = kind] \in Results
        <5>1. result[child[w]] \in Results
          BY <1>0, <4>1 DEF RunsType
        <5> QED BY <5>1, Judged
      <4>4. result' \in [1 .. Runs -> Results]
        BY <1>0, <4>1, <4>2, <4>3 DEF RunsType
      <4>5. 0 \in 0 .. Runs
        BY <1>00
      <4> QED
        BY <1>0, <4>1, <4>4, <4>5 DEF RunsType
    <3>2. CASE KillExperiment(w) \/ KillWrapper(w)
      <4>1. UNCHANGED <<result, marker, attempts, tries>>
        BY <3>2 DEF KillExperiment, KillWrapper, evidence
      <4>2. child' = child \/ child' = [child EXCEPT ![w] = 0]
        BY <3>2 DEF KillExperiment, KillWrapper, Exit, host
      <4>3. 0 \in 0 .. Runs
        BY <1>00
      <4> QED BY <1>0, <4>1, <4>2, <4>3 DEF RunsType
    <3> QED BY <1>3, <3>1, <3>2
  <2>3. HostType'
    <3>1. /\ strays' \in BOOLEAN /\ leftover' \in BOOLEAN
          /\ UNCHANGED <<tree, image, stored, baseline, prepared, completed, accept, transitions>>
      <4> USE DEF host, environment, control, evidence, transition
      <4>1. CASE Passes(w)
        BY <1>0, <4>1 DEF Passes, HostType
      <4>2. CASE Fails(w)
        BY <1>0, <4>2 DEF Fails, HostType
      <4>3. CASE KillExperiment(w) \/ KillWrapper(w)
        BY <1>0, <4>3 DEF KillExperiment, KillWrapper, HostType
      <4> QED BY <1>3, <4>1, <4>2, <4>3 DEF Experiment
    <3> QED BY <1>0, <3>1 DEF HostType
  <2>4. BudgetType'
    BY <1>0, <1>3, Spent DEF Experiment, Passes, Fails, KillExperiment, KillWrapper
  <2> QED BY <2>1, <2>2, <2>3, <2>4, TypePartsNext
<1>4. CASE Crash
  <2>1. WrapperType'
    BY <1>00, <1>4 DEF Crash, WrapperType, Places
  <2>2. RunsType' /\ HostType'
    <3>1. 0 \in 0 .. Runs
      BY <1>00
    <3>2. RunsType'
      BY <1>0, <1>4, <3>1 DEF Crash, RunsType, evidence
    <3>3. HostType'
      BY <1>0, <1>4 DEF Crash, HostType, environment, control, evidence
    <3> QED BY <3>2, <3>3
  <2>3. BudgetType'
    BY <1>0, <1>4, Spent DEF Crash
  <2> QED BY <2>1, <2>2, <2>3, TypePartsNext
<1>5. CASE StraysEnd \/ Change \/ Restore \/ Accept \/ KillAccept
  <2>1. WrapperType' /\ RunsType'
    BY <1>0, <1>5 DEF StraysEnd, Change, Restore, Accept, AcceptCheck, AcceptArchive,
       AcceptReplace, KillAccept, WrapperType, RunsType, wrapper, host, evidence
  <2>2. HostType'
    <3> USE <1>0 DEF HostType, host, environment, control, evidence, transition
    <3>1. CASE StraysEnd
      BY <3>1 DEF StraysEnd
    <3>2. CASE Change
      BY <3>2 DEF Change
    <3>3. CASE Restore
      BY <3>3 DEF Restore
    <3>4. CASE AcceptCheck \/ AcceptArchive
      BY <3>4 DEF AcceptCheck, AcceptArchive
    <3>5. CASE AcceptReplace
      BY <3>5 DEF AcceptReplace, Trees
    <3>6. CASE KillAccept
      BY <3>6 DEF KillAccept
    <3> QED BY <1>5, <3>1, <3>2, <3>3, <3>4, <3>5, <3>6 DEF Accept
  <2>3. BudgetType'
    BY <1>0, <1>5, Spent DEF StraysEnd, Change, Restore, Accept, AcceptCheck, AcceptArchive,
       AcceptReplace, KillAccept
  <2> QED BY <2>1, <2>2, <2>3, TypePartsNext
<1>6. CASE UNCHANGED vars
  <2>1. WrapperType' /\ RunsType' /\ HostType' /\ BudgetType'
    BY <1>0, <1>6 DEF vars, wrapper, host, environment, control, evidence, transition,
       WrapperType, RunsType, HostType, BudgetType
  <2> QED BY <2>1, TypePartsNext
<1> QED
  BY <1>1, <1>2, <1>3, <1>4, <1>5, <1>6 DEF Next
-----------------------------------------------------------------------------
(* The lock *)

\* What an experiment's end does to its wrapper and to the others.
LEMMA ExitMoves ==
  ASSUME NEW w \in Wrappers, NEW c \in 0 .. 2, Exit(w, c), WrapperType, RunsType, LockInv,
         child[w] # 0
  PROVE  /\ child'[w] = 0
         /\ \/ pc[w] = "running" /\ pc'[w] = "marking" /\ at'[w] = at[w] /\ code'[w] = c
            \/ pc[w] = "off" /\ pc'[w] = "off"
         /\ \A v \in Wrappers \ {w} : /\ pc'[v] = pc[v] /\ child'[v] = child[v]
                                      /\ at'[v] = at[v] /\ code'[v] = code[v]
<1>1. pc[w] \in {"off", "running"}
  BY DEF LockInv
<1>2. CASE pc[w] = "running"
  BY <1>2 DEF Exit, WrapperType, RunsType
<1>3. CASE pc[w] = "off"
  BY <1>3 DEF Exit, WrapperType, RunsType, wrapper
<1> QED
  BY <1>1, <1>2, <1>3

\* Which experiment ends how.
LEMMA ExperimentEnds ==
  ASSUME NEW w \in Wrappers, Experiment(w) \/ KillExperiment(w)
  PROVE  child[w] # 0 /\ \E c \in 0 .. 2 : Exit(w, c)
<1>1. CASE Passes(w) \/ KillExperiment(w)
  BY <1>1 DEF Passes, KillExperiment
<1>2. CASE Fails(w)
  <2>1. PICK kind : Exit(w, IF kind = "partial" THEN 1 ELSE 2)
    BY <1>2 DEF Fails
  <2> QED BY <1>2, <2>1 DEF Fails
<1> QED
  BY <1>1, <1>2 DEF Experiment

\* While a wrapper or its experiment makes a step, nobody else is at work.
LEMMA Alone ==
  ASSUME WrapperType, RunsType, LockInv, NEW w \in Wrappers,
         Wrapper(w) \/ Experiment(w) \/ KillExperiment(w) \/ KillWrapper(w)
  PROVE  /\ accept = "off" /\ accept' = "off"
         /\ \A v \in Wrappers \ {w} : /\ pc[v] = "off" /\ child[v] = 0
                                      /\ pc'[v] = "off" /\ child'[v] = 0
<1>1. Active(w)
  BY Walk, ExperimentEnds DEF Active, KillWrapper
<1>2. accept = "off" /\ \A v \in Wrappers \ {w} : pc[v] = "off" /\ child[v] = 0
  BY <1>1 DEF LockInv, Active
<1>3. accept' = accept /\ \A v \in Wrappers \ {w} : pc'[v] = pc[v] /\ child'[v] = child[v]
  <2>1. CASE Wrapper(w)
    <3>1. accept' = accept /\ \E place \in Places : pc' = [pc EXCEPT ![w] = place]
      BY <2>1, Walk
    <3>2. UNCHANGED child \/ Start(w)
      BY <2>1, Walk
    <3>3. \A v \in Wrappers \ {w} : child'[v] = child[v]
      BY <3>2 DEF Start, RunsType
    <3> QED BY <3>1, <3>3 DEF WrapperType
  <2>2. CASE Experiment(w) \/ KillExperiment(w)
    <3>1. accept' = accept
      BY <2>2 DEF Experiment, Passes, Fails, KillExperiment, transition
    <3> QED BY <2>2, <3>1, ExperimentEnds, ExitMoves
  <2>3. CASE KillWrapper(w)
    BY <2>3 DEF KillWrapper, Off, WrapperType, host, transition
  <2> QED BY <2>1, <2>2, <2>3
<1> QED
  BY <1>2, <1>3

\* Nobody at all is at work when the lock is free.
LEMMA Free == ASSUME ~Held PROVE accept = "off" /\ \A w \in Wrappers : ~Active(w)
BY DEF Held, Active, Experiments

\* What is left to show for the lock after a step of one wrapper.
LEMMA LockOfOne ==
  ASSUME NEW w \in Wrappers, accept' = "off",
         \A v \in Wrappers \ {w} : pc'[v] = "off" /\ child'[v] = 0,
         pc'[w] = "running" => child'[w] = at'[w],
         child'[w] # 0 => pc'[w] \in {"off", "running"}
  PROVE  LockInv'
<1>1. \A v \in Wrappers \ {w} : ~Active(v)'
  BY DEF Active
<1> QED
  BY <1>1 DEF LockInv

\* The lock keeps the wrappers, the experiments of killed wrappers and the acceptance
\* script apart.
LEMMA LockStep == MatrixInv /\ [Next]_vars => LockInv'
<1> SUFFICES ASSUME MatrixInv, [Next]_vars PROVE LockInv'
  OBVIOUS
<1>0. WrapperType /\ RunsType /\ LockInv
  BY TypeParts DEF MatrixInv
<1>00. \A w \in Wrappers : child[w] # 0 => pc[w] \in {"off", "running"}
  BY <1>0 DEF LockInv
<1>1. ASSUME NEW w \in Wrappers, NEW option \in BOOLEAN, Invoke(w, option)
      PROVE  LockInv'
  <2>1. accept = "off" /\ \A v \in Wrappers : pc[v] = "off" /\ child[v] = 0
    BY <1>1, Free DEF Invoke, Active
  <2>2. pc'[w] = "entered" /\ accept' = accept /\ child' = child
    BY <1>0, <1>1 DEF Invoke, WrapperType, host, transition
  <2>3. \A v \in Wrappers \ {w} : pc'[v] = pc[v]
    BY <1>0, <1>1 DEF Invoke, WrapperType
  <2> QED BY <2>1, <2>2, <2>3, LockOfOne
<1>2. ASSUME NEW w \in Wrappers, Wrapper(w)
      PROVE  LockInv'
  <2>1. pc[w] # "running" /\ pc[w] # "off" /\ child[w] = 0
    BY <1>0, <1>00, <1>2, Walk
  <2>2. CASE Start(w)
    <3>1. child'[w] = at[w] /\ pc'[w] = "running" /\ at'[w] = at[w]
      BY <1>0, <2>2 DEF Start, Goto, WrapperType, RunsType
    <3> QED BY <1>0, <1>2, <3>1, Alone, LockOfOne
  <2>3. CASE UNCHANGED child /\ pc'[w] # "running"
    BY <1>0, <1>2, <2>1, <2>3, Alone, LockOfOne
  <2> QED BY <1>0, <1>2, <2>2, <2>3, Walk
<1>3. ASSUME NEW w \in Wrappers, Experiment(w) \/ KillExperiment(w)
      PROVE  LockInv'
  <2>1. child'[w] = 0 /\ pc'[w] # "running"
    BY <1>0, <1>3, ExperimentEnds, ExitMoves
  <2> QED BY <1>0, <1>3, <2>1, Alone, LockOfOne
<1>4. ASSUME NEW w \in Wrappers, KillWrapper(w)
      PROVE  LockInv'
  <2>1. pc'[w] = "off"
    BY <1>0, <1>4 DEF KillWrapper, Off, WrapperType
  <2> QED BY <1>0, <1>4, <2>1, Alone, LockOfOne
<1>5. CASE Crash
  BY <1>5 DEF Crash, LockInv, Active
<1>6. CASE AcceptCheck
  <2>1. \A w \in Wrappers : ~Active(w)
    BY <1>6, Free DEF AcceptCheck
  <2>2. \A w \in Wrappers : ~Active(w)'
    BY <1>6, <2>1 DEF AcceptCheck, Active, wrapper, host
  <2>3. \A w \in Wrappers : pc'[w] # "running" /\ child'[w] = 0
    BY <2>2 DEF Active
  <2> QED BY <2>2, <2>3 DEF LockInv
<1>7. CASE AcceptArchive \/ AcceptReplace \/ KillAccept
  <2>1. UNCHANGED <<wrapper, child>> /\ accept # "off"
    BY <1>7 DEF AcceptArchive, AcceptReplace, KillAccept, host
  <2> QED BY <1>0, <2>1 DEF LockInv, Active, wrapper
<1>8. CASE StraysEnd \/ Change \/ Restore \/ UNCHANGED vars
  <2>1. UNCHANGED <<wrapper, child, accept>>
    BY <1>8 DEF StraysEnd, Change, Restore, vars, host, transition
  <2> QED BY <1>0, <2>1 DEF LockInv, Active, wrapper
<1> QED
  BY <1>1, <1>2, <1>3, <1>4, <1>5, <1>6, <1>7, <1>8 DEF Next, Accept

-----------------------------------------------------------------------------
(* What is left of earlier experiments *)

\* An experiment starts on a host without containers, load generators or collectors
\* of another.
LEMMA CleanStep == MatrixInv /\ [Next]_vars => CleanInv'
<1> SUFFICES ASSUME MatrixInv, [Next]_vars PROVE CleanInv'
  OBVIOUS
<1>0. WrapperType /\ RunsType /\ LockInv /\ CleanInv
  BY TypeParts DEF MatrixInv
\* Only one wrapper counts.
<1>00. ASSUME NEW w \in Wrappers, CleanOf(w)',
              Wrapper(w) \/ Experiment(w) \/ KillExperiment(w) \/ KillWrapper(w)
       PROVE  CleanInv'
  <2>1. \A v \in Wrappers \ {w} : pc'[v] = "off" /\ child'[v] = 0
    BY <1>0, <1>00, Alone
  <2> QED BY <1>00, <2>1 DEF CleanInv, CleanOf
<1>1. ASSUME NEW w \in Wrappers, NEW option \in BOOLEAN, Invoke(w, option)
      PROVE  CleanInv'
  <2>1. \A v \in Wrappers : pc'[v] \in {"off", "entered"} /\ child'[v] = 0
    BY <1>0, <1>1, Free DEF Invoke, WrapperType, Active, host
  <2> QED BY <2>1 DEF CleanInv, CleanOf
<1>2. ASSUME NEW w \in Wrappers, Wrapper(w)
      PROVE  CleanInv'
  <2>0. /\ UNCHANGED <<strays, leftover>> /\ CleanOf(w) /\ child[w] = 0
        /\ pc' \in [Wrappers -> Places]
    BY <1>0, <1>2, Walk DEF CleanInv, LockInv, WrapperType
  <2>1. CASE CheckIdle(w)
    BY <1>0, <1>00, <1>2, <2>0, <2>1
    DEF CheckIdle, Check, Goto, Off, WrapperType, CleanOf, Idle, host
  <2>2. CASE CheckFingerprint(w) \/ CheckImages(w) \/ Start(w)
    <3>1. ~strays /\ ~leftover
      BY <2>0, <2>2 DEF CheckFingerprint, CheckImages, Start, Check, CleanOf
    <3> QED BY <1>00, <1>2, <2>0, <3>1 DEF CleanOf
  <2>3. ASSUME child' = child, pc'[w] \notin {"fingerprint", "images", "ready"}
        PROVE  CleanInv'
    BY <1>00, <1>2, <2>0, <2>3 DEF CleanOf
  <2>4. CASE CheckIdleFirst(w) \/ CompareFingerprint(w) \/ CopyFingerprint(w) \/ CopyEnds(w)
             \/ AlreadyPrepared(w) \/ Pull(w)
               \/ Snapshot(w) \/ Certify(w)
    BY <1>0, <2>3, <2>4
    DEF CheckIdleFirst, CompareFingerprint, CopyFingerprint, CopyEnds, AlreadyPrepared, Pull,
        Snapshot,
       Certify, Check, Goto, Off, WrapperType, host
  <2>5. CASE Skip(w) \/ Archive(w) \/ ArchiveMarker(w) \/ Fresh(w)
    BY <1>0, <2>3, <2>5 DEF Skip, Archive, ArchiveMarker, Fresh, Check, Goto, Off, NextRun,
       WrapperType, host
  <2>6. CASE StartFails(w) \/ WriteMarker(w) \/ Judge(w) \/ Complete(w)
    BY <1>0, <2>3, <2>6 DEF StartFails, WriteMarker, Judge, Complete, Check, Goto, Off,
       NextRun, WrapperType, host
  <2> QED
    BY <1>2, <2>1, <2>2, <2>4, <2>5, <2>6 DEF Wrapper
<1>3. ASSUME NEW w \in Wrappers, Experiment(w) \/ KillExperiment(w)
      PROVE  CleanInv'
  <2>1. child'[w] = 0 /\ pc'[w] \in {"off", "marking"}
    BY <1>0, <1>3, ExperimentEnds, ExitMoves
  <2> QED BY <1>00, <1>3, <2>1 DEF CleanOf
<1>4. ASSUME NEW w \in Wrappers, KillWrapper(w)
      PROVE  CleanInv'
  <2>1. pc'[w] = "off" /\ UNCHANGED host
    BY <1>0, <1>4 DEF KillWrapper, Off, WrapperType
  <2> QED BY <1>0, <1>00, <1>4, <2>1 DEF CleanOf, CleanInv, host
<1>5. CASE Crash
  BY <1>5 DEF Crash, CleanInv, CleanOf
<1>6. CASE StraysEnd \/ Change \/ Restore \/ Accept \/ KillAccept \/ UNCHANGED vars
  <2>1. /\ UNCHANGED <<pc, child>>
        /\ strays' \in {strays, FALSE} /\ leftover' \in {leftover, FALSE}
    BY <1>6 DEF StraysEnd, Change, Restore, Accept, AcceptCheck, AcceptArchive, AcceptReplace,
       KillAccept, vars, wrapper, host
  <2> QED BY <1>0, <2>1 DEF CleanInv, CleanOf
<1> QED
  BY <1>1, <1>2, <1>3, <1>4, <1>5, <1>6 DEF Next
-----------------------------------------------------------------------------
(* Verified runs *)

\* The directory of a run changes when it is archived, and when its experiment begins
\* and ends.
LEMMA ResultMoves ==
  ASSUME NEW w \in Wrappers, Wrapper(w)
  PROVE  \/ UNCHANGED <<result, tries, attempts>>
         \/ Archive(w) /\ result[at[w]] # None
         \/ Start(w)
<1>1. CASE CheckIdleFirst(w) \/ CompareFingerprint(w) \/ CopyFingerprint(w) \/ CopyEnds(w)
           \/ AlreadyPrepared(w) \/ Pull(w)
             \/ Snapshot(w) \/ Certify(w) \/ Skip(w)
  BY <1>1
  DEF CheckIdleFirst, CompareFingerprint, CopyFingerprint, CopyEnds, AlreadyPrepared, Pull,
      Snapshot, Certify,
     Skip, evidence
<1>2. CASE Archive(w)
  BY <1>2 DEF Archive
<1>3. CASE ArchiveMarker(w) \/ Fresh(w) \/ CheckIdle(w) \/ CheckFingerprint(w) \/ CheckImages(w)
  BY <1>3 DEF ArchiveMarker, Fresh, CheckIdle, CheckFingerprint, CheckImages, evidence
<1>4. CASE StartFails(w) \/ WriteMarker(w) \/ Judge(w) \/ Complete(w)
  BY <1>4 DEF StartFails, WriteMarker, Judge, Complete, evidence
<1> QED
  BY <1>1, <1>2, <1>3, <1>4 DEF Wrapper

\* The marker of a run changes when it is archived or written.
LEMMA MarkerMoves ==
  ASSUME NEW w \in Wrappers, Wrapper(w)
  PROVE  UNCHANGED marker \/ ArchiveMarker(w) \/ WriteMarker(w)
<1>1. CASE CheckIdleFirst(w) \/ CompareFingerprint(w) \/ CopyFingerprint(w) \/ CopyEnds(w)
           \/ AlreadyPrepared(w) \/ Pull(w)
             \/ Snapshot(w) \/ Certify(w) \/ Skip(w)
  BY <1>1
  DEF CheckIdleFirst, CompareFingerprint, CopyFingerprint, CopyEnds, AlreadyPrepared, Pull,
      Snapshot, Certify,
     Skip, evidence
<1>2. CASE Archive(w) \/ Fresh(w) \/ CheckIdle(w) \/ CheckFingerprint(w) \/ CheckImages(w)
  BY <1>2 DEF Archive, Fresh, CheckIdle, CheckFingerprint, CheckImages, evidence
<1>3. CASE Start(w) \/ StartFails(w) \/ Judge(w) \/ Complete(w)
  BY <1>3 DEF Start, StartFails, Judge, Complete, evidence
<1> QED
  BY <1>1, <1>2, <1>3 DEF Wrapper

\* The end of an experiment changes the verdict in its directory at most.
LEMMA ResultEnds ==
  ASSUME NEW w \in Wrappers, Experiment(w) \/ KillExperiment(w), RunsType
  PROVE  /\ child[w] \in 1 .. Runs
         /\ UNCHANGED <<marker, attempts, tries, completed>>
         /\ \A e \in 1 .. Runs : e # child[w] => result'[e] = result[e]
         /\ \/ UNCHANGED result
            \/ \E kind \in {"partial", "rejected", "eligible"} :
                 result' = [result EXCEPT ![child[w]].kind = kind]
<1>0. child[w] \in 1 .. Runs
  BY ExperimentEnds DEF RunsType
<1>1. CASE Passes(w)
  BY <1>0, <1>1 DEF Passes, RunsType
<1>2. CASE Fails(w)
  <2>1. PICK kind \in {"partial", "rejected", "eligible"} :
          result' = [result EXCEPT ![child[w]].kind = kind]
    BY <1>2 DEF Fails
  <2>2. \A e \in 1 .. Runs : e # child[w] => result'[e] = result[e]
    BY <1>0, <2>1 DEF RunsType
  <2>3. UNCHANGED <<marker, attempts, tries, completed>>
    BY <1>2 DEF Fails
  <2> QED BY <1>0, <2>1, <2>2, <2>3
<1>3. CASE KillExperiment(w)
  BY <1>0, <1>3 DEF KillExperiment, evidence
<1> QED
  BY <1>1, <1>2, <1>3 DEF Experiment

\* No step of anybody touches a verified run.
LEMMA VerifiedStep ==
  ASSUME MatrixInv, [Next]_vars, NEW e \in 1 .. Runs, Verified(e)
  PROVE  result'[e] = result[e] /\ marker'[e] = 0
<1>0. WrapperType /\ RunsType /\ \A w \in Wrappers : StepsOf(w)
  BY TypeParts DEF MatrixInv, StepsInv
<1>00. marker[e] = 0 /\ result[e].kind = "eligible" /\ result[e] # None
  BY DEF Verified, Eligible, None
<1>1. ASSUME UNCHANGED <<result, marker>>
      PROVE  result'[e] = result[e] /\ marker'[e] = 0
  BY <1>1, <1>00
<1>2. ASSUME NEW w \in Wrappers, Wrapper(w)
      PROVE  result'[e] = result[e] /\ marker'[e] = 0
  <2>1. result'[e] = result[e]
    <3>1. CASE Archive(w)
      <4>1. at[w] # e
        BY <3>1 DEF Archive
      <4> QED BY <1>0, <3>1, <4>1 DEF Archive, RunsType
    <3>2. CASE Start(w)
      <4>1. at[w] # e
        BY <3>2, <1>00 DEF Start
      <4> QED BY <1>0, <3>2, <4>1 DEF Start, RunsType
    <3> QED BY <1>2, <3>1, <3>2, ResultMoves
  <2>2. marker'[e] = marker[e]
    <3>1. CASE ArchiveMarker(w) \/ WriteMarker(w)
      <4>1. marker[at[w]] # 0
        BY <1>0, <3>1 DEF ArchiveMarker, WriteMarker, Check, StepsOf, Unjudged, Cleared
      <4>2. at[w] # e
        BY <1>00, <4>1
      <4> QED BY <1>0, <3>1, <4>2 DEF ArchiveMarker, WriteMarker, RunsType
    <3> QED BY <1>2, <3>1, MarkerMoves
  <2> QED BY <1>00, <2>1, <2>2
<1>3. ASSUME NEW w \in Wrappers, Experiment(w) \/ KillExperiment(w)
      PROVE  result'[e] = result[e] /\ marker'[e] = 0
  <2>1. child[w] # 0 /\ result[child[w]].kind = "partial"
    BY <1>0, <1>3, ExperimentEnds DEF StepsOf
  <2>2. child[w] # e
    BY <1>00, <2>1
  <2> QED BY <1>0, <1>00, <1>3, <2>2, ResultEnds
<1>4. CASE \/ \E w \in Wrappers, option \in BOOLEAN : Invoke(w, option)
           \/ \E w \in Wrappers : KillWrapper(w)
           \/ Crash \/ StraysEnd \/ Change \/ Restore \/ Accept \/ KillAccept \/ UNCHANGED vars
  BY <1>1, <1>4 DEF Invoke, KillWrapper, Crash, StraysEnd, Change, Restore, Accept, AcceptCheck,
     AcceptArchive, AcceptReplace, KillAccept, vars, evidence
<1> QED
  BY <1>2, <1>3, <1>4 DEF Next
\* What is left to show for the runs after a step of one wrapper.
LEMMA StepsOfOne ==
  ASSUME MatrixInv, [Next]_vars, NEW w \in Wrappers, StepsOf(w)',
         Wrapper(w) \/ Experiment(w) \/ KillExperiment(w) \/ KillWrapper(w)
  PROVE  \A v \in Wrappers : StepsOf(v)'
<1>1. WrapperType /\ RunsType /\ LockInv
  BY TypeParts DEF MatrixInv
<1>2. \A v \in Wrappers \ {w} : pc'[v] = "off" /\ child'[v] = 0
  BY <1>1, Alone
<1>3. \A v \in Wrappers \ {w} : StepsOf(v)'
  BY <1>2 DEF StepsOf, OnRun, Unjudged, Cleared
<1> QED
  BY <1>3

\* The earlier runs of a wrapper stay verified.
LEMMA Earlier ==
  ASSUME MatrixInv, [Next]_vars, NEW w \in Wrappers, pc[w] # "off",
         \/ at'[w] = at[w]
         \/ at'[w] = at[w] + 1 /\ Verified(at[w])
  PROVE  \A e \in 1 .. Runs : e < at'[w] => Verified(e)'
<1>1. at[w] \in Nat
  BY TypeParts, MatrixAssumption DEF MatrixInv, WrapperType
<1>2. ASSUME NEW e \in 1 .. Runs, e < at'[w]
      PROVE  Verified(e)'
  <2>1. e < at[w] \/ (e = at[w] /\ Verified(at[w]))
    BY <1>1, <1>2
  <2>2. Verified(e)
    BY <2>1 DEF MatrixInv, StepsInv, StepsOf
  <2> QED BY <2>2, VerifiedStep DEF Verified, Eligible
<1> QED
  BY <1>2

\* A wrapper that has left knows nothing.
LEMMA StepsOff ==
  ASSUME NEW w \in Wrappers, pc'[w] = "off", child'[w] = 0
  PROVE  StepsOf(w)'
BY DEF StepsOf, OnRun, Unjudged, Cleared

\* Whoever leaves goes back to the first run.
LEMMA RestStep == MatrixInv /\ [Next]_vars => RestInv'
<1> SUFFICES ASSUME MatrixInv, [Next]_vars PROVE RestInv'
  OBVIOUS
<1>0. WrapperType /\ RunsType /\ LockInv /\ RestInv
  BY TypeParts DEF MatrixInv
<1>1. ASSUME NEW w \in Wrappers, NEW option \in BOOLEAN, Invoke(w, option)
      PROVE  RestInv'
  BY <1>0, <1>1 DEF Invoke, WrapperType, RestInv
<1>2. ASSUME NEW w \in Wrappers, Wrapper(w)
      PROVE  RestInv'
  <2>1. /\ pc'[w] = "off" => at'[w] = 1
        /\ \A v \in Wrappers \ {w} : pc'[v] = pc[v] /\ at'[v] = at[v]
    BY <1>0, <1>2, Walk DEF WrapperType
  <2> QED BY <1>0, <2>1 DEF RestInv
<1>3. ASSUME NEW w \in Wrappers, Experiment(w) \/ KillExperiment(w)
      PROVE  RestInv'
  <2>1. PICK c \in 0 .. 2 : child[w] # 0 /\ Exit(w, c)
    BY <1>3, ExperimentEnds
  <2>2. \A v \in Wrappers \ {w} : pc'[v] = pc[v] /\ at'[v] = at[v]
    BY <1>0, <2>1, ExitMoves
  <2>3. pc'[w] = "off" => at'[w] = 1
    BY <1>0, <2>1 DEF Exit, WrapperType, RestInv, wrapper
  <2> QED BY <1>0, <2>2, <2>3 DEF RestInv
<1>4. ASSUME NEW w \in Wrappers, KillWrapper(w)
      PROVE  RestInv'
  BY <1>0, <1>4 DEF KillWrapper, Off, WrapperType, RestInv
<1>5. CASE Crash
  BY <1>5 DEF Crash, RestInv
<1>6. CASE StraysEnd \/ Change \/ Restore \/ Accept \/ KillAccept \/ UNCHANGED vars
  BY <1>0, <1>6 DEF StraysEnd, Change, Restore, Accept, AcceptCheck, AcceptArchive,
     AcceptReplace, KillAccept, vars, wrapper, RestInv
<1> QED
  BY <1>1, <1>2, <1>3, <1>4, <1>5, <1>6 DEF Next

\* What a wrapper knows of its run after a step of its own.
LEMMA StepsWalk ==
  ASSUME MatrixInv, [Next]_vars, NEW w \in Wrappers, Wrapper(w)
  PROVE  StepsOf(w)'
<1>0. WrapperType /\ RunsType /\ LockInv /\ StepsOf(w) /\ ZeroMarkerIsTrue /\ Runs \in Nat
  BY TypeParts, MatrixAssumption DEF MatrixInv, StepsInv
<1>1. /\ pc[w] \notin {"off", "running"} /\ child[w] = 0
      /\ UNCHANGED child \/ Start(w)
      /\ at[w] \in 1 .. Runs + 1
  BY <1>0, Walk DEF LockInv, WrapperType
\* A step to a place where nothing is known but the earlier runs.
<1>2. ASSUME child' = child, pc'[w] \in Places \ OnRun,
             \/ at'[w] = at[w]
             \/ at'[w] = at[w] + 1 /\ Verified(at[w])
      PROVE  StepsOf(w)'
  <2>1. \A e \in 1 .. Runs : e < at'[w] => Verified(e)'
    BY <1>1, <1>2, Earlier
  <2> QED
    BY <1>1, <1>2, <2>1 DEF StepsOf, OnRun, Unjudged
\* A step of the run at hand.
<1>3. ASSUME child' = child, at'[w] = at[w], at[w] <= Runs,
             pc'[w] \in Cleared => result'[at[w]] = None,
             pc'[w] \in Unjudged => marker'[at[w]] # 0,
             pc'[w] \in {"marking", "judging"} /\ code'[w] = 0 => Eligible(at[w])',
             pc'[w] = "judging" => marker'[at[w]] = code'[w]
      PROVE  StepsOf(w)'
  <2>1. \A e \in 1 .. Runs : e < at'[w] => Verified(e)'
    BY <1>1, <1>3, Earlier
  <2> QED
    BY <1>1, <1>3, <2>1 DEF StepsOf, Eligible
<1>4. ASSUME child' = child, pc'[w] = "off"
      PROVE  StepsOf(w)'
  BY <1>1, <1>4, StepsOff
<1>5. CASE CheckIdleFirst(w) \/ CompareFingerprint(w) \/ CopyFingerprint(w) \/ CopyEnds(w)
  <2>1. child' = child /\ (pc'[w] = "off" \/ (pc'[w] \in Places \ OnRun /\ at'[w] = at[w]))
    BY <1>0, <1>1, <1>5
    DEF CheckIdleFirst, CompareFingerprint, CopyFingerprint, CopyEnds, Check, Goto, Off,
        WrapperType,
       Places, OnRun, Unjudged, Cleared, host
  <2> QED BY <2>1, <1>2, <1>4
<1>6. CASE AlreadyPrepared(w) \/ Pull(w) \/ Snapshot(w) \/ Certify(w)
  <2>1. child' = child /\ (pc'[w] = "off" \/ (pc'[w] \in Places \ OnRun /\ at'[w] = at[w]))
    BY <1>0, <1>1, <1>6 DEF AlreadyPrepared, Pull, Snapshot, Certify, Check, Goto, Off,
       WrapperType, Places, OnRun, Unjudged, Cleared, host
  <2> QED BY <2>1, <1>2, <1>4
<1>7. CASE Skip(w)
  <2>1. /\ child' = child /\ pc'[w] = "next" /\ at'[w] = at[w] + 1 /\ Verified(at[w])
    BY <1>0, <1>7 DEF Skip, NextRun, WrapperType, host
  <2>2. "next" \in Places \ OnRun
    BY DEF Places, OnRun, Unjudged, Cleared
  <2> QED BY <2>1, <2>2, <1>2
<1>8. CASE Archive(w) \/ Fresh(w)
  <2>1. at[w] \in 1 .. Runs /\ ~Verified(at[w])
    BY <1>1, <1>8 DEF Archive, Fresh, AtRun
  <2>2. marker[at[w]] # 0
    BY <1>0, <2>1 DEF ZeroMarkerIsTrue, Verified
  <2>3. UNCHANGED <<child, marker>>
    BY <1>8 DEF Archive, Fresh, host, evidence
  <2>4. \/ pc'[w] = "off"
        \/ /\ pc'[w] \in {"archived", "checking"} /\ at'[w] = at[w]
           /\ result'[at[w]] = None
    BY <1>0, <1>8, <2>1 DEF Archive, Fresh, Goto, Off, WrapperType, RunsType, evidence
  <2> QED BY <1>3, <1>4, <2>1, <2>2, <2>3, <2>4
<1>9. CASE ArchiveMarker(w)
  <2>1. /\ at[w] \in 1 .. Runs /\ result[at[w]] = None
    BY <1>0, <1>1, <1>9 DEF ArchiveMarker, Check, StepsOf, OnRun, Unjudged, Cleared
  <2>2. /\ pc'[w] = "checking" /\ at'[w] = at[w] /\ result' = result
        /\ child' = child /\ marker'[at[w]] = -1
    BY <1>0, <1>9, <2>1 DEF ArchiveMarker, Check, Goto, WrapperType, RunsType, host
  <2> QED BY <1>3, <2>1, <2>2
<1>10. CASE CheckIdle(w) \/ CheckFingerprint(w) \/ CheckImages(w)
  <2>1. /\ at[w] \in 1 .. Runs /\ result[at[w]] = None /\ marker[at[w]] # 0
    BY <1>0, <1>1, <1>10 DEF CheckIdle, CheckFingerprint, CheckImages, Check, StepsOf, OnRun,
       Unjudged, Cleared
  <2>2. /\ UNCHANGED <<child, marker, result>>
        /\ \/ pc'[w] = "off"
           \/ pc'[w] \in {"fingerprint", "images", "ready"} /\ at'[w] = at[w]
    BY <1>0, <1>10 DEF CheckIdle, CheckFingerprint, CheckImages, Check, Goto, Off, WrapperType,
       host, evidence
  <2> QED BY <1>3, <1>4, <2>1, <2>2
<1>11. CASE Start(w)
  <2>1. /\ at[w] \in 1 .. Runs /\ marker[at[w]] # 0
    BY <1>0, <1>1, <1>11 DEF Start, StepsOf, OnRun, Unjudged, Cleared
  <2>2. /\ pc'[w] = "running" /\ at'[w] = at[w] /\ marker' = marker
        /\ child'[w] = at[w] /\ result'[at[w]].kind = "partial"
    BY <1>0, <1>11, <2>1 DEF Start, Goto, WrapperType, RunsType
  <2>3. \A e \in 1 .. Runs : e < at'[w] => Verified(e)'
    BY <1>1, <2>2, Earlier
  <2> QED
    BY <2>1, <2>2, <2>3 DEF StepsOf, OnRun, Unjudged, Cleared
<1>12. CASE StartFails(w)
  <2>1. /\ at[w] \in 1 .. Runs /\ marker[at[w]] # 0
    BY <1>0, <1>1, <1>12 DEF StartFails, StepsOf, OnRun, Unjudged, Cleared
  <2>2. /\ pc'[w] = "marking" /\ at'[w] = at[w] /\ code'[w] = 1
        /\ UNCHANGED <<child, marker>>
    BY <1>0, <1>12 DEF StartFails, WrapperType, host, evidence
  <2> QED BY <1>3, <2>1, <2>2 DEF Cleared
<1>13. CASE WriteMarker(w)
  <2>1. /\ at[w] \in 1 .. Runs /\ (code[w] = 0 => Eligible(at[w]))
    BY <1>0, <1>1, <1>13 DEF WriteMarker, Check, StepsOf, OnRun, Unjudged, Cleared
  <2>2. /\ pc'[w] = "judging" /\ at'[w] = at[w] /\ code' = code /\ result' = result
        /\ child' = child /\ marker'[at[w]] = code[w]
    BY <1>0, <1>13, <2>1 DEF WriteMarker, Check, Goto, WrapperType, RunsType, host
  <2> QED BY <1>3, <2>1, <2>2 DEF Cleared, Unjudged, Eligible
<1>14. CASE Judge(w)
  <2>1. marker[at[w]] = code[w]
    BY <1>0, <1>14 DEF Judge, StepsOf
  <2>2. /\ child' = child
        /\ \/ pc'[w] = "off"
           \/ pc'[w] = "next" /\ at'[w] = at[w] + 1 /\ Verified(at[w])
    BY <1>0, <1>14, <2>1 DEF Judge, NextRun, Off, WrapperType, Verified, host
  <2>3. "next" \in Places \ OnRun
    BY DEF Places, OnRun, Unjudged, Cleared
  <2> QED BY <2>2, <2>3, <1>2, <1>4
<1>15. CASE Complete(w)
  BY <1>0, <1>4, <1>15 DEF Complete, Off, WrapperType, host
<1> QED
  BY <1>5, <1>6, <1>7, <1>8, <1>9, <1>10, <1>11, <1>12, <1>13, <1>14, <1>15 DEF Wrapper

\* The knowledge of the wrappers survives every step.
LEMMA StepsStep == MatrixInv /\ [Next]_vars => StepsInv'
<1> SUFFICES ASSUME MatrixInv, [Next]_vars PROVE StepsInv'
  OBVIOUS
<1>0. /\ WrapperType /\ RunsType /\ LockInv /\ Runs \in Nat
      /\ ZeroMarkerIsTrue /\ CompleteMeansVerified
  BY TypeParts, MatrixAssumption DEF MatrixInv, StepsInv
<1>00. \A w \in Wrappers : StepsOf(w)
  BY DEF MatrixInv, StepsInv
<1>1. ZeroMarkerIsTrue'
  <2> SUFFICES ASSUME NEW e \in 1 .. Runs, marker'[e] = 0 PROVE Eligible(e)'
    BY DEF ZeroMarkerIsTrue
  <2>1. CASE marker[e] = 0
    <3>1. Verified(e)
      BY <1>0, <2>1 DEF ZeroMarkerIsTrue, Verified
    <3> QED BY <3>1, VerifiedStep DEF Verified, Eligible
  <2>2. CASE marker[e] # 0
    <3>1. PICK w \in Wrappers : ArchiveMarker(w) \/ WriteMarker(w)
      <4>1. marker' # marker
        BY <2>2
      <4>2. ASSUME NEW w \in Wrappers, Wrapper(w)
            PROVE  ArchiveMarker(w) \/ WriteMarker(w)
        BY <4>1, <4>2, MarkerMoves
      <4>3. ASSUME NEW w \in Wrappers, Experiment(w) \/ KillExperiment(w)
            PROVE  FALSE
        BY <1>0, <4>1, <4>3, ResultEnds
      <4>4. ASSUME \/ \E w \in Wrappers, option \in BOOLEAN : Invoke(w, option)
                   \/ \E w \in Wrappers : KillWrapper(w)
                   \/ Crash \/ StraysEnd \/ Change \/ Restore \/ Accept \/ KillAccept
                   \/ UNCHANGED vars
            PROVE  FALSE
        BY <4>1, <4>4 DEF Invoke, KillWrapper, Crash, StraysEnd, Change, Restore, Accept,
           AcceptCheck, AcceptArchive, AcceptReplace, KillAccept, vars, evidence
      <4> QED BY <4>2, <4>3, <4>4 DEF Next
    <3>2. at[w] = e
      BY <1>0, <2>2, <3>1 DEF ArchiveMarker, WriteMarker, RunsType
    <3>3. ~ArchiveMarker(w)
      <4>1. -1 # 0
        OBVIOUS
      <4>2. ArchiveMarker(w) => marker'[e] = -1
        BY <1>0, <3>2 DEF ArchiveMarker, RunsType
      <4> QED BY <4>1, <4>2
    <3>4. WriteMarker(w) /\ code[w] = 0 /\ pc[w] = "marking"
      BY <1>0, <3>1, <3>2, <3>3 DEF WriteMarker, Check, RunsType
    <3>5. Eligible(e)
      BY <1>00, <3>2, <3>4 DEF StepsOf
    <3> QED BY <3>4, <3>5 DEF WriteMarker, Eligible
  <2> QED BY <2>1, <2>2
<1>2. CompleteMeansVerified'
  <2> SUFFICES ASSUME completed', NEW e \in 1 .. Runs PROVE Verified(e)'
    BY DEF CompleteMeansVerified
  <2>1. CASE completed
    <3>1. Verified(e)
      BY <1>0, <2>1 DEF CompleteMeansVerified
    <3> QED BY <3>1, VerifiedStep DEF Verified, Eligible
  <2>2. CASE ~completed
    <3>1. PICK w \in Wrappers : Complete(w)
      <4>1. ASSUME NEW w \in Wrappers, Wrapper(w)
            PROVE  Complete(w)
        BY <2>2, <4>1
        DEF Wrapper, CheckIdleFirst, CompareFingerprint, CopyFingerprint, CopyEnds,
            AlreadyPrepared, Pull,
           Snapshot, Certify, Skip, Archive, ArchiveMarker, Fresh, CheckIdle,
           CheckFingerprint, CheckImages, Start, StartFails, WriteMarker, Judge, evidence
      <4>2. ASSUME NEW w \in Wrappers, Experiment(w) \/ KillExperiment(w)
            PROVE  FALSE
        BY <1>0, <2>2, <4>2, ResultEnds
      <4>3. ASSUME \/ \E w \in Wrappers, option \in BOOLEAN : Invoke(w, option)
                   \/ \E w \in Wrappers : KillWrapper(w)
                   \/ Crash \/ StraysEnd \/ Change \/ Restore \/ Accept \/ KillAccept
                   \/ UNCHANGED vars
            PROVE  FALSE
        BY <2>2, <4>3 DEF Invoke, KillWrapper, Crash, StraysEnd, Change, Restore, Accept,
           AcceptCheck, AcceptArchive, AcceptReplace, KillAccept, vars, evidence
      <4> QED BY <4>1, <4>2, <4>3 DEF Next
    <3>2. pc[w] # "off" /\ e < at[w]
      BY <1>0, <3>1 DEF Complete, WrapperType
    <3>3. Verified(e)
      BY <1>00, <3>2 DEF StepsOf
    <3> QED BY <3>3, VerifiedStep DEF Verified, Eligible
  <2> QED BY <2>1, <2>2
<1>3. ASSUME NEW w \in Wrappers, NEW option \in BOOLEAN, Invoke(w, option)
      PROVE  StepsInv'
  <2>1. \A v \in Wrappers : pc[v] = "off" /\ child[v] = 0
    BY <1>3, Free DEF Invoke, Active
  <2>2. ASSUME NEW v \in Wrappers PROVE StepsOf(v)'
    <3>1. CASE v # w
      BY <1>0, <1>3, <2>1, <3>1, StepsOff DEF Invoke, WrapperType, host
    <3>2. CASE v = w
      <4>1. pc'[w] = "entered" /\ child'[w] = 0 /\ at'[w] = at[w]
        BY <1>0, <1>3, <2>1 DEF Invoke, WrapperType, host
      <4>2. at[w] = 1
        BY <2>1 DEF MatrixInv, RestInv
      <4> QED BY <3>2, <4>1, <4>2 DEF StepsOf, OnRun, Unjudged, Cleared
    <3> QED BY <3>1, <3>2
  <2> QED BY <1>1, <1>2, <2>2 DEF StepsInv
<1>4. ASSUME NEW w \in Wrappers, Wrapper(w)
      PROVE  StepsInv'
  BY <1>1, <1>2, <1>4, StepsWalk, StepsOfOne DEF StepsInv
<1>5. ASSUME NEW w \in Wrappers, Experiment(w) \/ KillExperiment(w)
      PROVE  StepsInv'
  <2>1. StepsOf(w)'
    <3>1. PICK c \in 0 .. 2 : child[w] # 0 /\ Exit(w, c)
      BY <1>5, ExperimentEnds
    <3>2. CASE pc[w] = "off"
      BY <1>0, <3>1, <3>2, ExitMoves, StepsOff
    <3>3. CASE pc[w] = "running"
      <4>1. /\ pc'[w] = "marking" /\ at'[w] = at[w] /\ child'[w] = 0 /\ code'[w] = c
        BY <1>0, <3>1, <3>3, ExitMoves
      <4>2. at[w] = child[w] /\ at[w] <= Runs /\ marker[at[w]] # 0
        BY <1>0, <1>00, <3>1, <3>3 DEF LockInv, StepsOf, OnRun, Unjudged
      <4>3. marker' = marker
        BY <1>0, <1>5, ResultEnds
      <4>4. code'[w] = 0 => Eligible(at[w])'
        <5>1. CASE Passes(w)
          <6>1. result'[child[w]].kind = "eligible"
            BY <1>0, <5>1 DEF Passes, RunsType, Results
          <6> QED BY <4>1, <4>2, <6>1 DEF Eligible
        <5>2. CASE Fails(w) \/ KillExperiment(w)
          <6>1. \E d \in {1, 2} : Exit(w, d)
            <7>1. CASE Fails(w)
              <8>1. PICK kind : Exit(w, IF kind = "partial" THEN 1 ELSE 2)
                BY <7>1 DEF Fails
              <8> QED BY <8>1
            <7> QED BY <5>2, <7>1 DEF KillExperiment
          <6>2. code'[w] # 0
            BY <1>0, <3>3, <6>1 DEF Exit, WrapperType
          <6> QED BY <6>2
        <5> QED BY <1>5, <5>1, <5>2 DEF Experiment
      <4>5. \A e \in 1 .. Runs : e < at'[w] => Verified(e)'
        BY <3>3, <4>1, Earlier
      <4> QED
        BY <4>1, <4>2, <4>3, <4>4, <4>5 DEF StepsOf, OnRun, Unjudged, Cleared, Eligible
    <3> QED BY <1>0, <3>1, <3>2, <3>3 DEF LockInv
  <2> QED BY <1>1, <1>2, <1>5, <2>1, StepsOfOne DEF StepsInv
<1>6. ASSUME NEW w \in Wrappers, KillWrapper(w)
      PROVE  StepsInv'
  <2>1. pc'[w] = "off" /\ UNCHANGED <<child, result, marker>>
    BY <1>0, <1>6 DEF KillWrapper, Off, WrapperType, host, evidence
  <2>2. StepsOf(w)'
    BY <1>00, <2>1 DEF StepsOf, OnRun, Unjudged, Cleared
  <2> QED BY <1>1, <1>2, <1>6, <2>2, StepsOfOne DEF StepsInv
<1>7. CASE Crash
  <2>1. \A w \in Wrappers : pc'[w] = "off" /\ child'[w] = 0
    BY <1>7 DEF Crash
  <2> QED BY <1>1, <1>2, <2>1, StepsOff DEF StepsInv
<1>8. CASE StraysEnd \/ Change \/ Restore \/ Accept \/ KillAccept \/ UNCHANGED vars
  <2>1. UNCHANGED <<wrapper, child, result, marker>>
    BY <1>8 DEF StraysEnd, Change, Restore, Accept, AcceptCheck, AcceptArchive, AcceptReplace,
       KillAccept, vars, host, evidence
  <2>2. \A w \in Wrappers : StepsOf(w)'
    BY <1>00, <2>1 DEF StepsOf, Eligible, Verified, wrapper
  <2> QED BY <1>1, <1>2, <2>2 DEF StepsInv
<1> QED
  BY <1>3, <1>4, <1>5, <1>6, <1>7, <1>8 DEF Next
-----------------------------------------------------------------------------
(* Attempts *)

\* Every attempt keeps its number, in its place or below _attempts.
LEMMA AttemptsStep == MatrixInv /\ [Next]_vars => AttemptsInv'
<1> SUFFICES ASSUME MatrixInv, [Next]_vars PROVE AttemptsInv'
  OBVIOUS
<1>0. WrapperType /\ RunsType /\ AttemptsInv /\ Runs \in Nat
  BY TypeParts, MatrixAssumption DEF MatrixInv
<1>00. \A w \in Wrappers : StepsOf(w)
  BY DEF MatrixInv, StepsInv
<1>1. ASSUME UNCHANGED <<result, tries, attempts>>
      PROVE  AttemptsInv'
  BY <1>0, <1>1 DEF AttemptsInv
<1>2. ASSUME NEW w \in Wrappers, Archive(w), result[at[w]] # None
      PROVE  AttemptsInv'
  <2>1. at[w] \in 1 .. Runs
    BY <1>0, <1>2 DEF Archive, AtRun, WrapperType
  <2>2. CASE ~retry[w]
    BY <1>1, <1>2, <2>2 DEF Archive
  <2>3. CASE retry[w]
    <3> DEFINE t == result[at[w]].try
    <3>1. /\ tries' = tries
          /\ attempts' = attempts \cup {t}
          /\ result'[at[w]] = None
          /\ \A e \in 1 .. Runs : e # at[w] => result'[e] = result[e]
      BY <1>0, <1>2, <2>1, <2>3 DEF Archive, RunsType
    <3>2. t \in 1 .. tries
      BY <1>0, <1>2, <2>1 DEF AttemptsInv, RunsType
    <3>3. None.try = 0 /\ 0 \notin attempts'
      BY <1>0, <3>1, <3>2 DEF None, RunsType
    <3>4. ASSUME NEW e \in 1 .. Runs
          PROVE  /\ result'[e].try \in 0 .. tries' \ attempts'
                 /\ result'[e].try = 0 <=> result'[e] = None
      <4>1. CASE e = at[w]
        BY <1>0, <3>1, <3>3, <4>1 DEF RunsType
      <4>2. CASE e # at[w]
        <5>1. result[e].try # t
          BY <1>2, <2>1, <4>2, <1>0 DEF AttemptsInv
        <5>2. result'[e] = result[e] /\ result[e].try \in 0 .. tries \ attempts
              /\ (result[e].try = 0 <=> result[e] = None)
          BY <1>0, <3>1, <4>2 DEF AttemptsInv
        <5> QED BY <3>1, <5>1, <5>2
      <4> QED BY <4>1, <4>2
    <3>5. ASSUME NEW e \in 1 .. Runs, NEW f \in 1 .. Runs,
                 result'[e].try = result'[f].try, result'[e] # None
          PROVE  e = f
      <4>1. result'[f] # None
        BY <3>4, <3>5
      <4>2. e # at[w] /\ f # at[w]
        BY <3>1, <3>5, <4>1
      <4> QED BY <1>0, <3>1, <3>5, <4>2 DEF AttemptsInv
    <3>6. ASSUME NEW n \in 1 .. tries', n \notin attempts'
          PROVE  \E e \in 1 .. Runs : result'[e].try = n
      <4>1. n # t /\ n \notin attempts /\ n \in 1 .. tries
        BY <3>1, <3>6
      <4>2. PICK e \in 1 .. Runs : result[e].try = n
        BY <1>0, <4>1 DEF AttemptsInv
      <4>3. e # at[w]
        BY <4>1, <4>2
      <4> QED BY <3>1, <4>2, <4>3
    <3> HIDE DEF t
    <3> QED BY <3>4, <3>5, <3>6 DEF AttemptsInv
  <2> QED BY <2>2, <2>3
<1>3. ASSUME NEW w \in Wrappers, Start(w)
      PROVE  AttemptsInv'
  <2>1. at[w] \in 1 .. Runs /\ result[at[w]] = None
    BY <1>0, <1>00, <1>3 DEF Start, StepsOf, OnRun, Unjudged, Cleared, WrapperType
  <2>2. /\ tries' = tries + 1 /\ attempts' = attempts
        /\ result'[at[w]].try = tries + 1 /\ result'[at[w]].kind = "partial"
        /\ \A e \in 1 .. Runs : e # at[w] => result'[e] = result[e]
    BY <1>0, <1>3, <2>1 DEF Start, RunsType
  <2>3. result'[at[w]] # None /\ None.try = 0
    BY <2>2 DEF None
  <2>4. tries \in Nat /\ attempts \subseteq 1 .. tries
    BY <1>0 DEF RunsType
  <2>5. ASSUME NEW e \in 1 .. Runs
        PROVE  /\ result'[e].try \in 0 .. tries' \ attempts'
               /\ result'[e].try = 0 <=> result'[e] = None
               /\ e # at[w] => result'[e].try < tries + 1
    <3>1. CASE e = at[w]
      BY <2>2, <2>3, <2>4, <3>1
    <3>2. CASE e # at[w]
      <4>1. /\ result'[e] = result[e] /\ result[e].try \in 0 .. tries \ attempts
            /\ result[e].try = 0 <=> result[e] = None
        BY <1>0, <2>2, <3>2 DEF AttemptsInv
      <4> QED BY <2>2, <2>4, <3>2, <4>1
    <3> QED BY <3>1, <3>2
  <2>6. ASSUME NEW e \in 1 .. Runs, NEW f \in 1 .. Runs,
               result'[e].try = result'[f].try, result'[e] # None
        PROVE  e = f
    <3>1. CASE e = at[w] \/ f = at[w]
      BY <2>2, <2>4, <2>5, <2>6, <3>1
    <3>2. CASE e # at[w] /\ f # at[w]
      BY <1>0, <2>2, <2>6, <3>2 DEF AttemptsInv
    <3> QED BY <3>1, <3>2
  <2>7. ASSUME NEW n \in 1 .. tries', n \notin attempts'
        PROVE  \E e \in 1 .. Runs : result'[e].try = n
    <3>1. CASE n = tries + 1
      BY <2>1, <2>2, <3>1
    <3>2. CASE n # tries + 1
      <4>1. n \in 1 .. tries
        BY <2>2, <2>4, <3>2
      <4>2. PICK e \in 1 .. Runs : result[e].try = n
        BY <1>0, <2>2, <2>7, <4>1 DEF AttemptsInv
      <4>3. e # at[w]
        BY <2>1, <2>3, <4>1, <4>2
      <4> QED BY <2>2, <4>2, <4>3
    <3> QED BY <3>1, <3>2
  <2> QED BY <2>5, <2>6, <2>7 DEF AttemptsInv
<1>4. ASSUME NEW w \in Wrappers, Experiment(w) \/ KillExperiment(w)
      PROVE  AttemptsInv'
  <2>1. CASE UNCHANGED result
    BY <1>0, <1>1, <1>4, <2>1, ResultEnds
  <2>2. ASSUME NEW kind \in {"partial", "rejected", "eligible"},
               result' = [result EXCEPT ![child[w]].kind = kind]
        PROVE  AttemptsInv'
    <3>1. child[w] \in 1 .. Runs /\ UNCHANGED <<attempts, tries>>
      BY <1>0, <1>4, ResultEnds
    <3>2. result[child[w]] # None /\ result'[child[w]] # None
      <4>1. result[child[w]].kind = "partial"
        BY <1>00, <3>1 DEF StepsOf
      <4>2. result'[child[w]].kind = kind
        BY <1>0, <2>2, <3>1, Judged DEF RunsType
      <4> QED BY <4>1, <4>2 DEF None
    <3>3. \A e \in 1 .. Runs : result'[e].try = result[e].try
      BY <1>0, <2>2, <3>1, Judged DEF RunsType
    <3>4. \A e \in 1 .. Runs : result'[e] = None <=> result[e] = None
      BY <1>0, <1>4, <3>2, ResultEnds
    <3> QED BY <1>0, <3>1, <3>3, <3>4 DEF AttemptsInv
  <2> QED BY <1>0, <1>4, <2>1, <2>2, ResultEnds
<1>5. CASE \/ \E w \in Wrappers, option \in BOOLEAN : Invoke(w, option)
           \/ \E w \in Wrappers : KillWrapper(w)
           \/ Crash \/ StraysEnd \/ Change \/ Restore \/ Accept \/ KillAccept \/ UNCHANGED vars
  BY <1>1, <1>5 DEF Invoke, KillWrapper, Crash, StraysEnd, Change, Restore, Accept, AcceptCheck,
     AcceptArchive, AcceptReplace, KillAccept, vars, evidence
<1>6. ASSUME NEW w \in Wrappers, Wrapper(w)
      PROVE  AttemptsInv'
  BY <1>1, <1>2, <1>3, <1>6, ResultMoves
<1> QED
  BY <1>4, <1>5, <1>6 DEF Next
-----------------------------------------------------------------------------
(* Source and images *)

ResultsCome == \A e \in 1 .. Runs : result[e] # None => ComesFrom(e)

AcceptKnows ==
  /\ accept # "off" => stored = "original" /\ tree = "isolated"
  /\ accept = "archived" => tree \in transitions
  /\ transitions \subseteq {"isolated"}

\* Without an attempt there is no result.
LEMMA Untried ==
  ASSUME MatrixInv, tries = 0, NEW e \in 1 .. Runs
  PROVE  result[e] = None
<1>1. result[e].try \in 0 .. tries /\ (result[e].try = 0 <=> result[e] = None)
  BY DEF MatrixInv, AttemptsInv
<1> QED
  BY <1>1

\* What is left to show for the origins after a step of one wrapper.
LEMMA OriginOfOne ==
  ASSUME MatrixInv, NEW w \in Wrappers, OriginOf(w)', ResultsCome', tries' > 0 => prepared',
         Wrapper(w) \/ Experiment(w) \/ KillExperiment(w) \/ KillWrapper(w)
  PROVE  OriginInv'
<1>1. WrapperType /\ RunsType /\ LockInv
  BY TypeParts DEF MatrixInv
<1>2. accept' = "off" /\ \A v \in Wrappers \ {w} : pc'[v] = "off"
  BY <1>1, Alone
<1>3. \A v \in Wrappers \ {w} : OriginOf(v)'
  BY <1>2 DEF OriginOf, OnRun, Unjudged, Cleared
<1>4. transitions' \subseteq {"isolated"}
  <2>1. transitions' = transitions
    BY <1>1, Walk DEF Experiment, Passes, Fails, KillExperiment, KillWrapper, transition
  <2> QED BY <2>1 DEF MatrixInv, OriginInv
<1> QED
  BY <1>2, <1>3, <1>4 DEF OriginInv, ResultsCome

\* Source, images and control files as they were.
LEMMA OriginKept ==
  ASSUME MatrixInv, UNCHANGED <<environment, control, transitions, result, tries>>
  PROVE  ResultsCome' /\ (tries' > 0 => prepared')
BY DEF MatrixInv, OriginInv, ResultsCome, ComesFrom, environment, control

\* What a wrapper knows of source and images after a step of its own.
LEMMA OriginWalk ==
  ASSUME MatrixInv, NEW w \in Wrappers, Wrapper(w)
  PROVE  OriginOf(w)' /\ ResultsCome' /\ (tries' > 0 => prepared')
<1>0. /\ WrapperType /\ RunsType /\ HostType /\ OriginOf(w) /\ ResultsCome
      /\ tries > 0 => prepared
  BY TypeParts DEF MatrixInv, OriginInv, ResultsCome
<1>00. pc[w] # "off" /\ UNCHANGED <<tree, transitions>>
  BY <1>0, Walk
<1>1. CASE CheckIdleFirst(w)
  <2>1. pc'[w] \in {"off", "idle"} /\ UNCHANGED <<environment, control, result, tries>>
    BY <1>0, <1>1 DEF CheckIdleFirst, Check, Goto, Off, WrapperType, evidence
  <2> QED BY <1>00, <2>1, OriginKept DEF OriginOf, OnRun, Unjudged, Cleared
<1>2. CASE CompareFingerprint(w)
  <2>1. /\ pc[w] = "idle" /\ (pc'[w] = "off" \/ (pc'[w] = "preparing" /\ stored = tree))
        /\ UNCHANGED <<environment, control, result, tries>>
    BY <1>0, <1>2 DEF CompareFingerprint, Check, Goto, Off, WrapperType, evidence
  <2>2. OriginOf(w)'
    BY <1>0, <2>1 DEF OriginOf, OnRun, Unjudged, Cleared, control, HostType
  <2> QED BY <1>00, <2>1, <2>2, OriginKept
<1>15. CASE CopyFingerprint(w) \/ CopyEnds(w)
  <2>1. /\ \/ pc'[w] = "storing" /\ stored' = "torn" /\ stored = "none"
           \/ pc'[w] = "preparing" /\ stored' \in Trees /\ stored = "torn"
        /\ UNCHANGED <<environment, baseline, prepared, result, tries>>
    BY <1>0, <1>15
    DEF CopyFingerprint, CopyEnds, Check, Goto, WrapperType, HostType, OriginOf, evidence
  <2>2. tries = 0 /\ tries' = 0
    BY <1>0, <2>1 DEF HostType, RunsType, Trees
  <2>3. ResultsCome'
    BY <2>1, <2>2, Untried DEF ResultsCome
  <2> QED BY <1>0, <2>1, <2>2, <2>3 DEF OriginOf, OnRun, Unjudged, Cleared
<1>3. CASE AlreadyPrepared(w)
  <2>1. /\ pc[w] = "preparing" /\ pc'[w] = "next" /\ prepared
        /\ UNCHANGED <<environment, control, result, tries>>
    BY <1>0, <1>3 DEF AlreadyPrepared, Check, Goto, WrapperType, evidence
  <2>2. OriginOf(w)'
    BY <1>0, <2>1 DEF OriginOf, OnRun, Unjudged, Cleared, control
  <2> QED BY <1>00, <2>1, <2>2, OriginKept
<1>4. CASE Pull(w)
  <2>1. /\ pc[w] = "preparing" /\ pc'[w] \in {"off", "snapshot"}
        /\ pc'[w] = "snapshot" => tries = 0
        /\ UNCHANGED <<control, result, tries>>
    BY <1>0, <1>4 DEF Pull, Measured, Check, Goto, Off, WrapperType, RunsType, evidence
  <2>2. OriginOf(w)'
    BY <1>0, <2>1 DEF OriginOf, OnRun, Unjudged, Cleared, control
  <2>3. ResultsCome'
    BY <1>0, <1>00, <2>1 DEF ResultsCome, ComesFrom, control
  <2> QED BY <1>0, <2>1, <2>2, <2>3 DEF control
<1>5. CASE Snapshot(w)
  <2>1. /\ pc[w] = "snapshot" /\ pc'[w] = "certify" /\ baseline' = image
        /\ UNCHANGED <<environment, stored, prepared, result, tries>>
    BY <1>0, <1>5 DEF Snapshot, Check, Goto, WrapperType, evidence
  <2>2. tries = 0 /\ image # "none"
    BY <1>0, <2>1 DEF OriginOf, HostType, Images
  <2>3. ResultsCome'
    BY <2>1, <2>2, Untried DEF ResultsCome
  <2>4. OriginOf(w)'
    BY <1>0, <2>1, <2>2 DEF OriginOf, OnRun, Unjudged, Cleared
  <2> QED BY <1>0, <2>1, <2>3, <2>4
<1>6. CASE Certify(w)
  <2>1. /\ pc[w] = "certify" /\ pc'[w] = "next" /\ prepared'
        /\ UNCHANGED <<environment, stored, baseline, result, tries>>
    BY <1>0, <1>6 DEF Certify, Check, Goto, WrapperType, evidence
  <2>2. ResultsCome'
    BY <1>0, <1>00, <2>1 DEF ResultsCome, ComesFrom
  <2>3. OriginOf(w)'
    BY <1>0, <2>1 DEF OriginOf, OnRun, Unjudged, Cleared
  <2> QED BY <2>1, <2>2, <2>3
\* The steps on the way to the next check, and after the run.
<1>7. ASSUME UNCHANGED <<environment, control, result, tries>>,
             pc[w] \in OnRun \cup {"next"},
             pc'[w] \in (OnRun \cup {"next", "off"}) \ {"images", "ready"}
      PROVE  OriginOf(w)' /\ ResultsCome' /\ (tries' > 0 => prepared')
  <2>1. OriginOf(w)'
    BY <1>0, <1>7 DEF OriginOf, OnRun, Unjudged, Cleared, control
  <2> QED BY <1>00, <1>7, <2>1, OriginKept
<1>8. CASE Skip(w) \/ Fresh(w) \/ CheckIdle(w) \/ Judge(w)
  BY <1>0, <1>7, <1>8 DEF Skip, Fresh, CheckIdle, Judge, AtRun, Check, Goto, Off, NextRun,
     WrapperType, OnRun, Unjudged, Cleared, evidence
<1>9. CASE ArchiveMarker(w) \/ StartFails(w) \/ WriteMarker(w) \/ Complete(w)
  BY <1>0, <1>7, <1>9 DEF ArchiveMarker, StartFails, WriteMarker, Complete, Check, Goto, Off,
     WrapperType, OnRun, Unjudged, Cleared, evidence
<1>10. CASE Archive(w)
  <2>1. /\ pc[w] = "next" /\ pc'[w] \in {"off", "archived"}
        /\ UNCHANGED <<environment, control, tries>>
        /\ \A e \in 1 .. Runs : result'[e] \in {result[e], None}
    BY <1>0, <1>10 DEF Archive, AtRun, Goto, Off, WrapperType, RunsType
  <2>2. OriginOf(w)'
    BY <1>0, <2>1 DEF OriginOf, OnRun, Unjudged, Cleared, control
  <2>3. ResultsCome'
    BY <1>0, <1>00, <2>1 DEF ResultsCome, ComesFrom, control, environment
  <2> QED BY <1>0, <2>1, <2>2, <2>3 DEF control
<1>11. CASE CheckFingerprint(w)
  <2>1. /\ pc[w] = "fingerprint" /\ (pc'[w] = "off" \/ (pc'[w] = "images" /\ tree = stored))
        /\ UNCHANGED <<environment, control, result, tries>>
    BY <1>0, <1>11 DEF CheckFingerprint, Check, Goto, Off, WrapperType, evidence
  <2>2. OriginOf(w)'
    BY <1>0, <1>00, <2>1 DEF OriginOf, OnRun, Unjudged, Cleared, control
  <2> QED BY <1>00, <2>1, <2>2, OriginKept
<1>12. CASE CheckImages(w)
  <2>1. /\ pc[w] = "images" /\ (pc'[w] = "off" \/ (pc'[w] = "ready" /\ image = baseline))
        /\ UNCHANGED <<environment, control, result, tries>>
    BY <1>0, <1>12 DEF CheckImages, Check, Goto, Off, WrapperType, evidence
  <2>2. OriginOf(w)'
    BY <1>0, <1>00, <2>1 DEF OriginOf, OnRun, Unjudged, Cleared, control, environment
  <2> QED BY <1>00, <2>1, <2>2, OriginKept
<1>13. CASE Start(w)
  <2>1. /\ pc[w] = "ready" /\ pc'[w] = "running" /\ at[w] \in 1 .. Runs
        /\ UNCHANGED <<environment, control>>
    <3>1. at[w] \in 1 .. Runs
      BY <1>0, <1>13
      DEF MatrixInv, StepsInv, StepsOf, Start, OnRun, Unjudged, Cleared, WrapperType
    <3> QED BY <1>0, <1>13, <3>1 DEF Start, Goto, WrapperType
  <2>2. tree = stored /\ image = baseline /\ prepared /\ stored \in Trees
    BY <1>0, <2>1 DEF OriginOf, OnRun, Unjudged, Cleared
  <2>3. /\ result'[at[w]].tree = tree /\ result'[at[w]].image = image
        /\ \A e \in 1 .. Runs : e # at[w] => result'[e] = result[e]
    BY <1>0, <1>13, <2>1 DEF Start, RunsType
  <2>4. ResultsCome'
    <3> SUFFICES ASSUME NEW e \in 1 .. Runs, result'[e] # None PROVE ComesFrom(e)'
      BY DEF ResultsCome
    <3>1. CASE e = at[w]
      BY <2>1, <2>2, <2>3, <3>1 DEF ComesFrom, control
    <3>2. CASE e # at[w]
      BY <1>0, <1>00, <2>1, <2>3, <3>2 DEF ResultsCome, ComesFrom, control
    <3> QED BY <3>1, <3>2
  <2>5. OriginOf(w)'
    BY <1>0, <2>1, <2>2 DEF OriginOf, OnRun, Unjudged, Cleared, control
  <2> QED BY <2>1, <2>2, <2>4, <2>5 DEF control
<1> QED
  BY <1>1, <1>2, <1>3, <1>4, <1>5, <1>6, <1>8, <1>9, <1>10, <1>11, <1>12, <1>13, <1>15
  DEF Wrapper

\* All that is known of source and images survives every step.
LEMMA OriginStep == MatrixInv /\ [Next]_vars => OriginInv'
<1> SUFFICES ASSUME MatrixInv, [Next]_vars PROVE OriginInv'
  OBVIOUS
<1>0. /\ WrapperType /\ RunsType /\ HostType /\ LockInv /\ ResultsCome
      /\ tries > 0 => prepared
      /\ AcceptKnows
      /\ \A w \in Wrappers : OriginOf(w)
  BY TypeParts DEF MatrixInv, OriginInv, ResultsCome, AcceptKnows
<1>1. ASSUME NEW w \in Wrappers, NEW option \in BOOLEAN, Invoke(w, option)
      PROVE  OriginInv'
  <2>1. UNCHANGED <<environment, control, result, tries, transition>>
    BY <1>1 DEF Invoke, evidence
  <2>2. \A v \in Wrappers : pc'[v] \in {"off", "entered"}
    BY <1>0, <1>1, Free DEF Invoke, WrapperType, Active
  <2>3. \A v \in Wrappers : OriginOf(v)'
    BY <2>2 DEF OriginOf, OnRun, Unjudged, Cleared
  <2>4. ResultsCome' /\ (tries' > 0 => prepared')
    BY <2>1, OriginKept DEF transition
  <2>5. AcceptKnows'
    BY <1>0, <2>1 DEF AcceptKnows, environment, control, transition
  <2> QED BY <2>3, <2>4, <2>5 DEF OriginInv, ResultsCome, AcceptKnows
<1>2. ASSUME NEW w \in Wrappers, Wrapper(w)
      PROVE  OriginInv'
  BY <1>2, OriginWalk, OriginOfOne
<1>3. ASSUME NEW w \in Wrappers, Experiment(w) \/ KillExperiment(w)
      PROVE  OriginInv'
  <2>1. /\ UNCHANGED <<environment, control, tries, transition>>
        /\ pc'[w] \in {"off", "marking"}
        /\ pc'[w] = "marking" => pc[w] = "running"
    <3>1. UNCHANGED <<environment, control, transition>>
      BY <1>3 DEF Experiment, Passes, Fails, KillExperiment
    <3>2. tries' = tries
      BY <1>0, <1>3, ResultEnds
    <3>3. PICK c \in 0 .. 2 : child[w] # 0 /\ Exit(w, c)
      BY <1>3, ExperimentEnds
    <3> QED BY <1>0, <3>1, <3>2, <3>3, ExitMoves
  <2>2. OriginOf(w)'
    BY <1>0, <2>1 DEF OriginOf, OnRun, Unjudged, Cleared, control
  <2>3. ASSUME NEW e \in 1 .. Runs
        PROVE  /\ result'[e].tree = result[e].tree /\ result'[e].image = result[e].image
               /\ result'[e] # None => result[e] # None
    <3>1. CASE e # child[w]
      BY <1>0, <1>3, <3>1, ResultEnds
    <3>2. CASE e = child[w]
      <4>1. result[e] # None
        <5>1. result[child[w]].kind = "partial"
          BY <1>0, <1>3, ExperimentEnds DEF MatrixInv, StepsInv, StepsOf
        <5> QED BY <3>2, <5>1 DEF None
      <4>2. result'[e].tree = result[e].tree /\ result'[e].image = result[e].image
        <5>1. CASE UNCHANGED result
          BY <5>1
        <5>2. ASSUME NEW kind, result' = [result EXCEPT ![child[w]].kind = kind]
              PROVE  result'[e].tree = result[e].tree /\ result'[e].image = result[e].image
          BY <1>0, <5>2 DEF RunsType, Results
        <5> QED BY <1>0, <1>3, <5>1, <5>2, ResultEnds
      <4> QED BY <4>1, <4>2
    <3> QED BY <3>1, <3>2
  <2>4. ResultsCome'
    BY <1>0, <2>1, <2>3 DEF ResultsCome, ComesFrom, control, transition
  <2> QED BY <1>0, <1>3, <2>1, <2>2, <2>4, OriginOfOne DEF control
<1>4. ASSUME NEW w \in Wrappers, KillWrapper(w)
      PROVE  OriginInv'
  <2>1. /\ pc'[w] = "off"
        /\ UNCHANGED <<environment, control, transitions, result, tries>>
    BY <1>0, <1>4 DEF KillWrapper, Off, WrapperType, evidence, transition
  <2>2. OriginOf(w)'
    BY <2>1 DEF OriginOf, OnRun, Unjudged, Cleared
  <2> QED BY <1>4, <2>1, <2>2, OriginKept, OriginOfOne
<1>5. CASE Crash
  <2>1. /\ \A w \in Wrappers : pc'[w] = "off"
        /\ UNCHANGED <<environment, control, transitions, result, tries>>
        /\ accept' = "off"
    BY <1>5 DEF Crash, evidence
  <2>2. \A w \in Wrappers : OriginOf(w)'
    BY <2>1 DEF OriginOf, OnRun, Unjudged, Cleared
  <2>3. ResultsCome' /\ (tries' > 0 => prepared')
    BY <2>1, OriginKept
  <2> QED BY <1>0, <2>1, <2>2, <2>3 DEF OriginInv, ResultsCome, AcceptKnows
<1>6. CASE Change \/ Restore
  <2>1. /\ UNCHANGED <<pc, control, accept, transitions, result, tries>>
        /\ accept = "off"
        /\ \A w \in Wrappers : pc[w] \notin {"snapshot", "certify", "images", "ready"}
    BY <1>6 DEF Change, Restore, Undisturbed, wrapper, evidence, transition
  <2>2. \A w \in Wrappers : OriginOf(w)'
    BY <1>0, <2>1 DEF OriginOf, control
  <2>3. ResultsCome' /\ (tries' > 0 => prepared')
    BY <1>0, <2>1 DEF ResultsCome, ComesFrom, control
  <2> QED BY <1>0, <2>1, <2>2, <2>3 DEF OriginInv, ResultsCome, AcceptKnows
<1>7. CASE AcceptCheck \/ AcceptArchive \/ KillAccept
  <2>1. /\ UNCHANGED <<pc, environment, control, result, tries>>
        /\ transitions \subseteq transitions'
        /\ AcceptKnows'
    BY <1>0, <1>7 DEF AcceptCheck, AcceptArchive, KillAccept, AcceptKnows, wrapper, environment,
       control, evidence
  <2>2. \A w \in Wrappers : OriginOf(w)'
    BY <1>0, <2>1 DEF OriginOf, environment, control
  <2>3. ResultsCome' /\ (tries' > 0 => prepared')
    BY <1>0, <2>1 DEF ResultsCome, ComesFrom, control
  <2> QED BY <2>1, <2>2, <2>3 DEF OriginInv, ResultsCome, AcceptKnows
<1>8. CASE AcceptReplace
  <2>1. /\ UNCHANGED <<pc, environment, baseline, prepared, transitions, result, tries>>
        /\ stored = "original" /\ tree \in transitions /\ stored' = tree /\ accept' = "off"
        /\ accept # "off"
    BY <1>0, <1>8 DEF AcceptReplace, AcceptKnows, wrapper, evidence
  <2>2. \A w \in Wrappers : pc'[w] = "off"
    BY <1>0, <2>1 DEF LockInv, Active
  <2>3. \A w \in Wrappers : OriginOf(w)'
    BY <2>2 DEF OriginOf, OnRun, Unjudged, Cleared
  <2>4. ResultsCome'
    BY <1>0, <2>1 DEF ResultsCome, ComesFrom
  <2> QED BY <1>0, <2>1, <2>3, <2>4 DEF OriginInv, ResultsCome, AcceptKnows
<1>9. CASE StraysEnd \/ UNCHANGED vars
  <2>1. UNCHANGED <<pc, environment, control, transition, result, tries>>
    BY <1>9 DEF StraysEnd, vars, wrapper, evidence
  <2>2. \A w \in Wrappers : OriginOf(w)'
    BY <1>0, <2>1 DEF OriginOf, environment, control
  <2>3. ResultsCome' /\ (tries' > 0 => prepared')
    BY <2>1, OriginKept DEF transition
  <2>4. AcceptKnows'
    BY <1>0, <2>1 DEF AcceptKnows, environment, control, transition
  <2> QED BY <2>2, <2>3, <2>4 DEF OriginInv, ResultsCome, AcceptKnows
<1> QED
  BY <1>1, <1>2, <1>3, <1>4, <1>5, <1>6, <1>7, <1>8, <1>9 DEF Next, Accept

-----------------------------------------------------------------------------
(* Theorems *)

\* The invariant holds before anything was started.
LEMMA MatrixInvInit == Init => MatrixInv
<1> SUFFICES ASSUME Init PROVE MatrixInv
  OBVIOUS
<1>0. Runs \in Nat \ {0}
  BY MatrixAssumption
<1>1. MatrixTypeOK
  BY TypeInit
<1>2. LockInv /\ CleanInv /\ RestInv
  BY DEF Init, LockInv, Active, CleanInv, CleanOf, RestInv
<1>3. StepsInv
  BY DEF Init, StepsInv, StepsOf, OnRun, Unjudged, Cleared, ZeroMarkerIsTrue, CompleteMeansVerified
<1>4. AttemptsInv
  BY <1>0 DEF Init, AttemptsInv, None
<1>5. OriginInv
  BY DEF Init, OriginInv, OriginOf, OnRun, Unjudged, Cleared
<1> QED
  BY <1>1, <1>2, <1>3, <1>4, <1>5 DEF MatrixInv

\* The inductive invariant of a series.
THEOREM MatrixInvariant == Spec => []MatrixInv
<1>1. MatrixInv /\ [Next]_vars => MatrixInv'
  BY TypeStep, LockStep, CleanStep, StepsStep, RestStep, AttemptsStep, OriginStep DEF MatrixInv
<1> QED
  BY <1>1, MatrixInvInit, PTL DEF Spec

\* MatrixTypeOK: every control file holds what the scripts expect there.
THEOREM MatrixIsTyped == Spec => []MatrixTypeOK
BY MatrixInvariant, PTL DEF MatrixInv

\* OneExperiment: two measurements never share the host, however many wrappers are
\* started and killed.
THEOREM HostIsExclusive == Spec => []OneExperiment
<1>1. MatrixInv => OneExperiment
  <2> SUFFICES ASSUME MatrixInv PROVE OneExperiment
    OBVIOUS
  <2>1. \A v, w \in Experiments : v = w
    BY DEF MatrixInv, LockInv, Active, Experiments
  <2>2. Cardinality(Experiments) <= 1
    <3>1. CASE Experiments = {}
      <4>1. Cardinality({}) = 0
        BY FS_EmptySet, Zenon
      <4> QED BY <3>1, <4>1
    <3>2. CASE Experiments # {}
      <4>1. PICK w : Experiments = {w}
        BY <2>1, <3>2
      <4>2. Cardinality({w}) = 1
        BY FS_Singleton, Zenon
      <4> QED BY <4>1, <4>2
    <3> QED BY <3>1, <3>2
  <2>3. Experiments # {} => ~strays /\ ~leftover
    BY DEF MatrixInv, CleanInv, CleanOf, Experiments
  <2> QED BY <2>2, <2>3 DEF OneExperiment
<1> QED
  BY <1>1, MatrixInvariant, PTL

\* ZeroMarkerIsTrue: an exit marker of 0 belongs to an admitted result.
THEOREM MarkersAreTrue == Spec => []ZeroMarkerIsTrue
<1>1. MatrixInv => ZeroMarkerIsTrue
  BY DEF MatrixInv, StepsInv
<1> QED
  BY <1>1, MatrixInvariant, PTL

\* CompleteMeansVerified: completed.txt is written after every run was verified.
THEOREM CompletionIsTrue == Spec => []CompleteMeansVerified
<1>1. MatrixInv => CompleteMeansVerified
  BY DEF MatrixInv, StepsInv
<1> QED
  BY <1>1, MatrixInvariant, PTL

\* AttemptsPreserved: every attempt is in its place or in the archive, never in both.
THEOREM NoAttemptIsLost == Spec => []AttemptsPreserved
<1>1. MatrixInv => AttemptsPreserved
  <2> SUFFICES ASSUME MatrixInv, NEW n \in 1 .. tries
      PROVE (\E e \in 1 .. Runs : result[e].try = n) # (n \in attempts)
    BY DEF AttemptsPreserved
  <2>1. CASE n \in attempts
    BY <2>1 DEF MatrixInv, AttemptsInv
  <2>2. CASE n \notin attempts
    BY <2>2 DEF MatrixInv, AttemptsInv
  <2> QED BY <2>1, <2>2
<1> QED
  BY <1>1, MatrixInvariant, PTL

\* Comparable: verified runs share their images and, but for an accepted transition,
\* their source.
THEOREM RunsAreComparable == Spec => []Comparable
<1>1. MatrixInv => Comparable
  BY DEF MatrixInv, OriginInv, ComesFrom, Comparable, Verified, Eligible, None
<1> QED
  BY <1>1, MatrixInvariant, PTL

\* VerifiedStays: a verified run is never repeated, moved or rewritten.
THEOREM VerifiedForGood == Spec => VerifiedStays
<1>1. MatrixInv /\ [Next]_vars =>
        [\A e \in 1 .. Runs : Verified(e) => result'[e] = result[e] /\ marker'[e] = 0]_vars
  BY VerifiedStep
<1> QED
  BY <1>1, MatrixInvariant, PTL DEF Spec, VerifiedStays

\* FingerprintOnlyAccepted: only an accepted transition changes the fingerprint, and
\* never under a wrapper or an experiment.
THEOREM FingerprintIsKept == Spec => FingerprintOnlyAccepted
<1>1. ASSUME MatrixInv, [Next]_vars, stored' # stored, stored \in Trees
      PROVE  /\ stored' \in transitions
             /\ \A w \in Wrappers : pc[w] = "off" /\ child[w] = 0
  <2>1. ASSUME NEW w \in Wrappers, Wrapper(w)
        PROVE  FALSE
    <3>1. stored # "none" /\ pc[w] # "storing"
      BY <1>1 DEF MatrixInv, OriginInv, OriginOf, Trees
    <3> QED
      BY <1>1, <2>1, <3>1
      DEF Wrapper, CheckIdleFirst, CompareFingerprint, CopyFingerprint, CopyEnds, Check,
          AlreadyPrepared, Pull, Snapshot, Certify, Skip, Archive, ArchiveMarker, Fresh,
          CheckIdle, CheckFingerprint, CheckImages,
          Start, StartFails, WriteMarker, Judge, Complete, control
  <2>2. AcceptReplace
    BY <1>1, <2>1 DEF Next, Invoke, Experiment, Passes, Fails, KillExperiment, KillWrapper,
       StraysEnd, Crash, Change, Restore, Accept, AcceptCheck, AcceptArchive, KillAccept,
       vars, control
  <2>3. stored' = tree /\ accept = "archived"
    BY <2>2 DEF AcceptReplace
  <2> QED BY <1>1, <2>3 DEF MatrixInv, LockInv, Active, OriginInv
<1>2. MatrixInv /\ [Next]_vars =>
        [stored' # stored /\ stored \in Trees =>
           /\ stored' \in transitions
           /\ \A w \in Wrappers : pc[w] = "off" /\ child[w] = 0]_vars
  BY <1>1
<1> QED
  BY <1>2, MatrixInvariant, PTL DEF Spec, FingerprintOnlyAccepted
=============================================================================
