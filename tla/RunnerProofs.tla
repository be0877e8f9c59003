---------------------------- MODULE RunnerProofs ----------------------------
(***************************************************************************)
(* Proofs about Controller and Runner, for every set of heights and duties, *)
(* every capacity and every cutoff round.                                  *)
(***************************************************************************)
EXTENDS Runner, Instances, FiniteSetTheorems, WellFoundedInduction, TLAPS

-----------------------------------------------------------------------------
(* The controller's state.                                                 *)

\* NewInstance, MarkDecided, MarkIrrelevant and bumpToRound yield instances,
\* and a bump neither decides an instance nor makes it irrelevant.
LEMMA NewInstanceType == NewInstance \in Instance
BY ControllerAssumption DEF NewInstance, Instance, Rounds, FirstRound, NoRound

LEMMA MarkedType ==
  ASSUME NEW inst \in Instance, NEW r \in Rounds
  PROVE  /\ MarkDecided(inst, r) \in Instance
         /\ MarkDecided(inst, r).decided
BY DEF MarkDecided, Instance, NoRound

LEMMA IrrelevantType ==
  ASSUME NEW inst \in Instance
  PROVE  /\ MarkIrrelevant(inst) \in Instance
         /\ MarkIrrelevant(inst).decided = inst.decided
BY DEF MarkIrrelevant, Instance, NoRound

LEMMA BumpedType ==
  ASSUME NEW inst \in Instance, NEW r \in Rounds
  PROVE  /\ Bumped(inst, r) \in Instance
         /\ Bumped(inst, r).decided = inst.decided
BY DEF Bumped, Relevant, Instance, NoRound

LEMMA NextRoundType ==
  ASSUME NEW inst \in Instance, Relevant(inst)
  PROVE  inst.round + 1 \in Rounds
BY ControllerAssumption DEF Relevant, Instance, Rounds, FirstRound

\* addNewInstance only takes entries from the slice and the new one, and it
\* keeps every entry that is higher than another one.
LEMMA AddedEntries ==
  ASSUME NEW S, NEW i PROVE Added(S, i) \subseteq S \cup {i}
BY DEF Added

LEMMA AddedType ==
  ASSUME NEW S \in SUBSET Entry, NEW i \in Entry PROVE Added(S, i) \subseteq Entry
BY AddedEntries

LEMMA EntryType ==
  ASSUME NEW h \in Heights
  PROVE  /\ OwnEntry(h) \in Entry /\ OwnEntry(h).height = h
         /\ CertificateEntry(h) \in Entry /\ CertificateEntry(h).height = h
BY DEF Entry, OwnEntry, CertificateEntry

LEMMA AddedKeeps ==
  ASSUME NEW S, NEW i, NEW e \in S \cup {i}, NEW other \in S \cup {i},
         other.height < e.height
  PROVE  e \in Added(S, i)
BY DEF Added

\* At capacity the slice is not empty, so an instance higher than all of it
\* stays.
LEMMA AddedHighest ==
  ASSUME NEW S, IsFiniteSet(S), NEW i, \A e \in S : e.height < i.height
  PROVE  i \in Added(S, i)
<1>1. CASE S = {}
  BY <1>1, FS_EmptySet, ControllerAssumption DEF Added
<1>2. CASE S # {}
  BY <1>2, AddedKeeps
<1> QED BY <1>1, <1>2

LEMMA AddedFinite ==
  ASSUME NEW S, IsFiniteSet(S), NEW i
  PROVE  IsFiniteSet(Added(S, i))
<1>1. IsFiniteSet(S \cup {i})
  BY FS_AddElement
<1>2. Added(S, i) \in SUBSET (S \cup {i})
  BY AddedEntries
<1> QED BY <1>1, <1>2, FS_Subset

-----------------------------------------------------------------------------
(* Type correctness of the controller.                                     *)

\* Every controller step keeps the controller's variables in their types.
LEMMA ControllerTypeStep ==
  ASSUME ControllerTypeOK, [ControllerNext]_controllerVars
  PROVE  ControllerTypeOK'
<1> USE DEF ControllerTypeOK
<1>1. CASE UNCHANGED controllerVars
  BY <1>1 DEF controllerVars
<1>2. ASSUME NEW h \in Heights, StartNewInstance(h)
      PROVE  ControllerTypeOK'
  <2>1. \A k \in Heights : instance[k] \in Instance
    OBVIOUS
  <2>2. InstancesAfterStart(h) \in [Heights -> Instance]
    BY <2>1, NewInstanceType, IrrelevantType DEF InstancesAfterStart
  <2>3. Added(recent, OwnEntry(h)) \subseteq Entry
    BY AddedType, EntryType
  <2>4. started' \in [Heights -> Nat]
    BY <1>2 DEF StartNewInstance
  <2> QED BY <1>2, <2>2, <2>3, <2>4 DEF StartNewInstance
<1>3. ASSUME NEW h \in Heights, UponCommit(h)
      PROVE  ControllerTypeOK'
  <2>1. instance[h] \in Instance /\ instance[h].round \in Rounds
    BY DEF Instance
  <2>2. MarkDecided(instance[h], instance[h].round) \in Instance
    BY <2>1, MarkedType
  <2> QED BY <1>3, <2>2 DEF UponCommit
<1>4. ASSUME NEW h \in Heights, TimerExpires(h)
      PROVE  ControllerTypeOK'
  BY <1>4 DEF TimerExpires, Instance
<1>5. ASSUME NEW h \in Heights, NEW r \in WorkingRounds, UponDecided(h, r)
      PROVE  ControllerTypeOK'
  <2>1. r \in Rounds
    BY ControllerAssumption DEF WorkingRounds, Rounds, FirstRound
  <2>2. instance' \in [Heights -> Instance]
    BY <1>5, <2>1, MarkedType DEF UponDecided
  <2>3. recent' \subseteq Entry
    BY <1>5, AddedType, EntryType DEF UponDecided
  <2> QED BY <1>5, <2>2, <2>3 DEF UponDecided
<1>6. ASSUME NEW h \in Heights, NEW r \in Rounds, UponProposal(h, r)
      PROVE  ControllerTypeOK'
  <2> DEFINE bumped == Bumped(instance[h], r)
  <2>1. bumped \in Instance
    BY BumpedType
  <2>2. [bumped EXCEPT !.accepted = Relevant(bumped)] \in Instance
    BY <2>1 DEF Instance, Relevant
  <2> QED BY <1>6, <2>2 DEF UponProposal
<1>7. ASSUME NEW h \in Heights, NEW r \in Rounds, UponRoundChange(h, r)
      PROVE  ControllerTypeOK'
  BY <1>7, BumpedType DEF UponRoundChange
<1>8. ASSUME NEW h \in Heights, NEW r \in Rounds, OnQBFTRoundTimeout(h, r)
      PROVE  ControllerTypeOK'
  <2>1. Bumped(instance[h], instance[h].round + 1) \in Instance
    BY <1>8, NextRoundType, BumpedType
       DEF OnQBFTRoundTimeout, TimeoutApplies, CanProcess
  <2> QED BY <1>8, <2>1 DEF OnQBFTRoundTimeout
<1> QED
  BY <1>1, <1>2, <1>3, <1>4, <1>5, <1>6, <1>7, <1>8 DEF ControllerNext

LEMMA ControllerTypeInit == ControllerInit => ControllerTypeOK
BY NewInstanceType DEF ControllerInit, ControllerTypeOK, FirstHeight

-----------------------------------------------------------------------------
(* A height is run at most once.                                           *)

\* The strengthening of NeverRunsAgain: nothing was started, seen decided or
\* remembered above the latest height, and the latest height itself is
\* remembered once it was started or seen decided.  The two checks of
\* startInstance are then enough, whatever was evicted.
LatestIsRemembered ==
  /\ IsFiniteSet(recent)
  /\ \A i \in recent : i.height =< latest
  /\ \A h \in Heights : Touched(h) => h < latest \/ (h = latest /\ Known(h))

CInv == ControllerTypeOK /\ LatestIsRemembered

LEMMA CInvInit == ControllerInit => CInv
<1> SUFFICES ASSUME ControllerInit PROVE CInv
  OBVIOUS
<1>1. ControllerTypeOK
  BY ControllerTypeInit
<1>2. IsFiniteSet(recent)
  BY FS_EmptySet DEF ControllerInit
<1>3. \A h \in Heights : ~Touched(h)
  BY DEF ControllerInit, Touched
<1> QED BY <1>1, <1>2, <1>3 DEF CInv, LatestIsRemembered, ControllerInit

\* Adding an instance for a height that is not remembered: everything stays at
\* or below the new latest height, and the latest height is not forgotten.
LEMMA AddedRemembers ==
  ASSUME CInv, NEW i \in Entry, ~Known(i.height), NEW top \in Nat,
         top >= latest, top >= i.height
  PROVE  /\ IsFiniteSet(Added(recent, i))
         /\ \A e \in Added(recent, i) : e.height =< top
         /\ i.height >= latest => i \in Added(recent, i)
         /\ \A e \in recent : e.height >= latest /\ i.height < latest
                             => e \in Added(recent, i)
<1> USE DEF CInv, LatestIsRemembered
<1>1. /\ latest \in Nat /\ i.height \in Nat
      /\ \A e \in recent : e.height \in Nat /\ e.height # i.height
  <2>1. \A e \in Entry : e.height \in Nat
    BY ControllerAssumption DEF Entry
  <2>2. latest \in Nat /\ recent \subseteq Entry
    BY ControllerAssumption DEF ControllerTypeOK, FirstHeight
  <2> QED BY <2>1, <2>2 DEF Known
<1>2. IsFiniteSet(Added(recent, i))
  BY AddedFinite
<1>3. \A e \in Added(recent, i) : e.height =< top
  BY <1>1, AddedEntries
<1>4. ASSUME i.height >= latest PROVE i \in Added(recent, i)
  BY <1>1, <1>4, AddedHighest
<1>5. ASSUME NEW e \in recent, e.height >= latest, i.height < latest
      PROVE  e \in Added(recent, i)
  BY <1>1, <1>5, AddedKeeps
<1> QED BY <1>2, <1>3, <1>4, <1>5

LEMMA CInvStep == CInv /\ [ControllerNext]_controllerVars => CInv'
<1> SUFFICES ASSUME CInv, [ControllerNext]_controllerVars PROVE CInv'
  OBVIOUS
<1>1. ControllerTypeOK /\ ControllerTypeOK'
  BY ControllerTypeStep DEF CInv
<1>2. /\ latest \in Nat
      /\ \A h \in Heights : h \in Nat /\ started[h] \in Nat
  BY <1>1, ControllerAssumption DEF ControllerTypeOK, FirstHeight
<1>3. CASE UNCHANGED <<latest, recent, started, decidedHeights>>
  BY <1>1, <1>3 DEF CInv, LatestIsRemembered, Touched, Known
<1>4. ASSUME NEW h \in Heights, StartNewInstance(h)
      PROVE  LatestIsRemembered'
  <2>1. h >= latest /\ ~Known(h) /\ h \in Nat
    BY <1>2, <1>4 DEF StartNewInstance, CanStart
  <2>2. /\ OwnEntry(h) \in Entry /\ OwnEntry(h).height = h
        /\ latest' = h /\ recent' = Added(recent, OwnEntry(h))
    BY <1>4, EntryType DEF StartNewInstance
  <2>3. /\ IsFiniteSet(recent')
        /\ \A e \in recent' : e.height =< latest'
        /\ OwnEntry(h) \in recent'
    BY <1>2, <2>1, <2>2, AddedRemembers
  <2>4. ASSUME NEW k \in Heights, Touched(k)'
        PROVE  k < latest' \/ (k = latest' /\ Known(k)')
    <3>1. CASE k = h
      BY <2>2, <2>3, <3>1 DEF Known
    <3>2. CASE k # h
      <4>1. Touched(k)
        BY <1>1, <1>4, <2>4, <3>2 DEF Touched, StartNewInstance, ControllerTypeOK
      <4>2. k =< latest
        BY <1>2, <4>1 DEF CInv, LatestIsRemembered
      <4> QED BY <1>2, <2>1, <2>2, <3>2, <4>2
    <3> QED BY <3>1, <3>2
  <2> QED BY <2>3, <2>4 DEF LatestIsRemembered
<1>5. ASSUME NEW h \in Heights, NEW r \in WorkingRounds, UponDecided(h, r), ~Known(h)
      PROVE  LatestIsRemembered'
  <2>1. /\ CertificateEntry(h) \in Entry /\ CertificateEntry(h).height = h
        /\ recent' = Added(recent, CertificateEntry(h))
        /\ latest' = IF h > latest THEN h ELSE latest
        /\ decidedHeights' = decidedHeights \cup {h} /\ UNCHANGED started
    BY <1>5, EntryType DEF UponDecided, KnownUndecided, Signals, Known, OwnEntry
  <2>2. latest' \in Nat /\ latest' >= latest /\ latest' >= h
    BY <1>2, <2>1
  <2>3. /\ IsFiniteSet(recent')
        /\ \A e \in recent' : e.height =< latest'
        /\ h >= latest => CertificateEntry(h) \in recent'
        /\ \A e \in recent : e.height >= latest /\ h < latest => e \in recent'
    BY <1>5, <2>1, <2>2, AddedRemembers
  <2>4. ASSUME NEW k \in Heights, Touched(k)'
        PROVE  k < latest' \/ (k = latest' /\ Known(k)')
    <3>1. CASE k = h
      BY <1>2, <2>1, <2>3, <3>1 DEF Known
    <3>2. CASE k # h
      <4>1. Touched(k)
        BY <2>1, <2>4, <3>2 DEF Touched
      <4>2. k < latest \/ (k = latest /\ Known(k))
        BY <4>1 DEF CInv, LatestIsRemembered
      <4>3. CASE h > latest
        BY <1>2, <2>1, <4>2, <4>3
      <4>4. CASE h < latest /\ k = latest
        BY <1>2, <2>1, <2>3, <4>2, <4>4 DEF Known
      <4>5. CASE h = latest \/ (h < latest /\ k < latest)
        BY <1>2, <2>1, <3>2, <4>2, <4>5
      <4> QED BY <1>2, <4>2, <4>3, <4>4, <4>5
    <3> QED BY <3>1, <3>2
  <2> QED BY <2>3, <2>4 DEF LatestIsRemembered
<1>6. ASSUME NEW h \in Heights, Known(h), decidedHeights' = decidedHeights \cup {h},
             UNCHANGED <<latest, recent, started>>
      PROVE  LatestIsRemembered'
  <2>1. h =< latest
    BY <1>6 DEF CInv, LatestIsRemembered, Known
  <2> QED BY <1>2, <1>6, <2>1 DEF CInv, LatestIsRemembered, Touched, Known
<1>7. ASSUME NEW h \in Heights, NEW r \in WorkingRounds, UponDecided(h, r), Known(h)
      PROVE  LatestIsRemembered'
  BY <1>6, <1>7 DEF UponDecided, Signals
<1>8. ASSUME NEW h \in Heights, UponCommit(h)
      PROVE  LatestIsRemembered'
  <2>1. Known(h)
    BY <1>8, EntryType DEF UponCommit, CanProcess, KnownUndecided, Known
  <2> QED BY <1>6, <1>8, <2>1 DEF UponCommit
<1> QED
  BY <1>1, <1>3, <1>4, <1>5, <1>7, <1>8
     DEF CInv, ControllerNext, controllerVars, TimerExpires, UponProposal,
         UponRoundChange, OnQBFTRoundTimeout

\* Under the invariant the two checks of startInstance exclude every height
\* that was started or seen decided.
LEMMA CanStartUntouched ==
  ASSUME CInv, NEW h \in Heights, CanStart(h) PROVE ~Touched(h)
<1>1. h \in Nat /\ latest \in Nat
  BY ControllerAssumption DEF CInv, ControllerTypeOK, FirstHeight
<1> QED BY <1>1 DEF CInv, LatestIsRemembered, CanStart

LEMMA RunsOnceStep ==
  ASSUME CInv, [ControllerNext]_controllerVars
  PROVE  [\A h \in Heights : started'[h] # started[h] => ~Touched(h)]_controllerVars
<1> SUFFICES ASSUME ~UNCHANGED controllerVars, NEW h \in Heights,
                    started'[h] # started[h]
             PROVE  ~Touched(h)
  OBVIOUS
<1>1. PICK k \in Heights : StartNewInstance(k)
  BY DEF ControllerNext, controllerVars, UponCommit, TimerExpires, UponDecided,
         UponProposal, UponRoundChange, OnQBFTRoundTimeout
<1>2. k = h
  BY <1>1 DEF StartNewInstance, CInv, ControllerTypeOK
<1> QED BY <1>1, <1>2, CanStartUntouched DEF StartNewInstance

\* The controller never starts a height again, and never starts one whose
\* decided certificate it has seen, whatever it evicted in between
\* (startInstance, UponDecided and addNewInstance together).
THEOREM ControllerRunsOnce == ControllerSpec => NeverRunsAgain
<1>1. ControllerInit => CInv
  BY CInvInit
<1>2. CInv /\ [ControllerNext]_controllerVars => CInv'
  BY CInvStep
<1>3. CInv /\ [ControllerNext]_controllerVars =>
        [\A h \in Heights : started'[h] # started[h] => ~Touched(h)]_controllerVars
  BY RunsOnceStep
<1> QED BY <1>1, <1>2, <1>3, PTL DEF ControllerSpec, NeverRunsAgain

-----------------------------------------------------------------------------
(* The runner.                                                             *)

\* What every step of the runner does to the controller is a step of the
\* controller or nothing: consensus is only reached through it.
LEMMA RunnerStepIsControllerStep ==
  ASSUME TypeOK, [Next]_vars
  PROVE  [ControllerNext]_controllerVars
<1>1. CASE UNCHANGED vars
  BY <1>1 DEF vars
<1>2. CASE ProcessPreConsensus
  BY <1>2, RunnerAssumption DEF ProcessPreConsensus, ControllerNext, Idle, TypeOK
<1>3. CASE ProcessPostConsensus
  BY <1>3 DEF ProcessPostConsensus
<1>4. ASSUME NEW s \in Duties, StartNewDuty(s) PROVE UNCHANGED controllerVars
  BY <1>4 DEF StartNewDuty
<1>5. ASSUME NEW t \in timeouts, OnTimeout(t) PROVE [ControllerNext]_controllerVars
  <2>1. t.height \in Heights /\ t.round \in Rounds
    BY DEF TypeOK, Timeout
  <2> QED BY <1>5, <2>1 DEF OnTimeout, ControllerNext
<1>6. ASSUME NEW h \in Heights, ProcessCommit(h) \/ RoundTimerFires(h)
      PROVE  ControllerNext
  BY <1>6 DEF ProcessCommit, RoundTimerFires, ControllerNext
<1>7. ASSUME NEW h \in Heights, NEW r \in WorkingRounds, ProcessCertificate(h, r)
      PROVE  ControllerNext
  BY <1>7 DEF ProcessCertificate, ControllerNext
<1>8. ASSUME NEW h \in Heights, NEW r \in Rounds, ProcessProposalOrRoundChange(h, r)
      PROVE  ControllerNext
  BY <1>8 DEF ProcessProposalOrRoundChange, ControllerNext
<1> QED
  BY <1>1, <1>2, <1>3, <1>4, <1>5, <1>6, <1>7, <1>8 DEF Next

LEMMA TypeInit == Init => TypeOK
BY ControllerTypeInit DEF Init, TypeOK

LEMMA TypeStep == TypeOK /\ [Next]_vars => TypeOK'
<1> SUFFICES ASSUME TypeOK, [Next]_vars PROVE TypeOK'
  OBVIOUS
<1>1. ControllerTypeOK'
  BY ControllerTypeStep, RunnerStepIsControllerStep DEF TypeOK
<1> USE <1>1 DEF TypeOK, dutyState
<1>2. CASE UNCHANGED vars
  BY <1>2 DEF vars, runnerVars
<1>3. CASE ProcessPreConsensus
  BY <1>3 DEF ProcessPreConsensus
<1>4. CASE ProcessPostConsensus
  BY <1>4 DEF ProcessPostConsensus
<1>5. ASSUME NEW s \in Duties, StartNewDuty(s) PROVE TypeOK'
  BY <1>5 DEF StartNewDuty, TimeoutsAfterDutyStart
<1>6. ASSUME NEW t \in timeouts, OnTimeout(t) PROVE TypeOK'
  BY <1>6 DEF OnTimeout
<1>7. ASSUME NEW h \in Heights, ProcessCommit(h) PROVE TypeOK'
  BY <1>7 DEF ProcessCommit, TakeUp
<1>8. ASSUME NEW h \in Heights, RoundTimerFires(h) PROVE TypeOK'
  <2>1. [height |-> h, round |-> instance[h].timer] \in Timeout
    BY <1>8 DEF RoundTimerFires, TimerExpires, Timeout, ControllerTypeOK, Instance
  <2> QED BY <1>8, <2>1 DEF RoundTimerFires
<1>9. ASSUME NEW h \in Heights, NEW r \in WorkingRounds, ProcessCertificate(h, r)
      PROVE  TypeOK'
  BY <1>9 DEF ProcessCertificate, TakeUp
<1>10. ASSUME NEW h \in Heights, NEW r \in Rounds, ProcessProposalOrRoundChange(h, r)
       PROVE  TypeOK'
  BY <1>10 DEF ProcessProposalOrRoundChange, runnerVars
<1> QED
  BY <1>2, <1>3, <1>4, <1>5, <1>6, <1>7, <1>8, <1>9, <1>10 DEF Next

\* Every variable of the runner and of its controller keeps its type.
THEOREM RunnerTypeCorrect == Spec => []TypeOK
BY TypeInit, TypeStep, PTL DEF Spec

\* The runner only uses its controller as the controller's specification
\* allows, so what is proved of ControllerSpec holds in the runner.
THEOREM RunnerUsesController == Spec => ControllerSpec
<1>1. Init => ControllerInit
  BY DEF Init
<1>2. TypeOK /\ [Next]_vars => [ControllerNext]_controllerVars
  BY RunnerStepIsControllerStep
<1> QED BY <1>1, <1>2, RunnerTypeCorrect, PTL DEF Spec, ControllerSpec

\* A validator's runner never runs consensus twice for a slot, nor for a slot
\* it has seen decided.
THEOREM RunnerRunsOnce == Spec => NeverRunsAgain
BY RunnerUsesController, ControllerRunsOnce

-----------------------------------------------------------------------------
(* No decision is lost between the controller and the runner.              *)

\* State.RunningInstance is only set while there is a current duty.
RunningHasDuty == running => duty \in Heights

TakenUpInv == TypeOK /\ RunningHasDuty /\ DecisionTakenUp

LEMMA TakenUpInit == Init => TakenUpInv
BY TypeInit DEF Init, TakenUpInv, RunningHasDuty, DecisionTakenUp, RunningDecided

LEMMA RunningHasDutyStep ==
  ASSUME TypeOK, RunningHasDuty, [Next]_vars PROVE RunningHasDuty'
<1> USE DEF RunningHasDuty, dutyState, runnerVars
<1>1. CASE ProcessPreConsensus
  BY <1>1, RunnerAssumption DEF ProcessPreConsensus, Idle, TypeOK
<1>2. CASE UNCHANGED <<duty, running>>
  BY <1>2
<1>3. ASSUME NEW s \in Duties, StartNewDuty(s) PROVE RunningHasDuty'
  BY <1>3 DEF StartNewDuty
<1> QED
  BY <1>1, <1>2, <1>3
     DEF Next, vars, ProcessPostConsensus, OnTimeout, ProcessCommit, RoundTimerFires,
         ProcessCertificate, ProcessProposalOrRoundChange

\* Proposals, round changes, timeouts and the timer decide nothing.
LEMMA UndecidingStep ==
  ASSUME ControllerTypeOK, NEW h \in Heights, NEW r \in Rounds,
         \/ UponProposal(h, r) \/ UponRoundChange(h, r)
         \/ OnQBFTRoundTimeout(h, r) \/ TimerExpires(h)
  PROVE  \A k \in Heights : instance'[k].decided = instance[k].decided
<1> USE DEF ControllerTypeOK
<1>0. instance[h] \in Instance
  OBVIOUS
<1>1. CASE UponProposal(h, r)
  <2> DEFINE bumped == Bumped(instance[h], r)
  <2>1. bumped \in Instance /\ bumped.decided = instance[h].decided
    BY <1>0, BumpedType
  <2>2. [bumped EXCEPT !.accepted = Relevant(bumped)].decided = bumped.decided
    BY <2>1 DEF Instance
  <2> QED BY <1>1, <2>1, <2>2 DEF UponProposal
<1>2. CASE UponRoundChange(h, r)
  BY <1>0, <1>2, BumpedType DEF UponRoundChange
<1>3. CASE OnQBFTRoundTimeout(h, r)
  BY <1>0, <1>3, NextRoundType, BumpedType
     DEF OnQBFTRoundTimeout, TimeoutApplies, CanProcess
<1>4. CASE TimerExpires(h)
  BY <1>0, <1>4 DEF TimerExpires, Instance
<1> QED BY <1>1, <1>2, <1>3, <1>4

LEMMA DecisionTakenUpStep ==
  ASSUME TakenUpInv, [Next]_vars PROVE DecisionTakenUp'
<1> USE DEF TakenUpInv, DecisionTakenUp, RunningDecided
<1>0. ControllerTypeOK
  BY DEF TypeOK
<1>1. CASE UNCHANGED vars
  BY <1>1 DEF vars, controllerVars, runnerVars, dutyState
<1>2. CASE ProcessPreConsensus
  <2>1. CASE StartNewInstance(duty)
    <3>1. duty \in Heights
      BY <1>2, RunnerAssumption DEF ProcessPreConsensus, Idle, TypeOK
    <3>2. instance'[duty] = NewInstance
      BY <2>1, <3>1 DEF StartNewInstance, InstancesAfterStart
    <3> QED BY <1>2, <3>2 DEF ProcessPreConsensus, NewInstance
  <2> QED BY <1>2, <2>1 DEF ProcessPreConsensus
<1>3. CASE ProcessPostConsensus
  BY <1>3 DEF ProcessPostConsensus
<1>4. ASSUME NEW s \in Duties, StartNewDuty(s) PROVE DecisionTakenUp'
  <2>1. CASE UNCHANGED dutyState
    BY <1>4, <2>1 DEF StartNewDuty, dutyState, controllerVars
  <2>2. CASE running' = FALSE
    BY <2>2
  <2> QED BY <1>4, <2>1, <2>2 DEF StartNewDuty
<1>5. ASSUME UNCHANGED dutyState,
             \A k \in Heights : instance'[k].decided = instance[k].decided
      PROVE  DecisionTakenUp'
  BY <1>5 DEF dutyState, RunningHasDuty
<1>6. ASSUME NEW t \in timeouts, OnTimeout(t) PROVE DecisionTakenUp'
  <2>1. t.height \in Heights /\ t.round \in Rounds
    BY DEF TypeOK, Timeout
  <2> QED BY <1>0, <1>5, <1>6, <2>1, UndecidingStep DEF OnTimeout, controllerVars
<1>7. ASSUME NEW h \in Heights, RoundTimerFires(h) PROVE DecisionTakenUp'
  <2>1. FirstRound \in Rounds
    BY ControllerAssumption DEF FirstRound, Rounds
  <2> QED BY <1>0, <1>5, <1>7, <2>1, UndecidingStep DEF RoundTimerFires
<1>8. ASSUME NEW h \in Heights, NEW r \in Rounds, ProcessProposalOrRoundChange(h, r)
      PROVE  DecisionTakenUp'
  BY <1>0, <1>5, <1>8, UndecidingStep DEF ProcessProposalOrRoundChange, runnerVars
<1>9. ASSUME NEW h \in Heights, TakeUp(h), UNCHANGED <<duty, running>>,
             \A k \in Heights \ {h} : instance'[k] = instance[k]
      PROVE  DecisionTakenUp'
  BY <1>9 DEF TakeUp, RunningHasDuty
<1>10. ASSUME NEW h \in Heights, ProcessCommit(h) PROVE DecisionTakenUp'
  <2>1. \A k \in Heights \ {h} : instance'[k] = instance[k]
    BY <1>0, <1>10 DEF ProcessCommit, UponCommit, ControllerTypeOK
  <2> QED BY <1>9, <1>10, <2>1 DEF ProcessCommit
<1>11. ASSUME NEW h \in Heights, NEW r \in WorkingRounds, ProcessCertificate(h, r)
       PROVE  DecisionTakenUp'
  <2>1. \A k \in Heights \ {h} : instance'[k] = instance[k]
    BY <1>0, <1>11 DEF ProcessCertificate, UponDecided, ControllerTypeOK
  <2>2. CASE Signals(h)
    BY <1>9, <1>11, <2>1, <2>2 DEF ProcessCertificate
  <2>3. CASE ~Signals(h)
    BY <1>11, <2>3 DEF ProcessCertificate, UponDecided, Signals
  <2> QED BY <2>2, <2>3
<1> QED
  BY <1>1, <1>2, <1>3, <1>4, <1>6, <1>7, <1>8, <1>10, <1>11 DEF Next

\* When the runner's running instance is decided, by a quorum of commits or by
\* a certificate, the runner has taken its value up or given the duty up: the
\* one signal the controller gives for a height is never missed.
THEOREM DecisionTakenUpHolds == Spec => []DecisionTakenUp
<1>1. Init => TakenUpInv
  BY TakenUpInit
<1>2. TakenUpInv /\ [Next]_vars => TakenUpInv'
  BY TypeStep, RunningHasDutyStep, DecisionTakenUpStep DEF TakenUpInv
<1>3. TakenUpInv => DecisionTakenUp
  BY DEF TakenUpInv
<1> QED BY <1>1, <1>2, <1>3, PTL DEF Spec

-----------------------------------------------------------------------------
(* What the controller forgets.                                            *)

\* A height has one instance at a time, and no more than Capacity are kept.
OneEntryPerHeight == \A i, j \in recent : i.height = j.height => i = j
WithinCapacity == Cardinality(recent) =< Capacity

ForgetInv == CInv /\ OneEntryPerHeight /\ WithinCapacity /\ ForgetsOnlyTheOldest

\* A set of naturals has a least element.
LEMMA LeastNatural ==
  ASSUME NEW T \in SUBSET Nat, T # {}
  PROVE  \E x \in T : \A y \in T : x =< y
<1> DEFINE R == OpToRel(<, Nat)
<1>1. IsWellFoundedOn(R, Nat)
  BY NatLessThanWellFounded
<1>2. \A x, y \in Nat : x < y => <<x, y>> \in R
  BY DEF OpToRel
<1> HIDE DEF R
<1>3. PICK x \in T : \A y \in T : <<y, x>> \notin R
  BY <1>1, WFMin
<1>4. \A y \in T : ~(y < x)
  BY <1>2, <1>3
<1>5. QED BY <1>4

\* addNewInstance at capacity drops the lowest entry and no other.
LEMMA AddedDropsLowest ==
  ASSUME NEW S \in SUBSET Entry, IsFiniteSet(S), Cardinality(S) = Capacity, NEW i \in Entry,
         \A e, f \in S \cup {i} : e.height = f.height => e = f, i \notin S
  PROVE  \E low \in S \cup {i} :
           /\ Added(S, i) = (S \cup {i}) \ {low}
           /\ \A e \in Added(S, i) : low.height < e.height
           /\ Cardinality(Added(S, i)) = Capacity
<1> DEFINE T == S \cup {i}
           H == {e.height : e \in T}
<1>1. \A e \in T : e.height \in Nat
  BY ControllerAssumption DEF Entry
<1>2. H \in SUBSET Nat /\ H # {}
  BY <1>1
<1>3. PICK low \in T : \A e \in T : low.height =< e.height
  <2> HIDE DEF T
  <2>1. PICK x \in H : \A y \in H : x =< y
    <3> HIDE DEF H
    <3>1. QED BY <1>2, LeastNatural
  <2>2. QED BY <2>1
<1>4. Added(S, i) = {e \in T : \E other \in T : other.height < e.height}
  BY ControllerAssumption DEF Added
<1>5. \A e \in T \ {low} : low.height < e.height
  BY <1>1, <1>3
<1>6. Added(S, i) = T \ {low}
  BY <1>1, <1>3, <1>4, <1>5
<1>7. Cardinality(T \ {low}) = Capacity
  <2>1. IsFiniteSet(T) /\ Cardinality(T) = Capacity + 1
    BY FS_AddElement
  <2> HIDE DEF T
  <2>2. Cardinality(T \ {low}) = Cardinality(T) - 1
    BY <2>1, FS_RemoveElement
  <2>3. QED BY <2>1, <2>2, ControllerAssumption
<1>8. QED BY <1>3, <1>5, <1>6, <1>7

\* Adding an instance at a height that is not remembered.
LEMMA AddedForgets ==
  ASSUME ForgetInv, NEW i \in Entry, ~Known(i.height), recent' = Added(recent, i),
         \A h \in Heights : Touched(h)' => Touched(h) \/ h = i.height
  PROVE  OneEntryPerHeight' /\ WithinCapacity' /\ ForgetsOnlyTheOldest'
<1>1. /\ recent \in SUBSET Entry /\ IsFiniteSet(recent) /\ i \notin recent
      /\ \A e, f \in recent \cup {i} : e.height = f.height => e = f
  BY DEF ForgetInv, CInv, ControllerTypeOK, LatestIsRemembered, OneEntryPerHeight, Known
<1>2. OneEntryPerHeight'
  BY <1>1, AddedEntries DEF OneEntryPerHeight
<1>3. Cardinality(recent) \in Nat /\ Capacity \in Nat
  BY <1>1, FS_CardinalityType, ControllerAssumption
<1>4. CASE Cardinality(recent) < Capacity
  <2>1. recent' = recent \cup {i}
    BY <1>4 DEF Added
  <2>2. Cardinality(recent') = Cardinality(recent) + 1
    BY <1>1, <2>1, FS_AddElement
  <2>3. WithinCapacity'
    BY <1>3, <1>4, <2>2 DEF WithinCapacity
  <2>4. \A h \in Heights : Touched(h)' => Known(h)'
    BY <1>3, <1>4, <2>1 DEF ForgetInv, ForgetsOnlyTheOldest, Known
  <2>5. QED BY <1>2, <2>3, <2>4 DEF ForgetsOnlyTheOldest
<1>5. CASE Cardinality(recent) = Capacity
  <2>1. PICK low \in recent \cup {i} :
           /\ recent' = (recent \cup {i}) \ {low}
           /\ \A e \in recent' : low.height < e.height
           /\ Cardinality(recent') = Capacity
    BY <1>1, <1>5, AddedDropsLowest
  <2>2. WithinCapacity'
    BY <1>3, <2>1 DEF WithinCapacity
  <2>3. ASSUME NEW h \in Heights, Touched(h)', ~Known(h)', NEW e \in recent'
        PROVE  h < e.height
    <3>1. /\ h \in Nat /\ i.height \in Nat /\ e.height \in Nat /\ low.height \in Nat
          /\ e \in recent \cup {i}
      BY <1>1, <2>1, ControllerAssumption DEF Entry
    <3>2. CASE Known(h) \/ h = i.height
      <4>1. h = low.height
        BY <2>1, <2>3, <3>2 DEF Known
      <4>2. QED BY <2>1, <4>1
    <3>3. CASE ~Known(h) /\ h # i.height
      <4>1. \A f \in recent : h < f.height
        BY <2>3, <3>3 DEF ForgetInv, ForgetsOnlyTheOldest
      <4>2. CASE e \in recent
        BY <4>1, <4>2
      <4>3. CASE e = i
        <5>1. low \in recent
          BY <2>1, <4>3
        <5>2. QED BY <2>1, <3>1, <4>1, <5>1
      <4>4. QED BY <3>1, <4>2, <4>3
    <3>4. QED BY <3>2, <3>3
  <2>4. ForgetsOnlyTheOldest'
    BY <2>1, <2>3 DEF ForgetsOnlyTheOldest
  <2>5. QED BY <1>2, <2>2, <2>4
<1>6. QED BY <1>3, <1>4, <1>5 DEF ForgetInv, WithinCapacity

\* Every controller step forgets the oldest at most.
LEMMA ForgetStep == ForgetInv /\ [ControllerNext]_controllerVars => ForgetInv'
<1> SUFFICES ASSUME ForgetInv, [ControllerNext]_controllerVars
             PROVE  OneEntryPerHeight' /\ WithinCapacity' /\ ForgetsOnlyTheOldest'
  BY CInvStep DEF ForgetInv
<1>0. /\ \A h \in Heights : started[h] \in Nat
      /\ started \in [Heights -> Nat] /\ ControllerTypeOK
  BY DEF ForgetInv, CInv, ControllerTypeOK
<1>1. CASE UNCHANGED <<recent, started, decidedHeights>>
  BY <1>1 DEF ForgetInv, OneEntryPerHeight, WithinCapacity, ForgetsOnlyTheOldest, Touched, Known
<1>2. ASSUME NEW h \in Heights, StartNewInstance(h)
      PROVE  OneEntryPerHeight' /\ WithinCapacity' /\ ForgetsOnlyTheOldest'
  <2>1. /\ OwnEntry(h) \in Entry /\ OwnEntry(h).height = h
        /\ ~Known(h) /\ recent' = Added(recent, OwnEntry(h))
    BY <1>2, EntryType DEF StartNewInstance, CanStart
  <2>2. \A k \in Heights : Touched(k)' => Touched(k) \/ k = h
    BY <1>0, <1>2 DEF StartNewInstance, Touched
  <2>3. QED BY <2>1, <2>2, AddedForgets
<1>3. ASSUME NEW h \in Heights, Known(h), decidedHeights' = decidedHeights \cup {h},
             UNCHANGED <<recent, started>>
      PROVE  OneEntryPerHeight' /\ WithinCapacity' /\ ForgetsOnlyTheOldest'
  BY <1>3 DEF ForgetInv, OneEntryPerHeight, WithinCapacity, ForgetsOnlyTheOldest, Touched, Known
<1>4. ASSUME NEW h \in Heights, NEW r \in WorkingRounds, UponDecided(h, r)
      PROVE  OneEntryPerHeight' /\ WithinCapacity' /\ ForgetsOnlyTheOldest'
  <2>1. CASE Known(h)
    BY <1>3, <1>4, <2>1 DEF UponDecided, Signals
  <2>2. CASE ~Known(h)
    <3>1. /\ CertificateEntry(h) \in Entry /\ CertificateEntry(h).height = h
          /\ recent' = Added(recent, CertificateEntry(h))
          /\ decidedHeights' = decidedHeights \cup {h} /\ UNCHANGED started
      BY <1>4, <2>2, EntryType DEF UponDecided, KnownUndecided, Signals, Known, OwnEntry
    <3>2. \A k \in Heights : Touched(k)' => Touched(k) \/ k = h
      BY <3>1 DEF Touched
    <3>3. QED BY <2>2, <3>1, <3>2, AddedForgets
  <2>3. QED BY <2>1, <2>2
<1>5. ASSUME NEW h \in Heights, UponCommit(h)
      PROVE  OneEntryPerHeight' /\ WithinCapacity' /\ ForgetsOnlyTheOldest'
  <2>1. Known(h)
    BY <1>5, EntryType DEF UponCommit, CanProcess, KnownUndecided, Known
  <2>2. QED BY <1>3, <1>5, <2>1 DEF UponCommit
<1>6. QED
  BY <1>1, <1>2, <1>4, <1>5
     DEF ControllerNext, controllerVars, TimerExpires, UponProposal, UponRoundChange,
         OnQBFTRoundTimeout

\* Initially nothing is forgotten.
LEMMA ForgetInit == ControllerInit => ForgetInv
<1> SUFFICES ASSUME ControllerInit PROVE ForgetInv
  OBVIOUS
<1>1. Cardinality(recent) = 0
  BY FS_EmptySet DEF ControllerInit
<1>2. \A h \in Heights : ~Touched(h)
  BY DEF ControllerInit, Touched
<1>3. QED
  BY <1>1, <1>2, CInvInit, ControllerAssumption
     DEF ForgetInv, OneEntryPerHeight, WithinCapacity, ForgetsOnlyTheOldest, ControllerInit

\* Eviction forgets the oldest heights only, and only to remember Capacity
\* later ones: addNewInstance drops the lowest entry, be it the new one.
THEOREM ForgetsOnlyTheOldestHolds == Spec => []ForgetsOnlyTheOldest
<1>1. ForgetInv => ForgetsOnlyTheOldest
  BY DEF ForgetInv
<1>2. ControllerSpec => []ForgetInv
  BY ForgetInit, ForgetStep, PTL DEF ControllerSpec
<1>3. QED BY <1>1, <1>2, RunnerUsesController, PTL

-----------------------------------------------------------------------------
(* One working instance, and its timeouts.                                 *)

OneHeightWorks == \A h, k \in Heights : CanProcess(h) /\ CanProcess(k) => h = k

\* The timer of an undecided instance is not armed for a round ahead of it,
\* and only started instances have timers and timeouts.
TimersAreNotAhead ==
  \A h \in Heights : ~instance[h].decided => instance[h].timer =< instance[h].round
TimeoutsOfStarted == \A t \in timeouts : started[t.height] > 0

\* Messages, timers and timeouts neither revive an instance nor make an
\* undecided one return to an earlier round or arm its timer ahead.
LEMMA WorkingStep ==
  ASSUME ControllerTypeOK, TimersAreNotAhead, NEW h \in Heights, NEW r \in Rounds,
         \/ UponProposal(h, r) \/ UponRoundChange(h, r) \/ OnQBFTRoundTimeout(h, r)
         \/ UponCommit(h) \/ TimerExpires(h) \/ (KnownUndecided(h) /\ UponDecided(h, r))
  PROVE  /\ recent' = recent
         /\ TimersAreNotAhead'
         /\ \A k \in Heights :
              /\ CanProcess(k)' => CanProcess(k)
              /\ ~instance'[k].decided =>
                   ~instance[k].decided /\ instance[k].round =< instance'[k].round
<1> USE DEF ControllerTypeOK
<1>0. /\ instance[h] \in Instance /\ CutOffRound \in Nat
      /\ \A x \in Rounds : x \in Nat
      /\ \A k \in Heights : instance[k].round \in Nat /\ instance[k].timer \in Nat
  BY ControllerAssumption DEF Instance, Rounds, FirstRound, NoRound
<1>1. SUFFICES ASSUME recent' = recent,
                      NEW inst \in Instance, instance' = [instance EXCEPT ![h] = inst],
                      ~inst.decided =>
                        /\ ~instance[h].decided /\ inst.irrelevant = instance[h].irrelevant
                        /\ instance[h].round =< inst.round /\ inst.timer =< inst.round
               PROVE  /\ TimersAreNotAhead'
                      /\ \A k \in Heights :
                           /\ CanProcess(k)' => CanProcess(k)
                           /\ ~instance'[k].decided =>
                                ~instance[k].decided /\ instance[k].round =< instance'[k].round
  <2>1. ASSUME NEW x \in Rounds
        PROVE  /\ Bumped(instance[h], x) \in Instance
               /\ Bumped(instance[h], x).decided = instance[h].decided
               /\ Bumped(instance[h], x).irrelevant = instance[h].irrelevant
               /\ instance[h].round =< Bumped(instance[h], x).round
               /\ ~instance[h].decided =>
                    Bumped(instance[h], x).timer =< Bumped(instance[h], x).round
    <3> DEFINE inst == instance[h]
               later == [inst EXCEPT !.round = x]
    <3>1. inst \in Instance /\ x \in Nat /\ inst.round \in Nat /\ inst.timer \in Nat
      BY <1>0
    <3>2. ~inst.decided => inst.timer =< inst.round
      BY DEF TimersAreNotAhead
    <3>3. Bumped(inst, x) = IF x > inst.round
            THEN [inst EXCEPT !.round = x, !.accepted = FALSE,
                              !.timer = IF Relevant(later) THEN x ELSE inst.timer]
            ELSE inst
      BY DEF Bumped
    <3> HIDE DEF inst, later
    <3>4. /\ Bumped(inst, x).irrelevant = inst.irrelevant
          /\ inst.round =< Bumped(inst, x).round
          /\ ~inst.decided => Bumped(inst, x).timer =< Bumped(inst, x).round
      BY <3>1, <3>2, <3>3 DEF Instance
    <3>5. QED BY <3>1, <3>4, BumpedType DEF inst
  <2>2. CASE UponProposal(h, r)
    <3> DEFINE bumped == Bumped(instance[h], r)
               next == [bumped EXCEPT !.accepted = Relevant(bumped)]
    <3>1. /\ next \in Instance /\ next.decided = bumped.decided
          /\ next.irrelevant = bumped.irrelevant /\ next.round = bumped.round
          /\ next.timer = bumped.timer
      BY <2>1 DEF Instance, Relevant
    <3>2. /\ ~instance[h].decided /\ recent' = recent
          /\ instance' = [instance EXCEPT ![h] = next]
      BY <2>2 DEF UponProposal, CanProcess, KnownUndecided
    <3> HIDE DEF next
    <3>3. QED BY <1>1, <2>1, <3>1, <3>2
  <2>3. CASE UponRoundChange(h, r)
    BY <1>1, <2>1, <2>3 DEF UponRoundChange, CanProcess, KnownUndecided
  <2>4. CASE OnQBFTRoundTimeout(h, r)
    <3>1. instance[h].round + 1 \in Rounds
      BY <1>0, <2>4, NextRoundType DEF OnQBFTRoundTimeout, TimeoutApplies, CanProcess
    <3>2. QED
      BY <1>1, <2>1, <2>4, <3>1 DEF OnQBFTRoundTimeout, TimeoutApplies, CanProcess, KnownUndecided
  <2>5. ASSUME NEW x \in Rounds, recent' = recent,
               instance' = [instance EXCEPT ![h] = MarkDecided(@, x)]
        PROVE  /\ recent' = recent /\ TimersAreNotAhead'
               /\ \A k \in Heights :
                    /\ CanProcess(k)' => CanProcess(k)
                    /\ ~instance'[k].decided =>
                         ~instance[k].decided /\ instance[k].round =< instance'[k].round
    BY <1>0, <1>1, <2>5, MarkedType
  <2>6. CASE UponCommit(h)
    BY <1>0, <2>5, <2>6 DEF UponCommit, Instance
  <2>7. CASE KnownUndecided(h) /\ UponDecided(h, r)
    <3>1. Known(h)
      BY <2>7, EntryType DEF KnownUndecided, Known
    <3>2. QED BY <2>5, <2>7, <3>1 DEF UponDecided, Signals
  <2>8. CASE TimerExpires(h)
    <3> DEFINE next == [instance[h] EXCEPT !.timer = NoRound]
    <3>1. /\ next \in Instance /\ next.decided = instance[h].decided
          /\ next.irrelevant = instance[h].irrelevant /\ next.round = instance[h].round
          /\ next.timer = NoRound
      BY <1>0 DEF Instance
    <3>2. recent' = recent /\ instance' = [instance EXCEPT ![h] = next]
      BY <2>8 DEF TimerExpires
    <3> HIDE DEF next
    <3>3. next.timer =< next.round /\ instance[h].round =< next.round
      BY <1>0, <3>1 DEF NoRound
    <3>4. QED BY <1>1, <3>1, <3>2, <3>3
  <2>9. QED BY <2>2, <2>3, <2>4, <2>6, <2>7, <2>8
<1>2. /\ instance'[h] = inst
      /\ \A k \in Heights \ {h} : instance'[k] = instance[k]
  BY <1>1
<1>3. inst.round \in Nat
  BY <1>0 DEF Instance
<1>4. TimersAreNotAhead'
  BY <1>1, <1>2 DEF TimersAreNotAhead
<1>5. ASSUME NEW k \in Heights, CanProcess(k)' PROVE CanProcess(k)
  <2>1. CASE k # h
    BY <1>1, <1>2, <1>5, <2>1 DEF CanProcess, KnownUndecided, Relevant
  <2>2. CASE k = h
    <3>1. OwnEntry(h) \in recent /\ ~inst.decided /\ ~inst.irrelevant /\ inst.round < CutOffRound
      BY <1>1, <1>2, <1>5, <2>2 DEF CanProcess, KnownUndecided, Relevant, OwnEntry
    <3>2. QED BY <1>0, <1>1, <1>3, <2>2, <3>1 DEF CanProcess, KnownUndecided, Relevant
  <2>3. QED BY <2>1, <2>2
<1>6. \A k \in Heights : ~instance'[k].decided =>
        ~instance[k].decided /\ instance[k].round =< instance'[k].round
  BY <1>0, <1>1, <1>2
<1>7. QED BY <1>4, <1>5, <1>6

\* Starting a height makes every other remembered instance irrelevant.
LEMMA StartStep ==
  ASSUME ControllerTypeOK, TimersAreNotAhead, NEW h \in Heights, StartNewInstance(h)
  PROVE  /\ \A k \in Heights : CanProcess(k)' => k = h
         /\ TimersAreNotAhead'
         /\ \A k \in Heights \ {h} : /\ instance'[k].decided = instance[k].decided
                                     /\ instance'[k].round = instance[k].round
         /\ \A k \in Heights : started'[k] >= started[k]
<1> USE DEF ControllerTypeOK
<1>1. /\ recent' \subseteq recent \cup {OwnEntry(h)}
      /\ instance' = InstancesAfterStart(h)
      /\ started' = [started EXCEPT ![h] = @ + 1]
  BY AddedEntries DEF StartNewInstance
<1>2. \A k \in Heights : instance[k] \in Instance
  OBVIOUS
<1>3. \A k \in Heights \ {h} :
        /\ OwnEntry(k) \in recent => instance'[k] = MarkIrrelevant(instance[k])
        /\ OwnEntry(k) \notin recent => instance'[k] = instance[k]
  BY <1>1 DEF InstancesAfterStart
<1>4. instance'[h] = NewInstance
  BY <1>1 DEF InstancesAfterStart
<1>5. \A k \in Heights :
        /\ MarkIrrelevant(instance[k]).decided = instance[k].decided
        /\ MarkIrrelevant(instance[k]).round = instance[k].round
        /\ MarkIrrelevant(instance[k]).irrelevant
        /\ MarkIrrelevant(instance[k]).timer =< MarkIrrelevant(instance[k]).round
  <2>1. \A x \in Rounds : x \in Nat
    BY ControllerAssumption DEF Rounds, FirstRound
  <2>2. QED BY <1>2, <2>1 DEF MarkIrrelevant, Instance, NoRound
<1>6. ASSUME NEW k \in Heights, CanProcess(k)' PROVE k = h
  <2>1. k # h => OwnEntry(k) \in recent
    BY <1>1, <1>6 DEF CanProcess, KnownUndecided, OwnEntry
  <2>2. QED BY <1>3, <1>5, <1>6, <2>1 DEF CanProcess, Relevant
<1>7. NewInstance.timer =< NewInstance.round
  BY DEF NewInstance, FirstRound
<1>8. TimersAreNotAhead'
  BY <1>3, <1>4, <1>5, <1>7 DEF TimersAreNotAhead
<1>9. \A k \in Heights : started'[k] >= started[k]
  BY <1>1
<1>10. QED BY <1>3, <1>5, <1>6, <1>8, <1>9

\* At most one height works after every controller step.
LEMMA OneHeightStep ==
  ASSUME ControllerTypeOK, TimersAreNotAhead, OneHeightWorks, [ControllerNext]_controllerVars
  PROVE  TimersAreNotAhead' /\ OneHeightWorks'
<1>1. CASE UNCHANGED <<recent, instance>>
  BY <1>1 DEF TimersAreNotAhead, OneHeightWorks, CanProcess, KnownUndecided, Relevant, OwnEntry
<1>2. ASSUME NEW h \in Heights, StartNewInstance(h)
      PROVE  TimersAreNotAhead' /\ OneHeightWorks'
  BY <1>2, StartStep DEF OneHeightWorks
<1>3. ASSUME NEW h \in Heights, NEW r \in Rounds,
             \/ UponProposal(h, r) \/ UponRoundChange(h, r) \/ OnQBFTRoundTimeout(h, r)
             \/ UponCommit(h) \/ TimerExpires(h) \/ (KnownUndecided(h) /\ UponDecided(h, r))
      PROVE  TimersAreNotAhead' /\ OneHeightWorks'
  <2>1. TimersAreNotAhead' /\ \A k \in Heights : CanProcess(k)' => CanProcess(k)
    BY <1>3, WorkingStep
  <2>2. QED BY <2>1 DEF OneHeightWorks
<1>4. FirstRound \in Rounds /\ \A r \in WorkingRounds : r \in Rounds
  BY ControllerAssumption DEF FirstRound, Rounds, WorkingRounds
<1>5. ASSUME NEW h \in Heights, NEW r \in WorkingRounds, UponDecided(h, r)
      PROVE  TimersAreNotAhead' /\ OneHeightWorks'
  <2>1. CASE KnownUndecided(h)
    BY <1>3, <1>4, <1>5, <2>1
  <2>2. CASE ~KnownUndecided(h) /\ Known(h)
    BY <1>1, <1>5, <2>2 DEF UponDecided
  <2>3. CASE ~Known(h)
    <3>1. recent' = Added(recent, CertificateEntry(h)) /\ UNCHANGED instance
      BY <1>5, <2>3, EntryType DEF UponDecided, Signals, KnownUndecided, Known
    <3>2. \A k \in Heights : OwnEntry(k) \in recent' => OwnEntry(k) \in recent
      BY <3>1, AddedEntries DEF OwnEntry, CertificateEntry
    <3>3. \A k \in Heights : CanProcess(k)' => CanProcess(k)
      BY <3>1, <3>2 DEF CanProcess, KnownUndecided, Relevant, OwnEntry
    <3>4. QED BY <3>1, <3>3 DEF OneHeightWorks, TimersAreNotAhead
  <2>4. QED BY <2>1, <2>2, <2>3
<1>6. QED
  BY <1>1, <1>2, <1>3, <1>4, <1>5 DEF ControllerNext, controllerVars

\* Initially no instance is remembered.
LEMMA WorkInit == ControllerInit => TimersAreNotAhead /\ OneHeightWorks
BY DEF ControllerInit, TimersAreNotAhead, OneHeightWorks, CanProcess, KnownUndecided,
       NewInstance, FirstRound

\* The controller's invariants together.
LEMMA WorkHolds == ControllerSpec => [](ForgetInv /\ TimersAreNotAhead /\ OneHeightWorks)
<1>1. ControllerInit => ForgetInv /\ TimersAreNotAhead /\ OneHeightWorks
  BY ForgetInit, WorkInit
<1>2. (ForgetInv /\ TimersAreNotAhead /\ OneHeightWorks) /\ [ControllerNext]_controllerVars
        => (ForgetInv /\ TimersAreNotAhead /\ OneHeightWorks)'
  BY ForgetStep, OneHeightStep DEF ForgetInv, CInv
<1>3. QED BY <1>1, <1>2, PTL DEF ControllerSpec

\* Of all the instances the controller remembers, one at most still processes
\* messages and timeouts: startInstance terminates the others, and neither a
\* certificate nor an eviction brings one back.
THEOREM OneInstanceWorksHolds == Spec => []OneInstanceWorks
<1>1. ForgetInv /\ OneHeightWorks => OneInstanceWorks
  <2> SUFFICES ASSUME ForgetInv, OneHeightWorks, NEW i \in recent, NEW j \in recent,
                      CanProcess(i.height), CanProcess(j.height)
               PROVE  i = j
    BY DEF OneInstanceWorks
  <2>1. i.height \in Heights /\ j.height \in Heights
    BY DEF ForgetInv, CInv, ControllerTypeOK, Entry
  <2>2. QED BY <2>1 DEF OneHeightWorks, ForgetInv, OneEntryPerHeight
<1>2. QED BY <1>1, WorkHolds, RunnerUsesController, PTL

\* The timeouts in the queue are those of started instances.
LEMMA TimeoutStep ==
  ASSUME TypeOK, CInv, TimersAreNotAhead, TimeoutsOfStarted, TimeoutsAreNotAhead, [Next]_vars
  PROVE  TimeoutsOfStarted' /\ TimeoutsAreNotAhead'
<1>0. /\ ControllerTypeOK /\ \A t \in timeouts : t.height \in Heights /\ t.round \in Nat
      /\ \A k \in Heights : started[k] \in Nat /\ instance[k].round \in Nat
  BY ControllerAssumption DEF TypeOK, Timeout, ControllerTypeOK, Instance, Rounds, FirstRound
<1>00. FirstRound \in Rounds /\ \A r \in WorkingRounds : r \in Rounds
  BY ControllerAssumption DEF FirstRound, Rounds, WorkingRounds
<1>1. ASSUME timeouts' \subseteq timeouts, UNCHANGED controllerVars
      PROVE  TimeoutsOfStarted' /\ TimeoutsAreNotAhead'
  BY <1>1 DEF controllerVars, TimeoutsOfStarted, TimeoutsAreNotAhead
<1>2. ASSUME NEW h \in Heights, NEW r \in Rounds, timeouts' \subseteq timeouts,
             \/ UponProposal(h, r) \/ UponRoundChange(h, r) \/ OnQBFTRoundTimeout(h, r)
             \/ UponCommit(h) \/ TimerExpires(h) \/ (KnownUndecided(h) /\ UponDecided(h, r))
      PROVE  TimeoutsOfStarted' /\ TimeoutsAreNotAhead'
  <2>1. \A k \in Heights : ~instance'[k].decided =>
          ~instance[k].decided /\ instance[k].round =< instance'[k].round
    BY <1>0, <1>2, WorkingStep
  <2>2. UNCHANGED started
    BY <1>2 DEF UponProposal, UponRoundChange, OnQBFTRoundTimeout, UponCommit, TimerExpires,
                UponDecided
  <2>3. ControllerTypeOK'
    BY RunnerStepIsControllerStep, ControllerTypeStep, <1>0
  <2>4. \A k \in Heights : instance'[k].round \in Nat
    BY <2>3, ControllerAssumption DEF ControllerTypeOK, Instance, Rounds, FirstRound
  <2>5. ASSUME NEW t \in timeouts, ~instance'[t.height].decided
        PROVE  t.round =< instance'[t.height].round
    BY <1>0, <2>1, <2>4, <2>5 DEF TimeoutsAreNotAhead
  <2>6. QED BY <1>2, <2>2, <2>5 DEF TimeoutsOfStarted, TimeoutsAreNotAhead
<1>3. CASE UNCHANGED vars
  BY <1>1, <1>3 DEF vars, runnerVars
<1>4. CASE ProcessPreConsensus
  <2>1. CASE UNCHANGED controllerVars
    BY <1>1, <1>4, <2>1 DEF ProcessPreConsensus
  <2>2. CASE StartNewInstance(duty)
    <3>1. duty \in Heights /\ timeouts' = timeouts
      BY <1>4, RunnerAssumption DEF ProcessPreConsensus, Idle, TypeOK
    <3>2. started[duty] = 0
      BY <1>0, <2>2, <3>1, CanStartUntouched DEF StartNewInstance, Touched
    <3>3. \A t \in timeouts : t.height # duty
      BY <1>0, <3>1, <3>2 DEF TimeoutsOfStarted
    <3>4. /\ \A k \in Heights \ {duty} : /\ instance'[k].decided = instance[k].decided
                                         /\ instance'[k].round = instance[k].round
          /\ \A k \in Heights : started'[k] >= started[k]
      BY <1>0, <2>2, <3>1, StartStep
    <3>5. \A k \in Heights : started'[k] \in Nat
      BY <1>0, RunnerStepIsControllerStep, ControllerTypeStep DEF ControllerTypeOK
    <3>6. TimeoutsOfStarted'
      BY <1>0, <3>1, <3>4, <3>5 DEF TimeoutsOfStarted
    <3>7. TimeoutsAreNotAhead'
      BY <1>0, <3>1, <3>3, <3>4 DEF TimeoutsAreNotAhead
    <3>8. QED BY <3>6, <3>7
  <2>3. QED BY <1>4, <2>1, <2>2 DEF ProcessPreConsensus
<1>5. CASE ProcessPostConsensus
  BY <1>1, <1>5 DEF ProcessPostConsensus
<1>6. ASSUME NEW s \in Duties, StartNewDuty(s)
      PROVE  TimeoutsOfStarted' /\ TimeoutsAreNotAhead'
  BY <1>1, <1>6 DEF StartNewDuty, TimeoutsAfterDutyStart
<1>7. ASSUME NEW t \in timeouts, OnTimeout(t)
      PROVE  TimeoutsOfStarted' /\ TimeoutsAreNotAhead'
  <2>1. t.height \in Heights /\ t.round \in Rounds
    BY DEF TypeOK, Timeout
  <2>2. QED BY <1>1, <1>2, <1>7, <2>1 DEF OnTimeout
<1>8. ASSUME NEW h \in Heights, ProcessCommit(h)
      PROVE  TimeoutsOfStarted' /\ TimeoutsAreNotAhead'
  BY <1>00, <1>2, <1>8 DEF ProcessCommit
<1>9. ASSUME NEW h \in Heights, NEW r \in Rounds, ProcessProposalOrRoundChange(h, r)
      PROVE  TimeoutsOfStarted' /\ TimeoutsAreNotAhead'
  BY <1>2, <1>9 DEF ProcessProposalOrRoundChange, runnerVars
<1>10. ASSUME NEW h \in Heights, NEW r \in WorkingRounds, ProcessCertificate(h, r)
       PROVE  TimeoutsOfStarted' /\ TimeoutsAreNotAhead'
  <2>1. CASE KnownUndecided(h)
    BY <1>00, <1>2, <1>10, <2>1 DEF ProcessCertificate
  <2>2. CASE ~KnownUndecided(h)
    BY <1>10, <2>2 DEF ProcessCertificate, UponDecided, TimeoutsOfStarted, TimeoutsAreNotAhead
  <2>3. QED BY <2>1, <2>2
<1>11. ASSUME NEW h \in Heights, RoundTimerFires(h)
       PROVE  TimeoutsOfStarted' /\ TimeoutsAreNotAhead'
  <2> DEFINE new == [height |-> h, round |-> instance[h].timer]
  <2>1. /\ started[h] > 0 /\ UNCHANGED started /\ timeouts' \subseteq timeouts \cup {new}
        /\ instance' = [instance EXCEPT ![h].timer = NoRound]
    BY <1>11 DEF RoundTimerFires, TimerExpires
  <2>2. \A k \in Heights : /\ instance'[k].decided = instance[k].decided
                           /\ instance'[k].round = instance[k].round
    BY <1>0, <2>1 DEF ControllerTypeOK, Instance
  <2>3. ~instance[h].decided => new.round =< instance[h].round
    BY DEF TimersAreNotAhead
  <2>4. new.height = h
    OBVIOUS
  <2> HIDE DEF new
  <2>5. QED BY <1>0, <2>1, <2>2, <2>3, <2>4 DEF TimeoutsOfStarted, TimeoutsAreNotAhead
<1>12. QED
  BY <1>3, <1>4, <1>5, <1>6, <1>7, <1>8, <1>9, <1>10, <1>11 DEF Next

\* A queued timeout is of a round its instance has reached, unless the
\* instance decided: however late it is popped, it advances the instance out
\* of its own round at most.
THEOREM TimeoutsAreNotAheadHolds == Spec => []TimeoutsAreNotAhead
<1>1. Init => TimeoutsOfStarted /\ TimeoutsAreNotAhead
  BY DEF Init, TimeoutsOfStarted, TimeoutsAreNotAhead
<1>2. TypeOK /\ (ForgetInv /\ TimersAreNotAhead /\ OneHeightWorks)
        /\ (TimeoutsOfStarted /\ TimeoutsAreNotAhead) /\ [Next]_vars
        => (TimeoutsOfStarted /\ TimeoutsAreNotAhead)'
  BY TimeoutStep DEF ForgetInv
<1>3. QED
  BY <1>1, <1>2, RunnerTypeCorrect, WorkHolds, RunnerUsesController, PTL DEF Spec


-----------------------------------------------------------------------------
(* The slice behind the container.                                         *)

\* Entries that can be put in order of height.
Ordered(E) ==
  /\ IsFiniteSet(E) /\ \A e \in E : e.height \in Nat
  /\ \A e, f \in E : e.height = f.height => e = f

Descending(s, k) == \A m, n \in 1 .. k : m < n => s[m].height > s[n].height

LEMMA Ranks ==
  ASSUME NEW E, Ordered(E)
  PROVE  /\ \A e \in E : Rank(E, e) \in 1 .. Cardinality(E)
         /\ \A e, f \in E : e.height > f.height => Rank(E, e) < Rank(E, f)
         /\ \A e, f \in E : Rank(E, e) = Rank(E, f) => e = f
<1> DEFINE Above(e) == {o \in E : o.height >= e.height}
<1>1. ASSUME NEW e \in E
      PROVE  /\ IsFiniteSet(Above(e)) /\ Cardinality(Above(e)) \in Nat
             /\ Cardinality(Above(e)) <= Cardinality(E) /\ e \in Above(e) /\ Cardinality(E) \in Nat
  <2>1. e \in Above(e) /\ Above(e) \in SUBSET E
    BY DEF Ordered
  <2>2. IsFiniteSet(E)
    BY DEF Ordered
  <2> HIDE DEF Above
  <2>3. IsFiniteSet(Above(e)) /\ Cardinality(Above(e)) <= Cardinality(E)
    BY <2>1, <2>2, FS_Subset
  <2>4. Cardinality(E) \in Nat
    BY <2>2, FS_CardinalityType
  <2>5. Cardinality(Above(e)) \in Nat
    BY <2>3, FS_CardinalityType
  <2>6. QED BY <2>1, <2>3, <2>4, <2>5
<1>2. ASSUME NEW e \in E PROVE Cardinality(Above(e)) # 0
  BY <1>1, FS_EmptySet
<1>3. ASSUME NEW e \in E, NEW f \in E, e.height > f.height
      PROVE  Cardinality(Above(e)) < Cardinality(Above(f))
  <2>1. Above(e) \in SUBSET Above(f) /\ f \notin Above(e) /\ f \in Above(f)
    BY <1>3 DEF Ordered
  <2>2. Cardinality(Above(e)) <= Cardinality(Above(f)) /\ Cardinality(Above(e)) # Cardinality(Above(f))
    <3> HIDE DEF Above
    <3>1. QED BY <1>1, <2>1, FS_Subset
  <2> HIDE DEF Above
  <2>3. Cardinality(Above(e)) \in Nat /\ Cardinality(Above(f)) \in Nat
    BY <1>1
  <2>4. QED BY <2>2, <2>3
<1>4. \A e \in E : Rank(E, e) = Cardinality(Above(e))
  BY DEF Rank
<1> HIDE DEF Above
<1>5. \A e \in E : Rank(E, e) \in 1 .. Cardinality(E)
  BY <1>1, <1>2, <1>4
<1>6. \A e, f \in E : e.height > f.height => Rank(E, e) < Rank(E, f)
  BY <1>3, <1>4
<1>7. ASSUME NEW e \in E, NEW f \in E, Rank(E, e) = Rank(E, f) PROVE e = f
  <2>1. ~(e.height > f.height) /\ ~(f.height > e.height)
    BY <1>5, <1>6, <1>7
  <2>2. QED BY <2>1 DEF Ordered
<1>8. QED BY <1>5, <1>6, <1>7

\* The slice holds all the entries, highest first.
LEMMA SliceInOrder ==
  ASSUME NEW E, Ordered(E)
  PROVE  /\ Cardinality(E) \in Nat /\ Slice(E) \in [1 .. Cardinality(E) -> E]
         /\ Descending(Slice(E), Cardinality(E))
         /\ \A e \in E : \E n \in 1 .. Cardinality(E) : Slice(E)[n] = e
<1> DEFINE k == Cardinality(E)
           rank == [e \in E |-> Rank(E, e)]
<1>1. k \in Nat /\ IsFiniteSet(1 .. k) /\ Cardinality(1 .. k) = k
  BY FS_CardinalityType, FS_Interval DEF Ordered
<1>2. rank \in Injection(E, 1 .. k)
  BY Ranks DEF Injection, IsInjective
<1>3. rank \in Surjection(E, 1 .. k)
  <2> HIDE DEF rank, k
  <2>1. Cardinality(E) = Cardinality(1 .. k)
    BY <1>1 DEF k
  <2>2. QED BY <1>1, <1>2, <2>1, FS_Injection
<1>4. \A n \in 1 .. k : \E e \in E : Rank(E, e) = n
  BY <1>3 DEF Surjection
<1>5. \A n \in 1 .. k : Slice(E)[n] \in E /\ Rank(E, Slice(E)[n]) = n
  BY <1>4 DEF Slice
<1>6. Slice(E) \in [1 .. k -> E]
  BY <1>5 DEF Slice
<1>7. ASSUME NEW m \in 1 .. k, NEW n \in 1 .. k, m < n
      PROVE  Slice(E)[m].height > Slice(E)[n].height
  <2> DEFINE a == Slice(E)[m]
             b == Slice(E)[n]
  <2>1. a \in E /\ b \in E /\ Rank(E, a) = m /\ Rank(E, b) = n
    BY <1>5
  <2> HIDE DEF a, b
  <2>2. ~(b.height > a.height) /\ a # b
    BY <1>1, <1>7, <2>1, Ranks
  <2>3. a.height > b.height
    BY <2>1, <2>2 DEF Ordered
  <2>4. QED BY <2>3 DEF a, b
<1>8. ASSUME NEW e \in E PROVE \E n \in 1 .. k : Slice(E)[n] = e
  <2>1. Rank(E, e) \in 1 .. k
    BY Ranks
  <2>2. Slice(E)[Rank(E, e)] = e
    BY <1>5, <2>1, Ranks
  <2>3. QED BY <2>1, <2>2
<1>9. QED BY <1>1, <1>6, <1>7, <1>8 DEF Descending

\* No other sequence does.
LEMMA SliceIsUnique ==
  ASSUME NEW E, Ordered(E), NEW s \in [1 .. Cardinality(E) -> E], Descending(s, Cardinality(E))
  PROVE  s = Slice(E)
<1> DEFINE k == Cardinality(E)
<1>1. k \in Nat /\ IsFiniteSet(1 .. k) /\ Cardinality(1 .. k) = k
  BY FS_CardinalityType, FS_Interval DEF Ordered
<1>2. \A m, n \in 1 .. k : s[m].height \in Nat /\ (m < n => s[m].height > s[n].height)
  BY DEF Ordered, Descending
<1>3. s \in Injection(1 .. k, E)
  BY <1>1, <1>2 DEF Injection, IsInjective
<1>4. s \in Surjection(1 .. k, E)
  <2>1. Cardinality(1 .. k) = Cardinality(E) /\ IsFiniteSet(E)
    BY <1>1 DEF Ordered
  <2>2. QED BY <1>3, <2>1, FS_Injection
<1>5. ASSUME NEW n \in 1 .. k PROVE Rank(E, s[n]) = n
  <2> DEFINE Above == {o \in E : o.height >= s[n].height}
             t == [m \in 1 .. n |-> s[m]]
  <2>1. IsFiniteSet(1 .. n) /\ Cardinality(1 .. n) = n
    BY <1>1, FS_Interval
  <2>2. \A m \in 1 .. n : s[m] \in Above
    BY <1>1, <1>2
  <2>3. ASSUME NEW o \in Above PROVE \E m \in 1 .. n : s[m] = o
    <3>1. PICK m \in 1 .. k : s[m] = o
      BY <1>4 DEF Surjection
    <3>2. ~(n < m)
      BY <1>2, <3>1
    <3>3. QED BY <1>1, <3>1, <3>2
  <2>4. t \in Bijection(1 .. n, Above)
    <3>1. t \in Injection(1 .. n, Above)
      BY <1>1, <1>3, <2>2 DEF Injection, IsInjective
    <3>2. t \in Surjection(1 .. n, Above)
      BY <2>2, <2>3 DEF Surjection
    <3>3. QED BY <3>1, <3>2 DEF Bijection
  <2> HIDE DEF Above, t
  <2>5. Cardinality(Above) = n
    BY <2>1, <2>4, FS_Bijection DEF ExistsBijection
  <2>6. QED BY <2>5 DEF Rank, Above
<1>6. ASSUME NEW n \in 1 .. k PROVE s[n] = (CHOOSE e \in E : Rank(E, e) = n)
  <2>1. s[n] \in E /\ Rank(E, s[n]) = n
    BY <1>5
  <2>2. QED BY <2>1, Ranks
<1>7. QED BY <1>6 DEF Slice

\* Where addNewInstance puts an entry whose height is not there yet.
LEMMA WhereToInsert ==
  ASSUME NEW E, Ordered(E), NEW i, i.height \in Nat, \A e \in E : e.height # i.height
  PROVE  LET index == IndexToInsert(Slice(E), i)
             k == Cardinality(E)
         IN  /\ Len(Slice(E)) = k /\ index \in 1 .. k + 1
             /\ \A n \in 1 .. k : n < index => Slice(E)[n].height > i.height
             /\ \A n \in 1 .. k : n >= index => Slice(E)[n].height < i.height
<1> DEFINE k == Cardinality(E)
           s == Slice(E)
           lower == {n \in 1 .. k : s[n].height < i.height}
<1>1. /\ k \in Nat /\ s \in [1 .. k -> E]
      /\ \A m, n \in 1 .. k : m < n => s[m].height > s[n].height
  BY SliceInOrder DEF Descending
<1>2. \A n \in 1 .. k : s[n].height \in Nat /\ s[n].height # i.height
  BY <1>1 DEF Ordered
<1> HIDE DEF k, s
<1>3. Len(s) = k
  <2>1. s \in Seq(E)
    BY <1>1
  <2>2. QED BY <1>1, <2>1
<1>4. IndexToInsert(s, i) = IF lower = {} THEN k + 1
                            ELSE CHOOSE n \in lower : \A m \in lower : n =< m
  BY <1>3 DEF IndexToInsert
<1>5. CASE lower = {}
  BY <1>1, <1>2, <1>3, <1>4, <1>5 DEF s, k
<1>6. CASE lower # {}
  <2>0. lower \in SUBSET Nat
    BY <1>1
  <2>1. PICK x \in lower : \A m \in lower : x =< m
    <3> HIDE DEF lower
    <3>1. QED BY <1>6, <2>0, LeastNatural
  <2> DEFINE index == IndexToInsert(s, i)
  <2>2. index \in lower /\ \A m \in lower : index =< m
    BY <1>4, <1>6, <2>1
  <2> HIDE DEF index
  <2>3. index \in 1 .. k + 1
    BY <1>1, <2>2
  <2>4. \A n \in 1 .. k : n < index => s[n].height > i.height
    BY <1>1, <1>2, <2>2
  <2>5. \A n \in 1 .. k : n >= index => s[n].height < i.height
    BY <1>1, <1>2, <2>2
  <2>6. QED BY <1>3, <2>3, <2>4, <2>5 DEF s, k, index
<1>7. QED BY <1>5, <1>6

\* Moving the entries from index on by one keeps the order.
LEMMA ShiftedInOrder ==
  ASSUME NEW E, NEW k \in Nat, NEW s \in [1 .. k -> E], Descending(s, k),
         NEW i, i.height \in Nat, \A e \in E : e.height \in Nat,
         NEW index \in 1 .. k + 1,
         \A n \in 1 .. k : n < index => s[n].height > i.height,
         \A n \in 1 .. k : n >= index => s[n].height < i.height,
         NEW len \in {k, k + 1}, NEW F,
         \A n \in 1 .. len : Shifted(s, index, i, len)[n] \in F
  PROVE  Shifted(s, index, i, len) \in [1 .. len -> F] /\ Descending(Shifted(s, index, i, len), len)
<1> DEFINE t == Shifted(s, index, i, len)
<1>1. t \in [1 .. len -> F]
  BY DEF Shifted
<1>2. \A n \in 1 .. len : t[n] = IF n < index THEN s[n] ELSE IF n = index THEN i ELSE s[n - 1]
  BY DEF Shifted
<1>3. ASSUME NEW m \in 1 .. len, NEW n \in 1 .. len, m < n PROVE t[m].height > t[n].height
  <2> HIDE DEF t
  <2>1. \A x \in 1 .. k : s[x].height \in Nat
    OBVIOUS
  <2>2. \A x, y \in 1 .. k : x < y => s[x].height > s[y].height
    BY DEF Descending
  <2>3. CASE n < index
    BY <1>2, <1>3, <2>2, <2>3
  <2>4. CASE n = index
    BY <1>2, <1>3, <2>4
  <2>5. CASE n > index
    <3>1. t[n] = s[n - 1] /\ n - 1 \in 1 .. k /\ n - 1 >= index
      BY <1>2, <2>5
    <3>2. CASE m < index
      BY <1>2, <2>2, <3>1, <3>2
    <3>3. CASE m = index
      BY <1>2, <3>1, <3>3
    <3>4. CASE m > index
      <4>1. t[m] = s[m - 1] /\ m - 1 \in 1 .. k /\ m - 1 < n - 1
        BY <1>2, <1>3, <3>4
      <4>2. QED BY <2>2, <3>1, <4>1
    <3>5. QED BY <3>2, <3>3, <3>4
  <2>6. QED BY <2>3, <2>4, <2>5
<1>4. QED BY <1>1, <1>3 DEF Descending

\* addNewInstance on the slice does what Added does on the set.
LEMMA SliceAdds ==
  ASSUME NEW E \in SUBSET Entry, IsFiniteSet(E), Cardinality(E) =< Capacity, NEW i \in Entry,
         \A e, f \in E : e.height = f.height => e = f, \A e \in E : e.height # i.height
  PROVE  /\ AddNewInstance(Slice(E), i) = Slice(Added(E, i))
         /\ Len(AddNewInstance(Slice(E), i)) =< Capacity
<1> DEFINE k == Cardinality(E)
           s == Slice(E)
           index == IndexToInsert(s, i)
           t == AddNewInstance(s, i)
<1>1. \A e \in Entry : e.height \in Nat
  BY ControllerAssumption DEF Entry
<1>2. Ordered(E) /\ i.height \in Nat /\ i \notin E
  BY <1>1 DEF Ordered
<1>3. /\ Len(s) = k /\ index \in 1 .. k + 1
      /\ \A n \in 1 .. k : n < index => s[n].height > i.height
      /\ \A n \in 1 .. k : n >= index => s[n].height < i.height
  BY <1>2, WhereToInsert
<1>4. /\ k \in Nat /\ s \in [1 .. k -> E] /\ Descending(s, k)
      /\ \A e \in E : \E n \in 1 .. k : s[n] = e
  BY <1>2, SliceInOrder
<1>5. t = IF index > k THEN IF k < Capacity THEN Append(s, i) ELSE s
          ELSE Shifted(s, index, i, IF k = Capacity THEN Capacity ELSE k + 1)
  BY <1>3 DEF AddNewInstance
<1>6. \A e, f \in E \cup {i} : e.height = f.height => e = f
  OBVIOUS
<1>7. Capacity \in Nat /\ Capacity > 0 /\ k =< Capacity
  BY ControllerAssumption
<1> DEFINE F == Added(E, i)
<1>8. Ordered(F)
  <2>1. F \subseteq E \cup {i}
    BY DEF Added
  <2>2. IsFiniteSet(F)
    BY <1>2, <2>1, FS_AddElement, FS_Subset
  <2>3. QED BY <1>1, <1>6, <2>1, <2>2 DEF Ordered
<1>9. Cardinality(E) = k
  OBVIOUS
<1> HIDE DEF k, s, index, t, F
<1>10. ASSUME Cardinality(F) =< Capacity, t \in [1 .. Cardinality(F) -> F],
              Descending(t, Cardinality(F))
       PROVE  t = Slice(F) /\ Len(t) =< Capacity
  <2>1. Cardinality(F) \in Nat
    BY <1>8, FS_CardinalityType DEF Ordered
  <2>2. t \in Seq(F) /\ Len(t) = Cardinality(F)
    BY <1>10, <2>1
  <2>3. QED BY <1>8, <1>10, <2>2, SliceIsUnique
<1>11. SUFFICES t = Slice(F) /\ Len(t) =< Capacity
  BY DEF t, s, F
<1>12. CASE k < Capacity
  <2>1. F = E \cup {i} /\ Cardinality(F) = k + 1
    BY <1>2, <1>9, <1>12, FS_AddElement DEF F, Added
  <2>2. t = Shifted(s, index, i, k + 1)
    <3>1. CASE index > k
      <4>1. index = k + 1 /\ s \in Seq(E) /\ Len(s) = k
        BY <1>3, <1>4, <3>1
      <4>2. t = Append(s, i)
        BY <1>5, <1>12, <3>1
      <4>3. Append(s, i) = [n \in 1 .. k + 1 |-> IF n < index THEN s[n]
                                                  ELSE IF n = index THEN i ELSE s[n - 1]]
        <5>1. Append(s, i) = [n \in 1 .. k + 1 |-> IF n = k + 1 THEN i ELSE s[n]]
          <6>1. s \in Seq(Entry) /\ i \in Entry /\ Len(s) = k
            BY <4>1
          <6>2. Append(s, i) \in Seq(Entry) /\ Len(Append(s, i)) = k + 1
            BY <6>1
          <6>3. \A n \in 1 .. k + 1 : Append(s, i)[n] = IF n = k + 1 THEN i ELSE s[n]
            BY <1>4, <6>1
          <6>4. Append(s, i) = [n \in 1 .. k + 1 |-> Append(s, i)[n]]
            <7> DEFINE u == Append(s, i)
            <7>1. u \in Seq(Entry) /\ Len(u) = k + 1
              BY <6>2
            <7> HIDE DEF u
            <7>2. u \in [1 .. k + 1 -> Entry]
              BY <1>4, <7>1
            <7>3. u = [n \in 1 .. k + 1 |-> u[n]]
              BY <7>2
            <7>4. QED BY <7>3 DEF u
          <6>5. QED BY <6>3, <6>4
        <5>2. QED BY <1>4, <4>1, <5>1
      <4>4. QED BY <4>2, <4>3 DEF Shifted
    <3>2. CASE ~(index > k)
      BY <1>5, <1>12, <1>7, <3>2
    <3>3. QED BY <3>1, <3>2
  <2>3. \A n \in 1 .. k + 1 : t[n] \in F
    BY <1>3, <1>4, <2>1, <2>2 DEF Shifted
  <2>4. t \in [1 .. k + 1 -> F] /\ Descending(t, k + 1)
    BY <1>1, <1>2, <1>3, <1>4, <2>2, <2>3, ShiftedInOrder
  <2>5. Cardinality(F) =< Capacity
    BY <1>4, <1>7, <1>12, <2>1
  <2>6. t \in [1 .. Cardinality(F) -> F] /\ Descending(t, Cardinality(F))
    BY <2>1, <2>4
  <2>7. QED BY <1>10, <2>5, <2>6
<1>13. CASE k = Capacity
  <2>1. PICK low \in E \cup {i} :
           /\ F = (E \cup {i}) \ {low}
           /\ \A e \in F : low.height < e.height
           /\ Cardinality(F) = Capacity
    BY <1>2, <1>6, <1>9, <1>13, AddedDropsLowest DEF F
  <2>2. CASE index > k
    <3>1. low = i
      <4>1. \A e \in E : e.height > i.height
        BY <1>3, <1>4, <2>2
      <4>2. QED BY <1>1, <2>1, <4>1
    <3>2. F = E /\ t = s
      BY <1>2, <1>5, <1>13, <1>7, <2>1, <2>2, <3>1
    <3>3. QED BY <1>3, <1>13, <3>2 DEF s
  <2>3. CASE index =< k
    <3>1. t = Shifted(s, index, i, k) /\ k \in 1 .. k
      BY <1>3, <1>4, <1>5, <1>7, <1>13, <2>3
    <3>2. low = s[k]
      <4>1. s[k] \in E /\ s[k].height < i.height
        BY <1>3, <1>4, <2>3, <3>1
      <4>2. \A e \in E : e.height >= s[k].height
        BY <1>1, <1>4, <3>1 DEF Descending
      <4>3. s[k] \in F => low.height < s[k].height
        BY <2>1
      <4>4. low \in E \/ low = i
        OBVIOUS
      <4>5. low.height \in Nat /\ s[k].height \in Nat
        BY <1>1, <4>1
      <4>6. QED BY <1>2, <2>1, <4>1, <4>2, <4>3, <4>4, <4>5
    <3>3. ASSUME NEW n \in 1 .. k PROVE t[n] \in F
      <4>1. \A m \in 1 .. k : m # k => s[m] \in F
        BY <1>1, <1>4, <2>1, <3>1, <3>2 DEF Descending
      <4>2. i \in F
        BY <1>2, <1>4, <2>1, <3>1, <3>2
      <4>3. QED BY <1>3, <1>4, <2>3, <3>1, <4>1, <4>2 DEF Shifted
    <3>4. t \in [1 .. k -> F] /\ Descending(t, k)
      BY <1>1, <1>2, <1>3, <1>4, <3>1, <3>3, ShiftedInOrder
    <3>5. QED BY <1>7, <1>10, <1>13, <2>1, <3>4
  <2>4. QED BY <1>3, <1>4, <2>2, <2>3
<1>14. QED BY <1>4, <1>7, <1>12, <1>13

\* Whatever certificates and starts made of the container: addNewInstance,
\* which works on indices, keeps the slice in descending order and within its
\* capacity, and drops the lowest instance of a full one and no other.
THEOREM SliceKeepsHighestHolds == Spec => []SliceKeepsHighest
<1>1. ForgetInv => SliceKeepsHighest
  <2> SUFFICES ASSUME ForgetInv, NEW h \in Heights, ~Known(h)
               PROVE  /\ AddNewInstance(Slice(recent), OwnEntry(h)) = Slice(Added(recent, OwnEntry(h)))
                      /\ Len(AddNewInstance(Slice(recent), OwnEntry(h))) =< Capacity
    BY DEF SliceKeepsHighest
  <2>1. /\ recent \in SUBSET Entry /\ IsFiniteSet(recent) /\ Cardinality(recent) =< Capacity
        /\ \A e, f \in recent : e.height = f.height => e = f
    BY DEF ForgetInv, CInv, ControllerTypeOK, LatestIsRemembered, OneEntryPerHeight, WithinCapacity
  <2>2. OwnEntry(h) \in Entry /\ OwnEntry(h).height = h
    BY EntryType
  <2>3. \A e \in recent : e.height # OwnEntry(h).height
    BY <2>2 DEF Known
  <2>4. QED BY <2>1, <2>2, <2>3, SliceAdds
<1>2. ControllerSpec => []ForgetInv
  BY ForgetInit, ForgetStep, PTL DEF ControllerSpec
<1>3. QED BY <1>1, <1>2, RunnerUsesController, PTL
=============================================================================
