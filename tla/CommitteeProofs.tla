-------------------------- MODULE CommitteeProofs ---------------------------
(***************************************************************************)
(* Proofs about Committee, for every set of validators, slots and duties,  *)
(* and any number of runners, shares that come and go and messages.        *)
(***************************************************************************)
EXTENDS Committee, TLAPS

-----------------------------------------------------------------------------
(* The inductive invariants.                                               *)

\* The guard holds no entry for a cancelled duty, and nothing makes one again:
\* StartNewDuty is past it, and a slot's duty is started once.
CancelledNotGuarded ==
  \A s \in Slots, d \in Duty : <<s, d>> \in cancelled =>
    /\ guard[d] # s
    /\ d \notin todo[<<"committee", s>>]
    /\ phase[<<"committee", s>>] # "none"
    /\ <<s, d>> \notin passed \cup signed

\* A consumer is attached to its queue only while its duty is under way, and
\* no duty is under way long after its deadline.
InProgress == {"starting", "running"}

ConsumersAreInTime ==
  \A k \in Key :
    /\ consumer[k] = "attached" => phase[k] \in InProgress
    /\ phase[k] \in InProgress => now <= DutyDeadline(k[2]) + Lag

\* Every queue has a runner or is an orphan, and no runner outlives the slots
\* that are kept when a duty starts.
RunnersAreRecent ==
  /\ lastStart <= now
  /\ \A k \in runners : lastStart <= k[2] + RunnerExpirySlots
  /\ \A k \in queues : k \in runners \cup orphans

-----------------------------------------------------------------------------
(* Type correctness.                                                       *)

LEMMA UnderWayDuty ==
  ASSUME NEW v \in Validators, NEW s \in Slots, NEW d \in Duty
  PROVE  <<s, d>> \in UnderWay(v) <=>
           /\ d[2] = v
           /\ phase[<<"committee", s>>] \in InProgress
           /\ d \in runnable[<<"committee", s>>] \ todo[<<"committee", s>>]
           /\ <<s, d>> \notin passed \cup signed
BY DEF UnderWay, InProgress

LEMMA KeyType ==
  ASSUME NEW s \in Slots PROVE <<"committee", s>> \in Key
BY DEF Key, Roles

LEMMA SlotType ==
  /\ \A s \in Slots : s \in 1 .. MaxSlot /\ s \in Nat /\ s # NoSlot
  /\ \A k \in Key : k[2] \in Slots
  /\ MaxSlot \in Nat /\ SlotsPerEpoch \in Nat /\ LateSlotAllowance \in Nat /\ Lag \in Nat
  /\ SlotsPerEpoch >= 1
BY ClockAssumption, CommitteeAssumption DEF Key, NoSlot

LEMMA InitType == Init => TypeOK
<1> SUFFICES ASSUME Init PROVE TypeOK
  OBVIOUS
<1>1. 1 \in 0 .. MaxSlot /\ 0 \in 0 .. MaxSlot /\ 0 \in 0 .. MaxChanges
  BY ClockAssumption, CommitteeAssumption
<1> QED BY <1>1 DEF Init, TypeOK, NoSlot

LEMMA TypeStep ==
  ASSUME TypeOK, [Next]_vars
  PROVE  TypeOK'
<1> USE DEF TypeOK
<1>1. CASE UNCHANGED vars
  BY <1>1 DEF vars, mapVars, dutyVars, historyVars
<1>2. ASSUME NEW v \in Validators, AddShare(v) PROVE TypeOK'
  <2>1. changes' \in 0 .. MaxChanges
    BY <1>2, CommitteeAssumption DEF AddShare
  <2> QED BY <1>2, <2>1 DEF AddShare, dutyVars
<1>3. ASSUME NEW v \in Validators, RemoveShare(v) PROVE TypeOK'
  <2>1. changes' \in 0 .. MaxChanges
    BY <1>3, CommitteeAssumption DEF RemoveShare
  <2>2. guard' \in [Duty -> 0 .. MaxSlot]
    BY <1>3, ClockAssumption DEF RemoveShare, StopValidator, NoSlot
  <2>3. UnderWay(v) \subseteq Slots \X Duty
    BY DEF UnderWay
  <2>4. /\ {runners', queues', orphans'} \subseteq SUBSET Key
        /\ consumer' \in [Key -> {"none", "attached", "pruned", "dropped"}]
    BY <1>3 DEF RemoveShare
  <2> QED BY <1>3, <2>1, <2>2, <2>3, <2>4 DEF RemoveShare
<1>4. ASSUME NEW k \in Key, NEW duties \in DutySets, PrepareDutyAndRunner(k, duties) PROVE TypeOK'
  <2>1. k[2] \in 0 .. MaxSlot
    BY SlotType
  <2>2. {d \in duties : d[2] \in shares} \in SUBSET Duty
    BY CommitteeAssumption
  <2>3. /\ phase' \in [Key -> {"none", "starting", "running", "over"}]
        /\ runnable' \in [Key -> SUBSET Duty] /\ todo' \in [Key -> SUBSET Duty]
    BY <1>4, <2>2 DEF PrepareDutyAndRunner
  <2>4. {runners', queues', orphans'} \subseteq SUBSET Key
    BY <1>4 DEF PrepareDutyAndRunner, WithoutQueues
  <2>5. consumer' \in [Key -> {"none", "attached", "pruned", "dropped"}]
    BY <1>4 DEF PrepareDutyAndRunner
  <2>6. lastStart' \in 0 .. MaxSlot
    BY <1>4, <2>1 DEF PrepareDutyAndRunner
  <2> QED BY <1>4, <2>3, <2>4, <2>5, <2>6 DEF PrepareDutyAndRunner
<1>5. ASSUME NEW k \in Key, Fails(k)
      PROVE  /\ phase' \in [Key -> {"none", "starting", "running", "over"}]
             /\ todo' \in [Key -> SUBSET Duty]
             /\ consumer' \in [Key -> {"none", "attached", "pruned", "dropped"}]
  BY <1>5 DEF Fails
<1>6. ASSUME NEW s \in Slots, NEW d \in Duty, GuardStartDuty(s, d) PROVE TypeOK'
  <2>1. <<"committee", s>> \in Key /\ s \in 0 .. MaxSlot
    BY KeyType, SlotType
  <2>2. /\ phase' \in [Key -> {"none", "starting", "running", "over"}]
        /\ todo' \in [Key -> SUBSET Duty]
        /\ consumer' \in [Key -> {"none", "attached", "pruned", "dropped"}]
        /\ guard' \in [Duty -> 0 .. MaxSlot]
    BY <1>5, <1>6, <2>1, SMTT(30) DEF GuardStartDuty
  <2> QED BY <1>6, <2>2 DEF GuardStartDuty, mapVars, historyVars
<1>7. ASSUME NEW s \in Slots, NEW d \in Duty, PassGuard(s, d) PROVE TypeOK'
  BY <1>7 DEF PassGuard, mapVars, historyVars
<1>8. ASSUME NEW s \in Slots, NEW d \in Duty, Sign(s, d) PROVE TypeOK'
  BY <1>8 DEF Sign, mapVars, historyVars
<1>9. ASSUME NEW k \in Key, StartNewDuty(k) PROVE TypeOK'
  <2>1. /\ phase' \in [Key -> {"none", "starting", "running", "over"}]
        /\ todo' \in [Key -> SUBSET Duty]
        /\ consumer' \in [Key -> {"none", "attached", "pruned", "dropped"}]
    BY <1>5, <1>9 DEF StartNewDuty
  <2> QED BY <1>9, <2>1 DEF StartNewDuty, mapVars, historyVars
<1>10. ASSUME NEW k \in Key, EnqueueMessage(k) PROVE TypeOK'
  BY <1>10 DEF EnqueueMessage, dutyVars
<1>11. ASSUME NEW k \in Key, ConsumerEnds(k) PROVE TypeOK'
  BY <1>5, <1>11 DEF ConsumerEnds, mapVars, historyVars
<1>12. CASE Tick
  <2>1. now' \in 0 .. MaxSlot
    BY <1>12, ClockAssumption DEF Tick, Advance
  <2> QED BY <1>12, <2>1 DEF Tick, mapVars, dutyVars, historyVars
<1> QED
  BY <1>1, <1>2, <1>3, <1>4, <1>6, <1>7, <1>8, <1>9, <1>10, <1>11, <1>12 DEF Next

\* Type correctness of a committee, its queues and the guard.
THEOREM CommitteeTypeOK == Spec => []TypeOK
BY InitType, TypeStep, PTL DEF Spec

-----------------------------------------------------------------------------
(* A cancelled duty stays cancelled.                                       *)

\* Every step of the committee's maps, of time and of other roles leaves what
\* CancelledNotGuarded speaks of alone.
LEMMA CancelledStep ==
  ASSUME TypeOK, CancelledNotGuarded, [Next]_vars
  PROVE  CancelledNotGuarded'
<1>1. CASE UNCHANGED <<cancelled, guard, todo, phase, passed, signed>>
  BY <1>1 DEF CancelledNotGuarded
<1>2. ASSUME NEW v \in Validators, RemoveShare(v) PROVE CancelledNotGuarded'
  <2> SUFFICES ASSUME NEW s \in Slots, NEW d \in Duty, <<s, d>> \in cancelled'
               PROVE  /\ guard'[d] # s
                      /\ d \notin todo[<<"committee", s>>]
                      /\ phase[<<"committee", s>>] # "none"
                      /\ <<s, d>> \notin passed \cup signed
    BY <1>2 DEF RemoveShare, CancelledNotGuarded
  <2>1. guard'[d] = IF d[2] = v THEN NoSlot ELSE guard[d]
    BY <1>2 DEF RemoveShare, StopValidator
  <2>2. CASE <<s, d>> \in cancelled
    BY <2>1, <2>2, SlotType DEF CancelledNotGuarded
  <2>3. CASE <<s, d>> \in UnderWay(v)
    BY <2>1, <2>3, SlotType, UnderWayDuty DEF InProgress
  <2> QED BY <1>2, <2>2, <2>3 DEF RemoveShare
<1>3. ASSUME NEW k \in Key, NEW duties \in DutySets, PrepareDutyAndRunner(k, duties)
      PROVE  CancelledNotGuarded'
  <2> SUFFICES ASSUME NEW s \in Slots, NEW d \in Duty, <<s, d>> \in cancelled
               PROVE  /\ guard[d] # s
                      /\ d \notin todo'[<<"committee", s>>]
                      /\ phase'[<<"committee", s>>] # "none"
                      /\ <<s, d>> \notin passed \cup signed
    BY <1>3 DEF PrepareDutyAndRunner, CancelledNotGuarded
  <2>1. <<"committee", s>> # k
    BY <1>3 DEF PrepareDutyAndRunner, CancelledNotGuarded
  <2>2. /\ todo'[<<"committee", s>>] = todo[<<"committee", s>>]
        /\ phase'[<<"committee", s>>] = phase[<<"committee", s>>]
    BY <1>3, <2>1, KeyType DEF PrepareDutyAndRunner, TypeOK
  <2> QED BY <2>2 DEF CancelledNotGuarded
<1>4. ASSUME NEW k \in Key, Fails(k), UNCHANGED <<cancelled, guard, passed, signed>>
      PROVE  CancelledNotGuarded'
  <2>1. \A j \in Key : /\ todo'[j] \subseteq todo[j]
                       /\ phase[j] # "none" => phase'[j] # "none"
    BY <1>4 DEF Fails, TypeOK
  <2> QED BY <1>4, <2>1, KeyType DEF CancelledNotGuarded
<1>5. ASSUME NEW s \in Slots, NEW d \in Duty, GuardStartDuty(s, d) PROVE CancelledNotGuarded'
  <2>1. <<"committee", s>> \in Key /\ UNCHANGED <<cancelled, passed, signed>>
    BY <1>5, KeyType DEF GuardStartDuty, historyVars
  <2>2. CASE Fails(<<"committee", s>>) /\ UNCHANGED guard
    BY <1>4, <2>1, <2>2
  <2>3. CASE /\ guard' = [guard EXCEPT ![d] = s]
             /\ todo' = [todo EXCEPT ![<<"committee", s>>] = @ \ {d}]
             /\ UNCHANGED phase
    <3>1. \A j \in Key : todo'[j] \subseteq todo[j]
      BY <2>3 DEF TypeOK
    <3>2. <<s, d>> \notin cancelled
      BY <1>5 DEF GuardStartDuty, CancelledNotGuarded
    <3>3. \A c \in Duty : guard'[c] = IF c = d THEN s ELSE guard[c]
      BY <2>3 DEF TypeOK
    <3> QED BY <2>1, <2>3, <3>1, <3>2, <3>3, KeyType DEF CancelledNotGuarded
  <2> QED BY <1>5, <2>2, <2>3 DEF GuardStartDuty
<1>6. ASSUME NEW s \in Slots, NEW d \in Duty, PassGuard(s, d) PROVE CancelledNotGuarded'
  <2>1. <<s, d>> \notin cancelled
    BY <1>6 DEF PassGuard, ValidDuty, CancelledNotGuarded
  <2> QED BY <1>6, <2>1 DEF PassGuard, CancelledNotGuarded, historyVars
<1>7. ASSUME NEW s \in Slots, NEW d \in Duty, Sign(s, d) PROVE CancelledNotGuarded'
  BY <1>7 DEF Sign, CancelledNotGuarded, historyVars
<1>8. ASSUME NEW k \in Key, StartNewDuty(k) PROVE CancelledNotGuarded'
  <2>1. UNCHANGED <<cancelled, guard, passed, signed>>
    BY <1>8 DEF StartNewDuty, historyVars
  <2>2. CASE phase' = [phase EXCEPT ![k] = "running"] /\ UNCHANGED todo
    <3>1. \A j \in Key : phase[j] # "none" => phase'[j] # "none"
      BY <2>2 DEF TypeOK
    <3> QED BY <2>1, <2>2, <3>1, KeyType DEF CancelledNotGuarded
  <2> QED BY <1>4, <1>8, <2>1, <2>2 DEF StartNewDuty
<1>9. ASSUME NEW k \in Key, ConsumerEnds(k) PROVE CancelledNotGuarded'
  BY <1>4, <1>9 DEF ConsumerEnds, historyVars
<1>10. CASE \/ UNCHANGED vars \/ Tick
            \/ \E v \in Validators : AddShare(v)
            \/ \E k \in Key : EnqueueMessage(k)
  BY <1>1, <1>10 DEF vars, Tick, AddShare, EnqueueMessage, dutyVars, historyVars
<1> QED
  BY <1>2, <1>3, <1>5, <1>6, <1>7, <1>8, <1>9, <1>10 DEF Next

\* A duty whose validator was stopped is never signed, even when the validator
\* comes back and has a newer duty (StopValidator, StartDuty, ValidDuty).
THEOREM CancelledDutiesAreNotSigned == Spec => []CancelledStayCancelled
<1> DEFINE CInv == TypeOK /\ CancelledNotGuarded
<1>1. Init => CInv
  BY InitType DEF Init, CancelledNotGuarded
<1>2. CInv /\ [Next]_vars => CInv'
  BY TypeStep, CancelledStep
<1>3. CInv => CancelledStayCancelled
  <2> SUFFICES ASSUME CInv, NEW c \in cancelled, c \in passed \cup signed PROVE FALSE
    BY DEF CancelledStayCancelled
  <2>1. c \in Slots \X Duty
    BY DEF TypeOK
  <2>2. PICK s \in Slots, d \in Duty : c = <<s, d>>
    BY <2>1
  <2> QED BY <2>2 DEF CancelledNotGuarded
<1> QED BY <1>1, <1>2, <1>3, PTL DEF Spec

-----------------------------------------------------------------------------
(* No running consumer is pruned.                                          *)

PruningInv ==
  /\ TypeOK
  /\ ConsumersAreInTime
  /\ NoConsumerIsPruned

LEMMA FailsInTime ==
  ASSUME PruningInv, NEW k \in Key, Fails(k), UNCHANGED now
  PROVE  ConsumersAreInTime' /\ NoConsumerIsPruned'
<1>1. \A j \in Key : \/ consumer'[j] = "none" /\ phase'[j] = "over"
                     \/ consumer'[j] = consumer[j] /\ phase'[j] = phase[j]
  BY DEF Fails, PruningInv, TypeOK
<1> QED BY <1>1 DEF PruningInv, ConsumersAreInTime, NoConsumerIsPruned, InProgress

LEMMA PruningStep ==
  ASSUME Lag < LateSlotAllowance, PruningInv, [Next]_vars
  PROVE  ConsumersAreInTime' /\ NoConsumerIsPruned'
<1> USE DEF PruningInv
<1>1. CASE UNCHANGED <<now, phase, consumer>>
  BY <1>1 DEF ConsumersAreInTime, NoConsumerIsPruned
<1>2. ASSUME NEW v \in Validators, RemoveShare(v) PROVE ConsumersAreInTime' /\ NoConsumerIsPruned'
  <2>1. /\ UNCHANGED <<now, phase>>
        /\ \A k \in Key : consumer'[k] \in {consumer[k], "dropped"}
    BY <1>2 DEF RemoveShare, TypeOK
  <2> QED BY <2>1 DEF ConsumersAreInTime, NoConsumerIsPruned
<1>3. ASSUME NEW k \in Key, NEW duties \in DutySets, PrepareDutyAndRunner(k, duties)
      PROVE  ConsumersAreInTime' /\ NoConsumerIsPruned'
  <2>1. now \in Nat /\ now \in {k[2], k[2] + 1} /\ now' = now
    BY <1>3, SlotType DEF PrepareDutyAndRunner, TypeOK
  <2>2. \A j \in Key : j[2] \in Nat
    BY SlotType
  <2>3. ASSUME NEW j \in Key, consumer[j] = "attached" PROVE j \notin Expired(k[2])
    <3>1. now <= DutyDeadline(j[2]) + Lag
      BY <2>3 DEF ConsumersAreInTime
    <3> QED BY <2>1, <2>2, <3>1, SlotType DEF Expired, DutyDeadline, RunnerExpirySlots
  <2>4. consumer'[k] = "attached" /\ \A j \in Key \ {k} : consumer'[j] = consumer[j]
    BY <1>3, <2>3 DEF PrepareDutyAndRunner
  <2>5. phase'[k] = "starting" /\ \A j \in Key \ {k} : phase'[j] = phase[j]
    BY <1>3 DEF PrepareDutyAndRunner, TypeOK
  <2>6. now <= DutyDeadline(k[2]) + Lag
    BY <2>1, <2>2, SlotType DEF DutyDeadline
  <2> QED
    BY <2>1, <2>4, <2>5, <2>6 DEF ConsumersAreInTime, NoConsumerIsPruned, InProgress
<1>4. ASSUME NEW s \in Slots, NEW d \in Duty, GuardStartDuty(s, d)
      PROVE  ConsumersAreInTime' /\ NoConsumerIsPruned'
  BY <1>1, <1>4, KeyType, FailsInTime DEF GuardStartDuty
<1>5. ASSUME NEW k \in Key, StartNewDuty(k) PROVE ConsumersAreInTime' /\ NoConsumerIsPruned'
  <2>1. CASE phase' = [phase EXCEPT ![k] = "running"] /\ UNCHANGED consumer
    <3>1. \A j \in Key : (phase'[j] \in InProgress) <=> (phase[j] \in InProgress)
      BY <1>5, <2>1 DEF StartNewDuty, TypeOK, InProgress
    <3> QED BY <1>5, <2>1, <3>1 DEF StartNewDuty, ConsumersAreInTime, NoConsumerIsPruned
  <2> QED BY <1>5, <2>1, FailsInTime DEF StartNewDuty
<1>6. ASSUME NEW k \in Key, ConsumerEnds(k) PROVE ConsumersAreInTime' /\ NoConsumerIsPruned'
  BY <1>6, FailsInTime DEF ConsumerEnds
<1>7. CASE Tick
  BY <1>7 DEF Tick, ConsumersAreInTime, NoConsumerIsPruned, InProgress, dutyVars
<1>8. CASE \/ UNCHANGED vars
           \/ \E v \in Validators : AddShare(v)
           \/ \E k \in Key : EnqueueMessage(k)
           \/ \E s \in Slots, d \in Duty : PassGuard(s, d) \/ Sign(s, d)
  BY <1>1, <1>8 DEF vars, AddShare, EnqueueMessage, PassGuard, Sign, dutyVars
<1> QED BY <1>2, <1>3, <1>4, <1>5, <1>6, <1>7, <1>8 DEF Next

\* As long as a consumer ends within the slots a message may be late by, less
\* one, of its context being done, none loses its queue or its runner to the
\* start of another duty (unsafePruneExpiredRunners against the deadline of
\* ExecuteCommitteeDuty).  With a longer lag TLC finds the consumer pruned.
THEOREM ConsumersKeepTheirQueues ==
  ASSUME Lag < LateSlotAllowance
  PROVE  Spec => []NoConsumerIsPruned
<1>1. Init => PruningInv
  BY InitType DEF Init, PruningInv, ConsumersAreInTime, NoConsumerIsPruned, InProgress
<1>2. PruningInv /\ [Next]_vars => PruningInv'
  BY TypeStep, PruningStep DEF PruningInv
<1>3. PruningInv => NoConsumerIsPruned
  BY DEF PruningInv
<1> QED BY <1>1, <1>2, <1>3, PTL DEF Spec

-----------------------------------------------------------------------------
(* What outlives its slot.                                                 *)

LEMMA RecentStep ==
  ASSUME TypeOK, RunnersAreRecent, [Next]_vars
  PROVE  RunnersAreRecent'
<1>1. CASE UNCHANGED <<now, lastStart, runners, queues, orphans>>
  BY <1>1 DEF RunnersAreRecent
<1>2. ASSUME NEW v \in Validators, RemoveShare(v) PROVE RunnersAreRecent'
  BY <1>2 DEF RemoveShare, RunnersAreRecent
<1>3. ASSUME NEW k \in Key, NEW duties \in DutySets, PrepareDutyAndRunner(k, duties)
      PROVE  RunnersAreRecent'
  <2>1. /\ now \in Nat /\ now \in {k[2], k[2] + 1} /\ now' = now /\ lastStart \in Nat
        /\ \A j \in Key : j[2] \in Nat
        /\ RunnerExpirySlots \in Nat /\ RunnerExpirySlots >= 1
    BY <1>3, SlotType DEF PrepareDutyAndRunner, TypeOK, RunnerExpirySlots
  <2>2. lastStart' = IF k[2] > lastStart THEN k[2] ELSE lastStart
    BY <1>3 DEF PrepareDutyAndRunner
  <2>3. lastStart' <= now'
    BY <2>1, <2>2 DEF RunnersAreRecent
  <2>4. ASSUME NEW j \in runners' PROVE lastStart' <= j[2] + RunnerExpirySlots
    <3>1. CASE j = k
      <4>1. k[2] \in Nat /\ lastStart' \in Nat
        BY <2>1, <2>2
      <4> QED BY <2>1, <2>3, <3>1, <4>1
    <3>2. CASE j \in runners \ Expired(k[2])
      <4>1. j \in Key /\ lastStart <= j[2] + RunnerExpirySlots
        BY <3>2 DEF TypeOK, RunnersAreRecent
      <4>2. ~(k[2] > RunnerExpirySlots /\ j[2] < k[2] - RunnerExpirySlots)
        BY <3>2 DEF Expired
      <4> QED BY <2>1, <2>2, <4>1, <4>2
    <3> QED BY <1>3, <3>1, <3>2 DEF PrepareDutyAndRunner
  <2>5. \A j \in queues' : j \in runners' \cup orphans'
    BY <1>3 DEF PrepareDutyAndRunner, RunnersAreRecent, WithoutQueues
  <2> QED BY <2>3, <2>4, <2>5 DEF RunnersAreRecent, RunnerExpirySlots
<1>4. ASSUME NEW k \in Key, EnqueueMessage(k) PROVE RunnersAreRecent'
  BY <1>4 DEF EnqueueMessage, RunnersAreRecent
<1>5. CASE Tick
  BY <1>5 DEF Tick, Advance, RunnersAreRecent, TypeOK, mapVars, historyVars
<1>6. CASE \/ UNCHANGED vars
           \/ \E v \in Validators : AddShare(v)
           \/ \E s \in Slots, d \in Duty : GuardStartDuty(s, d) \/ PassGuard(s, d) \/ Sign(s, d)
           \/ \E k \in Key : StartNewDuty(k) \/ ConsumerEnds(k)
  BY <1>1, <1>6
  DEF vars, mapVars, historyVars, AddShare, GuardStartDuty, PassGuard, Sign, StartNewDuty,
      ConsumerEnds
<1> QED BY <1>2, <1>3, <1>4, <1>5, <1>6 DEF Next

\* Pruning by the slot of the duty that starts leaves no runner behind, and no
\* queue but those a message created without one (unsafePruneExpiredRunners,
\* EnqueueMessage).
THEOREM PruningMissesOrphansOnly == Spec => []OnlyOrphansOutlive
<1> DEFINE RInv == TypeOK /\ RunnersAreRecent
<1>1. Init => RInv
  BY InitType DEF Init, RunnersAreRecent
<1>2. RInv /\ [Next]_vars => RInv'
  BY TypeStep, RecentStep
<1>3. RInv => OnlyOrphansOutlive
  <2> SUFFICES ASSUME RInv, NEW k \in runners \cup queues, k[2] + RunnerExpirySlots < lastStart
               PROVE  k \in orphans
    BY DEF OnlyOrphansOutlive
  <2>1. k \in Key /\ k[2] \in Nat /\ RunnerExpirySlots \in Nat /\ lastStart \in Nat
    BY SlotType DEF TypeOK, RunnerExpirySlots
  <2>2. k \notin runners
    BY <2>1 DEF RunnersAreRecent
  <2> QED BY <2>2 DEF RunnersAreRecent
<1> QED BY <1>1, <1>2, <1>3, PTL DEF Spec

=============================================================================
