--------------------------- MODULE SchedulerProofs ---------------------------
(***************************************************************************)
(* Proofs about Scheduler, for every number of heads, validators and       *)
(* slots.                                                                  *)
(***************************************************************************)
EXTENDS Scheduler, TLAPS

Wants == [Epochs -> {"absent", "pending", "done"}]

-----------------------------------------------------------------------------
(* The clock.                                                              *)

LEMMA EpochType ==
  ASSUME NEW s \in Nat PROVE Epoch(s) \in Nat
<1>1. ASSUME NEW S \in Nat \ {0}, NEW x \in Nat PROVE x \div S \in Nat
  BY <1>1
<1> QED BY <1>1, ClockAssumption DEF Epoch

LEMMA EpochGrows ==
  ASSUME NEW s \in Nat, NEW t \in Nat, s <= t PROVE Epoch(s) <= Epoch(t)
<1>1. ASSUME NEW S \in Nat \ {0}, NEW x \in Nat, NEW y \in Nat, x <= y
      PROVE  x \div S <= y \div S
  BY <1>1
<1> QED BY <1>1, ClockAssumption DEF Epoch

\* An epoch ends with its last slot and with no other.
LEMMA EpochOfNextSlot ==
  ASSUME NEW s \in Nat
  PROVE  Epoch(s + 1) = IF IsLastSlotOfEpoch(s) THEN Epoch(s) + 1 ELSE Epoch(s)
<1>1. ASSUME NEW S \in Nat \ {0}, NEW x \in Nat
      PROVE  /\ x % S = S - 1 => (x + 1) \div S = x \div S + 1
             /\ x % S # S - 1 => (x + 1) \div S = x \div S
  OBVIOUS
<1> QED BY <1>1, ClockAssumption DEF Epoch, IsLastSlotOfEpoch

\* Three slots on, at most one epoch has ended.
LEMMA EpochsAhead ==
  ASSUME SlotsPerEpoch >= 3, NEW s \in Nat, NEW x \in s .. s + 3
  PROVE  Epoch(x) \in {Epoch(s), Epoch(s) + 1}
<1>1. ASSUME NEW S \in Nat, S >= 3, NEW a \in Nat
      PROVE  (a + 3) \div S <= a \div S + 1
  BY <1>1
<1>2. x \in Nat /\ s + 3 \in Nat /\ Epoch(x) \in Nat /\ Epoch(s) \in Nat /\ Epoch(s + 3) \in Nat
  BY EpochType
<1>3. Epoch(s) <= Epoch(x) /\ Epoch(x) <= Epoch(s + 3)
  BY <1>2, EpochGrows
<1>4. Epoch(s + 3) <= Epoch(s) + 1
  BY <1>1, ClockAssumption DEF Epoch
<1> QED BY <1>2, <1>3, <1>4

-----------------------------------------------------------------------------
(* Types, and where the handler's clocks stand.                            *)

\* The handler is in the middle of a tick.
InTick == pc \in {"next", "wait"} \/ (pc = "fetch" /\ after \in {"next", "wait"})

\* The tick in hand is that of the slot before the ticker's next one, and the
\* clock is at one of the two; or the tick came late, and the clock stands.
Clocks ==
  /\ tick \in StartSlot .. now /\ armed \in StartSlot .. now + 1 /\ deadline \in Nat
  /\ pc = "initial" => now = StartSlot /\ armed = now + 1 /\ deadline = now + 1
  /\ InTick =>
       /\ tick < armed /\ deadline = tick + 1
       /\ armed \in {now, now + 1} /\ (armed # tick + 1 => armed = now + 1)

FetchOK == pc = "fetch" => fetch \in [epoch : Epochs \ {0, 1}, vals : Nat, root : Nat \cup {None}]

TypeInv == TypeOK /\ Clocks /\ FetchOK /\ indices <= vals

LEMMA EpochsInReach ==
  ASSUME NEW x \in StartSlot .. MaxSlot
  PROVE  /\ x \in Nat
         /\ Epoch(x) \in Epochs \ {0, 1} /\ Epoch(x) + 1 \in Epochs \ {0, 1}
         /\ Epoch(x + 1) \in Epochs
<1>1. x \in Nat /\ StartSlot \in Nat /\ MaxSlot \in Nat
  BY ClockAssumption, SchedulerAssumption DEF Slot
<1>2. /\ Epoch(x) \in Nat /\ Epoch(StartSlot) \in Nat /\ Epoch(MaxSlot) \in Nat
      /\ Epoch(x) >= Epoch(StartSlot) /\ Epoch(x) <= Epoch(MaxSlot)
      /\ Epoch(StartSlot) >= 2
  BY <1>1, EpochType, EpochGrows, SchedulerAssumption
<1>3. Epoch(x + 1) \in Nat /\ Epoch(x + 1) <= Epoch(x) + 1
  BY <1>1, <1>2, EpochOfNextSlot
<1> HIDE DEF Epoch
<1> QED BY <1>1, <1>2, <1>3 DEF Epochs, LastEpoch

LEMMA PendingType ==
  ASSUME NEW want \in Wants, NEW es PROVE Pending(want, es) \in Wants
BY DEF Pending, Wants

LEMMA PruneType ==
  ASSUME NEW want \in Wants, NEW e PROVE Prune(want, e) \in Wants
BY DEF Prune, Wants

LEMMA RegisteredType ==
  ASSUME NEW want \in Wants, NEW e PROVE Registered(want, e) \in Wants
BY PendingType DEF Registered

\* What a step that prepares an epoch does, and what it leaves.
LEMMA Prepares ==
  ASSUME NEW want, NEW e \in Epochs \ {0, 1}, NEW allowed, NEW next \in {"next", "wait", "idle"},
         vals \in Nat, Prepare(want, e, allowed, next)
  PROVE  /\ intents' = want /\ after' = next
         /\ pc' \in {"fetch", next} /\ FetchOK'
BY DEF Prepare, FetchOK

LEMMA PreparesAtOnce ==
  ASSUME NEW want, NEW slot \in StartSlot .. MaxSlot, NEW currentToo,
         vals \in Nat, PrepareAtOnce(want, slot, currentToo)
  PROVE  /\ intents' = IF IsLastSlotOfEpoch(slot) THEN Prune(want, Epoch(slot)) ELSE want
         /\ after' = "idle"
         /\ pc' \in {"fetch", "idle"} /\ FetchOK'
<1>1. Epoch(slot) \in Epochs \ {0, 1} /\ Epoch(slot) + 1 \in Epochs \ {0, 1}
  BY EpochsInReach
<1>2. CASE IsLastSlotOfEpoch(slot)
  <2>1. Prepare(Prune(want, Epoch(slot)), Epoch(slot) + 1, ShouldFetchNextEpoch(slot), "idle")
    BY <1>2 DEF PrepareAtOnce
  <2>2. QED BY <1>1, <1>2, <2>1, Prepares
<1>3. CASE ~IsLastSlotOfEpoch(slot)
  <2>1. Prepare(want, Epoch(slot), currentToo, "idle")
    BY <1>3 DEF PrepareAtOnce
  <2>2. QED BY <1>1, <1>3, <2>1, Prepares
<1>4. QED BY <1>2, <1>3

LEMMA CleanedType ==
  ASSUME intents \in Wants
  PROVE  Cleaned \in Wants
<1>1. (IF Erases THEN Prune(intents, Epoch(tick) - 1) ELSE intents) \in Wants
  BY PruneType
<1>2. QED BY <1>1, RegisteredType DEF Cleaned

LEMMA TypeInitially == Init => TypeInv
<1> SUFFICES ASSUME Init PROVE TypeInv
  OBVIOUS
<1>1. StartSlot \in Nat /\ MaxSlot \in Nat /\ StartSlot <= MaxSlot
  BY ClockAssumption, SchedulerAssumption DEF Slot
<1>2. roots \in [Epochs -> Nat]
  BY DEF Init
<1>3. Clocks /\ FetchOK
  BY <1>1 DEF Init, Clocks, FetchOK, InTick
<1>4. QED
  BY <1>1, <1>2, <1>3, SchedulerAssumption DEF Init, TypeInv, TypeOK

\* The facts about the present state that every step needs.
LEMMA Here ==
  ASSUME TypeInv
  PROVE  /\ now \in Nat /\ now \in StartSlot .. MaxSlot /\ StartSlot \in Nat /\ MaxSlot \in Nat
         /\ tick \in Nat /\ tick \in StartSlot .. MaxSlot
         /\ vals \in Nat /\ intents \in Wants
         /\ CurrentEpoch \in Epochs \ {0, 1} /\ CurrentEpoch + 1 \in Epochs \ {0, 1}
<1>1. now \in StartSlot .. MaxSlot /\ StartSlot \in Nat /\ MaxSlot \in Nat
  BY ClockAssumption, SchedulerAssumption DEF TypeInv, TypeOK, Slot
<1>2. tick \in StartSlot .. MaxSlot
  BY <1>1 DEF TypeInv, Clocks
<1>3. vals \in Nat /\ intents \in Wants
  BY SchedulerAssumption DEF TypeInv, TypeOK, Wants
<1>4. QED BY <1>1, <1>2, <1>3, EpochsInReach DEF CurrentEpoch

LEMMA TypeKept ==
  ASSUME TypeInv, [Next]_vars
  PROVE  TypeInv'
<1> USE Here
<1>1. CASE NextSlot
  <2>1. now' \in StartSlot .. MaxSlot /\ now' = now + 1
    BY <1>1 DEF NextSlot, Advance
  <2>2. Clocks'
    BY <1>1, <2>1 DEF NextSlot, loopVars, TypeInv, Clocks, InTick
  <2>3. QED
    BY <1>1, <2>1, <2>2
    DEF NextSlot, TypeInv, TypeOK, FetchOK, chainVars, headVars, dutyVars, loopVars
<1>2. CASE ChangeValidators \/ ChangeOthersValidators \/ ReportTimesOut
  <2> USE DEF ChangeValidators, ChangeOthersValidators, ReportTimesOut
  <2>1. Clocks' /\ FetchOK'
    BY <1>2 DEF loopVars, TypeInv, Clocks, InTick, FetchOK
  <2>2. vals' \in 0 .. MaxChanges /\ indices' \in 0 .. MaxChanges /\ told' \in 0 .. vals' /\ indices' <= vals'
    <3>1. /\ vals \in 0 .. MaxChanges /\ indices \in 0 .. MaxChanges /\ told \in 0 .. vals /\ indices <= vals
          /\ MaxChanges \in Nat
      BY SchedulerAssumption DEF TypeInv, TypeOK
    <3>2. /\ vals' = vals \/ (vals < MaxChanges /\ vals' = vals + 1)
          /\ \/ indices' = indices
             \/ indices > 0 /\ indices' = indices - 1
             \/ vals' = vals + 1 /\ indices' = indices + 1
          /\ told' = told
      BY <1>2
    <3>3. QED BY <3>1, <3>2
  <2>3. QED
    BY <1>2, <2>1, <2>2 DEF TypeInv, TypeOK, chainVars, headVars, dutyVars, loopVars
<1>3. ASSUME NEW base \in {roots} \cup forks, NEW d \in Epochs, NewHead(base, d) PROVE TypeInv'
  <2>1. Clocks' /\ FetchOK'
    BY <1>3 DEF NewHead, loopVars, TypeInv, Clocks, InTick, FetchOK
  <2>2. heads' \in Nat /\ roots' \in [Epochs -> Nat] /\ forks' \subseteq [Epochs -> Nat]
    <3>1. roots \in [Epochs -> Nat] /\ forks \subseteq [Epochs -> Nat] /\ heads \in Nat
      BY DEF TypeInv, TypeOK
    <3>2. base \in [Epochs -> Nat] /\ heads' = heads + 1
      BY <1>3, <3>1 DEF NewHead
    <3>3. /\ roots' = [e \in Epochs |-> IF e >= d THEN heads' ELSE base[e]]
          /\ forks' = forks \cup {roots}
      BY <1>3 DEF NewHead
    <3>4. QED BY <3>1, <3>2, <3>3
  <2>3. missed' \subseteq Epochs
    BY <1>3 DEF NewHead, TypeInv, TypeOK, Reach
  <2>4. QED
    BY <1>3, <2>1, <2>2, <2>3 DEF NewHead, TypeInv, TypeOK, headVars, dutyVars, loopVars
<1>4. CASE HandleHeadEvent
  <2>1. Clocks' /\ FetchOK'
    BY <1>4 DEF HandleHeadEvent, loopVars, TypeInv, Clocks, InTick, FetchOK
  <2>2. reorgs' \in Seq([current : BOOLEAN, previous : BOOLEAN, epoch : Epochs])
    <3> DEFINE current == lastEpoch # 0 /\ Differs(Expected.current, event.current)
               previous == lastEpoch # 0 /\ Differs(Expected.previous, event.previous)
               reorg == [current |-> current, previous |-> previous, epoch |-> CurrentEpoch]
               Reorgs == [current : BOOLEAN, previous : BOOLEAN, epoch : Epochs]
    <3>1. current \in BOOLEAN /\ previous \in BOOLEAN
      BY DEF Differs
    <3>2. reorgs' = reorgs \/ reorgs' = Append(reorgs, reorg)
      BY <1>4 DEF HandleHeadEvent, headVars
    <3> HIDE DEF current, previous
    <3>3. reorg \in Reorgs
      BY <3>1
    <3>4. reorgs \in Seq(Reorgs)
      BY DEF TypeInv, TypeOK
    <3>5. SUFFICES reorgs' \in Seq(Reorgs)
      OBVIOUS
    <3> HIDE DEF reorg, Reorgs
    <3>6. QED BY <3>2, <3>3, <3>4
  <2>3. missed' \subseteq Epochs
    BY <1>4 DEF HandleHeadEvent, TypeInv, TypeOK
  <2>4. QED
    BY <1>4, <2>1, <2>2, <2>3 DEF HandleHeadEvent, TypeInv, TypeOK, chainVars, dutyVars, loopVars
<1>5. CASE HandleInitialDuties
  <2> DEFINE want == Pending(intents, {Epoch(now), Epoch(now) + 1})
  <2>1. want \in Wants
    BY PendingType
  <2>2. PrepareAtOnce(want, now, TRUE)
    BY <1>5 DEF HandleInitialDuties
  <2> HIDE DEF want
  <2>3. /\ intents' = IF IsLastSlotOfEpoch(now) THEN Prune(want, Epoch(now)) ELSE want
        /\ after' = "idle" /\ pc' \in {"fetch", "idle"} /\ FetchOK'
    BY <2>2, PreparesAtOnce
  <2>4. intents' \in Wants
    BY <2>1, <2>3, PruneType
  <2>5. Clocks'
    BY <1>5, <2>3 DEF HandleInitialDuties, TypeInv, Clocks, InTick
  <2>6. QED
    BY <1>5, <2>3, <2>4, <2>5 DEF HandleInitialDuties, TypeInv, TypeOK, Wants, chainVars, headVars
<1>6. CASE Tick
  <2>1. armed \in StartSlot .. MaxSlot /\ armed \in Nat
    BY <1>6 DEF Tick, TypeInv, Clocks
  <2>2. Epoch(armed) \in Epochs \ {0, 1}
    BY <2>1, EpochsInReach
  <2>3. Prepare(intents, Epoch(armed), TRUE, "next")
    BY <1>6 DEF Tick
  <2>4. /\ intents' = intents /\ after' = "next" /\ pc' \in {"fetch", "next"} /\ FetchOK'
    BY <2>2, <2>3, Prepares
  <2>5. Clocks'
    BY <1>6, <2>1, <2>4 DEF Tick, TypeInv, Clocks, InTick
  <2>6. QED
    BY <1>6, <2>4, <2>5 DEF Tick, TypeInv, TypeOK, chainVars, headVars
<1>7. CASE TickNextEpoch
  <2>1. Epoch(tick) + 1 \in Epochs \ {0, 1}
    BY EpochsInReach
  <2>2. Prepare(intents, Epoch(tick) + 1, ShouldFetchNextEpoch(tick), "wait")
    BY <1>7 DEF TickNextEpoch
  <2>3. /\ intents' = intents /\ after' = "wait" /\ pc' \in {"fetch", "wait"} /\ FetchOK'
    BY <2>1, <2>2, Prepares
  <2>4. Clocks'
    BY <1>7, <2>3 DEF TickNextEpoch, TypeInv, Clocks, InTick
  <2>5. QED
    BY <1>7, <2>3, <2>4 DEF TickNextEpoch, TypeInv, TypeOK, chainVars, headVars
<1> DEFINE Kept == /\ ErasedStore \in [Epochs -> [root : Nat, vals : Nat] \cup {None}]
                   /\ ErasedStale \subseteq Epochs /\ Cleaned \in Wants
<1>8. Kept
  <2>1. ErasedStore \in [Epochs -> [root : Nat, vals : Nat] \cup {None}]
    BY DEF ErasedStore, TypeInv, TypeOK
  <2>2. ErasedStale \subseteq Epochs
    BY DEF ErasedStale, TypeInv, TypeOK
  <2>3. QED BY <2>1, <2>2, CleanedType
<1>9. CASE TickEnds
  <2>1. Clocks' /\ FetchOK'
    BY <1>9 DEF TickEnds, TypeInv, Clocks, InTick, FetchOK
  <2>2. QED
    BY <1>8, <1>9, <2>1 DEF TickEnds, TypeInv, TypeOK, Wants, chainVars, headVars
<1>10. CASE TickIndicesChange
  <2> DEFINE both == {Epoch(tick), Epoch(tick) + 1}
             want == Pending(Cleaned, both)
  <2>1. want \in Wants /\ both \subseteq Epochs
    BY <1>8, PendingType, EpochsInReach
  <2>2. PrepareAtOnce(want, tick, TRUE) /\ stale' = Marked(ErasedStale, both)
    BY <1>10 DEF TickIndicesChange
  <2> HIDE DEF want, both
  <2>3. /\ intents' \in Wants /\ after' = "idle" /\ pc' \in {"fetch", "idle"} /\ FetchOK'
    BY <2>1, <2>2, PreparesAtOnce, PruneType
  <2>4. stale' \subseteq Epochs
    BY <1>8, <2>1, <2>2 DEF Marked
  <2>5. Clocks'
    BY <1>10, <2>3 DEF TickIndicesChange, TypeInv, Clocks, InTick
  <2>6. indices' \in 0 .. MaxChanges /\ indices' <= vals'
    BY <1>10, SchedulerAssumption DEF TickIndicesChange, TypeInv, TypeOK
  <2>7. missed' \subseteq Epochs
    BY <1>10 DEF TickIndicesChange, TypeInv, TypeOK
  <2>8. told' \in 0 .. vals'
    BY <1>10 DEF TickIndicesChange
  <2>9. QED
    BY <1>8, <1>10, <2>3, <2>4, <2>5, <2>6, <2>7, <2>8
    DEF TickIndicesChange, TypeInv, TypeOK, Wants, chainVars, headVars
<1>11. CASE IdleIndicesChange
  <2>1. intents' \in Wants
    BY <1>11, PendingType DEF IdleIndicesChange
  <2>2. stale' \subseteq Epochs
    BY <1>11 DEF IdleIndicesChange, Marked, TypeInv, TypeOK
  <2>3. indices' \in 0 .. MaxChanges /\ indices' <= vals'
    BY <1>11, SchedulerAssumption DEF IdleIndicesChange, TypeInv, TypeOK
  <2>4. Clocks' /\ FetchOK'
    BY <1>11 DEF IdleIndicesChange, loopVars, TypeInv, Clocks, InTick, FetchOK
  <2>5. told' \in 0 .. vals'
    BY <1>11 DEF IdleIndicesChange
  <2>6. QED
    BY <1>11, <2>1, <2>2, <2>3, <2>4, <2>5
    DEF IdleIndicesChange, TypeInv, TypeOK, Wants, chainVars, headVars, loopVars
<1>12. CASE HandleReorg
  <2> DEFINE refetch == RefetchesCurrent(Head(reorgs))
             epochs == {CurrentEpoch + 1} \cup (IF refetch THEN {CurrentEpoch} ELSE {})
             want == Pending(intents, epochs)
  <2>1. want \in Wants /\ epochs \subseteq Epochs
    BY PendingType
  <2>2. /\ PrepareAtOnce(want, now, kind = "attester" \/ refetch)
        /\ stale' = Marked(stale, IF IsLastSlotOfEpoch(now) THEN {CurrentEpoch + 1} ELSE epochs)
    BY <1>12 DEF HandleReorg
  <2> HIDE DEF want, epochs
  <2>3. /\ intents' \in Wants /\ after' = "idle" /\ pc' \in {"fetch", "idle"} /\ FetchOK'
    BY <2>1, <2>2, PreparesAtOnce, PruneType
  <2>4. stale' \subseteq Epochs
    BY <2>1, <2>2 DEF Marked, TypeInv, TypeOK
  <2>5. missed' \subseteq Epochs
    BY <1>12 DEF HandleReorg, TypeInv, TypeOK
  <2>6. Clocks'
    BY <1>12, <2>3 DEF HandleReorg, TypeInv, Clocks, InTick
  <2>7. reorgs' \in Seq([current : BOOLEAN, previous : BOOLEAN, epoch : Epochs])
    BY <1>12 DEF HandleReorg, TypeInv, TypeOK
  <2>8. QED
    BY <1>12, <2>3, <2>4, <2>5, <2>6, <2>7
    DEF HandleReorg, TypeInv, TypeOK, Wants, chainVars, headVars
<1>13. CASE BeaconAnswers
  <2>1. fetch' \in [epoch : Epochs \ {0, 1}, vals : Nat, root : Nat \cup {None}]
    <3>1. fetch.epoch \in Epochs \ {0, 1} /\ fetch \in [epoch : Epochs \ {0, 1}, vals : Nat, root : Nat \cup {None}]
      BY <1>13 DEF BeaconAnswers, TypeInv, FetchOK
    <3>2. Epochs = 0 .. LastEpoch /\ LastEpoch \in Nat
      BY EpochType DEF Epochs, LastEpoch
    <3>3. fetch.epoch - 2 \in Epochs
      BY <3>1, <3>2
    <3>4. roots[fetch.epoch - 2] \in Nat
      BY <3>3 DEF TypeInv, TypeOK
    <3>5. QED BY <1>13, <3>1, <3>4 DEF BeaconAnswers
  <2>2. Clocks' /\ FetchOK'
    BY <1>13, <2>1 DEF BeaconAnswers, TypeInv, Clocks, InTick, FetchOK
  <2>3. QED
    BY <1>13, <2>2 DEF BeaconAnswers, TypeInv, TypeOK, chainVars, headVars, dutyVars
<1>14. CASE Fetched
  <2>1. fetch.epoch \in Epochs /\ fetch.vals \in Nat /\ fetch.root \in Nat
    BY <1>14 DEF Fetched, TypeInv, FetchOK
  <2>2. /\ store' \in [Epochs -> [root : Nat, vals : Nat] \cup {None}]
        /\ intents' \in Wants
    BY <1>14, <2>1 DEF Fetched, TypeInv, TypeOK, Wants
  <2>3. stale' \subseteq Epochs /\ missed' \subseteq Epochs
    BY <1>14 DEF Fetched, TypeInv, TypeOK
  <2>4. Clocks' /\ FetchOK'
    BY <1>14 DEF Fetched, TypeInv, TypeOK, Clocks, InTick, FetchOK
  <2>5. QED
    BY <1>14, <2>2, <2>3, <2>4 DEF Fetched, TypeInv, TypeOK, Wants, chainVars, headVars
<1>15. CASE FetchFailed
  <2>1. Clocks' /\ FetchOK'
    BY <1>15 DEF FetchFailed, TypeInv, TypeOK, Clocks, InTick, FetchOK
  <2>2. QED
    BY <1>15, <2>1 DEF FetchFailed, TypeInv, TypeOK, chainVars, headVars, dutyVars
<1>16. CASE UNCHANGED vars
  <2>1. Clocks' /\ FetchOK'
    BY <1>16 DEF vars, loopVars, TypeInv, Clocks, InTick, FetchOK
  <2>2. QED
    BY <1>16, <2>1 DEF vars, TypeInv, TypeOK, chainVars, headVars, dutyVars, loopVars
<1>17. QED
  BY <1>1, <1>2, <1>3, <1>4, <1>5, <1>6, <1>7, <1>9, <1>10, <1>11, <1>12, <1>13, <1>14, <1>15,
     <1>16 DEF Next

\* Type correctness; in particular the epoch a request is about has a root it
\* depends on (fetchAndProcessDuties).
THEOREM SchedulerTypeOK == Spec => []TypeOK
<1>1. TypeInv => TypeOK
  BY DEF TypeInv
<1>2. QED BY <1>1, TypeInitially, TypeKept, PTL DEF Spec

-----------------------------------------------------------------------------
(* Every epoch is wanted.                                                  *)

Wanted(e) == intents[e] # "absent"

\* The epoch of slot x is wanted, its last slot aside; so is that of the slot
\* after, to which the clock may move before the ticker's next slot.
WantedAt(x) ==
  /\ Wanted(Epoch(x)) \/ IsLastSlotOfEpoch(x)
  /\ x # armed => Wanted(Epoch(x + 1))

\* The slots the clock may reach before the request under way ends.
Fetchable(x) == x = now \/ (now < x /\ x <= deadline)

\* When the handler is idle the epochs are wanted in which it next wakes up.
\* A request after which it is idle may take several slots.  A tick in time
\* registers the next epoch when it ends; a late one finds it wanted.
WantedInv ==
  /\ pc = "idle" => WantedAt(now)
  /\ (pc = "fetch" /\ after = "idle") => \A x \in StartSlot .. MaxSlot : Fetchable(x) => WantedAt(x)
  /\ InTick => IF armed = tick + 1 THEN Wanted(Epoch(tick)) \/ IsLastSlotOfEpoch(tick)
               ELSE WantedAt(now)

\* What the operations on the intents leave wanted.
LEMMA WantedAfter ==
  ASSUME NEW want \in Wants, NEW e \in Epochs
  PROVE  /\ \A es : Pending(want, es)[e] # "absent" <=> (e \in es \/ want[e] # "absent")
         /\ \A d : d # e => Prune(want, d)[e] = want[e]
         /\ \A d \in Epochs : Registered(want, d)[e] # "absent" <=> (e = d \/ want[e] # "absent")
BY DEF Pending, Prune, Registered, Wants


LEMMA EpochsOf ==
  ASSUME TypeInv, NEW x \in StartSlot .. MaxSlot
  PROVE  /\ x \in Nat /\ Epoch(x) \in Epochs /\ Epoch(x) + 1 \in Epochs /\ Epoch(x + 1) \in Epochs
         /\ Epoch(x) \in Nat
         /\ Epoch(x + 1) = IF IsLastSlotOfEpoch(x) THEN Epoch(x) + 1 ELSE Epoch(x)
BY EpochsInReach, EpochOfNextSlot, EpochType

\* A step that leaves the clocks alone and prunes nothing keeps what is wanted.
LEMMA WantedFrame ==
  ASSUME TypeInv, WantedInv, UNCHANGED <<now, armed, deadline, tick>>,
         \A e \in Epochs : Wanted(e) => Wanted(e)',
         after' = after, pc' = pc \/ (pc = "fetch" /\ pc' = after)
  PROVE  WantedInv'
<1>1. ASSUME NEW x \in StartSlot .. MaxSlot, WantedAt(x) PROVE WantedAt(x)'
  <2>1. Epoch(x) \in Epochs /\ Epoch(x + 1) \in Epochs
    BY EpochsOf
  <2>2. QED BY <1>1, <2>1 DEF WantedAt
<1>2. Wanted(Epoch(tick)) => Wanted(Epoch(tick))'
  BY Here, EpochsOf
<1> QED BY <1>1, <1>2, Here DEF WantedInv, Fetchable, InTick, TypeInv, TypeOK

\* A step after which the handler is idle, at once or after a request.
LEMMA WantedAtOnce ==
  ASSUME TypeInv', after' = "idle", pc' \in {"fetch", "idle"},
         \A x \in StartSlot .. MaxSlot : Fetchable(x)' => WantedAt(x)'
  PROVE  WantedInv'
<1>1. now' \in StartSlot .. MaxSlot
  BY DEF TypeInv, TypeOK
<1>2. PICK x \in StartSlot .. MaxSlot : x = now'
  BY <1>1
<1>3. WantedAt(now)'
  BY <1>2 DEF Fetchable, WantedAt, Wanted
<1> QED BY <1>3 DEF WantedInv, InTick

LEMMA WantedInitially ==
  ASSUME TypeInv, HandleInitialDuties, TypeInv'
  PROVE  WantedInv'
<1> USE Here
<1> DEFINE want == Pending(intents, {Epoch(now), Epoch(now) + 1})
<1>1. want \in Wants
  BY PendingType
<1>2. \A e \in {Epoch(now), Epoch(now) + 1} : want[e] # "absent"
  BY WantedAfter DEF CurrentEpoch
<1>3. PrepareAtOnce(want, now, TRUE)
  BY DEF HandleInitialDuties
<1> HIDE DEF want
<1>4. /\ intents' = IF IsLastSlotOfEpoch(now) THEN Prune(want, Epoch(now)) ELSE want
      /\ after' = "idle" /\ pc' \in {"fetch", "idle"}
  BY <1>3, PreparesAtOnce
<1>5. now' = now /\ armed' = now + 1 /\ deadline' = now + 1
  BY DEF HandleInitialDuties, TypeInv, Clocks
<1>6. /\ Wanted(Epoch(now))' \/ IsLastSlotOfEpoch(now)
      /\ Wanted(Epoch(now + 1))'
  <2>1. Epoch(now) \in Epochs /\ Epoch(now) + 1 \in Epochs /\ Epoch(now) # Epoch(now) + 1
    BY EpochsOf
  <2>2. Wanted(Epoch(now))' \/ IsLastSlotOfEpoch(now)
    BY <1>2, <1>4, <1>5 DEF Wanted
  <2>3. IsLastSlotOfEpoch(now) => intents'[Epoch(now) + 1] # "absent"
    BY <1>1, <1>2, <1>4, <2>1, WantedAfter
  <2>4. QED BY <1>5, <2>2, <2>3, EpochsOf DEF Wanted
<1>7. ASSUME NEW x \in StartSlot .. MaxSlot, Fetchable(x)' PROVE WantedAt(x)'
  <2>1. x = now \/ x = now + 1
    BY <1>5, <1>7 DEF Fetchable
  <2>2. QED BY <1>5, <1>6, <2>1 DEF WantedAt, Wanted
<1>8. QED BY <1>4, <1>7, WantedAtOnce

LEMMA WantedReorg ==
  ASSUME SlotsPerEpoch >= 3, TypeInv, WantedInv, HandleReorg, TypeInv'
  PROVE  WantedInv'
<1> USE Here
<1> DEFINE refetch == RefetchesCurrent(Head(reorgs))
           epochs == {CurrentEpoch + 1} \cup (IF refetch THEN {CurrentEpoch} ELSE {})
           want == Pending(intents, epochs)
<1>1. want \in Wants
  BY PendingType
<1>2. /\ want[CurrentEpoch + 1] # "absent"
      /\ IsLastSlotOfEpoch(now) \/ want[CurrentEpoch] # "absent"
  <2>1. Wanted(CurrentEpoch) \/ IsLastSlotOfEpoch(now)
    BY DEF HandleReorg, WantedInv, WantedAt, CurrentEpoch
  <2>2. QED BY <2>1, WantedAfter DEF Wanted
<1>3. PrepareAtOnce(want, now, kind = "attester" \/ refetch)
  BY DEF HandleReorg
<1> HIDE DEF want, refetch
<1>4. /\ intents' = IF IsLastSlotOfEpoch(now) THEN Prune(want, Epoch(now)) ELSE want
      /\ after' = "idle" /\ pc' \in {"fetch", "idle"}
  BY <1>3, PreparesAtOnce
<1>5. now' = now /\ deadline' = now + 2
  BY DEF HandleReorg
<1>6. /\ Wanted(CurrentEpoch + 1)'
      /\ Wanted(Epoch(now))' \/ IsLastSlotOfEpoch(now)
  <2>1. CurrentEpoch = Epoch(now) /\ CurrentEpoch' = CurrentEpoch /\ CurrentEpoch # CurrentEpoch + 1
    BY <1>5, EpochsOf DEF CurrentEpoch
  <2>2. IsLastSlotOfEpoch(now) => intents'[CurrentEpoch + 1] # "absent"
    BY <1>1, <1>2, <1>4, <2>1, WantedAfter
  <2>3. QED BY <1>2, <1>4, <1>5, <2>1, <2>2 DEF Wanted
<1>7. ASSUME NEW y \in now .. now + 3, y = now => ~IsLastSlotOfEpoch(now), y \in Nat
      PROVE  Wanted(Epoch(y))'
  <2>1. Epoch(y) \in {Epoch(now), Epoch(now) + 1}
    BY EpochsAhead
  <2>2. CASE IsLastSlotOfEpoch(now)
    <3>1. y >= now + 1 /\ now + 1 \in Nat
      BY <1>7, <2>2
    <3>2. Epoch(y) >= Epoch(now) + 1
      BY <3>1, <2>2, EpochGrows, EpochOfNextSlot
    <3>3. Epoch(y) = CurrentEpoch + 1
      BY <2>1, <3>2, EpochsOf DEF CurrentEpoch
    <3>4. QED BY <1>5, <1>6, <3>3 DEF Wanted, CurrentEpoch
  <2>3. CASE ~IsLastSlotOfEpoch(now)
    BY <1>5, <1>6, <2>1, <2>3 DEF Wanted, CurrentEpoch
  <2>4. QED BY <2>2, <2>3
<1>8. ASSUME NEW x \in StartSlot .. MaxSlot, Fetchable(x)' PROVE WantedAt(x)'
  <2>1. x \in now .. now + 2 /\ x \in Nat
    BY <1>5, <1>8 DEF Fetchable
  <2>2. Wanted(Epoch(x + 1))'
    BY <1>7, <2>1
  <2>3. Wanted(Epoch(x))' \/ IsLastSlotOfEpoch(x)
    BY <1>7, <2>1
  <2>4. QED BY <2>2, <2>3 DEF WantedAt, Wanted
<1>9. QED BY <1>4, <1>8, WantedAtOnce

\* What the end of a tick leaves wanted.
LEMMA CleanedWants ==
  ASSUME TypeInv, NEW e \in Epochs, e >= Epoch(tick)
  PROVE  Cleaned[e] # "absent" <=> (e = Epoch(tick) + 1 \/ Wanted(e))
<1> USE Here
<1> DEFINE left == IF Erases THEN Prune(intents, Epoch(tick) - 1) ELSE intents
<1>1. Epoch(tick) \in Nat /\ Epoch(tick) + 1 \in Epochs
  BY EpochsOf
<1>2. left \in Wants
  BY PruneType
<1>3. left[e] = intents[e]
  BY <1>1, WantedAfter DEF Epochs
<1>4. Cleaned = Registered(left, Epoch(tick) + 1)
  BY DEF Cleaned
<1> HIDE DEF left
<1>5. QED BY <1>1, <1>2, <1>3, <1>4, WantedAfter DEF Wanted

\* The epochs wanted when a tick has ended, at every slot at which its last
\* request may end.
LEMMA TickLeavesWanted ==
  ASSUME TypeInv, WantedInv, pc = "wait", NEW x \in StartSlot .. MaxSlot, Fetchable(x)
  PROVE  /\ x >= tick
         /\ Cleaned[Epoch(x)] # "absent" \/ IsLastSlotOfEpoch(x)
         /\ x # armed => Cleaned[Epoch(x + 1)] # "absent"
<1> USE Here
<1>1. /\ Epoch(x) \in Epochs /\ Epoch(x + 1) \in Epochs /\ Epoch(x) \in Nat
      /\ Epoch(x + 1) = IF IsLastSlotOfEpoch(x) THEN Epoch(x) + 1 ELSE Epoch(x)
      /\ Epoch(tick) \in Nat /\ Epoch(tick) \in Epochs /\ Epoch(tick) + 1 \in Epochs
      /\ Epoch(tick + 1) = IF IsLastSlotOfEpoch(tick) THEN Epoch(tick) + 1 ELSE Epoch(tick)
      /\ x \in Nat
  BY EpochsOf
<1>2. /\ tick < armed /\ deadline = tick + 1 /\ tick <= now /\ armed \in Nat
      /\ armed \in {now, now + 1} /\ (armed # tick + 1 => armed = now + 1)
  BY DEF TypeInv, Clocks, InTick
<1>3. x >= tick
  BY <1>2 DEF Fetchable
<1>4. Epoch(x) >= Epoch(tick) /\ Epoch(x + 1) >= Epoch(tick)
  BY <1>1, <1>3, EpochGrows
<1>5. CASE armed = tick + 1
  <2>1. x = tick \/ x = armed
    BY <1>2, <1>3, <1>5 DEF Fetchable
  <2>2. Wanted(Epoch(tick)) \/ IsLastSlotOfEpoch(tick)
    BY <1>5 DEF WantedInv, InTick
  <2>3. Cleaned[Epoch(tick + 1)] # "absent"
    BY <1>1, <2>2, CleanedWants
  <2>4. Cleaned[Epoch(tick)] # "absent" \/ IsLastSlotOfEpoch(tick)
    BY <1>1, <2>2, CleanedWants
  <2>5. QED BY <1>3, <1>5, <2>1, <2>3, <2>4
<1>6. CASE armed # tick + 1
  <2>1. x = now
    BY <1>2, <1>6 DEF Fetchable
  <2>2. WantedAt(x)
    BY <1>6, <2>1 DEF WantedInv, InTick
  <2>3. QED BY <1>1, <1>3, <1>4, <2>2, CleanedWants DEF WantedAt
<1>7. QED BY <1>5, <1>6

LEMMA WantedTickEnds ==
  ASSUME TypeInv, WantedInv, TickEnds
  PROVE  WantedInv'
<1> USE Here
<1>1. pc = "wait" /\ pc' = "idle" /\ now' = now /\ armed' = armed /\ intents' = Cleaned
  BY DEF TickEnds
<1>2. /\ Cleaned[Epoch(now)] # "absent" \/ IsLastSlotOfEpoch(now)
      /\ now # armed => Cleaned[Epoch(now + 1)] # "absent"
  BY <1>1, TickLeavesWanted DEF Fetchable
<1>3. WantedAt(now)'
  BY <1>1, <1>2 DEF WantedAt, Wanted
<1>4. QED BY <1>1, <1>3 DEF WantedInv, InTick

LEMMA WantedTickChange ==
  ASSUME TypeInv, WantedInv, TickIndicesChange, TypeInv'
  PROVE  WantedInv'
<1> USE Here
<1> DEFINE both == {Epoch(tick), Epoch(tick) + 1}
           want == Pending(Cleaned, both)
<1>1. want \in Wants /\ Cleaned \in Wants
  BY CleanedType, PendingType
<1>2. PrepareAtOnce(want, tick, TRUE)
  BY DEF TickIndicesChange
<1>3. \A e \in Epochs : Cleaned[e] # "absent" \/ e \in both => want[e] # "absent"
  BY <1>1, WantedAfter
<1> HIDE DEF want
<1>4. /\ intents' = IF IsLastSlotOfEpoch(tick) THEN Prune(want, Epoch(tick)) ELSE want
      /\ after' = "idle" /\ pc' \in {"fetch", "idle"}
  BY <1>2, PreparesAtOnce
<1>5. now' = now /\ deadline' = deadline /\ armed' = armed /\ pc = "wait"
  BY DEF TickIndicesChange
<1>6. ASSUME NEW e \in Epochs, e # Epoch(tick) \/ ~IsLastSlotOfEpoch(tick), want[e] # "absent"
      PROVE  Wanted(e)'
  BY <1>1, <1>4, <1>6, WantedAfter DEF Wanted
<1>7. ASSUME NEW x \in StartSlot .. MaxSlot, Fetchable(x)' PROVE WantedAt(x)'
  <2>1. Fetchable(x)
    BY <1>5, <1>7 DEF Fetchable
  <2>2. /\ x >= tick
        /\ Cleaned[Epoch(x)] # "absent" \/ IsLastSlotOfEpoch(x)
        /\ x # armed => Cleaned[Epoch(x + 1)] # "absent"
    BY <1>5, <2>1, TickLeavesWanted
  <2>3. /\ Epoch(x) \in Epochs /\ Epoch(x + 1) \in Epochs /\ Epoch(x) \in Nat /\ x \in Nat
        /\ Epoch(x + 1) = IF IsLastSlotOfEpoch(x) THEN Epoch(x) + 1 ELSE Epoch(x)
        /\ Epoch(tick) \in Nat
        /\ Epoch(tick + 1) = IF IsLastSlotOfEpoch(tick) THEN Epoch(tick) + 1 ELSE Epoch(tick)
    BY EpochsOf
  <2>4. CASE IsLastSlotOfEpoch(tick)
    <3>1. x = tick \/ x >= tick + 1
      BY <2>2, <2>3
    <3>2. x # tick => Epoch(x) >= Epoch(tick) + 1
      BY <2>3, <2>4, <3>1, EpochGrows
    <3>3. Epoch(x) # Epoch(tick) \/ IsLastSlotOfEpoch(x)
      BY <2>3, <2>4, <3>2
    <3>4. Epoch(x + 1) # Epoch(tick)
      BY <2>3, <2>4, <3>1, <3>2
    <3>5. Wanted(Epoch(x))' \/ IsLastSlotOfEpoch(x)
      BY <1>3, <1>6, <2>2, <2>3, <3>3
    <3>6. x # armed => Wanted(Epoch(x + 1))'
      BY <1>3, <1>6, <2>2, <2>3, <3>4
    <3>7. QED BY <1>5, <3>5, <3>6 DEF WantedAt, Wanted
  <2>5. CASE ~IsLastSlotOfEpoch(tick)
    BY <1>3, <1>5, <1>6, <2>2, <2>3, <2>5 DEF WantedAt, Wanted
  <2>6. QED BY <2>4, <2>5
<1>8. QED BY <1>4, <1>7, WantedAtOnce

LEMMA WantedTick ==
  ASSUME TypeInv, WantedInv, Tick \/ TickNextEpoch
  PROVE  WantedInv'
<1> USE Here
<1>1. CASE Tick
  <2>1. armed \in StartSlot .. MaxSlot /\ armed \in Nat /\ armed <= now
    BY <1>1 DEF Tick, TypeInv, Clocks
  <2>2. Epoch(armed) \in Epochs \ {0, 1}
    BY <2>1, EpochsInReach
  <2>3. Prepare(intents, Epoch(armed), TRUE, "next")
    BY <1>1 DEF Tick
  <2>4. intents' = intents /\ after' = "next" /\ pc' \in {"fetch", "next"}
    BY <2>2, <2>3, Prepares
  <2>5. WantedAt(now) /\ now' = now /\ tick' = armed /\ armed' = now + 1
    BY <1>1 DEF Tick, WantedInv
  <2>6. CASE armed = now
    <3>1. (Wanted(Epoch(tick)) \/ IsLastSlotOfEpoch(tick))'
      BY <2>4, <2>5, <2>6 DEF WantedAt, Wanted
    <3>2. QED BY <2>4, <2>5, <2>6, <3>1 DEF WantedInv, InTick
  <2>7. CASE armed # now
    <3>1. WantedAt(now)'
      BY <2>4, <2>5, <2>7 DEF WantedAt, Wanted
    <3>2. QED BY <2>1, <2>4, <2>5, <2>7, <3>1 DEF WantedInv, InTick
  <2>8. QED BY <2>6, <2>7
<1>2. CASE TickNextEpoch
  <2>1. Epoch(tick) + 1 \in Epochs \ {0, 1}
    BY EpochsInReach
  <2>2. Prepare(intents, Epoch(tick) + 1, ShouldFetchNextEpoch(tick), "wait")
    BY <1>2 DEF TickNextEpoch
  <2>3. intents' = intents /\ after' = "wait" /\ pc' \in {"fetch", "wait"}
    BY <2>1, <2>2, Prepares
  <2>4. QED BY <1>2, <2>3 DEF TickNextEpoch, WantedInv, WantedAt, Wanted, InTick
<1>3. QED BY <1>1, <1>2

LEMMA WantedNextSlot ==
  ASSUME TypeInv, WantedInv, NextSlot
  PROVE  WantedInv'
<1> USE Here
<1>1. /\ now' = now + 1 /\ now + 1 \in StartSlot .. MaxSlot
      /\ UNCHANGED <<intents, pc, after, tick, armed, deadline>>
  BY DEF NextSlot, Advance, dutyVars, loopVars
<1>2. CASE pc = "fetch" /\ now < deadline
  <2>1. CASE after = "idle"
    <3>1. \A x \in StartSlot .. MaxSlot : Fetchable(x)' => Fetchable(x)
      BY <1>1, <1>2 DEF Fetchable, TypeInv, Clocks
    <3>2. QED BY <1>1, <1>2, <2>1, <3>1 DEF WantedInv, WantedAt, Wanted, InTick
  <2>2. CASE after # "idle"
    <3>1. InTick
      BY <1>2, <2>2 DEF InTick, TypeInv, TypeOK
    <3>2. armed = tick + 1
      BY <1>2, <3>1 DEF TypeInv, Clocks
    <3>3. QED BY <1>1, <1>2, <2>2, <3>1, <3>2 DEF WantedInv, Wanted, InTick
  <2>3. QED BY <2>1, <2>2
<1>3. CASE pc = "idle" /\ now < armed
  <2>1. armed = now + 1
    BY <1>3 DEF TypeInv, Clocks
  <2>2. Wanted(Epoch(now + 1))
    BY <1>3, <2>1 DEF WantedInv, WantedAt
  <2>3. WantedAt(now)'
    BY <1>1, <2>1, <2>2 DEF WantedAt, Wanted
  <2>4. QED BY <1>1, <1>3, <2>3 DEF WantedInv, InTick
<1>4. QED BY <1>2, <1>3 DEF NextSlot

LEMMA WantedKept ==
  ASSUME SlotsPerEpoch >= 3, TypeInv, WantedInv, [Next]_vars
  PROVE  WantedInv'
<1> USE Here
<1>1. TypeInv'
  BY TypeKept
<1>2. CASE \/ ChangeValidators \/ ChangeOthersValidators \/ ReportTimesOut
           \/ \E base \in {roots} \cup forks, d \in Epochs : NewHead(base, d)
           \/ HandleHeadEvent \/ BeaconAnswers \/ FetchFailed \/ UNCHANGED vars
  <2>1. /\ UNCHANGED <<now, armed, deadline, tick, intents, after>>
        /\ pc' = pc \/ (pc = "fetch" /\ pc' = after)
    <3>1. CASE ChangeValidators \/ ChangeOthersValidators \/ ReportTimesOut \/ HandleHeadEvent
      BY <3>1
      DEF ChangeValidators, ChangeOthersValidators, ReportTimesOut, HandleHeadEvent, loopVars, dutyVars
    <3>2. CASE \E base \in {roots} \cup forks, d \in Epochs : NewHead(base, d)
      BY <3>2 DEF NewHead, loopVars, dutyVars
    <3>3. CASE BeaconAnswers \/ FetchFailed
      BY <3>3 DEF BeaconAnswers, FetchFailed, dutyVars
    <3>4. CASE UNCHANGED vars
      BY <3>4 DEF vars, loopVars, dutyVars
    <3>5. QED BY <1>2, <3>1, <3>2, <3>3, <3>4
  <2>2. QED BY <2>1, WantedFrame DEF Wanted
<1>3. CASE Fetched
  <2>1. \A e \in Epochs : Wanted(e) => Wanted(e)'
    BY <1>3 DEF Fetched, Wanted, Wants
  <2>2. QED BY <1>3, <2>1, WantedFrame DEF Fetched
<1>4. CASE IdleIndicesChange
  <2>1. intents' = Pending(intents, {CurrentEpoch, CurrentEpoch + 1})
    BY <1>4 DEF IdleIndicesChange
  <2>2. \A e \in Epochs : Wanted(e) => Wanted(e)'
    BY <2>1, WantedAfter DEF Wanted
  <2>3. UNCHANGED <<now, armed, deadline, tick, pc, after>>
    BY <1>4 DEF IdleIndicesChange, loopVars
  <2>4. QED BY <2>2, <2>3, WantedFrame
<1>5. QED
  BY <1>1, <1>2, <1>3, <1>4, WantedInitially, WantedReorg, WantedTickEnds, WantedTickChange,
     WantedTick, WantedNextSlot DEF Next

\* However slow the beacon node is and however late its ticks come, an idle
\* handler wants, or has, the duties of the epoch it is in (the intent
\* registered before the wait of a tick in HandleDuties).  A request may
\* take two slots, so an epoch must have three: with two TLC finds an epoch
\* that is slept through.
THEOREM NoEpochIsForgotten ==
  ASSUME SlotsPerEpoch >= 3
  PROVE  Spec => []EveryEpochIsWanted
<1>1. Init => WantedInv
  BY DEF Init, WantedInv, InTick
<1>2. TypeInv /\ WantedInv /\ [Next]_vars => TypeInv' /\ WantedInv'
  BY TypeKept, WantedKept
<1>3. TypeInv /\ WantedInv => EveryEpochIsWanted
  BY DEF WantedInv, WantedAt, Wanted, EveryEpochIsWanted, CurrentEpoch
<1>4. QED BY <1>1, <1>2, <1>3, TypeInitially, PTL DEF Spec

-----------------------------------------------------------------------------
(* Outdated duties are known.                                              *)

\* The chain the head is on and those it was on.
Chains == {roots} \cup forks

\* The chains' last blocks by epoch; a new block has a new name, and chains
\* that have a block in common have the blocks before it in common.
Chain ==
  /\ \A c \in Chains, e \in Epochs : c[e] \in 1 .. heads
  /\ \A c \in forks, e \in Epochs : c[e] # heads
  /\ \A e \in Epochs : e >= CurrentEpoch => roots[e] = heads
  /\ \A b, c \in Chains, e, f \in Epochs : b[e] = c[e] /\ f <= e => b[f] = c[f]

\* An event that is not late tells the roots of the present chain.
EventIsHead ==
  event # None =>
    /\ event.slot \in StartSlot .. now
    /\ event.slot = now => /\ event.block = heads
                           /\ event.current = roots[CurrentEpoch - 1]
                           /\ event.previous = roots[CurrentEpoch - 2]

\* The head the scheduler saw last.  A chain that has a block of it has the
\* blocks before that block.
HeadSeen ==
  lastEpoch # 0 =>
    /\ lastEpoch \in 2 .. CurrentEpoch
    /\ previousRoot \in 1 .. heads /\ currentRoot \in 1 .. heads /\ lastBlockRoot \in 1 .. heads
    /\ \A c \in Chains :
         /\ c[lastEpoch - 1] = currentRoot => c[lastEpoch - 2] = previousRoot
         /\ c[lastEpoch] = lastBlockRoot => c[lastEpoch - 1] = currentRoot

HeadInv == Chain /\ EventIsHead /\ HeadSeen

\* Nothing is about epochs that are not in reach yet.
InReach ==
  /\ \A i \in DOMAIN reorgs : reorgs[i].epoch <= CurrentEpoch
  /\ \A e \in Epochs : e > CurrentEpoch + 1 => store[e] = None
  /\ IF pc = "fetch" THEN fetch.epoch <= CurrentEpoch + 1 ELSE fetch = None

\* A reorg event that makes the handler look at epoch e again is on its way.
Told(e) ==
  \E i \in DOMAIN reorgs :
    \/ reorgs[i].epoch + 1 = e
    \/ reorgs[i].epoch = e /\ reorgs[i].current /\ reorgs[i].previous

\* Duties of epoch e by root r are right, or their change is on its way to the
\* handler, or the scheduler will see it in the next head event.
RootKnown(e, r) ==
  \/ r = roots[e - 2] \/ e \in missed \/ Told(e)
  \/ lastEpoch # 0 /\ Belief(e) # roots[e - 2]

Due(e) == intents[e] = "pending" /\ (kind = "proposer" => e \in stale)
Ending(e) == e = CurrentEpoch /\ IsLastSlotOfEpoch(now)

DutiesKnown ==
  \A e \in Reach : store[e] # None =>
    \/ Due(e) \/ Ending(e)
    \/ /\ RootKnown(e, store[e].root)
       /\ store[e].vals >= told \/ e \in missed

\* No reorg event is taken up while the handler waits for an answer.
AnswerKnown ==
  pc = "fetch" =>
    /\ fetch.vals >= told
    /\ (fetch.root # None /\ fetch.epoch \in Reach) => RootKnown(fetch.epoch, fetch.root)

OutdatedInv == HeadInv /\ InReach /\ DutiesKnown /\ AnswerKnown

\* The arithmetic of epochs in reach.
LEMMA EpochsHere ==
  ASSUME TypeInv
  PROVE  /\ LastEpoch \in Nat /\ Epochs = 0 .. LastEpoch
         /\ CurrentEpoch \in Nat /\ CurrentEpoch >= 2 /\ CurrentEpoch + 1 <= LastEpoch
         /\ now \in Nat /\ heads \in Nat /\ \A e \in Epochs : roots[e] \in Nat
<1>1. LastEpoch \in Nat
  BY EpochType, ClockAssumption DEF LastEpoch
<1>2. CurrentEpoch \in 0 .. LastEpoch \ {0, 1} /\ CurrentEpoch + 1 \in 0 .. LastEpoch
  BY Here DEF Epochs
<1>3. roots \in [Epochs -> Nat] /\ heads \in Nat /\ now \in Nat
  BY Here DEF TypeInv, TypeOK
<1> HIDE DEF CurrentEpoch, LastEpoch
<1>4. QED BY <1>1, <1>2, <1>3 DEF Epochs

LEMMA HeadInitially ==
  ASSUME Init, TypeInv
  PROVE  HeadInv
<1>1. CurrentEpoch = Epoch(StartSlot)
  BY DEF Init, CurrentEpoch
<1>2. /\ heads = 3 /\ forks = {} /\ lastEpoch = 0
      /\ roots = [e \in Epochs |-> IF e < CurrentEpoch - 1 THEN 1 ELSE IF e < CurrentEpoch THEN 2 ELSE 3]
      /\ event = HeadEvent(3, roots)
  BY <1>1 DEF Init
<1>3. Chain
  BY <1>2, EpochsHere DEF Chain, Chains
<1>4. EventIsHead
  BY <1>2, Here DEF EventIsHead, HeadEvent
<1>5. QED BY <1>2, <1>3, <1>4 DEF HeadInv, HeadSeen

LEMMA HeadFrame ==
  ASSUME HeadInv, UNCHANGED <<now, chainVars, event, headVars>>
  PROVE  HeadInv'
BY DEF HeadInv, Chain, Chains, EventIsHead, HeadSeen, CurrentEpoch, chainVars, headVars

LEMMA HeadNextSlot ==
  ASSUME TypeInv, TypeInv', HeadInv, NextSlot
  PROVE  HeadInv'
<1>1. now' = now + 1 /\ UNCHANGED <<roots, forks, heads, event, headVars>>
  BY DEF NextSlot, Advance, chainVars
<1>2. CurrentEpoch' \in Nat /\ CurrentEpoch' >= CurrentEpoch
  <2>1. now \in Nat /\ Epoch(now) \in Nat
    BY Here, EpochType
  <2>2. Epoch(now + 1) = IF IsLastSlotOfEpoch(now) THEN Epoch(now) + 1 ELSE Epoch(now)
    BY <2>1, EpochOfNextSlot
  <2> HIDE DEF Epoch
  <2>3. Epoch(now + 1) \in Nat /\ Epoch(now + 1) >= Epoch(now)
    BY <2>1, <2>2
  <2>4. QED BY <1>1, <2>3 DEF CurrentEpoch
<1>3. Chain'
  BY <1>1, <1>2, EpochsHere DEF HeadInv, Chain, Chains
<1>4. EventIsHead'
  <2>1. event # None => event.slot \in StartSlot .. now /\ StartSlot \in Nat
    BY Here DEF HeadInv, EventIsHead
  <2>2. event # None => event.slot \in StartSlot .. now + 1 /\ event.slot # now + 1
    BY <2>1, EpochsHere
  <2>3. QED BY <1>1, <2>2 DEF EventIsHead
<1>5. HeadSeen'
  BY <1>1, <1>2, EpochsHere DEF HeadInv, HeadSeen, Chains, headVars
<1>6. QED BY <1>3, <1>4, <1>5 DEF HeadInv

LEMMA HeadNewHead ==
  ASSUME TypeInv, HeadInv, NEW base \in {roots} \cup forks, NEW d \in Epochs, NewHead(base, d)
  PROVE  HeadInv'
<1> USE EpochsHere
<1>1. /\ now' = now /\ CurrentEpoch' = CurrentEpoch /\ heads' = heads + 1
      /\ roots' = [e \in Epochs |-> IF e >= d THEN heads + 1 ELSE base[e]]
      /\ Chains' = Chains \cup {roots'} /\ forks' = Chains /\ base \in Chains
      /\ d \in Nat /\ d <= CurrentEpoch /\ UNCHANGED headVars
  BY DEF NewHead, CurrentEpoch, Chains
<1> HIDE DEF CurrentEpoch
<1>2. \A c \in Chains, e \in Epochs : c[e] \in 1 .. heads
  BY DEF HeadInv, Chain
<1>3. /\ \A e \in Epochs : e >= d => roots'[e] = heads + 1 /\ \A c \in Chains : c[e] # roots'[e]
      /\ \A e \in Epochs : e < d => roots'[e] = base[e]
  BY <1>1, <1>2
<1>4. Chain'
  <2>1. \A c \in Chains', e \in Epochs : c[e] \in 1 .. heads'
    <3>1. \A c \in Chains, e \in Epochs : c[e] \in 1 .. heads + 1
      BY <1>2
    <3>2. \A e \in Epochs : roots'[e] \in 1 .. heads + 1
      BY <1>1, <1>3, <3>1
    <3>3. QED BY <1>1, <3>1, <3>2
  <2>2. \A c \in forks', e \in Epochs : c[e] # heads'
    BY <1>1, <1>2
  <2>3. \A e \in Epochs : e >= CurrentEpoch' => roots'[e] = heads'
    BY <1>1, <1>3
  <2>4. ASSUME NEW c \in Chains, NEW e \in Epochs, NEW f \in Epochs, f <= e, c[e] = roots'[e]
        PROVE  c[f] = roots'[f]
    <3>1. e < d /\ f < d
      BY <1>1, <1>3, <2>4
    <3>2. QED BY <1>1, <1>3, <2>4, <3>1 DEF HeadInv, Chain
  <2>5. ASSUME NEW b \in Chains', NEW c \in Chains', NEW e \in Epochs, NEW f \in Epochs,
               b[e] = c[e], f <= e
        PROVE  b[f] = c[f]
    <3>1. CASE b \in Chains /\ c \in Chains
      BY <2>5, <3>1 DEF HeadInv, Chain
    <3>2. CASE b \in Chains /\ c = roots'
      BY <2>4, <2>5, <3>2
    <3>3. CASE b = roots' /\ c \in Chains
      <4>1. c[e] = roots'[e]
        BY <2>5, <3>3
      <4>2. c[f] = roots'[f]
        BY <2>4, <2>5, <3>3, <4>1
      <4>3. QED BY <3>3, <4>2
    <3>4. CASE b = c
      BY <3>4
    <3>5. QED BY <1>1, <3>1, <3>2, <3>3, <3>4
  <2>6. QED BY <2>1, <2>2, <2>3, <2>5 DEF Chain
<1>5. EventIsHead'
  <2>1. event' = HeadEvent(heads', roots')
    BY DEF NewHead
  <2>2. QED BY <1>1, <2>1, Here DEF EventIsHead, HeadEvent
<1>6. HeadSeen'
  <2>1. SUFFICES ASSUME lastEpoch # 0 PROVE HeadSeen'
    BY <1>1 DEF HeadSeen, headVars
  <2>2. lastEpoch \in Epochs /\ lastEpoch - 1 \in Epochs /\ lastEpoch - 2 \in Epochs
    BY <2>1 DEF HeadInv, HeadSeen
  <2>3. UNCHANGED <<lastEpoch, previousRoot, currentRoot, lastBlockRoot>>
    BY <1>1 DEF headVars
  <2>4. /\ previousRoot \in 1 .. heads /\ currentRoot \in 1 .. heads /\ lastBlockRoot \in 1 .. heads
        /\ lastEpoch \in 2 .. CurrentEpoch
        /\ \A c \in Chains :
             /\ c[lastEpoch - 1] = currentRoot => c[lastEpoch - 2] = previousRoot
             /\ c[lastEpoch] = lastBlockRoot => c[lastEpoch - 1] = currentRoot
    BY <2>1 DEF HeadInv, HeadSeen
  <2>5. /\ roots'[lastEpoch - 1] = currentRoot => roots'[lastEpoch - 2] = previousRoot
        /\ roots'[lastEpoch] = lastBlockRoot => roots'[lastEpoch - 1] = currentRoot
    <3>1. ASSUME NEW e \in Epochs, roots'[e] \in 1 .. heads
          PROVE  e < d
      <4>1. roots'[e] # heads + 1 /\ e \in Nat
        BY <3>1
      <4>2. ~(e >= d)
        BY <1>3, <4>1
      <4>3. QED BY <1>1, <4>1, <4>2
    <3>2. QED BY <1>1, <1>3, <2>2, <2>4, <3>1
  <2>6. \A c \in Chains' : /\ c[lastEpoch - 1] = currentRoot => c[lastEpoch - 2] = previousRoot
                           /\ c[lastEpoch] = lastBlockRoot => c[lastEpoch - 1] = currentRoot
    BY <1>1, <2>4, <2>5
  <2>7. QED BY <1>1, <2>3, <2>4, <2>6 DEF HeadSeen
<1>7. QED BY <1>4, <1>5, <1>6 DEF HeadInv

LEMMA HeadHandled ==
  ASSUME TypeInv, HeadInv, HandleHeadEvent
  PROVE  HeadInv'
<1> USE EpochsHere
<1>1. /\ UNCHANGED <<now, roots, forks, heads>> /\ CurrentEpoch' = CurrentEpoch /\ event' = None
      /\ Chains' = Chains
  BY DEF HandleHeadEvent, chainVars, CurrentEpoch, Chains
<1>2. Chain' /\ EventIsHead'
  BY <1>1 DEF HeadInv, Chain, EventIsHead
<1>3. CASE UNCHANGED headVars
  BY <1>1, <1>2, <1>3 DEF HeadInv, HeadSeen, headVars
<1> HIDE DEF CurrentEpoch
<1>4. CASE event.slot = now /\ ~UNCHANGED headVars
  <2>1. /\ lastEpoch' = CurrentEpoch /\ lastBlockRoot' = heads
        /\ previousRoot' = roots[CurrentEpoch - 2] /\ currentRoot' = roots[CurrentEpoch - 1]
    BY <1>4 DEF HandleHeadEvent, HeadInv, EventIsHead
  <2>2. CurrentEpoch \in Epochs /\ CurrentEpoch - 1 \in Epochs /\ CurrentEpoch - 2 \in Epochs
    OBVIOUS
  <2>3. /\ roots \in Chains /\ Chains = {roots} \cup forks
        /\ roots[CurrentEpoch - 2] \in 1 .. heads /\ roots[CurrentEpoch - 1] \in 1 .. heads
        /\ roots[CurrentEpoch] = heads /\ heads \in 1 .. heads
    BY <2>2 DEF HeadInv, Chain, Chains
  <2>4. ASSUME NEW c \in Chains
        PROVE  /\ c[CurrentEpoch - 1] = roots[CurrentEpoch - 1] =>
                    c[CurrentEpoch - 2] = roots[CurrentEpoch - 2]
               /\ c[CurrentEpoch] = heads => c[CurrentEpoch - 1] = roots[CurrentEpoch - 1]
    <3>1. \A e, f \in Epochs : c[e] = roots[e] /\ f <= e => c[f] = roots[f]
      BY <2>3 DEF HeadInv, Chain
    <3>2. CurrentEpoch - 2 <= CurrentEpoch - 1 /\ CurrentEpoch - 1 <= CurrentEpoch
      OBVIOUS
    <3>3. QED BY <2>2, <2>3, <3>1, <3>2
  <2>5. HeadSeen'
    BY <1>1, <2>1, <2>2, <2>3, <2>4 DEF HeadSeen
  <2>6. QED BY <1>2, <2>5 DEF HeadInv
<1>5. QED BY <1>3, <1>4 DEF HandleHeadEvent

\* What is known stays known while the chain and the scheduler stand still.
LEMMA RootStays ==
  ASSUME NEW e, NEW r, RootKnown(e, r),
         UNCHANGED <<roots, headVars, reorgs>>, missed \subseteq missed'
  PROVE  RootKnown(e, r)'
BY DEF RootKnown, Told, Belief, headVars

LEMMA DutiesFrame ==
  ASSUME DutiesKnown,
         UNCHANGED <<now, roots, headVars, reorgs, told>>, missed \subseteq missed',
         \A e \in Reach : store'[e] = store[e] \/ store'[e] = None,
         \A e \in Reach : Due(e) => Due(e)' \/ Ending(e)
  PROVE  DutiesKnown'
<1>1. Reach' = Reach /\ \A e : Ending(e)' <=> Ending(e)
  BY DEF Reach, CurrentEpoch, Ending
<1>2. SUFFICES ASSUME NEW e \in Reach, store'[e] # None
               PROVE  \/ Due(e)' \/ Ending(e)'
                      \/ /\ RootKnown(e, store[e].root)'
                         /\ store[e].vals >= told \/ e \in missed'
  BY <1>1 DEF DutiesKnown
<1>3. store[e] # None
  BY <1>2
<1>4. QED BY <1>1, <1>2, <1>3, RootStays DEF DutiesKnown

\* A request that is made is for an epoch in reach and the validators of today.
LEMMA Asked ==
  ASSUME TypeInv, InReach, pc # "fetch", UNCHANGED <<now, vals>>,
         told' \in 0 .. vals,
         NEW want, NEW e, e <= CurrentEpoch + 1, NEW allowed, NEW next \in {"next", "wait", "idle"},
         Prepare(want, e, allowed, next)
  PROVE  /\ AnswerKnown'
         /\ (IF pc = "fetch" THEN fetch.epoch <= CurrentEpoch + 1 ELSE fetch = None)'
<1>1. CurrentEpoch' = CurrentEpoch
  BY DEF CurrentEpoch
<1>2. CASE pc' = "fetch" /\ fetch' = [epoch |-> e, vals |-> vals, root |-> None]
  BY <1>1, <1>2, Here DEF AnswerKnown
<1>3. CASE pc' = next /\ fetch' = fetch
  BY <1>3 DEF AnswerKnown, InReach
<1>4. QED BY <1>2, <1>3 DEF Prepare

LEMMA AskedAtOnce ==
  ASSUME TypeInv, InReach, pc # "fetch", UNCHANGED <<now, vals>>,
         told' \in 0 .. vals,
         NEW want, NEW slot \in StartSlot .. now, NEW currentToo,
         PrepareAtOnce(want, slot, currentToo)
  PROVE  /\ AnswerKnown'
         /\ (IF pc = "fetch" THEN fetch.epoch <= CurrentEpoch + 1 ELSE fetch = None)'
<1>1. Epoch(slot) \in Nat /\ Epoch(slot) <= CurrentEpoch /\ CurrentEpoch \in Nat
  <2>1. slot \in Nat /\ slot <= now /\ now \in Nat
    BY Here
  <2>2. QED BY <2>1, EpochGrows, EpochType DEF CurrentEpoch
<1> HIDE DEF CurrentEpoch, Epoch
<1>2. Epoch(slot) <= CurrentEpoch + 1 /\ Epoch(slot) + 1 <= CurrentEpoch + 1
  BY <1>1
<1>3. CASE IsLastSlotOfEpoch(slot)
  <2>1. Prepare(Prune(want, Epoch(slot)), Epoch(slot) + 1, ShouldFetchNextEpoch(slot), "idle")
    BY <1>3 DEF PrepareAtOnce
  <2>2. QED BY <1>2, <2>1, Asked
<1>4. CASE ~IsLastSlotOfEpoch(slot)
  <2>1. Prepare(want, Epoch(slot), currentToo, "idle")
    BY <1>4 DEF PrepareAtOnce
  <2>2. QED BY <1>2, <2>1, Asked
<1>5. QED BY <1>3, <1>4

LEMMA ReorgsTyped ==
  ASSUME TypeInv, NEW i \in DOMAIN reorgs
  PROVE  reorgs[i].current \in BOOLEAN /\ reorgs[i].previous \in BOOLEAN /\ reorgs[i].epoch \in Epochs
<1> DEFINE Reorgs == [current : BOOLEAN, previous : BOOLEAN, epoch : Epochs]
<1>1. reorgs \in Seq(Reorgs)
  BY DEF TypeInv, TypeOK
<1>2. reorgs[i] \in Reorgs
  <2> HIDE DEF Reorgs
  <2>1. QED BY <1>1
<1>3. QED BY <1>2

LEMMA ReorgAdded ==
  ASSUME TypeInv, NEW reorg, reorgs' = Append(reorgs, reorg)
  PROVE  /\ DOMAIN reorgs \subseteq DOMAIN reorgs'
         /\ \A i \in DOMAIN reorgs : reorgs'[i] = reorgs[i]
         /\ \A i \in DOMAIN reorgs' \ DOMAIN reorgs : reorgs'[i] = reorg
         /\ \E i \in DOMAIN reorgs' : reorgs'[i] = reorg
<1>1. PICK R : reorgs \in Seq(R)
  BY DEF TypeInv, TypeOK
<1>2. Len(reorgs) + 1 \in DOMAIN reorgs' /\ reorgs'[Len(reorgs) + 1] = reorg
  BY <1>1
<1>3. QED BY <1>1, <1>2

\* The rest of InReach.
LEMMA ReachFrame ==
  ASSUME InReach, UNCHANGED now,
         reorgs' = reorgs \/ (reorgs # <<>> /\ reorgs' = Tail(reorgs)),
         reorgs \in Seq([current : BOOLEAN, previous : BOOLEAN, epoch : Epochs]),
         \A e \in Epochs : store'[e] = store[e] \/ store'[e] = None,
         (IF pc = "fetch" THEN fetch.epoch <= CurrentEpoch + 1 ELSE fetch = None)'
  PROVE  InReach'
<1>1. CurrentEpoch' = CurrentEpoch
  BY DEF CurrentEpoch
<1>2. \A i \in DOMAIN reorgs' : reorgs'[i].epoch <= CurrentEpoch
  <2>1. CASE reorgs' = reorgs
    BY <2>1 DEF InReach
  <2>2. CASE reorgs # <<>> /\ reorgs' = Tail(reorgs)
    <3>1. \A i \in DOMAIN reorgs' : i + 1 \in DOMAIN reorgs /\ reorgs'[i] = reorgs[i + 1]
      BY <2>2
    <3>2. QED BY <3>1 DEF InReach
  <2>3. QED BY <2>1, <2>2
<1>3. QED BY <1>1, <1>2 DEF InReach

LEMMA KnownNextSlot ==
  ASSUME TypeInv, TypeInv', OutdatedInv, NextSlot
  PROVE  InReach' /\ DutiesKnown' /\ AnswerKnown'
<1>1. /\ now' = now + 1
      /\ UNCHANGED <<kind, roots, headVars, reorgs, told, intents, store, stale, pc, fetch, missed>>
  BY DEF NextSlot, Advance, chainVars, dutyVars, loopVars
<1>2. /\ CurrentEpoch \in Nat
      /\ CurrentEpoch' = IF IsLastSlotOfEpoch(now) THEN CurrentEpoch + 1 ELSE CurrentEpoch
  BY <1>1, EpochsHere, EpochOfNextSlot DEF CurrentEpoch
<1>3. CurrentEpoch' \in Epochs /\ CurrentEpoch' + 1 \in Epochs
  <2>1. now' \in StartSlot .. MaxSlot
    BY DEF TypeInv, TypeOK
  <2>2. QED BY <2>1, EpochsInReach DEF CurrentEpoch
<1> HIDE DEF CurrentEpoch
<1>4. InReach'
  <2>1. /\ \A i \in DOMAIN reorgs : reorgs[i].epoch <= CurrentEpoch /\ reorgs[i].epoch \in Nat
    <3>1. \A i \in DOMAIN reorgs : reorgs[i].epoch \in Epochs
      BY ReorgsTyped
    <3>2. QED BY <3>1, EpochsHere DEF OutdatedInv, InReach
  <2>2. pc = "fetch" => fetch.epoch \in Nat
    BY EpochsHere DEF TypeInv, FetchOK
  <2>3. \A i \in DOMAIN reorgs' : reorgs'[i].epoch <= CurrentEpoch'
    BY <1>1, <1>2, <2>1
  <2>4. \A e \in Epochs : e > CurrentEpoch' + 1 => store'[e] = None
    BY <1>1, <1>2, EpochsHere DEF OutdatedInv, InReach
  <2>5. IF pc' = "fetch" THEN fetch'.epoch <= CurrentEpoch' + 1 ELSE fetch' = None
    BY <1>1, <1>2, <2>2 DEF OutdatedInv, InReach
  <2>6. QED BY <2>3, <2>4, <2>5 DEF InReach
<1>5. \A e, r : RootKnown(e, r) => RootKnown(e, r)'
  BY <1>1, RootStays
<1>6. ASSUME NEW e \in Reach', e \notin Reach \/ Ending(e)
      PROVE  store[e] = None
  <2>1. IsLastSlotOfEpoch(now) /\ e = CurrentEpoch + 2
    BY <1>2, <1>6 DEF Reach, Ending
  <2>2. QED BY <1>2, <1>3, <2>1 DEF OutdatedInv, InReach
<1>7. DutiesKnown'
  BY <1>1, <1>5, <1>6 DEF OutdatedInv, DutiesKnown, Due
<1>8. AnswerKnown'
  <2>1. pc = "fetch" /\ fetch.epoch \in Reach' => fetch.epoch \in Reach
    BY <1>2 DEF OutdatedInv, InReach, Reach
  <2>2. QED BY <1>1, <1>5, <2>1 DEF OutdatedInv, AnswerKnown
<1>9. QED BY <1>4, <1>7, <1>8

\* Nothing is known less of because validators change or a report is given up.
LEMMA KnownChangeValidators ==
  ASSUME TypeInv, OutdatedInv, ChangeValidators \/ ChangeOthersValidators \/ ReportTimesOut
  PROVE  InReach' /\ DutiesKnown' /\ AnswerKnown'
<1>1. UNCHANGED <<now, kind, roots, headVars, reorgs, told, intents, store, stale, pc, fetch, missed>>
  BY DEF ChangeValidators, ChangeOthersValidators, ReportTimesOut, chainVars, dutyVars, loopVars
<1>2. \A e, r : RootKnown(e, r) => RootKnown(e, r)'
  BY <1>1, RootStays
<1>3. Reach' = Reach /\ CurrentEpoch' = CurrentEpoch /\ \A e : Ending(e)' <=> Ending(e)
  BY <1>1 DEF Reach, CurrentEpoch, Ending
<1>4. InReach'
  BY <1>1, <1>3 DEF OutdatedInv, InReach
<1>5. DutiesKnown'
  BY <1>1, <1>2, <1>3 DEF OutdatedInv, DutiesKnown, Due
<1>6. AnswerKnown'
  BY <1>1, <1>2, <1>3 DEF OutdatedInv, AnswerKnown
<1>7. QED BY <1>4, <1>5, <1>6

\* A root that changes is another than the one the scheduler saw, or is missed
\* by those who have duties of another root.
LEMMA KnownNewHead ==
  ASSUME TypeInv, OutdatedInv, NEW base \in {roots} \cup forks, NEW d \in Epochs, NewHead(base, d)
  PROVE  InReach' /\ DutiesKnown' /\ AnswerKnown'
<1>1. /\ UNCHANGED <<now, kind, headVars, reorgs, told, intents, store, stale, pc, fetch>>
      /\ missed' = missed \cup {e \in Reach : NotToBeSeen(e, roots'[e - 2])}
  BY DEF NewHead, dutyVars, loopVars
<1>2. Reach' = Reach /\ CurrentEpoch' = CurrentEpoch /\ \A e : Ending(e)' <=> Ending(e)
  BY <1>1 DEF Reach, CurrentEpoch, Ending
<1> HIDE DEF CurrentEpoch
<1>3. InReach'
  BY <1>1, <1>2 DEF OutdatedInv, InReach
<1>4. ASSUME NEW e \in Reach, NEW r, r # roots'[e - 2] => HasOther(e, roots'[e - 2]), RootKnown(e, r)
      PROVE  RootKnown(e, r)'
  <2>1. Told(e)' <=> Told(e)
    BY <1>1 DEF Told
  <2>2. Belief(e)' = Belief(e) /\ lastEpoch' = lastEpoch
    BY <1>1 DEF Belief, headVars
  <2>3. CASE roots'[e - 2] = roots[e - 2]
    BY <1>1, <1>4, <2>1, <2>2, <2>3 DEF RootKnown
  <2>4. CASE roots'[e - 2] # roots[e - 2]
    <3>1. CASE lastEpoch = 0 \/ Belief(e) = roots'[e - 2]
      BY <1>1, <1>4, <2>4, <3>1 DEF RootKnown, NotToBeSeen
    <3>2. CASE lastEpoch # 0 /\ Belief(e) # roots'[e - 2]
      BY <2>2, <3>2 DEF RootKnown
    <3>3. QED BY <3>1, <3>2
  <2>5. QED BY <2>3, <2>4
<1>5. DutiesKnown'
  <2>1. \A e : Due(e)' <=> Due(e)
    BY <1>1 DEF Due
  <2>2. \A e, r : store[e] # None /\ store[e].root # r => HasOther(e, r)
    BY DEF HasOther
  <2>3. \A e \in Reach : store[e] # None /\ RootKnown(e, store[e].root) => RootKnown(e, store[e].root)'
    BY <1>1, <1>4, <2>2
  <2>4. QED BY <1>1, <1>2, <2>1, <2>3 DEF OutdatedInv, DutiesKnown
<1>6. AnswerKnown'
  <2>1. pc = "fetch" => fetch \in [epoch : Nat, vals : Nat, root : Nat \cup {None}]
    BY EpochsHere DEF TypeInv, FetchOK
  <2>2. \A r : pc = "fetch" /\ fetch.root # None /\ fetch.root # r => HasOther(fetch.epoch, r)
    BY <2>1, SchedulerAssumption DEF HasOther
  <2>3. (pc = "fetch" /\ fetch.root # None /\ fetch.epoch \in Reach) => RootKnown(fetch.epoch, fetch.root)'
    BY <1>1, <1>4, <2>2 DEF OutdatedInv, AnswerKnown
  <2>4. QED BY <1>1, <1>2, <2>3 DEF OutdatedInv, AnswerKnown
<1>7. QED BY <1>3, <1>5, <1>6

\* What the scheduler believed of an epoch in reach and is otherwise, it tells,
\* unless it comes from an epoch before the last.
LEMMA BeliefCorrected ==
  ASSUME TypeInv, OutdatedInv, HandleHeadEvent, event.slot = now,
         NEW e \in Reach, lastEpoch # 0, Belief(e) # roots[e - 2]
  PROVE  Told(e)' \/ e \in missed'
<1> USE EpochsHere
<1> DEFINE current == lastEpoch # 0 /\ Differs(Expected.current, event.current)
           previous == lastEpoch # 0 /\ Differs(Expected.previous, event.previous)
           reorg == [current |-> current, previous |-> previous, epoch |-> CurrentEpoch]
<1>1. current \/ previous => reorgs' = Append(reorgs, reorg)
  BY DEF HandleHeadEvent
<1>2. /\ event.current = roots[CurrentEpoch - 1] /\ event.previous = roots[CurrentEpoch - 2]
  BY DEF OutdatedInv, HeadInv, EventIsHead, HandleHeadEvent
<1>3. current \in BOOLEAN /\ previous \in BOOLEAN
  BY DEF Differs
<1> HIDE DEF CurrentEpoch
<1>4. /\ lastEpoch \in Nat /\ 2 <= lastEpoch /\ lastEpoch <= CurrentEpoch
      /\ previousRoot \in Nat \ {0} /\ currentRoot \in Nat \ {0} /\ lastBlockRoot \in Nat \ {0}
      /\ roots[lastEpoch - 1] = currentRoot => roots[lastEpoch - 2] = previousRoot
      /\ roots[lastEpoch] = lastBlockRoot => roots[lastEpoch - 1] = currentRoot
  BY DEF OutdatedInv, HeadInv, HeadSeen, Chains
<1>5. CurrentEpoch > lastEpoch + 1 /\ lastBlockRoot # roots[CurrentEpoch - 2] /\ ~(current /\ previous)
        => CurrentEpoch \in missed'
  BY <1>2 DEF HandleHeadEvent
<1>6. /\ EpochTransition <=> CurrentEpoch > lastEpoch
      /\ Expected.current = IF EpochTransition THEN lastBlockRoot ELSE currentRoot
      /\ Expected.previous = IF EpochTransition THEN currentRoot ELSE previousRoot
  BY DEF Expected, EpochTransition
<1>7. /\ current <=> Expected.current # roots[CurrentEpoch - 1]
      /\ previous <=> Expected.previous # roots[CurrentEpoch - 2]
  BY <1>2, <1>4, <1>6 DEF Differs
<1> HIDE DEF current, previous
<1>8. CASE e = CurrentEpoch + 1
  <2>1. current
    BY <1>4, <1>6, <1>7, <1>8 DEF Belief
  <2>2. reorgs' = Append(reorgs, reorg) /\ reorg.epoch + 1 = e
    BY <1>1, <1>8, <2>1
  <2>3. QED BY <2>2, ReorgAdded DEF Told
<1>9. CASE e = CurrentEpoch
  <2>1. (current /\ previous) \/ e \in missed'
    <3>1. CASE CurrentEpoch = lastEpoch
      BY <1>4, <1>6, <1>7, <1>9, <3>1 DEF Belief
    <3>2. CASE CurrentEpoch = lastEpoch + 1
      BY <1>4, <1>6, <1>7, <1>9, <3>2 DEF Belief
    <3>3. CASE CurrentEpoch > lastEpoch + 1
      BY <1>4, <1>5, <1>9, <3>3 DEF Belief
    <3>4. QED BY <1>4, <3>1, <3>2, <3>3
  <2>2. CASE current /\ previous
    <3>1. reorgs' = Append(reorgs, reorg) /\ reorg.epoch = e /\ reorg.current /\ reorg.previous
      BY <1>1, <1>9, <2>2
    <3>2. QED BY <3>1, ReorgAdded DEF Told
  <2>3. QED BY <2>1, <2>2
<1>10. QED BY <1>8, <1>9 DEF Reach

LEMMA KnownHeadEvent ==
  ASSUME TypeInv, OutdatedInv, HandleHeadEvent
  PROVE  InReach' /\ DutiesKnown' /\ AnswerKnown'
<1>1. UNCHANGED <<now, kind, roots, told, intents, store, stale, pc, fetch>> /\ missed \subseteq missed'
  BY DEF HandleHeadEvent, chainVars, dutyVars, loopVars
<1>2. Reach' = Reach /\ CurrentEpoch' = CurrentEpoch /\ \A e : Ending(e)' <=> Ending(e)
  BY <1>1 DEF Reach, CurrentEpoch, Ending
<1>3. \/ reorgs' = reorgs
      \/ \E reorg : reorgs' = Append(reorgs, reorg) /\ reorg.epoch = CurrentEpoch
  <2> DEFINE current == lastEpoch # 0 /\ Differs(Expected.current, event.current)
             previous == lastEpoch # 0 /\ Differs(Expected.previous, event.previous)
             reorg == [current |-> current, previous |-> previous, epoch |-> CurrentEpoch]
  <2>1. reorgs' = reorgs \/ reorgs' = Append(reorgs, reorg)
    BY DEF HandleHeadEvent, headVars
  <2>2. reorg.epoch = CurrentEpoch
    OBVIOUS
  <2>3. QED BY <2>1, <2>2
<1>4. \A e : Told(e) => Told(e)'
  <2>1. CASE reorgs' = reorgs
    BY <2>1 DEF Told
  <2>2. ASSUME NEW reorg, reorgs' = Append(reorgs, reorg) PROVE \A e : Told(e) => Told(e)'
    BY <2>2, ReorgAdded DEF Told
  <2>3. QED BY <1>3, <2>1, <2>2
<1>5. InReach'
  <2>1. \A i \in DOMAIN reorgs' : reorgs'[i].epoch <= CurrentEpoch
    <3>1. CASE reorgs' = reorgs
      BY <3>1 DEF OutdatedInv, InReach
    <3>2. ASSUME NEW reorg, reorgs' = Append(reorgs, reorg), reorg.epoch = CurrentEpoch
          PROVE  \A i \in DOMAIN reorgs' : reorgs'[i].epoch <= CurrentEpoch
      <4>1. CurrentEpoch \in Nat
        BY EpochsHere
      <4> HIDE DEF CurrentEpoch
      <4>2. QED BY <3>2, <4>1, ReorgAdded DEF OutdatedInv, InReach
    <3>3. QED BY <1>3, <3>1, <3>2
  <2>2. QED BY <1>1, <1>2, <2>1 DEF OutdatedInv, InReach
<1>6. ASSUME NEW e \in Reach, NEW r, RootKnown(e, r) PROVE RootKnown(e, r)'
  <2>1. CASE lastEpoch # 0 /\ Belief(e) # roots[e - 2]
    <3>1. CASE event.slot = now
      BY <2>1, <3>1, BeliefCorrected DEF RootKnown
    <3>2. CASE event.slot # now
      BY <1>1, <2>1, <3>2 DEF HandleHeadEvent, RootKnown, Belief, headVars
    <3>3. QED BY <3>1, <3>2
  <2>2. CASE r = roots[e - 2] \/ e \in missed \/ Told(e)
    BY <1>1, <1>4, <2>2 DEF RootKnown
  <2>3. QED BY <1>6, <2>1, <2>2 DEF RootKnown
<1>7. DutiesKnown'
  BY <1>1, <1>2, <1>6 DEF OutdatedInv, DutiesKnown, Due
<1>8. AnswerKnown'
  BY <1>1, <1>2, <1>6 DEF OutdatedInv, AnswerKnown
<1>9. QED BY <1>5, <1>7, <1>8

\* What the operations on the intents leave pending.
LEMMA PendingAfter ==
  ASSUME NEW want \in Wants, NEW e \in Epochs
  PROVE  /\ \A es : e \in es \/ want[e] = "pending" => Pending(want, es)[e] = "pending"
         /\ \A d : d # e => Prune(want, d)[e] = want[e]
         /\ \A d : want[e] = "pending" => Registered(want, d)[e] = "pending"
BY DEF Pending, Prune, Registered, Wants

LEMMA CleanedPending ==
  ASSUME TypeInv, NEW e \in Reach, intents[e] = "pending"
  PROVE  Cleaned[e] = "pending"
<1> DEFINE left == IF Erases THEN Prune(intents, Epoch(tick) - 1) ELSE intents
<1>1. e \in Epochs /\ e \in Nat /\ Epoch(tick) \in Nat /\ Epoch(tick) <= e
  <2>1. tick \in Nat /\ now \in Nat /\ tick <= now
    BY Here DEF TypeInv, Clocks
  <2>2. Epoch(tick) \in Nat /\ Epoch(tick) <= CurrentEpoch
    BY <2>1, EpochGrows, EpochType DEF CurrentEpoch
  <2> HIDE DEF CurrentEpoch, Epoch
  <2>3. QED BY <2>2, EpochsHere DEF Reach
<1>2. left \in Wants /\ intents \in Wants
  BY Here, PruneType
<1>3. left[e] = "pending"
  BY <1>1, <1>2, PendingAfter
<1>4. Cleaned = Registered(left, Epoch(tick) + 1)
  BY DEF Cleaned
<1> HIDE DEF left
<1>5. QED BY <1>1, <1>2, <1>3, <1>4, PendingAfter

\* Epochs in reach are not erased.
LEMMA Erasing ==
  ASSUME TypeInv
  PROVE  /\ \A e \in Epochs : ErasedStore[e] = store[e] \/ ErasedStore[e] = None
         /\ \A e \in Reach : e \in stale => e \in ErasedStale
<1>1. \A e \in Epochs : ErasedStore[e] = store[e] \/ ErasedStore[e] = None
  BY DEF ErasedStore, TypeInv, TypeOK
<1>2. \A e \in Reach : e # Epoch(tick) - 1
  <2>1. tick \in Nat /\ now \in Nat /\ tick <= now
    BY Here DEF TypeInv, Clocks
  <2>2. Epoch(tick) \in Nat /\ Epoch(tick) <= CurrentEpoch /\ CurrentEpoch \in Nat
    BY <2>1, EpochGrows, EpochType DEF CurrentEpoch
  <2> HIDE DEF CurrentEpoch, Epoch
  <2>3. QED BY <2>2 DEF Reach
<1>3. QED BY <1>1, <1>2 DEF ErasedStale

LEMMA KnownTicks ==
  ASSUME TypeInv, OutdatedInv, HandleInitialDuties \/ Tick \/ TickNextEpoch \/ TickEnds
  PROVE  InReach' /\ DutiesKnown' /\ AnswerKnown'
<1> USE Here
<1>1. UNCHANGED <<now, kind, roots, headVars, reorgs, vals, told, missed>> /\ CurrentEpoch' = CurrentEpoch
      /\ told' \in 0 .. vals
  BY DEF HandleInitialDuties, Tick, TickNextEpoch, TickEnds, chainVars, CurrentEpoch, TypeInv, TypeOK
<1>2. Reach \subseteq Epochs
  BY DEF Reach
<1>3. reorgs \in Seq([current : BOOLEAN, previous : BOOLEAN, epoch : Epochs])
  BY DEF TypeInv, TypeOK
<1>4. CASE HandleInitialDuties
  <2> DEFINE want == Pending(intents, {Epoch(now), Epoch(now) + 1})
  <2>1. want \in Wants /\ \A e \in Epochs : intents[e] = "pending" => want[e] = "pending"
    BY PendingType, PendingAfter
  <2>2. PrepareAtOnce(want, now, TRUE) /\ UNCHANGED <<store, stale>> /\ pc # "fetch"
    BY <1>4 DEF HandleInitialDuties
  <2> HIDE DEF want
  <2>3. intents' = IF IsLastSlotOfEpoch(now) THEN Prune(want, Epoch(now)) ELSE want
    BY <2>2, PreparesAtOnce
  <2>4. \A e \in Reach : Due(e) => Due(e)' \/ Ending(e)
    <3>1. \A e \in Epochs : e # Epoch(now) => Prune(want, Epoch(now))[e] = want[e]
      BY <2>1, PendingAfter
    <3>2. \A e \in Reach : intents[e] = "pending" => intents'[e] = "pending" \/ Ending(e)
      BY <1>2, <2>1, <2>3, <3>1 DEF Ending, CurrentEpoch
    <3>3. QED BY <1>1, <2>2, <3>2 DEF Due
  <2>5. AnswerKnown' /\ (IF pc = "fetch" THEN fetch.epoch <= CurrentEpoch + 1 ELSE fetch = None)'
    <3>1. now \in StartSlot .. now
      OBVIOUS
    <3>2. QED BY <1>1, <2>2, <3>1, AskedAtOnce DEF OutdatedInv
  <2>6. QED BY <1>1, <1>3, <2>2, <2>4, <2>5, ReachFrame, DutiesFrame DEF OutdatedInv
<1>5. CASE Tick
  <2>1. armed \in StartSlot .. MaxSlot /\ armed \in Nat /\ armed <= now
    BY <1>5 DEF Tick, TypeInv, Clocks
  <2>2. Epoch(armed) \in Nat /\ Epoch(armed) <= CurrentEpoch /\ CurrentEpoch \in Nat
    BY <2>1, EpochType, EpochGrows DEF CurrentEpoch
  <2>3. Epoch(armed) <= CurrentEpoch + 1
    <3> HIDE DEF CurrentEpoch, Epoch
    <3>1. QED BY <2>2
  <2>4. /\ Prepare(intents, Epoch(armed), TRUE, "next") /\ UNCHANGED <<store, stale>>
        /\ pc # "fetch" /\ intents' = intents
    BY <1>5 DEF Tick, Prepare
  <2>5. AnswerKnown' /\ (IF pc = "fetch" THEN fetch.epoch <= CurrentEpoch + 1 ELSE fetch = None)'
    BY <1>1, <2>3, <2>4, Asked DEF OutdatedInv
  <2>6. \A e \in Reach : Due(e) => Due(e)'
    BY <1>1, <2>4 DEF Due
  <2>7. QED BY <1>1, <1>3, <2>4, <2>5, <2>6, ReachFrame, DutiesFrame DEF OutdatedInv
<1>6. CASE TickNextEpoch
  <2>1. tick \in Nat /\ tick <= now
    BY DEF TypeInv, Clocks
  <2>2. Epoch(tick) \in Nat /\ Epoch(tick) <= CurrentEpoch /\ CurrentEpoch \in Nat
    BY <2>1, EpochType, EpochGrows DEF CurrentEpoch
  <2>3. Epoch(tick) + 1 <= CurrentEpoch + 1
    <3> HIDE DEF CurrentEpoch, Epoch
    <3>1. QED BY <2>2
  <2>4. /\ Prepare(intents, Epoch(tick) + 1, ShouldFetchNextEpoch(tick), "wait")
        /\ UNCHANGED <<store, stale>> /\ pc # "fetch" /\ intents' = intents
    BY <1>6 DEF TickNextEpoch, Prepare
  <2>5. AnswerKnown' /\ (IF pc = "fetch" THEN fetch.epoch <= CurrentEpoch + 1 ELSE fetch = None)'
    BY <1>1, <2>3, <2>4, Asked DEF OutdatedInv
  <2>6. \A e \in Reach : Due(e) => Due(e)'
    BY <1>1, <2>4 DEF Due
  <2>7. QED BY <1>1, <1>3, <2>4, <2>5, <2>6, ReachFrame, DutiesFrame DEF OutdatedInv
<1>7. CASE TickEnds
  <2>1. /\ intents' = Cleaned /\ store' = ErasedStore /\ stale' = ErasedStale
        /\ pc # "fetch" /\ pc' # "fetch" /\ fetch' = fetch
    BY <1>7 DEF TickEnds
  <2>2. AnswerKnown' /\ (IF pc = "fetch" THEN fetch.epoch <= CurrentEpoch + 1 ELSE fetch = None)'
    BY <2>1 DEF AnswerKnown, OutdatedInv, InReach
  <2>3. \A e \in Reach : Due(e) => Due(e)'
    BY <1>1, <2>1, CleanedPending, Erasing DEF Due
  <2>4. /\ \A e \in Epochs : store'[e] = store[e] \/ store'[e] = None
        /\ \A e \in Reach : store'[e] = store[e] \/ store'[e] = None
    BY <1>2, <2>1, Erasing
  <2>5. QED BY <1>1, <1>3, <2>2, <2>3, <2>4, ReachFrame, DutiesFrame DEF OutdatedInv
<1>8. QED BY <1>4, <1>5, <1>6, <1>7

LEMMA KnownAnswers ==
  ASSUME TypeInv, OutdatedInv, BeaconAnswers \/ FetchFailed \/ UNCHANGED vars
  PROVE  InReach' /\ DutiesKnown' /\ AnswerKnown'
<1>1. /\ UNCHANGED <<now, kind, roots, headVars, reorgs, told, missed, intents, store, stale>>
      /\ CurrentEpoch' = CurrentEpoch
  BY DEF BeaconAnswers, FetchFailed, vars, chainVars, dutyVars, CurrentEpoch
<1>2. DutiesKnown'
  BY <1>1, DutiesFrame DEF OutdatedInv, Due
<1>3. reorgs \in Seq([current : BOOLEAN, previous : BOOLEAN, epoch : Epochs])
  BY DEF TypeInv, TypeOK
<1>4. \A e, r : RootKnown(e, r) => RootKnown(e, r)'
  BY <1>1, RootStays
<1>5. /\ AnswerKnown'
      /\ (IF pc = "fetch" THEN fetch.epoch <= CurrentEpoch + 1 ELSE fetch = None)'
  <2>1. CASE BeaconAnswers
    <3>1. fetch \in [epoch : Epochs \ {0, 1}, vals : Nat, root : Nat \cup {None}] /\ pc = "fetch"
      BY <2>1 DEF BeaconAnswers, TypeInv, FetchOK
    <3>2. /\ pc' = "fetch" /\ fetch'.epoch = fetch.epoch /\ fetch'.vals = fetch.vals
          /\ fetch'.root = roots[fetch.epoch - 2]
      BY <2>1, <3>1 DEF BeaconAnswers
    <3>3. \A e, r : r = roots[e - 2] => RootKnown(e, r)'
      BY <1>1 DEF RootKnown
    <3>4. QED BY <1>1, <3>1, <3>2, <3>3 DEF AnswerKnown, OutdatedInv, InReach
  <2>2. CASE FetchFailed
    <3>1. pc' # "fetch" /\ fetch' = None
      BY <2>2 DEF FetchFailed, TypeInv, TypeOK
    <3>2. QED BY <3>1 DEF AnswerKnown
  <2>3. CASE UNCHANGED vars
    <3>1. pc' = pc /\ fetch' = fetch /\ Reach' = Reach
      BY <1>1, <2>3 DEF vars, loopVars, Reach
    <3>2. QED BY <1>1, <1>4, <3>1 DEF AnswerKnown, OutdatedInv, InReach
  <2>4. QED BY <2>1, <2>2, <2>3
<1>6. QED BY <1>1, <1>2, <1>3, <1>5, ReachFrame DEF OutdatedInv

\* The duties that come are those that were asked for; what the beacon node
\* knew less of is known to the scheduler or on its way from it.
LEMMA KnownFetched ==
  ASSUME TypeInv, OutdatedInv, Fetched
  PROVE  InReach' /\ DutiesKnown' /\ AnswerKnown'
<1>1. /\ UNCHANGED <<now, kind, roots, headVars, reorgs, told>>
      /\ CurrentEpoch' = CurrentEpoch /\ Reach' = Reach /\ \A e : Ending(e)' <=> Ending(e)
  BY DEF Fetched, chainVars, CurrentEpoch, Reach, Ending
<1>2. fetch.epoch \in Epochs /\ fetch.epoch <= CurrentEpoch + 1 /\ pc = "fetch" /\ fetch.root # None
  BY DEF Fetched, TypeInv, FetchOK, OutdatedInv, InReach
<1>3. /\ store' = [store EXCEPT ![fetch.epoch] = [root |-> fetch.root, vals |-> fetch.vals]]
      /\ stale' = stale \ {fetch.epoch} /\ intents' = [intents EXCEPT ![fetch.epoch] = "done"]
      /\ missed' = missed \ {e \in {fetch.epoch} : fetch.root = roots[e - 2]}
      /\ pc' # "fetch" /\ fetch' = None
  BY DEF Fetched, TypeInv, TypeOK
<1>4. store \in [Epochs -> [root : Nat, vals : Nat] \cup {None}] /\ intents \in Wants /\ Reach \subseteq Epochs
  BY Here DEF TypeInv, TypeOK, Reach
<1>5. \A e : Told(e)' <=> Told(e)
  BY <1>1 DEF Told
<1>6. \A e : Belief(e)' = Belief(e) /\ lastEpoch' = lastEpoch
  BY <1>1 DEF Belief, headVars
<1>7. InReach'
  <2>1. \A e \in Epochs : e > CurrentEpoch + 1 => store'[e] = None
    <3>1. CurrentEpoch + 1 \in Nat /\ Epochs \subseteq Nat
      BY EpochsHere
    <3> HIDE DEF CurrentEpoch
    <3>2. ASSUME NEW e \in Epochs, e > CurrentEpoch + 1 PROVE store'[e] = None
      <4>1. e # fetch.epoch
        BY <1>2, <3>1, <3>2
      <4>2. QED BY <1>3, <1>4, <3>2, <4>1 DEF OutdatedInv, InReach
    <3>3. QED BY <3>2
  <2>2. QED BY <1>1, <1>3, <2>1 DEF OutdatedInv, InReach
<1>8. ASSUME NEW e \in Reach, store'[e] # None
      PROVE  \/ Due(e)' \/ Ending(e)'
             \/ /\ RootKnown(e, store[e].root)'
                /\ store'[e].vals >= told \/ e \in missed'
  <2>1. CASE e = fetch.epoch
    <3>1. store'[e].root = fetch.root /\ store'[e].vals = fetch.vals
      BY <1>2, <1>3, <1>4, <2>1
    <3>2. fetch.vals >= told
      BY <1>2 DEF OutdatedInv, AnswerKnown
    <3>3. RootKnown(e, fetch.root)
      BY <1>2, <1>8, <2>1 DEF OutdatedInv, AnswerKnown
    <3>4. \A r : RootKnown(e, r) /\ r = fetch.root => RootKnown(e, r)'
      BY <1>1, <1>3, <1>5, <1>6, <2>1 DEF RootKnown
    <3>5. RootKnown(e, store[e].root)'
      BY <3>1, <3>3, <3>4
    <3>6. QED BY <3>1, <3>2, <3>5
  <2>2. CASE e # fetch.epoch
    <3>1. store'[e] = store[e] /\ intents'[e] = intents[e]
      BY <1>3, <1>4, <2>2 DEF Wants
    <3>2. (e \in stale' <=> e \in stale) /\ (e \in missed' <=> e \in missed)
      BY <1>3, <2>2
    <3>3. Due(e)' <=> Due(e)
      BY <1>1, <3>1, <3>2 DEF Due
    <3>4. RootKnown(e, store[e].root) => RootKnown(e, store[e].root)'
      BY <1>1, <1>5, <1>6, <3>1, <3>2 DEF RootKnown
    <3>5. QED BY <1>1, <1>8, <3>1, <3>2, <3>3, <3>4 DEF OutdatedInv, DutiesKnown
  <2>3. QED BY <2>1, <2>2
<1>9. DutiesKnown'
  BY <1>1, <1>8 DEF DutiesKnown
<1>10. AnswerKnown'
  BY <1>3 DEF AnswerKnown
<1>11. QED BY <1>7, <1>9, <1>10

LEMMA KnownTickChange ==
  ASSUME TypeInv, OutdatedInv, TickIndicesChange
  PROVE  InReach' /\ DutiesKnown' /\ AnswerKnown'
<1> USE Here
<1> DEFINE both == {Epoch(tick), Epoch(tick) + 1}
           want == Pending(Cleaned, both)
<1>1. /\ UNCHANGED <<now, kind, roots, headVars, reorgs, vals>>
      /\ CurrentEpoch' = CurrentEpoch /\ Reach' = Reach /\ \A e : Ending(e)' <=> Ending(e)
      /\ stale' = Marked(ErasedStale, both) /\ store' = ErasedStore /\ pc # "fetch"
      /\ missed' = missed \cup {e \in Epochs : e > Epoch(tick) + 1 /\ store[e] # None}
      /\ PrepareAtOnce(want, tick, TRUE)
  BY DEF TickIndicesChange, chainVars, CurrentEpoch, Reach, Ending
<1>2. want \in Wants /\ Cleaned \in Wants
  BY CleanedType, PendingType
<1>3. \A e \in Epochs : e \in both \/ Cleaned[e] = "pending" => want[e] = "pending"
  BY <1>2, PendingAfter
<1> HIDE DEF want
<1>4. intents' = IF IsLastSlotOfEpoch(tick) THEN Prune(want, Epoch(tick)) ELSE want
  BY <1>1, PreparesAtOnce
<1>5. tick \in StartSlot .. now /\ tick <= now
  BY DEF TypeInv, Clocks
<1>6. AnswerKnown' /\ (IF pc = "fetch" THEN fetch.epoch <= CurrentEpoch + 1 ELSE fetch = None)'
  <2>1. told' \in 0 .. vals
    BY DEF TickIndicesChange
  <2>2. QED BY <1>1, <1>5, <2>1, AskedAtOnce DEF OutdatedInv
<1>7. InReach'
  <2>1. reorgs \in Seq([current : BOOLEAN, previous : BOOLEAN, epoch : Epochs])
    BY DEF TypeInv, TypeOK
  <2>2. QED BY <1>1, <1>6, <2>1, Erasing, ReachFrame DEF OutdatedInv
<1>8. /\ Epoch(tick) \in Nat /\ Epoch(tick) <= CurrentEpoch /\ CurrentEpoch \in Nat
      /\ Epoch(tick) = CurrentEpoch /\ IsLastSlotOfEpoch(tick) => IsLastSlotOfEpoch(now)
  <2>1. Epoch(tick) \in Nat /\ Epoch(tick) <= CurrentEpoch /\ CurrentEpoch \in Nat
    BY <1>5, EpochGrows, EpochType DEF CurrentEpoch
  <2>2. ASSUME IsLastSlotOfEpoch(tick), tick # now PROVE Epoch(tick) # CurrentEpoch
    <3>1. tick + 1 \in Nat /\ tick + 1 <= now
      BY <1>5, <2>2
    <3>2. Epoch(tick + 1) <= CurrentEpoch /\ Epoch(tick + 1) = Epoch(tick) + 1
      BY <2>2, <3>1, EpochGrows, EpochOfNextSlot DEF CurrentEpoch
    <3> HIDE DEF CurrentEpoch, Epoch
    <3>3. QED BY <2>1, <3>2
  <2>3. QED BY <2>1, <2>2
<1>9. \A e \in Reach : e \in Epochs /\ e \in Nat /\ e >= CurrentEpoch
  <2> HIDE DEF CurrentEpoch
  <2>1. QED BY <1>8 DEF Reach
<1> HIDE DEF CurrentEpoch, Epoch
<1>10. ASSUME NEW e \in Reach, e \in both PROVE Due(e)' \/ Ending(e)
  <2>1. want[e] = "pending"
    BY <1>3, <1>9, <1>10
  <2>2. intents'[e] = "pending" \/ Ending(e)
    <3>1. CASE e = Epoch(tick) /\ IsLastSlotOfEpoch(tick)
      BY <1>8, <1>9, <3>1 DEF Ending
    <3>2. CASE ~(e = Epoch(tick) /\ IsLastSlotOfEpoch(tick))
      BY <1>2, <1>4, <1>9, <2>1, <3>2, PendingAfter
    <3>3. QED BY <3>1, <3>2
  <2>3. kind = "proposer" => e \in stale'
    BY <1>1, <1>10 DEF Marked
  <2>4. QED BY <1>1, <2>2, <2>3 DEF Due
<1>11. ASSUME NEW e \in Reach, e \notin both, Due(e) PROVE Due(e)'
  <2>1. want[e] = "pending"
    BY <1>3, <1>9, <1>11, CleanedPending DEF Due
  <2>2. intents'[e] = "pending"
    BY <1>2, <1>4, <1>9, <1>11, <2>1, PendingAfter
  <2>3. kind = "proposer" => e \in stale'
    BY <1>1, <1>11, Erasing DEF Due, Marked
  <2>4. QED BY <1>1, <2>2, <2>3 DEF Due
<1>12. ASSUME NEW e \in Reach, e \notin both, store[e] # None PROVE e \in missed'
  BY <1>1, <1>8, <1>9, <1>12
<1>13. ASSUME NEW e \in Reach, store'[e] # None
       PROVE  \/ Due(e)' \/ Ending(e)'
              \/ /\ RootKnown(e, store[e].root)'
                 /\ store'[e].vals >= told' \/ e \in missed'
  <2>1. CASE e \in both
    BY <1>1, <1>10, <2>1
  <2>2. CASE e \notin both
    <3>1. store[e] # None
      BY <1>1, <1>9, <1>13, Erasing
    <3>2. e \in missed'
      BY <1>12, <2>2, <3>1
    <3>3. RootKnown(e, store[e].root)'
      BY <3>2 DEF RootKnown
    <3>4. QED BY <3>2, <3>3
  <2>3. QED BY <2>1, <2>2
<1>14. DutiesKnown'
  BY <1>1, <1>13 DEF DutiesKnown
<1>15. QED BY <1>6, <1>7, <1>14

LEMMA KnownIdleChange ==
  ASSUME TypeInv, OutdatedInv, IdleIndicesChange
  PROVE  InReach' /\ DutiesKnown' /\ AnswerKnown'
<1> USE Here
<1>1. /\ UNCHANGED <<now, kind, roots, headVars, reorgs, vals, store, pc, fetch, missed>>
      /\ CurrentEpoch' = CurrentEpoch /\ Reach' = Reach /\ pc # "fetch"
      /\ stale' = Marked(stale, Reach) /\ intents' = Pending(intents, Reach)
  BY DEF IdleIndicesChange, chainVars, loopVars, CurrentEpoch, Reach
<1>2. \A e \in Reach : intents'[e] = "pending" /\ (kind = "proposer" => e \in stale')
  BY <1>1, PendingAfter DEF Marked, Reach
<1>3. DutiesKnown'
  BY <1>1, <1>2 DEF DutiesKnown, Due
<1>4. QED BY <1>1, <1>3 DEF OutdatedInv, InReach, AnswerKnown

\* A reorg event is taken up: what it tells of is pending, over, or missed.
LEMMA KnownReorg ==
  ASSUME TypeInv, OutdatedInv, HandleReorg
  PROVE  InReach' /\ DutiesKnown' /\ AnswerKnown'
<1> USE Here
<1> DEFINE reorg == Head(reorgs)
           refetch == RefetchesCurrent(reorg)
           epochs == {CurrentEpoch + 1} \cup (IF refetch THEN {CurrentEpoch} ELSE {})
           want == Pending(intents, epochs)
<1>1. /\ UNCHANGED <<now, kind, roots, headVars, vals, told, store>> /\ told' \in 0 .. vals
      /\ CurrentEpoch' = CurrentEpoch /\ Reach' = Reach /\ \A e : Ending(e)' <=> Ending(e)
      /\ pc # "fetch" /\ reorgs # <<>> /\ reorgs' = Tail(reorgs)
      /\ stale' = Marked(stale, IF IsLastSlotOfEpoch(now) THEN {CurrentEpoch + 1} ELSE epochs)
      /\ missed' = IF reorg.epoch < CurrentEpoch /\ ~refetch THEN missed \cup {CurrentEpoch} ELSE missed
      /\ PrepareAtOnce(want, now, kind = "attester" \/ refetch)
  BY DEF HandleReorg, chainVars, CurrentEpoch, Reach, Ending, TypeInv, TypeOK
<1>2. want \in Wants /\ \A e \in Epochs : e \in epochs \/ intents[e] = "pending" => want[e] = "pending"
  BY PendingType, PendingAfter
<1> HIDE DEF want
<1>3. intents' = IF IsLastSlotOfEpoch(now) THEN Prune(want, CurrentEpoch) ELSE want
  <2>1. PrepareAtOnce(want, now, kind = "attester" \/ refetch)
    BY <1>1
  <2>2. PICK currentToo : PrepareAtOnce(want, now, currentToo)
    BY <2>1
  <2>3. intents' = IF IsLastSlotOfEpoch(now) THEN Prune(want, Epoch(now)) ELSE want
    BY <2>2, PreparesAtOnce
  <2>4. QED BY <2>3 DEF CurrentEpoch
<1>4. AnswerKnown' /\ (IF pc = "fetch" THEN fetch.epoch <= CurrentEpoch + 1 ELSE fetch = None)'
  <2>1. now \in StartSlot .. now
    OBVIOUS
  <2>2. QED BY <1>1, <2>1, AskedAtOnce DEF OutdatedInv
<1>5. reorgs \in Seq([current : BOOLEAN, previous : BOOLEAN, epoch : Epochs])
  BY DEF TypeInv, TypeOK
<1>6. InReach'
  BY <1>1, <1>4, <1>5, ReachFrame DEF OutdatedInv
<1>7. /\ CurrentEpoch \in Nat /\ CurrentEpoch \in Epochs /\ CurrentEpoch + 1 \in Epochs
  BY EpochsHere
<1> HIDE DEF CurrentEpoch
<1>8. ASSUME NEW e \in Reach, e \in epochs \/ Due(e) PROVE Due(e)' \/ Ending(e)
  <2>1. want[e] = "pending" /\ e \in Epochs
    BY <1>2, <1>7, <1>8 DEF Due, Reach
  <2>2. ~Ending(e) => intents'[e] = "pending"
    BY <1>2, <1>3, <2>1, PendingAfter DEF Ending
  <2>3. ~Ending(e) /\ kind = "proposer" => e \in stale'
    BY <1>1, <1>8 DEF Ending, Due, Marked
  <2>4. QED BY <1>1, <2>2, <2>3 DEF Due
<1>9. /\ 1 \in DOMAIN reorgs /\ reorg = reorgs[1]
      /\ \A i \in DOMAIN reorgs : i # 1 => i - 1 \in DOMAIN reorgs' /\ reorgs'[i - 1] = reorgs[i]
  <2> DEFINE Reorgs == [current : BOOLEAN, previous : BOOLEAN, epoch : Epochs]
  <2>1. reorgs \in Seq(Reorgs) /\ reorgs # <<>> /\ reorgs' = Tail(reorgs)
    BY <1>1, <1>5
  <2> HIDE DEF Reorgs
  <2>2. QED BY <2>1
<1>10. /\ reorg.current \in BOOLEAN /\ reorg.previous \in BOOLEAN /\ reorg.epoch \in Nat
       /\ reorg.epoch <= CurrentEpoch
  BY <1>9, ReorgsTyped, EpochsHere DEF OutdatedInv, InReach
<1>11. ASSUME NEW e \in Reach, Told(e), ~Told(e)' PROVE e \in epochs \/ e \in missed'
  <2>1. PICK i \in DOMAIN reorgs : \/ reorgs[i].epoch + 1 = e
                                   \/ reorgs[i].epoch = e /\ reorgs[i].current /\ reorgs[i].previous
    BY <1>11 DEF Told
  <2>2. i = 1
    BY <1>9, <1>11, <2>1 DEF Told
  <2>3. reorg.epoch + 1 = e \/ (reorg.epoch = e /\ reorg.current /\ reorg.previous)
    BY <1>9, <2>1, <2>2
  <2> HIDE DEF reorg
  <2>4. CASE e = CurrentEpoch + 1
    BY <2>4
  <2>5. CASE e = CurrentEpoch /\ reorg.epoch = e
    BY <1>7, <1>10, <2>3, <2>5 DEF RefetchesCurrent
  <2>6. CASE e = CurrentEpoch /\ reorg.epoch + 1 = e
    BY <1>1, <1>7, <1>10, <2>6
  <2>7. QED BY <2>3, <2>4, <2>5, <2>6 DEF Reach
<1>12. missed \subseteq missed'
  BY <1>1
<1>13. ASSUME NEW e \in Reach, NEW r, RootKnown(e, r), e \notin epochs PROVE RootKnown(e, r)'
  BY <1>1, <1>11, <1>12, <1>13 DEF RootKnown, Belief, headVars
<1> HIDE DEF epochs
<1>14. DutiesKnown'
  BY <1>1, <1>8, <1>12, <1>13 DEF OutdatedInv, DutiesKnown
<1>15. QED BY <1>4, <1>6, <1>14

LEMMA OutdatedKept ==
  ASSUME TypeInv, OutdatedInv, [Next]_vars
  PROVE  OutdatedInv'
<1>1. TypeInv'
  BY TypeKept
<1>2. HeadInv'
  <2>1. CASE NextSlot
    BY <1>1, <2>1, HeadNextSlot DEF OutdatedInv
  <2>2. ASSUME NEW base \in {roots} \cup forks, NEW d \in Epochs, NewHead(base, d) PROVE HeadInv'
    BY <2>2, HeadNewHead DEF OutdatedInv
  <2>3. CASE HandleHeadEvent
    BY <2>3, HeadHandled DEF OutdatedInv
  <2>4. CASE \/ ChangeValidators \/ ChangeOthersValidators \/ ReportTimesOut
             \/ HandleInitialDuties \/ Tick \/ TickNextEpoch \/ TickEnds
             \/ TickIndicesChange \/ IdleIndicesChange \/ HandleReorg
             \/ BeaconAnswers \/ Fetched \/ FetchFailed \/ UNCHANGED vars
    <3>1. UNCHANGED <<now, chainVars, event, headVars>>
      BY <2>4
      DEF ChangeValidators, ChangeOthersValidators, ReportTimesOut, HandleInitialDuties, Tick,
          TickNextEpoch, TickEnds, TickIndicesChange, IdleIndicesChange, HandleReorg, BeaconAnswers, Fetched, FetchFailed, vars
    <3>2. QED BY <3>1, HeadFrame DEF OutdatedInv
  <2>5. QED BY <2>1, <2>2, <2>3, <2>4 DEF Next
<1>3. InReach' /\ DutiesKnown' /\ AnswerKnown'
  BY <1>1, KnownNextSlot, KnownChangeValidators, KnownNewHead, KnownHeadEvent, KnownTicks,
     KnownTickChange, KnownIdleChange, KnownReorg, KnownAnswers, KnownFetched DEF Next
<1>4. QED BY <1>2, <1>3 DEF OutdatedInv

\* Whatever reorgs, returns to a chain that was left, late head events, lost
\* reports, slow answers and late ticks there are: once the head is seen and its
\* reorgs are dealt with, duties that are not those of the canonical chain, or
\* are older than the last change of validators that reached the handler, are
\* wanted again, and a proposer's are marked stale (HandleHeadEvent,
\* HandleDuties, Duties.Set).  The epochs excepted are those in `missed'.
THEOREM OutdatedDutiesAreKnown == Spec => []OutdatedIsKnown
<1>1. Init /\ TypeInv => OutdatedInv
  <2> SUFFICES ASSUME Init, TypeInv PROVE OutdatedInv
    OBVIOUS
  <2>1. InReach
    BY DEF Init, InReach
  <2>2. DutiesKnown /\ AnswerKnown
    BY Here DEF Init, DutiesKnown, AnswerKnown, Reach
  <2>3. QED BY <2>1, <2>2, HeadInitially DEF OutdatedInv
<1>2. TypeInv /\ OutdatedInv /\ [Next]_vars => TypeInv' /\ OutdatedInv'
  BY TypeKept, OutdatedKept
<1>3. TypeInv /\ OutdatedInv => OutdatedIsKnown
  <2> SUFFICES ASSUME TypeInv, OutdatedInv, Settled, NEW e \in Reach, store[e] # None,
                      e \notin missed, ~Ending(e), ~UpToDate(e)
               PROVE  Due(e)
    BY DEF OutdatedIsKnown, Reach, Ending, Due
  <2>1. lastEpoch = CurrentEpoch /\ lastEpoch # 0
    BY EpochsHere DEF Settled
  <2>2. \A r : RootKnown(e, r) => r = roots[e - 2]
    <3>1. ~Told(e)
      BY DEF Settled, Told
    <3>2. Belief(e) = roots[e - 2]
      <4>1. lastBlockRoot = roots[lastEpoch] /\ lastEpoch \in Nat
        BY <2>1, EpochsHere DEF Settled
      <4>2. currentRoot = roots[lastEpoch - 1] /\ previousRoot = roots[lastEpoch - 2]
        BY <2>1, <4>1 DEF OutdatedInv, HeadInv, HeadSeen, Chains
      <4>3. e = lastEpoch \/ e = lastEpoch + 1
        BY <2>1 DEF Reach
      <4>4. (lastEpoch + 1) - 2 = lastEpoch - 1 /\ lastEpoch # lastEpoch + 1
        BY <4>1
      <4>5. QED BY <4>2, <4>3, <4>4 DEF Belief
    <3>3. QED BY <3>1, <3>2 DEF RootKnown
  <2>3. QED BY <2>2 DEF OutdatedInv, DutiesKnown, UpToDate
<1>4. QED BY <1>1, <1>2, <1>3, TypeInitially, PTL DEF Spec
=============================================================================
