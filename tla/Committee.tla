----------------------------- MODULE Committee ------------------------------
(***************************************************************************)
(* A committee of validators (protocol/v2/ssv/validator/committee.go,      *)
(* committee_queue.go, timer.go) and the guard all committees share        *)
(* (committee_guard.go): the maps of runners and queues by slot, the       *)
(* goroutine of every duty that starts its runner and then consumes its    *)
(* queue (operator/validator/controller.go, ExecuteCommitteeDuty), and the *)
(* validators that come and go meanwhile (onShareInit, onShareStop).       *)
(*                                                                         *)
(* What the runners do with messages is CommitteeRunners; here a duty      *)
(* passes the guard and signs.                                             *)
(***************************************************************************)
EXTENDS BeaconClock, FiniteSets

CONSTANTS
  Validators,
  Kinds,             \* beacon roles the guard knows
  Slots,             \* slots with duties and messages
  DutySets,          \* sets of duties (a kind and a validator) of a slot
  LateSlotAllowance, \* slots a message may be late beyond an epoch
  Lag,               \* bound: slots a consumer may take to end once its
                     \* context is done
  MaxDuties,         \* bound: duties that are started
  MaxChanges,        \* bound: shares added and removed
  MaxOrphans         \* bound: queues without a runner at a time

Roles == {"committee", "aggregator"}
Duty == Kinds \X Validators
NoSlot == 0

ASSUME CommitteeAssumption ==
  /\ MaxSlot >= 1 /\ Slots \subseteq 1 .. MaxSlot
  /\ DutySets \subseteq SUBSET Duty /\ {} \notin DutySets
  /\ {LateSlotAllowance, Lag, MaxDuties, MaxChanges, MaxOrphans} \subseteq Nat

VARIABLES
  shares,     \* Shares; without any the committee itself is gone
  runners,    \* keys of Runners and AggregatorRunners
  queues,     \* keys of Queues and AggregatorQueues
  guard,      \* CommitteeDutyGuard.duties
  phase,      \* of the runner of a role and slot
  runnable,   \* duties of the runner
  todo,       \* duties StartNewDuty has still to enter in the guard
  consumer,   \* what became of the queue the goroutine of the duty holds
  passed,     \* <<slot, duty>>: let through by the guard, not yet signed
  signed,     \* <<slot, duty>>
  changes,    \* number of shares added and removed
  lastStart,  \* history: highest slot of a duty that was started
  orphans,    \* history: queues a message created without a runner
  cancelled   \* history: duties of a runner whose validator was stopped

mapVars == <<shares, runners, queues>>
dutyVars == <<phase, runnable, todo, consumer, passed, signed>>
historyVars == <<changes, lastStart, orphans, cancelled>>
vars == <<now, mapVars, guard, dutyVars, historyVars>>

Key == Roles \X Slots

TypeOK ==
  /\ now \in 0 .. MaxSlot
  /\ shares \subseteq Validators
  /\ {runners, queues, orphans} \subseteq SUBSET Key
  /\ guard \in [Duty -> 0 .. MaxSlot]
  /\ phase \in [Key -> {"none", "starting", "running", "over"}]
  /\ runnable \in [Key -> SUBSET Duty] /\ todo \in [Key -> SUBSET Duty]
  /\ consumer \in [Key -> {"none", "attached", "pruned", "dropped"}]
  /\ {passed, signed, cancelled} \subseteq SUBSET (Slots \X Duty)
  /\ lastStart \in 0 .. MaxSlot /\ changes \in 0 .. MaxChanges

Init ==
  /\ now = 1
  /\ shares \in SUBSET Validators /\ runners = {} /\ queues = {}
  /\ guard = [d \in Duty |-> NoSlot]
  /\ phase = [k \in Key |-> "none"]
  /\ runnable = [k \in Key |-> {}] /\ todo = [k \in Key |-> {}]
  /\ consumer = [k \in Key |-> "none"]
  /\ passed = {} /\ signed = {}
  /\ changes = 0 /\ lastStart = 0 /\ orphans = {} /\ cancelled = {}

-----------------------------------------------------------------------------
(* Shares.                                                                 *)

\* onShareInit: the first share creates the committee.
AddShare(v) ==
  /\ v \notin shares /\ changes < MaxChanges
  /\ changes' = changes + 1
  /\ shares' = shares \cup {v}
  /\ UNCHANGED <<now, runners, queues, guard, dutyVars>>
  /\ UNCHANGED <<lastStart, orphans, cancelled>>

\* Duties of a validator that are under way, past the guard's StartDuty.
UnderWay(v) ==
  {sd \in Slots \X Duty :
     LET k == <<"committee", sd[1]>>
         d == sd[2]
     IN  /\ d[2] = v
         /\ phase[k] \in {"starting", "running"}
         /\ d \in runnable[k] \ todo[k]
         /\ sd \notin passed \cup signed}

StopValidator(v) == guard' = [d \in Duty |-> IF d[2] = v THEN NoSlot ELSE guard[d]]

\* onShareStop: with its last share the committee is dropped, maps and all;
\* the goroutines of its duties go on.
RemoveShare(v) ==
  /\ v \in shares /\ changes < MaxChanges
  /\ changes' = changes + 1
  /\ StopValidator(v)
  /\ shares' = shares \ {v}
  /\ cancelled' = cancelled \cup UnderWay(v)
  /\ IF shares' = {}
     THEN /\ runners' = {} /\ queues' = {} /\ orphans' = {}
          /\ consumer' = [k \in Key |-> IF consumer[k] = "attached" THEN "dropped" ELSE consumer[k]]
     ELSE UNCHANGED <<runners, queues, orphans, consumer>>
  /\ UNCHANGED <<now, phase, runnable, todo, passed, signed, lastStart>>

-----------------------------------------------------------------------------
(* Starting a duty.                                                        *)

\* Mutant: an epoch is enough.
ExpiresWithDeadline == SlotsPerEpoch

RunnerExpirySlots == SlotsPerEpoch + LateSlotAllowance

\* Mutant: the queue of a pruned runner stays.
KeepsQueues(expired) == queues

WithoutQueues(expired) == queues \ expired

\* unsafePruneExpiredRunners, for runners other than the new one.
Expired(slot) ==
  {k \in runners : slot > RunnerExpirySlots /\ k[2] < slot - RunnerExpirySlots}

\* prepareDutyAndRunner, under the lock of the committee: duties of validators
\* without a share are left out.  The scheduler starts a duty once, in its
\* slot or, when the goroutine was held up, in the next.
PrepareDutyAndRunner(k, duties) ==
  LET mine    == {d \in duties : d[2] \in shares}
      expired == Expired(k[2])
  IN  /\ Cardinality({j \in Key : phase[j] # "none"}) < MaxDuties
      /\ phase[k] = "none" /\ k \notin runners
      /\ now \in {k[2], k[2] + 1}
      /\ mine # {}
      /\ phase' = [phase EXCEPT ![k] = "starting"]
      /\ runnable' = [runnable EXCEPT ![k] = mine]
      /\ todo' = [todo EXCEPT ![k] = IF k[1] = "committee" THEN mine ELSE {}]
      /\ runners' = (runners \ expired) \cup {k}
      /\ queues' = WithoutQueues(expired) \cup {k}
      /\ orphans' = orphans \ {k}
      /\ consumer' = [j \in Key |-> CASE j = k -> "attached"
                                      [] j \in expired /\ consumer[j] = "attached" -> "pruned"
                                      [] OTHER -> consumer[j]]
      /\ lastStart' = IF k[2] > lastStart THEN k[2] ELSE lastStart
      /\ UNCHANGED <<now, shares, guard, passed, signed, changes, cancelled>>

Fails(k) ==
  /\ phase' = [phase EXCEPT ![k] = "over"]
  /\ todo' = [todo EXCEPT ![k] = {}]
  /\ consumer' = [consumer EXCEPT ![k] = "none"]

\* CommitteeDutyGuard.StartDuty, called by StartNewDuty for one duty after the
\* other without the lock of the committee.  A newer duty that runs already
\* fails the start, and leaves the entries made so far.
GuardStartDuty(s, d) ==
  LET k == <<"committee", s>>
  IN  /\ d \in todo[k]
      /\ IF guard[d] # NoSlot /\ guard[d] >= s
         THEN Fails(k) /\ UNCHANGED guard
         ELSE /\ guard' = [guard EXCEPT ![d] = s]
              /\ todo' = [todo EXCEPT ![k] = @ \ {d}]
              /\ UNCHANGED <<phase, consumer>>
      /\ UNCHANGED <<now, mapVars, runnable, passed, signed, historyVars>>

\* The rest of StartNewDuty: the runner's executeDuty may fail, and the runner
\* is left in the map without a consumer.
StartNewDuty(k) ==
  /\ phase[k] = "starting" /\ todo[k] = {}
  /\ \/ phase' = [phase EXCEPT ![k] = "running"] /\ UNCHANGED <<todo, consumer>>
     \/ Fails(k)
  /\ UNCHANGED <<now, mapVars, guard, runnable, passed, signed, historyVars>>

-----------------------------------------------------------------------------
(* While the duty runs.                                                    *)

\* Messages of a slot are admitted from just before it to the end of the
\* allowance and a margin into the slot after.
Admitted(s) == now + 1 >= s /\ now <= s + RunnerExpirySlots + 1

\* EnqueueMessage: the queue is created if it is not there.
EnqueueMessage(k) ==
  /\ shares # {} /\ Admitted(k[2]) /\ k \notin queues
  /\ Cardinality(orphans) < MaxOrphans
  /\ queues' = queues \cup {k}
  /\ orphans' = orphans \cup {k}
  /\ UNCHANGED <<now, shares, runners, guard, dutyVars, changes, lastStart, cancelled>>

\* Mutant: any duty of a validator that is running is valid.
AnyRunningDuty(s, d) == guard[d] # NoSlot

ValidDuty(s, d) == guard[d] # NoSlot /\ guard[d] = s

\* A worker of ProcessConsensus asks the guard ...
PassGuard(s, d) ==
  /\ phase[<<"committee", s>>] = "running"
  /\ d \in runnable[<<"committee", s>>]
  /\ <<s, d>> \notin passed \cup signed
  /\ ValidDuty(s, d)
  /\ passed' = passed \cup {<<s, d>>}
  /\ UNCHANGED <<now, mapVars, guard, phase, runnable, todo, consumer, signed, historyVars>>

\* ... and signs.
Sign(s, d) ==
  /\ <<s, d>> \in passed
  /\ passed' = passed \ {<<s, d>>}
  /\ signed' = signed \cup {<<s, d>>}
  /\ UNCHANGED <<now, mapVars, guard, phase, runnable, todo, consumer, historyVars>>

\* The context of a duty is done an epoch and a slot after its own.
DutyDeadline(s) == s + SlotsPerEpoch + 1

\* ConsumeQueue returns.
ConsumerEnds(k) ==
  /\ phase[k] = "running" /\ now >= DutyDeadline(k[2])
  /\ \A d \in Duty : <<k[2], d>> \notin passed
  /\ Fails(k)
  /\ UNCHANGED <<now, mapVars, guard, runnable, passed, signed, historyVars>>

\* Time passes no further than consumers take to end.
Tick ==
  /\ Advance
  /\ \A k \in Key : phase[k] \in {"starting", "running"} => now' <= DutyDeadline(k[2]) + Lag
  /\ UNCHANGED <<mapVars, guard, dutyVars, historyVars>>

Next ==
  \/ \E v \in Validators : AddShare(v) \/ RemoveShare(v)
  \/ \E k \in Key, duties \in DutySets : PrepareDutyAndRunner(k, duties)
  \/ \E s \in Slots, d \in Duty : GuardStartDuty(s, d) \/ PassGuard(s, d) \/ Sign(s, d)
  \/ \E k \in Key : StartNewDuty(k) \/ EnqueueMessage(k) \/ ConsumerEnds(k)
  \/ Tick

Spec == Init /\ [][Next]_vars

-----------------------------------------------------------------------------
(* Properties.                                                             *)

\* A duty under way when its validator was stopped does not get past the
\* guard any more, even if the validator is started again and has a newer
\* duty (committee_guard.go).
CancelledStayCancelled == cancelled \cap (passed \cup signed) = {}

\* Runners and queues are pruned by slot whenever some duty starts, by a count
\* of slots of its own: no consumer that still runs loses its queue that way,
\* nor its runner, which messages are handled by.
NoConsumerIsPruned == \A k \in Key : consumer[k] # "pruned"

\* What is left of slots that expired are queues that a message created when
\* the slot had no runner; pruning goes by the runners and never finds them.
OnlyOrphansOutlive ==
  \A k \in runners \cup queues : k[2] + RunnerExpirySlots < lastStart => k \in orphans

=============================================================================
