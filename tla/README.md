# Formal models of the SSV node

TLA+ modules for the parts of an SSV node that decide, sign, remember and
recover, TLC configurations that check them on small instances, and TLAPS proofs
for instances of every size. Paths are relative to the repository (`src/`).
`PROJECT.json` lists, definition by definition, the lines modelled.

## 1. The system

An Ethereum validator's key is split among the operators of a committee
(3f+1 of them). For every duty (attest, propose, aggregate, ...) each operator's
node runs a *duty runner*: it collects partial signatures (pre-consensus),
agrees with the other operators on what to sign (QBFT consensus), collects
partial signatures of the decided value (post-consensus), reconstructs the
validator's signature and submits it to a beacon node. Which validators an
operator serves it learns from the events of a contract.

| Part (`protocol/v2` unless said otherwise) | State | Operations | What makes it correct |
|---|---|---|---|
| QBFT instance, `qbft/instance` | round, accepted proposal, lock (last prepared round and value), decision, four message containers, round timer | start; proposal, prepare, commit, round change; timeout; mark decided or irrelevant | one value per height; one vote per round; a lock is never forgotten; messages others accept; silence after the end |
| Leader rotation, `qbft/round_robin_proposer.go` | none | proposer of a height and round | everybody computes the same leader, and everybody leads |
| QBFT controller, `qbft/controller` | latest height, at most two recent instances | start a height, process a message, a certificate, a timeout | a height runs once; old instances are terminated; no decision is signalled twice or never |
| Round timer, `qbft/roundtimer` | round, armed timer, cancelled or not | arm, stop, fire | no event of a round that is not current does harm; clock estimate equals timeout |
| Duty runner, `ssv/runner` | current duty, containers of partial signatures, running instance, decided value, outcome | start duty, pre-consensus, consensus, post-consensus, timeout | each duty is finished or reported; nothing is submitted unsigned or twice |
| Queue consumer, `ssv/validator/queue_validator.go`, `ssv/queue` | inbox, priority list, floor slot, retry counts | push, pop by filter and priority, purge, retry | nothing usable is held back for good; nothing stale reaches the runner |
| Committee, `ssv/validator/committee*.go` | runner and queue per slot, duty guard, shares | start duty, route message, prune, add or remove a share | a stopped validator signs nothing; a running duty keeps its queue |
| Message validation, `message/validation` | rings of records and duty counts per signer, in a cache | validate a consensus or partial-signature message | honest messages pass; duplicates do not; the state is bounded |
| Doppelganger protection, `doppelganger` | remaining epochs and quorum flag per validator | tick, liveness answer, quorum report | no signature before the detection period, unless a quorum was seen |
| Key management, `ssvsigner` | keys in a wallet or remote signer; highest attestation and proposal per key | check, record and sign; add; remove; bump | no slashable pair is signed, across crashes and transactions |
| Duty scheduler, `operator/duties` | fetched duties and fetch intents per epoch, remembered roots | slot tick, head event, reorg, indices change | duties are those of the canonical chain, or known not to be |
| Proposer preferences, `operator/duties`, `ssv/runner` | root each epoch was emitted under, pending recheck; runner and stash of signatures per proposal slot | emit, emit again after reorg, validator change or fork; start duty, take or stash a signature, replay | signatures that are sent once suffice; the preference served is the present root's |
| Registry, `eth/eventsyncer`, `eth/eventhandler`, `registry/storage` | last processed block, shares in the database and in memory, nonces | process a block's events, restart, replay | every block once and as a whole, across restarts |
| Validator controller, `operator/validator` | running validators, metadata on its way, tasks | start-up, task, metadata update | what runs is what the registry says |
| Networking, beacon and execution clients, API, exporter | connections, caches | I/O | not modelled, see 8 |

How they interact: the scheduler puts duty starts, the network puts validated
messages and the round timer puts timeout events into the queue of a validator's
role or of a committee's slot. One goroutine pops from that queue, hands the
message to the runner and waits for it. The runner calls its controller, which
routes to the instance of the message's height; an instance broadcasts to the
committee and arms its timer. A decision comes back through the return value of
the controller's `ProcessMsg`, once per height. The runner then asks the duty
guard and doppelganger protection, signs through the key manager and submits.
The event handler adds and removes shares in the storage and in the key manager
and, once a block is committed, has the validator controller start and stop
validators, which come and go while their duties run.

What is hard here is order and loss: messages of several rounds and heights
mixed; certificates of heights the node has not started or has forgotten;
timeouts that wait in the queue while the round changes; operators that sign
anything; a question asked without a lock whose answer meets another state; a
transaction that some writers are part of and others are not; a crash anywhere.
The hazards, each at its line, are in `PROJECT.json`.

## 2. Modules

| Module | Models |
|---|---|
| `QBFT` | the instance at every correct operator of a committee, one height, with Byzantine operators and an unreliable network |
| `RoundRobinProposer` | the two leader rotations |
| `Controller`, `Instances` | the controller of one runner: heights, recent instances, certificates, timeouts; the slice `addNewInstance` works on |
| `Runner` | proposer's duty runner and queue consumer on top of `Controller` |
| `PartialSignatures` | the container of partial signatures and how a quorum of them is used |
| `DutyOutcome` | how a duty's outcome is concluded and reported |
| `CommitteeRunners` | a committee's and an aggregator committee's duty, on top of the two modules before |
| `ProposerPreferences` | proposer preferences of one proposal: the duty handler and the runner, on top of `PartialSignatures` and `BeaconClock` |
| `Committee` | runners, queues, consumers and the guard of a committee over slots |
| `RoundTimer`, `MessageValidation` | durations and the estimated round; the state and the rules of message validation, which use them |
| `BeaconClock` | slots and epochs, for the modules below and `Committee` |
| `Doppelganger` | doppelganger protection |
| `KeyManager` | share keys, slashing protection, local and remote |
| `ContractRegistry` | abstract: what processing the contract's events promises |
| `Registry` | event handling, share storage, metadata syncer and validator controller; implements `ContractRegistry` |
| `Scheduler` | head events, reorgs and a fetching duty handler |
| `QBFTProofs`, `RunnerProofs`, `MessageValidationProofs`, `DutyRunnersProofs`, `CommitteeProofs`, `SigningProofs`, `RegistryProofs`, `SchedulerProofs` | proofs, one module for each component or group that shares its lemmas |
| `MC...` | constants, symmetry and reduced schedules for TLC |

Each module is a component with its own actions; the others meet it as inputs.
Composed are `Runner` with `Controller`, `CommitteeRunners` with
`PartialSignatures` and `DutyOutcome`, the handler of proposer preferences with
their runner, `MessageValidation` with `RoundTimer`, and
in `Registry` five parts of the node that share the storage.

### QBFT

One function per field of `State` of an instance, indexed by the correct
operators, and the set of messages each kind that correct operators have
broadcast. One action per handler: `Start`, `UponProposal`, `UponPrepare`,
`UponCommit`, `UponRoundChange` (with its two branches `LeaderProposes` and
`UponChangeRoundPartialQuorum`), `UponRoundTimeout`, `UponDecided`,
`MarkIrrelevant` (a later height was started). Each action is the whole handler,
the broadcast included.

* **Network.** A message once sent may be received never, once or often, in any
  order. This covers loss, delay, duplication and reordering, and the
  re-delivery of what the code refuses with a retryable error.
* **Signing or broadcasting fails.** The code changes its state first and
  returns the error; the message is lost. That is a behaviour of the model in
  which nobody receives the message.
* **Byzantine operators** send what the four `Byz...` constants allow, and may
  attach any justification for which enough signatures exist: a signature of
  a correct operator exists only if it sent the message. The proofs leave these
  constants arbitrary.
* **Values.** Full data and its root are one value (`HashDataRoot` has no
  collisions). A message with a root that is not its data's, or with a wrong
  height, identifier or signature, is refused by every receiver and modelled as
  lost. A justification is the round for which it shows a quorum of prepares.
* **Bounds.** `CutOffRound` is the code's own bound on rounds. `TimeoutRounds`
  limits the rounds whose timer expires.

### Controller and Runner

`Controller` keeps `latest` (`LatestInstanceHeight`), `recent` (the entries of
`RecentInstances`, those made from a certificate marked as not its own) and the
instance of each height cut down to round, accepted proposal, decided,
irrelevant and timer. `started` and `decidedHeights` are history variables
used by properties only.

`Runner` adds a duty's life: `StartNewDuty`, `ProcessPreConsensus` (at the first
quorum; it calls `decide`), `ProcessCertificate`, `ProcessCommit`,
`ProcessProposalOrRoundChange`, `ProcessPostConsensus`, `RoundTimerFires` and
`OnTimeout`. It follows the proposer's runner. As one goroutine consumes the
queue, each handler is one step; which message comes next is open, limited by
what the consumer's filters and floor let through. The fetch of a value,
signing and submission may fail, as in the code. A quorum of partial signatures
is one step here; the reveal of an execution payload envelope after a finished
Gloas proposal is left out.

### PartialSignatures, DutyOutcome and CommitteeRunners

An entry of the container (a validator and a signing root) is the set of signers
of good and of bad signatures: signatures are stored unverified, only the
message that crosses a quorum reports it, and only a failing reconstruction
verifies them one by one and drops the bad ones. `CommitteeRunners` has one step
per message and follows `ProcessPreConsensus`, `ProcessConsensus` and
`ProcessPostConsensus` of both runners, with validators the guard has stopped
(`valid`) or doppelganger protection holds back, other operators that see other
validators (`PreViews`, `PostViews`), fetches that fail, domains that are
unavailable, and submissions that fail. Consensus is a step that yields one of
`Values`. `DutyOutcome` is the watcher goroutine with its two channels; its
deadline may come at any time. That the next duty of a runner replaces the channels
is not modelled.

### ProposerPreferences

A proposal's preferences are emitted before its slot, once for each dependent
root, so a preference stands for the root it is built under. `TakeReorg`,
`TakeIndicesChange` and `EmitForTick` are the cases of the handler's loop; a
tick that lost its fetch arms the recheck again, and the other epoch of the
lookahead may do so too. `StartPreferencesDuty` and `ProcessPacket` are the
runner: the stash (`pending`) is kept as the signers of each signing root, the
runner of the slot is replaced by every new duty, and the replay of the stash is
written in closed form: put in one after the other, the signatures of a root
complete if a quorum of them is good, and bad ones are gone once a quorum was
tried. (The closed form is exact while bad signatures are at most two, as with
one Byzantine operator of four.) A message is let through unless all of its
roots were recorded of its signer before. The validator keeps its proposal on
every branch of the chain; other slots have their own entries in the same maps. A
reorg always reaches the handler here; what becomes of late head events is the
subject of `Scheduler`.
`heard`, `rejected`, `refused` and `astray` are history.

### Committee

`runners` and `queues` are the key sets of the maps by slot, `consumer` what
became of the queue a duty's goroutine holds. A duty is prepared, entered in the
guard validator by validator (`todo`), then consumes, passes the guard and signs,
while `AddShare` and `RemoveShare` go on. `CommitteeRunner`'s check of the guard
and its signature are two steps. `Lag` is how long a consumer may take to end
after its context is done.

### MessageValidation

One message ID: one role, one entry of the cache, one message at a time. A
message is a kind, signers, slot, round and roots; the answers are accept,
ignore and reject. Rules about syntax, topic and signatures have no state; a
message with a bad signature is one that fails after the state was consulted and
before it is updated. `time` jumps through `Instants`, the seconds at which
windows open and close. The cache entry is made anew when it expired. The committee
of the message ID is fixed: that the code also makes the entry anew when the
committee's ID changed (`validation.go:396`), which forgets the counts of the old
committee, is not modelled. So is the duty limit: the code computes it at every
message from the validators' number and their sync committee duties
(`common_checks.go:130`), here it is a constant.

### Doppelganger, KeyManager, Registry, Scheduler

* `Doppelganger`: `Tick` is the body of the ticker's loop up to the question to
  the beacon node, `LivenessAnswered` and `LivenessFailed` the rest; reports,
  removals and slots come in between. A tick not taken in its slot is lost.
* `KeyManager`: `stored` and the records `att` and `prop` are the database, `wrShares`,
  `wrAtt` and `wrProp` what an open transaction wrote, `shares` the memory, `held` the
  keys of the wallet or remote signer. Signing is two steps, the check (`CheckAttestation`,
  `CheckBlock`) and the record, and for the remote signer a third: requests are sent
  after the locks are released and may be overtaken. The locks (`Locked`) keep
  `AddShare`, `RemoveShare` and, with the remote manager, bumps out in between, but not
  the commit. An operator's database is badger (`cli/operator/db.go:112`), which refuses
  a commit if something the transaction read was written meanwhile: `reads`, `written`,
  `CommitConflicts`. The metadata syncer saves shares outside of any transaction
  (`UpdateValidatorsMetadata`). A transaction that fails ends the process (`Restart`) or,
  while the history is synced, is tried again with the memory kept (`Retry`). A call to
  the remote signer may take effect and fail. `lowered`, `early`, `orphaned`, `removed`
  and `began` are history.
* `Registry`: the database, the transaction of a block (`wr...`), the memory
  (`mem`) and the process (`phase`, `tasks`, `running`, `sync`, `starting`).
  `Crash` keeps the database and the keys. `HandlerFails` discards the transaction and
  nothing else: while the history is synced the same process handles the block again,
  up to `MaxTries` times. An answer of the beacon node may lack a validator, whose
  metadata is then gone, and may fail to be saved after memory was changed
  (`SaveToDBFails`). The contract produces any legal block. What the exceptions of
  section 4 need is history: `left`, `torn`, `early`, `missed`, `overtaken`, `blanked`.
* `Scheduler`: `pc` is where the handler's goroutine is (idle, in a tick, waiting
  for the beacon node, ...), `intents` and `store` what it knows. Blocks are
  numbered; `roots` says which block an epoch's duties depend on. A new head extends
  the chain, replaces it from an epoch on, or is on a chain that the head had left
  (`forks`), so the roots may go from A to B and back to A. Head events that come late
  are dropped. `vals` numbers the sets of validators, additions only; one of this
  operator's validators is reported (`ChangeValidators`) and the report may time out
  (`ReportTimesOut`), one of the others', which the proposer's handler fetches for as
  well, is not (`ChangeOthersValidators`). `told` is the set when the handler last took
  a report.

## 3. Runs

| Run | Size | What it shows |
|---|---|---|
| `local` | one correct operator, the leader of round 2, against three arbitrary ones; 2 values, rounds 1-2, cutoff 3 | in whatever order messages come: `VotesOncePerRound`, `LockIsAnnounced`, `HonestMessagesJustified`, `DecidedIsFrozen`, `SilentOnceIrrelevant` |
| `byz` | three correct operators, the Byzantine one leads round 1; 3 values, one accepted by nobody and one not by operator 4; 2 rounds | `Agreement`, `DecidedValueWasChecked` |
| `live` | three correct operators, one silent; operator 3 may move on to the next height | `EventualDecision`, `DecisionSpreads` |
| `runner` | four slots, three duties, capacity 2, rounds 1-2 and cutoff 3 | `NeverRunsAgain`, `ForgetsOnlyTheOldest`, `OneInstanceWorks`, `SliceKeepsHighest`, `DecisionTakenUp`, `TimeoutsAreNotAhead` |
| `dutyrunners` | one runner among four operators, one with bad signatures. Committee and aggregator committee: two validators, one with two duties. Preferences: two roots, one builder, a reorg, a change of the validators, the fork | `QuorumIsUsed`, `SubmissionsAreSigned`, `SubmittedOnce`, `OutcomeIsTrue`; `SentOnceIsEnough`, `LatestPreferenceIsServed` |
| `committee` | two validators, two roles, slots within and beyond the expiry, two duties | `CancelledStayCancelled`, `NoConsumerIsPruned`, `OnlyOrphansOutlive` |
| `validation` | four roles, two peers, messages of neighbouring and of congruent slots and epochs | `AcceptedOnce`, `DutyLimitHolds`, `NoUnfairPunishment`, `TimersInStepAreAdmitted` |
| `doppelganger` | two validators, six epochs of three slots, one restart | `SafeOnlyAfterQuietEpochs` |
| `keymanager` | a good and a malformed share, slots 0-4 in epochs of two, three transactions, one restart or block handled again, local and remote | `NoSlashableSignatures`, `LoweredOnlyWhenReadded`, `RecordsFollowShares`, `OnlyMalformedSkipped` |
| `registry` | two validators, two blocks of up to two events, one crash, three tries of the history sync, one answer that lacks a validator or is not saved | `BlocksAreAtomic` (refinement), `SharesCanSign`, `RunningMatchesRegistry` |
| `scheduler` | epochs of four slots, from the middle of one into the one after the next, the head at the start and two more, on any chain, a change of the validators, either handler | `OutdatedIsKnown`, `EveryEpochIsWanted` |
| `replay` | `registry` with one validator | a comment the code does not keep, see 5 |

Deadlock is not checked: an instance that is decided or given up, a runner
without further duties, and a clock at its bound really stop.

**Why the bounds are enough.** Two working rounds are what a lock needs: taken
in one, announced and tested in the next. With four operators f = 1, quorums of
three and partial quorums of two differ. In `local` the neighbours are
arbitrary, so every message pattern a correct operator can meet within the
listed messages occurs. In `runner` four slots are twice the capacity, so that
an instance is evicted, started or not, decided or not; three duties let the
runner skip a slot and move on without finishing one. In `dutyrunners` a
Byzantine operator sends twice, so that a bad signature is stored, replaced and
makes a quorum fail; two validators share roots or do not. For preferences the handler is followed
from the epoch before the fork to the proposal with every event and no messages,
and the runner from the fork on with messages of three correct operators, for
both roots and a reorg, or for a root and an auth and a change of the
validators; so a duty starts before, between and after them and is replaced.
Without messages it does not matter to the handler how a duty ends, so signing
succeeds there. In `committee` slot 5
is beyond the expiry of slots 1 and 2. In `validation` the instants are the
boundary seconds of a slot's window, of the ring's span and of the entry's
expiry; the boundary between quick and slow rounds is left to the theorems about the
estimate. Three slots per epoch and six epochs in `doppelganger` leave room for a
detection, a skipped epoch and a second detection. Three epochs and a restart in
`keymanager` allow a surrounding vote. One crash suffices in `registry`: a replay
starts from the database alone, and a second crash from a state the first
could have left; all three tries of `SyncHistory` may be used, also after the crash,
and one lost answer blanks a validator or leaves memory ahead of the database.
`scheduler` crosses two epoch boundaries with the handler late; its three heads are
what a chain needs to leave a root and be back at it, and the slots suffice for more
than an epoch without an event.
The proofs (section 6) remove the bounds for all of the safety properties.

**Reduction in `MCQBFTBatch`.** Delivering a message that reaches no threshold
changes only the receiver's container, which no other operator sees and which
the receiver reads only when a threshold is reached. Such a delivery can be
moved next to the one that reaches the threshold, or left out. The module
explores only behaviours in which an operator receives the messages of one
threshold without interruption; handlers are those of `QBFT`. Votes of a batch
are interchangeable and come in ascending order of signers, round changes for
the leader in any order. `BatchView` identifies states that differ in what is
not read again: the private state of a decided operator and messages of rounds
left, the lock's apart. It is used for invariants only, not in `live`.

**Symmetry** of the correct other operators (`dutyrunners`) and of the
validators (`doppelganger`, `registry`): no module tells them apart, and the runs
check invariants and a refinement without fairness only.

**Fairness (`live`).** Messages between correct operators arrive and are
processed (gossip and the retrying queue), timers expire (`time.AfterFunc`), all
start. Weak fairness of each operator's handlers says so, under two
assumptions the protocol itself needs: timers of round 2 do not expire (the
network is synchronous by then) and the leader of round 2 is correct.
`EventualDecision` excepts behaviours in which somebody was superseded by a
later height, as the code then terminates the instance; `DecisionSpreads` does
not, since a certificate is processed even then.

## 4. What the properties except, and why

Some properties hold but for cases that the code really has. Each is a history
variable, set exactly where the case arises, so that everything else is checked.

* `NoSlashableSignatures`: keys in `lowered`. `BumpSlashingProtectionTxn` reads
  and writes in the block's transaction; a vote recorded directly in between would be
  overwritten by the commit with an older one. The database refuses such a commit, as
  the bump read the record, except when the block had removed the share before it
  added it again: then the bump reads the transaction's own removal.
  `LoweredOnlyWhenReadded` bounds the case: besides, the transaction has to be open
  across a slot.
* `RecordsFollowShares`: shares in `early`, saved by the metadata syncer
  (`shares.go:497`) or by an event of their cluster while their creation is not
  committed, or was skipped because a discarded try had left them in memory; and
  records in `orphaned`, written by a signer whose check came before the commit of the
  share's removal (`remote_key_manager.go:466-470` against `event_handler.go:187`).
  Such a record goes, or is a share's again, with the next event of the key.
* `QuorumIsUsed`, `OutcomeIsTrue`: duties in `unbuilt`. When the attester domain
  is not available as the quorum forms, the object is not built, and the quorum
  does not form again; the duty is missed while the outcome is "succeeded".
* `OutcomeIsTrue`: selected duties in `unfetched`, whose aggregate or
  contribution could not be fetched; the outcome may then be "not_required".
* `SentOnceIsEnough`: signers in `refused`, whose message was turned away because
  the domain was unavailable and is replayed only if the duty is emitted again;
  and a preference whose submission failed.
* `LatestPreferenceIsServed`: a duty gone `astray`: the validator's queue was
  full, or the duty was built under another root than it was emitted under, or
  not at all.
* `RunningMatchesRegistry`: validators in `missed` (a metadata batch dropped after
  the send timeout, `syncer.go:243`; metadata that could not be saved and is in
  memory only, so that no later answer changes anything; metadata that came for a
  share registered anew while the old one's was refreshed; a start that failed and is
  not retried), in `overtaken` (a stop met a start that was already listed, or executed
  after the validator was registered anew), and, of those that run, in `blanked`: an
  answer of the beacon node that lacks a validator gives it empty metadata
  (`syncer.go:181-183`, `shares.go:472-479`), which stops nobody.
* `BlocksAreAtomic`, `SharesCanSign`: validators in `torn`. A block that is handled
  again, by the same process on the memory a discarded try left (`left`;
  `event_syncer.go:122-125`) or by the next one on what the metadata syncer wrote
  early (`early`), skips the creation of a share it finds and the removal of one it
  does not find. Where database, memory, key or records differ from what the
  contract promises after such a block, the validator is torn, and stays so until the
  end of a block at which they agree again. If a removal deleted the key and was then
  skipped, the next start-up refuses to go on (`ensureNoMissingKeys`; the guard of
  `InitialSyncDone`). See `replay` below.
* `CancelledStayCancelled` speaks of duties past the guard's `StartDuty` and not yet
  past `ValidDuty`. In two windows a stop is not seen: between the unlock at the end of
  `prepareDutyAndRunner` and `runner/committee.go:112`, where the validator is entered
  in the guard after it was stopped, and between `ValidDuty` and the signature. In both
  the stopped validator does sign.
* `AcceptedOnce`: `lapses`, the few seconds in which the ring of a committee role
  has come round while the late margin has not passed, and registrations.
* `NoUnfairPunishment`: a round change with a prepared value that arrives after
  the signer's own proposal of another value in the round.
* `OutdatedIsKnown`: epochs in `missed`, until they are fetched by the right root. A
  reorg of which only the current root changed that an attester's handler takes up in
  a later epoch than the one it was detected in; a reorg before the first head event
  that was processed; a chain that left the root last seen and is back at it, while
  the events in between were dropped as late and the handler fetched by the other
  root (`scheduler.go:389`, `419-422`); an event after more than an epoch without one,
  which compares the last block seen with a later epoch's; and a
  change of the validators taken up in a tick that is more than an epoch late: the
  handler asks for the tick's epoch and the next one again, and not for one that it
  fetched since (`attester.go:147`; reorgs that queue up delay a tick, each by up to
  two slots). Of the changes of validators only those count that reach the handler
  (`told`): `reportIndicesChange` gives up after two slots (`controller.go:1060-1065`),
  validators of other operators, which `proposer.go:407` fetches for, are not
  announced, and neither are removals.
* `OnlyOrphansOutlive`: queues a message created in a slot that has no runner;
  pruning follows the runners and never finds them.

## 5. What the code's comments say and the code does not

* `replay`: `handlers.go:267` says that a rolled back transaction is harmless
  because the node will crash, handle the block again and update the participation
  epoch. In the history sync it does not crash: an error is retryable
  (`event_syncer.go:125`) and `SyncHistory` handles the block again in the same
  process, whose memory has the share. And if it does crash, the metadata syncer may
  have written the share to the database outside the transaction (`shares.go:497`).
  Either way the share is found and not created, so it has no slashing protection
  records and cannot sign.

The following were found while modelling; they are behaviours of the models
though no run is kept for them.

* `round_change.go:64` says the leader never sees a quorum for a later
  round, since the partial quorum has advanced it. The partial quorum counts all
  later rounds and advances to the lowest; the leader can be one round short.
* `round_change.go:176` says the highest prepared round change is
  proposed. Every round change is validated against the proposed data, so a
  quorum with locks on two values yields no proposal, and the quorum is not
  looked at again. Agreement is not affected, the round is lost.
* `controller.go:139` says starting a height terminates all older
  instances. An instance evicted by certificates of two later heights is missed.
* `runner.go:591` says a value is taken up for the message that decides
  the running instance. After an eviction the message decides another instance
  of that height, and the running one stays undecided.
* `queue_validator.go:392` says commits held back cannot be processed
  before the proposal. A decided certificate of that round is held back too.
* `runner.go:366` gives "not selected as aggregator" as the case of the outcome
  not_required; it is also reported when a validator was selected and its data
  could not be fetched (`aggregator_committee.go:396`).
* `validation.go:430` says every slot a role accepts at once has its own place in
  the ring. For committee roles the late margin of 3 seconds outlasts the ring.
* `partial_validation.go` allows one post-consensus message per signer and slot;
  `Reset` on a message of a higher round forgets it (`signer_state.go:67`).
* `attester.go:65` says a reorg's epochs are fetched again; taken up after an
  epoch boundary, the epoch that was meant is not (see 4).
* `operator/duties/proposer_preferences.go:134` says the epoch is emitted once per
  root. The root is fetched again when the preference is built: a duty emitted
  under one root and built under another, between two reorgs, is not emitted
  again when the chain is back at the first (the duty is `astray`).
* A handler slowed down by a reorg may skip the first tick of an epoch, the only
  one that prunes the epoch before (`attester.go:122`).

## 6. Proofs

TLAPS checks them for every committee, set of values, heights, keys, packets and
duties, every capacity, cutoff, clock and bound. The assumptions are those next
to the constants (`ConstantsAssumption`, `ControllerAssumption`,
`RunnerAssumption`, `IntervalAssumption`, `ValidationAssumption`,
`QuorumAssumption`, `PreferencesAssumption`, `RegistryAssumption`,
`SchedulerAssumption` and so on), which TLC evaluates in the
runs. Where a theorem needs more it says so in its `ASSUME`:

| Hypothesis | Theorems | Why it is needed, and what the code does |
|---|---|---|
| at most f Byzantine operators | `Safety` and what follows from it, `VotesOncePerRoundHolds`, `HonestMessagesJustifiedHolds` | the protocol's fault model |
| `Lag < LateSlotAllowance` | `ConsumersKeepTheirQueues` | pruning counts slots, not goroutines; with an equal lag TLC finds a consumer pruned |
| `SlotsOutlastMargins` | `DutiesAreLimited`, `MessagesAreAcceptedOnce` | a message's window must not span the ring twice; the margins are seconds, a slot is twelve |
| `SlotsPerEpoch >= 3` | `NoEpochIsForgotten` | the request of a reorg may take two slots; with two slots in an epoch TLC finds an epoch that nobody fetches. The beacon chain has 32 |

`PreferencesAssumption` has the two rules of message validation that the runner of
proposer preferences rests on: one preference in a message, and a budget of
roots for each signer.

Each inductive invariant was first checked by TLC on the instance of a run.

**`QBFTProofs`.** `Agreement` is not inductive. `SafetyInv` adds:

* votes are signed and at most one prepare per operator and round
  (`PreparesOnce`), bounded by the operator's round, for a value it checked;
* containers hold signed votes only;
* a commit comes from a prepare quorum of its round, and its sender's lock is at
  least that high (`CommitsPrepared`, `LockHeld`);
* round changes announce the lock (`LockIsAnnounced`);
* `PreparesSafe`: if a correct operator prepared v in round r, then in every
  earlier round any other value is *blocked*: the correct members of some
  quorum have left that round, or decided, without committing to that value;
* a decision is backed by a quorum of commits.

The heart is `JustifiedIsSafe`: a justified proposal keeps `PreparesSafe`. The
quorum of round changes that justifies it meets any quorum that could have
committed in a correct operator, whose round change tells of its lock; the
highest lock announced is for the proposed value, and the argument is repeated
below it through the invariant. `AgreementHolds`, `DecidedValueWasCheckedHolds`
and `LockIsAnnouncedHolds` follow. `TypeCorrect`, `DecidedIsFrozenHolds` and
`SilentOnceIrrelevantHolds` hold for any number of Byzantine operators.

`BroadcastInv` extends it to what is sent: a proposal of a later round was sent
when its leader's container got its quorum, which happens once
(`ProposalsFollowQuorums`, hence `VotesOncePerRoundHolds`); the prepares behind a
lock stay in the container (`LockJustified`), so the round change that announces
the lock carries a justification others accept, and a proposal carries those
(`HonestMessagesJustifiedHolds`).

**`RunnerProofs`.** `NeverRunsAgain` needs `LatestIsRemembered`: nothing was
started or seen decided above the latest height, and the latest itself is in
the container; then the two checks of `startInstance` suffice, whatever was
evicted. It is proved of `ControllerSpec`. `RunnerUsesController` shows that the
runner's specification implies the controller's, so the result carries over
(`RunnerRunsOnce`). `DecisionTakenUpHolds` is inductive together with the type
invariant and with the fact that a running instance has a duty.
`ForgetsOnlyTheOldestHolds` counts: one entry for a height, at most `Capacity` of
them. `OneInstanceWorksHolds` needs the same of all heights, remembered or not;
`TimeoutsAreNotAheadHolds` needs the armed timers to be no round ahead.
`SliceKeepsHighestHolds` puts the set of entries and the slice side by side: the
ranks of k entries of different heights are 1 to k (`Ranks`, a pigeonhole argument),
so a slice in descending order is the only one of its entries (`SliceIsUnique`);
what `addNewInstance` makes by shifting is in descending order (`ShiftedInOrder`) and
has the entries the set has (`SliceAdds`).

**`MessageValidationProofs`.** The round estimated from the clock is the one round
that has not ended while all before it have (`EstimateMatchesTimers`,
`EstimateIsTheRound`), by cases on quick and slow rounds and linear arithmetic;
timeouts increase strictly (`TimeoutsIncrease`). From this `TimersAreAdmitted`
follows: the spread message validation allows around its estimate covers what
the timers of an operator up to two quick rounds late or one early are in.
`PeersArePunishedFairly`: what is on record as seen from a fair peer is what that
peer relayed, in the round of the record (`SeenWasRelayed`), so no rule that
rejects fires for it but the excepted one. `DutiesAreLimited`: each place of the
ring of duty counts has the latest epoch seen there, with at least as many duties
as the epoch has accepted slots (`DutyOK`); two epochs that share a place are
never both open. `MessagesAreAcceptedOnce`: what was accepted is on record, or
its record lapsed, or its slot is over (`Known`), where a record is overwritten
only by a slot a ring's length later (`RingOK`).

**`DutyRunnersProofs`.** Committee runners: every quorum counted so far, bad
signatures included, was acted on (`PostQuorumsAreUsed`, `PreQuorumsAreUsed`), a
conclusion was true when reached and stays so (`ConclusionIsTrue`), and the
watcher and the message loop agree (`OutcomeFollowsState`); the four safety
properties follow. Proposer preferences: `StashIsFull` says that the stash holds
every good signature that came in the lookahead and nothing message validation
did not let through, so that the budgets bound it and it always has room
(`AlwaysRoom`, by numbering each signer's roots); `RunnerHeardAll` says that the
runner has all of them or is done, and has no quorum it did not act on.
`SentOnceSuffices` follows. `PreferencesAreServed` follows from `EmittedIsCurrent`
(what was emitted is the chain's, or an event, a recheck or the fork's recheck
is pending; no tick before the proposal leaves its epoch out again) and
`EmittedIsServed` (the duty emitted last is queued, frozen, submitted or astray).

**`CommitteeProofs`.** The guard has no entry for a cancelled duty and none can
appear again, as a slot's duty is started once (`CancelledNotGuarded`). A consumer
is attached to its queue only while its duty is under way, so not long after its
deadline (`ConsumersAreInTime`), and what a starting duty prunes is older.
Runners never outlive the slots kept at the last start (`RunnersAreRecent`).

**`SigningProofs`.** Slashing protection. `KeysAreNotSlashed`: the record of a key
covers everything it signed or may still sign, and so does what an open transaction
wrote for a key without a record (`RecordsCover`, `WritesCover`); requests on their
way to the remote signer are safe in any order (`RequestsAreSafe`); beacon nodes name
votes and blocks of the present or the past (`SignedBehindClock`), so the minimum of
a bump is above them. As the check and the record are two steps, a request that was
checked is behind the clock (`CheckedBehindClock`), the only one of its kind and key
(`CheckedOnce`), and above everything signed whatever is committed until it is recorded
(`CheckedAbove`). `LoweredRarely` rests on `ClockInv`: records are behind the clock, a
transaction's writes are the minimum of the slot it began in while the clock stands,
what it wrote without having removed the share it read (`WritesAreTracked`), and raises
unless it was written meanwhile (`WritesRaise`). `SharesHaveRecords` rests on
`RecordsInv`: the same relation between what the transaction would make of the shares
and what it reads of the records.
Doppelganger protection. `SafeAfterQuietEpochs`: every epoch by which the count went
down is among the quiet ones, each asked about once, the epoch before the present
one only if no later tick of the present one asks again (`CountIsCovered`,
`QuietEpochsAskedOnce`, `QuestionIsNew`).

**`RegistryProofs`.** `RegistryImplementsContract` is the refinement: every step of the
event handler, the syncer, the controller and the process is a step of
`ContractRegistry` or changes nothing of it. What a block promises is the last value
of a recursive function over its events. Split by validators it is `RunOf`, the
status of one validator after so many events, and `RegistryInv` says that the status
memory has now leads to the same end of the block as the one the block began with
(`MemoryFollowsBlock`); that an early write of the metadata syncer leaves that end
the same, were the block begun again with it (`EarlyWritesAreHarmless`); and that
memory and transaction agree (`MemoryIsWritten`), each but for the validators that a
discarded try left behind or that are torn. This is what a crash needs: memory
is lost and the replay starts from a database with early writes; and what a try in the
same process needs: the database is as it was, and memory is not, for exactly the
validators in `left`. The inductions
over a block's length use a lemma about sets (`CountUp`: a set of numbers that has 0
and with n also n + 1 has them all), and `PrefixesUnfold` shows that the recursive
function exists. `SharesCanSignHolds` adds that a share without its key is about to
be removed again (`KeysFollowShares`) and one without records was written early
or left by a discarded try (`RecordsFollowCreation`). `RunningMatchesRegistryHolds` follows the tasks: a start of
a share that is liquidated by now has a stop behind it (`StopsFollowStarts`), what
runs should or is about to be stopped (`RunningIsUp`), and what should run does, or a
task, the start-up or a metadata batch will list it (`UpIsRunning`).

**`SchedulerProofs`.** `WantedInv` follows the clock, the ticker and the deadline
of the request under way: whatever the handler is doing, the epochs are wanted in
which it may next be idle (`NoEpochIsForgotten`). `OutdatedDutiesAreKnown`: `Belief(e)`
is the root of epoch e's duties by the head the scheduler saw last. Duties by
another root than the chain's are wanted anew, or a reorg that will make the handler
look at the epoch is queued (`Told`), or the belief is wrong (`RootKnown`); and the
next head event that is not late puts the belief right and queues the reorg
(`BeliefCorrected`), or adds the epoch to `missed`. Chains may be left and come back
to; what is used of them is that they form a tree (`Chain`): a new block has a new
name, and two chains with a block in common have all blocks before it in common
(hence `HeadSeen`, for every chain). A belief that becomes right while the handler has
duties by another root is what `missed` records (`NotToBeSeen`). Changes of validators
are compared with `told`, which a report that times out does not move. The same holds of an answer under way (`AnswerKnown`).

**Only model-checked.** Liveness (`EventualDecision`, `DecisionSpreads`): `WF_` and
`ENABLED` are out of the prover's reach. Every invariant and action property of the
passing runs, and the refinement, is proved. The library's induction theorems take
the property as an operator, which the provers cannot instantiate; where a proof
goes over a sequence or a recursive function it goes by the least number that
violates it (`LeastNatural`, `CountUp`).

## 7. Plan

1. Theorems about what the models rest on: that the closed forms (the replay of the
   stash, the reduced schedules of `MCQBFTBatch`) are what the steps add up to.
2. The message queue with its retries, under `Runner` and `Committee`.
3. The runners of registrations, exits and PTC attestations, and the legacy
   runners.
4. The handlers of sync committees and PTC, and the committee handler, in
   `Scheduler`; failover of the execution clients under `Registry`.
5. A restart of an operator within a height, as a variant of `QBFT`.

## 8. Not modelled

Peer discovery, scoring and subnets: heuristics over libp2p, whose effect is the
unreliable network of `QBFT`. Beacon and execution clients, API, command line:
I/O; their failures and delays are steps of the models. The exporter and the
participants store: they record and nothing reads back. Generated code (contract
bindings, SSZ encodings, mocks), migrations, metrics and logging: no protocol
state. Value checks: rules about data, the constant `CheckValue` in `QBFT`.
Encryption, BLS and hashing: a signature is good or bad, a root stands for its
data. What is left out of the parts that are modelled is noted at each
component in `PROJECT.json`.
