------------------------------ MODULE Registry ------------------------------
(***************************************************************************)
(* The node's registry and what runs on it: contract events handled block  *)
(* by block (eth/eventhandler), the share storage with its copy in memory  *)
(* (registry/storage), the metadata syncer (operator/validator/metadata)   *)
(* and the validator controller that starts and stops validators           *)
(* (operator/validator).                                                   *)
(*                                                                         *)
(* The events of a block are handled in one transaction, but a share is in *)
(* memory as soon as its event is handled, and the metadata syncer writes  *)
(* the shares it finds in memory to the database at once.  After the       *)
(* commit the block's tasks start and stop validators.  The process may    *)
(* die at any step; it then handles the block again, without its tasks,    *)
(* before it loads its validators.  While it syncs the history, an error   *)
(* of a handler discards the transaction and the block is handled again by *)
(* the same process, on the memory the discarded try left.                 *)
(***************************************************************************)
EXTENDS Naturals, Sequences, FiniteSets

CONSTANTS
  Validators, MaxEvents, MaxBlocks,
  None,
  MaxTries,       \* maxTries of SyncHistory
  MaxCrashes,     \* bound: restarts
  MaxLosses       \* bound: answers that lack a validator or cannot be saved

ASSUME RegistryAssumption ==
  /\ None \notin [liquidated : BOOLEAN, metadata : BOOLEAN] /\ None \notin 0 .. MaxEvents
  /\ None \notin [step : {"asked", "batch"}, validators : SUBSET Validators,
                  unknown : SUBSET Validators]
  /\ MaxEvents \in Nat /\ MaxBlocks \in Nat
  /\ MaxTries \in Nat \ {0} /\ MaxCrashes \in Nat /\ MaxLosses \in Nat

VARIABLES
  processed,      \* last processed block, in the database
  nonce,          \* the owner's nonce, in the database
  db,             \* shares in the database
  records,        \* shares with slashing protection records, in the database
  held,           \* share keys in the wallet or the remote signer
  enabled,        \* the contract's cluster is not liquidated
  block,          \* the next block of the chain, once it has events
  pos,            \* events of it handled in the open transaction; None: closed
  wrShares, wrRecords, wrNonce,   \* what the transaction wrote
  mem,            \* sharesStorage.shares
  tasks,          \* tasks of the block not yet executed
  phase,          \* how far the start-up of the process is
  running,        \* started validators in validatorsMap
  sync,           \* what the metadata syncer is doing
  starting,       \* shares the controller listed and has still to start
  tries,          \* failed tries of SyncHistory
  crashes, losses,
  early,          \* history: status in the database before an early write
  left,           \* history: validators a discarded try left as the database has not
  torn,           \* history: status the contract has for what such a block broke
  missed,         \* history: starts that failed or never were asked for
  overtaken,      \* history: stopped while listed to start, or registered anew
  blanked         \* history: what runs, or is listed to, and lost its metadata

dbVars == <<processed, nonce, db, records>>
txnVars == <<pos, wrShares, wrRecords, wrNonce>>
ctrlVars == <<tasks, phase, running, starting>>
bounds == <<crashes, losses>>
historyVars == <<early, left, torn, missed, overtaken, blanked>>
vars == <<dbVars, held, enabled, block, txnVars, mem, ctrlVars, sync, tries, bounds,
          historyVars>>

Share == [liquidated : BOOLEAN, metadata : BOOLEAN]
StatusOf(share) ==
  IF share = None THEN "absent" ELSE IF share.liquidated THEN "liquidated" ELSE "active"

\* The registry as the contract has it, read off the database.
Members ==
  [v \in Validators |-> IF v \in DOMAIN torn THEN torn[v]
                        ELSE IF v \in DOMAIN early THEN early[v] ELSE StatusOf(db[v])]

C == INSTANCE ContractRegistry WITH members <- Members

\* No event of a block is being handled and none waits for its replay.
AtRest == block = <<>> /\ pos = None
Eligible == {v \in Validators : mem[v] # None /\ ~mem[v].liquidated}

\* Writes are functions on the validators written; later ones go over earlier.
Empty == [v \in {} |-> None]
At(v, value) == [w \in {v} |-> value]
Over(w, u) == [v \in DOMAIN w \cup DOMAIN u |-> IF v \in DOMAIN w THEN w[v] ELSE u[v]]

Init ==
  /\ processed = 0 /\ nonce = 0
  /\ db = [v \in Validators |-> None]
  /\ records = {} /\ held = {}
  /\ enabled = TRUE /\ block = <<>> /\ pos = None
  /\ wrShares = Empty /\ wrRecords = Empty /\ wrNonce = 0
  /\ mem = db
  /\ tasks = <<>> /\ phase = "history" /\ running = {} /\ starting = {}
  /\ sync = None
  /\ tries = 0 /\ crashes = 0 /\ losses = 0
  /\ early = Empty /\ left = {} /\ torn = Empty
  /\ missed = {} /\ overtaken = {} /\ blanked = {}

-----------------------------------------------------------------------------
(* Handling a block.                                                       *)

\* The chain grows by a block with events for this contract.
NewBlock(b) ==
  /\ AtRest /\ processed < MaxBlocks /\ C!Legal(b)
  /\ block' = b
  /\ enabled' = C!EnabledAfter(b, Len(b))
  /\ UNCHANGED <<dbVars, held, txnVars, mem, ctrlVars, sync, tries, bounds, historyVars>>

\* processBlockEvents opens its transaction.  The stream hands over a block
\* once the tasks of the one before are done.
BeginBlock ==
  /\ block # <<>> /\ pos = None /\ tasks = <<>>
  /\ pos' = 0
  /\ wrShares' = Empty /\ wrRecords' = Empty /\ wrNonce' = nonce
  /\ UNCHANGED <<enabled, dbVars, held, block, mem, ctrlVars, sync, tries, bounds,
                 historyVars>>

Handling(type) == pos # None /\ pos < Len(block) /\ block[pos + 1].type = type
Current == block[pos + 1].validator

\* sharesStorage.Save of changed shares: memory first, then the transaction.
SaveShares(changed) ==
  /\ mem' = Over(changed, mem)
  /\ wrShares' = Over(changed, wrShares)

\* Tasks are executed only for blocks of the ongoing sync.
AddTask(type, vs) ==
  tasks' = IF phase = "history" THEN tasks
           ELSE Append(tasks, [type |-> type, validators |-> vs])

\* Mutant: the key manager takes the key without a bump.
ShareCreationWithoutBump(v) ==
  /\ held' = held \cup {v}
  /\ SaveShares(At(v, [liquidated |-> FALSE, metadata |-> FALSE]))
  /\ UNCHANGED wrRecords

\* handleShareCreation: the key manager takes the key and bumps the slashing
\* protection, then the share is saved.
HandleShareCreation(v) ==
  /\ held' = held \cup {v}
  /\ wrRecords' = Over(At(v, TRUE), wrRecords)
  /\ SaveShares(At(v, [liquidated |-> FALSE, metadata |-> FALSE]))

\* handleValidatorAdded of a well-formed event.  A share the storage has
\* already is left as it is.
HandleValidatorAdded ==
  /\ Handling("add")
  /\ pos' = pos + 1
  /\ wrNonce' = wrNonce + 1
  /\ \/ mem[Current] = None /\ HandleShareCreation(Current)
     \/ mem[Current] # None /\ UNCHANGED <<held, wrRecords, wrShares, mem>>
  /\ UNCHANGED <<enabled, dbVars, block, ctrlVars, sync, tries, bounds, historyVars>>

\* Mutant: a malformed event returns before the nonce is bumped.
HandleMalformedKeepingNonce ==
  /\ Handling("addMalformed")
  /\ pos' = pos + 1
  /\ UNCHANGED <<enabled, dbVars, held, block, wrShares, wrRecords, wrNonce, mem,
                 ctrlVars, sync, tries, bounds, historyVars>>

\* handleValidatorAdded of a malformed event: the nonce is bumped first.
HandleMalformedValidatorAdded ==
  /\ Handling("addMalformed")
  /\ pos' = pos + 1
  /\ wrNonce' = wrNonce + 1
  /\ UNCHANGED <<enabled, dbVars, held, block, wrShares, wrRecords, mem, ctrlVars, sync,
                 tries, bounds, historyVars>>

\* handleValidatorRemoved; an unknown validator's event is skipped.
HandleValidatorRemoved ==
  /\ Handling("remove")
  /\ pos' = pos + 1
  /\ \/ /\ mem[Current] # None
        /\ SaveShares(At(Current, None))
        /\ held' = held \ {Current}
        /\ wrRecords' = Over(At(Current, FALSE), wrRecords)
        /\ AddTask("stop", {Current})
     \/ /\ mem[Current] = None
        /\ UNCHANGED <<mem, wrShares, held, wrRecords, tasks>>
  /\ UNCHANGED <<enabled, dbVars, block, wrNonce, phase, running, starting, sync, tries,
                 bounds, historyVars>>

\* processClusterEvent: every share of the cluster, whatever its flag was.
ClusterShares(liquidated) ==
  [v \in {w \in Validators : mem[w] # None} |->
     [mem[v] EXCEPT !.liquidated = liquidated]]

HandleClusterLiquidated ==
  /\ Handling("liquidate")
  /\ pos' = pos + 1
  /\ SaveShares(ClusterShares(TRUE))
  /\ AddTask("stop", DOMAIN ClusterShares(TRUE))
  /\ UNCHANGED <<enabled, dbVars, held, block, wrRecords, wrNonce, phase, running,
                 starting, sync, tries, bounds, historyVars>>

HandleClusterReactivated ==
  /\ Handling("reactivate")
  /\ pos' = pos + 1
  /\ SaveShares(ClusterShares(FALSE))
  /\ wrRecords' = Over([v \in DOMAIN ClusterShares(FALSE) |-> TRUE], wrRecords)
  /\ AddTask("start", DOMAIN ClusterShares(FALSE))
  /\ UNCHANGED <<enabled, dbVars, held, block, wrNonce, phase, running, starting, sync,
                 tries, bounds, historyVars>>

Written(written, before) ==
  {v \in Validators : IF v \in DOMAIN written THEN written[v] ELSE v \in before}

\* What the contract has after the block.
Promised == C!AppliedBlock([members |-> Members, nonce |-> nonce], block).members

\* SaveLastProcessedBlock and the commit.  What a discarded try or an early
\* write kept the handlers from doing is missing from it.
CommitBlock ==
  /\ pos # None /\ pos = Len(block)
  /\ processed' = processed + 1
  /\ db' = Over(wrShares, db)
  /\ records' = Written(wrRecords, records)
  /\ nonce' = wrNonce
  /\ block' = <<>> /\ pos' = None
  /\ wrShares' = Empty /\ wrRecords' = Empty /\ wrNonce' = 0
  /\ early' = Empty /\ left' = {}
  /\ torn' = [v \in {w \in DOMAIN torn \cup left \cup DOMAIN early :
                       \/ StatusOf(db'[w]) # Promised[w] \/ StatusOf(mem[w]) # Promised[w]
                       \/ mem[w] # None /\ (w \notin records' \/ w \notin held)}
              |-> Promised[v]]
  /\ UNCHANGED <<enabled, held, mem, ctrlVars, sync, tries, bounds, missed, overtaken,
                 blanked>>

\* A handler, or the commit, returns an error while SyncHistory has tries left:
\* the transaction is discarded and the block is handled again by this process.
\* Of the event under way AddShare may be done and Save not, or Delete from
\* memory and RemoveShare not.
HandlerFails ==
  /\ phase = "history" /\ pos # None
  /\ tries < MaxTries - 1 /\ tries' = tries + 1
  /\ \/ UNCHANGED <<held, mem>>
     \/ /\ Handling("add") /\ mem[Current] = None
        /\ held' = held \cup {Current} /\ UNCHANGED mem
     \/ /\ Handling("remove") /\ mem[Current] # None
        /\ mem' = Over(At(Current, None), mem) /\ UNCHANGED held
  /\ pos' = None /\ wrShares' = Empty /\ wrRecords' = Empty /\ wrNonce' = 0
  /\ left' = left \cup {v \in Validators : StatusOf(mem'[v]) # StatusOf(db[v])}
  /\ UNCHANGED <<enabled, dbVars, block, ctrlVars, sync, bounds, early, torn, missed,
                 overtaken, blanked>>

-----------------------------------------------------------------------------
(* Tasks and the validators they start and stop.                           *)

\* onShareStart, or its failure, which is only logged.
Start(vs, failed) ==
  /\ failed \subseteq vs
  /\ running' = running \cup (vs \ failed)
  /\ missed' = (missed \ vs) \cup failed

\* StopValidator, LiquidateCluster and ReactivateCluster: a share without
\* metadata is not started.
ExecuteTask ==
  /\ tasks # <<>> /\ pos = None
  /\ tasks' = Tail(tasks)
  /\ LET vs == Head(tasks).validators IN
     \/ /\ Head(tasks).type = "stop"
        /\ running' = running \ vs
        /\ overtaken' = overtaken \cup (vs \cap starting)
             \cup {v \in vs \cap Eligible : mem[v].metadata}
        /\ missed' = missed \ vs /\ blanked' = blanked \ vs
     \/ /\ Head(tasks).type = "start"
        /\ LET ready == {v \in vs : mem[v] # None /\ mem[v].metadata}
           IN  /\ \E failed \in SUBSET ready : Start(ready, failed)
               /\ overtaken' = overtaken \ ready
        /\ UNCHANGED blanked
  /\ UNCHANGED <<enabled, dbVars, held, block, txnVars, mem, phase, starting, sync, tries,
                 bounds, early, left, torn>>

\* SyncHistory succeeds, after whatever tries; the ongoing sync is started next
\* to the rest of the start-up.
HistoryDone ==
  /\ phase = "history" /\ AtRest
  /\ phase' = "syncing" /\ tries' = 0
  /\ UNCHANGED <<enabled, dbVars, held, block, txnVars, mem, tasks, running, starting,
                 sync, bounds, historyVars>>

\* Mutant: liquidated shares are loaded, too.
InitLoadsLiquidated ==
  /\ phase = "loading"
  /\ phase' = "starting"
  /\ starting' = {v \in Validators : mem[v] # None /\ mem[v].metadata}
  /\ UNCHANGED <<enabled, dbVars, held, block, txnVars, mem, tasks, running, sync, tries,
                 bounds, historyVars>>

\* InitValidators lists the own shares that are not liquidated...
InitValidators ==
  /\ phase = "loading"
  /\ phase' = "starting"
  /\ starting' = {v \in Eligible : mem[v].metadata}
  /\ UNCHANGED <<enabled, dbVars, held, block, txnVars, mem, tasks, running, sync, tries,
                 bounds, historyVars>>

\* ... and StartValidators starts them.  startEligibleValidators does the same
\* with the shares it listed after a metadata update.  One whose metadata is
\* gone by then fails to start.
StartListed ==
  /\ starting # {}
  /\ \E failed \in SUBSET starting : Start(starting, failed)
  /\ starting' = {}
  /\ UNCHANGED <<enabled, dbVars, held, block, txnVars, mem, tasks, phase, sync, tries,
                 bounds, early, left, torn, overtaken, blanked>>

Started ==
  /\ phase = "starting" /\ starting = {}
  /\ phase' = "up"
  /\ UNCHANGED <<enabled, dbVars, held, block, txnVars, mem, tasks, running, starting,
                 sync, tries, bounds, historyVars>>

-----------------------------------------------------------------------------
(* The metadata syncer.                                                    *)

\* SyncAll at start-up, nextBatchFromDB later: the shares to ask for, and
\* whether their metadata was unknown.
AskMetadata(vs) ==
  /\ sync = None
  /\ phase \in {"syncing", "up"}
  /\ vs \subseteq Eligible /\ vs # {}
  /\ sync' = [step |-> "asked", validators |-> vs,
              unknown |-> {v \in vs : ~mem[v].metadata}]
  /\ UNCHANGED <<enabled, dbVars, held, block, txnVars, mem, ctrlVars, tries, bounds,
                 historyVars>>

\* The beacon node knows of some of the validators asked for; every other one
\* is given empty metadata.  The shares this changes are the ones that still
\* are in memory.
Changed(known) == {v \in sync.validators : mem[v] # None /\ mem[v].metadata # (v \in known)}
Updated(known) == [v \in Changed(known) |-> [mem[v] EXCEPT !.metadata = v \in known]]
Learned(known) == Changed(known) \cap known
BlankedBy(known) ==
  (blanked \ Learned(known)) \cup ((Changed(known) \ known) \cap (running \cup starting))

Lose == losses < MaxLosses /\ losses' = losses + 1

\* UpdateValidatorsMetadata: changed in memory, from where the shares are
\* written to the database outside any transaction.
UpdateValidatorsMetadata(known) ==
  /\ sync # None /\ sync.step = "asked" /\ known \subseteq sync.validators
  /\ mem' = Over(Updated(known), mem)
  /\ db' = Over(Updated(known), db)
  /\ early' = Over(early, [v \in {w \in Changed(known) : StatusOf(db[w]) # StatusOf(mem[w])}
                              |-> StatusOf(db[v])])
  /\ sync' = [sync EXCEPT !.step = "batch", !.validators = Changed(known),
                          !.unknown = Learned(known) \cap sync.unknown]
  /\ missed' = missed \cup (Learned(known) \ sync.unknown)
  /\ blanked' = BlankedBy(known)
  /\ IF known = sync.validators THEN UNCHANGED losses ELSE Lose
  /\ UNCHANGED <<enabled, processed, nonce, records, held, block, txnVars, ctrlVars,
                 tries, crashes, left, torn, overtaken>>

\* The write to the database fails: memory keeps the metadata, and the batch is
\* not sent.  The initial sync ends the process then.
SaveToDBFails(known) ==
  /\ phase = "up"
  /\ sync # None /\ sync.step = "asked" /\ known \subseteq sync.validators
  /\ Changed(known) # {} /\ Lose
  /\ mem' = Over(Updated(known), mem)
  /\ sync' = None
  /\ missed' = missed \cup (Learned(known) \ running)
  /\ blanked' = BlankedBy(known)
  /\ UNCHANGED <<enabled, dbVars, held, block, txnVars, ctrlVars, tries, crashes, early,
                 left, torn, overtaken>>

\* The beacon node failed; the initial sync ends the process then.
SyncFails ==
  /\ phase = "up"
  /\ sync # None /\ sync.step = "asked"
  /\ sync' = None
  /\ UNCHANGED <<enabled, dbVars, held, block, txnVars, mem, ctrlVars, tries, bounds,
                 historyVars>>

\* The initial sync hands its result to nobody.  ensureNoMissingKeys then
\* refuses to go on without a key of an own share.
InitialSyncDone ==
  /\ phase = "syncing"
  /\ \A v \in Validators : mem[v] # None => v \in held
  /\ sync # None => sync.step = "batch"
  /\ phase' = "loading"
  /\ sync' = None
  /\ UNCHANGED <<enabled, dbVars, held, block, txnVars, mem, tasks, running, starting,
                 tries, bounds, historyVars>>

\* handleMetadataUpdate lists the shares that became eligible to start; one
\* registered anew since has no metadata and is skipped.
HandleMetadataUpdate ==
  /\ phase = "up" /\ starting = {}
  /\ sync # None /\ sync.step = "batch"
  /\ starting' = {v \in sync.unknown \cap Eligible : mem[v].metadata}
  /\ sync' = None
  /\ UNCHANGED <<enabled, dbVars, held, block, txnVars, mem, tasks, phase, running, tries,
                 bounds, historyVars>>

\* The controller took too long to receive the batch, and it is dropped.
UpdateSendTimeout ==
  /\ phase = "up"
  /\ sync # None /\ sync.step = "batch"
  /\ missed' = missed \cup (sync.unknown \ running)
  /\ sync' = None
  /\ UNCHANGED <<enabled, dbVars, held, block, txnVars, mem, ctrlVars, tries, bounds,
                 early, left, torn, overtaken, blanked>>

-----------------------------------------------------------------------------
\* The process dies: what is not in the database, the wallet or the remote
\* signer is gone.  A handler's error in the ongoing sync, or in the last try of
\* SyncHistory, ends the process, too.
Crash ==
  /\ crashes < MaxCrashes /\ crashes' = crashes + 1
  /\ mem' = db
  /\ pos' = None /\ wrShares' = Empty /\ wrRecords' = Empty /\ wrNonce' = 0
  /\ tasks' = <<>> /\ phase' = "history" /\ running' = {} /\ starting' = {}
  /\ sync' = None /\ tries' = 0
  /\ left' = {} /\ missed' = {} /\ overtaken' = {} /\ blanked' = {}
  /\ UNCHANGED <<enabled, dbVars, held, block, losses, early, torn>>

Next ==
  \/ \E b \in C!Block : NewBlock(b)
  \/ BeginBlock \/ CommitBlock \/ HandlerFails
  \/ HandleValidatorAdded \/ HandleMalformedValidatorAdded \/ HandleValidatorRemoved
  \/ HandleClusterLiquidated \/ HandleClusterReactivated
  \/ ExecuteTask
  \/ HistoryDone \/ InitValidators \/ StartListed \/ Started
  \/ \E vs \in SUBSET Validators :
       AskMetadata(vs) \/ UpdateValidatorsMetadata(vs) \/ SaveToDBFails(vs)
  \/ SyncFails \/ InitialSyncDone \/ HandleMetadataUpdate \/ UpdateSendTimeout
  \/ Crash

Spec == Init /\ [][Next]_vars

-----------------------------------------------------------------------------
\* Whatever crashes, retries and replays happen, the database goes through the
\* states of ContractRegistry: every block counts once and as a whole, its
\* malformed events included.  Shares the metadata syncer wrote early are seen as
\* they were before, and what a discarded try's memory kept from being written is
\* seen as the contract has it until the database has it, too
\* (processBlockEvents, SyncHistory, sharesStorage.Save, UpdateValidatorsMetadata).
BlocksAreAtomic == C!Spec

\* At rest every share of this operator in the database has its key and its
\* slashing protection records, which it cannot sign without, unless its block
\* was handled again on memory or early writes that a try before had left
\* (handleShareCreation, handleValidatorRemoved, SyncHistory).
SharesCanSign ==
  AtRest => \A v \in Validators \ DOMAIN torn :
              db[v] # None => v \in records /\ v \in held

\* A share whose block was rolled back is created when the block is handled
\* again: the comment on handleShareCreation relies on it.
SharesAreCreatedOnReplay ==
  AtRest => \A v \in Validators : db[v] # None => v \in records

Quiet == AtRest /\ phase = "up" /\ tasks = <<>> /\ sync = None /\ starting = {}

\* When nothing is under way, the validators of this operator that are not
\* liquidated and whose metadata is known run, and no other but one that lost its
\* metadata while it ran, through every order of tasks, metadata updates and
\* start-up.  Excepted are a start that failed or whose batch was dropped,
\* metadata that came for a share registered anew while the old one's was
\* refreshed, and a stop that met a start already listed, or a validator that was
\* registered anew before the stop's task was executed (operator/validator,
\* operator/validator/metadata).
RunningMatchesRegistry ==
  Quiet => \A v \in Validators \ (missed \cup overtaken) :
             /\ v \in Eligible /\ mem[v].metadata => v \in running
             /\ v \in running => v \in Eligible /\ (mem[v].metadata \/ v \in blanked)
=============================================================================
