----------------------------- MODULE KeyManager -----------------------------
(***************************************************************************)
(* The share keys of this operator and their slashing protection           *)
(* (ssvsigner/ekm, ssvsigner/server.go, ssvsigner/client.go).              *)
(*                                                                         *)
(* Keys live outside the database: in the local wallet, or in the remote   *)
(* signer (variable remote).  The highest signed attestation and proposal  *)
(* of a key are database records.  Events add and remove shares inside the *)
(* transaction of their block, which the wallet and the remote signer know *)
(* nothing of, while signing checks and writes the records directly, under *)
(* locks that do not cover the commit.  The database refuses a commit when *)
(* a record the transaction read was written meanwhile.  A transaction     *)
(* that fails stops the node, which then processes the block again; while  *)
(* it syncs the history, the same process does, with the memory it has.    *)
(***************************************************************************)
EXTENDS BeaconClock, Sequences, FiniteSets

CONSTANTS
  Keys,        \* public keys of this operator's shares
  Malformed,   \* keys whose encrypted share does not decrypt to them
  NoRecord,    \* the record is not in the database
  MaxSigned,   \* bound: signatures a key is asked for
  MaxBlocks,   \* bound: transactions begun
  MaxCrashes   \* bound: restarts, and blocks handled again

Vote == [source : 0 .. Epoch(MaxSlot), target : 0 .. Epoch(MaxSlot)]

ASSUME KeyManagerAssumption ==
  /\ Malformed \subseteq Keys
  /\ NoRecord \notin Vote /\ NoRecord \notin Slot
  /\ MaxSigned \in Nat /\ MaxBlocks \in Nat /\ MaxCrashes \in Nat

VARIABLES
  remote,              \* configured: RemoteKeyManager, else LocalKeyManager
  ongoing,             \* the history is synced: validators run
  stored, shares,      \* shares in the database, and in memory
  held,                \* keys in the wallet, or imported by the remote signer
  att, prop,           \* highest attestation and proposal, in the database
  inTxn,               \* a block's transaction is open
  wrShares,            \* shares it saved or deleted
  wrAtt, wrProp,       \* what it wrote of the records
  reads,               \* keys whose records it read from the database
  written,             \* keys whose records were written directly since it began
  checked,             \* sign requests checked and not yet recorded
  requests,            \* sign requests recorded and not yet with the signer
  skipped,             \* keys whose ValidatorAdded was dropped as malformed
  blocks, crashes,     \* transactions begun, failures
  signedAtt, signedProp, \* history: what each key signed, in order
  began,               \* history: the slot the transaction was opened in
  removed,             \* history: keys whose shares the transaction removed
  lowered,             \* history: keys a commit moved a record backwards for
  early,               \* history: saved, or left in memory, without its creation
  orphaned             \* history: recorded after the removal was committed

dbVars == <<stored, att, prop>>
txnVars == <<inTxn, wrShares, wrAtt, wrProp, reads>>
bounds == <<blocks, crashes>>
signedVars == <<signedAtt, signedProp>>
exceptions == <<lowered, early, orphaned>>
historyVars == <<signedVars, began, removed, exceptions>>
vars == <<now, remote, ongoing, dbVars, shares, held, txnVars, written, checked, requests,
          skipped, bounds, historyVars>>

Request == [key : Keys, vote : Vote] \cup [key : Keys, slot : Slot]

\* The writes of a transaction are a function on the keys it wrote.
ShareWrites == UNION {[D -> BOOLEAN] : D \in SUBSET Keys}
AttWrites == UNION {[D -> Vote \cup {NoRecord}] : D \in SUBSET Keys}
PropWrites == UNION {[D -> Slot \cup {NoRecord}] : D \in SUBSET Keys}
NoWrites == [k \in {} |-> NoRecord]
Written(w, k, record) == [j \in DOMAIN w \cup {k} |-> IF j = k THEN record ELSE w[j]]
Over(w, records) == [k \in Keys |-> IF k \in DOMAIN w THEN w[k] ELSE records[k]]

TypeOK ==
  /\ now \in Slot
  /\ remote \in BOOLEAN /\ ongoing \in BOOLEAN
  /\ stored \subseteq Keys /\ shares \subseteq Keys /\ held \subseteq Keys
  /\ att \in [Keys -> Vote \cup {NoRecord}]
  /\ prop \in [Keys -> Slot \cup {NoRecord}]
  /\ inTxn \in BOOLEAN
  /\ wrShares \in ShareWrites /\ wrAtt \in AttWrites /\ wrProp \in PropWrites
  /\ reads \subseteq Keys /\ written \subseteq Keys
  /\ \A r \in checked \cup requests : r \in Request
  /\ signedAtt \in [Keys -> Seq(Vote)] /\ signedProp \in [Keys -> Seq(Slot)]
  /\ skipped \subseteq Keys /\ began \in Slot /\ removed \subseteq Keys
  /\ lowered \subseteq Keys /\ early \subseteq Keys /\ orphaned \subseteq Keys
  /\ blocks \in 0 .. MaxBlocks /\ crashes \in 0 .. MaxCrashes

Init ==
  /\ now = 0
  /\ remote \in BOOLEAN /\ ongoing = FALSE
  /\ stored = {} /\ shares = {} /\ held = {}
  /\ att = [k \in Keys |-> NoRecord] /\ prop = [k \in Keys |-> NoRecord]
  /\ inTxn = FALSE /\ wrShares = NoWrites /\ wrAtt = NoWrites /\ wrProp = NoWrites
  /\ reads = {} /\ written = {} /\ checked = {} /\ requests = {} /\ skipped = {} /\ blocks = 0 /\ crashes = 0
  /\ signedAtt = [k \in Keys |-> <<>>] /\ signedProp = [k \in Keys |-> <<>>]
  /\ began = 0 /\ removed = {} /\ lowered = {} /\ early = {} /\ orphaned = {}

-----------------------------------------------------------------------------
(* Slashing protection.                                                    *)

\* Mutant: the minimum is an epoch behind the clock.
MinimalVoteBehind(e) == [source |-> IF e > 1 THEN e - 2 ELSE 0,
                         target |-> IF e > 0 THEN e - 1 ELSE 0]

\* computeMinimalAttestationSP, both gaps zero.
MinimalVote(e) == [source |-> IF e > 0 THEN e - 1 ELSE 0, target |-> e]

\* IsSlashableAttestation of the key manager library: without a record
\* nothing is signed.
IsAttestationSlashable(k, v) ==
  \/ att[k] = NoRecord
  \/ v.source < att[k].source
  \/ v.target <= att[k].target

IsBeaconBlockSlashable(k, s) == prop[k] = NoRecord \/ s <= prop[k]

\* What a transaction reads: its own writes, then the database as it was when
\* the transaction began.  Where that is not what it is now, the commit fails.
ReadAtt(k) == Over(wrAtt, att)[k]
ReadProp(k) == Over(wrProp, prop)[k]

\* updateHighestAttestation: a record with either epoch recent enough stays.
BumpedAtt(k) ==
  LET minimal == MinimalVote(CurrentEpoch)
      found   == ReadAtt(k)
  IN  IF /\ found # NoRecord
         /\ found.source >= minimal.source \/ found.target >= minimal.target
      THEN wrAtt ELSE Written(wrAtt, k, minimal)

\* updateHighestProposal: a stored slot 0 counts as none.
BumpedProp(k) ==
  IF ReadProp(k) \notin {NoRecord, 0} /\ ReadProp(k) >= now
  THEN wrProp ELSE Written(wrProp, k, now)

\* Mutant: the records are read outside the transaction.
ReadUntracked(k) == reads

\* The database tracks what a transaction reads and did not write itself.
Tracked(k) == reads \cup ({k} \ DOMAIN wrAtt)

\* BumpSlashingProtectionTxn.  The storage refuses to save a proposal slot 0,
\* so a bump in the genesis slot is an error.
Bump(k) ==
  /\ wrAtt' = BumpedAtt(k)
  /\ wrProp' = BumpedProp(k)
  /\ reads' = Tracked(k)
  /\ now > 0

-----------------------------------------------------------------------------
(* The remote signer's answer to an AddValidators request.                 *)

MalformedShare == 422   \* the node takes it for ShareDecryptionError

\* Mutant: the status of the upstream signer is passed on as it is.
PassedOnStatus(upstream) == upstream

\* handleImportKeystoreErr: 422 is kept for shares the server itself found
\* malformed.
ImportErrStatus(upstream) == IF upstream = MalformedShare THEN 502 ELSE upstream

\* handleAddValidator, for a request whose share k does or does not decrypt,
\* over what the upstream signer answers (200: imported or duplicated).
AddValidatorStatus(k, upstream) ==
  IF k \in Malformed THEN MalformedShare
  ELSE IF upstream = 200 THEN 200
  ELSE ImportErrStatus(upstream)

UpstreamAnswers == {200, 422, 500}

-----------------------------------------------------------------------------
(* The transaction of a block.                                             *)

BeginBlock ==
  /\ ~inTxn /\ blocks < MaxBlocks
  /\ inTxn' = TRUE
  /\ blocks' = blocks + 1
  /\ began' = now
  /\ written' = {}
  /\ UNCHANGED <<now, crashes, remote, ongoing, dbVars, shares, held, wrShares, wrAtt, wrProp,
                 reads, checked, requests, skipped, signedVars, removed, exceptions>>

CloseTxn ==
  /\ inTxn' = FALSE /\ wrShares' = NoWrites /\ wrAtt' = NoWrites /\ wrProp' = NoWrites
  /\ reads' = {} /\ written' = {} /\ removed' = {}

\* A commit writes a record below the one that was there.
Lowers(k) ==
  \/ /\ k \in DOMAIN wrAtt /\ wrAtt[k] # NoRecord /\ att[k] # NoRecord
     /\ wrAtt[k].target < att[k].target \/ wrAtt[k].source < att[k].source
  \/ /\ k \in DOMAIN wrProp /\ wrProp[k] # NoRecord /\ prop[k] # NoRecord
     /\ wrProp[k] < prop[k]

Conflict == reads \cap written # {}

CommitBlock ==
  /\ inTxn /\ ~Conflict
  /\ att' = Over(wrAtt, att)
  /\ prop' = Over(wrProp, prop)
  /\ stored' = {k \in Keys : IF k \in DOMAIN wrShares THEN wrShares[k] ELSE k \in stored}
  /\ lowered' = lowered \cup {k \in Keys : Lowers(k)}
  /\ early' = {k \in early : att'[k] = NoRecord \/ prop'[k] = NoRecord}
  /\ orphaned' = orphaned \ DOMAIN wrShares
  /\ CloseTxn
  /\ UNCHANGED <<now, remote, ongoing, shares, held, checked, requests, skipped, bounds,
                 signedVars, began>>

Fail == crashes < MaxCrashes /\ crashes' = crashes + 1

\* The process dies, on its own or because an event could not be processed:
\* memory and the open transaction are gone, held is what it was.
Restart ==
  /\ Fail
  /\ ongoing' = FALSE
  /\ shares' = stored
  /\ CloseTxn
  /\ checked' = {} /\ requests' = {}
  /\ early' = early \cap stored
  /\ UNCHANGED <<now, remote, dbVars, skipped, blocks, signedVars, began, lowered, orphaned>>

\* SyncHistory handles a block again after an error: the transaction is gone,
\* and the share in memory that it had created or deleted is not undone.
Retry(memory) ==
  /\ Fail
  /\ ~ongoing /\ inTxn
  /\ shares' = memory
  /\ CloseTxn
  /\ early' = early \cup (shares' \ stored)
  /\ UNCHANGED <<now, remote, ongoing, dbVars, checked, requests, skipped, blocks, signedVars,
                 began, lowered, orphaned>>

\* The commit is refused, and the node stops.
CommitConflicts ==
  /\ inTxn /\ Conflict
  /\ Restart
  /\ UNCHANGED held

\* A block cannot be processed or committed for another reason.
BlockFails ==
  /\ inTxn
  /\ Restart \/ Retry(shares)
  /\ UNCHANGED held

\* The history is synced, and the validators are started.
SyncHistory ==
  /\ ~ongoing /\ ~inTxn
  /\ ongoing' = TRUE
  /\ UNCHANGED <<now, remote, dbVars, shares, held, txnVars, written, checked, requests,
                 skipped, bounds, historyVars>>

\* The keys of sign requests under way are locked: the local wallet as a whole,
\* the remote manager's by key.
Locked(k) == \E r \in checked : remote => r.key = k

\* sharesStorage.Save of the share of k.
SaveShare(k) ==
  /\ shares' = shares \cup {k}
  /\ wrShares' = Written(wrShares, k, TRUE)

\* LocalKeyManager.AddShare holds the wallet's lock, decrypts and compares the
\* key first, then bumps in the transaction and saves the account outside it.
AddShareLocal(k) ==
  \/ /\ k \in Malformed
     /\ skipped' = skipped \cup {k}
     /\ UNCHANGED <<held, shares, wrShares, wrAtt, wrProp, reads>>
  \/ /\ k \notin Malformed
     /\ Bump(k)
     /\ held' = held \cup {k}
     /\ SaveShare(k)
     /\ UNCHANGED skipped

\* RemoteKeyManager.AddShare imports the share first, then bumps.
AddShareRemote(k) ==
  \E upstream \in UpstreamAnswers :
    \/ /\ AddValidatorStatus(k, upstream) = MalformedShare
       /\ skipped' = skipped \cup {k}
       /\ UNCHANGED <<held, shares, wrShares, wrAtt, wrProp, reads>>
    \/ /\ AddValidatorStatus(k, upstream) = 200
       /\ Bump(k)
       /\ held' = held \cup {k}
       /\ SaveShare(k)
       /\ UNCHANGED skipped

\* handleShareCreation, for a share the storage does not have.
AddShare(k) ==
  /\ inTxn /\ k \notin shares /\ ~Locked(k)
  /\ IF remote THEN AddShareRemote(k) ELSE AddShareLocal(k)
  /\ UNCHANGED <<now, remote, ongoing, dbVars, inTxn, written, checked, requests, bounds,
                 historyVars>>

\* The event of AddShare cannot be processed.  The remote signer may have
\* imported the key although its answer was lost.
AddShareFails(k) ==
  /\ inTxn /\ k \notin shares /\ k \notin Malformed
  /\ held' \in {held, held \cup {k}}
  /\ Restart \/ Retry(shares)

\* Mutant: the records are removed at once instead of in the transaction.
RemoveShareOutsideTxn(k) ==
  /\ inTxn /\ k \in shares /\ ~Locked(k)
  /\ shares' = shares \ {k}
  /\ wrShares' = Written(wrShares, k, FALSE)
  /\ held' = held \ {k}
  /\ att' = [att EXCEPT ![k] = NoRecord]
  /\ prop' = [prop EXCEPT ![k] = NoRecord]
  /\ UNCHANGED <<now, remote, ongoing, stored, inTxn, wrAtt, wrProp, reads, written, checked,
                 requests, skipped, bounds, historyVars>>

\* handleValidatorRemoved: the share leaves memory and the key the wallet or
\* the remote signer at once, the records leave with the transaction.
RemoveShare(k) ==
  /\ inTxn /\ k \in shares /\ ~Locked(k)
  /\ shares' = shares \ {k}
  /\ wrShares' = Written(wrShares, k, FALSE)
  /\ held' = held \ {k}
  /\ wrAtt' = Written(wrAtt, k, NoRecord)
  /\ wrProp' = Written(wrProp, k, NoRecord)
  /\ removed' = removed \cup {k}
  /\ UNCHANGED <<now, remote, ongoing, dbVars, inTxn, reads, written, checked, requests,
                 skipped, bounds, signedVars, began, exceptions>>

RemoveShareFails(k) ==
  /\ inTxn /\ k \in shares
  /\ held' \in {held, held \ {k}}
  /\ Restart \/ Retry(shares \ {k})

\* handleClusterReactivated saves the cluster's shares and bumps their records.
\* The local manager takes no lock for it.
BumpSlashingProtection(k) ==
  /\ inTxn /\ k \in shares /\ (remote => ~Locked(k))
  /\ SaveShare(k)
  /\ Bump(k)
  /\ UNCHANGED <<now, remote, ongoing, dbVars, held, inTxn, written, checked, requests,
                 skipped, bounds, historyVars>>

\* handleClusterLiquidated saves the cluster's shares only.
HandleClusterLiquidated(k) ==
  /\ inTxn /\ k \in shares
  /\ SaveShare(k)
  /\ UNCHANGED <<now, remote, ongoing, dbVars, held, inTxn, wrAtt, wrProp, reads, written,
                 checked, requests, skipped, bounds, historyVars>>

\* The metadata syncer saves a share it finds in memory outside any transaction.
UpdateValidatorsMetadata(k) ==
  /\ ongoing /\ k \in shares
  /\ stored' = stored \cup {k}
  /\ early' = early \cup ({k} \ stored)
  /\ UNCHANGED <<now, remote, ongoing, shares, held, att, prop, txnVars, written, checked,
                 requests, skipped, bounds, signedVars, began, removed, lowered, orphaned>>

-----------------------------------------------------------------------------
(* Signing.                                                                *)

Higher(a, b) == IF a > b THEN a ELSE b

\* Mutant: a vote is recorded only once it is signed.
RecordNothing(k, v) == att' = att

\* UpdateHighestAttestation: each epoch of the record rises by itself.  The
\* record is read before it is written: a block committed in between is written
\* over, and then the vote is above the record that was read.
RecordVote(k, v) ==
  LET raised == [source |-> Higher(att[k].source, v.source),
                 target |-> Higher(att[k].target, v.target)]
  IN  att' \in {[att EXCEPT ![k] = new] :
                  new \in IF att[k] = NoRecord THEN {v} ELSE {v, raised}}

\* UpdateHighestProposal.
RecordSlot(k, s) ==
  prop' \in {[prop EXCEPT ![k] = new] :
               new \in IF prop[k] = NoRecord THEN {s} ELSE {s, Higher(prop[k], s)}}

MayAskFor(k) ==
  Len(signedAtt[k]) + Len(signedProp[k]) + Cardinality(checked \cup requests) < MaxSigned

\* The check of SignBeaconAttestation, under the lock of the key's attestations
\* and, in the local manager, that of the wallet.
CheckAttestation(k, v) ==
  /\ ongoing /\ MayAskFor(k)
  /\ \A r \in checked : r.key = k => "slot" \in DOMAIN r
  /\ remote \/ k \in held
  /\ ~IsAttestationSlashable(k, v)
  /\ checked' = checked \cup {[key |-> k, vote |-> v]}
  /\ UNCHANGED <<now, remote, ongoing, dbVars, shares, held, txnVars, written, requests, skipped,
                 bounds, historyVars>>

\* The same for a block, keyed to the slot of the block itself.
CheckBlock(k, s) ==
  /\ ongoing /\ MayAskFor(k)
  /\ \A r \in checked : r.key = k => "vote" \in DOMAIN r
  /\ remote \/ k \in held
  /\ ~IsBeaconBlockSlashable(k, s)
  /\ checked' = checked \cup {[key |-> k, slot |-> s]}
  /\ UNCHANGED <<now, remote, ongoing, dbVars, shares, held, txnVars, written, requests, skipped,
                 bounds, historyVars>>

\* What is checked is recorded.  The local signer then signs, still under the
\* locks; the remote manager sends the request after releasing them.
Record(r) ==
  /\ r \in checked /\ checked' = checked \ {r}
  /\ written' = IF inTxn /\ <<att', prop'>> # <<att, prop>> THEN written \cup {r.key}
                ELSE written
  /\ requests' = IF remote THEN requests \cup {r} ELSE requests
  /\ UNCHANGED <<now, remote, ongoing, stored, shares, held, txnVars, skipped, bounds, began,
                 removed, lowered, early>>

RecordAttestation(r) ==
  /\ "vote" \in DOMAIN r
  /\ RecordVote(r.key, r.vote)
  /\ orphaned' = IF att[r.key] = NoRecord THEN orphaned \cup {r.key} ELSE orphaned
  /\ signedAtt' = IF remote THEN signedAtt
                  ELSE [signedAtt EXCEPT ![r.key] = Append(@, r.vote)]
  /\ UNCHANGED <<prop, signedProp>>
  /\ Record(r)

RecordBlock(r) ==
  /\ "slot" \in DOMAIN r
  /\ RecordSlot(r.key, r.slot)
  /\ orphaned' = IF prop[r.key] = NoRecord THEN orphaned \cup {r.key} ELSE orphaned
  /\ signedProp' = IF remote THEN signedProp
                   ELSE [signedProp EXCEPT ![r.key] = Append(@, r.slot)]
  /\ UNCHANGED <<att, signedAtt>>
  /\ Record(r)

\* The remote signer signs for the keys it holds; otherwise, or when the call
\* fails, the recorded vote stays unused.
RemoteSign(r) ==
  /\ r \in requests
  /\ requests' = requests \ {r}
  /\ \/ /\ r.key \in held /\ "vote" \in DOMAIN r
        /\ signedAtt' = [signedAtt EXCEPT ![r.key] = Append(@, r.vote)]
        /\ UNCHANGED signedProp
     \/ /\ r.key \in held /\ "slot" \in DOMAIN r
        /\ signedProp' = [signedProp EXCEPT ![r.key] = Append(@, r.slot)]
        /\ UNCHANGED signedAtt
     \/ UNCHANGED <<signedAtt, signedProp>>
  /\ UNCHANGED <<now, remote, ongoing, dbVars, shares, held, txnVars, written, checked, skipped,
                 bounds, began, removed, exceptions>>

-----------------------------------------------------------------------------
\* A beacon node names votes of the current epoch, or of the one before for a
\* duty that is late; two beacon nodes may disagree on the source.
BeaconVotes ==
  {v \in Vote : v.source < v.target /\ v.target \in {CurrentEpoch - 1, CurrentEpoch}}
BlockSlots == {s \in Slot : s \in {now - 1, now}}

NextSlot ==
  /\ Advance
  /\ UNCHANGED <<remote, ongoing, dbVars, shares, held, txnVars, written, checked, requests,
                 skipped, bounds, historyVars>>

Next ==
  \/ NextSlot
  \/ BeginBlock \/ CommitBlock \/ CommitConflicts \/ BlockFails \/ SyncHistory
  \/ Restart /\ UNCHANGED held
  \/ \E k \in Keys :
       \/ AddShare(k) \/ AddShareFails(k)
       \/ RemoveShare(k) \/ RemoveShareFails(k)
       \/ BumpSlashingProtection(k) \/ HandleClusterLiquidated(k)
       \/ UpdateValidatorsMetadata(k)
       \/ \E v \in BeaconVotes : CheckAttestation(k, v)
       \/ \E s \in BlockSlots : CheckBlock(k, s)
  \/ \E r \in checked : RecordAttestation(r) \/ RecordBlock(r)
  \/ \E r \in requests : RemoteSign(r)

Spec == Init /\ [][Next]_vars

-----------------------------------------------------------------------------
(* What slashing protection promises.                                      *)

Surrounds(a, b) == a.source < b.source /\ b.target < a.target
SlashablePair(a, b) == a.target = b.target \/ Surrounds(a, b) \/ Surrounds(b, a)

\* No key signs a double vote, a surrounding vote or two blocks for a slot,
\* through restarts, a share's removal and return, bumps by transactions and
\* remote requests sent out of order (signBeaconObject, prepareSignRequest,
\* BumpSlashingProtectionTxn).  Excepted are keys whose record a commit moved
\* backwards: see LoweredOnlyWhenReadded.
NoSlashableSignatures ==
  \A k \in Keys \ lowered :
    /\ \A i, j \in DOMAIN signedAtt[k] :
         i # j => ~SlashablePair(signedAtt[k][i], signedAtt[k][j])
    /\ \A i, j \in DOMAIN signedProp[k] :
         i # j => signedProp[k][i] # signedProp[k][j]

\* A commit moves a record backwards only for a share that its block removed and
\* added again, whose bump reads no record, and only if the clock moved while
\* the transaction was open: a vote of a later slot was recorded directly in
\* between.  Every other such commit is refused (updateHighestAttestation,
\* updateHighestProposal, txn.Commit).
LoweredOnlyWhenReadded ==
  [][\A k \in lowered' \ lowered :
       began < now /\ k \in removed]_vars

\* A share in the database has both of its slashing protection records and can
\* sign, whatever the node dies between; excepted is one that was saved, by the
\* metadata syncer or a cluster's event, and its creation was not committed.  A
\* record without a share is left only by a signer that had made its check when
\* the removal was committed (AddShare, RemoveShare, handleShareCreation,
\* UpdateHighestAttestation, txn.Commit).
RecordsFollowShares ==
  \A k \in Keys :
    /\ k \in stored \ early => att[k] # NoRecord /\ prop[k] # NoRecord
    /\ k \notin stored \cup orphaned => att[k] = NoRecord /\ prop[k] = NoRecord

\* A share is dropped as malformed only when its key material is: no answer of
\* the remote signer makes the node skip the registration of a good share
\* (handleImportKeystoreErr, AddValidators).
OnlyMalformedSkipped == skipped \subseteq Malformed
=============================================================================
