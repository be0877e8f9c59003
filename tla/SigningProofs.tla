--------------------------- MODULE SigningProofs ----------------------------
(***************************************************************************)
(* Proofs about the two guards of a signature: the slashing protection of  *)
(* KeyManager, for every set of keys, every clock and any number of        *)
(* signatures, blocks and restarts; and Doppelganger, for every set of     *)
(* validators, every length of an epoch and any number of restarts.  They  *)
(* share the clock.                                                        *)
(***************************************************************************)
EXTENDS KeyManager, Doppelganger, SequenceTheorems, FiniteSetTheorems, TLAPS

-----------------------------------------------------------------------------
(* Slashing protection: the inductive invariant.                           *)

Covers(record, v) == v.source <= record.source /\ v.target <= record.target
Above(v, w) == w.source <= v.source /\ w.target < v.target

VoteRequest(k, v) == [key |-> k, vote |-> v]
BlockRequest(k, s) == [key |-> k, slot |-> s]

\* What k signed or may still sign.
VotedFor(k, v) ==
  \/ \E i \in DOMAIN signedAtt[k] : signedAtt[k][i] = v
  \/ VoteRequest(k, v) \in requests
ProposedAt(k, s) ==
  \/ \E i \in DOMAIN signedProp[k] : signedProp[k][i] = s
  \/ BlockRequest(k, s) \in requests

AttWritten(k) == k \in DOMAIN wrAtt /\ wrAtt[k] # NoRecord
PropWritten(k) == k \in DOMAIN wrProp /\ wrProp[k] # NoRecord

\* A transaction's reads and writes go with it.
WritesInTxn ==
  ~inTxn => /\ DOMAIN wrShares = {} /\ DOMAIN wrAtt = {} /\ DOMAIN wrProp = {}
            /\ reads = {} /\ removed = {}

\* Beacon nodes name votes and blocks of the present or the past only.
CheckedBehindClock ==
  \A k \in Keys :
    /\ \A v \in Vote : VoteRequest(k, v) \in checked => v.source < v.target /\ v.target <= CurrentEpoch
    /\ \A s \in Slot : BlockRequest(k, s) \in checked => s <= now

SignedBehindClock ==
  \A k \in Keys :
    /\ \A v \in Vote : VotedFor(k, v) => v.source < v.target /\ v.target <= CurrentEpoch
    /\ \A s \in Slot : ProposedAt(k, s) => s <= now

\* One vote and one block of a key are checked and not recorded at a time, and
\* they stay above what the key signed or may still sign, whatever is committed
\* between the check and the record.
CheckedOnce ==
  \A k \in Keys :
    /\ \A v, w \in Vote : VoteRequest(k, v) \in checked /\ VoteRequest(k, w) \in checked => v = w
    /\ \A s, u \in Slot : BlockRequest(k, s) \in checked /\ BlockRequest(k, u) \in checked => s = u

CheckedAbove ==
  \A k \in Keys \ lowered :
    /\ \A v, w \in Vote : VoteRequest(k, v) \in checked /\ VotedFor(k, w) => Above(v, w)
    /\ \A s, u \in Slot : BlockRequest(k, s) \in checked /\ ProposedAt(k, u) => u < s

\* A record covers what its key signed or was asked for, and so does the one
\* that an open transaction wrote for a key without a record: such a key signs
\* nothing, so the minimum at the time of the bump stays above its votes.
RecordsCover ==
  \A k \in Keys \ lowered :
    /\ \A v \in Vote : VotedFor(k, v) /\ att[k] # NoRecord => Covers(att[k], v)
    /\ \A s \in Slot : ProposedAt(k, s) /\ prop[k] # NoRecord => s <= prop[k]

WritesCover ==
  \A k \in Keys \ lowered :
    /\ \A v \in Vote :
         VotedFor(k, v) /\ att[k] = NoRecord /\ AttWritten(k) => Covers(wrAtt[k], v)
    /\ \A s \in Slot :
         ProposedAt(k, s) /\ prop[k] = NoRecord /\ PropWritten(k) => s <= wrProp[k]

\* The requests under way are safe, with what is signed and with each other,
\* in whatever order the remote signer takes them.
RequestsAreSafe ==
  \A k \in Keys \ lowered :
    /\ \A v \in Vote : VoteRequest(k, v) \in requests =>
         /\ \A i \in DOMAIN signedAtt[k] : ~SlashablePair(signedAtt[k][i], v)
         /\ \A w \in Vote : VoteRequest(k, w) \in requests /\ v # w => ~SlashablePair(v, w)
    /\ \A s \in Slot : BlockRequest(k, s) \in requests =>
         \A i \in DOMAIN signedProp[k] : signedProp[k][i] # s

SafetyInv ==
  /\ TypeOK
  /\ CheckedBehindClock
  /\ SignedBehindClock
  /\ CheckedOnce
  /\ CheckedAbove
  /\ RecordsCover
  /\ WritesCover
  /\ RequestsAreSafe
  /\ NoSlashableSignatures

\* What the commit will make of the shares, and what the transaction reads of
\* the records: what RecordsFollowShares says of the database.
Kept(k) == IF k \in DOMAIN wrShares THEN wrShares[k] ELSE k \in stored

ReadsFollowShares ==
  \A k \in Keys :
    /\ k \notin early /\ (k \in shares \/ Kept(k)) => ReadAtt(k) # NoRecord /\ ReadProp(k) # NoRecord
    /\ k \notin orphaned /\ ~Kept(k) => ReadAtt(k) = NoRecord /\ ReadProp(k) = NoRecord
    /\ k \in DOMAIN wrShares /\ ~Kept(k) => ReadAtt(k) = NoRecord /\ ReadProp(k) = NoRecord
                                           /\ k \in DOMAIN wrAtt /\ k \in DOMAIN wrProp

\* No record is ahead of the clock, and what a transaction wrote is the
\* minimum of the present slot for as long as the clock stands still.
RecordsBehindClock ==
  \A k \in Keys :
    /\ att[k] # NoRecord => Covers(MinimalVote(CurrentEpoch), att[k])
    /\ AttWritten(k) => Covers(MinimalVote(CurrentEpoch), wrAtt[k])
    /\ prop[k] # NoRecord => prop[k] <= now
    /\ PropWritten(k) => wrProp[k] <= now

WritesAreMinimal ==
  inTxn =>
    /\ began <= now
    /\ began = now =>
         \A k \in Keys : /\ AttWritten(k) => wrAtt[k] = MinimalVote(CurrentEpoch)
                         /\ PropWritten(k) => wrProp[k] = now

\* A transaction writes a record it read, or one it removed itself, and what it
\* wrote is above what is there unless that was written meanwhile.
WritesAreTracked ==
  \A k \in Keys : k \in DOMAIN wrAtt \/ k \in DOMAIN wrProp => k \in reads \cup removed

WritesRaise ==
  \A k \in Keys \ written :
    /\ AttWritten(k) /\ att[k] # NoRecord => Covers(wrAtt[k], att[k])
    /\ PropWritten(k) /\ prop[k] # NoRecord => prop[k] <= wrProp[k]

-----------------------------------------------------------------------------
(* The clock, the minimum and the writes of a transaction.                 *)

LEMMA EpochMonotone ==
  ASSUME NEW a \in Nat, NEW b \in Nat, a <= b
  PROVE  Epoch(a) \in Nat /\ Epoch(b) \in Nat /\ Epoch(a) <= Epoch(b)
<1>1. ASSUME NEW S \in Nat \ {0}, NEW x \in Nat, NEW y \in Nat, x <= y
      PROVE  x \div S \in Nat /\ y \div S \in Nat /\ x \div S <= y \div S
  BY <1>1
<1> QED BY <1>1, ClockAssumption DEF Epoch

LEMMA CurrentEpochType ==
  ASSUME now \in Slot
  PROVE  /\ CurrentEpoch \in Nat /\ CurrentEpoch <= Epoch(MaxSlot)
         /\ Epoch(MaxSlot) \in Nat
BY EpochMonotone, ClockAssumption DEF Slot, CurrentEpoch

LEMMA MinimalVoteType ==
  ASSUME now \in Slot
  PROVE  MinimalVote(CurrentEpoch) \in Vote
<1>1. CurrentEpoch \in Nat /\ CurrentEpoch <= Epoch(MaxSlot) /\ Epoch(MaxSlot) \in Nat
  BY CurrentEpochType
<1> HIDE DEF CurrentEpoch
<1> QED BY <1>1 DEF MinimalVote, Vote

\* The minimum covers every vote a beacon node may have named so far.
LEMMA MinimalVoteCovers ==
  ASSUME now \in Slot, NEW v \in Vote, v.source < v.target, v.target <= CurrentEpoch
  PROVE  Covers(MinimalVote(CurrentEpoch), v)
<1>1. CurrentEpoch \in Nat /\ Epoch(MaxSlot) \in Nat
  BY CurrentEpochType
<1>2. v.source \in Nat /\ v.target \in Nat
  BY <1>1 DEF Vote
<1> QED BY <1>1, <1>2 DEF MinimalVote, Covers

LEMMA CoversTransitive ==
  ASSUME NEW a \in Vote, NEW b \in Vote, NEW c \in Vote, Covers(a, b), Covers(b, c),
         Epoch(MaxSlot) \in Nat
  PROVE  Covers(a, c)
BY DEF Covers, Vote

\* A vote above a record is safe with every vote that the record covers, and
\* the record raised by it covers both (IsAttestationSlashable, RecordVote).
LEMMA VoteAboveRecord ==
  ASSUME NEW a \in Vote, NEW v \in Vote, NEW w \in Vote, Epoch(MaxSlot) \in Nat,
         v.source >= a.source, v.target > a.target, Covers(a, w)
  PROVE  Above(v, w)
BY DEF Vote, Covers, Above

LEMMA AboveIsSafe ==
  ASSUME NEW v \in Vote, NEW w \in Vote, Epoch(MaxSlot) \in Nat, Above(v, w)
  PROVE  v # w /\ ~SlashablePair(v, w) /\ ~SlashablePair(w, v) /\ Covers(v, w)
BY DEF Vote, Covers, Above, SlashablePair, Surrounds

LEMMA RaisedRecord ==
  ASSUME NEW a \in Vote, NEW v \in Vote, Epoch(MaxSlot) \in Nat
  PROVE  LET r == [source |-> Higher(a.source, v.source),
                   target |-> Higher(a.target, v.target)]
         IN  r \in Vote /\ Covers(r, a) /\ Covers(r, v)
BY DEF Vote, Covers, Higher

LEMMA AttWritesType ==
  ASSUME NEW w
  PROVE  w \in AttWrites <=> /\ DOMAIN w \subseteq Keys
                             /\ w \in [DOMAIN w -> Vote \cup {NoRecord}]
BY DEF AttWrites

LEMMA PropWritesType ==
  ASSUME NEW w
  PROVE  w \in PropWrites <=> /\ DOMAIN w \subseteq Keys
                              /\ w \in [DOMAIN w -> Slot \cup {NoRecord}]
BY DEF PropWrites

LEMMA ShareWritesType ==
  ASSUME NEW w
  PROVE  w \in ShareWrites <=> DOMAIN w \subseteq Keys /\ w \in [DOMAIN w -> BOOLEAN]
BY DEF ShareWrites

LEMMA WrittenSharesType ==
  ASSUME NEW w \in ShareWrites, NEW k \in Keys, NEW b \in BOOLEAN
  PROVE  Written(w, k, b) \in ShareWrites
<1> DEFINE u == Written(w, k, b)
<1>1. DOMAIN w \subseteq Keys /\ w \in [DOMAIN w -> BOOLEAN]
  BY ShareWritesType
<1>2. DOMAIN u = DOMAIN w \cup {k} /\ u \in [DOMAIN w \cup {k} -> BOOLEAN]
  BY <1>1 DEF Written
<1>3. DOMAIN u \subseteq Keys /\ u \in [DOMAIN u -> BOOLEAN]
  BY <1>1, <1>2
<1> QED BY <1>3, ShareWritesType

LEMMA WrittenAttType ==
  ASSUME NEW w \in AttWrites, NEW k \in Keys, NEW r \in Vote \cup {NoRecord}
  PROVE  Written(w, k, r) \in AttWrites
<1> DEFINE u == Written(w, k, r)
<1>1. DOMAIN w \subseteq Keys /\ w \in [DOMAIN w -> Vote \cup {NoRecord}]
  BY AttWritesType
<1>2. DOMAIN u = DOMAIN w \cup {k} /\ u \in [DOMAIN w \cup {k} -> Vote \cup {NoRecord}]
  BY <1>1 DEF Written
<1>3. DOMAIN u \subseteq Keys /\ u \in [DOMAIN u -> Vote \cup {NoRecord}]
  BY <1>1, <1>2
<1> QED BY <1>3, AttWritesType

LEMMA WrittenPropType ==
  ASSUME NEW w \in PropWrites, NEW k \in Keys, NEW r \in Slot \cup {NoRecord}
  PROVE  Written(w, k, r) \in PropWrites
<1> DEFINE u == Written(w, k, r)
<1>1. DOMAIN w \subseteq Keys /\ w \in [DOMAIN w -> Slot \cup {NoRecord}]
  BY PropWritesType
<1>2. DOMAIN u = DOMAIN w \cup {k} /\ u \in [DOMAIN w \cup {k} -> Slot \cup {NoRecord}]
  BY <1>1 DEF Written
<1>3. DOMAIN u \subseteq Keys /\ u \in [DOMAIN u -> Slot \cup {NoRecord}]
  BY <1>1, <1>2
<1> QED BY <1>3, PropWritesType

LEMMA NoWritesType ==
  /\ NoWrites \in ShareWrites /\ NoWrites \in AttWrites /\ NoWrites \in PropWrites
  /\ DOMAIN NoWrites = {}
<1>1. DOMAIN NoWrites = {}
  BY DEF NoWrites
<1>2. /\ NoWrites \in [{} -> Vote \cup {NoRecord}] /\ NoWrites \in [{} -> Slot \cup {NoRecord}]
      /\ NoWrites \in [{} -> BOOLEAN]
  BY DEF NoWrites
<1> QED BY <1>1, <1>2, ShareWritesType, AttWritesType, PropWritesType

\* A transaction reads what it wrote last, and a bump leaves a record there.
LEMMA ReadType ==
  ASSUME TypeOK, NEW k \in Keys
  PROVE  /\ ReadAtt(k) \in Vote \cup {NoRecord}
         /\ ReadProp(k) \in Slot \cup {NoRecord}
BY AttWritesType, PropWritesType DEF TypeOK, ReadAtt, ReadProp, Over

LEMMA OverType ==
  ASSUME TypeOK
  PROVE  /\ Over(wrAtt, att) \in [Keys -> Vote \cup {NoRecord}]
         /\ Over(wrProp, prop) \in [Keys -> Slot \cup {NoRecord}]
BY AttWritesType, PropWritesType DEF TypeOK, Over

LEMMA BumpedType ==
  ASSUME TypeOK, NEW k \in Keys
  PROVE  BumpedAtt(k) \in AttWrites /\ BumpedProp(k) \in PropWrites
<1>1. now \in Slot /\ wrAtt \in AttWrites /\ wrProp \in PropWrites
  BY DEF TypeOK
<1>2. Written(wrAtt, k, MinimalVote(CurrentEpoch)) \in AttWrites
  BY <1>1, MinimalVoteType, WrittenAttType
<1>3. Written(wrProp, k, now) \in PropWrites
  BY <1>1, WrittenPropType
<1> QED BY <1>1, <1>2, <1>3 DEF BumpedAtt, BumpedProp

\* Appending to the sequence of one key.
LEMMA AppendedFor ==
  ASSUME NEW S, NEW f \in [Keys -> Seq(S)], NEW k \in Keys, NEW x \in S,
         NEW g, g = [f EXCEPT ![k] = Append(@, x)]
  PROVE  /\ g \in [Keys -> Seq(S)]
         /\ \A j \in Keys \ {k} : g[j] = f[j]
         /\ Len(f[k]) + 1 \notin DOMAIN f[k]
         /\ DOMAIN g[k] = DOMAIN f[k] \cup {Len(f[k]) + 1}
         /\ \A i \in DOMAIN f[k] : g[k][i] = f[k][i]
         /\ g[k][Len(f[k]) + 1] = x
<1>1. f[k] \in Seq(S) /\ Len(f[k]) \in Nat /\ DOMAIN f[k] = 1 .. Len(f[k])
  OBVIOUS
<1>2. /\ Append(f[k], x) \in Seq(S)
      /\ Len(Append(f[k], x)) = Len(f[k]) + 1
      /\ \A i \in 1 .. Len(f[k]) : Append(f[k], x)[i] = f[k][i]
      /\ Append(f[k], x)[Len(f[k]) + 1] = x
  BY <1>1, AppendProperties
<1>3. DOMAIN Append(f[k], x) = DOMAIN f[k] \cup {Len(f[k]) + 1}
  BY <1>1, <1>2
<1>4. g \in [Keys -> Seq(S)] /\ g[k] = Append(f[k], x) /\ \A j \in Keys \ {k} : g[j] = f[j]
  BY <1>2
<1> QED BY <1>1, <1>2, <1>3, <1>4

-----------------------------------------------------------------------------
(* Type correctness.                                                       *)

LEMMA InitType == Init => TypeOK
<1> SUFFICES ASSUME Init PROVE TypeOK
  OBVIOUS
<1>1. 0 \in Slot /\ 0 \in 0 .. MaxBlocks /\ 0 \in 0 .. MaxCrashes
  BY ClockAssumption, KeyManagerAssumption DEF Slot
<1>2. signedAtt \in [Keys -> Seq(Vote)] /\ signedProp \in [Keys -> Seq(Slot)]
  BY DEF Init
<1>3. wrShares \in ShareWrites /\ wrAtt \in AttWrites /\ wrProp \in PropWrites
  BY NoWritesType DEF Init
<1> QED BY <1>1, <1>2, <1>3 DEF Init, TypeOK

\* What a failure of the block leaves alone, whether the process dies or not.
TxnLost ==
  /\ CloseTxn
  /\ checked' \subseteq checked /\ requests' \subseteq requests
  /\ UNCHANGED <<now, stored, att, prop, skipped, blocks, signedAtt, signedProp, began, lowered,
                 orphaned>>

LEMMA TxnLostStep ==
  ASSUME NEW memory, Restart \/ Retry(memory)
  PROVE  TxnLost
BY DEF TxnLost, Restart, Retry, dbVars, signedVars

\* The ways a block fails.
LEMMA FailureCases ==
  ASSUME TypeOK, NEW k \in Keys,
         \/ CommitConflicts \/ BlockFails \/ (Restart /\ UNCHANGED held)
         \/ AddShareFails(k) \/ RemoveShareFails(k)
  PROVE  /\ Restart \/ \E memory \in SUBSET shares : Retry(memory)
         /\ held' \subseteq Keys
BY DEF TypeOK, CommitConflicts, BlockFails, AddShareFails, RemoveShareFails

LEMMA FailureType ==
  ASSUME TypeOK, NEW memory \in SUBSET shares, Restart \/ Retry(memory), held' \subseteq Keys
  PROVE  TypeOK'
<1>1. crashes' \in 0 .. MaxCrashes
  BY KeyManagerAssumption DEF TypeOK, Restart, Retry, Fail
<1>2. /\ remote' = remote /\ ongoing' \in BOOLEAN /\ shares' \subseteq Keys /\ early' \subseteq Keys
  BY DEF TypeOK, Restart, Retry
<1>3. TxnLost
  BY TxnLostStep
<1> QED
  BY <1>1, <1>2, <1>3, NoWritesType DEF TypeOK, TxnLost, CloseTxn

LEMMA SaveShareType ==
  ASSUME TypeOK, NEW k \in Keys, SaveShare(k)
  PROVE  shares' \subseteq Keys /\ wrShares' \in ShareWrites
BY WrittenSharesType DEF TypeOK, SaveShare

LEMMA BumpType ==
  ASSUME TypeOK, NEW k \in Keys, Bump(k)
  PROVE  wrAtt' \in AttWrites /\ wrProp' \in PropWrites /\ reads' \subseteq Keys
BY BumpedType DEF TypeOK, Bump, Tracked

\* AddShare drops the share or saves it with its bump.
LEMMA AddShareCases ==
  ASSUME NEW k \in Keys, AddShare(k)
  PROVE  \/ /\ UNCHANGED <<held, shares, wrShares, wrAtt, wrProp, reads>>
            /\ skipped' = skipped \cup {k}
         \/ Bump(k) /\ SaveShare(k) /\ held' = held \cup {k} /\ skipped' = skipped
BY DEF AddShare, AddShareLocal, AddShareRemote

LEMMA AddShareType ==
  ASSUME TypeOK, NEW k \in Keys, AddShare(k)
  PROVE  TypeOK'
<1>1. /\ wrShares' \in ShareWrites /\ wrAtt' \in AttWrites /\ wrProp' \in PropWrites
      /\ reads' \subseteq Keys /\ held' \subseteq Keys /\ shares' \subseteq Keys
      /\ skipped' \subseteq Keys
  BY AddShareCases, BumpType, SaveShareType DEF TypeOK
<1> QED BY <1>1 DEF TypeOK, AddShare, dbVars, bounds, historyVars, signedVars, exceptions

LEMMA RecordVoteType ==
  ASSUME TypeOK, NEW k \in Keys, NEW v \in Vote, RecordVote(k, v)
  PROVE  /\ att' \in [Keys -> Vote \cup {NoRecord}]
         /\ att'[k] \in Vote /\ Covers(att'[k], v)
         /\ \/ att'[k] = v
            \/ /\ att[k] \in Vote
               /\ att'[k].source \in {att[k].source, v.source}
               /\ att'[k].target \in {att[k].target, v.target}
         /\ \A j \in Keys \ {k} : att'[j] = att[j]
<1>1. att \in [Keys -> Vote \cup {NoRecord}] /\ Epoch(MaxSlot) \in Nat
  BY CurrentEpochType DEF TypeOK
<1> DEFINE r == [source |-> Higher(att[k].source, v.source),
                 target |-> Higher(att[k].target, v.target)]
<1>2. att[k] # NoRecord => att[k] \in Vote /\ r \in Vote /\ Covers(r, v)
  BY <1>1, RaisedRecord
<1>3. Covers(v, v)
  BY <1>1 DEF Covers, Vote
<1>4. r.source \in {att[k].source, v.source} /\ r.target \in {att[k].target, v.target}
  BY DEF Higher
<1>5. att' = [att EXCEPT ![k] = v] \/ (att[k] # NoRecord /\ att' = [att EXCEPT ![k] = r])
  BY DEF RecordVote
<1> HIDE DEF r
<1> QED BY <1>1, <1>2, <1>3, <1>4, <1>5

LEMMA RecordSlotType ==
  ASSUME TypeOK, NEW k \in Keys, NEW s \in Slot, RecordSlot(k, s)
  PROVE  /\ prop' \in [Keys -> Slot \cup {NoRecord}]
         /\ prop'[k] \in Slot /\ s <= prop'[k]
         /\ prop'[k] = s \/ (prop[k] \in Slot /\ prop'[k] = prop[k])
         /\ \A j \in Keys \ {k} : prop'[j] = prop[j]
<1>1. prop \in [Keys -> Slot \cup {NoRecord}] /\ \A u \in Slot : u \in Nat
  BY ClockAssumption DEF TypeOK, Slot
<1>2. prop[k] # NoRecord => /\ prop[k] \in Slot
                            /\ Higher(prop[k], s) \in {prop[k], s} /\ s <= Higher(prop[k], s)
  BY <1>1 DEF Higher
<1>3. \/ prop' = [prop EXCEPT ![k] = s]
      \/ prop[k] # NoRecord /\ prop' = [prop EXCEPT ![k] = Higher(prop[k], s)]
  BY DEF RecordSlot
<1>4. s <= s
  BY <1>1
<1> QED BY <1>1, <1>2, <1>3, <1>4

\* What a signing step appends.
SignedVote(k, v) ==
  signedAtt' = [signedAtt EXCEPT ![k] = Append(@, v)] /\ signedProp' = signedProp
SignedSlot(k, s) ==
  signedProp' = [signedProp EXCEPT ![k] = Append(@, s)] /\ signedAtt' = signedAtt

LEMMA RequestCases ==
  ASSUME TypeOK, NEW r \in checked \cup requests
  PROVE  \/ /\ "vote" \in DOMAIN r /\ "slot" \notin DOMAIN r
            /\ r.key \in Keys /\ r.vote \in Vote /\ r = VoteRequest(r.key, r.vote)
         \/ /\ "slot" \in DOMAIN r /\ "vote" \notin DOMAIN r
            /\ r.key \in Keys /\ r.slot \in Slot /\ r = BlockRequest(r.key, r.slot)
<1>1. r \in [key : Keys, vote : Vote] \/ r \in [key : Keys, slot : Slot]
  BY DEF TypeOK, Request
<1>2. CASE r \in [key : Keys, vote : Vote]
  BY <1>2 DEF VoteRequest
<1>3. CASE r \in [key : Keys, slot : Slot]
  BY <1>3 DEF BlockRequest
<1> QED BY <1>1, <1>2, <1>3

LEMMA RemoteSignCases ==
  ASSUME TypeOK, NEW r \in requests, RemoteSign(r)
  PROVE  \/ \E k \in Keys, v \in Vote : r = VoteRequest(k, v) /\ SignedVote(k, v)
         \/ \E k \in Keys, s \in Slot : r = BlockRequest(k, s) /\ SignedSlot(k, s)
         \/ UNCHANGED <<signedAtt, signedProp>>
BY RequestCases DEF RemoteSign, SignedVote, SignedSlot

\* What recording a checked vote or block does.
VoteRecorded(k, v) ==
  /\ VoteRequest(k, v) \in checked /\ checked' = checked \ {VoteRequest(k, v)}
  /\ RecordVote(k, v)
  /\ orphaned' = IF att[k] = NoRecord THEN orphaned \cup {k} ELSE orphaned
  /\ written' = IF inTxn /\ att' # att THEN written \cup {k} ELSE written
  /\ \/ SignedVote(k, v) /\ UNCHANGED requests
     \/ UNCHANGED <<signedAtt, signedProp>> /\ requests' = requests \cup {VoteRequest(k, v)}
  /\ UNCHANGED <<now, remote, ongoing, stored, shares, held, prop, inTxn, wrShares, wrAtt, wrProp,
                 reads, skipped, blocks, crashes, began, removed, lowered, early>>

BlockRecorded(k, s) ==
  /\ BlockRequest(k, s) \in checked /\ checked' = checked \ {BlockRequest(k, s)}
  /\ RecordSlot(k, s)
  /\ orphaned' = IF prop[k] = NoRecord THEN orphaned \cup {k} ELSE orphaned
  /\ written' = IF inTxn /\ prop' # prop THEN written \cup {k} ELSE written
  /\ \/ SignedSlot(k, s) /\ UNCHANGED requests
     \/ UNCHANGED <<signedAtt, signedProp>> /\ requests' = requests \cup {BlockRequest(k, s)}
  /\ UNCHANGED <<now, remote, ongoing, stored, shares, held, att, inTxn, wrShares, wrAtt, wrProp,
                 reads, skipped, blocks, crashes, began, removed, lowered, early>>

LEMMA RecordCases ==
  ASSUME TypeOK, NEW r \in checked, RecordAttestation(r) \/ RecordBlock(r)
  PROVE  \/ \E k \in Keys, v \in Vote : VoteRecorded(k, v)
         \/ \E k \in Keys, s \in Slot : BlockRecorded(k, s)
<1>1. CASE RecordAttestation(r)
  <2>1. r.key \in Keys /\ r.vote \in Vote /\ r = VoteRequest(r.key, r.vote)
    BY <1>1, RequestCases DEF RecordAttestation
  <2>2. VoteRecorded(r.key, r.vote)
    BY <1>1, <2>1
    DEF RecordAttestation, Record, VoteRecorded, SignedVote, txnVars, bounds
  <2> QED BY <2>1, <2>2
<1>2. CASE RecordBlock(r)
  <2>1. r.key \in Keys /\ r.slot \in Slot /\ r = BlockRequest(r.key, r.slot)
    BY <1>2, RequestCases DEF RecordBlock
  <2>2. BlockRecorded(r.key, r.slot)
    BY <1>2, <2>1
    DEF RecordBlock, Record, BlockRecorded, SignedSlot, txnVars, bounds
  <2> QED BY <2>1, <2>2
<1> QED BY <1>1, <1>2

LEMMA SignedVoteType ==
  ASSUME TypeOK, NEW k \in Keys, NEW v \in Vote, SignedVote(k, v)
  PROVE  signedAtt' \in [Keys -> Seq(Vote)] /\ signedProp' \in [Keys -> Seq(Slot)]
<1>1. signedAtt \in [Keys -> Seq(Vote)] /\ signedProp \in [Keys -> Seq(Slot)]
  BY DEF TypeOK
<1> QED BY <1>1, AppendedFor DEF SignedVote

LEMMA SignedSlotType ==
  ASSUME TypeOK, NEW k \in Keys, NEW s \in Slot, SignedSlot(k, s)
  PROVE  signedAtt' \in [Keys -> Seq(Vote)] /\ signedProp' \in [Keys -> Seq(Slot)]
<1>1. signedAtt \in [Keys -> Seq(Vote)] /\ signedProp \in [Keys -> Seq(Slot)]
  BY DEF TypeOK
<1> QED BY <1>1, AppendedFor DEF SignedSlot

LEMMA RecordType ==
  ASSUME TypeOK, NEW r \in checked, RecordAttestation(r) \/ RecordBlock(r)
  PROVE  TypeOK'
<1>1. ASSUME NEW k \in Keys, NEW v \in Vote, VoteRecorded(k, v) PROVE TypeOK'
  <2>1. att' \in [Keys -> Vote \cup {NoRecord}]
    BY <1>1, RecordVoteType DEF VoteRecorded
  <2>2. signedAtt' \in [Keys -> Seq(Vote)] /\ signedProp' \in [Keys -> Seq(Slot)]
    BY <1>1, SignedVoteType DEF VoteRecorded, TypeOK
  <2>3. \A q \in checked' \cup requests' : q \in Request
    BY <1>1 DEF TypeOK, VoteRecorded, VoteRequest, Request
  <2>4. orphaned' \subseteq Keys /\ written' \subseteq Keys
    BY <1>1 DEF TypeOK, VoteRecorded
  <2> QED BY <1>1, <2>1, <2>2, <2>3, <2>4 DEF TypeOK, VoteRecorded
<1>2. ASSUME NEW k \in Keys, NEW s \in Slot, BlockRecorded(k, s) PROVE TypeOK'
  <2>1. prop' \in [Keys -> Slot \cup {NoRecord}]
    BY <1>2, RecordSlotType DEF BlockRecorded
  <2>2. signedAtt' \in [Keys -> Seq(Vote)] /\ signedProp' \in [Keys -> Seq(Slot)]
    BY <1>2, SignedSlotType DEF BlockRecorded, TypeOK
  <2>3. \A q \in checked' \cup requests' : q \in Request
    BY <1>2 DEF TypeOK, BlockRecorded, BlockRequest, Request
  <2>4. orphaned' \subseteq Keys /\ written' \subseteq Keys
    BY <1>2 DEF TypeOK, BlockRecorded
  <2> QED BY <1>2, <2>1, <2>2, <2>3, <2>4 DEF TypeOK, BlockRecorded
<1> QED BY <1>1, <1>2, RecordCases

LEMMA TypeStep ==
  ASSUME TypeOK, [Next]_vars
  PROVE  TypeOK'
<1> USE DEF dbVars, txnVars, bounds, signedVars, exceptions, historyVars
<1>1. CASE UNCHANGED vars
  BY <1>1 DEF TypeOK, vars
<1>2. CASE NextSlot
  <2>1. now' \in Slot
    BY <1>2, ClockAssumption DEF TypeOK, NextSlot, Advance, Slot
  <2> QED BY <1>2, <2>1 DEF TypeOK, NextSlot
<1>3. CASE BeginBlock
  BY <1>3, KeyManagerAssumption DEF TypeOK, BeginBlock
<1>4. CASE CommitBlock
  BY <1>4, OverType, NoWritesType DEF TypeOK, CommitBlock, CloseTxn
<1>5. ASSUME NEW k \in Keys,
             \/ CommitConflicts \/ BlockFails \/ (Restart /\ UNCHANGED held)
             \/ AddShareFails(k) \/ RemoveShareFails(k)
      PROVE  TypeOK'
  BY <1>5, FailureCases, FailureType
<1>6. ASSUME NEW k \in Keys, AddShare(k) PROVE TypeOK'
  BY <1>6, AddShareType
<1>7. ASSUME NEW k \in Keys, RemoveShare(k) PROVE TypeOK'
  <2>1. wrShares' \in ShareWrites /\ wrAtt' \in AttWrites /\ wrProp' \in PropWrites
    BY <1>7, WrittenSharesType, WrittenAttType, WrittenPropType DEF TypeOK, RemoveShare
  <2> QED BY <1>7, <2>1 DEF TypeOK, RemoveShare
<1>8. ASSUME NEW k \in Keys, BumpSlashingProtection(k) PROVE TypeOK'
  <2>1. /\ wrAtt' \in AttWrites /\ wrProp' \in PropWrites /\ reads' \subseteq Keys
        /\ shares' \subseteq Keys /\ wrShares' \in ShareWrites
    BY <1>8, BumpType, SaveShareType DEF BumpSlashingProtection
  <2> QED BY <1>8, <2>1 DEF TypeOK, BumpSlashingProtection
<1>9. ASSUME NEW k \in Keys, HandleClusterLiquidated(k) PROVE TypeOK'
  <2>1. shares' \subseteq Keys /\ wrShares' \in ShareWrites
    BY <1>9, SaveShareType DEF HandleClusterLiquidated
  <2> QED BY <1>9, <2>1 DEF TypeOK, HandleClusterLiquidated
<1>10. ASSUME NEW k \in Keys, UpdateValidatorsMetadata(k) PROVE TypeOK'
  BY <1>10 DEF TypeOK, UpdateValidatorsMetadata
<1>11. ASSUME NEW k \in Keys, NEW v \in BeaconVotes, CheckAttestation(k, v) PROVE TypeOK'
  <2>1. \A r \in checked' \cup requests' : r \in Request
    BY <1>11 DEF TypeOK, CheckAttestation, BeaconVotes, Request
  <2> QED BY <1>11, <2>1 DEF TypeOK, CheckAttestation
<1>12. ASSUME NEW k \in Keys, NEW s \in BlockSlots, CheckBlock(k, s) PROVE TypeOK'
  <2>1. \A r \in checked' \cup requests' : r \in Request
    BY <1>12 DEF TypeOK, CheckBlock, BlockSlots, Request
  <2> QED BY <1>12, <2>1 DEF TypeOK, CheckBlock
<1>13. ASSUME NEW r \in checked, RecordAttestation(r) \/ RecordBlock(r) PROVE TypeOK'
  BY <1>13, RecordType
<1>14. ASSUME NEW r \in requests, RemoteSign(r) PROVE TypeOK'
  <2>1. signedAtt' \in [Keys -> Seq(Vote)] /\ signedProp' \in [Keys -> Seq(Slot)]
    BY <1>14, RemoteSignCases, SignedVoteType, SignedSlotType DEF TypeOK
  <2> QED BY <1>14, <2>1 DEF TypeOK, RemoteSign
<1>15. CASE SyncHistory
  BY <1>15 DEF TypeOK, SyncHistory
<1>16. CASE CommitConflicts \/ BlockFails \/ (Restart /\ UNCHANGED held)
  <2>1. CASE Keys = {}
    BY <1>16, <2>1, FailureType DEF TypeOK, CommitConflicts, BlockFails
  <2> QED BY <1>5, <1>16, <2>1
<1>17. ASSUME NEW k \in Keys, AddShareFails(k) \/ RemoveShareFails(k) PROVE TypeOK'
  BY <1>5, <1>17
<1> QED
  BY <1>1, <1>2, <1>3, <1>4, <1>6, <1>7, <1>8, <1>9, <1>10, <1>11, <1>12, <1>13, <1>14, <1>15,
     <1>16, <1>17
  DEF Next

\* Type correctness, through every kind of key manager and every crash.
THEOREM KeyManagerTypeOK == Spec => []TypeOK
BY InitType, TypeStep, PTL DEF Spec

-----------------------------------------------------------------------------
(* A share is skipped only when it is malformed, and records follow shares. *)

\* No answer of the remote signer turns a good share into a malformed one
\* (handleImportKeystoreErr).
LEMMA AddValidatorStatusIsTrue ==
  ASSUME NEW k, NEW upstream \in UpstreamAnswers
  PROVE  AddValidatorStatus(k, upstream) = MalformedShare <=> k \in Malformed
BY DEF AddValidatorStatus, ImportErrStatus, MalformedShare, UpstreamAnswers

\* Whatever the remote signer answers, only a malformed share is dropped.
THEOREM GoodSharesAreKept == Spec => []OnlyMalformedSkipped
<1>1. Init => OnlyMalformedSkipped
  BY DEF Init, OnlyMalformedSkipped
<1>2. TypeOK /\ OnlyMalformedSkipped /\ [Next]_vars => OnlyMalformedSkipped'
  <2> SUFFICES ASSUME TypeOK, OnlyMalformedSkipped, [Next]_vars PROVE OnlyMalformedSkipped'
    OBVIOUS
  <2>1. ASSUME NEW k \in Keys, AddShare(k) PROVE OnlyMalformedSkipped'
    BY <2>1, AddValidatorStatusIsTrue
    DEF OnlyMalformedSkipped, AddShare, AddShareLocal, AddShareRemote
  <2>2. ASSUME NEW memory, Restart \/ Retry(memory) PROVE UNCHANGED skipped
    BY <2>2, TxnLostStep DEF TxnLost
  <2>3. CASE UNCHANGED skipped
    BY <2>3 DEF OnlyMalformedSkipped
  <2> QED
    BY <2>1, <2>2, <2>3
    DEF Next, vars, NextSlot, BeginBlock, CommitBlock, CommitConflicts, BlockFails, SyncHistory,
        AddShareFails, RemoveShare, RemoveShareFails, BumpSlashingProtection,
        HandleClusterLiquidated, UpdateValidatorsMetadata, CheckAttestation, CheckBlock,
        RecordAttestation, RecordBlock, Record, RemoteSign
<1> QED BY <1>1, <1>2, KeyManagerTypeOK, PTL DEF Spec

\* What a transaction reads after it wrote, committed or was lost.
LEMMA ReadNothingWritten ==
  ASSUME TypeOK, NEW k \in Keys, DOMAIN wrAtt = {}, DOMAIN wrProp = {}
  PROVE  ReadAtt(k) = att[k] /\ ReadProp(k) = prop[k]
BY DEF ReadAtt, ReadProp, Over, TypeOK

LEMMA ReadBumped ==
  ASSUME TypeOK, NEW k \in Keys, Bump(k), UNCHANGED <<att, prop>>
  PROVE  /\ ReadAtt(k)' # NoRecord /\ ReadProp(k)' # NoRecord
         /\ \A j \in Keys \ {k} : ReadAtt(j)' = ReadAtt(j) /\ ReadProp(j)' = ReadProp(j)
<1>1. MinimalVote(CurrentEpoch) # NoRecord /\ now # NoRecord
  BY MinimalVoteType, KeyManagerAssumption DEF TypeOK
<1>2. \/ wrAtt' = wrAtt /\ ReadAtt(k) # NoRecord
      \/ wrAtt' = Written(wrAtt, k, MinimalVote(CurrentEpoch))
  BY DEF Bump, BumpedAtt
<1>3. \/ wrProp' = wrProp /\ ReadProp(k) # NoRecord
      \/ wrProp' = Written(wrProp, k, now)
  BY DEF Bump, BumpedProp
<1>4. ReadAtt(k)' # NoRecord /\ \A j \in Keys \ {k} : ReadAtt(j)' = ReadAtt(j)
  BY <1>1, <1>2 DEF ReadAtt, Over, Written
<1>5. ReadProp(k)' # NoRecord /\ \A j \in Keys \ {k} : ReadProp(j)' = ReadProp(j)
  BY <1>1, <1>3 DEF ReadProp, Over, Written
<1> QED BY <1>4, <1>5

RecordsInv == RecordsFollowShares /\ ReadsFollowShares /\ WritesInTxn

LEMMA RecordsInit == Init => RecordsInv
<1> SUFFICES ASSUME Init PROVE RecordsInv
  OBVIOUS
<1>1. TypeOK /\ DOMAIN wrShares = {} /\ DOMAIN wrAtt = {} /\ DOMAIN wrProp = {}
  BY InitType, NoWritesType DEF Init
<1>2. RecordsFollowShares
  BY DEF Init, RecordsFollowShares
<1> QED
  BY <1>1, <1>2, ReadNothingWritten
  DEF Init, RecordsInv, RecordsFollowShares, ReadsFollowShares, WritesInTxn, Kept

\* Once the transaction is closed its reads are the database's records.
LEMMA ReadClosed ==
  ASSUME TypeOK, CloseTxn
  PROVE  /\ DOMAIN wrShares' = {} /\ DOMAIN wrAtt' = {} /\ DOMAIN wrProp' = {}
         /\ \A k \in Keys : /\ ReadAtt(k)' = att'[k] /\ ReadProp(k)' = prop'[k]
                            /\ Kept(k)' <=> k \in stored'
         /\ WritesInTxn'
<1>1. DOMAIN wrShares' = {} /\ DOMAIN wrAtt' = {} /\ DOMAIN wrProp' = {}
  BY NoWritesType DEF CloseTxn
<1> QED BY <1>1 DEF CloseTxn, WritesInTxn, ReadAtt, ReadProp, Over, Kept

\* What the lost transaction created stays in memory as an exception.
LEMMA RecordsLost ==
  ASSUME TypeOK, RecordsInv, NEW memory, Restart \/ Retry(memory)
  PROVE  RecordsInv'
<1>1. CloseTxn /\ UNCHANGED <<stored, att, prop, orphaned>>
  BY TxnLostStep DEF TxnLost
<1>2. \A k \in Keys :
        /\ k \in stored' /\ k \notin early' => k \in stored /\ k \notin early
        /\ k \in shares' /\ k \notin early' => k \in stored /\ k \notin early
  BY DEF Restart, Retry, dbVars
<1>3. RecordsFollowShares'
  BY <1>1, <1>2 DEF RecordsInv, RecordsFollowShares
<1>4. ReadsFollowShares'
  BY <1>1, <1>2, ReadClosed DEF RecordsInv, RecordsFollowShares, ReadsFollowShares
<1> QED BY <1>1, <1>3, <1>4, ReadClosed DEF RecordsInv

LEMMA RecordsCommit ==
  ASSUME TypeOK, RecordsInv, CommitBlock
  PROVE  RecordsInv'
<1>1. /\ CloseTxn /\ shares' = shares
      /\ \A k \in Keys : /\ att'[k] = ReadAtt(k) /\ prop'[k] = ReadProp(k)
                         /\ k \in stored' <=> Kept(k)
  BY DEF CommitBlock, ReadAtt, ReadProp, Kept
<1>2. \A k \in Keys : k \notin early' => k \notin early \/ (att'[k] # NoRecord /\ prop'[k] # NoRecord)
  BY DEF CommitBlock
<1>3. \A k \in Keys : k \notin orphaned' => k \notin orphaned \/ k \in DOMAIN wrShares
  BY DEF CommitBlock
<1>4. \A k \in Keys :
        /\ k \notin early' /\ (k \in shares' \/ k \in stored') => att'[k] # NoRecord /\ prop'[k] # NoRecord
        /\ k \notin orphaned' /\ k \notin stored' => att'[k] = NoRecord /\ prop'[k] = NoRecord
  BY <1>1, <1>2, <1>3 DEF RecordsInv, ReadsFollowShares
<1>5. RecordsFollowShares'
  BY <1>4 DEF RecordsFollowShares
<1>6. ReadsFollowShares'
  BY <1>1, <1>4, ReadClosed DEF ReadsFollowShares
<1> QED BY <1>1, <1>5, <1>6, ReadClosed DEF RecordsInv

\* What SaveShare and a removal do to what the commit will make of the shares.
LEMMA KeptSaved ==
  ASSUME NEW k \in Keys, NEW b \in BOOLEAN, wrShares' = Written(wrShares, k, b), UNCHANGED stored
  PROVE  /\ Kept(k)' = b /\ DOMAIN wrShares' = DOMAIN wrShares \cup {k}
         /\ \A j \in Keys \ {k} : Kept(j)' = Kept(j)
BY DEF Kept, Written

LEMMA RecordsBump ==
  ASSUME TypeOK, RecordsInv, NEW k \in Keys, inTxn, Bump(k), SaveShare(k),
         UNCHANGED <<stored, att, prop, inTxn, early, orphaned>>
  PROVE  RecordsInv'
<1>1. /\ Kept(k)' /\ DOMAIN wrShares' = DOMAIN wrShares \cup {k} /\ shares' = shares \cup {k}
      /\ \A j \in Keys \ {k} : Kept(j)' = Kept(j)
  BY KeptSaved DEF SaveShare
<1>2. /\ ReadAtt(k)' # NoRecord /\ ReadProp(k)' # NoRecord
      /\ \A j \in Keys \ {k} : ReadAtt(j)' = ReadAtt(j) /\ ReadProp(j)' = ReadProp(j)
  BY ReadBumped
<1>3. DOMAIN wrAtt \subseteq DOMAIN wrAtt' /\ DOMAIN wrProp \subseteq DOMAIN wrProp'
  BY DEF Bump, BumpedAtt, BumpedProp, Written
<1>4. ReadsFollowShares'
  BY <1>1, <1>2, <1>3 DEF RecordsInv, ReadsFollowShares
<1> QED BY <1>4 DEF RecordsInv, RecordsFollowShares, WritesInTxn

LEMMA RecordsRecord ==
  ASSUME TypeOK, RecordsInv, NEW r \in checked, RecordAttestation(r) \/ RecordBlock(r)
  PROVE  RecordsInv'
<1>1. ASSUME NEW k \in Keys, NEW v \in Vote, VoteRecorded(k, v) PROVE RecordsInv'
  <2>1. /\ att'[k] # NoRecord /\ \A j \in Keys \ {k} : att'[j] = att[j]
        /\ UNCHANGED <<stored, shares, prop, inTxn, wrShares, wrAtt, wrProp, reads, removed, early>>
        /\ orphaned' = IF att[k] = NoRecord THEN orphaned \cup {k} ELSE orphaned
    BY <1>1, RecordVoteType, KeyManagerAssumption DEF VoteRecorded
  <2>2. \A j \in Keys :
          /\ Kept(j)' = Kept(j) /\ ReadProp(j)' = ReadProp(j)
          /\ ReadAtt(j)' = IF j \in DOMAIN wrAtt THEN ReadAtt(j) ELSE att'[j]
          /\ j \notin DOMAIN wrAtt => ReadAtt(j) = att[j]
    BY <2>1 DEF Kept, ReadAtt, ReadProp, Over
  <2>3. RecordsFollowShares'
    BY <2>1 DEF RecordsInv, RecordsFollowShares
  <2>4. ReadsFollowShares'
    <3> SUFFICES ASSUME NEW j \in Keys PROVE
          /\ j \notin early /\ (j \in shares \/ Kept(j)) => ReadAtt(j)' # NoRecord /\ ReadProp(j)' # NoRecord
          /\ j \notin orphaned' /\ ~Kept(j) => ReadAtt(j)' = NoRecord /\ ReadProp(j)' = NoRecord
          /\ j \in DOMAIN wrShares /\ ~Kept(j) => ReadAtt(j)' = NoRecord /\ ReadProp(j)' = NoRecord
                                               /\ j \in DOMAIN wrAtt /\ j \in DOMAIN wrProp
      BY <2>1, <2>2 DEF ReadsFollowShares
    <3> QED BY <2>1, <2>2 DEF RecordsInv, ReadsFollowShares
  <2> QED BY <2>1, <2>3, <2>4 DEF RecordsInv, WritesInTxn
<1>2. ASSUME NEW k \in Keys, NEW s \in Slot, BlockRecorded(k, s) PROVE RecordsInv'
  <2>1. /\ prop'[k] # NoRecord /\ \A j \in Keys \ {k} : prop'[j] = prop[j]
        /\ UNCHANGED <<stored, shares, att, inTxn, wrShares, wrAtt, wrProp, reads, removed, early>>
        /\ orphaned' = IF prop[k] = NoRecord THEN orphaned \cup {k} ELSE orphaned
    BY <1>2, RecordSlotType, KeyManagerAssumption DEF BlockRecorded
  <2>2. \A j \in Keys :
          /\ Kept(j)' = Kept(j) /\ ReadAtt(j)' = ReadAtt(j)
          /\ ReadProp(j)' = IF j \in DOMAIN wrProp THEN ReadProp(j) ELSE prop'[j]
          /\ j \notin DOMAIN wrProp => ReadProp(j) = prop[j]
    BY <2>1 DEF Kept, ReadAtt, ReadProp, Over
  <2>3. RecordsFollowShares'
    BY <2>1 DEF RecordsInv, RecordsFollowShares
  <2>4. ReadsFollowShares'
    <3> SUFFICES ASSUME NEW j \in Keys PROVE
          /\ j \notin early /\ (j \in shares \/ Kept(j)) => ReadAtt(j)' # NoRecord /\ ReadProp(j)' # NoRecord
          /\ j \notin orphaned' /\ ~Kept(j) => ReadAtt(j)' = NoRecord /\ ReadProp(j)' = NoRecord
          /\ j \in DOMAIN wrShares /\ ~Kept(j) => ReadAtt(j)' = NoRecord /\ ReadProp(j)' = NoRecord
                                               /\ j \in DOMAIN wrAtt /\ j \in DOMAIN wrProp
      BY <2>1, <2>2 DEF ReadsFollowShares
    <3> QED BY <2>1, <2>2 DEF RecordsInv, ReadsFollowShares
  <2> QED BY <2>1, <2>3, <2>4 DEF RecordsInv, WritesInTxn
<1> QED BY <1>1, <1>2, RecordCases

LEMMA RecordsStep ==
  ASSUME TypeOK, TypeOK', RecordsInv, [Next]_vars
  PROVE  RecordsInv'
<1> USE DEF dbVars, txnVars, bounds, signedVars, exceptions, historyVars
<1>1. CASE UNCHANGED <<stored, shares, att, prop, inTxn, wrShares, wrAtt, wrProp, reads, removed,
                       early, orphaned>>
  BY <1>1
  DEF RecordsInv, RecordsFollowShares, ReadsFollowShares, WritesInTxn, ReadAtt, ReadProp, Over, Kept
<1>2. CASE BeginBlock
  BY <1>2
  DEF BeginBlock, RecordsInv, RecordsFollowShares, ReadsFollowShares, WritesInTxn, ReadAtt,
      ReadProp, Over, Kept
<1>3. CASE CommitBlock
  BY <1>3, RecordsCommit
<1>4. ASSUME NEW memory, Restart \/ Retry(memory) PROVE RecordsInv'
  BY <1>4, RecordsLost
<1>5. ASSUME NEW k \in Keys, AddShare(k) PROVE RecordsInv'
  <2>1. inTxn /\ UNCHANGED <<stored, att, prop, inTxn, removed, early, orphaned>>
    BY <1>5 DEF AddShare
  <2>2. CASE UNCHANGED <<held, shares, wrShares, wrAtt, wrProp, reads>>
    BY <1>1, <2>1, <2>2
  <2>3. CASE Bump(k) /\ SaveShare(k)
    BY <2>1, <2>3, RecordsBump
  <2> QED BY <1>5, <2>2, <2>3, AddShareCases
<1>6. ASSUME NEW k \in Keys, RemoveShare(k) PROVE RecordsInv'
  <2>1. /\ inTxn /\ inTxn' /\ UNCHANGED <<stored, att, prop, early, orphaned>>
        /\ shares' = shares \ {k} /\ wrShares' = Written(wrShares, k, FALSE)
    BY <1>6 DEF RemoveShare
  <2>2. /\ ReadAtt(k)' = NoRecord /\ ReadProp(k)' = NoRecord
        /\ \A j \in Keys \ {k} : ReadAtt(j)' = ReadAtt(j) /\ ReadProp(j)' = ReadProp(j)
        /\ DOMAIN wrAtt' = DOMAIN wrAtt \cup {k} /\ DOMAIN wrProp' = DOMAIN wrProp \cup {k}
    BY <1>6 DEF RemoveShare, ReadAtt, ReadProp, Over, Written
  <2>3. /\ ~Kept(k)' /\ DOMAIN wrShares' = DOMAIN wrShares \cup {k}
        /\ \A j \in Keys \ {k} : Kept(j)' = Kept(j)
    BY <2>1, KeptSaved
  <2>4. ReadsFollowShares'
    BY <2>1, <2>2, <2>3 DEF RecordsInv, ReadsFollowShares
  <2> QED BY <2>1, <2>4 DEF RecordsInv, RecordsFollowShares, WritesInTxn
<1>7. ASSUME NEW k \in Keys, BumpSlashingProtection(k) PROVE RecordsInv'
  BY <1>7, RecordsBump DEF BumpSlashingProtection
<1>8. ASSUME NEW k \in Keys, HandleClusterLiquidated(k) PROVE RecordsInv'
  <2>1. /\ inTxn /\ inTxn' /\ UNCHANGED <<stored, att, prop, wrAtt, wrProp, early, orphaned>>
        /\ shares' = shares /\ k \in shares /\ wrShares' = Written(wrShares, k, TRUE)
    BY <1>8 DEF HandleClusterLiquidated, SaveShare
  <2>2. \A j \in Keys : ReadAtt(j)' = ReadAtt(j) /\ ReadProp(j)' = ReadProp(j)
    BY <2>1 DEF ReadAtt, ReadProp, Over
  <2>3. /\ Kept(k)' /\ DOMAIN wrShares' = DOMAIN wrShares \cup {k}
        /\ \A j \in Keys \ {k} : Kept(j)' = Kept(j)
    BY <2>1, KeptSaved
  <2>4. ReadsFollowShares'
    BY <2>1, <2>2, <2>3 DEF RecordsInv, ReadsFollowShares
  <2> QED BY <2>1, <2>4 DEF RecordsInv, RecordsFollowShares, WritesInTxn
<1>9. ASSUME NEW k \in Keys, UpdateValidatorsMetadata(k) PROVE RecordsInv'
  <2>1. /\ UNCHANGED <<shares, att, prop, inTxn, wrShares, wrAtt, wrProp, reads, removed, orphaned>>
        /\ k \in shares /\ stored' = stored \cup {k} /\ early' = early \cup ({k} \ stored)
    BY <1>9 DEF UpdateValidatorsMetadata
  <2>2. \A j \in Keys : /\ ReadAtt(j)' = ReadAtt(j) /\ ReadProp(j)' = ReadProp(j)
                        /\ Kept(j)' => Kept(j) \/ j = k
                        /\ Kept(j) => Kept(j)'
                        /\ j \in DOMAIN wrShares => Kept(j)' = Kept(j)
    BY <2>1 DEF ReadAtt, ReadProp, Over, Kept
  <2>3. ReadsFollowShares'
    BY <2>1, <2>2 DEF RecordsInv, ReadsFollowShares
  <2> QED BY <2>1, <2>3 DEF RecordsInv, RecordsFollowShares, WritesInTxn
<1>10. ASSUME NEW r \in checked, RecordAttestation(r) \/ RecordBlock(r) PROVE RecordsInv'
  BY <1>10, RecordsRecord
<1>11. CASE \/ NextSlot \/ SyncHistory \/ UNCHANGED vars
            \/ \E k \in Keys, v \in BeaconVotes : CheckAttestation(k, v)
            \/ \E k \in Keys, s \in BlockSlots : CheckBlock(k, s)
            \/ \E r \in requests : RemoteSign(r)
  BY <1>1, <1>11 DEF NextSlot, SyncHistory, CheckAttestation, CheckBlock, RemoteSign, vars
<1>12. ASSUME NEW k \in Keys, AddShareFails(k) \/ RemoveShareFails(k) PROVE RecordsInv'
  BY <1>4, <1>12 DEF AddShareFails, RemoveShareFails
<1>13. CASE CommitConflicts \/ BlockFails \/ (Restart /\ UNCHANGED held)
  BY <1>4, <1>13 DEF CommitConflicts, BlockFails
<1> QED
  BY <1>2, <1>3, <1>5, <1>6, <1>7, <1>8, <1>9, <1>10, <1>11, <1>12, <1>13
  DEF Next

\* A share in the database has both records, and no other key has one; the two
\* exceptions are a share saved without its creation and a record written by a
\* signer whose check preceded the commit of the removal (AddShare, RemoveShare,
\* saveToDB and UpdateHighestAttestation against the block's transaction).
THEOREM SharesHaveRecords == Spec => []RecordsFollowShares
<1>1. Init => TypeOK /\ RecordsInv
  BY InitType, RecordsInit
<1>2. TypeOK /\ RecordsInv /\ [Next]_vars => (TypeOK /\ RecordsInv)'
  BY TypeStep, RecordsStep
<1>3. RecordsInv => RecordsFollowShares
  BY DEF RecordsInv
<1> QED BY <1>1, <1>2, <1>3, PTL DEF Spec

-----------------------------------------------------------------------------
(* When a commit lowers a record.                                          *)

LEMMA MinimalVoteRises ==
  ASSUME now \in Slot, now' \in Slot, now <= now', NEW v \in Vote,
         Covers(MinimalVote(CurrentEpoch), v)
  PROVE  Covers(MinimalVote(CurrentEpoch'), v)
<1>1. /\ CurrentEpoch \in Nat /\ CurrentEpoch' \in Nat /\ CurrentEpoch <= CurrentEpoch'
      /\ Epoch(MaxSlot) \in Nat
  BY EpochMonotone, CurrentEpochType, ClockAssumption DEF Slot, CurrentEpoch
<1>2. v.source \in Nat /\ v.target \in Nat
  BY <1>1 DEF Vote
<1> QED BY <1>1, <1>2 DEF MinimalVote, Covers

\* A bump writes the minimum or nothing, and does so for its own key only.
LEMMA BumpWrites ==
  ASSUME TypeOK, NEW k \in Keys, Bump(k)
  PROVE  /\ \A j \in Keys : AttWritten(j)' => \/ wrAtt'[j] = MinimalVote(CurrentEpoch) /\ j = k
                                              \/ AttWritten(j) /\ wrAtt'[j] = wrAtt[j]
         /\ \A j \in Keys : PropWritten(j)' => \/ wrProp'[j] = now /\ j = k
                                               \/ PropWritten(j) /\ wrProp'[j] = wrProp[j]
<1>1. wrAtt' = wrAtt \/ wrAtt' = Written(wrAtt, k, MinimalVote(CurrentEpoch))
  BY DEF Bump, BumpedAtt
<1>2. wrProp' = wrProp \/ wrProp' = Written(wrProp, k, now)
  BY DEF Bump, BumpedProp
<1> QED BY <1>1, <1>2 DEF AttWritten, PropWritten, Written

LEMMA RemoveWrites ==
  ASSUME TypeOK, NEW k \in Keys, RemoveShare(k)
  PROVE  \A j \in Keys : /\ AttWritten(j)' => AttWritten(j) /\ wrAtt'[j] = wrAtt[j]
                         /\ PropWritten(j)' => PropWritten(j) /\ wrProp'[j] = wrProp[j]
BY DEF RemoveShare, AttWritten, PropWritten, Written

LEMMA WrittenType ==
  ASSUME TypeOK, NEW k \in Keys
  PROVE  /\ AttWritten(k) => wrAtt[k] \in Vote
         /\ PropWritten(k) => wrProp[k] \in Slot
BY AttWritesType, PropWritesType DEF TypeOK, AttWritten, PropWritten

ClockInv ==
  /\ TypeOK
  /\ WritesInTxn
  /\ CheckedBehindClock
  /\ RecordsBehindClock
  /\ WritesAreMinimal
  /\ WritesAreTracked
  /\ WritesRaise

LEMMA MinimalCoversItself ==
  ASSUME TypeOK PROVE Covers(MinimalVote(CurrentEpoch), MinimalVote(CurrentEpoch))
<1>1. MinimalVote(CurrentEpoch) \in Vote /\ Epoch(MaxSlot) \in Nat
  BY MinimalVoteType, CurrentEpochType DEF TypeOK
<1> QED BY <1>1 DEF Covers, Vote

LEMMA CheckedClosed ==
  ASSUME CheckedBehindClock, checked' \subseteq checked, now' = now
  PROVE  CheckedBehindClock'
BY DEF CheckedBehindClock, CurrentEpoch

\* A step without an open transaction after it has nothing to say of writes.
LEMMA ClockClosed ==
  ASSUME CloseTxn
  PROVE  /\ (WritesInTxn /\ WritesAreMinimal /\ WritesAreTracked /\ WritesRaise)'
         /\ \A k \in Keys : ~AttWritten(k)' /\ ~PropWritten(k)'
<1>1. /\ DOMAIN wrShares' = {} /\ DOMAIN wrAtt' = {} /\ DOMAIN wrProp' = {}
      /\ reads' = {} /\ removed' = {} /\ ~inTxn'
  BY NoWritesType DEF CloseTxn
<1> QED
  BY <1>1
  DEF WritesInTxn, WritesAreMinimal, WritesAreTracked, WritesRaise, AttWritten, PropWritten

LEMMA ClockLost ==
  ASSUME ClockInv, TypeOK', NEW memory, Restart \/ Retry(memory)
  PROVE  ClockInv'
<1>1. TxnLost
  BY TxnLostStep
<1>2. CloseTxn /\ UNCHANGED <<now, att, prop>> /\ checked' \subseteq checked
  BY <1>1 DEF TxnLost
<1>3. RecordsBehindClock'
  BY <1>2, ClockClosed DEF ClockInv, RecordsBehindClock, CurrentEpoch
<1> QED BY <1>2, <1>3, ClockClosed, CheckedClosed DEF ClockInv

LEMMA ClockCommit ==
  ASSUME ClockInv, TypeOK', CommitBlock
  PROVE  ClockInv'
<1>1. CloseTxn /\ UNCHANGED <<now, checked>>
  BY DEF CommitBlock
<1>2. \A k \in Keys : /\ att'[k] = IF k \in DOMAIN wrAtt THEN wrAtt[k] ELSE att[k]
                      /\ prop'[k] = IF k \in DOMAIN wrProp THEN wrProp[k] ELSE prop[k]
  BY DEF CommitBlock, Over
<1>3. RecordsBehindClock'
  BY <1>1, <1>2, ClockClosed
  DEF ClockInv, RecordsBehindClock, AttWritten, PropWritten, CurrentEpoch
<1> QED BY <1>1, <1>3, ClockClosed, CheckedClosed DEF ClockInv

LEMMA ClockBump ==
  ASSUME ClockInv, TypeOK', NEW k \in Keys, inTxn, Bump(k),
         UNCHANGED <<now, att, prop, inTxn, began, removed, written, checked>>
  PROVE  ClockInv'
<1>1. TypeOK /\ CurrentEpoch' = CurrentEpoch /\ inTxn'
  BY DEF ClockInv, CurrentEpoch
<1>2. /\ \A j \in Keys : AttWritten(j)' => \/ wrAtt'[j] = MinimalVote(CurrentEpoch)
                                           \/ AttWritten(j) /\ wrAtt'[j] = wrAtt[j]
      /\ \A j \in Keys : PropWritten(j)' => \/ wrProp'[j] = now
                                            \/ PropWritten(j) /\ wrProp'[j] = wrProp[j]
  BY <1>1, BumpWrites
<1>3. now <= now
  BY DEF ClockInv, TypeOK, Slot
<1>4. RecordsBehindClock'
  BY <1>1, <1>2, <1>3, MinimalCoversItself DEF ClockInv, RecordsBehindClock
<1>5. WritesAreMinimal'
  BY <1>1, <1>2 DEF ClockInv, WritesAreMinimal
<1>6. WritesAreTracked'
  <2>1. /\ DOMAIN wrAtt' \subseteq DOMAIN wrAtt \cup {k} /\ DOMAIN wrProp' \subseteq DOMAIN wrProp \cup {k}
        /\ reads \subseteq reads' /\ (k \in DOMAIN wrAtt \/ k \in reads')
    BY DEF Bump, BumpedAtt, BumpedProp, Written, Tracked
  <2> QED BY <2>1 DEF ClockInv, WritesAreTracked
<1>7. WritesRaise'
  BY <1>1, <1>2 DEF ClockInv, RecordsBehindClock, WritesRaise
<1>8. WritesInTxn' /\ CheckedBehindClock'
  BY <1>1, CheckedClosed DEF ClockInv, WritesInTxn
<1> QED BY <1>4, <1>5, <1>6, <1>7, <1>8 DEF ClockInv

\* What is recorded was checked, so it is behind the clock; an open transaction
\* knows of it as written.
LEMMA ClockVoteRecorded ==
  ASSUME ClockInv, TypeOK', NEW k \in Keys, NEW v \in Vote, VoteRecorded(k, v)
  PROVE  ClockInv'
<1>1. /\ UNCHANGED <<now, began, prop, inTxn, wrShares, wrAtt, wrProp, reads, removed>>
      /\ checked' \subseteq checked /\ CurrentEpoch' = CurrentEpoch
      /\ written \subseteq written' /\ (inTxn /\ att' # att => k \in written')
  BY DEF VoteRecorded, CurrentEpoch
<1>2. /\ TypeOK /\ \A j \in Keys \ {k} : att'[j] = att[j]
      /\ \/ att'[k] = v
         \/ /\ att[k] \in Vote
            /\ att'[k].source \in {att[k].source, v.source}
            /\ att'[k].target \in {att[k].target, v.target}
  BY RecordVoteType DEF ClockInv, VoteRecorded
<1>3. Covers(MinimalVote(CurrentEpoch), v)
  BY <1>2, MinimalVoteCovers DEF ClockInv, CheckedBehindClock, VoteRecorded, TypeOK
<1>4. att[k] \in Vote => Covers(MinimalVote(CurrentEpoch), att[k])
  BY KeyManagerAssumption DEF ClockInv, RecordsBehindClock
<1>5. Covers(MinimalVote(CurrentEpoch), att'[k])
  BY <1>2, <1>3, <1>4 DEF Covers
<1>6. RecordsBehindClock'
  BY <1>1, <1>2, <1>5 DEF ClockInv, RecordsBehindClock, AttWritten, PropWritten
<1>7. WritesAreMinimal' /\ WritesAreTracked' /\ WritesInTxn'
  BY <1>1
  DEF ClockInv, WritesAreMinimal, WritesAreTracked, WritesInTxn, AttWritten, PropWritten
<1>8. WritesRaise'
  <2>1. CASE att' = att \/ k \in written'
    BY <1>1, <1>2, <2>1 DEF ClockInv, WritesRaise, AttWritten, PropWritten
  <2>2. CASE ~inTxn
    BY <1>1, <2>2 DEF ClockInv, WritesInTxn, WritesRaise, AttWritten, PropWritten
  <2> QED BY <1>1, <2>1, <2>2
<1> QED BY <1>1, <1>6, <1>7, <1>8, CheckedClosed DEF ClockInv

LEMMA ClockBlockRecorded ==
  ASSUME ClockInv, TypeOK', NEW k \in Keys, NEW s \in Slot, BlockRecorded(k, s)
  PROVE  ClockInv'
<1>1. /\ UNCHANGED <<now, began, att, inTxn, wrShares, wrAtt, wrProp, reads, removed>>
      /\ checked' \subseteq checked /\ CurrentEpoch' = CurrentEpoch
      /\ written \subseteq written' /\ (inTxn /\ prop' # prop => k \in written')
  BY DEF BlockRecorded, CurrentEpoch
<1>2. /\ \A j \in Keys \ {k} : prop'[j] = prop[j]
      /\ prop'[k] = s \/ (prop[k] # NoRecord /\ prop'[k] = prop[k])
  BY RecordSlotType, KeyManagerAssumption DEF ClockInv, BlockRecorded
<1>3. s <= now
  BY DEF ClockInv, CheckedBehindClock, BlockRecorded
<1>4. RecordsBehindClock'
  BY <1>1, <1>2, <1>3 DEF ClockInv, RecordsBehindClock, AttWritten, PropWritten
<1>5. WritesAreMinimal' /\ WritesAreTracked' /\ WritesInTxn'
  BY <1>1
  DEF ClockInv, WritesAreMinimal, WritesAreTracked, WritesInTxn, AttWritten, PropWritten
<1>6. WritesRaise'
  <2>1. CASE prop' = prop \/ k \in written'
    BY <1>1, <1>2, <2>1 DEF ClockInv, WritesRaise, AttWritten, PropWritten
  <2>2. CASE ~inTxn
    BY <1>1, <2>2 DEF ClockInv, WritesInTxn, WritesRaise, AttWritten, PropWritten
  <2> QED BY <1>1, <2>1, <2>2
<1> QED BY <1>1, <1>4, <1>5, <1>6, CheckedClosed DEF ClockInv

LEMMA CheckedAdvances ==
  ASSUME CheckedBehindClock, now \in Slot, now' \in Slot, now <= now', checked' \subseteq checked
  PROVE  CheckedBehindClock'
<1>1. /\ now \in Nat /\ now' \in Nat /\ Epoch(MaxSlot) \in Nat
      /\ CurrentEpoch \in Nat /\ CurrentEpoch' \in Nat /\ CurrentEpoch <= CurrentEpoch'
  BY EpochMonotone, CurrentEpochType, ClockAssumption DEF Slot, CurrentEpoch
<1>2. \A v \in Vote : v.source \in Nat /\ v.target \in Nat
  BY <1>1 DEF Vote
<1>3. \A k \in Keys, v \in Vote : VoteRequest(k, v) \in checked' => v.source < v.target /\ v.target <= CurrentEpoch'
  BY <1>1, <1>2 DEF CheckedBehindClock
<1>4. \A k \in Keys, s \in Slot : BlockRequest(k, s) \in checked' => s <= now'
  BY <1>1, ClockAssumption DEF CheckedBehindClock, Slot
<1> QED BY <1>3, <1>4 DEF CheckedBehindClock

\* What a check lets through is of the present or the past.
LEMMA CheckedVote ==
  ASSUME TypeOK, CheckedBehindClock, NEW k \in Keys, NEW v \in BeaconVotes, CheckAttestation(k, v)
  PROVE  /\ v \in Vote /\ checked' = checked \cup {VoteRequest(k, v)} /\ CheckedBehindClock'
         /\ \A j \in Keys, w \in Vote : VoteRequest(j, w) \in checked' =>
              VoteRequest(j, w) \in checked \/ (j = k /\ w = v)
         /\ \A j \in Keys, s \in Slot : BlockRequest(j, s) \in checked' => BlockRequest(j, s) \in checked
<1>1. v \in Vote /\ v.source < v.target /\ v.target <= CurrentEpoch
  BY CurrentEpochType DEF TypeOK, BeaconVotes
<1>2. checked' = checked \cup {VoteRequest(k, v)} /\ now' = now
  BY DEF CheckAttestation, VoteRequest
<1>3. \A j \in Keys, w \in Vote : /\ VoteRequest(j, w) = VoteRequest(k, v) => j = k /\ w = v
                                  /\ \A s \in Slot : BlockRequest(j, s) # VoteRequest(k, v)
  BY DEF VoteRequest, BlockRequest
<1>4. /\ \A j \in Keys, w \in Vote : VoteRequest(j, w) \in checked' =>
           VoteRequest(j, w) \in checked \/ (j = k /\ w = v)
      /\ \A j \in Keys, s \in Slot : BlockRequest(j, s) \in checked' => BlockRequest(j, s) \in checked
  BY <1>1, <1>2, <1>3
<1>5. CheckedBehindClock'
  BY <1>1, <1>2, <1>4 DEF CheckedBehindClock, CurrentEpoch
<1> QED BY <1>1, <1>2, <1>4, <1>5

LEMMA CheckedSlot ==
  ASSUME TypeOK, CheckedBehindClock, NEW k \in Keys, NEW s \in BlockSlots, CheckBlock(k, s)
  PROVE  /\ s \in Slot /\ checked' = checked \cup {BlockRequest(k, s)} /\ CheckedBehindClock'
         /\ \A j \in Keys, w \in Vote : VoteRequest(j, w) \in checked' => VoteRequest(j, w) \in checked
         /\ \A j \in Keys, u \in Slot : BlockRequest(j, u) \in checked' =>
              BlockRequest(j, u) \in checked \/ (j = k /\ u = s)
<1>1. s \in Slot /\ s <= now
  BY ClockAssumption DEF TypeOK, BlockSlots, Slot
<1>2. checked' = checked \cup {BlockRequest(k, s)} /\ now' = now
  BY DEF CheckBlock, BlockRequest
<1>3. \A j \in Keys, u \in Slot : /\ BlockRequest(j, u) = BlockRequest(k, s) => j = k /\ u = s
                                  /\ \A w \in Vote : VoteRequest(j, w) # BlockRequest(k, s)
  BY DEF VoteRequest, BlockRequest
<1>4. /\ \A j \in Keys, w \in Vote : VoteRequest(j, w) \in checked' => VoteRequest(j, w) \in checked
      /\ \A j \in Keys, u \in Slot : BlockRequest(j, u) \in checked' =>
           BlockRequest(j, u) \in checked \/ (j = k /\ u = s)
  BY <1>1, <1>2, <1>3
<1>5. CheckedBehindClock'
  BY <1>1, <1>2, <1>4 DEF CheckedBehindClock, CurrentEpoch
<1> QED BY <1>1, <1>2, <1>4, <1>5

LEMMA ClockStep ==
  ASSUME ClockInv, TypeOK', [Next]_vars
  PROVE  ClockInv'
<1> USE DEF dbVars, txnVars, bounds, signedVars, exceptions, historyVars
<1>0. TypeOK /\ CheckedBehindClock
  BY DEF ClockInv
<1>1. ASSUME UNCHANGED <<now, began, att, prop, inTxn, wrShares, wrAtt, wrProp, reads, written, removed>>,
             CheckedBehindClock'
      PROVE  ClockInv'
  BY <1>1
  DEF ClockInv, RecordsBehindClock, WritesAreMinimal, WritesAreTracked, WritesRaise, WritesInTxn,
      AttWritten, PropWritten, CurrentEpoch
<1>2. CASE NextSlot
  <2>1. now' = now + 1 /\ now \in Nat /\ now' \in Slot /\ now \in Slot /\ began \in Nat
    BY <1>0, <1>2, ClockAssumption DEF NextSlot, Advance, TypeOK, Slot
  <2>2. UNCHANGED <<att, prop, inTxn, wrShares, wrAtt, wrProp, reads, written, removed, began, checked>>
    BY <1>2 DEF NextSlot
  <2>3. \A v \in Vote : Covers(MinimalVote(CurrentEpoch), v) => Covers(MinimalVote(CurrentEpoch'), v)
    BY <2>1, MinimalVoteRises
  <2>4. \A k \in Keys : /\ att[k] # NoRecord => att[k] \in Vote
                        /\ prop[k] # NoRecord => prop[k] \in Nat
                        /\ PropWritten(k) => wrProp[k] \in Nat
    BY <1>0, WrittenType, ClockAssumption, SMTT(30) DEF TypeOK, Slot
  <2>5. RecordsBehindClock'
    BY <1>0, <2>1, <2>2, <2>3, <2>4, WrittenType DEF ClockInv, RecordsBehindClock, AttWritten, PropWritten
  <2>6. inTxn => began < now'
    BY <2>1 DEF ClockInv, WritesAreMinimal
  <2>7. WritesAreMinimal'
    BY <2>1, <2>2, <2>6 DEF WritesAreMinimal
  <2>8. WritesAreTracked' /\ WritesRaise' /\ WritesInTxn'
    BY <2>2 DEF ClockInv, WritesAreTracked, WritesRaise, WritesInTxn, AttWritten, PropWritten
  <2>9. CheckedBehindClock'
    BY <1>0, <2>1, <2>2, CheckedAdvances
  <2> QED BY <2>5, <2>7, <2>8, <2>9 DEF ClockInv
<1>3. CASE BeginBlock
  <2>1. /\ DOMAIN wrAtt' = {} /\ DOMAIN wrProp' = {} /\ inTxn'
        /\ UNCHANGED <<now, checked, att, prop>>
    BY <1>3 DEF BeginBlock, ClockInv, WritesInTxn
  <2>2. began' <= now'
    BY <1>0, <1>3 DEF BeginBlock, TypeOK, Slot
  <2> QED
    BY <2>1, <2>2, CheckedClosed
    DEF ClockInv, RecordsBehindClock, WritesAreMinimal, WritesAreTracked, WritesRaise, WritesInTxn,
        AttWritten, PropWritten, CurrentEpoch
<1>4. CASE CommitBlock
  BY <1>4, ClockCommit
<1>5. ASSUME NEW memory, Restart \/ Retry(memory) PROVE ClockInv'
  BY <1>5, ClockLost
<1>6. ASSUME NEW k \in Keys, AddShare(k) PROVE ClockInv'
  <2>1. inTxn /\ UNCHANGED <<now, att, prop, inTxn, began, removed, written, checked>>
    BY <1>6 DEF AddShare
  <2>2. CASE UNCHANGED <<held, shares, wrShares, wrAtt, wrProp, reads>>
    BY <1>0, <1>1, <2>1, <2>2, CheckedClosed
  <2>3. CASE Bump(k)
    BY <2>1, <2>3, ClockBump
  <2> QED BY <1>6, <2>2, <2>3, AddShareCases
<1>7. ASSUME NEW k \in Keys, RemoveShare(k) PROVE ClockInv'
  <2>1. /\ UNCHANGED <<now, att, prop, inTxn, began, reads, written, checked>> /\ CurrentEpoch' = CurrentEpoch
        /\ removed' = removed \cup {k} /\ inTxn
        /\ DOMAIN wrAtt' = DOMAIN wrAtt \cup {k} /\ DOMAIN wrProp' = DOMAIN wrProp \cup {k}
    BY <1>7 DEF RemoveShare, CurrentEpoch, Written
  <2>2. RecordsBehindClock' /\ WritesAreMinimal' /\ WritesRaise'
    BY <1>0, <1>7, <2>1, RemoveWrites DEF ClockInv, RecordsBehindClock, WritesAreMinimal, WritesRaise
  <2>3. WritesAreTracked' /\ WritesInTxn'
    BY <2>1 DEF ClockInv, WritesAreTracked, WritesInTxn
  <2> QED BY <1>0, <2>1, <2>2, <2>3, CheckedClosed DEF ClockInv
<1>8. ASSUME NEW k \in Keys, BumpSlashingProtection(k) PROVE ClockInv'
  BY <1>8, ClockBump DEF BumpSlashingProtection
<1>9. ASSUME NEW k \in Keys, HandleClusterLiquidated(k) PROVE ClockInv'
  <2>1. inTxn /\ UNCHANGED <<now, began, att, prop, inTxn, wrAtt, wrProp, reads, written, removed, checked>>
    BY <1>9 DEF HandleClusterLiquidated
  <2> QED
    BY <2>1, CheckedClosed
    DEF ClockInv, RecordsBehindClock, WritesAreMinimal, WritesAreTracked, WritesRaise, WritesInTxn,
        AttWritten, PropWritten, CurrentEpoch
<1>10. ASSUME NEW r \in checked, RecordAttestation(r) \/ RecordBlock(r) PROVE ClockInv'
  BY <1>0, <1>10, RecordCases, ClockVoteRecorded, ClockBlockRecorded
<1>11. CASE \/ SyncHistory \/ UNCHANGED vars
            \/ \E k \in Keys : UpdateValidatorsMetadata(k)
            \/ \E r \in requests : RemoteSign(r)
  <2>1. UNCHANGED <<now, began, att, prop, inTxn, wrShares, wrAtt, wrProp, reads, written, removed, checked>>
    BY <1>11 DEF SyncHistory, UpdateValidatorsMetadata, RemoteSign, vars
  <2> QED BY <1>0, <1>1, <2>1, CheckedClosed
<1>12. ASSUME NEW k \in Keys, NEW v \in BeaconVotes, CheckAttestation(k, v) PROVE ClockInv'
  BY <1>0, <1>1, <1>12, CheckedVote DEF CheckAttestation
<1>13. ASSUME NEW k \in Keys, NEW s \in BlockSlots, CheckBlock(k, s) PROVE ClockInv'
  BY <1>0, <1>1, <1>13, CheckedSlot DEF CheckBlock
<1>14. ASSUME NEW k \in Keys, AddShareFails(k) \/ RemoveShareFails(k) PROVE ClockInv'
  BY <1>5, <1>14 DEF AddShareFails, RemoveShareFails
<1>15. CASE CommitConflicts \/ BlockFails \/ (Restart /\ UNCHANGED held)
  BY <1>5, <1>15 DEF CommitConflicts, BlockFails
<1> QED
  BY <1>2, <1>3, <1>4, <1>6, <1>7, <1>8, <1>9, <1>10, <1>11, <1>12, <1>13, <1>14, <1>15
  DEF Next

\* A commit in the slot its transaction began in raises the records it writes,
\* and so does one for a key that was not removed: what it wrote then is above
\* what it read, and what it read is what is there.
LEMMA CommitRaises ==
  ASSUME ClockInv, CommitBlock, NEW k \in Keys, Lowers(k)
  PROVE  began < now /\ k \in removed
<1>1. /\ att[k] # NoRecord => att[k] \in Vote
      /\ AttWritten(k) => wrAtt[k] \in Vote
      /\ PropWritten(k) => wrProp[k] \in Nat
      /\ prop[k] # NoRecord => prop[k] \in Nat
      /\ now \in Nat /\ began \in Nat /\ Epoch(MaxSlot) \in Nat
  <2>1. \A s \in Slot : s \in Nat
    BY ClockAssumption DEF Slot
  <2>2. TypeOK
    BY DEF ClockInv
  <2> QED BY <2>1, <2>2, WrittenType, CurrentEpochType DEF TypeOK
<1>2. \/ AttWritten(k) /\ att[k] # NoRecord /\ ~Covers(wrAtt[k], att[k])
      \/ PropWritten(k) /\ prop[k] # NoRecord /\ ~(prop[k] <= wrProp[k])
  BY <1>1 DEF Lowers, AttWritten, PropWritten, Covers, Vote
<1>3. began < now
  <2>1. CASE began = now
    <3>1. /\ AttWritten(k) => wrAtt[k] = MinimalVote(CurrentEpoch)
          /\ PropWritten(k) => wrProp[k] = now
      BY <2>1 DEF ClockInv, WritesAreMinimal, CommitBlock
    <3> QED BY <1>2, <3>1 DEF ClockInv, RecordsBehindClock
  <2>2. began <= now
    BY DEF ClockInv, WritesAreMinimal, CommitBlock
  <2> QED BY <1>1, <2>1, <2>2
<1>4. k \in removed
  <2>1. k \in written
    BY <1>2 DEF ClockInv, WritesRaise
  <2>2. k \in DOMAIN wrAtt \/ k \in DOMAIN wrProp
    BY <1>2 DEF AttWritten, PropWritten
  <2> QED BY <2>1, <2>2 DEF ClockInv, WritesAreTracked, CommitBlock, Conflict
<1> QED BY <1>3, <1>4

\* The exception of the slashing guarantee is real but narrow: the block must
\* remove the share and add it again, and the clock must move between the bump
\* and its commit (updateHighestAttestation and updateHighestProposal inside
\* BumpSlashingProtectionTxn, txn.Commit).
THEOREM LoweredRarely == Spec => LoweredOnlyWhenReadded
<1>1. Init => ClockInv
  <2> SUFFICES ASSUME Init PROVE ClockInv
    OBVIOUS
  <2>1. TypeOK /\ DOMAIN wrShares = {} /\ DOMAIN wrAtt = {} /\ DOMAIN wrProp = {}
    BY InitType, NoWritesType DEF Init
  <2> QED
    BY <2>1
    DEF Init, ClockInv, WritesInTxn, CheckedBehindClock, RecordsBehindClock, WritesAreMinimal,
        WritesAreTracked, WritesRaise, AttWritten, PropWritten
<1>2. ClockInv /\ [Next]_vars => ClockInv'
  BY TypeStep, ClockStep DEF ClockInv
<1>3. ClockInv /\ [Next]_vars => [\A k \in lowered' \ lowered : began < now /\ k \in removed]_vars
  <2> SUFFICES ASSUME ClockInv, Next, NEW k \in lowered' \ lowered
               PROVE  began < now /\ k \in removed
    OBVIOUS
  <2>1. ASSUME NEW memory, Restart \/ Retry(memory) PROVE lowered' = lowered
    BY <2>1, TxnLostStep DEF TxnLost
  <2>2. CommitBlock
    BY <2>1
    DEF Next, NextSlot, BeginBlock, CommitConflicts, BlockFails, SyncHistory, AddShare,
        AddShareFails, RemoveShare, RemoveShareFails, BumpSlashingProtection,
        HandleClusterLiquidated, UpdateValidatorsMetadata, CheckAttestation, CheckBlock,
        RecordAttestation, RecordBlock, Record, RemoteSign, historyVars, exceptions
  <2>3. k \in Keys /\ Lowers(k)
    BY <2>2 DEF CommitBlock
  <2> QED BY <2>2, <2>3, CommitRaises
<1> QED BY <1>1, <1>2, <1>3, PTL DEF Spec, LoweredOnlyWhenReadded

-----------------------------------------------------------------------------
(* No slashable signatures.                                                *)

\* How a step that signs nothing may change the records: a record that appears
\* is the transaction's, the transaction's is the minimum, and a record that
\* stays is not lowered.
RecordsRise(k) ==
  /\ att'[k] # NoRecord => \/ att[k] # NoRecord /\ Covers(att'[k], att[k])
                           \/ att[k] = NoRecord /\ AttWritten(k) /\ att'[k] = wrAtt[k]
  /\ att'[k] = NoRecord /\ AttWritten(k)' =>
       \/ wrAtt'[k] = MinimalVote(CurrentEpoch)
       \/ att[k] = NoRecord /\ AttWritten(k) /\ wrAtt'[k] = wrAtt[k]
  /\ prop'[k] # NoRecord => \/ prop[k] # NoRecord /\ prop[k] <= prop'[k]
                            \/ prop[k] = NoRecord /\ PropWritten(k) /\ prop'[k] = wrProp[k]
  /\ prop'[k] = NoRecord /\ PropWritten(k)' =>
       \/ wrProp'[k] = now
       \/ prop[k] = NoRecord /\ PropWritten(k) /\ wrProp'[k] = wrProp[k]

LEMMA QuietStep ==
  ASSUME SafetyInv, TypeOK', UNCHANGED <<signedAtt, signedProp>>, requests' \subseteq requests,
         checked' \subseteq checked, lowered \subseteq lowered', now <= now',
         \A k \in Keys \ lowered' : RecordsRise(k)
  PROVE  SafetyInv'
<1>1. /\ now \in Nat /\ now' \in Nat /\ Epoch(MaxSlot) \in Nat
      /\ CurrentEpoch \in Nat /\ CurrentEpoch' \in Nat /\ CurrentEpoch <= CurrentEpoch'
  <2>1. now \in Slot /\ now' \in Slot
    BY DEF SafetyInv, TypeOK
  <2>2. now \in Nat /\ now' \in Nat
    BY <2>1, ClockAssumption DEF Slot
  <2> QED BY <2>1, <2>2, EpochMonotone, CurrentEpochType DEF CurrentEpoch
<1>2. \A k \in Keys : /\ \A v \in Vote : VotedFor(k, v)' => VotedFor(k, v)
                      /\ \A s \in Slot : ProposedAt(k, s)' => ProposedAt(k, s)
  BY DEF VotedFor, ProposedAt
<1>3. \A v \in Vote : v.source \in Nat /\ v.target \in Nat
  BY <1>1 DEF Vote
<1>4. SignedBehindClock'
  <2>1. \A k \in Keys, v \in Vote : VotedFor(k, v)' => v.source < v.target /\ v.target <= CurrentEpoch'
    BY <1>1, <1>2, <1>3 DEF SafetyInv, SignedBehindClock
  <2>2. \A k \in Keys, s \in Slot : ProposedAt(k, s)' => s <= now'
    BY <1>1, <1>2, ClockAssumption DEF SafetyInv, SignedBehindClock, Slot
  <2> QED BY <2>1, <2>2 DEF SignedBehindClock
<1>5. ASSUME NEW k \in Keys \ lowered', NEW v \in Vote, VotedFor(k, v)'
      PROVE  /\ att'[k] # NoRecord => Covers(att'[k], v)
             /\ att'[k] = NoRecord /\ AttWritten(k)' => Covers(wrAtt'[k], v)
  <2>1. VotedFor(k, v) /\ k \in Keys \ lowered
    BY <1>2, <1>5
  <2>2. Covers(MinimalVote(CurrentEpoch), v)
    BY <2>1, MinimalVoteCovers DEF SafetyInv, SignedBehindClock, TypeOK
  <2>3. att[k] # NoRecord => att[k] \in Vote /\ Covers(att[k], v)
    BY <2>1 DEF SafetyInv, RecordsCover, TypeOK
  <2>4. att'[k] # NoRecord => att'[k] \in Vote
    BY DEF TypeOK
  <2>5. att[k] = NoRecord /\ AttWritten(k) => Covers(wrAtt[k], v)
    BY <2>1 DEF SafetyInv, WritesCover
  <2> QED BY <1>1, <2>2, <2>3, <2>4, <2>5, CoversTransitive DEF RecordsRise
<1>6. ASSUME NEW k \in Keys \ lowered', NEW s \in Slot, ProposedAt(k, s)'
      PROVE  /\ prop'[k] # NoRecord => s <= prop'[k]
             /\ prop'[k] = NoRecord /\ PropWritten(k)' => s <= wrProp'[k]
  <2>1. ProposedAt(k, s) /\ k \in Keys \ lowered
    BY <1>2, <1>6
  <2>2. s <= now /\ s \in Nat
    BY <2>1, ClockAssumption DEF SafetyInv, SignedBehindClock, Slot
  <2>3. prop[k] # NoRecord => prop[k] \in Nat /\ s <= prop[k]
    BY <2>1, ClockAssumption DEF SafetyInv, RecordsCover, TypeOK, Slot
  <2>4. prop'[k] # NoRecord => prop'[k] \in Nat
    BY ClockAssumption DEF TypeOK, Slot
  <2>5. prop[k] = NoRecord /\ PropWritten(k) => s <= wrProp[k]
    BY <2>1 DEF SafetyInv, WritesCover
  <2> QED BY <1>1, <2>2, <2>3, <2>4, <2>5 DEF RecordsRise
<1>7. RecordsCover' /\ WritesCover'
  BY <1>5, <1>6 DEF RecordsCover, WritesCover
<1>8. RequestsAreSafe'
  BY DEF SafetyInv, RequestsAreSafe
<1>9. NoSlashableSignatures'
  BY DEF SafetyInv, NoSlashableSignatures
<1>10. CheckedBehindClock'
  BY CheckedAdvances DEF SafetyInv, TypeOK
<1>11. CheckedOnce' /\ CheckedAbove'
  BY <1>2 DEF SafetyInv, CheckedOnce, CheckedAbove
<1> QED BY <1>4, <1>7, <1>8, <1>9, <1>10, <1>11 DEF SafetyInv

\* Recording asks for one vote or one block more.
LEMMA VoteAsked ==
  ASSUME TypeOK, NEW k \in Keys, NEW v \in Vote, VoteRecorded(k, v)
  PROVE  /\ \A j \in Keys, w \in Vote : VotedFor(j, w)' => VotedFor(j, w) \/ (j = k /\ w = v)
         /\ \A j \in Keys, s \in Slot : ProposedAt(j, s)' => ProposedAt(j, s)
         /\ \/ SignedVote(k, v) /\ UNCHANGED requests
            \/ UNCHANGED <<signedAtt, signedProp>> /\ requests' = requests \cup {VoteRequest(k, v)}
<1>1. \/ SignedVote(k, v) /\ UNCHANGED requests
      \/ UNCHANGED <<signedAtt, signedProp>> /\ requests' = requests \cup {VoteRequest(k, v)}
  BY DEF VoteRecorded
<1>2. \A j \in Keys, w \in Vote : /\ VoteRequest(j, w) = VoteRequest(k, v) => j = k /\ w = v
                                  /\ \A s \in Slot : BlockRequest(j, s) # VoteRequest(k, v)
  BY DEF VoteRequest, BlockRequest
<1>3. CASE SignedVote(k, v) /\ UNCHANGED requests
  <2>1. signedAtt \in [Keys -> Seq(Vote)]
    BY DEF TypeOK
  <2>2. /\ \A j \in Keys \ {k} : signedAtt'[j] = signedAtt[j]
        /\ \A i \in DOMAIN signedAtt'[k] : \/ signedAtt'[k][i] = v
                                           \/ i \in DOMAIN signedAtt[k]
                                              /\ signedAtt'[k][i] = signedAtt[k][i]
    BY <1>3, <2>1, AppendedFor DEF SignedVote
  <2> QED BY <1>1, <1>3, <2>2 DEF VotedFor, ProposedAt, SignedVote
<1>4. CASE UNCHANGED <<signedAtt, signedProp>> /\ requests' = requests \cup {VoteRequest(k, v)}
  BY <1>1, <1>2, <1>4 DEF VotedFor, ProposedAt
<1> QED BY <1>1, <1>3, <1>4

LEMMA BlockAsked ==
  ASSUME TypeOK, NEW k \in Keys, NEW s \in Slot, BlockRecorded(k, s)
  PROVE  /\ \A j \in Keys, w \in Vote : VotedFor(j, w)' => VotedFor(j, w)
         /\ \A j \in Keys, u \in Slot : ProposedAt(j, u)' => ProposedAt(j, u) \/ (j = k /\ u = s)
         /\ \/ SignedSlot(k, s) /\ UNCHANGED requests
            \/ UNCHANGED <<signedAtt, signedProp>> /\ requests' = requests \cup {BlockRequest(k, s)}
<1>1. \/ SignedSlot(k, s) /\ UNCHANGED requests
      \/ UNCHANGED <<signedAtt, signedProp>> /\ requests' = requests \cup {BlockRequest(k, s)}
  BY DEF BlockRecorded
<1>2. \A j \in Keys, u \in Slot : /\ BlockRequest(j, u) = BlockRequest(k, s) => j = k /\ u = s
                                  /\ \A w \in Vote : VoteRequest(j, w) # BlockRequest(k, s)
  BY DEF VoteRequest, BlockRequest
<1>3. CASE SignedSlot(k, s) /\ UNCHANGED requests
  <2>1. signedProp \in [Keys -> Seq(Slot)]
    BY DEF TypeOK
  <2>2. /\ \A j \in Keys \ {k} : signedProp'[j] = signedProp[j]
        /\ \A i \in DOMAIN signedProp'[k] : \/ signedProp'[k][i] = s
                                            \/ i \in DOMAIN signedProp[k]
                                               /\ signedProp'[k][i] = signedProp[k][i]
    BY <1>3, <2>1, AppendedFor DEF SignedSlot
  <2> QED BY <1>1, <1>3, <2>2 DEF VotedFor, ProposedAt, SignedSlot
<1>4. CASE UNCHANGED <<signedAtt, signedProp>> /\ requests' = requests \cup {BlockRequest(k, s)}
  BY <1>1, <1>2, <1>4 DEF VotedFor, ProposedAt
<1> QED BY <1>1, <1>3, <1>4

\* What was signed is typed.
LEMMA SignedType ==
  ASSUME TypeOK, NEW k \in Keys
  PROVE  /\ \A i \in DOMAIN signedAtt[k] : signedAtt[k][i] \in Vote /\ VotedFor(k, signedAtt[k][i])
         /\ \A i \in DOMAIN signedProp[k] : signedProp[k][i] \in Slot /\ ProposedAt(k, signedProp[k][i])
<1>1. signedAtt[k] \in Seq(Vote) /\ signedProp[k] \in Seq(Slot)
  BY DEF TypeOK
<1>2. /\ \A i \in DOMAIN signedAtt[k] : signedAtt[k][i] \in Vote
      /\ \A i \in DOMAIN signedProp[k] : signedProp[k][i] \in Slot
  BY <1>1
<1> QED BY <1>2 DEF VotedFor, ProposedAt

\* Whether the pairs of votes, signed or asked for, stay safe when one more is
\* asked for that is safe with all of them.
LEMMA SafeVoteStep ==
  ASSUME SafetyInv, NEW k \in Keys, NEW v \in Vote,
         k \notin lowered => \A w \in Vote : VotedFor(k, w) =>
                               v # w /\ ~SlashablePair(v, w) /\ ~SlashablePair(w, v),
         lowered' = lowered,
         \/ SignedVote(k, v) /\ UNCHANGED requests
         \/ UNCHANGED <<signedAtt, signedProp>> /\ requests' = requests \cup {VoteRequest(k, v)}
  PROVE  RequestsAreSafe' /\ NoSlashableSignatures'
<1>1. TypeOK /\ signedAtt \in [Keys -> Seq(Vote)]
  BY DEF SafetyInv, TypeOK
<1>2. \A j \in Keys, w \in Vote : /\ VoteRequest(j, w) = VoteRequest(k, v) => j = k /\ w = v
                                  /\ \A s \in Slot : BlockRequest(j, s) # VoteRequest(k, v)
  BY DEF VoteRequest, BlockRequest
<1>3. \A w \in Vote : VoteRequest(k, w) \in requests => VotedFor(k, w)
  BY DEF VotedFor
<1>4. CASE SignedVote(k, v) /\ UNCHANGED requests
  <2>1. /\ \A j \in Keys \ {k} : signedAtt'[j] = signedAtt[j]
        /\ Len(signedAtt[k]) + 1 \notin DOMAIN signedAtt[k]
        /\ DOMAIN signedAtt'[k] = DOMAIN signedAtt[k] \cup {Len(signedAtt[k]) + 1}
        /\ \A i \in DOMAIN signedAtt[k] : signedAtt'[k][i] = signedAtt[k][i]
        /\ signedAtt'[k][Len(signedAtt[k]) + 1] = v
    BY <1>1, <1>4, AppendedFor DEF SignedVote
  <2>2. ASSUME NEW j \in Keys \ lowered
        PROVE  \A a, b \in DOMAIN signedAtt'[j] :
                 a # b => ~SlashablePair(signedAtt'[j][a], signedAtt'[j][b])
    <3>1. CASE j # k
      BY <2>1, <3>1 DEF SafetyInv, NoSlashableSignatures
    <3>2. CASE j = k
      BY <1>1, <2>1, <3>2, SignedType DEF SafetyInv, NoSlashableSignatures
    <3> QED BY <3>1, <3>2
  <2>3. NoSlashableSignatures'
    BY <1>4, <2>2 DEF SafetyInv, NoSlashableSignatures, SignedVote
  <2>4. ASSUME NEW j \in Keys \ lowered, NEW w \in Vote, VoteRequest(j, w) \in requests
        PROVE  \A i \in DOMAIN signedAtt'[j] : ~SlashablePair(signedAtt'[j][i], w)
    <3>1. CASE j # k
      BY <2>1, <2>4, <3>1 DEF SafetyInv, RequestsAreSafe
    <3>2. CASE j = k
      BY <1>3, <2>1, <2>4, <3>2 DEF SafetyInv, RequestsAreSafe
    <3> QED BY <3>1, <3>2
  <2>5. RequestsAreSafe'
    BY <1>4, <2>4 DEF SafetyInv, RequestsAreSafe, SignedVote
  <2> QED BY <2>3, <2>5
<1>5. CASE UNCHANGED <<signedAtt, signedProp>> /\ requests' = requests \cup {VoteRequest(k, v)}
  <2>1. NoSlashableSignatures'
    BY <1>5 DEF SafetyInv, NoSlashableSignatures
  <2>2. ASSUME NEW j \in Keys \ lowered, NEW w \in Vote, VoteRequest(j, w) \in requests'
        PROVE  \A i \in DOMAIN signedAtt[j] : ~SlashablePair(signedAtt[j][i], w)
    <3>1. CASE VoteRequest(j, w) \in requests
      BY <3>1 DEF SafetyInv, RequestsAreSafe
    <3>2. CASE j = k /\ w = v
      BY <1>1, <3>2, SignedType
    <3> QED BY <1>2, <1>5, <2>2, <3>1, <3>2
  <2>3. ASSUME NEW j \in Keys \ lowered, NEW w \in Vote, NEW u \in Vote, w # u,
               VoteRequest(j, w) \in requests', VoteRequest(j, u) \in requests'
        PROVE  ~SlashablePair(w, u)
    BY <1>2, <1>3, <1>5, <2>3 DEF SafetyInv, RequestsAreSafe
  <2>4. \A j \in Keys, s \in Slot : BlockRequest(j, s) \in requests' => BlockRequest(j, s) \in requests
    BY <1>2, <1>5 DEF BlockRequest, VoteRequest
  <2>5. RequestsAreSafe'
    BY <1>5, <2>2, <2>3, <2>4 DEF SafetyInv, RequestsAreSafe
  <2> QED BY <2>1, <2>5
<1> QED BY <1>4, <1>5

LEMMA SafeBlockStep ==
  ASSUME SafetyInv, NEW k \in Keys, NEW s \in Slot,
         k \notin lowered => ~ProposedAt(k, s),
         lowered' = lowered,
         \/ SignedSlot(k, s) /\ UNCHANGED requests
         \/ UNCHANGED <<signedAtt, signedProp>> /\ requests' = requests \cup {BlockRequest(k, s)}
  PROVE  RequestsAreSafe' /\ NoSlashableSignatures'
<1>1. TypeOK /\ signedProp \in [Keys -> Seq(Slot)]
  BY DEF SafetyInv, TypeOK
<1>2. \A j \in Keys, u \in Slot : /\ BlockRequest(j, u) = BlockRequest(k, s) => j = k /\ u = s
                                  /\ \A w \in Vote : VoteRequest(j, w) # BlockRequest(k, s)
  BY DEF VoteRequest, BlockRequest
<1>3. CASE SignedSlot(k, s) /\ UNCHANGED requests
  <2>1. /\ \A j \in Keys \ {k} : signedProp'[j] = signedProp[j]
        /\ Len(signedProp[k]) + 1 \notin DOMAIN signedProp[k]
        /\ DOMAIN signedProp'[k] = DOMAIN signedProp[k] \cup {Len(signedProp[k]) + 1}
        /\ \A i \in DOMAIN signedProp[k] : signedProp'[k][i] = signedProp[k][i]
        /\ signedProp'[k][Len(signedProp[k]) + 1] = s
    BY <1>1, <1>3, AppendedFor DEF SignedSlot
  <2>2. ASSUME NEW j \in Keys \ lowered
        PROVE  \A a, b \in DOMAIN signedProp'[j] : a # b => signedProp'[j][a] # signedProp'[j][b]
    <3>1. CASE j # k
      BY <2>1, <3>1 DEF SafetyInv, NoSlashableSignatures
    <3>2. CASE j = k
      BY <1>1, <2>1, <3>2, SignedType DEF SafetyInv, NoSlashableSignatures
    <3> QED BY <3>1, <3>2
  <2>3. NoSlashableSignatures'
    BY <1>3, <2>2 DEF SafetyInv, NoSlashableSignatures, SignedSlot
  <2>4. ASSUME NEW j \in Keys \ lowered, NEW u \in Slot, BlockRequest(j, u) \in requests
        PROVE  \A i \in DOMAIN signedProp'[j] : signedProp'[j][i] # u
    <3>1. CASE j # k
      BY <2>1, <2>4, <3>1 DEF SafetyInv, RequestsAreSafe
    <3>2. CASE j = k
      BY <2>1, <2>4, <3>2 DEF SafetyInv, RequestsAreSafe, ProposedAt
    <3> QED BY <3>1, <3>2
  <2>5. RequestsAreSafe'
    BY <1>3, <2>4 DEF SafetyInv, RequestsAreSafe, SignedSlot
  <2> QED BY <2>3, <2>5
<1>4. CASE UNCHANGED <<signedAtt, signedProp>> /\ requests' = requests \cup {BlockRequest(k, s)}
  <2>1. NoSlashableSignatures'
    BY <1>4 DEF SafetyInv, NoSlashableSignatures
  <2>2. ASSUME NEW j \in Keys \ lowered, NEW u \in Slot, BlockRequest(j, u) \in requests'
        PROVE  \A i \in DOMAIN signedProp[j] : signedProp[j][i] # u
    BY <1>1, <1>2, <1>4, <2>2, SignedType DEF SafetyInv, RequestsAreSafe
  <2>3. \A j \in Keys, w \in Vote : VoteRequest(j, w) \in requests' => VoteRequest(j, w) \in requests
    BY <1>4 DEF BlockRequest, VoteRequest
  <2>4. RequestsAreSafe'
    BY <1>4, <2>2, <2>3 DEF SafetyInv, RequestsAreSafe
  <2> QED BY <2>1, <2>4
<1> QED BY <1>3, <1>4

\* The check: the record covers what the key signed or may still sign, and the
\* lock admits one vote and one block at a time (IsAttestationSlashable).
LEMMA CheckAttestationStep ==
  ASSUME SafetyInv, TypeOK', NEW k \in Keys, NEW v \in BeaconVotes, CheckAttestation(k, v)
  PROVE  SafetyInv'
<1>1. TypeOK /\ CheckedBehindClock /\ Epoch(MaxSlot) \in Nat
  BY CurrentEpochType DEF SafetyInv, TypeOK
<1>2. /\ v \in Vote /\ CheckedBehindClock'
      /\ \A j \in Keys, w \in Vote : VoteRequest(j, w) \in checked' =>
           VoteRequest(j, w) \in checked \/ (j = k /\ w = v)
      /\ \A j \in Keys, s \in Slot : BlockRequest(j, s) \in checked' => BlockRequest(j, s) \in checked
  BY <1>1, CheckedVote
<1>3. /\ UNCHANGED <<now, att, prop, wrAtt, wrProp, requests, signedAtt, signedProp, lowered>>
      /\ CurrentEpoch' = CurrentEpoch /\ ~IsAttestationSlashable(k, v)
      /\ \A r \in checked : r.key = k => "slot" \in DOMAIN r
  BY DEF CheckAttestation, CurrentEpoch, dbVars, txnVars, historyVars, signedVars, exceptions
<1>4. \A w \in Vote : VoteRequest(k, w) \notin checked
  BY <1>3 DEF VoteRequest
<1>5. CheckedOnce'
  BY <1>2, <1>4 DEF SafetyInv, CheckedOnce
<1>6. \A j \in Keys : /\ \A w \in Vote : VotedFor(j, w)' <=> VotedFor(j, w)
                      /\ \A s \in Slot : ProposedAt(j, s)' <=> ProposedAt(j, s)
  BY <1>3 DEF VotedFor, ProposedAt
<1>7. att[k] \in Vote /\ v.source >= att[k].source /\ v.target > att[k].target
  BY <1>1, <1>2, <1>3 DEF IsAttestationSlashable, TypeOK, Vote
<1>8. ASSUME k \notin lowered, NEW w \in Vote, VotedFor(k, w) PROVE Above(v, w)
  <2>1. Covers(att[k], w)
    BY <1>7, <1>8, KeyManagerAssumption DEF SafetyInv, RecordsCover
  <2> QED BY <1>1, <1>2, <1>7, <2>1, VoteAboveRecord
<1>9. CheckedAbove'
  BY <1>2, <1>3, <1>6, <1>8 DEF SafetyInv, CheckedAbove
<1>10. SignedBehindClock' /\ RecordsCover' /\ WritesCover'
  BY <1>3, <1>6
  DEF SafetyInv, SignedBehindClock, RecordsCover, WritesCover, AttWritten, PropWritten
<1>11. RequestsAreSafe' /\ NoSlashableSignatures'
  BY <1>3 DEF SafetyInv, RequestsAreSafe, NoSlashableSignatures
<1> QED BY <1>2, <1>5, <1>9, <1>10, <1>11 DEF SafetyInv

LEMMA CheckBlockStep ==
  ASSUME SafetyInv, TypeOK', NEW k \in Keys, NEW s \in BlockSlots, CheckBlock(k, s)
  PROVE  SafetyInv'
<1>1. TypeOK /\ CheckedBehindClock
  BY DEF SafetyInv
<1>2. /\ s \in Slot /\ CheckedBehindClock'
      /\ \A j \in Keys, w \in Vote : VoteRequest(j, w) \in checked' => VoteRequest(j, w) \in checked
      /\ \A j \in Keys, u \in Slot : BlockRequest(j, u) \in checked' =>
           BlockRequest(j, u) \in checked \/ (j = k /\ u = s)
  BY <1>1, CheckedSlot
<1>3. /\ UNCHANGED <<now, att, prop, wrAtt, wrProp, requests, signedAtt, signedProp, lowered>>
      /\ CurrentEpoch' = CurrentEpoch /\ ~IsBeaconBlockSlashable(k, s)
      /\ \A r \in checked : r.key = k => "vote" \in DOMAIN r
  BY DEF CheckBlock, CurrentEpoch, dbVars, txnVars, historyVars, signedVars, exceptions
<1>4. \A u \in Slot : BlockRequest(k, u) \notin checked
  BY <1>3 DEF BlockRequest
<1>5. CheckedOnce'
  BY <1>2, <1>4 DEF SafetyInv, CheckedOnce
<1>6. \A j \in Keys : /\ \A w \in Vote : VotedFor(j, w)' <=> VotedFor(j, w)
                      /\ \A u \in Slot : ProposedAt(j, u)' <=> ProposedAt(j, u)
  BY <1>3 DEF VotedFor, ProposedAt
<1>7. prop[k] # NoRecord /\ prop[k] \in Nat /\ s \in Nat /\ s > prop[k]
  BY <1>1, <1>2, <1>3, ClockAssumption DEF IsBeaconBlockSlashable, TypeOK, Slot
<1>8. ASSUME k \notin lowered, NEW u \in Slot, ProposedAt(k, u) PROVE u < s
  <2>1. u <= prop[k] /\ u \in Nat
    BY <1>7, <1>8, ClockAssumption DEF SafetyInv, RecordsCover, Slot
  <2> QED BY <1>7, <2>1
<1>9. CheckedAbove'
  BY <1>2, <1>3, <1>6, <1>8 DEF SafetyInv, CheckedAbove
<1>10. SignedBehindClock' /\ RecordsCover' /\ WritesCover'
  BY <1>3, <1>6
  DEF SafetyInv, SignedBehindClock, RecordsCover, WritesCover, AttWritten, PropWritten
<1>11. RequestsAreSafe' /\ NoSlashableSignatures'
  BY <1>3 DEF SafetyInv, RequestsAreSafe, NoSlashableSignatures
<1> QED BY <1>2, <1>5, <1>9, <1>10, <1>11 DEF SafetyInv

\* The record: the vote is still above everything the key signed or may still
\* sign, whatever was committed since the check (UpdateHighestAttestation).
LEMMA RecordVoteStep ==
  ASSUME SafetyInv, TypeOK', NEW k \in Keys, NEW v \in Vote, VoteRecorded(k, v)
  PROVE  SafetyInv'
<1>1. /\ TypeOK /\ Epoch(MaxSlot) \in Nat
      /\ v.source < v.target /\ v.target <= CurrentEpoch
  BY CurrentEpochType DEF SafetyInv, TypeOK, CheckedBehindClock, VoteRecorded
<1>2. /\ UNCHANGED <<now, prop, wrAtt, wrProp, lowered>> /\ CurrentEpoch' = CurrentEpoch
      /\ checked' = checked \ {VoteRequest(k, v)} /\ VoteRequest(k, v) \in checked
  BY DEF VoteRecorded, CurrentEpoch
<1>3. /\ att'[k] \in Vote /\ att'[k] # NoRecord /\ Covers(att'[k], v)
      /\ \A j \in Keys \ {k} : att'[j] = att[j]
  BY <1>1, RecordVoteType, KeyManagerAssumption DEF VoteRecorded
<1>4. /\ \A j \in Keys, w \in Vote : VotedFor(j, w)' => VotedFor(j, w) \/ (j = k /\ w = v)
      /\ \A j \in Keys, s \in Slot : ProposedAt(j, s)' => ProposedAt(j, s)
      /\ \/ SignedVote(k, v) /\ UNCHANGED requests
         \/ UNCHANGED <<signedAtt, signedProp>> /\ requests' = requests \cup {VoteRequest(k, v)}
  BY <1>1, VoteAsked
<1>5. ASSUME k \notin lowered, NEW w \in Vote, VotedFor(k, w)
      PROVE  /\ v # w /\ ~SlashablePair(v, w) /\ ~SlashablePair(w, v)
             /\ Covers(att'[k], w)
  <2>1. Above(v, w)
    BY <1>2, <1>5 DEF SafetyInv, CheckedAbove
  <2> QED BY <1>1, <1>3, <2>1, AboveIsSafe, CoversTransitive
<1>6. SignedBehindClock'
  BY <1>1, <1>2, <1>4 DEF SafetyInv, SignedBehindClock
<1>7. RecordsCover'
  <2>1. ASSUME NEW j \in Keys \ lowered, NEW w \in Vote, VotedFor(j, w)', att'[j] # NoRecord
        PROVE  Covers(att'[j], w)
    BY <1>3, <1>4, <1>5, <2>1 DEF SafetyInv, RecordsCover
  <2> QED BY <1>2, <1>4, <2>1 DEF SafetyInv, RecordsCover
<1>8. WritesCover'
  BY <1>2, <1>3, <1>4 DEF SafetyInv, WritesCover, AttWritten, PropWritten
<1>9. RequestsAreSafe' /\ NoSlashableSignatures'
  BY <1>2, <1>4, <1>5, SafeVoteStep
<1>10. \A w \in Vote : VoteRequest(k, w) \notin checked'
  BY <1>2 DEF SafetyInv, CheckedOnce
<1>11. CheckedBehindClock' /\ CheckedOnce' /\ CheckedAbove'
  BY <1>2, <1>4, <1>10 DEF SafetyInv, CheckedBehindClock, CheckedOnce, CheckedAbove
<1> QED BY <1>6, <1>7, <1>8, <1>9, <1>11 DEF SafetyInv

LEMMA RecordBlockStep ==
  ASSUME SafetyInv, TypeOK', NEW k \in Keys, NEW s \in Slot, BlockRecorded(k, s)
  PROVE  SafetyInv'
<1>1. TypeOK /\ s \in Nat /\ s <= now /\ \A u \in Slot : u \in Nat
  BY ClockAssumption DEF SafetyInv, CheckedBehindClock, BlockRecorded, Slot
<1>2. /\ UNCHANGED <<now, att, wrAtt, wrProp, lowered>> /\ CurrentEpoch' = CurrentEpoch
      /\ checked' = checked \ {BlockRequest(k, s)} /\ BlockRequest(k, s) \in checked
  BY DEF BlockRecorded, CurrentEpoch
<1>3. /\ prop'[k] \in Nat /\ prop'[k] # NoRecord /\ s <= prop'[k]
      /\ \A j \in Keys \ {k} : prop'[j] = prop[j]
  BY <1>1, RecordSlotType, KeyManagerAssumption DEF BlockRecorded
<1>4. /\ \A j \in Keys, w \in Vote : VotedFor(j, w)' => VotedFor(j, w)
      /\ \A j \in Keys, u \in Slot : ProposedAt(j, u)' => ProposedAt(j, u) \/ (j = k /\ u = s)
      /\ \/ SignedSlot(k, s) /\ UNCHANGED requests
         \/ UNCHANGED <<signedAtt, signedProp>> /\ requests' = requests \cup {BlockRequest(k, s)}
  BY <1>1, BlockAsked
<1>5. ASSUME k \notin lowered, NEW u \in Slot, ProposedAt(k, u)
      PROVE  u < s
  BY <1>2, <1>5 DEF SafetyInv, CheckedAbove
<1>6. SignedBehindClock'
  BY <1>1, <1>2, <1>4 DEF SafetyInv, SignedBehindClock
<1>7. RecordsCover'
  <2>1. ASSUME NEW j \in Keys \ lowered, NEW u \in Slot, ProposedAt(j, u)', prop'[j] # NoRecord
        PROVE  u <= prop'[j]
    <3>1. CASE j # k
      BY <1>3, <1>4, <2>1, <3>1 DEF SafetyInv, RecordsCover
    <3>2. CASE j = k
      <4>1. u = s \/ u < s
        BY <1>4, <1>5, <2>1, <3>2
      <4>2. u \in Nat
        BY <1>1
      <4> QED BY <1>1, <1>3, <3>2, <4>1, <4>2
    <3> QED BY <3>1, <3>2
  <2> QED BY <1>2, <1>4, <2>1 DEF SafetyInv, RecordsCover
<1>8. WritesCover'
  BY <1>2, <1>3, <1>4 DEF SafetyInv, WritesCover, AttWritten, PropWritten
<1>9. RequestsAreSafe' /\ NoSlashableSignatures'
  BY <1>1, <1>2, <1>4, <1>5, SafeBlockStep
<1>10. \A u \in Slot : BlockRequest(k, u) \notin checked'
  BY <1>2 DEF SafetyInv, CheckedOnce
<1>11. CheckedBehindClock' /\ CheckedOnce' /\ CheckedAbove'
  BY <1>2, <1>4, <1>10 DEF SafetyInv, CheckedBehindClock, CheckedOnce, CheckedAbove
<1> QED BY <1>6, <1>7, <1>8, <1>9, <1>11 DEF SafetyInv

LEMMA SlashableSymmetric ==
  ASSUME NEW a, NEW b PROVE SlashablePair(a, b) <=> SlashablePair(b, a)
BY DEF SlashablePair

\* The remote signer takes the requests in any order, or loses them.
LEMMA RemoteSignStep ==
  ASSUME SafetyInv, TypeOK', NEW r \in requests, RemoteSign(r)
  PROVE  SafetyInv'
<1>1. /\ TypeOK /\ UNCHANGED <<now, att, prop, wrAtt, wrProp, checked, lowered>>
      /\ requests' = requests \ {r} /\ CurrentEpoch' = CurrentEpoch
      /\ signedAtt \in [Keys -> Seq(Vote)] /\ signedProp \in [Keys -> Seq(Slot)]
  BY DEF SafetyInv, TypeOK, RemoteSign, dbVars, txnVars, exceptions, CurrentEpoch
<1>2. ASSUME \A k \in Keys : /\ \A v \in Vote : VotedFor(k, v)' => VotedFor(k, v)
                             /\ \A s \in Slot : ProposedAt(k, s)' => ProposedAt(k, s)
      PROVE  /\ SignedBehindClock' /\ RecordsCover' /\ WritesCover'
             /\ CheckedBehindClock' /\ CheckedOnce' /\ CheckedAbove'
  BY <1>1, <1>2
  DEF SafetyInv, SignedBehindClock, RecordsCover, WritesCover, AttWritten, PropWritten,
      CheckedBehindClock, CheckedOnce, CheckedAbove
<1>3. ASSUME NEW k \in Keys, NEW v \in Vote, r = VoteRequest(k, v), SignedVote(k, v)
      PROVE  SafetyInv'
  <2>1. /\ \A j \in Keys \ {k} : signedAtt'[j] = signedAtt[j]
        /\ Len(signedAtt[k]) + 1 \notin DOMAIN signedAtt[k]
        /\ DOMAIN signedAtt'[k] = DOMAIN signedAtt[k] \cup {Len(signedAtt[k]) + 1}
        /\ \A i \in DOMAIN signedAtt[k] : signedAtt'[k][i] = signedAtt[k][i]
        /\ signedAtt'[k][Len(signedAtt[k]) + 1] = v
    BY <1>1, <1>3, AppendedFor DEF SignedVote
  <2>2. \A j \in Keys : /\ \A w \in Vote : VotedFor(j, w)' => VotedFor(j, w)
                        /\ \A s \in Slot : ProposedAt(j, s)' => ProposedAt(j, s)
    BY <1>1, <1>3, <2>1 DEF SignedVote, VotedFor, ProposedAt
  <2>3. k \notin lowered => \A i \in DOMAIN signedAtt[k] : /\ ~SlashablePair(signedAtt[k][i], v)
                                                           /\ ~SlashablePair(v, signedAtt[k][i])
    BY <1>3, SlashableSymmetric DEF SafetyInv, RequestsAreSafe
  <2>4. ASSUME NEW j \in Keys \ lowered
        PROVE  \A a, b \in DOMAIN signedAtt'[j] :
                 a # b => ~SlashablePair(signedAtt'[j][a], signedAtt'[j][b])
    <3>1. CASE j # k
      BY <2>1, <3>1 DEF SafetyInv, NoSlashableSignatures
    <3>2. CASE j = k
      BY <2>1, <2>3, <3>2 DEF SafetyInv, NoSlashableSignatures
    <3> QED BY <3>1, <3>2
  <2>5. NoSlashableSignatures'
    BY <1>1, <1>3, <2>4 DEF SafetyInv, NoSlashableSignatures, SignedVote
  <2>6. ASSUME NEW j \in Keys \ lowered, NEW w \in Vote, VoteRequest(j, w) \in requests'
        PROVE  \A i \in DOMAIN signedAtt'[j] : ~SlashablePair(signedAtt'[j][i], w)
    <3>1. CASE j # k
      BY <1>1, <2>1, <2>6, <3>1 DEF SafetyInv, RequestsAreSafe
    <3>2. CASE j = k
      <4>1. w # v
        BY <1>1, <1>3, <2>6, <3>2
      <4> QED BY <1>1, <1>3, <2>1, <2>6, <3>2, <4>1 DEF SafetyInv, RequestsAreSafe
    <3> QED BY <3>1, <3>2
  <2>7. RequestsAreSafe'
    BY <1>1, <1>3, <2>6 DEF SafetyInv, RequestsAreSafe, SignedVote
  <2> QED BY <1>2, <2>2, <2>5, <2>7 DEF SafetyInv
<1>4. ASSUME NEW k \in Keys, NEW s \in Slot, r = BlockRequest(k, s), SignedSlot(k, s)
      PROVE  SafetyInv'
  <2>1. /\ \A j \in Keys \ {k} : signedProp'[j] = signedProp[j]
        /\ Len(signedProp[k]) + 1 \notin DOMAIN signedProp[k]
        /\ DOMAIN signedProp'[k] = DOMAIN signedProp[k] \cup {Len(signedProp[k]) + 1}
        /\ \A i \in DOMAIN signedProp[k] : signedProp'[k][i] = signedProp[k][i]
        /\ signedProp'[k][Len(signedProp[k]) + 1] = s
    BY <1>1, <1>4, AppendedFor DEF SignedSlot
  <2>2. \A j \in Keys : /\ \A w \in Vote : VotedFor(j, w)' => VotedFor(j, w)
                        /\ \A u \in Slot : ProposedAt(j, u)' => ProposedAt(j, u)
    BY <1>1, <1>4, <2>1 DEF SignedSlot, VotedFor, ProposedAt
  <2>3. ASSUME NEW j \in Keys \ lowered
        PROVE  \A a, b \in DOMAIN signedProp'[j] : a # b => signedProp'[j][a] # signedProp'[j][b]
    <3>1. CASE j # k
      BY <2>1, <3>1 DEF SafetyInv, NoSlashableSignatures
    <3>2. CASE j = k
      BY <1>4, <2>1, <3>2 DEF SafetyInv, NoSlashableSignatures, RequestsAreSafe
    <3> QED BY <3>1, <3>2
  <2>4. NoSlashableSignatures'
    BY <1>1, <1>4, <2>3 DEF SafetyInv, NoSlashableSignatures, SignedSlot
  <2>5. ASSUME NEW j \in Keys \ lowered, NEW u \in Slot, BlockRequest(j, u) \in requests'
        PROVE  \A i \in DOMAIN signedProp'[j] : signedProp'[j][i] # u
    <3>1. CASE j # k
      BY <1>1, <2>1, <2>5, <3>1 DEF SafetyInv, RequestsAreSafe
    <3>2. CASE j = k
      <4>1. u # s
        BY <1>1, <1>4, <2>5, <3>2
      <4>2. \A i \in DOMAIN signedProp[k] : signedProp[k][i] # u
        BY <1>1, <2>5, <3>2 DEF SafetyInv, RequestsAreSafe
      <4> QED BY <2>1, <3>2, <4>1, <4>2
    <3> QED BY <3>1, <3>2
  <2>6. RequestsAreSafe'
    BY <1>1, <1>4, <2>5 DEF SafetyInv, RequestsAreSafe, SignedSlot
  <2> QED BY <1>2, <2>2, <2>4, <2>6 DEF SafetyInv
<1>5. CASE UNCHANGED <<signedAtt, signedProp>>
  <2>1. \A j \in Keys : /\ \A w \in Vote : VotedFor(j, w)' => VotedFor(j, w)
                        /\ \A s \in Slot : ProposedAt(j, s)' => ProposedAt(j, s)
    BY <1>1, <1>5 DEF VotedFor, ProposedAt
  <2>2. RequestsAreSafe' /\ NoSlashableSignatures'
    BY <1>1, <1>5 DEF SafetyInv, RequestsAreSafe, NoSlashableSignatures
  <2> QED BY <1>2, <2>1, <2>2 DEF SafetyInv
<1> QED BY <1>1, <1>3, <1>4, <1>5, RemoteSignCases

\* The steps of a transaction move the records of a key that is not lowered
\* upwards only.
LEMMA TransactionStep ==
  ASSUME SafetyInv, TypeOK', WritesInTxn,
         \/ UNCHANGED vars \/ NextSlot \/ BeginBlock \/ CommitBlock \/ SyncHistory \/ TxnLost
         \/ \E k \in Keys : \/ AddShare(k) \/ RemoveShare(k) \/ BumpSlashingProtection(k)
                            \/ HandleClusterLiquidated(k) \/ UpdateValidatorsMetadata(k)
  PROVE  SafetyInv'
<1> USE DEF dbVars, txnVars, bounds, signedVars, exceptions, historyVars
<1>1. /\ UNCHANGED <<signedAtt, signedProp>> /\ requests' \subseteq requests
      /\ checked' \subseteq checked /\ lowered \subseteq lowered'
  BY DEF vars, NextSlot, BeginBlock, CommitBlock, SyncHistory, TxnLost, AddShare, RemoveShare,
         BumpSlashingProtection, HandleClusterLiquidated, UpdateValidatorsMetadata
<1>2. now <= now'
  <2>1. now' = now \/ NextSlot
    BY DEF vars, BeginBlock, CommitBlock, SyncHistory, TxnLost, AddShare, RemoveShare,
           BumpSlashingProtection, HandleClusterLiquidated, UpdateValidatorsMetadata
  <2> QED BY <2>1, ClockAssumption DEF SafetyInv, TypeOK, Slot, NextSlot, Advance
<1>3. \A k \in Keys : /\ att[k] # NoRecord => att[k] \in Vote /\ Covers(att[k], att[k])
                      /\ prop[k] # NoRecord => prop[k] \in Nat /\ prop[k] <= prop[k]
  <2>0. now \in Slot
    BY DEF SafetyInv, TypeOK
  <2>1. Epoch(MaxSlot) \in Nat /\ \A s \in Slot : s \in Nat
    BY <2>0, CurrentEpochType, ClockAssumption DEF Slot
  <2>2. \A v \in Vote : Covers(v, v)
    BY <2>1 DEF Covers, Vote
  <2>3. /\ att \in [Keys -> Vote \cup {NoRecord}]
        /\ prop \in [Keys -> Slot \cup {NoRecord}]
    BY DEF SafetyInv, TypeOK
  <2>4. \A s \in Slot : s \in Nat /\ s <= s
    BY <2>1
  <2> QED BY <2>2, <2>3, <2>4
<1>4. ASSUME NEW j \in Keys, UNCHANGED <<att, prop>>,
             AttWritten(j)' => \/ wrAtt'[j] = MinimalVote(CurrentEpoch)
                               \/ AttWritten(j) /\ wrAtt'[j] = wrAtt[j],
             PropWritten(j)' => \/ wrProp'[j] = now
                                \/ PropWritten(j) /\ wrProp'[j] = wrProp[j]
      PROVE  RecordsRise(j)
  BY <1>3, <1>4 DEF RecordsRise
<1>5. ASSUME NEW j \in Keys \ lowered' PROVE RecordsRise(j)
  <2>1. CASE \/ UNCHANGED vars \/ NextSlot \/ BeginBlock \/ SyncHistory
             \/ \E k \in Keys : HandleClusterLiquidated(k) \/ UpdateValidatorsMetadata(k)
    <3>1. UNCHANGED <<att, prop, wrAtt, wrProp>>
      BY <2>1 DEF vars, NextSlot, BeginBlock, SyncHistory, HandleClusterLiquidated,
                  UpdateValidatorsMetadata
    <3> QED BY <1>4, <3>1 DEF AttWritten, PropWritten
  <2>2. CASE TxnLost
    <3>1. CloseTxn /\ UNCHANGED <<att, prop>>
      BY <2>2 DEF TxnLost
    <3>2. ~AttWritten(j)' /\ ~PropWritten(j)'
      BY <3>1, ClockClosed
    <3> QED BY <1>4, <3>1, <3>2
  <2>3. CASE CommitBlock
    <3>1. DOMAIN wrAtt' = {} /\ DOMAIN wrProp' = {}
      BY <2>3, NoWritesType DEF CommitBlock, CloseTxn
    <3>2. /\ att'[j] = IF j \in DOMAIN wrAtt THEN wrAtt[j] ELSE att[j]
          /\ prop'[j] = IF j \in DOMAIN wrProp THEN wrProp[j] ELSE prop[j]
      BY <2>3 DEF CommitBlock, Over
    <3>3. ~Lowers(j)
      BY <2>3 DEF CommitBlock
    <3>4. /\ AttWritten(j) => wrAtt[j] \in Vote
          /\ PropWritten(j) => wrProp[j] \in Nat
          /\ Epoch(MaxSlot) \in Nat
      <4>1. TypeOK
        BY DEF SafetyInv
      <4>2. now \in Slot
        BY <4>1 DEF TypeOK
      <4>3. Epoch(MaxSlot) \in Nat
        BY <4>2, CurrentEpochType
      <4>4. \A s \in Slot : s \in Nat
        BY ClockAssumption DEF Slot
      <4> QED BY <4>1, <4>3, <4>4, WrittenType
    <3>5. AttWritten(j) /\ att[j] # NoRecord => Covers(wrAtt[j], att[j])
      BY <1>3, <3>3, <3>4 DEF Lowers, AttWritten, Covers, Vote
    <3>6. PropWritten(j) /\ prop[j] # NoRecord => prop[j] <= wrProp[j]
      BY <1>3, <3>3, <3>4 DEF Lowers, PropWritten
    <3> QED BY <1>3, <3>1, <3>2, <3>5, <3>6 DEF RecordsRise, AttWritten, PropWritten
  <2>4. ASSUME NEW k \in Keys, Bump(k), UNCHANGED <<att, prop>> PROVE RecordsRise(j)
    BY <1>4, <2>4, BumpWrites DEF SafetyInv
  <2>5. ASSUME NEW k \in Keys, AddShare(k) PROVE RecordsRise(j)
    <3>1. CASE UNCHANGED <<wrAtt, wrProp>>
      BY <1>4, <2>5, <3>1 DEF AddShare, AttWritten, PropWritten
    <3>2. CASE Bump(k)
      BY <2>4, <2>5, <3>2 DEF AddShare
    <3> QED BY <2>5, <3>1, <3>2, AddShareCases
  <2>6. ASSUME NEW k \in Keys, RemoveShare(k) PROVE RecordsRise(j)
    <3>1. UNCHANGED <<att, prop>>
      BY <2>6 DEF RemoveShare
    <3> QED BY <1>4, <2>6, <3>1, RemoveWrites DEF SafetyInv
  <2>7. ASSUME NEW k \in Keys, BumpSlashingProtection(k) PROVE RecordsRise(j)
    BY <2>4, <2>7 DEF BumpSlashingProtection
  <2> QED BY <2>1, <2>2, <2>3, <2>5, <2>6, <2>7
<1> QED BY <1>1, <1>2, <1>5, QuietStep

\* Through restarts, removals and returns, bumps and out-of-order remote
\* requests no key signs a slashable pair, unless a commit moved its record
\* backwards (signBeaconObject, prepareSignRequest, BumpSlashingProtectionTxn).
THEOREM KeysAreNotSlashed == Spec => []NoSlashableSignatures
<1> DEFINE IInv == SafetyInv /\ RecordsInv
<1>1. Init => IInv
  <2> SUFFICES ASSUME Init PROVE IInv
    OBVIOUS
  <2>1. TypeOK /\ RecordsInv
    BY InitType, RecordsInit
  <2>2. \A k \in Keys : /\ DOMAIN signedAtt[k] = {} /\ DOMAIN signedProp[k] = {}
                        /\ \A v \in Vote : ~VotedFor(k, v)
                        /\ \A s \in Slot : ~ProposedAt(k, s)
    BY DEF Init, VotedFor, ProposedAt
  <2>3. requests = {} /\ checked = {}
    BY DEF Init
  <2> QED
    BY <2>1, <2>2, <2>3
    DEF SafetyInv, CheckedBehindClock, CheckedOnce, CheckedAbove, SignedBehindClock, RecordsCover,
        WritesCover, RequestsAreSafe, NoSlashableSignatures
<1>2. IInv /\ [Next]_vars => IInv'
  <2> SUFFICES ASSUME IInv, [Next]_vars PROVE IInv'
    OBVIOUS
  <2>1. TypeOK /\ TypeOK' /\ RecordsInv' /\ WritesInTxn
    BY TypeStep, RecordsStep DEF SafetyInv, RecordsInv
  <2>2. ASSUME TxnLost PROVE SafetyInv'
    BY <2>1, <2>2, TransactionStep
  <2>3. ASSUME CommitConflicts \/ BlockFails \/ (Restart /\ UNCHANGED held) PROVE SafetyInv'
    <3>1. Restart \/ Retry(shares)
      BY <2>3 DEF CommitConflicts, BlockFails
    <3> QED BY <2>2, <3>1, TxnLostStep
  <2>4. ASSUME NEW k \in Keys, AddShareFails(k) \/ RemoveShareFails(k) PROVE SafetyInv'
    <3>1. Restart \/ Retry(shares) \/ Retry(shares \ {k})
      BY <2>4 DEF AddShareFails, RemoveShareFails
    <3> QED BY <2>2, <3>1, TxnLostStep
  <2>5. ASSUME NEW r \in checked, RecordAttestation(r) \/ RecordBlock(r) PROVE SafetyInv'
    BY <2>1, <2>5, RecordCases, RecordVoteStep, RecordBlockStep
  <2>6. SafetyInv'
    BY <2>1, <2>3, <2>4, <2>5, TransactionStep, CheckAttestationStep, CheckBlockStep, RemoteSignStep
    DEF Next
  <2> QED BY <2>1, <2>6
<1>3. IInv => NoSlashableSignatures
  BY DEF SafetyInv
<1> QED BY <1>1, <1>2, <1>3, PTL DEF Spec

-----------------------------------------------------------------------------
(* Doppelganger protection: the inductive invariant.                       *)

\* Every epoch that a validator's count went down by is among its quiet ones.
CountIsCovered ==
  \A v \in Validators :
    /\ IsFiniteSet(quietEpochs[v])
    /\ tracked[v] # None =>
         tracked[v].remainingEpochs + Cardinality(quietEpochs[v]) >= InitialRemainingDetectionEpochs

\* The present epoch was checked and is not checked again: at the first run,
\* or by the tick of its last slot.
DoneThisEpoch ==
  /\ ~firstRun
  /\ startEpoch = CurrentEpoch \/ (IsLastSlotOfEpoch(now) /\ ticked)

\* The epoch before the present one was asked about only if no later tick of
\* the present one asks again.
AskedOnce(e) == e + 1 < CurrentEpoch \/ (e + 1 = CurrentEpoch /\ DoneThisEpoch)

QuietEpochsAskedOnce == \A v \in Validators : \A e \in quietEpochs[v] : AskedOnce(e)

\* The answer that is awaited is about an epoch no earlier answer was about.
QuestionIsNew ==
  checking # None =>
    /\ AskedOnce(checking.epoch)
    /\ \A v \in Validators : \A e \in quietEpochs[v] : e < checking.epoch

\* No check runs in the epoch of genesis: the epoch before the present one,
\* which it asks about, exists.
StartedAfterGenesis == IF firstRun THEN startEpoch = 0 ELSE startEpoch \in 1 .. CurrentEpoch

QuietInv ==
  /\ DoppelgangerTypeOK /\ StartedAfterGenesis /\ CountIsCovered /\ QuietEpochsAskedOnce
  /\ QuestionIsNew

-----------------------------------------------------------------------------
(* The clock.                                                              *)

LEMMA EpochType ==
  ASSUME NEW s \in Nat PROVE Epoch(s) \in Nat
<1>1. ASSUME NEW S \in Nat \ {0}, NEW x \in Nat PROVE x \div S \in Nat
  BY <1>1
<1> QED BY <1>1, ClockAssumption DEF Epoch

\* The clock never leaves an epoch backwards, and leaves it after its last slot.
LEMMA EpochOfNextSlot ==
  ASSUME NEW s \in Nat
  PROVE  /\ Epoch(s + 1) >= Epoch(s)
         /\ IsLastSlotOfEpoch(s) => Epoch(s + 1) > Epoch(s)
<1>1. ASSUME NEW S \in Nat \ {0}, NEW x \in Nat
      PROVE  /\ (x + 1) \div S >= x \div S
             /\ x % S = S - 1 => (x + 1) \div S > x \div S
  OBVIOUS
<1> QED BY <1>1, ClockAssumption DEF Epoch, IsLastSlotOfEpoch

LEMMA CurrentEpochIsNat ==
  ASSUME now \in Slot PROVE now \in Nat /\ CurrentEpoch \in Nat
BY EpochType, ClockAssumption DEF Slot, CurrentEpoch

\* An epoch that is asked about once stays so in the next slot.
LEMMA NextSlotAsks ==
  ASSUME DoppelgangerTypeOK, NewSlot, NEW e \in Int, AskedOnce(e)
  PROVE  AskedOnce(e)'
<1>1. /\ now \in Nat /\ now' = now + 1 /\ CurrentEpoch \in Nat /\ CurrentEpoch' \in Nat
      /\ firstRun' = firstRun /\ startEpoch' = startEpoch
  BY CurrentEpochIsNat, EpochType DEF DoppelgangerTypeOK, NewSlot, Advance, CurrentEpoch
<1>2. CurrentEpoch' >= CurrentEpoch /\ (IsLastSlotOfEpoch(now) => CurrentEpoch' > CurrentEpoch)
  BY <1>1, EpochOfNextSlot DEF CurrentEpoch
<1>3. CASE CurrentEpoch' > CurrentEpoch
  BY <1>1, <1>3 DEF AskedOnce
<1>4. CASE CurrentEpoch' = CurrentEpoch
  BY <1>1, <1>2, <1>4 DEF AskedOnce, DoneThisEpoch
<1> QED BY <1>1, <1>2, <1>3, <1>4

-----------------------------------------------------------------------------
(* Type correctness.                                                       *)

LEMMA DoppelgangerInitType == DoppelgangerInit => DoppelgangerTypeOK /\ StartedAfterGenesis
<1> SUFFICES ASSUME DoppelgangerInit PROVE DoppelgangerTypeOK /\ StartedAfterGenesis
  OBVIOUS
<1>1. 0 \in Slot /\ 0 \in 0 .. MaxRestarts
  BY ClockAssumption, DoppelgangerAssumption DEF Slot
<1> QED BY <1>1 DEF DoppelgangerInit, DoppelgangerTypeOK, StartedAfterGenesis

LEMMA ChecksAfterGenesis ==
  ASSUME DoppelgangerTypeOK, StartedAfterGenesis, ChecksNow
  PROVE  CurrentEpoch - 1 \in Nat /\ CurrentEpoch \in Nat \ {0}
<1>1. CurrentEpoch \in Nat
  BY CurrentEpochIsNat DEF DoppelgangerTypeOK
<1> QED BY <1>1 DEF ChecksNow, StartedAfterGenesis

LEMMA UpdatedType ==
  ASSUME DoppelgangerTypeOK, NEW participating \in SUBSET Validators
  PROVE  /\ Updated(participating) \in [Validators -> State \cup {None}]
         /\ ResetStates(Updated(participating)) \in [Validators -> State \cup {None}]
<1>1. NewState \in State
  BY DEF NewState, State, InitialRemainingDetectionEpochs
<1>2. Updated(participating) \in [Validators -> State \cup {None}]
  BY <1>1 DEF Updated, DoppelgangerTypeOK
<1>3. \A st \in State : [st EXCEPT !.remainingEpochs = InitialRemainingDetectionEpochs] \in State
  BY DEF State, InitialRemainingDetectionEpochs
<1>4. ASSUME NEW states \in [Validators -> State \cup {None}]
      PROVE  ResetStates(states) \in [Validators -> State \cup {None}]
  BY <1>3 DEF ResetStates
<1> QED BY <1>2, <1>4

\* The answer takes one off a count, starts it anew or leaves it.
LEMMA ProcessedType ==
  ASSUME DoppelgangerTypeOK, checking # None, NEW live \in SUBSET Validators
  PROVE  Processed(live) \in [Validators -> State \cup {None}]
<1>1. \A st \in State : [st EXCEPT !.remainingEpochs = InitialRemainingDetectionEpochs] \in State
  BY DEF State, InitialRemainingDetectionEpochs
<1>2. \A st \in State : st.remainingEpochs # 0 => [st EXCEPT !.remainingEpochs = @ - 1] \in State
  BY DEF State, InitialRemainingDetectionEpochs
<1>3. tracked \in [Validators -> State \cup {None}]
  BY DEF DoppelgangerTypeOK
<1> QED BY <1>1, <1>2, <1>3 DEF Processed

LEMMA DoppelgangerTypeStep ==
  ASSUME DoppelgangerTypeOK, StartedAfterGenesis, [DoppelgangerNext]_doppelgangerVars
  PROVE  (DoppelgangerTypeOK /\ StartedAfterGenesis)'
<1> DEFINE Goal == (DoppelgangerTypeOK /\ StartedAfterGenesis)'
<1>1. ASSUME UNCHANGED <<now, firstRun, startEpoch>> PROVE StartedAfterGenesis'
  BY <1>1 DEF StartedAfterGenesis, CurrentEpoch
<1>2. CASE UNCHANGED doppelgangerVars
  BY <1>1, <1>2 DEF DoppelgangerTypeOK, doppelgangerVars, loopVars
<1>3. CASE NewSlot
  <2>1. now' \in Slot /\ now' = now + 1
    BY <1>3, ClockAssumption DEF DoppelgangerTypeOK, NewSlot, Advance, Slot
  <2>2. now \in Nat /\ CurrentEpoch \in Nat /\ CurrentEpoch' \in Nat
    BY <2>1, CurrentEpochIsNat, EpochType DEF DoppelgangerTypeOK, CurrentEpoch
  <2>3. CurrentEpoch' >= CurrentEpoch
    BY <2>1, <2>2, EpochOfNextSlot DEF CurrentEpoch
  <2>4. StartedAfterGenesis'
    BY <1>3, <2>2, <2>3 DEF StartedAfterGenesis, NewSlot
  <2> QED BY <1>3, <2>1, <2>4 DEF DoppelgangerTypeOK, NewSlot
<1>4. ASSUME NEW participating \in SUBSET Validators, Tick(participating)
      PROVE  Goal
  <2>1. tracked' \in [Validators -> State \cup {None}]
    BY <1>4, UpdatedType DEF Tick
  <2>2. quietEpochs' \in [Validators -> SUBSET Nat]
    BY <1>4 DEF Tick, DoppelgangerTypeOK
  <2>3. CurrentEpoch \in Nat /\ now \in Slot /\ CurrentEpoch' = CurrentEpoch
    BY <1>4, CurrentEpochIsNat DEF DoppelgangerTypeOK, Tick, CurrentEpoch
  <2>4. CASE ChecksNow
    <3>1. CurrentEpoch - 1 \in Nat /\ CurrentEpoch \in Nat \ {0}
      BY <2>4, ChecksAfterGenesis
    <3>2. checking' \in [epoch : Nat, slot : Slot, validators : SUBSET Validators] \cup {None}
      BY <1>4, <2>3, <2>4, <3>1 DEF Tick
    <3>3. startEpoch' \in Nat /\ previousEpoch' \in Nat /\ firstRun' \in BOOLEAN
      BY <1>4, <2>3, <2>4 DEF Tick, DoppelgangerTypeOK
    <3>4. StartedAfterGenesis'
      BY <1>4, <2>3, <2>4, <3>1 DEF Tick, StartedAfterGenesis
    <3> QED BY <1>4, <2>1, <2>2, <3>2, <3>3, <3>4 DEF Tick, DoppelgangerTypeOK
  <2>5. CASE ~ChecksNow
    <3>1. UNCHANGED <<now, restarts, firstRun, startEpoch, previousEpoch, checking>> /\ ticked' = TRUE
      BY <1>4, <2>5 DEF Tick
    <3> QED BY <1>1, <2>1, <2>2, <3>1 DEF DoppelgangerTypeOK
  <2> QED BY <2>4, <2>5
<1>5. ASSUME NEW v \in Validators, ReportQuorum(v)
      PROVE  Goal
  <2>1. tracked[v] \in State
    BY <1>5 DEF ReportQuorum, DoppelgangerTypeOK
  <2>2. [tracked[v] EXCEPT !.observedQuorum = TRUE] \in State
    BY <2>1 DEF State
  <2>3. tracked' \in [Validators -> State \cup {None}]
    BY <1>5, <2>2 DEF ReportQuorum, DoppelgangerTypeOK
  <2> QED BY <1>1, <1>5, <2>3 DEF ReportQuorum, DoppelgangerTypeOK, loopVars
<1>6. ASSUME NEW v \in Validators, RemoveValidatorState(v)
      PROVE  Goal
  BY <1>1, <1>6 DEF RemoveValidatorState, DoppelgangerTypeOK, loopVars
<1>7. ASSUME NEW live \in SUBSET Validators, LivenessAnswered(live)
      PROVE  Goal
  <2>1. checking.epoch \in Nat
    BY <1>7 DEF DoppelgangerTypeOK, LivenessAnswered
  <2>2. tracked' \in [Validators -> State \cup {None}]
    BY <1>7, ProcessedType DEF LivenessAnswered
  <2>3. quietEpochs' \in [Validators -> SUBSET Nat]
    BY <1>7, <2>1 DEF LivenessAnswered, DoppelgangerTypeOK
  <2>4. previousEpoch' \in Nat
    BY <1>7, <2>1 DEF LivenessAnswered
  <2> QED BY <1>1, <1>7, <2>2, <2>3, <2>4 DEF LivenessAnswered, DoppelgangerTypeOK
<1>8. CASE LivenessFailed
  <2>1. previousEpoch' \in Nat
    BY <1>8 DEF DoppelgangerTypeOK, LivenessFailed
  <2> QED BY <1>1, <1>8, <2>1 DEF LivenessFailed, DoppelgangerTypeOK
<1>9. CASE Crash
  <2>1. restarts' \in 0 .. MaxRestarts
    BY <1>9, DoppelgangerAssumption DEF Crash, DoppelgangerTypeOK
  <2> QED BY <1>9, <2>1 DEF Crash, DoppelgangerTypeOK, StartedAfterGenesis
<1> QED BY <1>2, <1>3, <1>4, <1>5, <1>6, <1>7, <1>8, <1>9 DEF DoppelgangerNext

\* Type correctness; in particular the epoch a check asks about never wraps
\* below zero (Start, checkLiveness).
THEOREM DoppelgangerTypesHold == DoppelgangerSpec => []DoppelgangerTypeOK
<1> DEFINE TInv == DoppelgangerTypeOK /\ StartedAfterGenesis
<1>1. DoppelgangerInit => TInv
  BY DoppelgangerInitType
<1>2. TInv /\ [DoppelgangerNext]_doppelgangerVars => TInv'
  BY DoppelgangerTypeStep
<1> QED BY <1>1, <1>2, PTL DEF DoppelgangerSpec

-----------------------------------------------------------------------------
(* Two quiet epochs.                                                       *)

LEMMA AskedStays ==
  ASSUME NEW e, AskedOnce(e), UNCHANGED <<now, firstRun, startEpoch>>, ticked => ticked'
  PROVE  AskedOnce(e)'
BY DEF AskedOnce, DoneThisEpoch, CurrentEpoch

\* A tick that checks asks about an epoch later than every quiet one, and is
\* the last of its epoch to do so.
LEMMA TickStep ==
  ASSUME QuietInv, NEW participating \in SUBSET Validators, Tick(participating)
  PROVE  (CountIsCovered /\ QuietEpochsAskedOnce /\ QuestionIsNew)'
<1>1. DoppelgangerTypeOK /\ CurrentEpoch \in Nat /\ CurrentEpoch' = CurrentEpoch /\ now' = now
  BY CurrentEpochIsNat DEF QuietInv, DoppelgangerTypeOK, Tick, CurrentEpoch
<1>2. \A v \in Validators : quietEpochs'[v] \in {quietEpochs[v], {}}
  BY DEF Tick
<1>3. \A v \in Validators : \A e \in quietEpochs[v] : e \in Nat
  BY <1>1 DEF DoppelgangerTypeOK
<1>4. CountIsCovered'
  <2> SUFFICES ASSUME NEW v \in Validators
               PROVE  /\ IsFiniteSet(quietEpochs'[v])
                      /\ tracked'[v] # None => tracked'[v].remainingEpochs + Cardinality(quietEpochs'[v])
                                                 >= InitialRemainingDetectionEpochs
    BY DEF CountIsCovered
  <2>1. IsFiniteSet({}) /\ Cardinality({}) = 0
    BY FS_EmptySet
  <2>2. IsFiniteSet(quietEpochs'[v])
    BY <1>2, <2>1 DEF QuietInv, CountIsCovered
  <2>3. \/ tracked'[v] = None
        \/ tracked'[v] = tracked[v] /\ tracked[v] # None /\ quietEpochs'[v] = quietEpochs[v]
        \/ /\ quietEpochs'[v] = {}
           /\ tracked'[v].remainingEpochs = InitialRemainingDetectionEpochs
    <3> DEFINE u == Updated(participating)[v]
    <3>1. u = None \/ (tracked[v] = None /\ u = NewState) \/ (tracked[v] # None /\ u = tracked[v])
      BY DEF Updated
    <3>2. ResetStates(Updated(participating))[v] =
            IF u = None THEN None ELSE [u EXCEPT !.remainingEpochs = InitialRemainingDetectionEpochs]
      BY DEF ResetStates
    <3>3. u # None => [u EXCEPT !.remainingEpochs = InitialRemainingDetectionEpochs].remainingEpochs
                        = InitialRemainingDetectionEpochs
      <4>1. u # None => u \in State
        BY <1>1, UpdatedType
      <4> HIDE DEF u
      <4> QED BY <4>1 DEF State
    <3>4. NewState.remainingEpochs = InitialRemainingDetectionEpochs
      BY DEF NewState
    <3>5. CASE ChecksNow /\ EpochSkipped
      <4>1. tracked'[v] = ResetStates(Updated(participating))[v] /\ quietEpochs'[v] = {}
        BY <3>5 DEF Tick
      <4> QED BY <3>2, <3>3, <4>1
    <3>6. CASE ~(ChecksNow /\ EpochSkipped)
      <4>1. tracked'[v] = u
        BY <3>6 DEF Tick
      <4>2. quietEpochs'[v] = IF tracked[v] = None \/ u = None THEN {} ELSE quietEpochs[v]
        BY <3>6 DEF Tick
      <4> QED BY <3>1, <3>4, <4>1, <4>2
    <3> QED BY <3>5, <3>6
  <2> QED
    BY <2>1, <2>2, <2>3 DEF QuietInv, CountIsCovered, InitialRemainingDetectionEpochs
<1>5. CASE ChecksNow
  <2>1. ~DoneThisEpoch
    BY <1>5 DEF ChecksNow, DoneThisEpoch, Tick
  <2>2. \A v \in Validators : \A e \in quietEpochs[v] : e < CurrentEpoch - 1
    BY <1>1, <1>3, <2>1 DEF QuietInv, QuietEpochsAskedOnce, AskedOnce
  <2>3. DoneThisEpoch'
    BY <1>1, <1>5 DEF ChecksNow, DoneThisEpoch, Tick
  <2>4. QuietEpochsAskedOnce'
    BY <1>1, <1>2, <1>3, <2>2 DEF QuietEpochsAskedOnce, AskedOnce
  <2>5. checking' = None \/ checking'.epoch = CurrentEpoch - 1
    BY <1>5 DEF Tick
  <2>6. QuestionIsNew'
    BY <1>1, <1>2, <2>2, <2>3, <2>5 DEF QuestionIsNew, AskedOnce
  <2> QED BY <1>4, <2>4, <2>6
<1>6. CASE ~ChecksNow
  <2>1. UNCHANGED <<now, firstRun, startEpoch, checking>> /\ ticked' = TRUE
    BY <1>6 DEF Tick
  <2>2. QuietEpochsAskedOnce' /\ QuestionIsNew'
    BY <1>2, <2>1, AskedStays DEF QuietInv, QuietEpochsAskedOnce, QuestionIsNew
  <2> QED BY <1>4, <2>2
<1> QED BY <1>5, <1>6

\* An answer counts an epoch that no answer since the count began was about.
LEMMA AnswerStep ==
  ASSUME QuietInv, NEW live \in SUBSET Validators, LivenessAnswered(live)
  PROVE  (CountIsCovered /\ QuietEpochsAskedOnce /\ QuestionIsNew)'
<1> DEFINE e == checking.epoch
<1>1. /\ DoppelgangerTypeOK /\ checking # None /\ checking' = None /\ e \in Nat
      /\ UNCHANGED <<now, firstRun, startEpoch, ticked>>
  BY DEF QuietInv, DoppelgangerTypeOK, LivenessAnswered
<1>2. AskedOnce(e) /\ \A v \in Validators : \A q \in quietEpochs[v] : q < e
  BY <1>1 DEF QuietInv, QuestionIsNew
<1>3. ASSUME NEW v \in Validators
      PROVE  /\ IsFiniteSet(quietEpochs'[v])
             /\ tracked'[v] # None => tracked'[v].remainingEpochs + Cardinality(quietEpochs'[v])
                                        >= InitialRemainingDetectionEpochs
             /\ quietEpochs'[v] \subseteq quietEpochs[v] \cup {e}
  <2>1. CASE v \notin checking.validators \/ tracked[v] = None
    <3>1. tracked'[v] = tracked[v] /\ quietEpochs'[v] = quietEpochs[v]
      BY <2>1 DEF LivenessAnswered, Processed
    <3> QED BY <3>1 DEF QuietInv, CountIsCovered
  <2>2. CASE v \in checking.validators /\ tracked[v] # None
    <3>1. tracked[v] \in State /\ tracked[v].remainingEpochs \in 0 .. 2
      BY <1>1, <2>2 DEF DoppelgangerTypeOK, State, InitialRemainingDetectionEpochs
    <3>2. CASE v \in live
      <4>1. quietEpochs'[v] = {}
        BY <2>2, <3>2 DEF LivenessAnswered
      <4>2. tracked'[v] = [tracked[v] EXCEPT !.remainingEpochs = InitialRemainingDetectionEpochs]
        BY <2>2, <3>2 DEF LivenessAnswered, Processed
      <4>3. tracked'[v].remainingEpochs = 2
        BY <3>1, <4>2 DEF State, InitialRemainingDetectionEpochs
      <4> QED BY <4>1, <4>3, FS_EmptySet DEF InitialRemainingDetectionEpochs
    <3>3. CASE v \notin live
      <4>1. quietEpochs'[v] = quietEpochs[v] \cup {e}
        BY <2>2, <3>3 DEF LivenessAnswered
      <4>2. IsFiniteSet(quietEpochs[v]) /\ e \notin quietEpochs[v]
        BY <1>1, <1>2 DEF QuietInv, CountIsCovered
      <4>3. /\ IsFiniteSet(quietEpochs'[v])
            /\ Cardinality(quietEpochs'[v]) = Cardinality(quietEpochs[v]) + 1
            /\ Cardinality(quietEpochs[v]) \in Nat
        BY <4>1, <4>2, FS_AddElement, FS_CardinalityType
      <4>4. tracked'[v] = IF tracked[v].remainingEpochs = 0 THEN tracked[v]
                          ELSE [tracked[v] EXCEPT !.remainingEpochs = @ - 1]
        BY <2>2, <3>3 DEF LivenessAnswered, Processed
      <4>5. tracked'[v].remainingEpochs + 1 >= tracked[v].remainingEpochs
            /\ tracked'[v].remainingEpochs \in Int
        BY <3>1, <4>4 DEF State
      <4>6. tracked[v].remainingEpochs + Cardinality(quietEpochs[v]) >= InitialRemainingDetectionEpochs
        BY <2>2 DEF QuietInv, CountIsCovered
      <4> QED BY <3>1, <4>1, <4>3, <4>5, <4>6 DEF InitialRemainingDetectionEpochs
    <3> QED BY <3>2, <3>3
  <2> QED BY <2>1, <2>2
<1>4. CountIsCovered'
  BY <1>3 DEF CountIsCovered
<1>5. QuietEpochsAskedOnce'
  BY <1>1, <1>2, <1>3, AskedStays DEF QuietInv, QuietEpochsAskedOnce
<1> QED BY <1>1, <1>4, <1>5 DEF QuestionIsNew

LEMMA QuietInvStep ==
  ASSUME QuietInv, [DoppelgangerNext]_doppelgangerVars
  PROVE  QuietInv'
<1>1. (DoppelgangerTypeOK /\ StartedAfterGenesis)'
  BY DoppelgangerTypeStep DEF QuietInv
<1> SUFFICES (CountIsCovered /\ QuietEpochsAskedOnce /\ QuestionIsNew)'
  BY <1>1 DEF QuietInv
<1> DEFINE Goal == (CountIsCovered /\ QuietEpochsAskedOnce /\ QuestionIsNew)'
<1>2. ASSUME UNCHANGED <<now, firstRun, startEpoch, ticked, checking>>,
             \A v \in Validators : /\ quietEpochs'[v] \subseteq quietEpochs[v]
                                   /\ IsFiniteSet(quietEpochs'[v])
                                   /\ tracked'[v] # None =>
                                        /\ quietEpochs'[v] = quietEpochs[v] /\ tracked[v] # None
                                        /\ tracked'[v].remainingEpochs = tracked[v].remainingEpochs
      PROVE  Goal
  <2>1. CountIsCovered'
    BY <1>2 DEF QuietInv, CountIsCovered
  <2>2. QuietEpochsAskedOnce'
    BY <1>2, AskedStays DEF QuietInv, QuietEpochsAskedOnce
  <2>3. QuestionIsNew'
    BY <1>2, AskedStays DEF QuietInv, QuestionIsNew
  <2> QED BY <2>1, <2>2, <2>3
<1>3. CASE UNCHANGED doppelgangerVars
  BY <1>2, <1>3 DEF doppelgangerVars, loopVars, QuietInv, CountIsCovered
<1>4. CASE NewSlot
  <2>1. UNCHANGED <<tracked, quietEpochs, checking>>
    BY <1>4 DEF NewSlot
  <2>2. DoppelgangerTypeOK /\ \A v \in Validators : \A e \in quietEpochs[v] : e \in Int
    BY DEF QuietInv, DoppelgangerTypeOK
  <2>3. checking # None => checking.epoch \in Int
    BY DEF QuietInv, DoppelgangerTypeOK
  <2>4. CountIsCovered'
    BY <2>1 DEF QuietInv, CountIsCovered
  <2>5. QuietEpochsAskedOnce'
    BY <1>4, <2>1, <2>2, NextSlotAsks DEF QuietInv, QuietEpochsAskedOnce
  <2>6. QuestionIsNew'
    BY <1>4, <2>1, <2>2, <2>3, NextSlotAsks DEF QuietInv, QuestionIsNew
  <2> QED BY <2>4, <2>5, <2>6
<1>5. ASSUME NEW v \in Validators, ReportQuorum(v)
      PROVE  Goal
  <2>1. tracked[v] \in State
    BY <1>5 DEF ReportQuorum, QuietInv, DoppelgangerTypeOK
  <2>2. \A w \in Validators : tracked'[w] # None =>
          tracked[w] # None /\ tracked'[w].remainingEpochs = tracked[w].remainingEpochs
    BY <1>5, <2>1 DEF ReportQuorum, QuietInv, DoppelgangerTypeOK, State
  <2> QED BY <1>2, <1>5, <2>2 DEF ReportQuorum, loopVars, QuietInv, CountIsCovered
<1>6. ASSUME NEW v \in Validators, RemoveValidatorState(v)
      PROVE  Goal
  <2>1. /\ tracked'[v] = None /\ quietEpochs'[v] = {}
        /\ \A w \in Validators \ {v} : tracked'[w] = tracked[w] /\ quietEpochs'[w] = quietEpochs[w]
    BY <1>6 DEF RemoveValidatorState, QuietInv, DoppelgangerTypeOK
  <2> QED
    BY <1>2, <1>6, <2>1, FS_EmptySet
    DEF RemoveValidatorState, loopVars, QuietInv, CountIsCovered
<1>7. CASE LivenessFailed
  <2>1. UNCHANGED <<now, firstRun, startEpoch, ticked, tracked, quietEpochs>> /\ checking' = None
    BY <1>7 DEF LivenessFailed
  <2>2. CountIsCovered'
    BY <2>1 DEF QuietInv, CountIsCovered
  <2>3. QuietEpochsAskedOnce'
    BY <2>1, AskedStays DEF QuietInv, QuietEpochsAskedOnce
  <2> QED BY <2>1, <2>2, <2>3 DEF QuestionIsNew
<1>8. CASE Crash
  <2>1. /\ \A v \in Validators : tracked'[v] = None /\ quietEpochs'[v] = {}
        /\ checking' = None
    BY <1>8 DEF Crash
  <2>2. CountIsCovered'
    BY <2>1, FS_EmptySet DEF CountIsCovered
  <2> QED BY <2>1, <2>2 DEF QuietEpochsAskedOnce, QuestionIsNew
<1> QED BY <1>3, <1>4, <1>5, <1>6, <1>7, <1>8, TickStep, AnswerStep DEF DoppelgangerNext

\* However slots, answers, removals and restarts fall, no validator is let
\* through by its count before two epochs were reported quiet (Start,
\* updateDoppelgangerState, processLivenessData).
THEOREM SafeAfterQuietEpochs == DoppelgangerSpec => []SafeOnlyAfterQuietEpochs
<1>1. DoppelgangerInit => QuietInv
  <2> SUFFICES ASSUME DoppelgangerInit PROVE QuietInv
    OBVIOUS
  <2>1. DoppelgangerTypeOK /\ StartedAfterGenesis
    BY DoppelgangerInitType
  <2> QED
    BY <2>1, FS_EmptySet
    DEF DoppelgangerInit, QuietInv, CountIsCovered, QuietEpochsAskedOnce, QuestionIsNew
<1>2. QuietInv /\ [DoppelgangerNext]_doppelgangerVars => QuietInv'
  BY QuietInvStep
<1>3. QuietInv => SafeOnlyAfterQuietEpochs
  <2> SUFFICES ASSUME QuietInv, NEW v \in Validators,
                      tracked[v] # None, tracked[v].remainingEpochs = 0
               PROVE  Cardinality(quietEpochs[v]) >= InitialRemainingDetectionEpochs
    BY DEF SafeOnlyAfterQuietEpochs
  <2>1. /\ 0 + Cardinality(quietEpochs[v]) >= InitialRemainingDetectionEpochs
        /\ Cardinality(quietEpochs[v]) \in Nat
    BY FS_CardinalityType DEF QuietInv, CountIsCovered
  <2> QED BY <2>1 DEF InitialRemainingDetectionEpochs
<1> QED BY <1>1, <1>2, <1>3, PTL DEF DoppelgangerSpec
=============================================================================
