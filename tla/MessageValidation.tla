------------------------- MODULE MessageValidation --------------------------
(***************************************************************************)
(* The validation of gossiped messages (message/validation): which of them *)
(* a node accepts, ignores or rejects (and so punishes the relaying peer   *)
(* for), and the state per signer it decides that by: a ring of records by *)
(* slot, a ring of duty counts by epoch, both in a cache entry that        *)
(* expires.                                                                *)
(*                                                                         *)
(* One message ID, so one role and one entry of the cache; messages of one *)
(* ID are validated one at a time, under its lock.  Times are in seconds;  *)
(* the tolerated clock error of 50 ms is less than one of them.            *)
(***************************************************************************)
EXTENDS RoundTimer, Sequences, FiniteSets, FiniteSetsExt

CONSTANTS
  Operators,        \* of the committee
  Quorum,
  Proposer(_, _),   \* leader of a slot and round
  Validators,       \* number of validators of the committee
  InSyncCommittee,  \* one of them is in the sync committee
  SlotsPerEpoch,
  SlotDuration,
  Peers,
  FairPeers,        \* peers that relay a message of a kind, signer, slot and
                    \* round once, and only what they verified
  RoleMessages,     \* the messages in circulation, by role
  RootBudget,       \* maxProposerPreferencesDistinctRoots
  Instants,         \* bound: the times at which something happens
  MaxAccepted       \* bound: accepted messages

Roles == {"committee", "proposer", "registration", "preferences"}
ConsensusKinds == {"proposal", "prepare", "commit", "roundchange"}

\* A partial signature message has round 0.  roots is what hashing the full
\* data gives, or the signing roots of proposer preferences.
Message == UNION {RoleMessages[r] : r \in Roles}

lateMessageMargin == 3
earlyMessageMargin == 1
LateSlotAllowance == 2
allowedRoundsInPast == 2
allowedRoundsInFuture == 1
proposerPreferencesEarlyEpochs == 2

ASSUME ValidationAssumption ==
  /\ {SlotsPerEpoch, SlotDuration, Quorum} \subseteq Nat \ {0}
  /\ {RootBudget, MaxAccepted, Validators} \subseteq Nat
  /\ FairPeers \subseteq Peers /\ InSyncCommittee \in BOOLEAN
  /\ Instants \subseteq Nat
  /\ IsFiniteSet(Operators)
  /\ \A r \in Roles : \A m \in RoleMessages[r] :
       /\ m.slot \in Nat /\ m.round \in Nat
       /\ m.signers \subseteq Operators /\ m.signers # {}
       /\ m.kind \notin ConsensusKinds => m.round = 0

VARIABLES
  role,       \* role of the message ID
  time,
  operators,  \* ValidatorState.operators
  touched,    \* when the cache entry was last read or written
  accepted,   \* history: what was accepted, as <<signer, slot, round of the
              \* signer's record, kind, number of signers, roots>>
  twice,      \* history: ... once more
  lapses,     \* history: <<signer, slot, time>> of records lost while the
              \* slot was still acceptable
  counted,    \* history: slots accepted of a signer since the entry expired
  relayed,    \* history: what fair peers relayed and was accepted
  punished    \* history: what fair peers relayed and was rejected

historyVars == <<accepted, twice, lapses, counted, relayed, punished>>
vars == <<role, time, operators, touched, historyVars>>

-----------------------------------------------------------------------------
(* The role's parameters.                                                  *)

committeeRole == role = "committee"
monotonicSlotRole == role \notin {"committee", "preferences"}
HasConsensus == role \in {"committee", "proposer"}
RoundRelativeRole == role = "proposer"
MaxRound == IF committeeRole THEN 12 ELSE 2

maxStoredSlots == SlotsPerEpoch + LateSlotAllowance
storedSlotCount ==
  IF role = "preferences"
  THEN proposerPreferencesEarlyEpochs * SlotsPerEpoch + LateSlotAllowance + 1
  ELSE maxStoredSlots
storedEpochCount ==
  CASE role = "preferences" -> proposerPreferencesEarlyEpochs + 1
    [] committeeRole        -> 3
    [] OTHER                -> 2
stateTTL ==
  SlotDuration * (IF role = "preferences" THEN storedSlotCount + 1 ELSE maxStoredSlots)

Epoch(s) == s \div SlotsPerEpoch
SlotStartTime(s) == s * SlotDuration

-----------------------------------------------------------------------------
(* The state of a signer.                                                  *)

Nothing == [seen |-> {}, hash |-> {}, decided |-> 0]
NewSignerState(s, r) ==
  [slot |-> s, round |-> r, World |-> Nothing,
   Peers |-> [p \in Peers |-> Nothing], roots |-> {}]
NoSignerState == NewSignerState(0, 0)
\* The rings as the sets of their entries: two of them never have the same
\* slot or epoch modulo the size of the ring.
NewOperatorState == [signers |-> {}, maxSlot |-> 0, duties |-> {}]

\* validatorState: an expired entry is made anew.
Expired == time - touched > stateTTL
ValidatorState ==
  IF Expired THEN [o \in Operators |-> NewOperatorState] ELSE operators

\* GetSignerStateForSlot: round 0 stands for no record.
SignerStateForSlot(os, s) ==
  LET recs == {rec \in os.signers : rec.slot = s}
  IN  IF recs = {} THEN NoSignerState ELSE CHOOSE rec \in recs : TRUE

DutyCount(os, e) ==
  LET entries == {d \in os.duties : d.epoch = e}
  IN  IF entries = {} THEN 0 ELSE (CHOOSE d \in entries : TRUE).count

\* Mutant: every duty is the first of its epoch.
CountOnce(os, e) ==
  {d \in os.duties : d.epoch % storedEpochCount # e % storedEpochCount}
    \cup {[epoch |-> e, count |-> 1]}

\* An entry of a later epoch is kept, and the duty not counted.
countDuty(os, e) ==
  LET place == {d \in os.duties : d.epoch % storedEpochCount = e % storedEpochCount}
  IN  IF \E d \in place : d.epoch > e THEN os.duties
      ELSE (os.duties \ place) \cup {[epoch |-> e, count |-> DutyCount(os, e) + 1]}

SetSignerStateForSlot(os, s, rec) ==
  LET others == {r \in os.signers : r.slot % storedSlotCount # s % storedSlotCount}
      known  == SignerStateForSlot(os, s).round > 0
  IN  [signers |-> others \cup {rec},
       maxSlot |-> IF s > os.maxSlot THEN s ELSE os.maxSlot,
       duties  |-> IF known THEN os.duties ELSE countDuty(os, Epoch(s))]

-----------------------------------------------------------------------------
(* The rules, in the order they are applied: a condition and what becomes  *)
(* of a message that meets it.                                             *)

Ignore(cond) == <<cond, "ignore">>
Reject(cond) == <<cond, "reject">>
FirstOf(rules) ==
  LET met == {i \in DOMAIN rules : rules[i][1]}
  IN  IF met = {} THEN "accept" ELSE rules[Min(met)][2]

IsConsensus(m) == m.kind \in ConsensusKinds
IsDecided(m) == IsConsensus(m) /\ Cardinality(m.signers) > 1

\* validateConsensusMessageSemantics, validatePartialSignatureMessageSemantics
Semantics(m) ==
  IF IsConsensus(m)
  THEN << Reject(IsDecided(m) /\ (m.kind # "commit" \/ Cardinality(m.signers) < Quorum)),
          Reject(m.roots # {} /\ (m.kind = "prepare" \/ (m.kind = "commit" /\ ~IsDecided(m)))),
          Reject(m.round = 0),
          Reject(~HasConsensus),
          Ignore(m.round > MaxRound) >>
  ELSE << Reject(Cardinality(m.signers) # 1),
          Reject(m.kind \notin CASE committeeRole         -> {"post"}
                                 [] role = "proposer"     -> {"pre", "post"}
                                 [] role = "registration" -> {"pre"}
                                 [] OTHER                 -> {"preferences"}) >>

\* Mutant: whoever relayed it first, a duplicate is held against the peer.
SeenByAnyone(rec, p) == rec.World

\* peekPeer
SeenFrom(rec, p) == rec.Peers[p]

\* validateConsensusMessageLimit, validatePartialSignatureMessageLimit
Limit(m, p, rec) ==
  << Reject(m.kind \in SeenFrom(rec, p).seen),
     Ignore(m.kind \in rec.World.seen) >>

Differs(hash, m) == m.roots # {} /\ hash # {} /\ hash # m.roots

DecidedLogic(m, rec) ==
  << Ignore(Cardinality(m.signers) <= rec.World.decided) >>

SameRound(m, p, rec) ==
  IF m.round # rec.round THEN <<>>
  ELSE << Reject(Differs(SeenFrom(rec, p).hash, m)),
          Ignore(Differs(rec.World.hash, m)) >> \o Limit(m, p, rec)

\* Mutant: a signer may go back to an earlier round.
RoundUnchecked(m, p, rec) ==
  IF IsDecided(m) THEN DecidedLogic(m, rec) ELSE SameRound(m, p, rec)

\* validateQBFTLogic, for one signer of the message.
QBFTLogic(m, p, rec) ==
  IF IsDecided(m) THEN DecidedLogic(m, rec)
  ELSE << Ignore(m.round < rec.round) >> \o SameRound(m, p, rec)

\* validateDistinctRootBudget
DistinctRootBudget(m, rec) ==
  << Ignore(rec.round > 0 /\ m.roots \subseteq rec.roots),
     Ignore(rec.round > 0 /\ Cardinality(m.roots \cup rec.roots) > RootBudget) >>

\* messageEarliness, messageLateness
ExpectedFrom(s) ==
  SlotStartTime(IF role = "preferences"
                THEN SlotsPerEpoch * Max({Epoch(s) - (proposerPreferencesEarlyEpochs - 1), 0})
                ELSE s)
AcceptableUntil(s) ==
  SlotStartTime(s + CASE role = "proposer"    -> 1 + LateSlotAllowance
                      [] committeeRole        -> maxStoredSlots
                      [] OTHER                -> LateSlotAllowance)
    + lateMessageMargin

IsEarly(s) == ExpectedFrom(s) - time > earlyMessageMargin
IsLate(s) == role # "registration" /\ time > AcceptableUntil(s)
SlotTime(m) == << Ignore(IsEarly(m.slot)), Ignore(IsLate(m.slot)) >>

\* Mutant: a message may be one round behind.
SpreadTooNarrow(headStart, t, round) ==
  LET estimate == EstimatedRoundAt(headStart, t)
  IN  round \in (estimate - 1) .. (estimate + allowedRoundsInFuture)

\* roundBelongsToAllowedSpread
RoundBelongsToAllowedSpread(headStart, t, round) ==
  LET estimate == EstimatedRoundAt(headStart, t)
      lowest   == IF estimate > allowedRoundsInPast
                  THEN estimate - allowedRoundsInPast ELSE FirstRound
  IN  round \in lowest .. (estimate + allowedRoundsInFuture)

RoundSpread(m) ==
  << Ignore(/\ IsConsensus(m) /\ ~IsDecided(m) /\ ~RoundRelativeRole
            /\ ~RoundBelongsToAllowedSpread(round1HeadStart(role),
                                            time - SlotStartTime(m.slot), m.round)) >>

\* dutyLimit, by what the duty store says of the sync committee
Unlimited == SlotsPerEpoch + 1
dutyLimit ==
  CASE role = "registration" -> 2
    [] role = "preferences"  -> SlotsPerEpoch
    [] role = "proposer"     -> Unlimited
    [] committeeRole /\ InSyncCommittee /\ Validators < SlotsPerEpoch \div 2 -> SlotsPerEpoch
    [] OTHER                 -> Min({SlotsPerEpoch, 2 * Validators})

\* validateDutyCount
DutyCountRule(m, os) ==
  LET new == IF SignerStateForSlot(os, m.slot).round = 0 THEN 1 ELSE 0
  IN  << Ignore(dutyLimit < Unlimited /\ DutyCount(os, Epoch(m.slot)) + new > dutyLimit) >>

\* Height must not be "old".
Monotonic(m, st) ==
  << Ignore(monotonicSlotRole /\ \E o \in m.signers : st[o].maxSlot > m.slot) >>

\* What the duty store may answer (validateBeaconDuty): duties are fetched,
\* and dropped, while messages arrive.
DutyAnswers == IF role \in {"proposer", "preferences"} THEN BOOLEAN ELSE {TRUE}

\* The first rule that some signer of the message meets.
ForSomeSigner(rules) ==
  LET verdicts == {FirstOf(rules[o]) : o \in DOMAIN rules}
  IN  << Reject("reject" \in verdicts), Ignore("ignore" \in verdicts) >>

\* validateConsensusMessage up to the signatures, and likewise for partial
\* signatures.
StateRules(m, p, hasDuty, st) ==
  LET rec(o)   == SignerStateForSlot(st[o], m.slot)
      duty     == << Ignore(~hasDuty) >>
      count    == ForSomeSigner([o \in m.signers |-> DutyCountRule(m, st[o])])
      partial  == [o \in m.signers |->
                     IF m.kind = "preferences" THEN DistinctRootBudget(m, rec(o))
                     ELSE Limit(m, p, rec(o))]
  IN  IF IsConsensus(m)
      THEN << Reject(m.kind = "proposal" /\ m.signers # {Proposer(m.slot, m.round)}) >>
           \o ForSomeSigner([o \in m.signers |-> QBFTLogic(m, p, rec(o))])
           \o Monotonic(m, st) \o duty \o SlotTime(m) \o RoundSpread(m) \o count
      ELSE Monotonic(m, st) \o duty \o ForSomeSigner(partial) \o SlotTime(m) \o count

-----------------------------------------------------------------------------
(* Recording a verified message.                                           *)

\* RecordConsensusMessage, RecordPartialSignatureMessage, processSignerState
Record(state, m) ==
  [seen    |-> state.seen \cup (IF IsDecided(m) \/ m.kind = "preferences" THEN {} ELSE {m.kind}),
   hash    |-> IF m.kind = "proposal" /\ m.roots # {} THEN m.roots ELSE state.hash,
   decided |-> IF IsDecided(m) THEN Cardinality(m.signers) ELSE state.decided]

\* updateConsensusState, updatePartialSignatureState: Reset on a higher round.
Recorded(rec, m, p) ==
  LET current == CASE rec.round = 0       -> NewSignerState(m.slot, Max({m.round, FirstRound}))
                   [] m.round > rec.round -> NewSignerState(m.slot, m.round)
                   [] OTHER               -> rec
  IN  [current EXCEPT !.World = Record(@, m), !.Peers[p] = Record(@, m),
                      !.roots = IF m.kind = "preferences" THEN @ \cup m.roots ELSE @]

Updated(st, m, p) ==
  [o \in Operators |->
     IF o \notin m.signers THEN st[o]
     ELSE SetSignerStateForSlot(st[o], m.slot,
            Recorded(SignerStateForSlot(st[o], m.slot), m, p))]

-----------------------------------------------------------------------------
Recordings(st) ==
  UNION {{<<o, rec.slot>> : rec \in st[o].signers} : o \in Operators}

\* Records the new state lacks although messages for their slots are still
\* taken.
Lost(new) ==
  LET kept == IF Expired THEN {} ELSE Recordings(new)
  IN  {<<r[1], r[2], time>> : r \in {r \in Recordings(operators) \ kept :
                                        ~IsEarly(r[2]) /\ ~IsLate(r[2])}}

Keys(new, m) ==
  {<<o, m.slot, SignerStateForSlot(new[o], m.slot).round, m.kind,
     Cardinality(m.signers), m.roots>> : o \in m.signers}
\* Two messages with one of these are duplicates, whatever their values.
Duplicates(k) == {l \in accepted : /\ SubSeq(l, 1, 5) = SubSeq(k, 1, 5)
                                   /\ k[4] = "preferences" => k[6] = l[6]}

Relay(m) == <<m.signers, m.slot, m.round, m.kind, IF m.kind = "preferences" THEN m.roots ELSE {}>>
FairRelay(p, m) ==
  p \in FairPeers => /\ FirstOf(Semantics(m)) = "accept"
                     /\ m.kind = "proposal" => m.signers = {Proposer(m.slot, m.round)}
                     /\ Relay(m) \notin relayed

\* The cache entry is read, and made anew when it has expired.
Touch(st) ==
  /\ touched' = time
  /\ operators' = st
  /\ lapses' = IF st = operators /\ ~Expired THEN lapses ELSE lapses \cup Lost(st)

Forget(slots) == IF Expired THEN {} ELSE slots

\* The signatures are right: the message is recorded.
Accept(m, p) ==
  LET new == Updated(ValidatorState, m, p)
  IN  /\ Cardinality(accepted) < MaxAccepted
      /\ Touch(new)
      /\ accepted' = accepted \cup Keys(new, m)
      /\ twice' = twice \cup {k \in Keys(new, m) : Duplicates(k) # {}}
      /\ counted' = [o \in Operators |->
                       Forget(counted[o]) \cup (IF o \in m.signers THEN {m.slot} ELSE {})]
      /\ relayed' = IF p \in FairPeers THEN relayed \cup {Relay(m)} ELSE relayed
      /\ UNCHANGED <<role, time, punished>>

\* A rule of the state applies, or a signature is wrong, or the validation's
\* context ends before the state is updated.
Drop(m, p, outcome) ==
  /\ Touch(ValidatorState)
  /\ counted' = [o \in Operators |-> Forget(counted[o])]
  /\ punished' = IF p \in FairPeers /\ outcome = "reject" THEN punished \cup {m} ELSE punished
  /\ UNCHANGED <<role, time, accepted, twice, relayed>>

\* handleSignedSSVMessage; a malformed message does not get to the state.
Validate(m, p, hasDuty) ==
  /\ FirstOf(Semantics(m)) = "accept"
  /\ FairRelay(p, m)
  /\ LET verdict == FirstOf(StateRules(m, p, hasDuty, ValidatorState))
     IN  \/ verdict = "accept" /\ Accept(m, p)
         \/ verdict = "accept" /\ Drop(m, p, "ignore")
         \/ verdict = "accept" /\ p \notin FairPeers /\ Drop(m, p, "reject")
         \/ verdict # "accept" /\ Drop(m, p, verdict)

RejectMalformed(m, p) ==
  /\ FirstOf(Semantics(m)) # "accept"
  /\ p \notin FairPeers
  /\ UNCHANGED vars

Tick ==
  /\ \E t \in Instants : /\ t > time
                         /\ \A u \in Instants : u > time => t <= u
                         /\ time' = t
  /\ UNCHANGED <<role, operators, touched, historyVars>>

Init ==
  /\ role \in Roles
  /\ time \in Instants /\ \A u \in Instants : time <= u
  /\ touched = time
  /\ operators = [o \in Operators |-> NewOperatorState]
  /\ counted = [o \in Operators |-> {}]
  /\ accepted = {} /\ twice = {} /\ lapses = {} /\ relayed = {} /\ punished = {}

Next ==
  \/ Tick
  \/ \E m \in RoleMessages[role], p \in Peers :
       \/ \E hasDuty \in DutyAnswers : Validate(m, p, hasDuty)
       \/ RejectMalformed(m, p)

Spec == Init /\ [][Next]_vars

-----------------------------------------------------------------------------
(* Properties.                                                             *)

\* The moments in which slots s - maxStoredSlots, s and s + maxStoredSlots,
\* which share a place in the ring, are acceptable together.
Seam(s, t) ==
  \E u \in {s, s + maxStoredSlots} :
    t \in (SlotStartTime(u) - earlyMessageMargin) .. (SlotStartTime(u) + lateMessageMargin)

\* A signer's message of a kind is accepted once per slot and round of the
\* signer: whatever the order of rounds, slots and peers, and whatever was
\* ignored or forged in between.  A record is lost while its slot is still
\* acceptable only in committee roles in the seconds in which the ring's span
\* has passed and the late margin has not, and for registrations, which are
\* never late.
AcceptedOnce ==
  /\ \A k \in twice : \E l \in lapses : l[1] = k[1] /\ l[2] = k[2]
  /\ \A l \in lapses : \/ role = "registration"
                       \/ committeeRole /\ Seam(l[2], l[3])

\* As long as the cache entry lives no signer has messages for more slots of
\* an epoch accepted than it can have duties, although slots arrive in any
\* order and epochs share the places of the ring.
DutyLimitHolds ==
  dutyLimit < Unlimited =>
    \A o \in Operators : \A s \in counted[o] :
      Cardinality({u \in counted[o] : Epoch(u) = Epoch(s)}) <= dutyLimit

\* A peer that relays what it verified, and one message of a kind, signer,
\* slot and round, is never punished for what other peers relayed, except for
\* a round change with a prepared value that overtakes nothing but arrives
\* after the signer's proposal of another value in the same round.
NoUnfairPunishment ==
  \A m \in punished : m.kind = "roundchange" /\ m.roots # {}

\* The round an operator's timers are in is admitted by every other node for
\* as long as two quick rounds, and a quick round ahead of its clock.
TimersInStepAreAdmitted ==
  \A m \in RoleMessages[role], r \in {"committee", "aggregator"} : m.kind = "roundchange" =>
    LET h == round1HeadStart(r)
        t == time - SlotStartTime(m.slot)
    IN  \A delay \in (- QuickTimeout) .. (allowedRoundsInPast * QuickTimeout) :
          \A round \in FirstRound .. 12 :
            IsRoundAt(h, t - delay, round) => RoundBelongsToAllowedSpread(h, t, round)

=============================================================================
