---------------------- MODULE MessageValidationProofs -----------------------
(***************************************************************************)
(* What the validation of messages decides, for every set of messages,    *)
(* peers and times: the rounds admitted, and who is punished.              *)
(***************************************************************************)
EXTENDS MessageValidation, FiniteSetTheorems, WellFoundedInduction, TLAPS

(***************************************************************************)
(* The round estimated from the clock is the one the timers arrive at.     *)
(***************************************************************************)

\* Ends of rounds grow with the rounds: there is at most one round at a time.
LEMMA TimeoutsIncrease ==
  ASSUME NEW h \in Int, NEW r \in Nat, NEW q \in Nat, r < q
  PROVE  roundTimeoutForRound(h, r) < roundTimeoutForRound(h, q)
BY DEF roundTimeoutForRound, QuickTimeoutThreshold, QuickTimeout, SlowTimeout

\* EstimatedRoundAt agrees with roundTimeoutForRound at every time and for
\* every head start, at the boundaries between rounds and between the quick
\* and the slow rounds as well.
THEOREM EstimateMatchesTimers ==
  ASSUME NEW h \in Nat, NEW t \in Int
  PROVE  /\ EstimatedRoundAt(h, t) \in Nat
         /\ IsRoundAt(h, t, EstimatedRoundAt(h, t))
<1> DEFINE e == t - h
<1>1. CASE e < 0
  BY <1>1 DEF EstimatedRoundAt, IsRoundAt, roundTimeoutForRound, FirstRound,
              QuickTimeoutThreshold, QuickTimeout, SlowTimeout
<1>2. CASE e >= 0 /\ e < 16
  BY <1>2 DEF EstimatedRoundAt, IsRoundAt, roundTimeoutForRound, FirstRound,
              QuickTimeoutThreshold, QuickTimeout, SlowTimeout
<1>3. CASE e >= 16
  BY <1>3 DEF EstimatedRoundAt, IsRoundAt, roundTimeoutForRound, FirstRound,
              QuickTimeoutThreshold, QuickTimeout, SlowTimeout
<1> QED BY <1>1, <1>2, <1>3

\* ... and it is the only such round.
THEOREM EstimateIsTheRound ==
  ASSUME NEW h \in Nat, NEW t \in Int, NEW r \in Nat, IsRoundAt(h, t, r)
  PROVE  r = EstimatedRoundAt(h, t)
<1> DEFINE q == EstimatedRoundAt(h, t)
<1>1. q \in Nat /\ IsRoundAt(h, t, q)
  BY EstimateMatchesTimers
<1>2. \A i, j \in Nat : i < j => roundTimeoutForRound(h, i) < roundTimeoutForRound(h, j)
  BY TimeoutsIncrease
<1> HIDE DEF q
<1>3. ASSUME NEW i \in Nat, NEW j \in Nat, i < j, IsRoundAt(h, t, i), IsRoundAt(h, t, j)
      PROVE  FALSE
  <2>1. roundTimeoutForRound(h, j - 1) <= t /\ t < roundTimeoutForRound(h, i)
    BY <1>3 DEF IsRoundAt, FirstRound
  <2>2. i = j - 1 \/ i < j - 1
    BY <1>3
  <2>3. j - 1 \in Nat
    BY <1>3
  <2>4. roundTimeoutForRound(h, i) \in Int /\ roundTimeoutForRound(h, j - 1) \in Int
    BY <2>3 DEF roundTimeoutForRound, QuickTimeoutThreshold, QuickTimeout, SlowTimeout
  <2> QED BY <2>1, <2>2, <2>3, <2>4, <1>2
<1>4. ~(r < q) /\ ~(q < r)
  BY <1>1, <1>3
<1>5. r = q
  BY <1>1, <1>4
<1> QED BY <1>5 DEF q

-----------------------------------------------------------------------------
(* ... and the rounds in the allowed spread.                                *)

\* What one pair of clocks and rounds comes to: a message that took up to two
\* quick rounds, from a clock up to one quick round ahead, is in the spread.
LEMMA RoundInStepIsInSpread ==
  ASSUME NEW h \in Nat, NEW t \in Int, NEW delay \in (- 2) .. 4, NEW r \in Nat,
         IsRoundAt(h, t - delay, r)
  PROVE  RoundBelongsToAllowedSpread(h, t, r)
<1> DEFINE e == EstimatedRoundAt(h, t)
<1>1. e \in Nat /\ IsRoundAt(h, t, e)
  BY EstimateMatchesTimers
<1> HIDE DEF e
<1>2. r >= 1 /\ e >= 1
  BY <1>1 DEF IsRoundAt, FirstRound
<1>3. r <= e + 1
  BY <1>1, <1>2 DEF IsRoundAt, roundTimeoutForRound, FirstRound, QuickTimeoutThreshold,
                    QuickTimeout, SlowTimeout
<1>4. e <= r + 2
  BY <1>1, <1>2 DEF IsRoundAt, roundTimeoutForRound, FirstRound, QuickTimeoutThreshold,
                    QuickTimeout, SlowTimeout
<1> QED
  BY <1>1, <1>2, <1>3, <1>4
  DEF RoundBelongsToAllowedSpread, e, allowedRoundsInPast, allowedRoundsInFuture, FirstRound

\* Whatever the constants, no node ever finds the round of an operator whose
\* timers are in step outside the spread it admits (roundBelongsToAllowedSpread
\* against roundTimeoutForRound).
THEOREM TimersAreAdmitted == Spec => []TimersInStepAreAdmitted
<1> DEFINE TimeOK == time \in Instants /\ role \in Roles
<1>1. Init => TimeOK
  BY DEF Init
<1>2. TimeOK /\ [Next]_vars => TimeOK'
  BY DEF Next, vars, Tick, Validate, Accept, Drop, RejectMalformed
<1>3. TimeOK => TimersInStepAreAdmitted
  <2> SUFFICES ASSUME TimeOK,
                      NEW m \in RoleMessages[role], NEW r \in {"committee", "aggregator"},
                      NEW delay \in (- QuickTimeout) .. (allowedRoundsInPast * QuickTimeout),
                      NEW round \in FirstRound .. 12,
                      IsRoundAt(round1HeadStart(r), time - SlotStartTime(m.slot) - delay, round)
               PROVE  RoundBelongsToAllowedSpread(round1HeadStart(r),
                                                  time - SlotStartTime(m.slot), round)
    BY DEF TimersInStepAreAdmitted
  <2>1. round1HeadStart(r) \in Nat
    BY IntervalAssumption DEF round1HeadStart
  <2>2. m.slot \in Nat /\ time \in Nat /\ SlotDuration \in Nat
    BY ValidationAssumption
  <2>3. time - SlotStartTime(m.slot) \in Int
    BY <2>2 DEF SlotStartTime
  <2>4. delay \in (- 2) .. 4 /\ round \in Nat
    BY DEF QuickTimeout, allowedRoundsInPast, FirstRound
  <2> QED BY <2>1, <2>3, <2>4, RoundInStepIsInSpread
<1> QED BY <1>1, <1>2, <1>3, PTL DEF Spec

-----------------------------------------------------------------------------
(* The first rule met.                                                     *)

Rule == BOOLEAN \X {"ignore", "reject"}
Rejecting(rule) == rule[1] /\ rule[2] = "reject"
Rejects(rules) == \E i \in DOMAIN rules : Rejecting(rules[i])
Applies(rules) == \E i \in DOMAIN rules : rules[i][1]

\* The well-ordering of Nat: a set of positions has a first one.
LEMMA LeastPosition ==
  ASSUME NEW T \in SUBSET Nat, T # {}
  PROVE  Min(T) \in T /\ \A y \in T : Min(T) =< y
<1> DEFINE R == OpToRel(<, Nat)
<1>1. IsWellFoundedOn(R, Nat)
  BY NatLessThanWellFounded
<1>2. \A x, y \in Nat : x < y => <<x, y>> \in R
  BY DEF OpToRel
<1> HIDE DEF R
<1>3. PICK x \in T : \A y \in T : <<y, x>> \notin R
  BY <1>1, WFMin
<1>4. \A y \in T : ~(y < x)
  BY <1>2, <1>3
<1>5. \A y \in T : x =< y
  BY <1>4
<1>6. QED BY <1>5 DEF Min

\* The larger of two.
LEMMA LargerOfTwo ==
  ASSUME NEW a \in Int, NEW b \in Int
  PROVE  Max({a, b}) = IF a >= b THEN a ELSE b
<1> DEFINE M == IF a >= b THEN a ELSE b
<1>1. M \in {a, b} /\ \A y \in {a, b} : M >= y
  OBVIOUS
<1>2. \A x \in {a, b} : (\A y \in {a, b} : x >= y) => x = M
  OBVIOUS
<1> HIDE DEF M
<1>3. QED BY <1>1, <1>2 DEF Max, M

\* A message is rejected by a rule that rejects, and accepted when no rule
\* applies.
LEMMA FirstRule ==
  ASSUME NEW rules \in Seq(Rule)
  PROVE  /\ FirstOf(rules) \in {"accept", "ignore", "reject"}
         /\ FirstOf(rules) = "reject" => Rejects(rules)
         /\ FirstOf(rules) = "accept" => ~Applies(rules)
<1> DEFINE met == {i \in DOMAIN rules : rules[i][1]}
<1>1. met \in SUBSET Nat
  OBVIOUS
<1>2. CASE met = {}
  BY <1>2 DEF FirstOf, Applies
<1>3. CASE met # {}
  <2>1. Min(met) \in met
    <3> HIDE DEF met
    <3>1. QED BY <1>1, <1>3, LeastPosition
  <2>2. FirstOf(rules) = rules[Min(met)][2]
    BY <1>3 DEF FirstOf
  <2>3. rules[Min(met)] \in Rule /\ rules[Min(met)][1]
    BY <2>1
  <2>4. QED BY <2>1, <2>2, <2>3 DEF Rejects, Rejecting, Rule
<1>4. QED BY <1>2, <1>3

LEMMA RuleForms ==
  ASSUME NEW c \in BOOLEAN
  PROVE  /\ Reject(c) \in Rule /\ Ignore(c) \in Rule
         /\ Rejecting(Reject(c)) <=> c
         /\ ~Rejecting(Ignore(c))
         /\ Reject(c)[1] <=> c
         /\ Ignore(c)[1] <=> c
BY DEF Reject, Ignore, Rule, Rejecting

LEMMA NoRules == <<>> \in Seq(Rule) /\ ~Rejects(<<>>) /\ ~Applies(<<>>)
BY DEF Rejects, Applies

LEMMA OneRule ==
  ASSUME NEW a \in Rule
  PROVE  /\ <<a>> \in Seq(Rule)
         /\ Rejects(<<a>>) <=> Rejecting(a)
         /\ Applies(<<a>>) <=> a[1]
BY DEF Rejects, Applies

LEMMA TwoRules ==
  ASSUME NEW a \in Rule, NEW b \in Rule
  PROVE  /\ <<a, b>> \in Seq(Rule)
         /\ Rejects(<<a, b>>) <=> Rejecting(a) \/ Rejecting(b)
         /\ Applies(<<a, b>>) <=> a[1] \/ b[1]
BY DEF Rejects, Applies

LEMMA JoinedRules ==
  ASSUME NEW s \in Seq(Rule), NEW t \in Seq(Rule)
  PROVE  /\ s \o t \in Seq(Rule)
         /\ Rejects(s \o t) <=> Rejects(s) \/ Rejects(t)
         /\ Applies(s \o t) <=> Applies(s) \/ Applies(t)
<1>1. s \o t \in Seq(Rule) /\ DOMAIN (s \o t) = 1 .. (Len(s) + Len(t))
  OBVIOUS
<1>2. \A i \in DOMAIN s : i \in DOMAIN (s \o t) /\ (s \o t)[i] = s[i]
  OBVIOUS
<1>3. \A i \in DOMAIN t : i + Len(s) \in DOMAIN (s \o t) /\ (s \o t)[i + Len(s)] = t[i]
  OBVIOUS
<1>4. \A i \in DOMAIN (s \o t) : i \in DOMAIN s \/ (i - Len(s) \in DOMAIN t /\ (s \o t)[i] = t[i - Len(s)])
  OBVIOUS
<1>5. QED BY <1>1, <1>2, <1>3, <1>4 DEF Rejects, Applies

-----------------------------------------------------------------------------
(* What a fair peer is known to have relayed.                              *)

Kinds == {m.kind : m \in Message}
Seen == [seen : SUBSET Kinds, hash : {{}} \cup {m.roots : m \in Message}, decided : Nat]
SignerRecord ==
  [slot : Nat, round : Nat \ {0}, World : Seen, Peers : [Peers -> Seen],
   roots : SUBSET UNION {m.roots : m \in Message}]
OperatorState ==
  [signers : SUBSET SignerRecord, maxSlot : Nat,
   duties : SUBSET [epoch : Nat, count : Nat]]

\* The types of what a node keeps of the signers.
StateOK ==
  /\ role \in Roles /\ time \in Nat /\ touched \in Nat
  /\ operators \in [Operators -> OperatorState]

\* The relay a record of a kind seen from a fair peer stands for.
RelayOf(o, rec, k) ==
  <<{o}, rec.slot, IF k \in ConsensusKinds THEN rec.round ELSE 0, k, {}>>

\* What is recorded as seen from a fair peer is what that peer relayed, in
\* the round of the record; a value is known of it only with its proposal.
FairRecord(o, rec, log) ==
  \A p \in FairPeers :
    /\ \A k \in rec.Peers[p].seen : RelayOf(o, rec, k) \in log /\ k # "preferences"
    /\ rec.Peers[p].hash # {} => "proposal" \in rec.Peers[p].seen
SeenWasRelayed ==
  \A o \in Operators : \A rec \in operators[o].signers : FairRecord(o, rec, relayed)

PunishInv == StateOK /\ SeenWasRelayed /\ NoUnfairPunishment

\* The messages in circulation.
LEMMA MessageFacts ==
  ASSUME StateOK, NEW m \in RoleMessages[role]
  PROVE  /\ m \in Message /\ m.kind \in Kinds
         /\ m.slot \in Nat /\ m.round \in Nat
         /\ m.signers \subseteq Operators /\ m.signers # {}
         /\ IsFiniteSet(m.signers) /\ Cardinality(m.signers) \in Nat
         /\ m.kind \notin ConsensusKinds => m.round = 0
<1>1. role \in Roles
  BY DEF StateOK
<1>2. m \in Message /\ m.kind \in Kinds
  BY <1>1 DEF Message, Kinds
<1>3. /\ m.slot \in Nat /\ m.round \in Nat
      /\ m.signers \subseteq Operators /\ m.signers # {}
      /\ m.kind \notin ConsensusKinds => m.round = 0
  BY <1>1, ValidationAssumption
<1>4. IsFiniteSet(m.signers)
  BY <1>3, ValidationAssumption, FS_Subset
<1>5. Cardinality(m.signers) \in Nat
  BY <1>4, FS_CardinalityType
<1>6. QED BY <1>2, <1>3, <1>4, <1>5

\* The record found for a slot.
LEMMA FoundRecord ==
  ASSUME NEW os \in OperatorState, NEW s \in Nat
  PROVE  LET rec == SignerStateForSlot(os, s)
         IN  \/ rec = NoSignerState
             \/ rec \in os.signers /\ rec.slot = s /\ rec \in SignerRecord
BY DEF SignerStateForSlot, OperatorState

LEMMA NoRecord ==
  /\ NoSignerState.round = 0 /\ NoSignerState.slot = 0
  /\ NoSignerState.World = Nothing
  /\ \A p \in Peers : NoSignerState.Peers[p] = Nothing
  /\ NoSignerState.roots = {}
BY DEF NoSignerState, NewSignerState

LEMMA ValidatorStateType ==
  ASSUME StateOK
  PROVE  ValidatorState \in [Operators -> OperatorState]
<1>1. NewOperatorState \in OperatorState
  BY DEF NewOperatorState, OperatorState
<1>2. QED BY <1>1 DEF ValidatorState, StateOK

LEMMA ValidatorStateFair ==
  ASSUME StateOK, SeenWasRelayed
  PROVE  \A o \in Operators : \A rec \in ValidatorState[o].signers : FairRecord(o, rec, relayed)
BY DEF ValidatorState, SeenWasRelayed, NewOperatorState

\* A single signer.
LEMMA OnlySigner ==
  ASSUME StateOK, NEW m \in RoleMessages[role], NEW o \in m.signers,
         Cardinality(m.signers) =< 1
  PROVE  m.signers = {o}
<1>1. IsFiniteSet(m.signers) /\ Cardinality(m.signers) \in Nat
  BY MessageFacts
<1>2. IsFiniteSet(m.signers \ {o}) /\ Cardinality(m.signers \ {o}) = Cardinality(m.signers) - 1
  BY <1>1, FS_RemoveElement
<1>3. Cardinality(m.signers \ {o}) \in Nat
  BY <1>2, FS_CardinalityType
<1>4. Cardinality(m.signers \ {o}) = 0
  BY <1>1, <1>2, <1>3
<1>5. m.signers \ {o} = {}
  BY <1>2, <1>4, FS_EmptySet
<1>6. QED BY <1>5

\* What well-formed messages look like.
LEMMA WellFormed ==
  ASSUME StateOK, NEW m \in RoleMessages[role], FirstOf(Semantics(m)) = "accept"
  PROVE  /\ IsConsensus(m) => /\ m.round # 0
                              /\ IsDecided(m) => m.kind = "commit"
                              /\ m.roots # {} /\ ~IsDecided(m) => m.kind \notin {"prepare", "commit"}
         /\ ~IsConsensus(m) => Cardinality(m.signers) = 1
<1>1. CASE IsConsensus(m)
  <2> DEFINE c1 == IsDecided(m) /\ (m.kind # "commit" \/ Cardinality(m.signers) < Quorum)
             c2 == m.roots # {} /\ (m.kind = "prepare" \/ (m.kind = "commit" /\ ~IsDecided(m)))
             c3 == m.round = 0
             c4 == ~HasConsensus
             c5 == m.round > MaxRound
             rules == << Reject(c1), Reject(c2), Reject(c3), Reject(c4), Ignore(c5) >>
  <2>1. Semantics(m) = rules
    BY <1>1 DEF Semantics
  <2>2. {c1, c2, c3, c4, c5} \subseteq BOOLEAN
    BY DEF IsDecided, HasConsensus
  <2> HIDE DEF c1, c2, c3, c4, c5
  <2>3. {Reject(c1), Reject(c2), Reject(c3), Reject(c4), Ignore(c5)} \subseteq Rule
    BY <2>2, RuleForms
  <2>4. rules \in Seq(Rule)
    <3> HIDE DEF Rule
    <3>1. QED BY <2>3
  <2>5. ~Applies(rules)
    BY <2>1, <2>4, FirstRule
  <2>6. ~Reject(c1)[1] /\ ~Reject(c2)[1] /\ ~Reject(c3)[1]
    BY <2>5 DEF Applies
  <2>7. ~c1 /\ ~c2 /\ ~c3
    BY <2>2, <2>6, RuleForms
  <2>8. QED BY <1>1, <2>7 DEF c1, c2, c3
<1>2. CASE ~IsConsensus(m)
  <2> DEFINE c1 == Cardinality(m.signers) # 1
             c2 == m.kind \notin CASE committeeRole         -> {"post"}
                                   [] role = "proposer"     -> {"pre", "post"}
                                   [] role = "registration" -> {"pre"}
                                   [] OTHER                 -> {"preferences"}
  <2>1. Semantics(m) = <<Reject(c1), Reject(c2)>>
    BY <1>2 DEF Semantics
  <2>2. c1 \in BOOLEAN /\ c2 \in BOOLEAN
    OBVIOUS
  <2> HIDE DEF c1, c2
  <2>3. ~Applies(<<Reject(c1), Reject(c2)>>)
    BY <2>1, <2>2, RuleForms, TwoRules, FirstRule
  <2>4. ~c1
    BY <2>2, <2>3, RuleForms, TwoRules
  <2>5. QED BY <1>2, <2>4 DEF c1
<1>3. QED BY <1>1, <1>2

\* The rules for what was seen of a signer.
LEMMA LimitRules ==
  ASSUME NEW m, NEW p, NEW rec
  PROVE  /\ Limit(m, p, rec) \in Seq(Rule)
         /\ Rejects(Limit(m, p, rec)) => m.kind \in SeenFrom(rec, p).seen
         /\ ~Applies(Limit(m, p, rec)) => m.kind \notin rec.World.seen
<1> DEFINE c1 == m.kind \in SeenFrom(rec, p).seen
           c2 == m.kind \in rec.World.seen
<1>1. c1 \in BOOLEAN /\ c2 \in BOOLEAN
  OBVIOUS
<1>2. Limit(m, p, rec) = <<Reject(c1), Ignore(c2)>>
  BY DEF Limit
<1> HIDE DEF c1, c2
<1>3. /\ Limit(m, p, rec) \in Seq(Rule)
      /\ Rejects(Limit(m, p, rec)) => c1
      /\ ~Applies(Limit(m, p, rec)) => ~c2
  BY <1>1, <1>2, RuleForms, TwoRules
<1>4. QED BY <1>3 DEF c1, c2

LEMMA QBFTRules ==
  ASSUME NEW m, NEW p, NEW rec
  PROVE  /\ QBFTLogic(m, p, rec) \in Seq(Rule)
         /\ Rejects(QBFTLogic(m, p, rec)) =>
              /\ ~IsDecided(m) /\ m.round = rec.round
              /\ Differs(SeenFrom(rec, p).hash, m) \/ m.kind \in SeenFrom(rec, p).seen
         /\ ~Applies(QBFTLogic(m, p, rec)) =>
              /\ IsDecided(m) => ~(Cardinality(m.signers) <= rec.World.decided)
              /\ ~IsDecided(m) => /\ ~(m.round < rec.round)
                                  /\ m.round = rec.round => m.kind \notin rec.World.seen
<1> DEFINE d1 == Cardinality(m.signers) <= rec.World.decided
           d2 == Differs(SeenFrom(rec, p).hash, m)
           d3 == Differs(rec.World.hash, m)
           d4 == m.round < rec.round
<1>1. {d1, d2, d3, d4} \subseteq BOOLEAN
  BY DEF Differs
<1>2. DecidedLogic(m, rec) = <<Ignore(d1)>>
  BY DEF DecidedLogic
<1>3. SameRound(m, p, rec) = IF m.round # rec.round THEN <<>>
                             ELSE <<Reject(d2), Ignore(d3)>> \o Limit(m, p, rec)
  BY DEF SameRound
<1>4. QBFTLogic(m, p, rec) = IF IsDecided(m) THEN DecidedLogic(m, rec)
                             ELSE <<Ignore(d4)>> \o SameRound(m, p, rec)
  BY DEF QBFTLogic
<1>5. /\ DecidedLogic(m, rec) \in Seq(Rule)
      /\ ~Rejects(DecidedLogic(m, rec))
      /\ Applies(DecidedLogic(m, rec)) <=> d1
  <2> HIDE DEF d1
  <2>1. QED BY <1>1, <1>2, RuleForms, OneRule
<1>6. /\ <<Reject(d2), Ignore(d3)>> \in Seq(Rule)
      /\ Rejects(<<Reject(d2), Ignore(d3)>>) => d2
  <2> HIDE DEF d2, d3
  <2>1. QED BY <1>1, RuleForms, TwoRules
<1>7. /\ SameRound(m, p, rec) \in Seq(Rule)
      /\ Rejects(SameRound(m, p, rec)) => /\ m.round = rec.round
                                          /\ d2 \/ m.kind \in SeenFrom(rec, p).seen
      /\ ~Applies(SameRound(m, p, rec)) /\ m.round = rec.round => m.kind \notin rec.World.seen
  <2> HIDE DEF d2, d3
  <2>1. CASE m.round # rec.round
    BY <1>3, <2>1, NoRules
  <2>2. CASE m.round = rec.round
    BY <1>3, <1>6, <2>2, LimitRules, JoinedRules
  <2>3. QED BY <2>1, <2>2
<1>8. /\ <<Ignore(d4)>> \in Seq(Rule)
      /\ ~Rejects(<<Ignore(d4)>>)
      /\ Applies(<<Ignore(d4)>>) <=> d4
  <2> HIDE DEF d4
  <2>1. QED BY <1>1, RuleForms, OneRule
<1>9. CASE IsDecided(m)
  BY <1>4, <1>5, <1>9
<1>10. CASE ~IsDecided(m)
  <2>1. QBFTLogic(m, p, rec) = <<Ignore(d4)>> \o SameRound(m, p, rec)
    BY <1>4, <1>10
  <2> DEFINE early == <<Ignore(d4)>>
             same  == SameRound(m, p, rec)
  <2>2. /\ early \in Seq(Rule) /\ same \in Seq(Rule) /\ ~Rejects(early)
        /\ QBFTLogic(m, p, rec) = early \o same
    BY <1>7, <1>8, <2>1
  <2> HIDE DEF d2, d4, early, same
  <2>3. /\ QBFTLogic(m, p, rec) \in Seq(Rule)
        /\ Rejects(QBFTLogic(m, p, rec)) => Rejects(same)
        /\ Applies(QBFTLogic(m, p, rec)) <=> Applies(early) \/ Applies(same)
    BY <2>2, JoinedRules
  <2>4. QED BY <1>7, <1>8, <1>10, <2>3 DEF d2, d4, early, same
<1>11. QED BY <1>9, <1>10

\* Rules that only ignore.
LEMMA IgnoringRules ==
  ASSUME NEW m \in RoleMessages[role], NEW st, NEW hasDuty \in BOOLEAN
  PROVE  /\ Monotonic(m, st) \in Seq(Rule) /\ ~Rejects(Monotonic(m, st))
         /\ ~Applies(Monotonic(m, st)) =>
              ~(monotonicSlotRole /\ \E o \in m.signers : st[o].maxSlot > m.slot)
         /\ ~Applies(SlotTime(m)) => ~IsEarly(m.slot) /\ ~IsLate(m.slot)
         /\ SlotTime(m) \in Seq(Rule) /\ ~Rejects(SlotTime(m))
         /\ RoundSpread(m) \in Seq(Rule) /\ ~Rejects(RoundSpread(m))
         /\ <<Ignore(~hasDuty)>> \in Seq(Rule) /\ ~Rejects(<<Ignore(~hasDuty)>>)
<1> DEFINE c1 == monotonicSlotRole /\ \E o \in m.signers : st[o].maxSlot > m.slot
           c2 == IsEarly(m.slot)
           c3 == IsLate(m.slot)
           c4 == /\ IsConsensus(m) /\ ~IsDecided(m) /\ ~RoundRelativeRole
                 /\ ~RoundBelongsToAllowedSpread(round1HeadStart(role),
                                                 time - SlotStartTime(m.slot), m.round)
           c5 == ~hasDuty
<1>1. {c1, c2, c3, c4, c5} \subseteq BOOLEAN
  BY DEF monotonicSlotRole, IsEarly, IsLate, IsConsensus, IsDecided, RoundRelativeRole
<1>2. /\ Monotonic(m, st) = <<Ignore(c1)>>
      /\ SlotTime(m) = <<Ignore(c2), Ignore(c3)>>
      /\ RoundSpread(m) = <<Ignore(c4)>>
  BY DEF Monotonic, SlotTime, RoundSpread
<1>3. <<Ignore(~hasDuty)>> = <<Ignore(c5)>>
  OBVIOUS
<1> HIDE DEF c1, c2, c3, c4, c5
<1>4. \A c \in {c1, c2, c3, c4, c5} : /\ Ignore(c) \in Rule /\ ~Rejecting(Ignore(c))
                                      /\ Ignore(c)[1] <=> c
  BY <1>1, RuleForms
<1>5. /\ Applies(Monotonic(m, st)) <=> c1
      /\ Applies(SlotTime(m)) <=> c2 \/ c3
  BY <1>2, <1>4, OneRule, TwoRules
<1>6. QED BY <1>2, <1>3, <1>4, <1>5, OneRule, TwoRules DEF c1, c2, c3

LEMMA SomeSignerRules ==
  ASSUME NEW rules
  PROVE  /\ ForSomeSigner(rules) \in Seq(Rule)
         /\ Rejects(ForSomeSigner(rules)) => \E o \in DOMAIN rules : FirstOf(rules[o]) = "reject"
         /\ ~Applies(ForSomeSigner(rules)) =>
              \A o \in DOMAIN rules : FirstOf(rules[o]) \notin {"ignore", "reject"}
<1> DEFINE verdicts == {FirstOf(rules[o]) : o \in DOMAIN rules}
           c1 == "reject" \in verdicts
           c2 == "ignore" \in verdicts
<1>1. c1 \in BOOLEAN /\ c2 \in BOOLEAN
  OBVIOUS
<1>2. ForSomeSigner(rules) = <<Reject(c1), Ignore(c2)>>
  BY DEF ForSomeSigner
<1>3. /\ c1 => \E o \in DOMAIN rules : FirstOf(rules[o]) = "reject"
      /\ ~c1 /\ ~c2 => \A o \in DOMAIN rules : FirstOf(rules[o]) \notin {"ignore", "reject"}
  OBVIOUS
<1> HIDE DEF c1, c2
<1>4. /\ ForSomeSigner(rules) \in Seq(Rule)
      /\ Rejects(ForSomeSigner(rules)) => c1
      /\ Applies(ForSomeSigner(rules)) <=> c1 \/ c2
  BY <1>1, <1>2, RuleForms, TwoRules
<1>5. QED BY <1>3, <1>4

LEMMA CountRules ==
  ASSUME NEW m, NEW os
  PROVE  /\ FirstOf(DutyCountRule(m, os)) # "reject"
         /\ FirstOf(DutyCountRule(m, os)) # "ignore" =>
              ~(dutyLimit < Unlimited /\ DutyCount(os, Epoch(m.slot))
                  + (IF SignerStateForSlot(os, m.slot).round = 0 THEN 1 ELSE 0) > dutyLimit)
<1> DEFINE c == dutyLimit < Unlimited /\ DutyCount(os, Epoch(m.slot))
                  + (IF SignerStateForSlot(os, m.slot).round = 0 THEN 1 ELSE 0) > dutyLimit
<1>1. c \in BOOLEAN
  OBVIOUS
<1>2. DutyCountRule(m, os) = <<Ignore(c)>>
  BY DEF DutyCountRule
<1> HIDE DEF c
<1>3. /\ DutyCountRule(m, os) \in Seq(Rule)
      /\ ~Rejects(DutyCountRule(m, os))
      /\ Applies(DutyCountRule(m, os)) <=> c
  BY <1>1, <1>2, RuleForms, OneRule
<1>4. /\ FirstOf(DutyCountRule(m, os)) # "reject"
      /\ FirstOf(DutyCountRule(m, os)) # "ignore" => ~c
  BY <1>3, FirstRule
<1>5. QED BY <1>4 DEF c

LEMMA BudgetRules ==
  ASSUME NEW m, NEW rec
  PROVE  /\ FirstOf(DistinctRootBudget(m, rec)) # "reject"
         /\ FirstOf(DistinctRootBudget(m, rec)) # "ignore" =>
              ~(rec.round > 0 /\ m.roots \subseteq rec.roots)
<1> DEFINE c1 == rec.round > 0 /\ m.roots \subseteq rec.roots
           c2 == rec.round > 0 /\ Cardinality(m.roots \cup rec.roots) > RootBudget
<1>1. c1 \in BOOLEAN /\ c2 \in BOOLEAN
  OBVIOUS
<1>2. DistinctRootBudget(m, rec) = <<Ignore(c1), Ignore(c2)>>
  BY DEF DistinctRootBudget
<1> HIDE DEF c1, c2
<1>3. /\ DistinctRootBudget(m, rec) \in Seq(Rule)
      /\ ~Rejects(DistinctRootBudget(m, rec))
      /\ ~Applies(DistinctRootBudget(m, rec)) => ~c1
  BY <1>1, <1>2, RuleForms, TwoRules
<1>4. /\ FirstOf(DistinctRootBudget(m, rec)) # "reject"
      /\ FirstOf(DistinctRootBudget(m, rec)) # "ignore" => ~c1
  BY <1>3, FirstRule
<1>5. QED BY <1>4 DEF c1

\* The rules of the state as the sequence of their parts.
LEMMA ConsensusParts ==
  ASSUME NEW m \in RoleMessages[role], NEW p, NEW hasDuty \in BOOLEAN, NEW st, IsConsensus(m)
  PROVE  LET wrong == m.kind = "proposal" /\ m.signers # {Proposer(m.slot, m.round)}
             logic == [o \in m.signers |-> QBFTLogic(m, p, SignerStateForSlot(st[o], m.slot))]
             rules == StateRules(m, p, hasDuty, st)
         IN  /\ rules \in Seq(Rule)
             /\ Rejects(rules) => wrong \/ Rejects(ForSomeSigner(logic))
             /\ ~Applies(rules) =>
                  /\ ~Applies(ForSomeSigner(logic))
                  /\ ~Applies(Monotonic(m, st)) /\ ~Applies(SlotTime(m))
                  /\ ~Applies(ForSomeSigner([o \in m.signers |-> DutyCountRule(m, st[o])]))
<1> DEFINE wrong == m.kind = "proposal" /\ m.signers # {Proposer(m.slot, m.round)}
           logic == [o \in m.signers |-> QBFTLogic(m, p, SignerStateForSlot(st[o], m.slot))]
           counts == [o \in m.signers |-> DutyCountRule(m, st[o])]
           a == <<Reject(wrong)>>
           b == ForSomeSigner(logic)
           c == Monotonic(m, st)
           d == <<Ignore(~hasDuty)>>
           e == SlotTime(m)
           f == RoundSpread(m)
           g == ForSomeSigner(counts)
           rules == StateRules(m, p, hasDuty, st)
<1>1. rules = a \o b \o c \o d \o e \o f \o g
  BY DEF StateRules
<1>2. a \in Seq(Rule) /\ (Rejects(a) => wrong)
  <2>1. wrong \in BOOLEAN
    OBVIOUS
  <2> HIDE DEF wrong
  <2>2. QED BY <2>1, RuleForms, OneRule
<1>3. b \in Seq(Rule)
  BY SomeSignerRules
<1>4. /\ c \in Seq(Rule) /\ d \in Seq(Rule) /\ e \in Seq(Rule) /\ f \in Seq(Rule)
      /\ ~Rejects(c) /\ ~Rejects(d) /\ ~Rejects(e) /\ ~Rejects(f)
  BY IgnoringRules
<1>5. g \in Seq(Rule) /\ ~Rejects(g)
  <2>1. \A o \in DOMAIN counts : FirstOf(counts[o]) # "reject"
    BY CountRules
  <2> HIDE DEF counts
  <2>2. QED BY <2>1, SomeSignerRules
<1> HIDE DEF wrong, logic, counts, a, b, c, d, e, f, g, rules
<1> DEFINE ab == a \o b  abc == ab \o c  abcd == abc \o d  abcde == abcd \o e
           abcdef == abcde \o f
<1>6. rules = abcdef \o g
  BY <1>1
<1>7. /\ ab \in Seq(Rule) /\ (Rejects(ab) => wrong \/ Rejects(b))
      /\ Applies(ab) <=> Applies(a) \/ Applies(b)
  BY <1>2, <1>3, JoinedRules
<1> HIDE DEF ab
<1>9. /\ abc \in Seq(Rule) /\ (Rejects(abc) => Rejects(ab))
      /\ Applies(abc) <=> Applies(ab) \/ Applies(c)
  BY <1>4, <1>7, JoinedRules
<1> HIDE DEF abc
<1>10. /\ abcd \in Seq(Rule) /\ (Rejects(abcd) => Rejects(abc))
       /\ Applies(abcd) <=> Applies(abc) \/ Applies(d)
  BY <1>4, <1>9, JoinedRules
<1> HIDE DEF abcd
<1>11. /\ abcde \in Seq(Rule) /\ (Rejects(abcde) => Rejects(abcd))
       /\ Applies(abcde) <=> Applies(abcd) \/ Applies(e)
  BY <1>4, <1>10, JoinedRules
<1> HIDE DEF abcde
<1>12. /\ abcdef \in Seq(Rule) /\ (Rejects(abcdef) => Rejects(abcde))
       /\ Applies(abcdef) <=> Applies(abcde) \/ Applies(f)
  BY <1>4, <1>11, JoinedRules
<1> HIDE DEF abcdef
<1>13. /\ rules \in Seq(Rule) /\ (Rejects(rules) => Rejects(abcdef))
       /\ Applies(rules) <=> Applies(abcdef) \/ Applies(g)
  BY <1>5, <1>6, <1>12, JoinedRules
<1>14. /\ rules \in Seq(Rule)
       /\ Rejects(rules) => wrong \/ Rejects(b)
       /\ ~Applies(rules) => ~Applies(b) /\ ~Applies(c) /\ ~Applies(e) /\ ~Applies(g)
  BY <1>7, <1>9, <1>10, <1>11, <1>12, <1>13
<1>15. QED BY <1>14 DEF wrong, logic, counts, b, c, e, g, rules

LEMMA PartialParts ==
  ASSUME NEW m \in RoleMessages[role], NEW p, NEW hasDuty \in BOOLEAN, NEW st, ~IsConsensus(m)
  PROVE  LET partial == [o \in m.signers |->
                           IF m.kind = "preferences"
                           THEN DistinctRootBudget(m, SignerStateForSlot(st[o], m.slot))
                           ELSE Limit(m, p, SignerStateForSlot(st[o], m.slot))]
             rules   == StateRules(m, p, hasDuty, st)
         IN  /\ rules \in Seq(Rule)
             /\ Rejects(rules) => Rejects(ForSomeSigner(partial))
             /\ ~Applies(rules) =>
                  /\ ~Applies(ForSomeSigner(partial))
                  /\ ~Applies(Monotonic(m, st)) /\ ~Applies(SlotTime(m))
                  /\ ~Applies(ForSomeSigner([o \in m.signers |-> DutyCountRule(m, st[o])]))
<1> DEFINE partial == [o \in m.signers |->
                         IF m.kind = "preferences"
                         THEN DistinctRootBudget(m, SignerStateForSlot(st[o], m.slot))
                         ELSE Limit(m, p, SignerStateForSlot(st[o], m.slot))]
           counts == [o \in m.signers |-> DutyCountRule(m, st[o])]
           a == Monotonic(m, st)
           b == <<Ignore(~hasDuty)>>
           c == ForSomeSigner(partial)
           d == SlotTime(m)
           e == ForSomeSigner(counts)
           rules == StateRules(m, p, hasDuty, st)
<1>1. rules = a \o b \o c \o d \o e
  BY DEF StateRules
<1>2. /\ a \in Seq(Rule) /\ b \in Seq(Rule) /\ d \in Seq(Rule)
      /\ ~Rejects(a) /\ ~Rejects(b) /\ ~Rejects(d)
  BY IgnoringRules
<1>3. c \in Seq(Rule)
  BY SomeSignerRules
<1>4. e \in Seq(Rule) /\ ~Rejects(e)
  <2>1. \A o \in DOMAIN counts : FirstOf(counts[o]) # "reject"
    BY CountRules
  <2> HIDE DEF counts
  <2>2. QED BY <2>1, SomeSignerRules
<1> DEFINE ab == a \o b  abc == ab \o c  abcd == abc \o d
<1>5. rules = abcd \o e
  BY <1>1
<1> HIDE DEF a, b, c, d, e, rules
<1>6. ab \in Seq(Rule) /\ ~Rejects(ab) /\ (Applies(ab) <=> Applies(a) \/ Applies(b))
  BY <1>2, JoinedRules
<1> HIDE DEF ab
<1>7. /\ abc \in Seq(Rule) /\ (Rejects(abc) => Rejects(c))
      /\ Applies(abc) <=> Applies(ab) \/ Applies(c)
  BY <1>3, <1>6, JoinedRules
<1> HIDE DEF abc
<1>8. /\ abcd \in Seq(Rule) /\ (Rejects(abcd) => Rejects(abc))
      /\ Applies(abcd) <=> Applies(abc) \/ Applies(d)
  BY <1>2, <1>7, JoinedRules
<1> HIDE DEF abcd
<1>9. /\ rules \in Seq(Rule) /\ (Rejects(rules) => Rejects(abcd))
      /\ Applies(rules) <=> Applies(abcd) \/ Applies(e)
  BY <1>4, <1>5, <1>8, JoinedRules
<1>10. /\ rules \in Seq(Rule)
       /\ Rejects(rules) => Rejects(c)
       /\ ~Applies(rules) => ~Applies(c) /\ ~Applies(a) /\ ~Applies(d) /\ ~Applies(e)
  BY <1>6, <1>7, <1>8, <1>9
<1>11. QED BY <1>10 DEF a, c, d, e, rules

\* A message is rejected for what was seen of its signer from the same peer.
LEMMA RejectedBy ==
  ASSUME NEW m \in RoleMessages[role], NEW p, NEW hasDuty \in BOOLEAN, NEW st,
         m.kind = "proposal" => m.signers = {Proposer(m.slot, m.round)},
         FirstOf(StateRules(m, p, hasDuty, st)) = "reject"
  PROVE  \E o \in m.signers :
           LET rec == SignerStateForSlot(st[o], m.slot)
           IN  /\ IsConsensus(m) => ~IsDecided(m) /\ m.round = rec.round
               /\ \/ m.kind \in SeenFrom(rec, p).seen
                  \/ IsConsensus(m) /\ Differs(SeenFrom(rec, p).hash, m)
<1> DEFINE rec(o) == SignerStateForSlot(st[o], m.slot)
           rules == StateRules(m, p, hasDuty, st)
<1>1. CASE IsConsensus(m)
  <2> DEFINE logic == [o \in m.signers |-> QBFTLogic(m, p, rec(o))]
  <2>1. rules \in Seq(Rule) /\ (Rejects(rules) => Rejects(ForSomeSigner(logic)))
    BY <1>1, ConsensusParts
  <2>2. Rejects(ForSomeSigner(logic))
    BY <2>1, FirstRule
  <2>3. \E o \in DOMAIN logic : FirstOf(logic[o]) = "reject"
    <3> HIDE DEF logic
    <3>1. QED BY <2>2, SomeSignerRules
  <2>4. PICK o \in m.signers : FirstOf(QBFTLogic(m, p, rec(o))) = "reject"
    BY <2>3
  <2>5. /\ ~IsDecided(m) /\ m.round = rec(o).round
        /\ Differs(SeenFrom(rec(o), p).hash, m) \/ m.kind \in SeenFrom(rec(o), p).seen
    BY <2>4, QBFTRules, FirstRule
  <2>6. QED BY <1>1, <2>5
<1>2. CASE ~IsConsensus(m)
  <2> DEFINE partial == [o \in m.signers |->
                           IF m.kind = "preferences" THEN DistinctRootBudget(m, rec(o))
                           ELSE Limit(m, p, rec(o))]
  <2>1. rules \in Seq(Rule) /\ (Rejects(rules) => Rejects(ForSomeSigner(partial)))
    BY <1>2, PartialParts
  <2>2. Rejects(ForSomeSigner(partial))
    BY <2>1, FirstRule
  <2>3. \E o \in DOMAIN partial : FirstOf(partial[o]) = "reject"
    <3> HIDE DEF partial
    <3>1. QED BY <2>2, SomeSignerRules
  <2>4. PICK o \in m.signers : FirstOf(IF m.kind = "preferences" THEN DistinctRootBudget(m, rec(o))
                                       ELSE Limit(m, p, rec(o))) = "reject"
    BY <2>3
  <2>5. FirstOf(Limit(m, p, rec(o))) = "reject"
    BY <2>4, BudgetRules
  <2>6. m.kind \in SeenFrom(rec(o), p).seen
    BY <2>5, LimitRules, FirstRule
  <2>7. QED BY <1>2, <2>6
<1>3. QED BY <1>1, <1>2

\* What is true of a message that no rule stops.
LEMMA AcceptedTimely ==
  ASSUME NEW m \in RoleMessages[role], NEW p, NEW hasDuty \in BOOLEAN, NEW st,
         FirstOf(StateRules(m, p, hasDuty, st)) = "accept"
  PROVE  /\ monotonicSlotRole => \A o \in m.signers : ~(st[o].maxSlot > m.slot)
         /\ ~IsEarly(m.slot) /\ ~IsLate(m.slot)
         /\ \A o \in m.signers :
              ~(dutyLimit < Unlimited /\ DutyCount(st[o], Epoch(m.slot))
                  + (IF SignerStateForSlot(st[o], m.slot).round = 0 THEN 1 ELSE 0) > dutyLimit)
<1> DEFINE rules == StateRules(m, p, hasDuty, st)
           counts == [o \in m.signers |-> DutyCountRule(m, st[o])]
<1>1. /\ rules \in Seq(Rule)
      /\ ~Applies(rules) => /\ ~Applies(Monotonic(m, st)) /\ ~Applies(SlotTime(m))
                            /\ ~Applies(ForSomeSigner(counts))
  BY ConsensusParts, PartialParts
<1>2. /\ ~Applies(Monotonic(m, st)) /\ ~Applies(SlotTime(m))
      /\ ~Applies(ForSomeSigner(counts))
  BY <1>1, FirstRule
<1>3. \A o \in DOMAIN counts : FirstOf(counts[o]) \notin {"ignore", "reject"}
  <2> HIDE DEF counts
  <2>1. QED BY <1>2, SomeSignerRules
<1>4. \A o \in m.signers : FirstOf(DutyCountRule(m, st[o])) # "ignore"
  BY <1>3
<1>5. /\ monotonicSlotRole => \A o \in m.signers : ~(st[o].maxSlot > m.slot)
      /\ ~IsEarly(m.slot) /\ ~IsLate(m.slot)
  BY <1>2, IgnoringRules
<1>6. QED BY <1>4, <1>5, CountRules

LEMMA AcceptedNew ==
  ASSUME NEW m \in RoleMessages[role], NEW p, NEW hasDuty \in BOOLEAN, NEW st,
         NEW o \in m.signers, FirstOf(StateRules(m, p, hasDuty, st)) = "accept"
  PROVE  LET rec == SignerStateForSlot(st[o], m.slot)
         IN  /\ IsDecided(m) => ~(Cardinality(m.signers) <= rec.World.decided)
             /\ IsConsensus(m) /\ ~IsDecided(m) =>
                  /\ ~(m.round < rec.round)
                  /\ m.round = rec.round => m.kind \notin rec.World.seen
             /\ ~IsConsensus(m) /\ m.kind # "preferences" => m.kind \notin rec.World.seen
             /\ m.kind = "preferences" => ~(rec.round > 0 /\ m.roots \subseteq rec.roots)
<1> DEFINE rec(q) == SignerStateForSlot(st[q], m.slot)
           rules == StateRules(m, p, hasDuty, st)
<1>1. CASE IsConsensus(m)
  <2> DEFINE logic == [q \in m.signers |-> QBFTLogic(m, p, rec(q))]
  <2>1. rules \in Seq(Rule) /\ (~Applies(rules) => ~Applies(ForSomeSigner(logic)))
    BY <1>1, ConsensusParts
  <2>2. ~Applies(ForSomeSigner(logic))
    BY <2>1, FirstRule
  <2>3. \A q \in DOMAIN logic : FirstOf(logic[q]) \notin {"ignore", "reject"}
    <3> HIDE DEF logic
    <3>1. QED BY <2>2, SomeSignerRules
  <2>4. FirstOf(QBFTLogic(m, p, rec(o))) \notin {"ignore", "reject"}
    BY <2>3
  <2>5. ~Applies(QBFTLogic(m, p, rec(o)))
    BY <2>4, QBFTRules, FirstRule
  <2>6. m.kind # "preferences"
    BY <1>1 DEF IsConsensus, ConsensusKinds
  <2>7. QED BY <1>1, <2>5, <2>6, QBFTRules
<1>2. CASE ~IsConsensus(m)
  <2> DEFINE partial == [q \in m.signers |->
                           IF m.kind = "preferences" THEN DistinctRootBudget(m, rec(q))
                           ELSE Limit(m, p, rec(q))]
  <2>1. rules \in Seq(Rule) /\ (~Applies(rules) => ~Applies(ForSomeSigner(partial)))
    BY <1>2, PartialParts
  <2>2. ~Applies(ForSomeSigner(partial))
    BY <2>1, FirstRule
  <2>3. \A q \in DOMAIN partial : FirstOf(partial[q]) \notin {"ignore", "reject"}
    <3> HIDE DEF partial
    <3>1. QED BY <2>2, SomeSignerRules
  <2>4. FirstOf(IF m.kind = "preferences" THEN DistinctRootBudget(m, rec(o))
                ELSE Limit(m, p, rec(o))) \notin {"ignore", "reject"}
    BY <2>3
  <2>5. ~IsDecided(m)
    BY <1>2 DEF IsDecided
  <2>6. CASE m.kind = "preferences"
    BY <1>2, <2>4, <2>5, <2>6, BudgetRules
  <2>7. CASE m.kind # "preferences"
    BY <1>2, <2>4, <2>5, <2>7, LimitRules, FirstRule
  <2>8. QED BY <2>6, <2>7
<1>3. QED BY <1>1, <1>2

-----------------------------------------------------------------------------
(* Recording a message.                                                    *)

\* The record that a message is written to: the one found, or a new one.
Current(rec, m) ==
  CASE rec.round = 0       -> NewSignerState(m.slot, Max({m.round, FirstRound}))
    [] m.round > rec.round -> NewSignerState(m.slot, m.round)
    [] OTHER               -> rec

LEMMA SeenTypes ==
  /\ Nothing \in Seen
  /\ \A state \in Seen, r \in Roles : \A m \in RoleMessages[r] :
       Cardinality(m.signers) \in Nat => Record(state, m) \in Seen
<1>1. Nothing \in Seen
  BY DEF Nothing, Seen
<1>2. ASSUME NEW state \in Seen, NEW r \in Roles, NEW m \in RoleMessages[r],
             Cardinality(m.signers) \in Nat
      PROVE  Record(state, m) \in Seen
  <2>1. m \in Message
    BY DEF Message
  <2>2. m.kind \in Kinds /\ m.roots \in {{}} \cup {x.roots : x \in Message}
    BY <2>1 DEF Kinds
  <2>3. QED BY <1>2, <2>2 DEF Record, Seen
<1>3. QED BY <1>1, <1>2

LEMMA CurrentRecord ==
  ASSUME StateOK, NEW m \in RoleMessages[role], NEW os \in OperatorState,
         NEW rec, rec = SignerStateForSlot(os, m.slot)
  PROVE  LET cur == Current(rec, m)
         IN  /\ cur \in SignerRecord /\ cur.slot = m.slot
             /\ \/ cur = rec /\ rec \in os.signers /\ ~(m.round > rec.round)
                \/ /\ \A p \in Peers : cur.Peers[p] = Nothing
                   /\ cur.round = IF m.round = 0 THEN 1 ELSE m.round
                   /\ rec.round = 0 \/ m.round > rec.round
<1>1. m.slot \in Nat /\ m.round \in Nat
  BY MessageFacts
<1>2. rec = NoSignerState \/ (rec \in os.signers /\ rec.slot = m.slot /\ rec \in SignerRecord)
  BY <1>1, FoundRecord
<1>3. Max({m.round, FirstRound}) = IF m.round = 0 THEN 1 ELSE m.round
  BY <1>1, LargerOfTwo DEF FirstRound
<1>4. ASSUME NEW n \in Nat \ {0}
      PROVE  /\ NewSignerState(m.slot, n) \in SignerRecord
             /\ NewSignerState(m.slot, n).slot = m.slot
             /\ NewSignerState(m.slot, n).round = n
             /\ \A p \in Peers : NewSignerState(m.slot, n).Peers[p] = Nothing
  <2>1. Nothing \in Seen
    BY SeenTypes
  <2> HIDE DEF Nothing, Seen
  <2>2. [p \in Peers |-> Nothing] \in [Peers -> Seen]
    BY <2>1
  <2>3. QED BY <1>1, <2>1, <2>2 DEF NewSignerState, SignerRecord
<1>5. CASE rec.round = 0
  <2>1. Current(rec, m) = NewSignerState(m.slot, IF m.round = 0 THEN 1 ELSE m.round)
    BY <1>3, <1>5 DEF Current
  <2>2. (IF m.round = 0 THEN 1 ELSE m.round) \in Nat \ {0}
    BY <1>1
  <2>3. QED BY <1>4, <1>5, <2>1, <2>2
<1>6. CASE rec.round # 0
  <2>1. rec \in os.signers /\ rec.slot = m.slot /\ rec \in SignerRecord
    BY <1>2, <1>6, NoRecord
  <2>2. rec.round \in Nat \ {0}
    BY <2>1 DEF SignerRecord
  <2>3. CASE m.round > rec.round
    <3>1. Current(rec, m) = NewSignerState(m.slot, m.round)
      BY <1>6, <2>3 DEF Current
    <3>2. m.round \in Nat \ {0}
      BY <1>1, <2>2, <2>3
    <3>3. QED BY <1>4, <2>3, <3>1, <3>2
  <2>4. CASE ~(m.round > rec.round)
    <3>1. Current(rec, m) = rec
      BY <1>6, <2>4 DEF Current
    <3>2. QED BY <2>1, <2>4, <3>1
  <2>5. QED BY <2>3, <2>4
<1>7. QED BY <1>5, <1>6

LEMMA RecordedFields ==
  ASSUME StateOK, NEW m \in RoleMessages[role], NEW p \in Peers, NEW os \in OperatorState,
         NEW rec, rec = SignerStateForSlot(os, m.slot)
  PROVE  LET cur == Current(rec, m)
             new == Recorded(rec, m, p)
         IN  /\ new \in SignerRecord /\ new.slot = m.slot /\ new.round = cur.round
             /\ new.Peers[p] = Record(cur.Peers[p], m)
             /\ \A q \in Peers \ {p} : new.Peers[q] = cur.Peers[q]
<1> DEFINE cur == Current(rec, m)
           new == Recorded(rec, m, p)
<1>1. cur \in SignerRecord /\ cur.slot = m.slot
  BY CurrentRecord
<1>2. new = [cur EXCEPT !.World = Record(@, m), !.Peers[p] = Record(@, m),
                        !.roots = IF m.kind = "preferences" THEN @ \cup m.roots ELSE @]
  BY DEF Recorded, Current
<1> HIDE DEF cur, new
<1>3. m \in Message /\ role \in Roles /\ Cardinality(m.signers) \in Nat
  BY MessageFacts DEF StateOK
<1>4. \A state \in Seen : Record(state, m) \in Seen
  BY <1>3, SeenTypes
<1>5. m.roots \in SUBSET UNION {x.roots : x \in Message}
  BY <1>3
<1> HIDE DEF Seen, Record
<1>6. cur = [slot |-> cur.slot, round |-> cur.round, World |-> cur.World, Peers |-> cur.Peers,
             roots |-> cur.roots]
  BY <1>1 DEF SignerRecord
<1>7. /\ cur.World \in Seen /\ cur.Peers \in [Peers -> Seen]
      /\ cur.slot \in Nat /\ cur.round \in Nat \ {0}
      /\ cur.roots \in SUBSET UNION {x.roots : x \in Message}
  BY <1>1 DEF SignerRecord
<1>8. new = [slot |-> cur.slot, round |-> cur.round, World |-> Record(cur.World, m),
             Peers |-> [cur.Peers EXCEPT ![p] = Record(@, m)],
             roots |-> IF m.kind = "preferences" THEN cur.roots \cup m.roots ELSE cur.roots]
  BY <1>2, <1>6
<1>9. [cur.Peers EXCEPT ![p] = Record(@, m)] \in [Peers -> Seen]
  BY <1>4, <1>7
<1>10. new \in SignerRecord
  BY <1>4, <1>5, <1>7, <1>8, <1>9 DEF SignerRecord
<1>11. QED BY <1>1, <1>7, <1>8, <1>10 DEF cur, new

LEMMA RecordedWorld ==
  ASSUME StateOK, NEW m \in RoleMessages[role], NEW p \in Peers, NEW os \in OperatorState,
         NEW rec, rec = SignerStateForSlot(os, m.slot)
  PROVE  LET cur == Current(rec, m)
             new == Recorded(rec, m, p)
         IN  /\ new.World = Record(cur.World, m)
             /\ new.roots = IF m.kind = "preferences" THEN cur.roots \cup m.roots ELSE cur.roots
<1> DEFINE cur == Current(rec, m)
           new == Recorded(rec, m, p)
<1>1. cur \in SignerRecord
  BY CurrentRecord
<1>2. new = [cur EXCEPT !.World = Record(@, m), !.Peers[p] = Record(@, m),
                        !.roots = IF m.kind = "preferences" THEN @ \cup m.roots ELSE @]
  BY DEF Recorded, Current
<1> HIDE DEF cur, new
<1>3. cur = [slot |-> cur.slot, round |-> cur.round, World |-> cur.World, Peers |-> cur.Peers,
             roots |-> cur.roots]
  BY <1>1 DEF SignerRecord
<1>4. new.World = Record(cur.World, m)
      /\ new.roots = IF m.kind = "preferences" THEN cur.roots \cup m.roots ELSE cur.roots
  BY <1>2, <1>3
<1>5. QED BY <1>4 DEF cur, new

LEMMA EpochType == \A s \in Nat : Epoch(s) \in Nat
<1>1. SlotsPerEpoch \in Nat \ {0}
  BY ValidationAssumption
<1>2. QED BY <1>1 DEF Epoch

LEMMA DutyCountType ==
  ASSUME NEW os \in OperatorState, NEW e \in Nat
  PROVE  DutyCount(os, e) \in Nat /\ countDuty(os, e) \in SUBSET [epoch : Nat, count : Nat]
<1>1. os.duties \in SUBSET [epoch : Nat, count : Nat]
  BY DEF OperatorState
<1>2. DutyCount(os, e) \in Nat
  <2> DEFINE entries == {d \in os.duties : d.epoch = e}
  <2>1. CASE entries = {}
    BY <2>1 DEF DutyCount
  <2>2. CASE entries # {}
    <3>1. (CHOOSE d \in entries : TRUE) \in entries
      BY <2>2
    <3>2. (CHOOSE d \in entries : TRUE).count \in Nat
      BY <1>1, <3>1
    <3>3. QED BY <2>2, <3>2 DEF DutyCount
  <2>3. QED BY <2>1, <2>2
<1>3. [epoch |-> e, count |-> DutyCount(os, e) + 1] \in [epoch : Nat, count : Nat]
  BY <1>2
<1>4. QED BY <1>1, <1>2, <1>3 DEF countDuty

LEMMA SetSignerStateType ==
  ASSUME NEW os \in OperatorState, NEW s \in Nat, NEW rec \in SignerRecord
  PROVE  /\ SetSignerStateForSlot(os, s, rec) \in OperatorState
         /\ SetSignerStateForSlot(os, s, rec).signers \subseteq os.signers \cup {rec}
<1>1. /\ os.duties \in SUBSET [epoch : Nat, count : Nat]
      /\ os.maxSlot \in Nat /\ os.signers \in SUBSET SignerRecord
  BY DEF OperatorState
<1>2. countDuty(os, Epoch(s)) \in SUBSET [epoch : Nat, count : Nat]
  BY EpochType, DutyCountType
<1>3. QED BY <1>1, <1>2 DEF SetSignerStateForSlot, OperatorState

\* A message accepted from a peer, recorded.
LEMMA RecordedFair ==
  ASSUME PunishInv, NEW m \in RoleMessages[role], NEW p \in Peers, NEW hasDuty \in BOOLEAN,
         FirstOf(Semantics(m)) = "accept",
         FirstOf(StateRules(m, p, hasDuty, ValidatorState)) = "accept",
         NEW o \in m.signers, NEW log,
         relayed \subseteq log, p \in FairPeers => Relay(m) \in log
  PROVE  LET rec == SignerStateForSlot(ValidatorState[o], m.slot)
         IN  FairRecord(o, Recorded(rec, m, p), log)
<1> DEFINE os  == ValidatorState[o]
           rec == SignerStateForSlot(os, m.slot)
           cur == Current(rec, m)
           new == Recorded(rec, m, p)
<1>1. StateOK /\ SeenWasRelayed /\ o \in Operators
  BY MessageFacts DEF PunishInv
<1>2. os \in OperatorState
  BY <1>1, ValidatorStateType
<1>3. \A r \in os.signers : FairRecord(o, r, relayed)
  BY <1>1, ValidatorStateFair
<1>4. /\ cur \in SignerRecord /\ cur.slot = m.slot
      /\ \/ cur = rec /\ rec \in os.signers /\ ~(m.round > rec.round)
         \/ /\ \A q \in Peers : cur.Peers[q] = Nothing
            /\ cur.round = IF m.round = 0 THEN 1 ELSE m.round
  <2> HIDE DEF os
  <2>1. QED BY <1>1, <1>2, CurrentRecord
<1>5. /\ new \in SignerRecord /\ new.slot = m.slot /\ new.round = cur.round
      /\ new.Peers[p] = Record(cur.Peers[p], m)
      /\ \A q \in Peers \ {p} : new.Peers[q] = cur.Peers[q]
  <2> HIDE DEF os
  <2>1. QED BY <1>1, <1>2, RecordedFields
<1>6. IsConsensus(m) /\ ~IsDecided(m) => ~(m.round < rec.round)
  BY AcceptedNew
<1>7. /\ m.round \in Nat /\ (m.kind \notin ConsensusKinds => m.round = 0)
      /\ IsFiniteSet(m.signers) /\ Cardinality(m.signers) \in Nat
  BY <1>1, MessageFacts
<1>8. /\ IsConsensus(m) => m.round # 0 /\ (IsDecided(m) => m.kind = "commit")
      /\ ~IsConsensus(m) => Cardinality(m.signers) = 1
  BY <1>1, WellFormed
<1> HIDE DEF os, rec, new, cur
<1>9. FairRecord(o, cur, relayed)
  <2>1. CASE cur = rec /\ rec \in os.signers
    BY <1>3, <2>1
  <2>2. CASE \A q \in Peers : cur.Peers[q] = Nothing
    BY <2>2, ValidationAssumption DEF FairRecord, Nothing
  <2>3. QED BY <1>4, <2>1, <2>2
<1>10. ASSUME NEW q \in FairPeers, NEW k \in cur.Peers[q].seen
       PROVE  RelayOf(o, new, k) \in log /\ k # "preferences"
  BY <1>4, <1>5, <1>9, <1>10 DEF FairRecord, RelayOf
<1>11. IsConsensus(m) /\ ~IsDecided(m) => cur.round = m.round
  <2>1. CASE cur = rec /\ rec \in os.signers /\ ~(m.round > rec.round)
    <3>1. rec.round \in Nat
      BY <1>4, <2>1 DEF SignerRecord
    <3>2. QED BY <1>6, <1>7, <2>1, <3>1
  <2>2. CASE cur.round = IF m.round = 0 THEN 1 ELSE m.round
    BY <1>8, <2>2
  <2>3. QED BY <1>4, <2>1, <2>2
<1>12. ASSUME p \in FairPeers, ~IsDecided(m), m.kind # "preferences"
       PROVE  RelayOf(o, new, m.kind) \in log
  <2>1. Cardinality(m.signers) =< 1
    BY <1>7, <1>8, <1>12 DEF IsDecided
  <2>2. m.signers = {o}
    BY <1>1, <2>1, OnlySigner
  <2>3. Relay(m) = <<{o}, m.slot, m.round, m.kind, {}>>
    BY <1>12, <2>2 DEF Relay
  <2>4. RelayOf(o, new, m.kind) = <<{o}, m.slot, m.round, m.kind, {}>>
    BY <1>5, <1>7, <1>11, <1>12 DEF RelayOf, IsConsensus
  <2>5. QED BY <1>12, <2>3, <2>4
<1>13. ASSUME NEW q \in FairPeers
       PROVE  /\ \A k \in new.Peers[q].seen : RelayOf(o, new, k) \in log /\ k # "preferences"
              /\ new.Peers[q].hash # {} => "proposal" \in new.Peers[q].seen
  <2>1. q \in Peers
    BY ValidationAssumption
  <2>2. CASE q # p
    <3>1. new.Peers[q] = cur.Peers[q]
      BY <1>5, <2>1, <2>2
    <3>2. QED BY <1>9, <1>10, <3>1 DEF FairRecord
  <2>3. CASE q = p
    <3>1. new.Peers[q] = Record(cur.Peers[q], m)
      BY <1>5, <2>3
    <3>2. new.Peers[q].seen = cur.Peers[q].seen
            \cup (IF IsDecided(m) \/ m.kind = "preferences" THEN {} ELSE {m.kind})
      BY <3>1 DEF Record
    <3>3. new.Peers[q].hash = IF m.kind = "proposal" /\ m.roots # {} THEN m.roots
                              ELSE cur.Peers[q].hash
      BY <3>1 DEF Record
    <3>4. m.kind = "proposal" => ~IsDecided(m)
      BY <1>8 DEF IsConsensus, ConsensusKinds
    <3>5. \A k \in new.Peers[q].seen : RelayOf(o, new, k) \in log /\ k # "preferences"
      BY <1>10, <1>12, <2>3, <3>2
    <3>6. new.Peers[q].hash # {} => "proposal" \in new.Peers[q].seen
      BY <1>9, <3>2, <3>3, <3>4 DEF FairRecord
    <3>7. QED BY <3>5, <3>6
  <2>4. QED BY <2>2, <2>3
<1>14. FairRecord(o, new, log)
  BY <1>13 DEF FairRecord
<1>15. QED BY <1>14 DEF new, rec, os

\* A fair peer's message is rejected only as the exception has it.
LEMMA FairRejection ==
  ASSUME PunishInv, NEW m \in RoleMessages[role], NEW p \in FairPeers, NEW hasDuty \in BOOLEAN,
         FairRelay(p, m), FirstOf(Semantics(m)) = "accept",
         FirstOf(StateRules(m, p, hasDuty, ValidatorState)) = "reject"
  PROVE  m.kind = "roundchange" /\ m.roots # {}
<1>1. StateOK /\ SeenWasRelayed /\ p \in Peers
  BY ValidationAssumption DEF PunishInv
<1>2. /\ m.kind = "proposal" => m.signers = {Proposer(m.slot, m.round)}
      /\ Relay(m) \notin relayed
  BY DEF FairRelay
<1>3. PICK o \in m.signers :
        LET rec == SignerStateForSlot(ValidatorState[o], m.slot)
        IN  /\ IsConsensus(m) => ~IsDecided(m) /\ m.round = rec.round
            /\ \/ m.kind \in SeenFrom(rec, p).seen
               \/ IsConsensus(m) /\ Differs(SeenFrom(rec, p).hash, m)
  BY <1>2, RejectedBy
<1> DEFINE os  == ValidatorState[o]
           rec == SignerStateForSlot(os, m.slot)
<1>4. o \in Operators /\ os \in OperatorState /\ m.slot \in Nat /\ m.round \in Nat
      /\ (m.kind \notin ConsensusKinds => m.round = 0) /\ Cardinality(m.signers) \in Nat
  BY <1>1, MessageFacts, ValidatorStateType
<1>5. \A r \in os.signers : FairRecord(o, r, relayed)
  BY <1>1, <1>4, ValidatorStateFair
<1>6. rec = NoSignerState \/ (rec \in os.signers /\ rec.slot = m.slot)
  <2> HIDE DEF os
  <2>1. QED BY <1>4, FoundRecord
<1>7. /\ IsConsensus(m) => m.round # 0 /\ (m.roots # {} /\ ~IsDecided(m) =>
                                             m.kind \notin {"prepare", "commit"})
      /\ ~IsConsensus(m) => Cardinality(m.signers) = 1
  BY <1>1, WellFormed
<1>8. /\ IsConsensus(m) => ~IsDecided(m) /\ m.round = rec.round
      /\ \/ m.kind \in SeenFrom(rec, p).seen
         \/ IsConsensus(m) /\ Differs(SeenFrom(rec, p).hash, m)
  BY <1>3
<1> HIDE DEF os, rec
<1>9. rec # NoSignerState
  <2>1. SeenFrom(NoSignerState, p) = Nothing
    BY <1>1, NoRecord DEF SeenFrom
  <2>2. QED BY <1>8, <2>1 DEF Nothing, Differs
<1>10. rec \in os.signers /\ rec.slot = m.slot /\ FairRecord(o, rec, relayed)
  BY <1>5, <1>6, <1>9
<1>11. ~(m.kind \in SeenFrom(rec, p).seen)
  <2> SUFFICES ASSUME m.kind \in SeenFrom(rec, p).seen PROVE FALSE
    OBVIOUS
  <2>1. RelayOf(o, rec, m.kind) \in relayed /\ m.kind # "preferences"
    BY <1>10 DEF FairRecord, SeenFrom
  <2>2. Cardinality(m.signers) =< 1
    BY <1>4, <1>7, <1>8 DEF IsDecided
  <2>3. m.signers = {o}
    BY <1>1, <2>2, OnlySigner
  <2>4. Relay(m) = RelayOf(o, rec, m.kind)
    BY <1>4, <1>8, <1>10, <2>1, <2>3 DEF Relay, RelayOf, IsConsensus
  <2>5. QED BY <1>2, <2>1, <2>4
<1>12. Differs(SeenFrom(rec, p).hash, m) /\ IsConsensus(m)
  BY <1>8, <1>11
<1>13. m.roots # {} /\ "proposal" \in SeenFrom(rec, p).seen
  BY <1>10, <1>12 DEF Differs, FairRecord, SeenFrom
<1>14. m.kind \in ConsensusKinds /\ m.kind # "proposal"
  BY <1>11, <1>12, <1>13 DEF IsConsensus
<1>15. m.kind \notin {"prepare", "commit"}
  BY <1>7, <1>8, <1>12, <1>13
<1>16. QED BY <1>13, <1>14, <1>15 DEF ConsensusKinds

LEMMA PunishInitially == Init => PunishInv
<1> SUFFICES ASSUME Init PROVE PunishInv
  OBVIOUS
<1>1. StateOK
  <2>1. NewOperatorState \in OperatorState
    BY DEF NewOperatorState, OperatorState
  <2>2. QED BY <2>1, ValidationAssumption DEF Init, StateOK
<1>2. SeenWasRelayed
  BY DEF Init, SeenWasRelayed, NewOperatorState
<1>3. NoUnfairPunishment
  BY DEF Init, NoUnfairPunishment
<1>4. QED BY <1>1, <1>2, <1>3 DEF PunishInv

LEMMA AcceptKeepsPunish ==
  ASSUME PunishInv, NEW m \in RoleMessages[role], NEW p \in Peers, NEW hasDuty \in BOOLEAN,
         FirstOf(Semantics(m)) = "accept",
         FirstOf(StateRules(m, p, hasDuty, ValidatorState)) = "accept",
         Accept(m, p)
  PROVE  PunishInv'
<1> DEFINE st == ValidatorState
           rec(o) == SignerStateForSlot(st[o], m.slot)
<1>1. StateOK /\ SeenWasRelayed /\ NoUnfairPunishment
  BY DEF PunishInv
<1>2. st \in [Operators -> OperatorState]
  BY <1>1, ValidatorStateType
<1>3. /\ operators' = Updated(st, m, p) /\ touched' = time
      /\ relayed' = IF p \in FairPeers THEN relayed \cup {Relay(m)} ELSE relayed
      /\ UNCHANGED <<role, time, punished>>
  BY DEF Accept, Touch
<1> HIDE DEF st
<1>4. m.slot \in Nat /\ m.signers \subseteq Operators
  BY <1>1, MessageFacts
<1>5. ASSUME NEW o \in Operators
      PROVE  /\ operators'[o] \in OperatorState
             /\ \A r \in operators'[o].signers : FairRecord(o, r, relayed')
  <2>1. \A r \in st[o].signers : FairRecord(o, r, relayed)
    BY <1>1, ValidatorStateFair DEF st
  <2>2. relayed \subseteq relayed'
    BY <1>3
  <2>3. \A r \in st[o].signers : FairRecord(o, r, relayed')
    BY <2>1, <2>2 DEF FairRecord
  <2>4. CASE o \notin m.signers
    <3>1. operators'[o] = st[o]
      BY <1>3, <2>4 DEF Updated
    <3>2. QED BY <1>2, <2>3, <3>1
  <2>5. CASE o \in m.signers
    <3> DEFINE new == Recorded(rec(o), m, p)
    <3>1. operators'[o] = SetSignerStateForSlot(st[o], m.slot, new)
      BY <1>3, <2>5 DEF Updated
    <3>2. p \in FairPeers => Relay(m) \in relayed'
      BY <1>3
    <3>3. FairRecord(o, new, relayed')
      BY <2>2, <2>5, <3>2, RecordedFair DEF st
    <3>4. st[o] \in OperatorState
      BY <1>2
    <3>5. new \in SignerRecord
      BY <1>1, <3>4, RecordedFields
    <3> HIDE DEF new
    <3>6. QED BY <1>4, <2>3, <3>1, <3>3, <3>4, <3>5, SetSignerStateType
  <2>6. QED BY <2>4, <2>5
<1>6. operators' \in [Operators -> OperatorState]
  <2>1. operators' = [o \in Operators |-> operators'[o]]
    BY <1>3 DEF Updated
  <2>2. QED BY <1>5, <2>1
<1>7. StateOK'
  BY <1>1, <1>3, <1>6 DEF StateOK
<1>8. SeenWasRelayed'
  BY <1>5 DEF SeenWasRelayed
<1>9. NoUnfairPunishment'
  BY <1>1, <1>3 DEF NoUnfairPunishment
<1>10. QED BY <1>7, <1>8, <1>9 DEF PunishInv

LEMMA DropKeepsPunish ==
  ASSUME PunishInv, NEW m \in RoleMessages[role], NEW p \in Peers, NEW outcome,
         p \in FairPeers /\ outcome = "reject" => m.kind = "roundchange" /\ m.roots # {},
         Drop(m, p, outcome)
  PROVE  PunishInv'
<1>1. StateOK /\ SeenWasRelayed /\ NoUnfairPunishment
  BY DEF PunishInv
<1>2. /\ operators' = ValidatorState /\ touched' = time /\ relayed' = relayed
      /\ punished' = IF p \in FairPeers /\ outcome = "reject" THEN punished \cup {m} ELSE punished
      /\ UNCHANGED <<role, time>>
  BY DEF Drop, Touch
<1>3. StateOK'
  BY <1>1, <1>2, ValidatorStateType DEF StateOK
<1>4. SeenWasRelayed'
  BY <1>1, <1>2, ValidatorStateFair DEF SeenWasRelayed
<1>5. NoUnfairPunishment'
  BY <1>1, <1>2 DEF NoUnfairPunishment
<1>6. QED BY <1>3, <1>4, <1>5 DEF PunishInv

LEMMA ValidateKeepsPunish ==
  ASSUME PunishInv, NEW m \in RoleMessages[role], NEW p \in Peers, NEW hasDuty \in BOOLEAN,
         Validate(m, p, hasDuty)
  PROVE  PunishInv'
<1> DEFINE verdict == FirstOf(StateRules(m, p, hasDuty, ValidatorState))
<1>1. FirstOf(Semantics(m)) = "accept" /\ FairRelay(p, m)
  BY DEF Validate
<1>2. \/ verdict = "accept" /\ Accept(m, p)
      \/ verdict = "accept" /\ Drop(m, p, "ignore")
      \/ verdict = "accept" /\ p \notin FairPeers /\ Drop(m, p, "reject")
      \/ verdict # "accept" /\ Drop(m, p, verdict)
  BY DEF Validate
<1>3. CASE verdict = "accept" /\ Accept(m, p)
  BY <1>1, <1>3, AcceptKeepsPunish
<1>4. CASE Drop(m, p, "ignore")
  BY <1>4, DropKeepsPunish
<1>5. CASE p \notin FairPeers /\ Drop(m, p, "reject")
  BY <1>5, DropKeepsPunish
<1>6. CASE verdict # "accept" /\ Drop(m, p, verdict)
  <2>1. p \in FairPeers /\ verdict = "reject" => m.kind = "roundchange" /\ m.roots # {}
    BY <1>1, FairRejection
  <2> HIDE DEF verdict
  <2>2. QED BY <1>6, <2>1, DropKeepsPunish
<1>7. QED BY <1>2, <1>3, <1>4, <1>5, <1>6

LEMMA PunishKept == PunishInv /\ [Next]_vars => PunishInv'
<1> SUFFICES ASSUME PunishInv, [Next]_vars PROVE PunishInv'
  OBVIOUS
<1>1. CASE UNCHANGED vars
  BY <1>1 DEF vars, historyVars, PunishInv, StateOK, SeenWasRelayed, NoUnfairPunishment
<1>2. CASE Tick
  <2>1. time' \in Nat
    BY <1>2, ValidationAssumption DEF Tick
  <2>2. QED BY <1>2, <2>1 DEF Tick, historyVars, PunishInv, StateOK, SeenWasRelayed,
                              NoUnfairPunishment
<1>3. ASSUME NEW m \in RoleMessages[role], NEW p \in Peers, NEW hasDuty \in DutyAnswers,
             Validate(m, p, hasDuty)
      PROVE  PunishInv'
  <2>1. hasDuty \in BOOLEAN
    BY DEF DutyAnswers
  <2>2. QED BY <1>3, <2>1, ValidateKeepsPunish
<1>4. ASSUME NEW m \in RoleMessages[role], NEW p \in Peers, RejectMalformed(m, p)
      PROVE  PunishInv'
  BY <1>1, <1>4 DEF RejectMalformed
<1>5. QED BY <1>1, <1>2, <1>3, <1>4 DEF Next

\* Whatever messages, peers and times there are, a peer that relays what it
\* verified and each message once is not rejected, and so not punished, for
\* what others relayed before it, the one exception aside.
THEOREM PeersArePunishedFairly == Spec => []NoUnfairPunishment
<1>1. PunishInv => NoUnfairPunishment
  BY DEF PunishInv
<1>2. QED BY <1>1, PunishInitially, PunishKept, PTL DEF Spec

-----------------------------------------------------------------------------
(* Slots, epochs and the places of the rings.                              *)

\* A slot outlasts both margins, and an epoch has more than one.
SlotsOutlastMargins == SlotsPerEpoch >= 2 /\ SlotDuration > earlyMessageMargin + lateMessageMargin

LEMMA EpochBounds ==
  ASSUME NEW s \in Nat
  PROVE  /\ Epoch(s) \in Nat
         /\ SlotsPerEpoch * Epoch(s) =< s
         /\ s < SlotsPerEpoch * Epoch(s) + SlotsPerEpoch
<1>1. SlotsPerEpoch \in Nat \ {0}
  BY ValidationAssumption
<1>2. SlotsPerEpoch * (s \div SlotsPerEpoch) =< s
  BY <1>1
<1>3. s < SlotsPerEpoch * (s \div SlotsPerEpoch) + SlotsPerEpoch
  BY <1>1
<1>4. QED BY <1>2, <1>3, EpochType DEF Epoch

LEMMA Multiples ==
  ASSUME NEW n \in Nat, NEW a \in Int, NEW b \in Int, NEW c \in Int, a >= b + c
  PROVE  n * a >= n * b + n * c
<1>1. n * (a - b - c) >= 0
  OBVIOUS
<1>2. n * (a - b - c) = n * a - n * b - n * c
  OBVIOUS
<1>3. QED BY <1>1, <1>2

\* Two numbers in one place of a ring are its size apart.
LEMMA SamePlace ==
  ASSUME NEW n \in Nat \ {0}, NEW x \in Nat, NEW y \in Nat, x < y, x % n = y % n
  PROVE  x + n =< y
<1>1. \A z \in Nat : z % n = z - n * (z \div n)
  BY SMTT(40)
<1>2. \A z \in Nat : z \div n \in Nat
  OBVIOUS
<1> DEFINE a == x \div n  b == y \div n
<1>3. x - n * a = y - n * b /\ a \in Nat /\ b \in Nat
  BY <1>1, <1>2
<1> HIDE DEF a, b
<1>4. n * (b - a) = y - x
  BY <1>3
<1>5. b - a >= 1
  BY <1>3, <1>4
<1>6. n * (b - a) >= n * 0 + n * 1
  BY <1>3, <1>5, Multiples
<1>7. QED BY <1>4, <1>6

\* The first and the last slot in which messages of a slot are taken.
FirstTaken(s) ==
  IF role = "preferences"
  THEN SlotsPerEpoch * Max({Epoch(s) - (proposerPreferencesEarlyEpochs - 1), 0}) ELSE s
LastTaken(s) ==
  s + CASE role = "proposer" -> 1 + LateSlotAllowance
        [] committeeRole     -> maxStoredSlots
        [] OTHER             -> LateSlotAllowance

LEMMA TakenTypes ==
  ASSUME NEW s \in Nat
  PROVE  /\ FirstTaken(s) \in Nat /\ LastTaken(s) \in Nat
         /\ role = "preferences" =>
              /\ FirstTaken(s) >= SlotsPerEpoch * Epoch(s) - SlotsPerEpoch
              /\ LastTaken(s) = s + 2
         /\ role # "preferences" => FirstTaken(s) = s
         /\ committeeRole => LastTaken(s) = s + SlotsPerEpoch + 2
         /\ role = "proposer" => LastTaken(s) = s + 3
<1>1. SlotsPerEpoch \in Nat \ {0} /\ Epoch(s) \in Nat
  BY ValidationAssumption, EpochType
<1> DEFINE M == Max({Epoch(s) - (proposerPreferencesEarlyEpochs - 1), 0})
<1>2. M = IF Epoch(s) - 1 >= 0 THEN Epoch(s) - 1 ELSE 0
  BY <1>1, LargerOfTwo DEF proposerPreferencesEarlyEpochs
<1> HIDE DEF M
<1>3. M \in Nat /\ M >= Epoch(s) + (-1)
  BY <1>1, <1>2
<1>4. SlotsPerEpoch * M \in Nat /\ SlotsPerEpoch * M >= SlotsPerEpoch * Epoch(s) + SlotsPerEpoch * (-1)
  BY <1>1, <1>3, Multiples
<1>5. SlotsPerEpoch * M >= SlotsPerEpoch * Epoch(s) - SlotsPerEpoch
  BY <1>1, <1>4
<1>6. /\ FirstTaken(s) = IF role = "preferences" THEN SlotsPerEpoch * M ELSE s
      /\ FirstTaken(s) \in Nat
  BY <1>4 DEF FirstTaken, M
<1>7. /\ LastTaken(s) \in Nat
      /\ role = "preferences" => LastTaken(s) = s + 2
      /\ committeeRole => LastTaken(s) = s + SlotsPerEpoch + 2
      /\ role = "proposer" => LastTaken(s) = s + 3
  BY <1>1 DEF LastTaken, LateSlotAllowance, maxStoredSlots, committeeRole
<1>8. QED BY <1>5, <1>6, <1>7

LEMMA TakenTimes ==
  ASSUME NEW s \in Nat
  PROVE  /\ IsEarly(s) <=> FirstTaken(s) * SlotDuration - time > 1
         /\ IsLate(s) <=> role # "registration" /\ time > LastTaken(s) * SlotDuration + 3
BY DEF IsEarly, IsLate, ExpectedFrom, AcceptableUntil, SlotStartTime, FirstTaken, LastTaken,
       earlyMessageMargin, lateMessageMargin

\* No time is within the margins of two slots.
LEMMA MarginsApart ==
  ASSUME SlotsOutlastMargins, NEW t \in Int, NEW a \in Int, NEW b \in Int,
         a * SlotDuration - t =< 1, t =< b * SlotDuration + 3
  PROVE  a =< b
<1>1. SlotDuration \in Nat /\ SlotDuration > 4
  BY ValidationAssumption DEF SlotsOutlastMargins, earlyMessageMargin, lateMessageMargin
<1>2. ASSUME a >= b + 1
      PROVE  FALSE
  <2>1. SlotDuration * a >= SlotDuration * b + SlotDuration * 1
    BY <1>1, <1>2, Multiples
  <2>2. a * SlotDuration >= b * SlotDuration + SlotDuration
    BY <1>1, <2>1
  <2>3. a * SlotDuration \in Int /\ b * SlotDuration \in Int
    BY <1>1
  <2>4. QED BY <1>1, <2>2, <2>3
<1>3. QED BY <1>2

\* While messages of a slot are taken none was taken of an epoch that shares
\* its place in the ring of duty counts.
LEMMA EpochsDoNotMeet ==
  ASSUME SlotsOutlastMargins, StateOK, NEW s \in Nat, NEW u \in Nat,
         role \in {"committee", "preferences"},
         Epoch(u) > Epoch(s), Epoch(u) % storedEpochCount = Epoch(s) % storedEpochCount,
         ~IsEarly(u), ~IsLate(s)
  PROVE  FALSE
<1>1. storedEpochCount = 3
  BY DEF storedEpochCount, committeeRole, proposerPreferencesEarlyEpochs
<1>2. Epoch(s) + 3 =< Epoch(u)
  BY <1>1, EpochType, SamePlace
<1>3. SlotsPerEpoch \in Nat /\ SlotsPerEpoch >= 2 /\ SlotDuration \in Nat /\ time \in Nat
  BY ValidationAssumption DEF SlotsOutlastMargins, StateOK
<1>4. SlotsPerEpoch * Epoch(u) >= SlotsPerEpoch * Epoch(s) + SlotsPerEpoch * 3
  BY <1>2, <1>3, EpochType, Multiples
<1>5. FirstTaken(u) \in Nat /\ LastTaken(s) \in Nat
  BY TakenTypes
<1>6. FirstTaken(u) > LastTaken(s)
  <2> DEFINE eu == SlotsPerEpoch * Epoch(u)
             es == SlotsPerEpoch * Epoch(s)
  <2>1. eu \in Int /\ es \in Int /\ eu >= es + SlotsPerEpoch * 3
    BY <1>3, <1>4, EpochType
  <2>2. eu =< u /\ s < es + SlotsPerEpoch
    BY EpochBounds
  <2>3. CASE role = "committee"
    <3>1. FirstTaken(u) = u /\ LastTaken(s) = s + SlotsPerEpoch + 2
      BY <2>3, TakenTypes DEF committeeRole
    <3> HIDE DEF eu, es
    <3>2. QED BY <1>3, <2>1, <2>2, <3>1
  <2>4. CASE role = "preferences"
    <3>1. FirstTaken(u) >= eu - SlotsPerEpoch /\ LastTaken(s) = s + 2
      BY <2>4, TakenTypes
    <3> HIDE DEF eu, es
    <3>2. QED BY <1>3, <1>5, <2>1, <2>2, <3>1
  <2>5. QED BY <2>3, <2>4
<1>7. FirstTaken(u) * SlotDuration - time =< 1
  <2>1. FirstTaken(u) * SlotDuration \in Int
    BY <1>3, <1>5
  <2>2. QED BY <1>3, <2>1, TakenTimes
<1>8. time =< LastTaken(s) * SlotDuration + 3
  <2>1. LastTaken(s) * SlotDuration \in Int
    BY <1>3, <1>5
  <2>2. QED BY <1>3, <2>1, TakenTimes
<1>9. FirstTaken(u) =< LastTaken(s)
  <2> DEFINE a == FirstTaken(u)  b == LastTaken(s)
  <2>1. /\ a \in Int /\ b \in Int /\ time \in Int
        /\ a * SlotDuration - time =< 1 /\ time =< b * SlotDuration + 3
    BY <1>3, <1>5, <1>7, <1>8
  <2> HIDE DEF a, b
  <2>2. a =< b
    BY <2>1, MarginsApart
  <2>3. QED BY <2>2 DEF a, b
<1>10. QED BY <1>5, <1>6, <1>9

-----------------------------------------------------------------------------
(* Duties are counted.                                                     *)

EpochSlots(cs, e) == {u \in cs : Epoch(u) = e}

\* What a signer's state knows of the slots cs accepted of it: the ring of
\* duty counts has at each place the latest epoch seen there, with at least as
\* many duties as it has slots.
DutyOK(os, cs) ==
  /\ cs \in SUBSET Nat /\ IsFiniteSet(cs)
  /\ \A u \in cs : u =< os.maxSlot /\ ~IsEarly(u)
  /\ \A rec \in os.signers : rec.slot \in cs
  /\ \A d \in os.duties : \E u \in cs : Epoch(u) = d.epoch
  /\ \A d, f \in os.duties : d.epoch % storedEpochCount = f.epoch % storedEpochCount => d = f
  /\ \A u \in cs : \E d \in os.duties :
       /\ d.epoch % storedEpochCount = Epoch(u) % storedEpochCount
       /\ d.epoch >= Epoch(u)
       /\ d.epoch = Epoch(u) => Cardinality(EpochSlots(cs, Epoch(u))) =< d.count
  /\ dutyLimit < Unlimited =>
       \A u \in cs : Cardinality(EpochSlots(cs, Epoch(u))) =< dutyLimit

DutyInv ==
  /\ StateOK
  /\ counted \in [Operators -> SUBSET Nat]
  /\ role # "proposer" => \A o \in Operators : DutyOK(operators[o], counted[o])

LEMMA DutyLimitType == dutyLimit \in Int /\ Unlimited \in Int
<1>1. SlotsPerEpoch \in Nat /\ Validators \in Nat
  BY ValidationAssumption
<1> DEFINE T == {SlotsPerEpoch, 2 * Validators}
<1>2. T \in SUBSET Nat /\ T # {}
  BY <1>1
<1>3. Min(T) \in Int
  <2> HIDE DEF T
  <2>1. Min(T) \in T
    BY <1>2, LeastPosition
  <2>2. \A x \in T : x \in Int
    BY <1>2
  <2>3. QED BY <2>1, <2>2
<1>4. dutyLimit \in {2, SlotsPerEpoch, Unlimited, Min(T)}
  <2> DEFINE M == Min(T)
             many == committeeRole /\ InSyncCommittee /\ Validators < SlotsPerEpoch \div 2
  <2>1. dutyLimit = CASE role = "registration" -> 2
                      [] role = "preferences"  -> SlotsPerEpoch
                      [] role = "proposer"     -> Unlimited
                      [] many                  -> SlotsPerEpoch
                      [] OTHER                 -> M
    BY DEF dutyLimit
  <2>2. many \in BOOLEAN
    OBVIOUS
  <2> HIDE DEF M, many
  <2>3. dutyLimit \in {2, SlotsPerEpoch, Unlimited, M}
    BY <2>1, <2>2
  <2>4. QED BY <2>3 DEF M
<1>5. QED BY <1>1, <1>3, <1>4 DEF Unlimited

\* A message of a slot is accepted of a signer for the first time.
LEMMA NewDutyCounted ==
  ASSUME SlotsOutlastMargins, StateOK, role # "proposer",
         NEW os \in OperatorState, NEW cs, DutyOK(os, cs), NEW s \in Nat,
         NEW rec \in SignerRecord, rec.slot = s,
         ~IsEarly(s), ~IsLate(s), monotonicSlotRole => ~(os.maxSlot > s),
         SignerStateForSlot(os, s).round = 0,
         ~(dutyLimit < Unlimited /\ DutyCount(os, Epoch(s)) + 1 > dutyLimit)
  PROVE  DutyOK(SetSignerStateForSlot(os, s, rec), cs \cup {s})
<1> DEFINE e == Epoch(s)
           k == storedEpochCount
           place == {d \in os.duties : d.epoch % k = e % k}
           n == DutyCount(os, e)
           entry == [epoch |-> e, count |-> n + 1]
           new == SetSignerStateForSlot(os, s, rec)
           ds == cs \cup {s}
<1>1. /\ os.duties \in SUBSET [epoch : Nat, count : Nat] /\ os.maxSlot \in Nat
      /\ e \in Nat /\ n \in Nat /\ k \in Nat \ {0}
  <2>1. os.duties \in SUBSET [epoch : Nat, count : Nat] /\ os.maxSlot \in Nat
    BY DEF OperatorState
  <2>2. e \in Nat /\ n \in Nat
    BY EpochType, DutyCountType
  <2>3. k \in Nat \ {0}
    BY DEF storedEpochCount, proposerPreferencesEarlyEpochs
  <2>4. QED BY <2>1, <2>2, <2>3
<1>2. /\ cs \in SUBSET Nat /\ IsFiniteSet(cs)
      /\ \A u \in cs : u =< os.maxSlot /\ ~IsEarly(u)
      /\ \A r \in os.signers : r.slot \in cs
      /\ \A d \in os.duties : \E u \in cs : Epoch(u) = d.epoch
      /\ \A d, f \in os.duties : d.epoch % k = f.epoch % k => d = f
      /\ \A u \in cs : \E d \in os.duties :
           /\ d.epoch % k = Epoch(u) % k /\ d.epoch >= Epoch(u)
           /\ d.epoch = Epoch(u) => Cardinality(EpochSlots(cs, Epoch(u))) =< d.count
      /\ dutyLimit < Unlimited =>
           \A u \in cs : Cardinality(EpochSlots(cs, Epoch(u))) =< dutyLimit
  BY DEF DutyOK
<1>3. ASSUME NEW d \in place, d.epoch > e
      PROVE  FALSE
  <2>1. PICK u \in cs : Epoch(u) = d.epoch
    BY <1>2, <1>3
  <2>2. u \in Nat /\ ~IsEarly(u) /\ u =< os.maxSlot
    BY <1>2
  <2>3. CASE monotonicSlotRole
    <3>1. u =< s
      BY <1>1, <2>2, <2>3
    <3>2. SlotsPerEpoch \in Nat
      BY ValidationAssumption
    <3>3. SlotsPerEpoch * Epoch(u) >= SlotsPerEpoch * e + SlotsPerEpoch * 1
      <4>1. Epoch(u) \in Int /\ e \in Int /\ Epoch(u) >= e + 1
        BY <1>1, <1>3, <2>1, <2>2, EpochType
      <4> HIDE DEF e
      <4>2. QED BY <3>2, <4>1, Multiples
    <3>4. SlotsPerEpoch * Epoch(u) =< u /\ s < SlotsPerEpoch * e + SlotsPerEpoch
      BY <2>2, EpochBounds
    <3>5. SlotsPerEpoch * Epoch(u) \in Int /\ SlotsPerEpoch * e \in Int
      BY <1>1, <2>2, <3>2, EpochType
    <3>6. QED BY <2>2, <3>1, <3>2, <3>3, <3>4, <3>5
  <2>4. CASE ~monotonicSlotRole
    <3>1. role \in {"committee", "preferences"}
      BY <2>4 DEF monotonicSlotRole
    <3>2. Epoch(u) > Epoch(s) /\ Epoch(u) % k = Epoch(s) % k
      BY <1>3, <2>1
    <3>3. QED BY <2>2, <3>1, <3>2, EpochsDoNotMeet
  <2>5. QED BY <2>3, <2>4
<1>4. /\ new.duties = (os.duties \ place) \cup {entry}
      /\ new.maxSlot = IF s > os.maxSlot THEN s ELSE os.maxSlot
      /\ new.signers \subseteq os.signers \cup {rec}
  <2>1. countDuty(os, e) = (os.duties \ place) \cup {entry}
    BY <1>3 DEF countDuty
  <2>2. ~(SignerStateForSlot(os, s).round > 0)
    OBVIOUS
  <2>3. QED BY <2>1, <2>2 DEF SetSignerStateForSlot
<1>5. ds \in SUBSET Nat /\ IsFiniteSet(ds)
  BY <1>2, FS_AddElement
<1>6. ASSUME NEW u \in cs, Epoch(u) # e
      PROVE  EpochSlots(ds, Epoch(u)) = EpochSlots(cs, Epoch(u))
  BY <1>6 DEF EpochSlots
<1>7. /\ Cardinality(EpochSlots(ds, e)) =< n + 1
      /\ Cardinality(EpochSlots(ds, e)) \in Nat
  <2>1. EpochSlots(cs, e) \in SUBSET cs
    BY DEF EpochSlots
  <2>2. IsFiniteSet(EpochSlots(cs, e)) /\ Cardinality(EpochSlots(cs, e)) \in Nat
    BY <1>2, <2>1, FS_Subset, FS_CardinalityType
  <2>3. Cardinality(EpochSlots(cs, e)) =< n
    <3>1. CASE EpochSlots(cs, e) = {}
      BY <1>1, <3>1, FS_EmptySet
    <3>2. CASE EpochSlots(cs, e) # {}
      <4>1. PICK u \in cs : Epoch(u) = e
        BY <3>2 DEF EpochSlots
      <4>2. PICK d \in os.duties : /\ d.epoch % k = e % k /\ d.epoch >= e
                                   /\ d.epoch = e => Cardinality(EpochSlots(cs, e)) =< d.count
        BY <1>2, <4>1
      <4>3. d.epoch = e
        BY <1>1, <1>3, <4>2
      <4>4. {f \in os.duties : f.epoch = e} = {d}
        BY <1>2, <4>3
      <4>5. n = d.count
        BY <4>4 DEF DutyCount
      <4>6. QED BY <4>2, <4>3, <4>5
    <3>3. QED BY <3>1, <3>2
  <2>4. EpochSlots(ds, e) = EpochSlots(cs, e) \cup {s}
    BY DEF EpochSlots
  <2>5. /\ Cardinality(EpochSlots(ds, e)) =< Cardinality(EpochSlots(cs, e)) + 1
        /\ Cardinality(EpochSlots(ds, e)) \in Nat
    <3> DEFINE E == EpochSlots(cs, e)
    <3>1. IsFiniteSet(E) /\ Cardinality(E) \in Nat /\ EpochSlots(ds, e) = E \cup {s}
      BY <2>2, <2>4
    <3> HIDE DEF E
    <3>2. Cardinality(E \cup {s}) = IF s \in E THEN Cardinality(E) ELSE Cardinality(E) + 1
      BY <3>1, FS_AddElement
    <3>3. Cardinality(E \cup {s}) =< Cardinality(E) + 1 /\ Cardinality(E \cup {s}) \in Nat
      BY <3>1, <3>2
    <3>4. QED BY <3>1, <3>3 DEF E
  <2>6. QED BY <1>1, <2>2, <2>3, <2>5
<1> HIDE DEF e, k, n, new
<1>8. \A u \in ds : u =< new.maxSlot /\ ~IsEarly(u)
  BY <1>1, <1>2, <1>4
<1>9. \A r \in new.signers : r.slot \in ds
  BY <1>2, <1>4
<1>10. \A d \in new.duties : \E u \in ds : Epoch(u) = d.epoch
  <2>1. Epoch(s) = entry.epoch
    BY DEF e
  <2>2. QED BY <1>2, <1>4, <2>1
<1>11. \A d, f \in new.duties : d.epoch % k = f.epoch % k => d = f
  BY <1>2, <1>4
<1>12. \A u \in ds : \E d \in new.duties :
         /\ d.epoch % k = Epoch(u) % k /\ d.epoch >= Epoch(u)
         /\ d.epoch = Epoch(u) => Cardinality(EpochSlots(ds, Epoch(u))) =< d.count
  <2> SUFFICES ASSUME NEW u \in ds
               PROVE  \E d \in new.duties :
                        /\ d.epoch % k = Epoch(u) % k /\ d.epoch >= Epoch(u)
                        /\ d.epoch = Epoch(u) => Cardinality(EpochSlots(ds, Epoch(u))) =< d.count
    OBVIOUS
  <2>1. CASE Epoch(u) = e
    <3>1. entry \in new.duties /\ entry.epoch = e /\ entry.count = n + 1
      BY <1>4
    <3>2. QED BY <1>1, <1>7, <2>1, <3>1
  <2>2. CASE Epoch(u) # e
    <3>1. u \in cs
      BY <2>2 DEF e
    <3>2. PICK d \in os.duties :
            /\ d.epoch % k = Epoch(u) % k /\ d.epoch >= Epoch(u)
            /\ d.epoch = Epoch(u) => Cardinality(EpochSlots(cs, Epoch(u))) =< d.count
      BY <1>2, <3>1
    <3>3. CASE d \in place
      <4>1. e >= d.epoch /\ e % k = Epoch(u) % k
        BY <1>1, <1>3, <3>2, <3>3
      <4>2. entry \in new.duties /\ entry.epoch = e
        BY <1>4
      <4>3. Epoch(u) \in Nat /\ d.epoch \in Nat
        BY <1>1, <1>2, <3>1, EpochType
      <4>4. e >= Epoch(u)
        BY <1>1, <3>2, <4>1, <4>3
      <4>5. QED BY <2>2, <4>1, <4>2, <4>4
    <3>4. CASE d \notin place
      <4>1. d \in new.duties
        BY <1>4, <3>4
      <4>2. QED BY <1>6, <2>2, <3>1, <3>2, <4>1
    <3>5. QED BY <3>3, <3>4
  <2>3. QED BY <2>1, <2>2
<1>13. ASSUME dutyLimit < Unlimited, NEW u \in ds
       PROVE  Cardinality(EpochSlots(ds, Epoch(u))) =< dutyLimit
  <2>1. CASE Epoch(u) = e
    <3>1. ~(n + 1 > dutyLimit)
      BY <1>13 DEF n, e
    <3>2. QED BY <1>1, <1>7, <2>1, <3>1, DutyLimitType
  <2>2. CASE Epoch(u) # e
    <3>1. u \in cs
      BY <2>2 DEF e
    <3>2. QED BY <1>2, <1>6, <1>13, <2>2, <3>1
  <2>3. QED BY <2>1, <2>2
<1>14. DutyOK(new, ds)
  BY <1>5, <1>8, <1>9, <1>10, <1>11, <1>12, <1>13 DEF DutyOK, k
<1>15. QED BY <1>14 DEF new

\* ... or for a slot that its state has a record of.
LEMMA KnownDutyKept ==
  ASSUME StateOK, NEW os \in OperatorState, NEW cs, DutyOK(os, cs), NEW s \in Nat,
         NEW rec \in SignerRecord, rec.slot = s, SignerStateForSlot(os, s).round # 0
  PROVE  DutyOK(SetSignerStateForSlot(os, s, rec), cs \cup {s})
<1> DEFINE new == SetSignerStateForSlot(os, s, rec)
<1>1. /\ SignerStateForSlot(os, s) \in os.signers
      /\ SignerStateForSlot(os, s).slot = s
      /\ SignerStateForSlot(os, s) \in SignerRecord
  BY FoundRecord, NoRecord
<1>2. s \in cs
  BY <1>1 DEF DutyOK
<1>3. cs \cup {s} = cs
  BY <1>2
<1>4. SignerStateForSlot(os, s).round > 0 /\ os.maxSlot \in Nat
  BY <1>1 DEF SignerRecord, OperatorState
<1>5. /\ new.duties = os.duties /\ new.maxSlot >= os.maxSlot /\ new.maxSlot \in Nat
      /\ new.signers \subseteq os.signers \cup {rec}
  BY <1>4 DEF SetSignerStateForSlot
<1> HIDE DEF new
<1>6. \A u \in cs : u =< new.maxSlot
  <2>1. cs \in SUBSET Nat /\ \A u \in cs : u =< os.maxSlot
    BY DEF DutyOK
  <2>2. QED BY <1>4, <1>5, <2>1
<1>7. DutyOK(new, cs)
  BY <1>2, <1>5, <1>6 DEF DutyOK
<1>8. QED BY <1>3, <1>7 DEF new

LEMMA NoDuties ==
  ASSUME StateOK
  PROVE  DutyOK(NewOperatorState, {})
BY FS_EmptySet DEF DutyOK, NewOperatorState

\* The entry as it is read, and the slots accepted since it was made.
LEMMA ValidatorStateDuties ==
  ASSUME DutyInv, role # "proposer"
  PROVE  \A o \in Operators : DutyOK(ValidatorState[o], Forget(counted[o]))
<1>1. StateOK /\ \A o \in Operators : DutyOK(operators[o], counted[o])
  BY DEF DutyInv
<1>2. CASE Expired
  <2>1. \A o \in Operators : ValidatorState[o] = NewOperatorState /\ Forget(counted[o]) = {}
    BY <1>2 DEF ValidatorState, Forget
  <2>2. QED BY <1>1, <2>1, NoDuties
<1>3. CASE ~Expired
  <2>1. \A o \in Operators : ValidatorState[o] = operators[o] /\ Forget(counted[o]) = counted[o]
    BY <1>3 DEF ValidatorState, Forget
  <2>2. QED BY <1>1, <2>1
<1>4. QED BY <1>2, <1>3

\* The types hold on their own.
LEMMA StateKept == StateOK /\ [Next]_vars => StateOK'
<1> SUFFICES ASSUME StateOK, [Next]_vars PROVE StateOK'
  OBVIOUS
<1>1. CASE UNCHANGED vars
  BY <1>1 DEF vars, StateOK
<1>2. CASE Tick
  <2>1. time' \in Nat
    BY <1>2, ValidationAssumption DEF Tick
  <2>2. QED BY <1>2, <2>1 DEF Tick, StateOK
<1>3. ASSUME NEW m \in RoleMessages[role], NEW p \in Peers, Accept(m, p)
      PROVE  StateOK'
  <2> DEFINE st == ValidatorState
  <2>1. st \in [Operators -> OperatorState] /\ m.slot \in Nat
    BY ValidatorStateType, MessageFacts
  <2>2. operators' = Updated(st, m, p) /\ touched' = time /\ UNCHANGED <<role, time>>
    BY <1>3 DEF Accept, Touch
  <2> HIDE DEF st
  <2>3. ASSUME NEW o \in Operators
        PROVE  SetSignerStateForSlot(st[o], m.slot,
                 Recorded(SignerStateForSlot(st[o], m.slot), m, p)) \in OperatorState
    <3>1. st[o] \in OperatorState
      BY <2>1
    <3>2. Recorded(SignerStateForSlot(st[o], m.slot), m, p) \in SignerRecord
      BY <3>1, RecordedFields
    <3>3. QED BY <2>1, <3>1, <3>2, SetSignerStateType
  <2>4. operators' \in [Operators -> OperatorState]
    BY <2>1, <2>2, <2>3 DEF Updated
  <2>5. QED BY <2>2, <2>4 DEF StateOK
<1>4. ASSUME NEW m, NEW p, NEW outcome, Drop(m, p, outcome)
      PROVE  StateOK'
  BY <1>4, ValidatorStateType DEF Drop, Touch, StateOK
<1>5. QED BY <1>1, <1>2, <1>3, <1>4 DEF Next, Validate, RejectMalformed

\* DutyOK speaks of the time only in that no slot is early.
LEMMA DutiesLater ==
  ASSUME NEW o \in Operators, StateOK, StateOK', DutyOK(operators'[o], counted'[o]),
         role' = role, time' >= time
  PROVE  DutyOK(operators[o], counted[o])'
<1>1. ASSUME NEW u \in Nat, ~IsEarly(u)
      PROVE  ~IsEarly(u)'
  <2>1. FirstTaken(u) \in Nat /\ SlotDuration \in Nat /\ time \in Nat /\ time' \in Nat
    BY TakenTypes, ValidationAssumption DEF StateOK
  <2>2. FirstTaken(u) * SlotDuration \in Int
    BY <2>1
  <2>3. ExpectedFrom(u) = FirstTaken(u) * SlotDuration
    BY DEF ExpectedFrom, FirstTaken, SlotStartTime
  <2>4. ExpectedFrom(u)' = ExpectedFrom(u)
    BY DEF ExpectedFrom
  <2>5. QED BY <1>1, <2>1, <2>2, <2>3, <2>4 DEF IsEarly, earlyMessageMargin
<1>2. storedEpochCount' = storedEpochCount /\ dutyLimit' = dutyLimit
  BY DEF storedEpochCount, dutyLimit, committeeRole
<1>3. QED BY <1>1, <1>2 DEF DutyOK

LEMMA DutyInitially == Init => DutyInv
<1> SUFFICES ASSUME Init PROVE DutyInv
  OBVIOUS
<1>1. StateOK
  BY PunishInitially DEF PunishInv
<1>2. \A o \in Operators : operators[o] = NewOperatorState /\ counted[o] = {}
  BY DEF Init
<1>3. counted \in [Operators -> SUBSET Nat]
  BY DEF Init
<1>4. QED BY <1>1, <1>2, <1>3, NoDuties DEF DutyInv

LEMMA AcceptKeepsDuties ==
  ASSUME SlotsOutlastMargins, DutyInv, StateOK', role # "proposer",
         NEW m \in RoleMessages[role], NEW p \in Peers, NEW hasDuty \in BOOLEAN,
         FirstOf(StateRules(m, p, hasDuty, ValidatorState)) = "accept",
         Accept(m, p), NEW o \in Operators
  PROVE  DutyOK(operators'[o], counted'[o])
<1> DEFINE st  == ValidatorState
           os  == st[o]
           cs  == Forget(counted[o])
           rec == Recorded(SignerStateForSlot(os, m.slot), m, p)
<1>1. StateOK
  BY DEF DutyInv
<1>2. os \in OperatorState
  BY <1>1, ValidatorStateType
<1>3. DutyOK(os, cs)
  BY ValidatorStateDuties
<1>4. operators' = Updated(st, m, p)
  BY DEF Accept, Touch
<1>5. counted'[o] = cs \cup (IF o \in m.signers THEN {m.slot} ELSE {})
  BY DEF Accept
<1>6. CASE o \notin m.signers
  <2>1. operators'[o] = os
    BY <1>4, <1>6 DEF Updated
  <2>2. counted'[o] = cs
    BY <1>5, <1>6
  <2>3. QED BY <1>3, <2>1, <2>2
<1>7. CASE o \in m.signers
  <2>1. operators'[o] = SetSignerStateForSlot(os, m.slot, rec)
    BY <1>4, <1>7 DEF Updated
  <2>2. counted'[o] = cs \cup {m.slot}
    BY <1>5, <1>7
  <2>3. m.slot \in Nat
    BY <1>1, MessageFacts
  <2>4. rec \in SignerRecord /\ rec.slot = m.slot
    <3> HIDE DEF os
    <3>1. QED BY <1>1, <1>2, RecordedFields
  <2>5. /\ monotonicSlotRole => ~(os.maxSlot > m.slot)
        /\ ~IsEarly(m.slot) /\ ~IsLate(m.slot)
        /\ ~(dutyLimit < Unlimited /\ DutyCount(os, Epoch(m.slot))
               + (IF SignerStateForSlot(os, m.slot).round = 0 THEN 1 ELSE 0) > dutyLimit)
    BY <1>7, AcceptedTimely
  <2> HIDE DEF os, cs, rec
  <2>6. DutyOK(SetSignerStateForSlot(os, m.slot, rec), cs \cup {m.slot})
    <3>1. CASE SignerStateForSlot(os, m.slot).round = 0
      <4>1. ~(dutyLimit < Unlimited /\ DutyCount(os, Epoch(m.slot)) + 1 > dutyLimit)
        BY <2>5, <3>1
      <4>2. QED BY <1>1, <1>2, <1>3, <2>3, <2>4, <2>5, <3>1, <4>1, NewDutyCounted
    <3>2. CASE SignerStateForSlot(os, m.slot).round # 0
      BY <1>1, <1>2, <1>3, <2>3, <2>4, <3>2, KnownDutyKept
    <3>3. QED BY <3>1, <3>2
  <2>7. QED BY <2>1, <2>2, <2>6
<1>8. QED BY <1>6, <1>7

LEMMA DutyKept == SlotsOutlastMargins /\ DutyInv /\ [Next]_vars => DutyInv'
<1> SUFFICES ASSUME SlotsOutlastMargins, DutyInv, [Next]_vars PROVE DutyInv'
  OBVIOUS
<1>1. StateOK /\ StateOK'
  BY StateKept DEF DutyInv
<1>2. CASE UNCHANGED <<role, time, operators, counted>>
  <2>1. ASSUME role # "proposer", NEW o \in Operators
        PROVE  DutyOK(operators[o], counted[o])'
    <3>1. DutyOK(operators'[o], counted'[o])
      BY <1>2, <2>1 DEF DutyInv
    <3>2. role' = role /\ time' >= time
      BY <1>1, <1>2 DEF StateOK
    <3>3. QED BY <1>1, <3>1, <3>2, DutiesLater
  <2>2. QED BY <1>1, <1>2, <2>1 DEF DutyInv
<1>3. CASE Tick
  <2>1. /\ role' = role /\ operators' = operators /\ counted' = counted /\ time' >= time
    BY <1>1, <1>3 DEF Tick, historyVars, StateOK
  <2>2. ASSUME role # "proposer", NEW o \in Operators
        PROVE  DutyOK(operators[o], counted[o])'
    <3>1. DutyOK(operators'[o], counted'[o])
      BY <2>1, <2>2 DEF DutyInv
    <3>2. QED BY <1>1, <2>1, <3>1, DutiesLater
  <2>3. QED BY <1>1, <2>1, <2>2 DEF DutyInv
<1>4. \A o \in Operators : Forget(counted[o]) \in SUBSET Nat
  BY DEF DutyInv, Forget
<1>5. ASSUME NEW m \in RoleMessages[role], NEW p \in Peers, NEW hasDuty \in BOOLEAN,
             FirstOf(StateRules(m, p, hasDuty, ValidatorState)) = "accept", Accept(m, p)
      PROVE  DutyInv'
  <2>1. role' = role /\ time' = time
    BY <1>5 DEF Accept
  <2>2. counted' \in [Operators -> SUBSET Nat]
    <3>1. m.slot \in Nat
      BY <1>1, MessageFacts
    <3>2. counted' = [o \in Operators |->
                        Forget(counted[o]) \cup (IF o \in m.signers THEN {m.slot} ELSE {})]
      BY <1>5 DEF Accept
    <3>3. QED BY <1>4, <3>1, <3>2
  <2>3. ASSUME role # "proposer", NEW o \in Operators
        PROVE  DutyOK(operators[o], counted[o])'
    <3>1. DutyOK(operators'[o], counted'[o])
      BY <1>1, <1>5, <2>3, AcceptKeepsDuties
    <3>2. time' >= time
      BY <1>1, <2>1 DEF StateOK
    <3>3. QED BY <1>1, <2>1, <3>1, <3>2, DutiesLater
  <2>4. QED BY <1>1, <2>1, <2>2, <2>3 DEF DutyInv
<1>6. ASSUME NEW m \in RoleMessages[role], NEW p \in Peers, NEW outcome, Drop(m, p, outcome)
      PROVE  DutyInv'
  <2>1. /\ role' = role /\ time' = time /\ operators' = ValidatorState
        /\ counted' = [o \in Operators |-> Forget(counted[o])]
    BY <1>6 DEF Drop, Touch
  <2>2. counted' \in [Operators -> SUBSET Nat]
    BY <1>4, <2>1
  <2>3. ASSUME role # "proposer", NEW o \in Operators
        PROVE  DutyOK(operators[o], counted[o])'
    <3>1. DutyOK(operators'[o], counted'[o])
      BY <2>1, <2>3, ValidatorStateDuties
    <3>2. time' >= time
      BY <1>1, <2>1 DEF StateOK
    <3>3. QED BY <1>1, <2>1, <3>1, <3>2, DutiesLater
  <2>4. QED BY <1>1, <2>1, <2>2, <2>3 DEF DutyInv
<1>7. ASSUME NEW m \in RoleMessages[role], NEW p \in Peers, NEW hasDuty \in DutyAnswers,
             Validate(m, p, hasDuty)
      PROVE  DutyInv'
  <2>1. hasDuty \in BOOLEAN
    BY DEF DutyAnswers
  <2>2. QED BY <1>5, <1>6, <1>7, <2>1 DEF Validate
<1>8. ASSUME NEW m \in RoleMessages[role], NEW p \in Peers, RejectMalformed(m, p)
      PROVE  DutyInv'
  BY <1>2, <1>8 DEF RejectMalformed, vars, historyVars
<1>9. CASE UNCHANGED vars
  BY <1>2, <1>9 DEF vars, historyVars
<1>10. QED BY <1>3, <1>7, <1>8, <1>9 DEF Next

\* In every role, for every size of epoch and whatever the order in which
\* slots and epochs arrive, no signer has messages for more slots of an epoch
\* accepted than it may have duties in it (dutyLimit): an epoch loses its
\* place in the ring of counts only to one that does not meet it in time.
THEOREM DutiesAreLimited ==
  ASSUME SlotsOutlastMargins
  PROVE  Spec => []DutyLimitHolds
<1>1. DutyInv /\ [Next]_vars => DutyInv'
  BY DutyKept
<1>2. DutyInv => DutyLimitHolds
  <2> SUFFICES ASSUME DutyInv, dutyLimit < Unlimited, NEW o \in Operators, NEW s \in counted[o]
               PROVE  Cardinality({u \in counted[o] : Epoch(u) = Epoch(s)}) =< dutyLimit
    BY DEF DutyLimitHolds
  <2>1. role # "proposer"
    <3>1. SlotsPerEpoch \in Nat
      BY ValidationAssumption
    <3>2. role = "proposer" => dutyLimit = Unlimited
      BY DEF dutyLimit, committeeRole
    <3>3. QED BY <3>1, <3>2 DEF Unlimited
  <2>2. DutyOK(operators[o], counted[o])
    BY <2>1 DEF DutyInv
  <2>3. QED BY <2>2 DEF DutyOK, EpochSlots
<1>3. QED BY <1>1, <1>2, DutyInitially, PTL DEF Spec

-----------------------------------------------------------------------------
(* Messages are accepted once.                                             *)

TakenBy(s, t) == FirstTaken(s) * SlotDuration - t =< 1

\* The ring of records: one at a place, each made when its slot was no longer
\* early.
RingOK ==
  /\ touched =< time
  /\ \A o \in Operators : \A rec \in operators[o].signers :
       /\ TakenBy(rec.slot, touched)
       /\ \A r \in operators[o].signers :
            rec.slot % storedSlotCount = r.slot % storedSlotCount => rec = r

Excused(l) == role = "registration" \/ (committeeRole /\ Seam(l[2], l[3]))
Lapsed(lp, o, s) == \E l \in lp : l[1] = o /\ l[2] = s

LEMMA RingSizes ==
  /\ storedSlotCount \in Nat \ {0}
  /\ role = "preferences" => storedSlotCount = 2 * SlotsPerEpoch + 3
                              /\ stateTTL = SlotDuration * (2 * SlotsPerEpoch + 4)
  /\ role # "preferences" => /\ storedSlotCount = SlotsPerEpoch + 2
                             /\ stateTTL = SlotDuration * (SlotsPerEpoch + 2)
<1>1. SlotsPerEpoch \in Nat
  BY ValidationAssumption
<1>2. maxStoredSlots = SlotsPerEpoch + 2
  BY DEF maxStoredSlots, LateSlotAllowance
<1>3. CASE role = "preferences"
  <2>1. storedSlotCount = 2 * SlotsPerEpoch + 3
    BY <1>1, <1>3 DEF storedSlotCount, proposerPreferencesEarlyEpochs, LateSlotAllowance
  <2>2. stateTTL = SlotDuration * (storedSlotCount + 1)
    BY <1>3 DEF stateTTL
  <2>3. storedSlotCount + 1 = 2 * SlotsPerEpoch + 4
    BY <1>1, <2>1
  <2>4. QED BY <1>1, <1>3, <2>1, <2>2, <2>3
<1>4. CASE role # "preferences"
  BY <1>1, <1>2, <1>4 DEF storedSlotCount, stateTTL
<1>5. QED BY <1>3, <1>4

LEMMA TimelyForms ==
  ASSUME StateOK, NEW s \in Nat
  PROVE  /\ IsEarly(s) <=> ~TakenBy(s, time)
         /\ ~IsLate(s) /\ role # "registration" => time =< LastTaken(s) * SlotDuration + 3
         /\ FirstTaken(s) * SlotDuration \in Int /\ LastTaken(s) * SlotDuration \in Int
<1>1. SlotDuration \in Nat /\ time \in Nat /\ FirstTaken(s) \in Nat /\ LastTaken(s) \in Nat
  BY ValidationAssumption, TakenTypes DEF StateOK
<1>2. FirstTaken(s) * SlotDuration \in Int /\ LastTaken(s) * SlotDuration \in Int
  BY <1>1
<1>3. QED BY <1>1, <1>2, TakenTimes DEF TakenBy

\* In the roles other than the committee's a slot is not taken any more when
\* another one of its place is.
LEMMA SlotsDoNotMeet ==
  ASSUME SlotsOutlastMargins, StateOK, NEW s \in Nat, NEW u \in Nat, s + storedSlotCount =< u,
         role \in {"proposer", "preferences"}, TakenBy(u, time), ~IsLate(s)
  PROVE  FALSE
<1>1. SlotsPerEpoch \in Nat /\ SlotsPerEpoch >= 2 /\ time \in Int
  BY ValidationAssumption DEF SlotsOutlastMargins, StateOK
<1> DEFINE a == FirstTaken(u)  b == LastTaken(s)
<1>2. a \in Nat /\ b \in Nat
  BY TakenTypes
<1>3. a * SlotDuration - time =< 1 /\ time =< b * SlotDuration + 3
  BY TimelyForms DEF TakenBy
<1>4. a > b
  <2>1. CASE role = "proposer"
    BY <1>1, <2>1, TakenTypes, RingSizes
  <2>2. CASE role = "preferences"
    <3> DEFINE eu == SlotsPerEpoch * Epoch(u)
    <3>1. a >= eu - SlotsPerEpoch /\ b = s + 2 /\ u < eu + SlotsPerEpoch /\ eu \in Int
      BY <1>1, <2>2, TakenTypes, EpochBounds
    <3>2. s + 2 * SlotsPerEpoch + 3 =< u
      BY <1>1, <2>2, RingSizes
    <3> HIDE DEF eu, a, b
    <3>3. QED BY <1>1, <1>2, <3>1, <3>2
  <2>3. QED BY <2>1, <2>2
<1> HIDE DEF a, b
<1>5. a =< b
  BY <1>1, <1>2, <1>3, MarginsApart
<1>6. QED BY <1>2, <1>4, <1>5

\* ... and in the committee's only at the seams.
LEMMA SlotsMeetAtSeams ==
  ASSUME StateOK, committeeRole, NEW s \in Nat, NEW u \in Nat,
         s + storedSlotCount =< u, TakenBy(u, time), ~IsLate(s)
  PROVE  Seam(s, time) /\ Seam(u, time)
<1>1. SlotsPerEpoch \in Nat /\ SlotDuration \in Nat /\ time \in Nat
  BY ValidationAssumption DEF StateOK
<1> DEFINE v == s + SlotsPerEpoch + 2
<1>2. role # "preferences" /\ role # "registration"
  BY DEF committeeRole
<1>3. v \in Nat /\ v =< u /\ FirstTaken(u) = u /\ LastTaken(s) = v
  BY <1>1, <1>2, RingSizes, TakenTypes
<1>4. u * SlotDuration - time =< 1 /\ time =< v * SlotDuration + 3
  BY <1>2, <1>3, TimelyForms DEF TakenBy
<1>5. s + maxStoredSlots = v
  BY <1>1 DEF maxStoredSlots, LateSlotAllowance
<1> HIDE DEF v
<1>6. u * SlotDuration >= v * SlotDuration /\ u * SlotDuration \in Int /\ v * SlotDuration \in Int
  <2>1. SlotDuration * u >= SlotDuration * v + SlotDuration * 0
    BY <1>1, <1>3, Multiples
  <2>2. QED BY <1>1, <1>3, <2>1
<1>7. /\ time \in (v * SlotDuration - 1) .. (v * SlotDuration + 3)
      /\ time \in (u * SlotDuration - 1) .. (u * SlotDuration + 3)
  BY <1>1, <1>4, <1>6
<1>8. Seam(s, time)
  BY <1>5, <1>7 DEF Seam, SlotStartTime, earlyMessageMargin, lateMessageMargin
<1>9. Seam(u, time)
  BY <1>7 DEF Seam, SlotStartTime, earlyMessageMargin, lateMessageMargin
<1>10. QED BY <1>8, <1>9

\* An entry expires when its slots are late, but for the committee's seam.
LEMMA ExpiryIsExcused ==
  ASSUME SlotsOutlastMargins, StateOK, Expired, NEW s \in Nat, TakenBy(s, touched), ~IsLate(s)
  PROVE  role = "registration" \/ (committeeRole /\ Seam(s, time))
<1>1. /\ SlotsPerEpoch \in Nat /\ SlotsPerEpoch >= 2 /\ SlotDuration \in Nat
      /\ time \in Nat /\ touched \in Nat /\ role \in Roles
  BY ValidationAssumption DEF SlotsOutlastMargins, StateOK
<1> DEFINE N == IF role = "preferences" THEN 2 * SlotsPerEpoch + 4 ELSE SlotsPerEpoch + 2
           f == FirstTaken(s)  b == LastTaken(s)
<1>2. time - touched > SlotDuration * N /\ N \in Nat
  BY <1>1, RingSizes DEF Expired
<1>3. f \in Nat /\ b \in Nat /\ f * SlotDuration - touched =< 1
  BY TakenTypes DEF TakenBy
<1>4. (f + N) * SlotDuration - time =< 1
  <2> HIDE DEF N, f
  <2>1. (f + N) * SlotDuration = f * SlotDuration + SlotDuration * N
    BY <1>1, <1>2, <1>3
  <2>2. f * SlotDuration \in Int /\ SlotDuration * N \in Int
    BY <1>1, <1>2, <1>3
  <2>3. QED BY <1>1, <1>2, <1>3, <2>1, <2>2
<1>5. CASE role = "registration"
  BY <1>5
<1>6. CASE role = "committee"
  <2>1. f = s /\ N = SlotsPerEpoch + 2 /\ b = s + SlotsPerEpoch + 2
    BY <1>6, TakenTypes DEF committeeRole
  <2>2. time =< b * SlotDuration + 3 /\ b * SlotDuration \in Int
    BY <1>6, TimelyForms
  <2>3. f + N = b /\ s + maxStoredSlots = b
    BY <1>1, <2>1 DEF maxStoredSlots, LateSlotAllowance
  <2> HIDE DEF N, f, b
  <2>4. time \in (b * SlotDuration - 1) .. (b * SlotDuration + 3)
    BY <1>1, <1>4, <2>2, <2>3
  <2>5. QED BY <1>6, <2>3, <2>4
            DEF Seam, SlotStartTime, earlyMessageMargin, lateMessageMargin, committeeRole
<1>7. CASE role \in {"proposer", "preferences"}
  <2>1. time =< b * SlotDuration + 3
    BY <1>7, TimelyForms
  <2>2. f + N > b
    <3>1. CASE role = "proposer"
      BY <1>1, <3>1, TakenTypes
    <3>2. CASE role = "preferences"
      <4> DEFINE es == SlotsPerEpoch * Epoch(s)
      <4>1. f >= es - SlotsPerEpoch /\ b = s + 2 /\ s < es + SlotsPerEpoch /\ es \in Int
        BY <1>1, <3>2, TakenTypes, EpochBounds
      <4>2. N = 2 * SlotsPerEpoch + 4
        BY <3>2
      <4> HIDE DEF es, f, b, N
      <4>3. QED BY <1>1, <1>3, <4>1, <4>2
    <3>3. QED BY <1>7, <3>1, <3>2
  <2> DEFINE a == f + N
  <2>3. /\ a \in Int /\ b \in Int /\ time \in Int
        /\ a * SlotDuration - time =< 1 /\ time =< b * SlotDuration + 3
    BY <1>1, <1>2, <1>3, <1>4, <2>1
  <2> HIDE DEF f, b, N, a
  <2>4. a =< b
    BY <2>3, MarginsApart
  <2>5. QED BY <1>2, <1>3, <2>2, <2>4 DEF a
<1>8. QED BY <1>1, <1>5, <1>6, <1>7 DEF Roles

\* The ring of a signer after its message is recorded.
LEMMA RingAfter ==
  ASSUME NEW os \in OperatorState, NEW s \in Nat, NEW rec \in SignerRecord, rec.slot = s
  PROVE  LET new == SetSignerStateForSlot(os, s, rec)
         IN  /\ new.signers = {r \in os.signers : r.slot % storedSlotCount # s % storedSlotCount}
                                \cup {rec}
             /\ SignerStateForSlot(new, s) = rec
<1> DEFINE new == SetSignerStateForSlot(os, s, rec)
           others == {r \in os.signers : r.slot % storedSlotCount # s % storedSlotCount}
<1>1. new.signers = others \cup {rec}
  BY DEF SetSignerStateForSlot
<1> HIDE DEF new
<1>2. {r \in new.signers : r.slot = s} = {rec}
  BY <1>1
<1>3. SignerStateForSlot(new, s) = rec
  BY <1>2 DEF SignerStateForSlot
<1>4. QED BY <1>1, <1>3 DEF new

\* A slot that is taken now was not early when the entry was last touched.
LEMMA TakenLater ==
  ASSUME StateOK, touched =< time, NEW s \in Nat, TakenBy(s, touched)
  PROVE  TakenBy(s, time) /\ ~IsEarly(s)
<1>1. time \in Nat /\ touched \in Nat
  BY DEF StateOK
<1>2. FirstTaken(s) * SlotDuration \in Int
  BY TimelyForms
<1>3. TakenBy(s, time)
  BY <1>1, <1>2 DEF TakenBy
<1>4. QED BY <1>3, TimelyForms

\* A record that is not there any more is one of the lapses, or late.
LEMMA LostIsLapsed ==
  ASSUME StateOK, RingOK, NEW new, NEW o \in Operators, NEW rec \in operators[o].signers,
         lapses' = IF new = operators /\ ~Expired THEN lapses ELSE lapses \cup Lost(new),
         ~IsLate(rec.slot), Expired \/ <<o, rec.slot>> \notin Recordings(new)
  PROVE  Lapsed(lapses', o, rec.slot)
<1>1. <<o, rec.slot>> \in Recordings(operators)
  BY DEF Recordings
<1>2. rec.slot \in Nat
  BY DEF StateOK, OperatorState, SignerRecord
<1>3. ~IsEarly(rec.slot)
  BY <1>2, TakenLater DEF RingOK
<1>4. lapses' = lapses \cup Lost(new)
  BY <1>1
<1>5. <<o, rec.slot, time>> \in Lost(new)
  <2> DEFINE kept == IF Expired THEN {} ELSE Recordings(new)
             gone == {r \in Recordings(operators) \ kept : ~IsEarly(r[2]) /\ ~IsLate(r[2])}
  <2>1. <<o, rec.slot>> \in gone
    BY <1>1, <1>3
  <2>2. Lost(new) = {<<r[1], r[2], time>> : r \in gone}
    BY DEF Lost
  <2> HIDE DEF gone
  <2>3. QED BY <2>1, <2>2
<1>6. QED BY <1>4, <1>5 DEF Lapsed

LEMMA LostForms ==
  ASSUME NEW new, NEW l \in Lost(new)
  PROVE  \E o \in Operators : \E rec \in operators[o].signers :
           /\ l = <<o, rec.slot, time>>
           /\ ~IsLate(rec.slot) /\ (Expired \/ <<o, rec.slot>> \notin Recordings(new))
<1> DEFINE kept == IF Expired THEN {} ELSE Recordings(new)
           gone == {r \in Recordings(operators) \ kept : ~IsEarly(r[2]) /\ ~IsLate(r[2])}
<1>1. Lost(new) = {<<r[1], r[2], time>> : r \in gone}
  BY DEF Lost
<1>2. PICK r \in gone : l = <<r[1], r[2], time>>
  BY <1>1
<1>3. r \in Recordings(operators) /\ r \notin kept /\ ~IsLate(r[2])
  OBVIOUS
<1>4. PICK o \in Operators : r \in {<<o, rec.slot>> : rec \in operators[o].signers}
  BY <1>3 DEF Recordings
<1>5. PICK rec \in operators[o].signers : r = <<o, rec.slot>>
  BY <1>4
<1>6. QED BY <1>2, <1>3, <1>5

\* What is lost when a message is accepted is excused.
LEMMA AcceptLosses ==
  ASSUME SlotsOutlastMargins, StateOK, RingOK, NEW m \in RoleMessages[role], NEW p \in Peers,
         ~IsEarly(m.slot), ~IsLate(m.slot), NEW l \in Lost(Updated(ValidatorState, m, p))
  PROVE  Excused(l)
<1> DEFINE new == Updated(ValidatorState, m, p)
<1>1. PICK o \in Operators : \E rec \in operators[o].signers :
        /\ l = <<o, rec.slot, time>>
        /\ ~IsLate(rec.slot) /\ (Expired \/ <<o, rec.slot>> \notin Recordings(new))
  BY LostForms
<1>2. PICK rec \in operators[o].signers :
        /\ l = <<o, rec.slot, time>>
        /\ ~IsLate(rec.slot) /\ (Expired \/ <<o, rec.slot>> \notin Recordings(new))
  BY <1>1
<1>3. rec \in SignerRecord /\ rec.slot \in Nat /\ operators[o] \in OperatorState
  BY DEF StateOK, OperatorState, SignerRecord
<1>4. TakenBy(rec.slot, touched) /\ TakenBy(rec.slot, time)
  BY <1>3, TakenLater DEF RingOK
<1>5. CASE Expired
  BY <1>2, <1>3, <1>4, <1>5, ExpiryIsExcused DEF Excused
<1>6. CASE ~Expired
  <2>1. ValidatorState = operators
    BY <1>6 DEF ValidatorState
  <2>2. <<o, rec.slot>> \notin Recordings(new)
    BY <1>2, <1>6
  <2>3. \A r \in new[o].signers : r.slot # rec.slot
    <3> HIDE DEF new
    <3>1. QED BY <2>2 DEF Recordings
  <2>4. o \in m.signers
    <3> SUFFICES ASSUME o \notin m.signers PROVE FALSE
      OBVIOUS
    <3>1. new[o] = operators[o]
      BY <2>1 DEF Updated
    <3>2. QED BY <2>3, <3>1
  <2> DEFINE rec2 == Recorded(SignerStateForSlot(operators[o], m.slot), m, p)
  <2>5. new[o] = SetSignerStateForSlot(operators[o], m.slot, rec2)
    BY <2>1, <2>4 DEF Updated
  <2>6. rec2 \in SignerRecord /\ rec2.slot = m.slot /\ m.slot \in Nat
    BY <1>3, RecordedFields, MessageFacts
  <2> HIDE DEF new, rec2
  <2>7. new[o].signers = {r \in operators[o].signers :
                            r.slot % storedSlotCount # m.slot % storedSlotCount} \cup {rec2}
    BY <1>3, <2>5, <2>6, RingAfter
  <2>8. rec.slot # m.slot /\ rec.slot % storedSlotCount = m.slot % storedSlotCount
    BY <2>3, <2>6, <2>7
  <2>9. TakenBy(m.slot, time)
    BY <2>6, TimelyForms
  <2>10. storedSlotCount \in Nat \ {0} /\ role \in Roles
    BY RingSizes DEF StateOK
  <2>11. \/ rec.slot + storedSlotCount =< m.slot
         \/ m.slot + storedSlotCount =< rec.slot
    <3> DEFINE a == rec.slot  b == m.slot  n == storedSlotCount
    <3>1. a \in Nat /\ b \in Nat /\ n \in Nat \ {0} /\ a # b /\ a % n = b % n
      BY <1>3, <2>6, <2>8, <2>10
    <3> HIDE DEF a, b, n
    <3>2. a < b \/ b < a
      BY <3>1
    <3>3. a + n =< b \/ b + n =< a
      BY <3>1, <3>2, SamePlace
    <3>4. QED BY <3>3 DEF a, b, n
  <2>12. CASE role = "registration"
    BY <2>12 DEF Excused
  <2>13. CASE role = "committee"
    <3>1. committeeRole
      BY <2>13 DEF committeeRole
    <3>2. Seam(rec.slot, time)
      BY <1>2, <1>3, <1>4, <2>6, <2>9, <2>11, <3>1, SlotsMeetAtSeams
    <3>3. l[2] = rec.slot /\ l[3] = time
      BY <1>2
    <3>4. QED BY <3>1, <3>2, <3>3 DEF Excused
  <2>14. CASE role \in {"proposer", "preferences"}
    BY <1>2, <1>3, <1>4, <2>6, <2>9, <2>11, <2>14, SlotsDoNotMeet
  <2>15. QED BY <2>10, <2>12, <2>13, <2>14 DEF Roles
<1>7. QED BY <1>5, <1>6

Key == Operators \X Nat \X Nat \X Kinds \X Nat \X {m.roots : m \in Message}

\* A record stops what an accepted key stands for from being accepted again.
Covers(rec, k) ==
  IF k[4] = "preferences" THEN k[6] \subseteq rec.roots
  ELSE IF k[5] > 1 THEN k[5] =< rec.World.decided ELSE k[4] \in rec.World.seen
Holds(rec, k) == rec.slot = k[2] /\ (rec.round > k[3] \/ (rec.round = k[3] /\ Covers(rec, k)))

\* What was accepted is on record, or its record is one of the lapses, or its
\* slot is over.
Known(st, lp, k) ==
  \/ Lapsed(lp, k[1], k[2])
  \/ IsLate(k[2])
  \/ \E rec \in st[k[1]].signers : Holds(rec, k)

OnceInv ==
  /\ StateOK /\ RingOK
  /\ accepted \in SUBSET Key
  /\ \A k \in accepted : Known(operators, lapses, k)
  /\ AcceptedOnce

LEMMA KeyFields ==
  ASSUME NEW k \in Key
  PROVE  /\ k[1] \in Operators /\ k[2] \in Nat /\ k[3] \in Nat /\ k[4] \in Kinds /\ k[5] \in Nat
         /\ k = <<k[1], k[2], k[3], k[4], k[5], k[6]>>
BY DEF Key

\* A record that holds a key holds it when another message is added.
LEMMA HoldsAfter ==
  ASSUME StateOK, NEW m \in RoleMessages[role], NEW p \in Peers, NEW os \in OperatorState,
         NEW rec, rec = SignerStateForSlot(os, m.slot), rec \in os.signers,
         IsDecided(m) => ~(Cardinality(m.signers) <= rec.World.decided),
         NEW k \in Key, Holds(rec, k)
  PROVE  Holds(Recorded(rec, m, p), k)
<1> DEFINE cur == Current(rec, m)
           new == Recorded(rec, m, p)
<1>1. /\ rec \in SignerRecord /\ rec.round \in Nat \ {0} /\ rec.World.decided \in Nat
      /\ m.round \in Nat /\ m.slot \in Nat /\ Cardinality(m.signers) \in Nat
  <2>1. rec \in SignerRecord
    BY DEF OperatorState
  <2>2. rec.round \in Nat \ {0} /\ rec.World.decided \in Nat
    BY <2>1 DEF SignerRecord, Seen
  <2>3. QED BY <2>1, <2>2, MessageFacts
<1>2. /\ new.slot = m.slot /\ new.round = cur.round
  BY RecordedFields
<1>3. /\ new.World = Record(cur.World, m)
      /\ new.roots = IF m.kind = "preferences" THEN cur.roots \cup m.roots ELSE cur.roots
  BY RecordedWorld
<1>4. \/ cur = rec
      \/ cur.round = (IF m.round = 0 THEN 1 ELSE m.round) /\ m.round > rec.round
  BY <1>1, CurrentRecord
<1>5. k[3] \in Nat /\ k[5] \in Nat
  BY KeyFields
<1>6. rec.slot = m.slot
  BY <1>1, FoundRecord, NoRecord
<1> HIDE DEF cur, new
<1>7. new.slot = k[2]
  BY <1>2, <1>6 DEF Holds
<1>8. CASE cur = rec
  <2>1. new.round = rec.round
    BY <1>2, <1>8
  <2>2. /\ rec.World.seen \subseteq new.World.seen
        /\ new.World.decided = IF IsDecided(m) THEN Cardinality(m.signers) ELSE rec.World.decided
    BY <1>3, <1>8 DEF Record
  <2>3. rec.roots \subseteq new.roots
    BY <1>3, <1>8
  <2>4. Covers(rec, k) => Covers(new, k)
    BY <1>1, <1>5, <2>2, <2>3 DEF Covers
  <2>5. QED BY <1>7, <2>1, <2>4 DEF Holds, new
<1>9. CASE cur.round = (IF m.round = 0 THEN 1 ELSE m.round) /\ m.round > rec.round
  <2>1. new.round > rec.round /\ new.round \in Nat
    BY <1>1, <1>2, <1>9
  <2>2. rec.round >= k[3]
    BY <1>1, <1>5 DEF Holds
  <2>3. new.round > k[3]
    BY <1>1, <1>5, <2>1, <2>2
  <2>4. QED BY <1>7, <2>3 DEF Holds, new
<1>10. QED BY <1>4, <1>8, <1>9

\* The keys of an accepted message, and the record that holds them.
LEMMA NewKeys ==
  ASSUME StateOK, NEW m \in RoleMessages[role], NEW p \in Peers,
         FirstOf(Semantics(m)) = "accept",
         NEW st \in [Operators -> OperatorState],
         NEW k \in Keys(Updated(st, m, p), m)
  PROVE  /\ k \in Key /\ k[1] \in m.signers
         /\ LET os  == st[k[1]]
                rec == SignerStateForSlot(os, m.slot)
                new == Recorded(rec, m, p)
            IN  /\ k = <<k[1], m.slot, Current(rec, m).round, m.kind, Cardinality(m.signers), m.roots>>
                /\ new \in Updated(st, m, p)[k[1]].signers
                /\ Holds(new, k)
<1> DEFINE up == Updated(st, m, p)
<1>1. PICK o \in m.signers :
        k = <<o, m.slot, SignerStateForSlot(up[o], m.slot).round, m.kind,
              Cardinality(m.signers), m.roots>>
  BY DEF Keys
<1> DEFINE os  == st[o]
           rec == SignerStateForSlot(os, m.slot)
           new == Recorded(rec, m, p)
           cur == Current(rec, m)
<1>2. /\ o \in Operators /\ m.slot \in Nat /\ m.kind \in Kinds /\ Cardinality(m.signers) \in Nat
      /\ m \in Message
  BY MessageFacts
<1>3. os \in OperatorState
  BY <1>2
<1>4. up[o] = SetSignerStateForSlot(os, m.slot, new)
  BY <1>2 DEF Updated
<1>5. new \in SignerRecord /\ new.slot = m.slot /\ new.round = cur.round
  <2> HIDE DEF os
  <2>1. QED BY <1>3, RecordedFields
<1>6. /\ new.World = Record(cur.World, m)
      /\ new.roots = IF m.kind = "preferences" THEN cur.roots \cup m.roots ELSE cur.roots
  <2> HIDE DEF os
  <2>1. QED BY <1>3, RecordedWorld
<1> HIDE DEF up, new, cur, os
<1>7. new \in up[o].signers /\ SignerStateForSlot(up[o], m.slot) = new
  <2>1. /\ up[o].signers = {r \in os.signers : r.slot % storedSlotCount # m.slot % storedSlotCount}
                             \cup {new}
        /\ SignerStateForSlot(up[o], m.slot) = new
    BY <1>2, <1>3, <1>4, <1>5, RingAfter
  <2>2. QED BY <2>1
<1>8. k = <<o, m.slot, cur.round, m.kind, Cardinality(m.signers), m.roots>>
  BY <1>1, <1>5, <1>7
<1>9. k[1] = o /\ k[2] = m.slot /\ k[3] = cur.round /\ k[4] = m.kind
      /\ k[5] = Cardinality(m.signers) /\ k[6] = m.roots
  BY <1>8
<1>10. k \in Key
  <2>1. cur.round \in Nat
    BY <1>5 DEF SignerRecord
  <2>2. m.roots \in {x.roots : x \in Message}
    BY <1>2
  <2>3. QED BY <1>2, <1>8, <2>1, <2>2 DEF Key
<1>11. Covers(new, k)
  <2>1. CASE m.kind = "preferences"
    BY <1>6, <1>9, <2>1 DEF Covers
  <2>2. CASE m.kind # "preferences" /\ Cardinality(m.signers) > 1
    <3>1. IsDecided(m)
      BY <2>2, WellFormed DEF IsDecided
    <3>2. new.World.decided = Cardinality(m.signers)
      BY <1>6, <3>1 DEF Record
    <3>3. QED BY <1>2, <1>9, <2>2, <3>2 DEF Covers
  <2>3. CASE m.kind # "preferences" /\ ~(Cardinality(m.signers) > 1)
    <3>1. ~IsDecided(m)
      BY <2>3 DEF IsDecided
    <3>2. m.kind \in new.World.seen
      BY <1>6, <2>3, <3>1 DEF Record
    <3>3. QED BY <1>2, <1>9, <2>3, <3>2 DEF Covers
  <2>4. QED BY <2>1, <2>2, <2>3
<1>12. Holds(new, k)
  BY <1>5, <1>9, <1>11 DEF Holds
<1>13. QED BY <1>7, <1>8, <1>9, <1>10, <1>12 DEF up, new, cur, os

\* Once a record is found it is the only one of its slot.
LEMMA FoundTheRecord ==
  ASSUME StateOK, RingOK, NEW o \in Operators, NEW rec \in operators[o].signers
  PROVE  SignerStateForSlot(operators[o], rec.slot) = rec
<1>1. {r \in operators[o].signers : r.slot = rec.slot} = {rec}
  BY DEF RingOK
<1>2. QED BY <1>1 DEF SignerStateForSlot

\* What is accepted again had its record lost.
LEMMA DuplicateLapsed ==
  ASSUME OnceInv, NEW m \in RoleMessages[role], NEW p \in Peers, NEW hasDuty \in BOOLEAN,
         FirstOf(Semantics(m)) = "accept",
         FirstOf(StateRules(m, p, hasDuty, ValidatorState)) = "accept",
         lapses' = IF Updated(ValidatorState, m, p) = operators /\ ~Expired THEN lapses
                   ELSE lapses \cup Lost(Updated(ValidatorState, m, p)),
         NEW k \in Keys(Updated(ValidatorState, m, p), m), NEW l \in Duplicates(k)
  PROVE  Lapsed(lapses', k[1], k[2])
<1> DEFINE st == ValidatorState
           os  == st[k[1]]
           rec == SignerStateForSlot(os, m.slot)
<1>1. StateOK /\ RingOK /\ st \in [Operators -> OperatorState]
  BY ValidatorStateType DEF OnceInv
<1>2. /\ k \in Key /\ k[1] \in m.signers
      /\ k = <<k[1], m.slot, Current(rec, m).round, m.kind, Cardinality(m.signers), m.roots>>
  <2> HIDE DEF st
  <2>1. QED BY <1>1, NewKeys DEF st
<1>3. /\ l \in accepted /\ SubSeq(l, 1, 5) = SubSeq(k, 1, 5)
      /\ k[4] = "preferences" => k[6] = l[6]
  BY DEF Duplicates
<1>4. l \in Key /\ Known(operators, lapses, l)
  BY <1>3 DEF OnceInv
<1>5. /\ l[1] = k[1] /\ l[2] = k[2] /\ l[3] = k[3] /\ l[4] = k[4] /\ l[5] = k[5]
  <2>1. SubSeq(<<l[1], l[2], l[3], l[4], l[5], l[6]>>, 1, 5)
          = SubSeq(<<k[1], k[2], k[3], k[4], k[5], k[6]>>, 1, 5)
    BY <1>2, <1>3, <1>4, KeyFields
  <2>2. QED BY <2>1
<1>6. /\ k[2] = m.slot /\ k[3] = Current(rec, m).round /\ k[4] = m.kind
      /\ k[5] = Cardinality(m.signers) /\ k[6] = m.roots /\ k[1] \in Operators
  <2> HIDE DEF rec
  <2>1. QED BY <1>2, KeyFields
<1>7. ~IsLate(m.slot) /\ ~IsEarly(m.slot)
  BY AcceptedTimely
<1>8. CASE Lapsed(lapses, k[1], k[2])
  BY <1>8 DEF Lapsed
<1>9. CASE \E r \in operators[k[1]].signers : Holds(r, l)
  <2>1. PICK r \in operators[k[1]].signers : Holds(r, l)
    BY <1>9
  <2>2. r.slot = m.slot
    BY <1>5, <1>6, <2>1 DEF Holds
  <2>3. CASE Expired
    BY <1>1, <1>6, <1>7, <2>2, <2>3, LostIsLapsed
  <2>4. CASE ~Expired
    <3>1. st = operators
      BY <2>4 DEF ValidatorState
    <3>2. rec = r
      BY <1>1, <1>6, <2>2, <3>1, FoundTheRecord
    <3>3. r \in SignerRecord /\ r.round \in Nat \ {0}
      BY <1>1, <1>6 DEF StateOK, OperatorState, SignerRecord
    <3>4. /\ IsDecided(m) => ~(Cardinality(m.signers) <= rec.World.decided)
          /\ IsConsensus(m) /\ ~IsDecided(m) =>
               /\ ~(m.round < rec.round)
               /\ m.round = rec.round => m.kind \notin rec.World.seen
          /\ ~IsConsensus(m) /\ m.kind # "preferences" => m.kind \notin rec.World.seen
          /\ m.kind = "preferences" => ~(rec.round > 0 /\ m.roots \subseteq rec.roots)
      BY <1>2, AcceptedNew
    <3>5. m.round \in Nat /\ Cardinality(m.signers) \in Nat
      BY <1>1, MessageFacts
    <3>6. /\ ~(Current(rec, m).round < rec.round)
          /\ IsConsensus(m) /\ ~IsDecided(m) => Current(rec, m).round = m.round
      <4>1. os \in OperatorState
        BY <1>1, <1>6
      <4>2. \/ Current(rec, m) = rec /\ ~(m.round > rec.round)
            \/ /\ Current(rec, m).round = IF m.round = 0 THEN 1 ELSE m.round
               /\ m.round > rec.round
        <5> HIDE DEF os
        <5>1. QED BY <1>1, <3>2, <3>3, <4>1, CurrentRecord
      <4>3. rec.round \in Nat \ {0}
        BY <3>2, <3>3
      <4> HIDE DEF rec
      <4>4. QED BY <3>4, <3>5, <4>2, <4>3
    <3>7. rec.round = Current(rec, m).round /\ Covers(rec, l)
      <4>1. rec.round > l[3] \/ (rec.round = l[3] /\ Covers(rec, l))
        BY <2>1, <3>2 DEF Holds
      <4>2. l[3] = Current(rec, m).round /\ l[3] \in Nat
        BY <1>4, <1>5, <1>6, KeyFields
      <4>3. rec.round \in Nat
        BY <3>2, <3>3
      <4> HIDE DEF rec
      <4>4. QED BY <3>6, <4>1, <4>2, <4>3
    <3> HIDE DEF rec
    <3>8. CASE m.kind = "preferences"
      <4>1. m.roots \subseteq rec.roots
        BY <1>3, <1>5, <1>6, <3>7, <3>8 DEF Covers
      <4>2. QED BY <3>2, <3>3, <3>4, <3>8, <4>1
    <3>9. CASE m.kind # "preferences" /\ Cardinality(m.signers) > 1
      <4>1. IsDecided(m)
        BY <1>1, <3>9, WellFormed DEF IsDecided
      <4>2. Cardinality(m.signers) =< rec.World.decided
        BY <1>5, <1>6, <3>7, <3>9 DEF Covers
      <4>3. QED BY <3>4, <4>1, <4>2
    <3>10. CASE m.kind # "preferences" /\ ~(Cardinality(m.signers) > 1)
      <4>1. ~IsDecided(m)
        BY <3>10 DEF IsDecided
      <4>2. m.kind \in rec.World.seen
        BY <1>5, <1>6, <3>7, <3>10 DEF Covers
      <4>3. QED BY <3>4, <3>6, <3>7, <3>10, <4>1, <4>2
    <3>11. QED BY <3>8, <3>9, <3>10
  <2>5. QED BY <2>3, <2>4
<1>10. QED BY <1>4, <1>5, <1>6, <1>7, <1>8, <1>9 DEF Known

\* What was on record before a message is accepted still is, or is excused.
LEMMA KnownAfterAccept ==
  ASSUME OnceInv, NEW m \in RoleMessages[role], NEW p \in Peers, NEW hasDuty \in BOOLEAN,
         FirstOf(StateRules(m, p, hasDuty, ValidatorState)) = "accept",
         lapses' = IF Updated(ValidatorState, m, p) = operators /\ ~Expired THEN lapses
                   ELSE lapses \cup Lost(Updated(ValidatorState, m, p)),
         NEW k \in accepted
  PROVE  Known(Updated(ValidatorState, m, p), lapses', k)
<1> DEFINE st == ValidatorState
           up == Updated(st, m, p)
           o == k[1]
<1>1. StateOK /\ RingOK /\ k \in Key /\ Known(operators, lapses, k)
  BY DEF OnceInv
<1>2. st \in [Operators -> OperatorState] /\ o \in Operators /\ k[2] \in Nat
  BY <1>1, ValidatorStateType, KeyFields
<1>3. CASE Lapsed(lapses, k[1], k[2])
  BY <1>3 DEF Known, Lapsed
<1>4. CASE IsLate(k[2])
  BY <1>4 DEF Known
<1>5. CASE ~IsLate(k[2]) /\ \E rec \in operators[o].signers : Holds(rec, k)
  <2>1. PICK rec \in operators[o].signers : Holds(rec, k)
    BY <1>5
  <2>2. rec.slot = k[2]
    BY <2>1 DEF Holds
  <2>3. CASE Expired \/ <<o, rec.slot>> \notin Recordings(up)
    <3>1. Lapsed(lapses', o, rec.slot)
      <4> HIDE DEF o
      <4>1. QED BY <1>1, <1>2, <1>5, <2>2, <2>3, LostIsLapsed
    <3>2. QED BY <2>2, <3>1 DEF Known
  <2>4. CASE ~Expired /\ <<o, rec.slot>> \in Recordings(up)
    <3>1. st = operators
      BY <2>4 DEF ValidatorState
    <3>2. CASE o \notin m.signers
      <4>1. up[o] = operators[o]
        BY <1>2, <3>1, <3>2 DEF Updated
      <4>2. QED BY <2>1, <4>1 DEF Known
    <3>3. CASE o \in m.signers
      <4> DEFINE new == Recorded(SignerStateForSlot(operators[o], m.slot), m, p)
      <4>1. operators[o] \in OperatorState /\ m.slot \in Nat
        BY <1>2, <3>1, <1>1, MessageFacts
      <4>2. up[o] = SetSignerStateForSlot(operators[o], m.slot, new)
        BY <1>2, <3>1, <3>3 DEF Updated
      <4>3. new \in SignerRecord /\ new.slot = m.slot
        BY <1>1, <4>1, RecordedFields
      <4>4. up[o].signers = {r \in operators[o].signers :
                               r.slot % storedSlotCount # m.slot % storedSlotCount} \cup {new}
        <5> HIDE DEF new, up
        <5>1. QED BY <4>1, <4>2, <4>3, RingAfter
      <4>5. CASE rec.slot = m.slot
        <5>1. rec = SignerStateForSlot(operators[o], m.slot)
          BY <1>1, <1>2, <4>5, FoundTheRecord
        <5>2. IsDecided(m) => ~(Cardinality(m.signers) <= rec.World.decided)
          BY <3>1, <3>3, <5>1, AcceptedNew
        <5>3. Holds(Recorded(rec, m, p), k)
          BY <1>1, <2>1, <4>1, <5>1, <5>2, HoldsAfter
        <5>4. new \in up[o].signers /\ Holds(new, k)
          BY <4>4, <5>1, <5>3
        <5> HIDE DEF new, up
        <5>5. QED BY <5>4 DEF Known, up
      <4>6. CASE rec.slot # m.slot
        <5>1. rec \in up[o].signers
          <6> HIDE DEF up, new
          <6>1. PICK r \in up[o].signers : r.slot = rec.slot
            <7> HIDE DEF o
            <7>1. QED BY <1>2, <2>4 DEF Recordings
          <6>2. r \in operators[o].signers /\ r.slot % storedSlotCount # m.slot % storedSlotCount
            BY <4>3, <4>4, <4>6, <6>1
          <6>3. QED BY <4>4, <6>1, <6>2
        <5> HIDE DEF up
        <5>2. QED BY <2>1, <5>1 DEF Known, up
      <4>7. QED BY <4>5, <4>6
    <3>4. QED BY <3>2, <3>3
  <2>5. QED BY <2>3, <2>4
<1>6. QED BY <1>1, <1>3, <1>4, <1>5 DEF Known

\* The ring as it is read, and with a record more.
RingAt(os, t) ==
  \A rec \in os.signers :
    /\ TakenBy(rec.slot, t)
    /\ \A r \in os.signers : rec.slot % storedSlotCount = r.slot % storedSlotCount => rec = r

LEMMA ValidatorRing ==
  ASSUME StateOK, RingOK, NEW o \in Operators
  PROVE  RingAt(ValidatorState[o], time)
<1>1. CASE Expired
  BY <1>1 DEF ValidatorState, NewOperatorState, RingAt
<1>2. CASE ~Expired
  <2>1. ValidatorState = operators
    BY <1>2 DEF ValidatorState
  <2>2. \A rec \in operators[o].signers : rec.slot \in Nat
    BY DEF StateOK, OperatorState, SignerRecord
  <2>3. \A rec \in operators[o].signers : TakenBy(rec.slot, time)
    BY <2>2, TakenLater DEF RingOK
  <2>4. QED BY <2>1, <2>3 DEF RingOK, RingAt
<1>3. QED BY <1>1, <1>2

LEMMA AcceptRing ==
  ASSUME StateOK, RingOK, NEW m \in RoleMessages[role], NEW p \in Peers, ~IsEarly(m.slot),
         NEW o \in Operators
  PROVE  RingAt(Updated(ValidatorState, m, p)[o], time)
<1> DEFINE os  == ValidatorState[o]
           new == Recorded(SignerStateForSlot(os, m.slot), m, p)
           up  == Updated(ValidatorState, m, p)[o]
<1>1. os \in OperatorState /\ RingAt(os, time) /\ m.slot \in Nat
  BY ValidatorStateType, ValidatorRing, MessageFacts
<1>2. CASE o \notin m.signers
  <2>1. up = os
    BY <1>2 DEF Updated
  <2>2. QED BY <1>1, <2>1
<1>3. CASE o \in m.signers
  <2>1. up = SetSignerStateForSlot(os, m.slot, new)
    BY <1>3 DEF Updated
  <2>2. new \in SignerRecord /\ new.slot = m.slot
    <3> HIDE DEF os
    <3>1. QED BY <1>1, RecordedFields
  <2> HIDE DEF os, new, up
  <2>3. up.signers = {r \in os.signers : r.slot % storedSlotCount # m.slot % storedSlotCount}
                       \cup {new}
    BY <1>1, <2>1, <2>2, RingAfter
  <2>4. TakenBy(m.slot, time)
    BY <1>1, TimelyForms
  <2>5. RingAt(up, time)
    BY <1>1, <2>2, <2>3, <2>4 DEF RingAt
  <2>6. QED BY <2>5 DEF up
<1>4. QED BY <1>2, <1>3

LEMMA RingStep ==
  ASSUME StateOK, StateOK', role' = role, time' = time, touched' = time,
         \A o \in Operators : RingAt(operators'[o], time)
  PROVE  RingOK'
<1>1. \A s : TakenBy(s, time)' <=> TakenBy(s, time)
  BY DEF TakenBy, FirstTaken
<1>2. storedSlotCount' = storedSlotCount
  BY DEF storedSlotCount
<1>3. touched' =< time'
  BY DEF StateOK
<1>4. \A s : TakenBy(s, touched)' <=> TakenBy(s, time)
  BY DEF TakenBy, FirstTaken
<1>5. QED BY <1>2, <1>3, <1>4 DEF RingAt, RingOK

LEMMA KnownLater ==
  ASSUME StateOK, StateOK', role' = role, time' >= time, NEW k \in Key,
         Known(operators', lapses', k)
  PROVE  Known(operators, lapses, k)'
<1>1. k[2] \in Nat
  BY KeyFields
<1>2. IsLate(k[2]) => IsLate(k[2])'
  <2>1. /\ AcceptableUntil(k[2])' = AcceptableUntil(k[2])
        /\ AcceptableUntil(k[2]) = LastTaken(k[2]) * SlotDuration + 3
    BY DEF AcceptableUntil, LastTaken, committeeRole, SlotStartTime, lateMessageMargin
  <2>2. AcceptableUntil(k[2]) \in Int
    BY <1>1, <2>1, TimelyForms
  <2>3. QED BY <2>1, <2>2 DEF IsLate, StateOK
<1>3. QED BY <1>2 DEF Known

LEMMA OnceInitially == Init => OnceInv
<1> SUFFICES ASSUME Init PROVE OnceInv
  OBVIOUS
<1>1. StateOK
  BY PunishInitially DEF PunishInv
<1>2. RingOK
  <2>1. touched =< time
    BY <1>1 DEF Init, StateOK
  <2>2. \A o \in Operators : operators[o].signers = {}
    BY DEF Init, NewOperatorState
  <2>3. QED BY <2>1, <2>2 DEF RingOK
<1>3. AcceptedOnce
  BY DEF Init, AcceptedOnce
<1>4. QED BY <1>1, <1>2, <1>3 DEF Init, OnceInv

LEMMA AcceptKeepsOnce ==
  ASSUME SlotsOutlastMargins, OnceInv, StateOK', NEW m \in RoleMessages[role], NEW p \in Peers,
         NEW hasDuty \in BOOLEAN, FirstOf(Semantics(m)) = "accept",
         FirstOf(StateRules(m, p, hasDuty, ValidatorState)) = "accept", Accept(m, p)
  PROVE  OnceInv'
<1> DEFINE up == Updated(ValidatorState, m, p)
<1>1. StateOK /\ RingOK /\ AcceptedOnce /\ accepted \in SUBSET Key
  BY DEF OnceInv
<1>2. /\ operators' = up /\ touched' = time /\ role' = role /\ time' = time
      /\ lapses' = IF up = operators /\ ~Expired THEN lapses ELSE lapses \cup Lost(up)
      /\ accepted' = accepted \cup Keys(up, m)
      /\ twice' = twice \cup {k \in Keys(up, m) : Duplicates(k) # {}}
  BY DEF Accept, Touch
<1>3. ~IsEarly(m.slot) /\ ~IsLate(m.slot)
  BY AcceptedTimely
<1>4. RingOK'
  <2>1. \A o \in Operators : RingAt(operators'[o], time)
    BY <1>1, <1>2, <1>3, AcceptRing
  <2>2. QED BY <1>1, <1>2, <2>1, RingStep
<1>5. ASSUME NEW k \in accepted'
      PROVE  k \in Key /\ Known(operators', lapses', k)
  <2>1. CASE k \in accepted
    BY <1>1, <1>2, <2>1, KnownAfterAccept
  <2>2. CASE k \in Keys(up, m)
    <3>1. ValidatorState \in [Operators -> OperatorState]
      BY <1>1, ValidatorStateType
    <3>2. k \in Key /\ \E rec \in up[k[1]].signers : Holds(rec, k)
      BY <1>1, <2>2, <3>1, NewKeys
    <3> HIDE DEF up
    <3>3. QED BY <1>2, <3>2 DEF Known
  <2>3. QED BY <1>2, <2>1, <2>2
<1>6. \A k \in accepted' : Known(operators, lapses, k)'
  <2>1. time' >= time
    BY <1>1, <1>2 DEF StateOK
  <2>2. QED BY <1>1, <1>2, <1>5, <2>1, KnownLater
<1>7. \A k \in twice' : Lapsed(lapses', k[1], k[2])
  <2>1. \A k \in twice : Lapsed(lapses, k[1], k[2])
    BY <1>1 DEF AcceptedOnce, Lapsed
  <2>2. lapses \subseteq lapses'
    BY <1>2
  <2>3. \A k \in twice : Lapsed(lapses', k[1], k[2])
    BY <2>1, <2>2 DEF Lapsed
  <2>4. ASSUME NEW k \in Keys(up, m), Duplicates(k) # {}
        PROVE  Lapsed(lapses', k[1], k[2])
    <3>1. PICK l \in Duplicates(k) : TRUE
      BY <2>4
    <3>2. QED BY <1>2, <3>1, DuplicateLapsed
  <2> HIDE DEF up
  <2>5. QED BY <1>2, <2>3, <2>4
<1>8. \A l \in lapses' : Excused(l)
  <2>1. \A l \in lapses : Excused(l)
    BY <1>1 DEF AcceptedOnce, Excused
  <2>2. \A l \in Lost(up) : Excused(l)
    BY <1>1, <1>3, AcceptLosses
  <2> HIDE DEF up
  <2>3. QED BY <1>2, <2>1, <2>2
<1>9. AcceptedOnce'
  BY <1>2, <1>7, <1>8 DEF AcceptedOnce, Lapsed, Excused, Seam, committeeRole
<1>10. accepted' \in SUBSET Key
  BY <1>5
<1>11. QED BY <1>4, <1>6, <1>9, <1>10 DEF OnceInv

LEMMA DropKeepsOnce ==
  ASSUME SlotsOutlastMargins, OnceInv, StateOK', NEW m, NEW p, NEW outcome, Drop(m, p, outcome)
  PROVE  OnceInv'
<1> DEFINE st == ValidatorState
<1>1. StateOK /\ RingOK /\ AcceptedOnce /\ accepted \in SUBSET Key
  BY DEF OnceInv
<1>2. /\ operators' = st /\ touched' = time /\ role' = role /\ time' = time
      /\ lapses' = IF st = operators /\ ~Expired THEN lapses ELSE lapses \cup Lost(st)
      /\ accepted' = accepted /\ twice' = twice
  BY DEF Drop, Touch
<1>3. RingOK'
  <2>1. \A o \in Operators : RingAt(operators'[o], time)
    BY <1>1, <1>2, ValidatorRing
  <2>2. QED BY <1>1, <1>2, <2>1, RingStep
<1>4. ASSUME NEW k \in accepted
      PROVE  Known(operators', lapses', k)
  <2>1. Known(operators, lapses, k) /\ k \in Key /\ k[1] \in Operators
    BY <1>1, KeyFields DEF OnceInv
  <2>2. CASE Lapsed(lapses, k[1], k[2])
    BY <1>2, <2>2 DEF Known, Lapsed
  <2>3. CASE IsLate(k[2])
    BY <2>3 DEF Known
  <2>4. CASE ~IsLate(k[2]) /\ \E rec \in operators[k[1]].signers : Holds(rec, k)
    <3>1. PICK rec \in operators[k[1]].signers : Holds(rec, k)
      BY <2>4
    <3>2. rec.slot = k[2]
      BY <3>1 DEF Holds
    <3>3. CASE Expired
      <4>1. Lapsed(lapses', k[1], rec.slot)
        <5> HIDE DEF st
        <5>1. QED BY <1>1, <1>2, <2>1, <2>4, <3>2, <3>3, LostIsLapsed
      <4>2. QED BY <3>2, <4>1 DEF Known
    <3>4. CASE ~Expired
      <4>1. operators' = operators
        BY <1>2, <3>4 DEF ValidatorState
      <4>2. QED BY <3>1, <4>1 DEF Known
    <3>5. QED BY <3>3, <3>4
  <2>5. QED BY <2>1, <2>2, <2>3, <2>4 DEF Known
<1>5. \A k \in accepted' : Known(operators, lapses, k)'
  <2>1. time' >= time
    BY <1>1, <1>2 DEF StateOK
  <2>2. QED BY <1>1, <1>2, <1>4, <2>1, KnownLater
<1>6. ASSUME NEW l \in Lost(st)
      PROVE  Excused(l) \/ ~Expired
  <2>1. PICK o \in Operators : \E rec \in operators[o].signers :
          /\ l = <<o, rec.slot, time>>
          /\ ~IsLate(rec.slot) /\ (Expired \/ <<o, rec.slot>> \notin Recordings(st))
    BY LostForms
  <2>2. PICK rec \in operators[o].signers :
          /\ l = <<o, rec.slot, time>>
          /\ ~IsLate(rec.slot) /\ (Expired \/ <<o, rec.slot>> \notin Recordings(st))
    BY <2>1
  <2>3. rec.slot \in Nat /\ TakenBy(rec.slot, touched)
    BY <1>1 DEF StateOK, OperatorState, SignerRecord, RingOK
  <2>4. QED BY <1>1, <2>2, <2>3, ExpiryIsExcused DEF Excused
<1>7. lapses' = IF Expired THEN lapses \cup Lost(st) ELSE lapses
  BY <1>2 DEF ValidatorState
<1>8. \A l \in lapses' : Excused(l)
  <2>1. \A l \in lapses : Excused(l)
    BY <1>1 DEF AcceptedOnce, Excused
  <2> HIDE DEF st
  <2>2. QED BY <1>6, <1>7, <2>1
<1>9. \A k \in twice' : Lapsed(lapses', k[1], k[2])
  BY <1>1, <1>2 DEF AcceptedOnce, Lapsed
<1>10. AcceptedOnce'
  BY <1>2, <1>8, <1>9 DEF AcceptedOnce, Lapsed, Excused, Seam, committeeRole
<1>11. QED BY <1>1, <1>2, <1>3, <1>5, <1>10 DEF OnceInv

LEMMA QuietKeepsOnce ==
  ASSUME OnceInv, StateOK', time' >= time,
         UNCHANGED <<role, operators, touched, accepted, twice, lapses>>
  PROVE  OnceInv'
<1>1. StateOK /\ RingOK /\ AcceptedOnce /\ accepted \in SUBSET Key
  BY DEF OnceInv
<1>2. RingOK'
  <2>1. \A s : TakenBy(s, touched)' <=> TakenBy(s, touched)
    BY DEF TakenBy, FirstTaken
  <2>2. storedSlotCount' = storedSlotCount
    BY DEF storedSlotCount
  <2>3. touched' =< time'
    BY <1>1 DEF StateOK, RingOK
  <2>4. QED BY <1>1, <2>1, <2>2, <2>3 DEF RingOK
<1>3. \A k \in accepted : Known(operators', lapses', k)
  BY DEF OnceInv
<1>4. \A k \in accepted' : Known(operators, lapses, k)'
  BY <1>1, <1>3, KnownLater
<1>5. AcceptedOnce'
  BY <1>1 DEF AcceptedOnce, Seam, committeeRole
<1>6. QED BY <1>1, <1>2, <1>4, <1>5 DEF OnceInv

LEMMA OnceKept == SlotsOutlastMargins /\ OnceInv /\ [Next]_vars => OnceInv'
<1> SUFFICES ASSUME SlotsOutlastMargins, OnceInv, [Next]_vars PROVE OnceInv'
  OBVIOUS
<1>1. StateOK /\ StateOK'
  BY StateKept DEF OnceInv
<1>2. CASE UNCHANGED vars
  <2>1. time' >= time /\ UNCHANGED <<role, operators, touched, accepted, twice, lapses>>
    BY <1>1, <1>2 DEF vars, historyVars, StateOK
  <2>2. QED BY <1>1, <2>1, QuietKeepsOnce
<1>3. CASE Tick
  <2>1. time' >= time /\ UNCHANGED <<role, operators, touched, accepted, twice, lapses>>
    BY <1>1, <1>3 DEF Tick, historyVars, StateOK
  <2>2. QED BY <1>1, <2>1, QuietKeepsOnce
<1>4. ASSUME NEW m \in RoleMessages[role], NEW p \in Peers, NEW hasDuty \in DutyAnswers,
             Validate(m, p, hasDuty)
      PROVE  OnceInv'
  <2>1. hasDuty \in BOOLEAN
    BY DEF DutyAnswers
  <2>2. \A outcome : Drop(m, p, outcome) => OnceInv'
    BY <1>1, DropKeepsOnce
  <2>3. FirstOf(Semantics(m)) = "accept"
    BY <1>4 DEF Validate
  <2>4. FirstOf(StateRules(m, p, hasDuty, ValidatorState)) = "accept" /\ Accept(m, p) => OnceInv'
    BY <1>1, <2>1, <2>3, AcceptKeepsOnce
  <2>5. QED BY <1>4, <2>2, <2>4 DEF Validate
<1>5. ASSUME NEW m \in RoleMessages[role], NEW p \in Peers, RejectMalformed(m, p)
      PROVE  OnceInv'
  BY <1>2, <1>5 DEF RejectMalformed
<1>6. QED BY <1>2, <1>3, <1>4, <1>5 DEF Next

\* In every role and for every size of epoch, a signer's message of a kind is
\* accepted once per slot and round of the signer, whatever peers relay and in
\* whatever order slots and rounds arrive; where it is accepted again its
\* record had lapsed, which happens only to registrations and, in committee
\* roles, in the seconds at the seams of the ring (GetSignerStateForSlot,
\* SetSignerStateForSlot and the expiry of the cache against
\* messageEarliness and messageLateness).
THEOREM MessagesAreAcceptedOnce ==
  ASSUME SlotsOutlastMargins
  PROVE  Spec => []AcceptedOnce
<1>1. OnceInv /\ [Next]_vars => OnceInv'
  BY OnceKept
<1>2. OnceInv => AcceptedOnce
  BY DEF OnceInv
<1>3. QED BY <1>1, <1>2, OnceInitially, PTL DEF Spec

=============================================================================
