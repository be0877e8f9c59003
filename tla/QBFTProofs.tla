----------------------------- MODULE QBFTProofs -----------------------------
(***************************************************************************)
(* Proofs about module QBFT, for every committee of 3f + 1 operators, every *)
(* set of values and every behaviour of the Byzantine operators.           *)
(***************************************************************************)
EXTENDS QBFT, FiniteSetTheorems, TLAPS

-----------------------------------------------------------------------------
(* Types.                                                                  *)

\* A round change a correct operator creates is well formed.
LEMMA CreateRoundChangeType ==
  ASSUME TypeOK, NEW o \in Honest, NEW r \in Nat
  PROVE  CreateRoundChange(o, r) \in RoundChange
<1>1. o \in Operators
  BY DEF Honest
<1>2. RoundChangeJustification(o) \in Nat
  BY DEF TypeOK, RoundChangeJustification, NoRound
<1>3. preparedRound[o] \in Nat /\ preparedValue[o] \in Values \cup {NoValue}
  BY DEF TypeOK
<1>4. QED
  BY <1>1, <1>2, <1>3 DEF CreateRoundChange, RoundChange, NoRound

\* A proposal of a Byzantine leader is well formed.
LEMMA ByzantineProposalsType ==
  ASSUME TypeOK
  PROVE  ByzantineProposals \subseteq Proposal
<1> SUFFICES ASSUME NEW p \in ByzantineProposals
             PROVE  p \in Proposal
  OBVIOUS
<1>1. PICK b \in ByzProposals :
        /\ Proposer(b.round) \in Byzantine
        /\ \E rcs \in ByzJustifications(b.round) :
             p \in [round : {b.round}, signer : {Proposer(b.round)},
                   value : {b.value}, roundChanges : {rcs},
                   justification : {NoRound} \cup {rc.dataRound : rc \in rcs}]
  BY DEF ByzantineProposals
<1> PICK rcs \in ByzJustifications(b.round) :
           p \in [round : {b.round}, signer : {Proposer(b.round)},
                 value : {b.value}, roundChanges : {rcs},
                 justification : {NoRound} \cup {rc.dataRound : rc \in rcs}]
  BY <1>1
<1>2. b.round \in Nat /\ b.value \in Values /\ Proposer(b.round) \in Operators
  BY <1>1, ConstantsAssumption
<1>3. rcs \subseteq RoundChange
  BY ConstantsAssumption DEF ByzJustifications, TypeOK
<1>4. \A rc \in rcs : rc.dataRound \in Nat
  BY <1>3 DEF RoundChange
<1>5. QED
  BY <1>1, <1>2, <1>3, <1>4 DEF Proposal, NoRound

\* The initial state is well typed.
LEMMA TypeOKInit == Init => TypeOK
  BY ConstantsAssumption
  DEF Init, InitialRound, TypeOK, FirstRound, NoRound

\* Every step preserves the types.
LEMMA TypeOKNext == TypeOK /\ [Next]_vars => TypeOK'
<1> SUFFICES ASSUME TypeOK, [Next]_vars
             PROVE  TypeOK'
  OBVIOUS
<1> USE ConstantsAssumption
<1>1. CASE UNCHANGED vars
  BY <1>1 DEF TypeOK, vars, lifecycle, lock, containers, network
<1>2. ASSUME NEW o \in Honest, Start(o)
      PROVE  TypeOK'
  <2>1. o \in Operators /\ StartValue[o] \in Values
    BY DEF Honest
  <2>2. [round |-> FirstRound, signer |-> o, value |-> StartValue[o],
         roundChanges |-> {}, justification |-> NoRound] \in Proposal
    BY <2>1 DEF Proposal, FirstRound, NoRound
  <2>3. started' \subseteq Honest /\ proposals' \subseteq Proposal
    BY <1>2, <2>2 DEF Start, TypeOK
  <2>4. QED
    BY <1>2, <2>3 DEF Start, TypeOK, lock, containers
<1>3. ASSUME NEW o \in Honest, MarkIrrelevant(o)
      PROVE  TypeOK'
  BY <1>3 DEF MarkIrrelevant, TypeOK, lock, containers, network
<1>4. ASSUME NEW o \in Honest, UponRoundTimeout(o)
      PROVE  TypeOK'
  <2>1. round[o] + 1 \in Nat \ {NoRound}
    BY DEF TypeOK, NoRound
  <2>2. CreateRoundChange(o, round[o] + 1) \in RoundChange
    BY <2>1, CreateRoundChangeType
  <2>3. /\ round' \in [Honest -> Nat \ {NoRound}]
        /\ accepted' \in [Honest -> Values \cup {NoValue}]
        /\ roundChanges' \subseteq RoundChange
    BY <1>4, <2>1, <2>2
    DEF UponRoundTimeout, BumpToRound, RoundAfterBump, AcceptedAfterBump, TypeOK
  <2>4. QED
    BY <1>4, <2>3 DEF UponRoundTimeout, TypeOK, lifecycle, lock, containers
<1>5. ASSUME NEW o \in Honest, NEW p \in proposals \cup ByzantineProposals,
             UponProposal(o, p)
      PROVE  TypeOK'
  <2>1. p \in Proposal
    BY ByzantineProposalsType DEF TypeOK
  <2>2. /\ p.round \in Nat /\ p.round >= round[o] /\ p.round # NoRound
        /\ p.value \in Values /\ p.signer \in Operators /\ o \in Operators
    BY <1>5, <2>1 DEF Proposal, UponProposal, CanProcess, TypeOK, NoRound, Honest
  <2>3. /\ [round |-> p.round, signer |-> p.signer]
             \in [round : Nat, signer : Operators]
        /\ [round |-> p.round, root |-> p.value, signer |-> o] \in Vote
    BY <2>2 DEF Vote
  <2>4. /\ round' \in [Honest -> Nat \ {NoRound}]
        /\ accepted' \in [Honest -> Values \cup {NoValue}]
        /\ prepares' \subseteq Vote
        /\ proposeContainer' \in
             [Honest -> SUBSET [round : Nat, signer : Operators]]
    BY <1>5, <2>2, <2>3
    DEF UponProposal, RoundAfterBump, AcceptedAfterBump, TypeOK
  <2>5. QED
    BY <1>5, <2>4 DEF UponProposal, TypeOK, lifecycle, lock
<1>6. ASSUME NEW o \in Honest, NEW m \in prepares \cup ByzPrepares,
             UponPrepare(o, m)
      PROVE  TypeOK'
  <2>1. m \in Vote /\ o \in Operators
    BY DEF TypeOK, Honest
  <2>2. round[o] \in Nat \ {NoRound} /\ accepted[o] \in Values
    BY <1>6 DEF UponPrepare, TypeOK
  <2>3. [round |-> round[o], root |-> accepted[o], signer |-> o] \in Vote
    BY <2>1, <2>2 DEF Vote
  <2>4. /\ prepareContainer' \in [Honest -> SUBSET Vote]
        /\ preparedRound' \in [Honest -> Nat]
        /\ preparedValue' \in [Honest -> Values \cup {NoValue}]
        /\ commits' \subseteq Vote
    BY <1>6, <2>1, <2>2, <2>3 DEF UponPrepare, TypeOK, lock
  <2>5. QED
    BY <1>6, <2>4 DEF UponPrepare, TypeOK, lifecycle
<1>7. ASSUME NEW o \in Honest, NEW m \in commits \cup ByzCommits,
             UponCommit(o, m)
      PROVE  TypeOK'
  <2>1. m \in Vote
    BY DEF TypeOK
  <2>2. m.round \in Nat \ {NoRound} /\ accepted[o] \in Values
    BY <1>7, <2>1 DEF UponCommit, TypeOK, Vote
  <2>3. /\ commitContainer' \in [Honest -> SUBSET Vote]
        /\ round' \in [Honest -> Nat \ {NoRound}]
        /\ decided' \in [Honest -> Values \cup {NoValue}]
    BY <1>7, <2>1, <2>2 DEF UponCommit, MarkDecided, TypeOK
  <2>4. QED
    BY <1>7, <2>3 DEF UponCommit, TypeOK, lifecycle, lock, network
<1>8. ASSUME NEW o \in Honest, NEW m \in roundChanges \cup ByzRoundChanges,
             UponRoundChange(o, m)
      PROVE  TypeOK'
  <2> DEFINE container == roundChangeContainer[o] \cup {m}
             rcs == MessagesForRound(container, m.round)
  <2>1. m \in RoundChange /\ container \subseteq RoundChange
    BY DEF TypeOK
  <2>2. roundChangeContainer' \in [Honest -> SUBSET RoundChange]
    BY <1>8, <2>1 DEF UponRoundChange, TypeOK
  <2>3. /\ round' \in [Honest -> Nat \ {NoRound}]
        /\ accepted' \in [Honest -> Values \cup {NoValue}]
        /\ proposals' \subseteq Proposal
        /\ roundChanges' \subseteq RoundChange
    <3>1. CASE LeaderProposes(o, rcs, m.round)
      <4>1. PICK rc \in ProposalJustificationForLeadingRound(o, rcs, m.round) :
              /\ BumpToRound(o, m.round)
              /\ \/ proposals' = proposals \cup
                      {[round |-> m.round, signer |-> o,
                        value |-> ValueToPropose(o, rc),
                        roundChanges |-> rcs,
                        justification |-> rc.justification]}
                 \/ UNCHANGED proposals
              /\ UNCHANGED roundChanges
        BY <3>1 DEF LeaderProposes
      <4>2. rc \in RoundChange /\ rcs \subseteq RoundChange
        BY <2>1 DEF ProposalJustificationForLeadingRound, MessagesForRound
      <4>3. ValueToPropose(o, rc) \in Values
        BY DEF ProposalJustificationForLeadingRound, IsProposalJustification
      <4>4. m.round \in Nat /\ m.round >= round[o] /\ o \in Operators
        BY <1>8, <2>1 DEF RoundChange, UponRoundChange, CanProcess, Honest
      <4>5. [round |-> m.round, signer |-> o, value |-> ValueToPropose(o, rc),
             roundChanges |-> rcs, justification |-> rc.justification]
               \in Proposal
        BY <4>2, <4>3, <4>4 DEF Proposal, RoundChange
      <4>6. proposals' \subseteq Proposal /\ roundChanges' \subseteq RoundChange
        BY <4>1, <4>5 DEF TypeOK
      <4>7. /\ round' \in [Honest -> Nat \ {NoRound}]
            /\ accepted' \in [Honest -> Values \cup {NoValue}]
        BY <4>1, <4>4
        DEF BumpToRound, RoundAfterBump, AcceptedAfterBump, TypeOK, NoRound
      <4>8. QED
        BY <4>6, <4>7
    <3>2. ASSUME NEW rc \in FutureRoundChanges(o, container),
                 UponChangeRoundPartialQuorum(o, rc.round)
          PROVE  /\ round' \in [Honest -> Nat \ {NoRound}]
                 /\ accepted' \in [Honest -> Values \cup {NoValue}]
                 /\ proposals' \subseteq Proposal
                 /\ roundChanges' \subseteq RoundChange
      <4>1. rc.round \in Nat
        BY <2>1 DEF FutureRoundChanges, RoundChange
      <4>2. CreateRoundChange(o, rc.round) \in RoundChange
        BY <4>1, CreateRoundChangeType
      <4>3. QED
        BY <3>2, <4>1, <4>2
        DEF UponChangeRoundPartialQuorum, BumpToRound, RoundAfterBump,
            AcceptedAfterBump, TypeOK, NoRound
    <3>3. CASE UNCHANGED <<round, accepted, proposals, roundChanges>>
      BY <3>3 DEF TypeOK
    <3>4. \/ LeaderProposes(o, rcs, m.round)
          \/ \E rc \in FutureRoundChanges(o, container) :
               UponChangeRoundPartialQuorum(o, rc.round)
          \/ UNCHANGED <<round, accepted, proposals, roundChanges>>
      BY <1>8 DEF UponRoundChange
    <3>5. QED
      BY <3>1, <3>2, <3>3, <3>4
  <2>4. QED
    BY <1>8, <2>2, <2>3 DEF UponRoundChange, TypeOK, lifecycle, lock
<1>9. ASSUME NEW o \in Honest, NEW m \in commits \cup ByzCommits,
             UponDecided(o, m.round, m.root)
      PROVE  TypeOK'
  <2>1. m \in Vote
    BY DEF TypeOK
  <2>2. QED
    BY <1>9, <2>1
    DEF UponDecided, MarkDecided, TypeOK, Vote, lifecycle, lock, containers, network
<1>10. QED
  BY <1>1, <1>2, <1>3, <1>4, <1>5, <1>6, <1>7, <1>8, <1>9 DEF Next, Receive

\* What the type invariant says of every state of every run: the instances'
\* rounds, locks, decisions, containers and broadcasts are well formed.
THEOREM TypeCorrect == Spec => []TypeOK
  BY TypeOKInit, TypeOKNext, PTL DEF Spec

-----------------------------------------------------------------------------
(* Quorums.  The thresholds are those of CommitteeMember: a quorum is      *)
(* 2f + 1 of the 3f + 1 operators.                                         *)

\* The committee has 3f + 1 operators, and its subsets are finite.
LEMMA CommitteeSize ==
  /\ FaultyNodes \in Nat
  /\ Cardinality(Operators) = 3 * FaultyNodes + 1
  /\ \A S \in SUBSET Operators : IsFiniteSet(S) /\ Cardinality(S) \in Nat
<1>1. Cardinality(Operators) \in Nat /\ Cardinality(Operators) % 3 = 1
  BY ConstantsAssumption, FS_CardinalityType
<1>2. /\ FaultyNodes \in Nat
      /\ Cardinality(Operators) = 3 * FaultyNodes + 1
  BY <1>1 DEF FaultyNodes
<1>3. \A S \in SUBSET Operators : IsFiniteSet(S) /\ Cardinality(S) \in Nat
  BY ConstantsAssumption, FS_Subset, FS_CardinalityType
<1>4. QED
  BY <1>2, <1>3

\* A set of operators that contains a quorum is one.
LEMMA QuorumMonotone ==
  ASSUME NEW T \in SUBSET Operators, NEW S \in SUBSET T, HasQuorum(S)
  PROVE  HasQuorum(T)
<1>1. IsFiniteSet(T) /\ Cardinality(T) \in Nat /\ Cardinality(S) \in Nat
  BY CommitteeSize
<1>2. Cardinality(S) =< Cardinality(T)
  BY <1>1, FS_Subset
<1>3. QED
  BY <1>1, <1>2, CommitteeSize DEF HasQuorum

\* With at most f Byzantine operators a quorum holds f + 1 correct ones.
LEMMA QuorumHonest ==
  ASSUME Cardinality(Byzantine) =< FaultyNodes,
         NEW Q \in SUBSET Operators, HasQuorum(Q)
  PROVE  HasPartialQuorum(Q \cap Honest)
<1> DEFINE B == Q \cap Byzantine
           H == Q \cap Honest
<1>1. Q = B \cup H /\ B \cap H = {} /\ B \subseteq Byzantine
  BY DEF Honest
<1>2. /\ IsFiniteSet(B) /\ IsFiniteSet(H) /\ IsFiniteSet(Byzantine)
      /\ Cardinality(B) \in Nat /\ Cardinality(H) \in Nat
      /\ Cardinality(Q) \in Nat /\ Cardinality(Byzantine) \in Nat
  BY CommitteeSize, ConstantsAssumption
<1>3. Cardinality(B) =< Cardinality(Byzantine)
  BY <1>1, <1>2, FS_Subset
<1>4. Cardinality(Q) = Cardinality(B) + Cardinality(H)
  <2>1. Cardinality(B \cup H)
          = Cardinality(B) + Cardinality(H) - Cardinality(B \cap H)
    BY <1>2, FS_Union
  <2>2. Cardinality(B \cap H) = 0
    BY <1>1, FS_EmptySet
  <2>3. Cardinality(Q) = Cardinality(B \cup H)
    BY <1>1
  <2> HIDE DEF B, H
  <2>4. QED
    BY <1>2, <2>1, <2>2, <2>3
<1>5. Cardinality(H) >= FaultyNodes + 1
  <2> HIDE DEF B, H
  <2>1. Cardinality(Q) >= 2 * FaultyNodes + 1
    BY DEF HasQuorum
  <2>2. QED
    BY <1>2, <1>3, <1>4, <2>1, CommitteeSize
<1>6. QED
  BY <1>5 DEF HasPartialQuorum

\* Two quorums share a correct operator.
LEMMA QuorumsMeet ==
  ASSUME Cardinality(Byzantine) =< FaultyNodes,
         NEW Q1 \in SUBSET Operators, NEW Q2 \in SUBSET Operators,
         HasQuorum(Q1), HasQuorum(Q2)
  PROVE  \E h \in Honest : h \in Q1 /\ h \in Q2
<1> DEFINE I == Q1 \cap Q2
           U == Q1 \cup Q2
<1>1. /\ IsFiniteSet(Q1) /\ IsFiniteSet(Q2) /\ IsFiniteSet(I)
      /\ Cardinality(Q1) \in Nat /\ Cardinality(Q2) \in Nat
      /\ Cardinality(I) \in Nat /\ Cardinality(U) \in Nat
      /\ IsFiniteSet(Byzantine) /\ Cardinality(Byzantine) \in Nat
  BY CommitteeSize, ConstantsAssumption
<1>2. Cardinality(U) = Cardinality(Q1) + Cardinality(Q2) - Cardinality(I)
  BY <1>1, FS_Union
<1>3. Cardinality(U) =< Cardinality(Operators)
  BY ConstantsAssumption, FS_Subset
<1>4. Cardinality(I) > Cardinality(Byzantine)
  <2> HIDE DEF I, U
  <2>1. /\ Cardinality(Q1) >= 2 * FaultyNodes + 1
        /\ Cardinality(Q2) >= 2 * FaultyNodes + 1
    BY DEF HasQuorum
  <2>2. QED
    BY <1>1, <1>2, <1>3, <2>1, CommitteeSize
<1>5. ~ (I \subseteq Byzantine)
  BY <1>1, <1>4, FS_Subset
<1>6. QED
  BY <1>5 DEF Honest

-----------------------------------------------------------------------------
(* The inductive invariant behind agreement.                               *)

\* A correct operator that prepared in its current round accepted that value,
\* and has prepared in no later round.
PreparesBounded ==
  \A m \in prepares :
    /\ m.signer \in Honest
    /\ decided[m.signer] = NoValue =>
         /\ m.round =< round[m.signer]
         /\ m.round = round[m.signer] => accepted[m.signer] = m.root

\* It prepared at most one value per round, and only values it checked.
PreparesOnce ==
  \A m1, m2 \in prepares :
    m1.signer = m2.signer /\ m1.round = m2.round => m1.root = m2.root
PreparesChecked == \A m \in prepares : m.root \in CheckValue[m.signer]

\* The containers hold signed votes; an undecided operator's prepares of its
\* current round are for the proposal it accepted.
PrepareContainerSigned ==
  \A o \in Honest : \A m \in prepareContainer[o] :
    /\ PrepareSigned(m)
    /\ decided[o] = NoValue =>
         /\ m.round =< round[o]
         /\ m.round = round[o] => m.root = accepted[o]
CommitContainerSigned ==
  \A o \in Honest : \A m \in commitContainer[o] : CommitSigned(m)

\* A commit follows a quorum of prepares and leaves a lock behind.
CommitsPrepared ==
  \A c \in commits :
    /\ c.signer \in Honest
    /\ PrepareQuorumSigned(c.round, c.root)
    /\ decided[c.signer] = NoValue => c.round =< preparedRound[c.signer]
LockHeld ==
  \A o \in Honest :
    /\ preparedRound[o] # NoRound => preparedValue[o] # NoValue
    /\ decided[o] = NoValue => preparedRound[o] =< round[o]

\* Whoever asked for a round is in it or beyond, and announced its lock.
RoundChangesBounded ==
  \A rc \in roundChanges :
    /\ rc.signer \in Honest
    /\ decided[rc.signer] = NoValue => rc.round =< round[rc.signer]

\* No quorum of commits for r and w will ever be complete: a quorum's correct
\* operators have left r, or stopped, without that commit.
WontCommit(a, r, w) ==
  /\ [round |-> r, root |-> w, signer |-> a] \notin commits
  /\ decided[a] # NoValue \/ round[a] > r
Blocked(r, w) ==
  \E Q \in SUBSET Operators :
    HasQuorum(Q) /\ \A a \in Q \cap Honest : WontCommit(a, r, w)

\* When a correct operator prepares a value, every other value is blocked in
\* every earlier round.
PreparesSafe ==
  \A m \in prepares : \A r \in Nat : \A w \in Values :
    r < m.round /\ w # m.root => Blocked(r, w)

\* A decision is backed by a quorum of commits.
DecidedCertified ==
  \A o \in Honest :
    decided[o] # NoValue => \E r \in Nat : CommitQuorumSigned(r, decided[o])

SafetyInv ==
  /\ PreparesBounded /\ PreparesOnce /\ PreparesChecked
  /\ PrepareContainerSigned /\ CommitContainerSigned
  /\ CommitsPrepared /\ LockHeld
  /\ RoundChangesBounded /\ LockIsAnnounced
  /\ PreparesSafe /\ DecidedCertified

-----------------------------------------------------------------------------
(* Facts about signatures and blocked values.                              *)

\* A vote is determined by its fields.
LEMMA VoteFields ==
  \A m \in Vote : /\ m = [round |-> m.round, root |-> m.root, signer |-> m.signer]
                  /\ m.round \in Nat \ {NoRound} /\ m.root \in Values
                  /\ m.signer \in Operators
  BY DEF Vote

\* A quorum of signed votes stays one when more votes are signed.
LEMMA PrepareQuorumStable ==
  ASSUME prepares \subseteq prepares', NEW r, NEW v, PrepareQuorumSigned(r, v)
  PROVE  PrepareQuorumSigned(r, v)'
<1> DEFINE S == {s \in Operators :
                   PrepareSigned([round |-> r, root |-> v, signer |-> s])}
           T == {s \in Operators :
                   PrepareSigned([round |-> r, root |-> v, signer |-> s])'}
<1>1. S \subseteq T
  BY DEF PrepareSigned
<1>2. HasQuorum(T)
  BY <1>1, QuorumMonotone DEF PrepareQuorumSigned
<1>3. QED
  BY <1>2 DEF PrepareQuorumSigned, HasQuorum

LEMMA CommitQuorumStable ==
  ASSUME commits \subseteq commits', NEW r, NEW v, CommitQuorumSigned(r, v)
  PROVE  CommitQuorumSigned(r, v)'
<1> DEFINE S == {s \in Operators :
                   CommitSigned([round |-> r, root |-> v, signer |-> s])}
           T == {s \in Operators :
                   CommitSigned([round |-> r, root |-> v, signer |-> s])'}
<1>1. S \subseteq T
  BY DEF CommitSigned
<1>2. HasQuorum(T)
  BY <1>1, QuorumMonotone DEF CommitQuorumSigned
<1>3. QED
  BY <1>2 DEF CommitQuorumSigned, HasQuorum

\* A blocked value stays blocked if no operator takes back its silence.
LEMMA BlockedStable ==
  ASSUME NEW r, NEW w, Blocked(r, w),
         \A a \in Honest : WontCommit(a, r, w) => WontCommit(a, r, w)'
  PROVE  Blocked(r, w)'
  BY DEF Blocked, HasQuorum

\* One round has at most one value with a quorum of prepares.
LEMMA PrepareQuorumUnique ==
  ASSUME Cardinality(Byzantine) =< FaultyNodes, PreparesOnce,
         NEW r, NEW v, NEW w,
         PrepareQuorumSigned(r, v), PrepareQuorumSigned(r, w)
  PROVE  v = w
<1> DEFINE S(x) == {s \in Operators :
                      PrepareSigned([round |-> r, root |-> x, signer |-> s])}
<1>1. PICK h \in Honest : h \in S(v) /\ h \in S(w)
  BY QuorumsMeet DEF PrepareQuorumSigned
<1>2. /\ [round |-> r, root |-> v, signer |-> h] \in prepares
      /\ [round |-> r, root |-> w, signer |-> h] \in prepares
  BY <1>1 DEF PrepareSigned, Honest
<1>3. QED
  BY <1>2 DEF PreparesOnce

\* A quorum of prepares, and one of commits, contains a correct operator's.
LEMMA PrepareQuorumWitness ==
  ASSUME Cardinality(Byzantine) =< FaultyNodes, NEW r, NEW v,
         PrepareQuorumSigned(r, v)
  PROVE  \E h \in Honest : [round |-> r, root |-> v, signer |-> h] \in prepares
<1> DEFINE S == {s \in Operators :
                   PrepareSigned([round |-> r, root |-> v, signer |-> s])}
<1>1. PICK h \in Honest : h \in S
  BY QuorumsMeet DEF PrepareQuorumSigned
<1>2. QED
  BY <1>1 DEF PrepareSigned, Honest

LEMMA CommitQuorumWitness ==
  ASSUME Cardinality(Byzantine) =< FaultyNodes, NEW r, NEW v,
         CommitQuorumSigned(r, v)
  PROVE  \E h \in Honest : [round |-> r, root |-> v, signer |-> h] \in commits
<1> DEFINE S == {s \in Operators :
                   CommitSigned([round |-> r, root |-> v, signer |-> s])}
<1>1. PICK h \in Honest : h \in S
  BY QuorumsMeet DEF CommitQuorumSigned
<1>2. QED
  BY <1>1 DEF CommitSigned, Honest

-----------------------------------------------------------------------------
(* Every step preserves the invariant: one lemma per kind of step.         *)

\* Initially nothing was sent and nobody decided.
LEMMA SafetyInit == Init => SafetyInv
  BY DEF Init, InitialRound, SafetyInv, PreparesBounded, PreparesOnce,
         PreparesChecked, PrepareContainerSigned, CommitContainerSigned,
         CommitsPrepared, LockHeld, RoundChangesBounded, LockIsAnnounced,
         PreparesSafe, DecidedCertified, FirstRound, NoRound

\* Steps that change none of the operators' protocol state: a message that
\* only joins a container, a proposal sent, an instance started or superseded.
LEMMA SafetyIdle ==
  ASSUME SafetyInv, PrepareContainerSigned', CommitContainerSigned',
         UNCHANGED <<round, accepted, lock, decided, prepares, commits,
                     roundChanges>>
  PROVE  SafetyInv'
<1> USE DEF SafetyInv, lock
<1>1. /\ PreparesBounded' /\ PreparesOnce' /\ PreparesChecked'
      /\ LockHeld' /\ RoundChangesBounded' /\ LockIsAnnounced'
  BY DEF PreparesBounded, PreparesOnce, PreparesChecked, LockHeld,
         RoundChangesBounded, LockIsAnnounced
<1>2. CommitsPrepared' /\ DecidedCertified'
  BY PrepareQuorumStable, CommitQuorumStable DEF CommitsPrepared, DecidedCertified
<1>3. PreparesSafe'
  BY BlockedStable DEF PreparesSafe, WontCommit
<1>4. QED
  BY <1>1, <1>2, <1>3

\* The containers stay signed when nothing they depend on changes.
LEMMA ContainersIdle ==
  ASSUME SafetyInv,
         UNCHANGED <<round, accepted, decided, prepareContainer,
                     commitContainer, prepares, commits>>
  PROVE  PrepareContainerSigned' /\ CommitContainerSigned'
  BY DEF SafetyInv, PrepareContainerSigned, CommitContainerSigned,
         PrepareSigned, CommitSigned

\* An operator's silence is kept by steps without commits.
LEMMA SilenceKept ==
  ASSUME TypeOK, TypeOK', commits' = commits,
         \A a \in Honest : /\ decided[a] # NoValue => decided'[a] # NoValue
                           /\ decided'[a] # NoValue \/ round[a] =< round'[a],
         NEW a \in Honest, NEW r \in Nat, NEW w, WontCommit(a, r, w)
  PROVE  WontCommit(a, r, w)'
  BY DEF TypeOK, WontCommit

\* An undecided operator enters a later round, or stays in its round, and may
\* ask the others for the later one: timeouts, catching up, leading.
LEMMA SafetyAdvance ==
  ASSUME TypeOK, TypeOK', SafetyInv,
         NEW o \in Honest, NEW r \in Nat, decided[o] = NoValue,
         BumpToRound(o, r),
         \/ UNCHANGED roundChanges
         \/ /\ r > round[o]
            /\ roundChanges' = roundChanges \cup {CreateRoundChange(o, r)},
         UNCHANGED <<lock, decided, prepareContainer, commitContainer,
                     prepares, commits>>
  PROVE  SafetyInv'
<1> USE DEF SafetyInv, lock
<1>1. /\ \A a \in Honest : round[a] \in Nat /\ round'[a] \in Nat
      /\ \A a \in Honest \ {o} : round'[a] = round[a] /\ accepted'[a] = accepted[a]
      /\ round'[o] >= round[o] /\ round'[o] >= r
      /\ round'[o] = round[o] => accepted'[o] = accepted[o]
  BY DEF BumpToRound, RoundAfterBump, AcceptedAfterBump, TypeOK
<1>2. \A m \in prepares : m \in Vote
  BY DEF TypeOK
<1>3. PreparesBounded'
  BY <1>1, <1>2, VoteFields DEF PreparesBounded
<1>4. PreparesOnce' /\ PreparesChecked'
  BY DEF PreparesOnce, PreparesChecked
<1>5. PrepareContainerSigned'
  <2> SUFFICES ASSUME NEW a \in Honest, NEW m \in prepareContainer[a]
               PROVE  /\ PrepareSigned(m)'
                      /\ decided'[a] = NoValue =>
                           /\ m.round =< round'[a]
                           /\ m.round = round'[a] => m.root = accepted'[a]
    BY DEF PrepareContainerSigned
  <2>1. m \in Vote
    BY DEF TypeOK
  <2>2. QED
    BY <1>1, <2>1, VoteFields DEF PrepareContainerSigned, PrepareSigned
<1>6. CommitContainerSigned'
  BY DEF CommitContainerSigned, CommitSigned
<1>7. CommitsPrepared'
  BY PrepareQuorumStable DEF CommitsPrepared
<1>8. LockHeld'
  BY <1>1 DEF LockHeld, TypeOK
<1>9. RoundChangesBounded'
  <2> SUFFICES ASSUME NEW rc \in roundChanges'
               PROVE  /\ rc.signer \in Honest
                      /\ decided'[rc.signer] = NoValue => rc.round =< round'[rc.signer]
    BY DEF RoundChangesBounded
  <2>1. CASE rc \in roundChanges
    <3>1. rc.round \in Nat
      BY <2>1 DEF TypeOK, RoundChange
    <3>2. QED
      BY <1>1, <2>1, <3>1 DEF RoundChangesBounded
  <2>2. CASE r > round[o] /\ rc = CreateRoundChange(o, r)
    <3>1. rc.signer = o /\ rc.round = r
      BY <2>2 DEF CreateRoundChange
    <3>2. QED
      BY <1>1, <3>1
  <2>3. QED
    BY <2>1, <2>2
<1>10. LockIsAnnounced'
  <2> SUFFICES ASSUME NEW c \in commits, NEW rc \in roundChanges',
                      c.signer = rc.signer, c.round < rc.round
               PROVE  c.round =< rc.dataRound /\ rc.dataRound < rc.round
    BY DEF LockIsAnnounced
  <2>1. CASE rc \in roundChanges
    BY <2>1 DEF LockIsAnnounced
  <2>2. CASE r > round[o] /\ rc = CreateRoundChange(o, r)
    <3>1. rc.signer = o /\ rc.round = r
      BY <2>2 DEF CreateRoundChange
    <3>2. c.round \in Nat \ {NoRound} /\ c.round =< preparedRound[o]
      BY <3>1, VoteFields DEF TypeOK, CommitsPrepared
    <3>3. preparedRound[o] \in Nat /\ preparedRound[o] # NoRound
      BY <3>2 DEF TypeOK, NoRound
    <3>4. rc.dataRound = preparedRound[o]
      BY <2>2, <3>3 DEF CreateRoundChange, LockHeld
    <3>5. preparedRound[o] =< round[o]
      BY DEF LockHeld
    <3>6. QED
      BY <1>1, <2>2, <3>1, <3>2, <3>3, <3>4, <3>5
  <2>3. QED
    BY <2>1, <2>2
<1>11. PreparesSafe'
  BY <1>1, BlockedStable, SilenceKept DEF PreparesSafe
<1>12. DecidedCertified'
  BY CommitQuorumStable DEF DecidedCertified
<1>13. QED
  BY <1>3, <1>4, <1>5, <1>6, <1>7, <1>8, <1>9, <1>10, <1>11, <1>12

\* An undecided operator decides what a quorum of commits certifies.
LEMMA SafetyDecide ==
  ASSUME TypeOK, TypeOK', SafetyInv, CommitContainerSigned',
         NEW o \in Honest, NEW r \in Nat, NEW v \in Values,
         CommitQuorumSigned(r, v), MarkDecided(o, r, v),
         UNCHANGED <<accepted, lock, prepareContainer, prepares, commits,
                     roundChanges>>
  PROVE  SafetyInv'
<1> USE DEF SafetyInv, lock
<1>1. /\ decided'[o] = v /\ v # NoValue
      /\ \A a \in Honest \ {o} : decided'[a] = decided[a] /\ round'[a] = round[a]
  BY ConstantsAssumption DEF MarkDecided, TypeOK
<1>2. /\ PreparesBounded' /\ PreparesOnce' /\ PreparesChecked'
      /\ LockHeld' /\ RoundChangesBounded' /\ LockIsAnnounced'
  BY <1>1 DEF PreparesBounded, PreparesOnce, PreparesChecked, LockHeld,
              RoundChangesBounded, LockIsAnnounced
<1>3. PrepareContainerSigned'
  BY <1>1 DEF PrepareContainerSigned, PrepareSigned
<1>4. CommitsPrepared'
  BY <1>1, PrepareQuorumStable DEF CommitsPrepared
<1>5. DecidedCertified'
  BY <1>1, CommitQuorumStable DEF DecidedCertified
<1>6. \A a \in Honest : /\ decided[a] # NoValue => decided'[a] # NoValue
                        /\ decided'[a] # NoValue \/ round[a] =< round'[a]
  BY <1>1 DEF TypeOK
<1>7. PreparesSafe'
  BY <1>6, BlockedStable, SilenceKept DEF PreparesSafe
<1>8. QED
  BY <1>2, <1>3, <1>4, <1>5, <1>7

\* A commit of a peer, and the decision if it completes a quorum.
LEMMA SafetyCommit ==
  ASSUME TypeOK, TypeOK', SafetyInv,
         NEW o \in Honest, NEW m \in commits \cup ByzCommits, UponCommit(o, m)
  PROVE  SafetyInv'
<1> USE DEF SafetyInv
<1>1. m \in Vote /\ CommitSigned(m)
  BY ConstantsAssumption DEF TypeOK, CommitSigned
<1>2. UNCHANGED <<accepted, lock, prepareContainer, prepares, commits, roundChanges>>
  BY DEF UponCommit, network
<1>3. CommitContainerSigned'
  BY <1>1, <1>2 DEF UponCommit, CommitContainerSigned, CommitSigned, TypeOK
<1>4. CASE UNCHANGED <<decided, round>>
  <2>1. PrepareContainerSigned'
    BY <1>2, <1>4 DEF PrepareContainerSigned, PrepareSigned
  <2>2. QED
    BY <1>2, <1>3, <1>4, <2>1, SafetyIdle
<1>5. CASE MarkDecided(o, m.round, accepted[o])
  <2> DEFINE before == {c \in MessagesForRound(commitContainer[o], m.round) :
                          c.root = m.root}
             S == {s \in Operators :
                     CommitSigned([round |-> m.round, root |-> m.root, signer |-> s])}
  <2>1. m.root = accepted[o] /\ m.round \in Nat /\ m.root \in Values
    BY <1>1, VoteFields DEF UponCommit
  <2>2. CASE ~HasQuorum(Signers(before \cup {m}))
    BY <1>2, <1>3, <1>4, <2>2 DEF UponCommit
  <2>3. CASE HasQuorum(Signers(before \cup {m}))
    <3>1. Signers(before \cup {m}) \subseteq S
      <4> SUFFICES ASSUME NEW c \in before \cup {m}
                   PROVE  c.signer \in S
        BY DEF Signers
      <4>1. /\ c \in Vote /\ CommitSigned(c)
            /\ c.round = m.round /\ c.root = m.root
        BY <1>1 DEF MessagesForRound, TypeOK, CommitContainerSigned
      <4>2. QED
        BY <4>1, VoteFields
    <3>2. CommitQuorumSigned(m.round, m.root)
      BY <2>3, <3>1, QuorumMonotone DEF CommitQuorumSigned
    <3>3. QED
      BY <1>2, <1>3, <1>5, <2>1, <3>2, SafetyDecide
  <2>4. QED
    BY <2>2, <2>3
<1>6. QED
  BY <1>4, <1>5 DEF UponCommit

\* A prepare of a peer, and the lock and the commit if it completes a quorum.
LEMMA SafetyPrepare ==
  ASSUME TypeOK, TypeOK', SafetyInv,
         NEW o \in Honest, NEW m \in prepares \cup ByzPrepares, UponPrepare(o, m)
  PROVE  SafetyInv'
<1> USE DEF SafetyInv
<1>1. m \in Vote /\ PrepareSigned(m)
  BY ConstantsAssumption DEF TypeOK, PrepareSigned
<1>2. /\ UNCHANGED <<round, accepted, decided, commitContainer, prepares, roundChanges>>
      /\ decided[o] = NoValue /\ accepted[o] # NoValue
      /\ m.round = round[o] /\ m.root = accepted[o]
      /\ prepareContainer' = [prepareContainer EXCEPT ![o] = @ \cup {m}]
  BY DEF UponPrepare, CanProcess, ValidPrepareForRoundAndRoot
<1>3. PrepareContainerSigned'
  <2> SUFFICES ASSUME NEW a \in Honest, NEW q \in prepareContainer'[a]
               PROVE  /\ PrepareSigned(q)'
                      /\ decided'[a] = NoValue =>
                           /\ q.round =< round'[a]
                           /\ q.round = round'[a] => q.root = accepted'[a]
    BY DEF PrepareContainerSigned
  <2>1. PrepareSigned(q)' = PrepareSigned(q)
    BY <1>2 DEF PrepareSigned
  <2>2. CASE q \in prepareContainer[a]
    BY <1>2, <2>1, <2>2 DEF PrepareContainerSigned
  <2>3. CASE a = o /\ q = m
    BY <1>1, <1>2, <2>1, <2>3 DEF TypeOK
  <2>4. QED
    BY <1>2, <2>2, <2>3 DEF TypeOK
<1>4. CASE UNCHANGED <<lock, commits>>
  <2>1. CommitContainerSigned'
    BY <1>2, <1>4 DEF CommitContainerSigned, CommitSigned
  <2>2. QED
    BY <1>2, <1>3, <1>4, <2>1, SafetyIdle
<1> DEFINE before == MessagesForRound(prepareContainer[o], round[o])
           commit == [round |-> round[o], root |-> accepted[o], signer |-> o]
           S == {s \in Operators :
                   PrepareSigned([round |-> round[o], root |-> accepted[o],
                                  signer |-> s])}
<1>5. CASE /\ HasQuorum(Signers(before \cup {m}))
           /\ preparedValue' = [preparedValue EXCEPT ![o] = accepted[o]]
           /\ preparedRound' = [preparedRound EXCEPT ![o] = round[o]]
           /\ commits' = commits \cup {commit}
  <2>1. Signers(before \cup {m}) \subseteq S
    <3> SUFFICES ASSUME NEW c \in before \cup {m}
                 PROVE  c.signer \in S
      BY DEF Signers
    <3>1. /\ c \in Vote /\ PrepareSigned(c)
          /\ c.round = round[o] /\ c.root = accepted[o]
      BY <1>1, <1>2 DEF MessagesForRound, TypeOK, PrepareContainerSigned
    <3>2. QED
      BY <3>1, VoteFields
  <2>2. PrepareQuorumSigned(round[o], accepted[o])
    BY <1>5, <2>1, QuorumMonotone DEF PrepareQuorumSigned
  <2>3. /\ round[o] \in Nat \ {NoRound} /\ accepted[o] \in Values /\ o \in Operators
        /\ \A a \in Honest : preparedRound[a] \in Nat
        /\ preparedRound'[o] = round[o] /\ preparedValue'[o] = accepted[o]
        /\ \A a \in Honest \ {o} : /\ preparedRound'[a] = preparedRound[a]
                                   /\ preparedValue'[a] = preparedValue[a]
    BY <1>2, <1>5 DEF TypeOK, Honest
  <2>4. PreparesBounded' /\ PreparesOnce' /\ PreparesChecked' /\ RoundChangesBounded'
    BY <1>2 DEF PreparesBounded, PreparesOnce, PreparesChecked, RoundChangesBounded
  <2>5. CommitContainerSigned'
    BY <1>2, <1>5 DEF CommitContainerSigned, CommitSigned
  <2>6. CommitsPrepared'
    <3> SUFFICES ASSUME NEW c \in commits'
                 PROVE  /\ c.signer \in Honest
                        /\ PrepareQuorumSigned(c.round, c.root)'
                        /\ decided'[c.signer] = NoValue =>
                             c.round =< preparedRound'[c.signer]
      BY DEF CommitsPrepared
    <3>1. PrepareQuorumSigned(c.round, c.root)
      BY <1>5, <2>2 DEF CommitsPrepared
    <3>2. PrepareQuorumSigned(c.round, c.root)'
      BY <1>2, <3>1, PrepareQuorumStable
    <3>3. CASE c = commit
      BY <1>2, <2>3, <3>2, <3>3
    <3>4. CASE c \in commits
      <4>1. c.round \in Nat /\ c.signer \in Honest
        BY <3>4, VoteFields DEF TypeOK, CommitsPrepared
      <4>2. decided[c.signer] = NoValue => c.round =< preparedRound[c.signer]
        BY <3>4 DEF CommitsPrepared
      <4>3. decided[o] = NoValue => preparedRound[o] =< round[o]
        BY DEF LockHeld
      <4>4. QED
        BY <1>2, <2>3, <3>2, <4>1, <4>2, <4>3
    <3>5. QED
      BY <1>5, <3>3, <3>4
  <2>7. LockHeld'
    BY <1>2, <2>3 DEF LockHeld
  <2>8. LockIsAnnounced'
    <3> SUFFICES ASSUME NEW c \in commits', NEW rc \in roundChanges,
                        c.signer = rc.signer, c.round < rc.round
                 PROVE  c.round =< rc.dataRound /\ rc.dataRound < rc.round
      BY <1>2 DEF LockIsAnnounced
    <3>1. CASE c \in commits
      BY <3>1 DEF LockIsAnnounced
    <3>2. CASE c = commit
      <4>1. rc.round \in Nat /\ rc.round =< round[o]
        BY <1>2, <3>2 DEF RoundChangesBounded, TypeOK, RoundChange
      <4>2. QED
        BY <2>3, <3>2, <4>1
    <3>3. QED
      BY <1>5, <3>1, <3>2
  <2>9. PreparesSafe'
    <3>1. ASSUME NEW a \in Honest, NEW r \in Nat, NEW w, WontCommit(a, r, w)
          PROVE  WontCommit(a, r, w)'
      <4>1. [round |-> r, root |-> w, signer |-> a] # commit
        BY <1>2, <2>3, <3>1 DEF WontCommit
      <4>2. QED
        BY <1>2, <1>5, <3>1, <4>1 DEF WontCommit
    <3>2. QED
      BY <1>2, <3>1, BlockedStable DEF PreparesSafe
  <2>10. DecidedCertified'
    BY <1>2, <1>5, CommitQuorumStable DEF DecidedCertified
  <2>11. QED
    BY <1>3, <2>4, <2>5, <2>6, <2>7, <2>8, <2>9, <2>10
<1>6. QED
  BY <1>4, <1>5 DEF UponPrepare

\* The heart of the argument: the round changes that justify a proposal block
\* every other value in every earlier round.  If one of them is prepared in a
\* round above r, a correct operator prepared the value there and the others
\* are blocked already; if not, none of the correct senders can have committed
\* to another value in r, and none will.
LEMMA JustifiedIsSafe ==
  ASSUME TypeOK, SafetyInv, Cardinality(Byzantine) =< FaultyNodes,
         NEW o \in Honest, NEW p \in Proposal, p.round # FirstRound,
         RoundChangesJustify(p.roundChanges, p.justification, p.round, p.value),
         NEW r \in Nat, r < p.round, NEW w \in Values, w # p.value
  PROVE  Blocked(r, w)
<1> USE DEF SafetyInv
<1> DEFINE rcs == p.roundChanges
<1>1. /\ rcs \subseteq RoundChange /\ HasQuorum(Signers(rcs))
      /\ p.round \in Nat /\ p.value \in Values
  BY DEF Proposal, RoundChangesJustify
<1>2. \A rc \in rcs :
        /\ rc.round = p.round /\ RoundChangeSigned(rc) /\ rc.dataRound \in Nat
        /\ rc.dataRound # NoRound => PrepareQuorumSigned(rc.dataRound, p.value)
  BY <1>1 DEF RoundChangesJustify, ValidRoundChangeForData, RoundChangePrepared,
              RoundChange
<1>3. CASE \E rc \in rcs : rc.dataRound > r
  <2>1. PICK rc \in rcs : rc.dataRound > r
    BY <1>3
  <2>2. PrepareQuorumSigned(rc.dataRound, p.value) /\ rc.dataRound \in Nat
    BY <1>2, <2>1 DEF NoRound
  <2>3. PICK h \in Honest :
          [round |-> rc.dataRound, root |-> p.value, signer |-> h] \in prepares
    BY <2>2, PrepareQuorumWitness
  <2>4. QED
    BY <2>1, <2>2, <2>3 DEF PreparesSafe
<1>4. CASE \A rc \in rcs : ~(rc.dataRound > r)
  <2>1. Signers(rcs) \subseteq Operators
    BY <1>1 DEF Signers, RoundChange
  <2>2. ASSUME NEW a \in Signers(rcs) \cap Honest
        PROVE  WontCommit(a, r, w)
    <3>1. PICK rc \in rcs : rc.signer = a
      BY DEF Signers
    <3>2. rc \in roundChanges /\ rc.round = p.round
      BY <1>2, <3>1 DEF RoundChangeSigned, Honest
    <3>3. decided[a] # NoValue \/ round[a] > r
      BY <1>1, <3>1, <3>2 DEF RoundChangesBounded, TypeOK
    <3>4. [round |-> r, root |-> w, signer |-> a] \notin commits
      <4> DEFINE c == [round |-> r, root |-> w, signer |-> a]
      <4> SUFFICES ASSUME c \in commits
                   PROVE  FALSE
        OBVIOUS
      <4>1. r =< rc.dataRound
        BY <3>1, <3>2 DEF LockIsAnnounced
      <4>2. r = rc.dataRound
        BY <1>2, <1>4, <3>1, <4>1
      <4>3. r # NoRound
        BY VoteFields DEF TypeOK
      <4>4. PrepareQuorumSigned(r, p.value)
        BY <1>2, <3>1, <4>2, <4>3
      <4>5. PrepareQuorumSigned(r, w)
        BY DEF CommitsPrepared
      <4>6. QED
        BY <4>4, <4>5, PrepareQuorumUnique
    <3>5. QED
      BY <3>3, <3>4 DEF WontCommit
  <2>3. QED
    BY <1>1, <2>1, <2>2 DEF Blocked
<1>5. QED
  BY <1>3, <1>4

\* A proposal is accepted and prepared, or the operator gives up at the cutoff.
LEMMA SafetyProposal ==
  ASSUME TypeOK, TypeOK', SafetyInv, Cardinality(Byzantine) =< FaultyNodes,
         NEW o \in Honest, NEW p \in Proposal, UponProposal(o, p)
  PROVE  SafetyInv'
<1> USE DEF SafetyInv, lock
<1>1. /\ UNCHANGED <<lock, decided, prepareContainer, commitContainer, commits,
                     roundChanges>>
      /\ round' = [round EXCEPT ![o] = RoundAfterBump(o, p.round)]
      /\ decided[o] = NoValue /\ p.round >= round[o]
      /\ p.round = round[o] => accepted[o] = NoValue
      /\ p.value \in CheckValue[o]
      /\ p.round # FirstRound =>
           RoundChangesJustify(p.roundChanges, p.justification, p.round, p.value)
  BY DEF UponProposal, CanProcess, IsValidProposal, IsProposalJustification, TypeOK
<1>2. p.round \in Nat /\ p.value \in Values /\ round[o] \in Nat \ {NoRound}
  BY DEF Proposal, TypeOK
<1>3. CASE UNCHANGED prepares /\ accepted' = [accepted EXCEPT ![o] = AcceptedAfterBump(o, p.round)]
  BY <1>1, <1>2, <1>3, SafetyAdvance DEF BumpToRound
<1> DEFINE prepare == [round |-> p.round, root |-> p.value, signer |-> o]
<1>4. CASE /\ accepted' = [accepted EXCEPT ![o] = p.value]
           /\ prepares' = prepares \cup {prepare}
  <2>1. /\ \A a \in Honest : round[a] \in Nat
        /\ \A a \in Honest \ {o} : round'[a] = round[a] /\ accepted'[a] = accepted[a]
        /\ round'[o] = p.round /\ accepted'[o] = p.value
    BY <1>1, <1>2, <1>4 DEF RoundAfterBump, TypeOK
  <2>2. \A m \in prepares : m.signer = o => m.round < p.round
    <3> SUFFICES ASSUME NEW m \in prepares, m.signer = o
                 PROVE  m.round < p.round
      OBVIOUS
    <3>1. m.round \in Nat /\ m.root \in Values
      BY VoteFields DEF TypeOK
    <3>2. /\ m.round =< round[o]
          /\ m.round = round[o] => accepted[o] = m.root
      BY <1>1 DEF PreparesBounded
    <3>3. QED
      BY <1>1, <1>2, <3>1, <3>2, ConstantsAssumption
  <2>3. PreparesBounded'
    <3> SUFFICES ASSUME NEW m \in prepares'
                 PROVE  /\ m.signer \in Honest
                        /\ decided'[m.signer] = NoValue =>
                             /\ m.round =< round'[m.signer]
                             /\ m.round = round'[m.signer] =>
                                  accepted'[m.signer] = m.root
      BY DEF PreparesBounded
    <3>1. CASE m = prepare
      BY <1>2, <2>1, <3>1
    <3>2. CASE m \in prepares
      <4>1. m.round \in Nat /\ m.signer \in Honest
        BY <3>2, VoteFields DEF TypeOK, PreparesBounded
      <4>2. CASE m.signer = o
        BY <1>2, <2>1, <2>2, <3>2, <4>1, <4>2
      <4>3. CASE m.signer # o
        BY <1>1, <2>1, <3>2, <4>1, <4>3 DEF PreparesBounded
      <4>4. QED
        BY <4>2, <4>3
    <3>3. QED
      BY <1>4, <3>1, <3>2
  <2>4. PreparesOnce'
    <3>1. \A m \in prepares : m.signer = o => m.round # p.round
      BY <1>2, <2>2, VoteFields DEF TypeOK
    <3>2. QED
      BY <1>4, <3>1 DEF PreparesOnce
  <2>5. PreparesChecked'
    BY <1>1, <1>4 DEF PreparesChecked
  <2>6. PrepareContainerSigned'
    <3> SUFFICES ASSUME NEW a \in Honest, NEW m \in prepareContainer[a]
                 PROVE  /\ PrepareSigned(m)'
                        /\ decided'[a] = NoValue =>
                             /\ m.round =< round'[a]
                             /\ m.round = round'[a] => m.root = accepted'[a]
      BY <1>1 DEF PrepareContainerSigned
    <3>1. m.round \in Nat /\ m.root \in Values /\ m.root # NoValue
      BY VoteFields, ConstantsAssumption DEF TypeOK
    <3>2. PrepareSigned(m)'
      BY <1>4 DEF PrepareContainerSigned, PrepareSigned
    <3>3. decided[a] = NoValue =>
            m.round =< round[a] /\ (m.round = round[a] => m.root = accepted[a])
      BY DEF PrepareContainerSigned
    <3>4. QED
      BY <1>1, <1>2, <2>1, <3>1, <3>2, <3>3
  <2>7. CommitContainerSigned' /\ DecidedCertified'
    BY <1>1, CommitQuorumStable
    DEF CommitContainerSigned, CommitSigned, DecidedCertified
  <2>8. CommitsPrepared'
    BY <1>1, <1>4, PrepareQuorumStable DEF CommitsPrepared
  <2>9. LockHeld'
    BY <1>1, <1>2, <2>1 DEF LockHeld, TypeOK
  <2>10. RoundChangesBounded'
    <3> SUFFICES ASSUME NEW rc \in roundChanges
                 PROVE  /\ rc.signer \in Honest
                        /\ decided'[rc.signer] = NoValue =>
                             rc.round =< round'[rc.signer]
      BY <1>1 DEF RoundChangesBounded
    <3>1. rc.round \in Nat
      BY DEF TypeOK, RoundChange
    <3>2. QED
      BY <1>1, <1>2, <2>1, <3>1 DEF RoundChangesBounded
  <2>11. LockIsAnnounced'
    BY <1>1 DEF LockIsAnnounced
  <2>12. ASSUME NEW a \in Honest, NEW r \in Nat, NEW w, WontCommit(a, r, w)
         PROVE  WontCommit(a, r, w)'
    BY <1>1, <1>2, <2>1, <2>12, SilenceKept
  <2>13. PreparesSafe'
    <3> SUFFICES ASSUME NEW m \in prepares', NEW r \in Nat, NEW w \in Values,
                        r < m.round, w # m.root
                 PROVE  Blocked(r, w)'
      BY DEF PreparesSafe
    <3>1. CASE m \in prepares
      BY <2>12, <3>1, BlockedStable DEF PreparesSafe
    <3>2. CASE m = prepare /\ p.round # FirstRound
      <4>1. Blocked(r, w)
        BY <1>1, <3>2, JustifiedIsSafe
      <4>2. QED
        BY <2>12, <4>1, BlockedStable
    <3>3. CASE m = prepare /\ p.round = FirstRound
      \* Nobody commits in round 0.
      <4>1. r = 0
        BY <3>3 DEF FirstRound
      <4>2. ASSUME NEW a \in Honest
            PROVE  WontCommit(a, r, w)
        <5>1. round[a] > r
          BY <4>1 DEF TypeOK, NoRound
        <5>2. [round |-> r, root |-> w, signer |-> a] \notin commits
          BY <4>1, VoteFields DEF TypeOK, NoRound
        <5>3. QED
          BY <5>1, <5>2 DEF WontCommit
      <4>3. HasQuorum(Operators)
        BY CommitteeSize DEF HasQuorum
      <4>4. Blocked(r, w)
        BY <4>2, <4>3 DEF Blocked
      <4>5. QED
        BY <2>12, <4>4, BlockedStable
    <3>4. QED
      BY <1>4, <3>1, <3>2, <3>3
  <2>14. QED
    BY <2>3, <2>4, <2>5, <2>6, <2>7, <2>8, <2>9, <2>10, <2>11, <2>13
<1>5. QED
  BY <1>3, <1>4 DEF UponProposal

\* A round change of a peer, and the proposal or the catch-up it triggers.
LEMMA SafetyRoundChange ==
  ASSUME TypeOK, TypeOK', SafetyInv,
         NEW o \in Honest, NEW m \in roundChanges \cup ByzRoundChanges,
         UponRoundChange(o, m)
  PROVE  SafetyInv'
<1> DEFINE container == roundChangeContainer[o] \cup {m}
           rcs == MessagesForRound(container, m.round)
<1>1. /\ UNCHANGED <<lock, decided, prepareContainer, commitContainer,
                     prepares, commits>>
      /\ decided[o] = NoValue
  BY DEF UponRoundChange, CanProcess
<1>2. m.round \in Nat /\ container \subseteq RoundChange
  BY ConstantsAssumption DEF TypeOK, RoundChange
<1>3. CASE LeaderProposes(o, rcs, m.round)
  <2>1. BumpToRound(o, m.round) /\ UNCHANGED roundChanges
    BY <1>3 DEF LeaderProposes
  <2>2. QED
    BY <1>1, <1>2, <2>1, SafetyAdvance
<1>4. ASSUME NEW rc \in FutureRoundChanges(o, container),
             UponChangeRoundPartialQuorum(o, rc.round)
      PROVE  SafetyInv'
  <2>1. rc.round \in Nat /\ rc.round > round[o]
    BY <1>2 DEF FutureRoundChanges, RoundChange
  <2>2. QED
    BY <1>1, <1>4, <2>1, SafetyAdvance DEF UponChangeRoundPartialQuorum
<1>5. CASE UNCHANGED <<round, accepted, proposals, roundChanges>>
  BY <1>1, <1>5, SafetyIdle, ContainersIdle
<1>6. QED
  BY <1>3, <1>4, <1>5 DEF UponRoundChange

\* Every step preserves the invariant.
LEMMA SafetyNext ==
  ASSUME TypeOK, TypeOK', SafetyInv, Cardinality(Byzantine) =< FaultyNodes,
         [Next]_vars
  PROVE  SafetyInv'
<1>1. CASE UNCHANGED vars
  BY <1>1, SafetyIdle, ContainersIdle DEF vars, lock, containers, network
<1>2. ASSUME NEW o \in Honest, Start(o) \/ MarkIrrelevant(o)
      PROVE  SafetyInv'
  BY <1>2, SafetyIdle, ContainersIdle
  DEF Start, MarkIrrelevant, lock, containers, network
<1>3. ASSUME NEW o \in Honest, UponRoundTimeout(o)
      PROVE  SafetyInv'
  <2>1. round[o] + 1 \in Nat /\ round[o] + 1 > round[o]
    BY DEF TypeOK
  <2>2. QED
    BY <1>3, <2>1, SafetyAdvance
    DEF UponRoundTimeout, CanProcess, containers
<1>4. ASSUME NEW o \in Honest, NEW p \in proposals \cup ByzantineProposals,
             UponProposal(o, p)
      PROVE  SafetyInv'
  <2>1. p \in Proposal
    BY ByzantineProposalsType DEF TypeOK
  <2>2. QED
    BY <1>4, <2>1, SafetyProposal
<1>5. ASSUME NEW o \in Honest, NEW m \in commits \cup ByzCommits,
             UponDecided(o, m.round, m.root)
      PROVE  SafetyInv'
  <2>1. m.round \in Nat /\ m.root \in Values
    BY ConstantsAssumption, VoteFields DEF TypeOK
  <2>2. /\ CommitQuorumSigned(m.round, m.root) /\ MarkDecided(o, m.round, m.root)
        /\ UNCHANGED <<accepted, lock, prepareContainer, commitContainer,
                       prepares, commits, roundChanges>>
    BY <1>5 DEF UponDecided, containers, network
  <2>3. CommitContainerSigned'
    BY <2>2 DEF SafetyInv, CommitContainerSigned, CommitSigned
  <2>4. QED
    BY <2>1, <2>2, <2>3, SafetyDecide
<1>6. QED
  BY <1>1, <1>2, <1>3, <1>4, <1>5, SafetyPrepare, SafetyCommit,
     SafetyRoundChange
  DEF Next, Receive

-----------------------------------------------------------------------------
(* Theorems.                                                               *)

\* The invariant implies that no two correct operators decide differently.
LEMMA SafetyImpliesAgreement ==
  ASSUME TypeOK, SafetyInv, Cardinality(Byzantine) =< FaultyNodes
  PROVE  Agreement
<1> USE DEF SafetyInv
<1> DEFINE C(r, v) == {s \in Operators :
                         CommitSigned([round |-> r, root |-> v, signer |-> s])}
<1>1. ASSUME NEW r \in Nat, NEW v \in Values, CommitQuorumSigned(r, v)
      PROVE  /\ PrepareQuorumSigned(r, v)
             /\ \E h \in Honest :
                  [round |-> r, root |-> v, signer |-> h] \in prepares
  <2>1. PICK h \in Honest : [round |-> r, root |-> v, signer |-> h] \in commits
    BY <1>1, CommitQuorumWitness
  <2>2. PrepareQuorumSigned(r, v)
    BY <2>1 DEF CommitsPrepared
  <2>3. QED
    BY <2>2, PrepareQuorumWitness
<1>2. ASSUME NEW r1 \in Nat, NEW r2 \in Nat, NEW v1 \in Values, NEW v2 \in Values,
             CommitQuorumSigned(r1, v1), CommitQuorumSigned(r2, v2), r1 < r2
      PROVE  v1 = v2
  <2> SUFFICES ASSUME v1 # v2
               PROVE  FALSE
    OBVIOUS
  <2>1. PICK h \in Honest : [round |-> r2, root |-> v2, signer |-> h] \in prepares
    BY <1>1, <1>2
  <2>2. Blocked(r1, v1)
    BY <1>2, <2>1 DEF PreparesSafe
  <2>3. PICK Q \in SUBSET Operators :
          HasQuorum(Q) /\ \A a \in Q \cap Honest : WontCommit(a, r1, v1)
    BY <2>2 DEF Blocked
  <2>4. C(r1, v1) \in SUBSET Operators /\ HasQuorum(C(r1, v1))
    BY <1>2 DEF CommitQuorumSigned
  <2>5. PICK a \in Honest : a \in Q /\ a \in C(r1, v1)
    BY <2>3, <2>4, QuorumsMeet
  <2>6. [round |-> r1, root |-> v1, signer |-> a] \in commits
    BY <2>5 DEF CommitSigned, Honest
  <2>7. QED
    BY <2>3, <2>5, <2>6 DEF WontCommit
<1> SUFFICES ASSUME NEW o1 \in Honest, NEW o2 \in Honest,
                    decided[o1] # NoValue, decided[o2] # NoValue
             PROVE  decided[o1] = decided[o2]
  BY DEF Agreement
<1>3. decided[o1] \in Values /\ decided[o2] \in Values
  BY DEF TypeOK
<1>4. PICK r1 \in Nat : CommitQuorumSigned(r1, decided[o1])
  BY DEF DecidedCertified
<1>5. PICK r2 \in Nat : CommitQuorumSigned(r2, decided[o2])
  BY DEF DecidedCertified
<1>6. CASE r1 = r2
  BY <1>1, <1>3, <1>4, <1>5, <1>6, PrepareQuorumUnique
<1>7. CASE r1 < r2
  BY <1>2, <1>3, <1>4, <1>5, <1>7
<1>8. CASE r2 < r1
  BY <1>2, <1>3, <1>4, <1>5, <1>8
<1>9. QED
  BY <1>6, <1>7, <1>8

\* And that a decided value passed the check of f + 1 correct operators.
LEMMA SafetyImpliesChecked ==
  ASSUME TypeOK, SafetyInv, Cardinality(Byzantine) =< FaultyNodes
  PROVE  DecidedValueWasChecked
<1> USE DEF SafetyInv
<1> SUFFICES ASSUME NEW o \in Honest, decided[o] # NoValue
             PROVE  HasPartialQuorum({h \in Honest : decided[o] \in CheckValue[h]})
  BY DEF DecidedValueWasChecked
<1> DEFINE v == decided[o]
           K == {h \in Honest : v \in CheckValue[h]}
<1>1. PICK r \in Nat : CommitQuorumSigned(r, v)
  BY DEF DecidedCertified
<1>2. PICK h \in Honest : [round |-> r, root |-> v, signer |-> h] \in commits
  BY <1>1, CommitQuorumWitness
<1>3. PrepareQuorumSigned(r, v)
  BY <1>2 DEF CommitsPrepared
<1> DEFINE S == {s \in Operators :
                   PrepareSigned([round |-> r, root |-> v, signer |-> s])}
<1>4. HasPartialQuorum(S \cap Honest)
  BY <1>3, QuorumHonest DEF PrepareQuorumSigned
<1>5. S \cap Honest \subseteq K
  BY DEF PreparesChecked, PrepareSigned, Honest
<1>6. /\ IsFiniteSet(K) /\ Cardinality(K) \in Nat
      /\ Cardinality(S \cap Honest) \in Nat
  BY CommitteeSize DEF Honest
<1>7. Cardinality(S \cap Honest) =< Cardinality(K)
  BY <1>5, <1>6, FS_Subset
<1>8. QED
  BY <1>4, <1>6, <1>7, CommitteeSize DEF HasPartialQuorum

\* The inductive invariant holds in every reachable state, for every
\* committee with at most f Byzantine operators.
THEOREM Safety ==
  ASSUME Cardinality(Byzantine) =< FaultyNodes
  PROVE  Spec => [](TypeOK /\ SafetyInv)
<1>1. Init => TypeOK /\ SafetyInv
  BY TypeOKInit, SafetyInit
<1>2. (TypeOK /\ SafetyInv) /\ [Next]_vars => (TypeOK /\ SafetyInv)'
  BY TypeOKNext, SafetyNext
<1>3. QED
  BY <1>1, <1>2, PTL DEF Spec

\* Agreement: with at most f Byzantine operators among 3f + 1, no two correct
\* operators ever decide different values, in whatever rounds, through
\* uponCommit or through UponDecided.
THEOREM AgreementHolds ==
  ASSUME Cardinality(Byzantine) =< FaultyNodes
  PROVE  Spec => []Agreement
<1>1. TypeOK /\ SafetyInv => Agreement
  BY SafetyImpliesAgreement
<1>2. QED
  BY <1>1, Safety, PTL

\* External validity: what is decided passed the value check of f + 1 correct
\* operators, although a decided certificate is taken without a check.
THEOREM DecidedValueWasCheckedHolds ==
  ASSUME Cardinality(Byzantine) =< FaultyNodes
  PROVE  Spec => []DecidedValueWasChecked
<1>1. TypeOK /\ SafetyInv => DecidedValueWasChecked
  BY SafetyImpliesChecked
<1>2. QED
  BY <1>1, Safety, PTL

\* The lock that getRoundChangeData announces covers every commit sent.
THEOREM LockIsAnnouncedHolds ==
  ASSUME Cardinality(Byzantine) =< FaultyNodes
  PROVE  Spec => []LockIsAnnounced
<1>1. SafetyInv => LockIsAnnounced
  BY DEF SafetyInv
<1>2. QED
  BY <1>1, Safety, PTL

\* A decided instance never moves again, whatever the Byzantine operators do.
THEOREM DecidedIsFrozenHolds == Spec => DecidedIsFrozen
<1> DEFINE Frozen ==
      \A o \in Honest : decided[o] # NoValue =>
        /\ decided'[o] = decided[o]
        /\ round'[o] = round[o]
        /\ accepted'[o] = accepted[o]
        /\ preparedRound'[o] = preparedRound[o]
        /\ preparedValue'[o] = preparedValue[o]
        /\ roundChangeContainer'[o] = roundChangeContainer[o]
<1>1. TypeOK /\ [Next]_vars => [Frozen]_vars
  <2> SUFFICES ASSUME TypeOK, Next
               PROVE  Frozen
    BY DEF vars
  <2>1. ASSUME NEW o \in Honest, Start(o) \/ MarkIrrelevant(o)
        PROVE  Frozen
    BY <2>1 DEF Start, MarkIrrelevant, lock, containers
  <2>2. ASSUME NEW o \in Honest, UponRoundTimeout(o)
        PROVE  Frozen
    BY <2>2 DEF UponRoundTimeout, CanProcess, BumpToRound, lock, containers, TypeOK
  <2>3. ASSUME NEW o \in Honest, NEW p, UponProposal(o, p)
        PROVE  Frozen
    BY <2>3 DEF UponProposal, CanProcess, lock, TypeOK
  <2>4. ASSUME NEW o \in Honest, NEW m, UponPrepare(o, m)
        PROVE  Frozen
    BY <2>4 DEF UponPrepare, CanProcess, lock, TypeOK
  <2>5. ASSUME NEW o \in Honest, NEW m, UponCommit(o, m)
        PROVE  Frozen
    BY <2>5 DEF UponCommit, CanProcess, MarkDecided, lock, TypeOK
  <2>6. ASSUME NEW o \in Honest, NEW m, UponRoundChange(o, m)
        PROVE  Frozen
    <3>1. /\ decided[o] = NoValue
          /\ \A a \in Honest \ {o} :
               roundChangeContainer'[a] = roundChangeContainer[a]
          /\ UNCHANGED <<lock, decided>>
      BY <2>6 DEF UponRoundChange, CanProcess, TypeOK
    <3>2. \A a \in Honest \ {o} : round'[a] = round[a] /\ accepted'[a] = accepted[a]
      <4>1. \/ \E r : BumpToRound(o, r)
            \/ UNCHANGED <<round, accepted>>
        BY <2>6 DEF UponRoundChange, LeaderProposes, UponChangeRoundPartialQuorum
      <4>2. QED
        BY <4>1 DEF BumpToRound, TypeOK
    <3>3. QED
      BY <3>1, <3>2 DEF lock
  <2>7. ASSUME NEW o \in Honest, NEW r, NEW v, UponDecided(o, r, v)
        PROVE  Frozen
    BY <2>7 DEF UponDecided, MarkDecided, lock, containers, TypeOK
  <2>8. QED
    BY <2>1, <2>2, <2>3, <2>4, <2>5, <2>6, <2>7 DEF Next, Receive
<1>2. QED
  BY <1>1, TypeCorrect, PTL DEF Spec, DecidedIsFrozen

-----------------------------------------------------------------------------
(* What correct operators broadcast.                                       *)

\* Correct operators ask for later rounds than the first only, and containers
\* hold signed round changes.
RoundChangesLater == \A rc \in roundChanges : rc.round > FirstRound
RoundChangeContainerSigned ==
  \A o \in Honest : \A m \in roundChangeContainer[o] : RoundChangeSigned(m)

\* A proposal of the first round is the start value; one of a later round was
\* sent as the container of its leader got a quorum of round changes.
ProposalsFollowQuorums ==
  \A p \in proposals :
    /\ p.signer \in Honest
    /\ p.round = FirstRound => p.value = StartValue[p.signer]
    /\ p.round # FirstRound => HadQuorumBefore(p.signer, p.round)
ProposesOncePerRound ==
  \A p1, p2 \in proposals :
    p1.signer = p2.signer /\ p1.round = p2.round => p1.value = p2.value

\* The prepares behind an operator's lock are still in its container.
LockJustified ==
  \A o \in Honest :
    preparedRound[o] # NoRound =>
      HasQuorum(Signers({m \in prepareContainer[o] :
        ValidPrepareForRoundAndRoot(m, preparedRound[o], preparedValue[o])}))

RoundChangesValid ==
  \A rc \in roundChanges : ValidRoundChangeForData(rc, rc.round, rc.value)
ProposalsJustified ==
  \A p \in proposals :
    /\ p.signer = Proposer(p.round)
    /\ p.round # FirstRound =>
         RoundChangesJustify(p.roundChanges, p.justification, p.round, p.value)

BroadcastInv ==
  /\ RoundChangesLater /\ RoundChangeContainerSigned
  /\ ProposalsFollowQuorums /\ ProposesOncePerRound
  /\ LockJustified /\ RoundChangesValid /\ ProposalsJustified

\* An instance that was not started and did not decide is in the first round.
FreshInstances ==
  \A o \in Honest : o \notin started /\ decided[o] = NoValue => round[o] = FirstRound

\* Messages are only ever added, to the network and to the containers.
LEMMA MessagesAreKept ==
  ASSUME TypeOK, [Next]_vars
  PROVE  /\ prepares \subseteq prepares' /\ roundChanges \subseteq roundChanges'
         /\ \A a \in Honest : /\ prepareContainer[a] \subseteq prepareContainer'[a]
                              /\ roundChangeContainer[a] \subseteq roundChangeContainer'[a]
<1> DEFINE Kept ==
      /\ prepares \subseteq prepares' /\ roundChanges \subseteq roundChanges'
      /\ \A a \in Honest : /\ prepareContainer[a] \subseteq prepareContainer'[a]
                           /\ roundChangeContainer[a] \subseteq roundChangeContainer'[a]
<1>1. ASSUME NEW o \in Honest, Start(o) \/ MarkIrrelevant(o) PROVE Kept
  BY <1>1 DEF Start, MarkIrrelevant, containers, network
<1>2. ASSUME NEW o \in Honest, UponRoundTimeout(o) PROVE Kept
  BY <1>2 DEF UponRoundTimeout, containers
<1>3. ASSUME NEW o \in Honest, NEW p, UponProposal(o, p) PROVE Kept
  BY <1>3 DEF UponProposal
<1>4. ASSUME NEW o \in Honest, NEW m, UponPrepare(o, m) PROVE Kept
  BY <1>4 DEF UponPrepare, TypeOK
<1>5. ASSUME NEW o \in Honest, NEW m, UponCommit(o, m) PROVE Kept
  BY <1>5 DEF UponCommit, network
<1>6. ASSUME NEW o \in Honest, NEW m, UponRoundChange(o, m) PROVE Kept
  <2>1. /\ roundChangeContainer' = [roundChangeContainer EXCEPT ![o] = @ \cup {m}]
        /\ UNCHANGED <<prepareContainer, prepares>>
    BY <1>6 DEF UponRoundChange
  <2>2. roundChanges \subseteq roundChanges'
    BY <1>6 DEF UponRoundChange, LeaderProposes, UponChangeRoundPartialQuorum
  <2>3. QED BY <2>1, <2>2 DEF TypeOK
<1>7. ASSUME NEW o \in Honest, NEW r, NEW v, UponDecided(o, r, v) PROVE Kept
  BY <1>7 DEF UponDecided, containers, network
<1>8. CASE UNCHANGED vars
  BY <1>8 DEF vars, containers, network
<1>9. QED
  BY <1>1, <1>2, <1>3, <1>4, <1>5, <1>6, <1>7, <1>8 DEF Next, Receive

\* So what was valid, justified or a quorum stays so.
LEMMA ValidStable ==
  ASSUME prepares \subseteq prepares', NEW rc, NEW r, NEW v,
         ValidRoundChangeForData(rc, r, v)
  PROVE  ValidRoundChangeForData(rc, r, v)'
BY PrepareQuorumStable DEF ValidRoundChangeForData, RoundChangePrepared

LEMMA JustifyStable ==
  ASSUME prepares \subseteq prepares', roundChanges \subseteq roundChanges',
         NEW rcs, NEW j, NEW r, NEW v, RoundChangesJustify(rcs, j, r, v)
  PROVE  RoundChangesJustify(rcs, j, r, v)'
<1>1. \A rc \in rcs :
        ValidRoundChangeForData(rc, r, v)' /\ RoundChangeSigned(rc)'
  BY ValidStable DEF RoundChangesJustify, RoundChangeSigned
<1>2. HasQuorum(Signers(rcs))'
  BY DEF RoundChangesJustify, HasQuorum, Signers
<1>3. ASSUME \E rc \in rcs : RoundChangePrepared(rc)
      PROVE  \E rc \in rcs :
               /\ IsHighestPrepared(rc, rcs)
               /\ v = rc.value /\ j = rc.dataRound
               /\ PrepareQuorumSigned(rc.dataRound, rc.value)'
  BY <1>3, PrepareQuorumStable DEF RoundChangesJustify
<1>4. QED
  BY <1>1, <1>2, <1>3 DEF RoundChangesJustify, IsHighestPrepared, RoundChangePrepared

LEMMA HadQuorumStable ==
  ASSUME TypeOK', NEW o \in Honest, NEW r,
         roundChangeContainer[o] \subseteq roundChangeContainer'[o], HadQuorumBefore(o, r)
  PROVE  HadQuorumBefore(o, r)'
<1> DEFINE S == Signers(MessagesForRound(roundChangeContainer[o], r))
           T == Signers(MessagesForRound(roundChangeContainer'[o], r))
<1>1. S \subseteq T
  BY DEF Signers, MessagesForRound
<1>2. T \subseteq Operators
  BY DEF Signers, MessagesForRound, TypeOK, RoundChange
<1>3. HasQuorum(T)
  BY <1>1, <1>2, QuorumMonotone DEF HadQuorumBefore
<1>4. QED
  BY <1>3 DEF HadQuorumBefore, HasQuorum, Signers, MessagesForRound

\* A round change that is sent is made by an undecided operator for a round
\* ahead of its own.
LEMMA NewRoundChanges ==
  ASSUME TypeOK, Next, NEW rc \in roundChanges' \ roundChanges
  PROVE  \E o \in Honest : \E r \in Nat :
           decided[o] = NoValue /\ r > round[o] /\ rc = CreateRoundChange(o, r)
<1>1. ASSUME NEW o \in Honest, UponRoundTimeout(o)
      PROVE  \E r \in Nat :
               decided[o] = NoValue /\ r > round[o] /\ rc = CreateRoundChange(o, r)
  <2>1. round[o] + 1 \in Nat /\ round[o] + 1 > round[o]
    BY DEF TypeOK
  <2>2. decided[o] = NoValue /\ rc = CreateRoundChange(o, round[o] + 1)
    BY <1>1 DEF UponRoundTimeout, CanProcess
  <2>3. QED BY <2>1, <2>2
<1>2. ASSUME NEW o \in Honest, NEW m \in roundChanges \cup ByzRoundChanges,
             UponRoundChange(o, m)
      PROVE  \E r \in Nat :
               decided[o] = NoValue /\ r > round[o] /\ rc = CreateRoundChange(o, r)
  <2> DEFINE container == roundChangeContainer[o] \cup {m}
  <2>1. PICK q \in FutureRoundChanges(o, container) : UponChangeRoundPartialQuorum(o, q.round)
    BY <1>2 DEF UponRoundChange, LeaderProposes
  <2>2. container \subseteq RoundChange
    BY ConstantsAssumption DEF TypeOK
  <2>3. q.round \in Nat /\ q.round > round[o]
    BY <2>2 DEF FutureRoundChanges, RoundChange
  <2>4. decided[o] = NoValue /\ rc = CreateRoundChange(o, q.round)
    BY <1>2, <2>1 DEF UponRoundChange, CanProcess, UponChangeRoundPartialQuorum
  <2>5. QED BY <2>3, <2>4
<1>3. \E o \in Honest : UponRoundTimeout(o) \/ \E m \in roundChanges \cup ByzRoundChanges : UponRoundChange(o, m)
  BY ZenonT(40) DEF Next, Receive, Start, MarkIrrelevant, UponProposal, UponPrepare, UponCommit,
         UponDecided, network
<1>4. QED BY <1>1, <1>2, <1>3

\* A proposal that is sent is the start value at the start, or follows the
\* first quorum of round changes in its leader's container.
LEMMA NewProposals ==
  ASSUME TypeOK, Next, NEW p \in proposals' \ proposals
  PROVE  \E o \in Honest :
           /\ p.signer = o /\ Proposer(p.round) = o
           /\ \/ p.round = FirstRound /\ p.value = StartValue[o]
              \/ /\ ~HadQuorumBefore(o, p.round)
                 /\ p.roundChanges = MessagesForRound(roundChangeContainer'[o], p.round)
                 /\ HasQuorum(Signers(p.roundChanges))
                 /\ IsProposalJustification(o, p.roundChanges, p.justification,
                                            p.round, p.value)
<1>1. ASSUME NEW o \in Honest, Start(o)
      PROVE  /\ p.signer = o /\ Proposer(p.round) = o
             /\ p.round = FirstRound /\ p.value = StartValue[o]
  BY <1>1 DEF Start
<1>2. ASSUME NEW o \in Honest, NEW m \in roundChanges \cup ByzRoundChanges,
             UponRoundChange(o, m)
      PROVE  /\ p.signer = o /\ Proposer(p.round) = o
             /\ ~HadQuorumBefore(o, p.round)
             /\ p.roundChanges = MessagesForRound(roundChangeContainer'[o], p.round)
             /\ HasQuorum(Signers(p.roundChanges))
             /\ IsProposalJustification(o, p.roundChanges, p.justification,
                                        p.round, p.value)
  <2> DEFINE rcs == MessagesForRound(roundChangeContainer[o] \cup {m}, m.round)
  <2>1. ~HadQuorumBefore(o, m.round) /\ LeaderProposes(o, rcs, m.round)
    BY <1>2, Zenon DEF UponRoundChange, UponChangeRoundPartialQuorum
  <2>2. roundChangeContainer'[o] = roundChangeContainer[o] \cup {m}
    BY <1>2 DEF UponRoundChange, TypeOK
  <2> HIDE DEF rcs
  <2>3. PICK rc \in ProposalJustificationForLeadingRound(o, rcs, m.round) :
          p = [round |-> m.round, signer |-> o, value |-> ValueToPropose(o, rc),
               roundChanges |-> rcs, justification |-> rc.justification]
    BY <2>1 DEF LeaderProposes
  <2>4. /\ HasQuorum(Signers(rcs))
        /\ IsProposalJustification(o, rcs, rc.justification, m.round, ValueToPropose(o, rc))
        /\ Proposer(m.round) = o
    BY DEF ProposalJustificationForLeadingRound
  <2>5. QED BY <2>1, <2>2, <2>3, <2>4 DEF rcs
<1>3. \E o \in Honest : Start(o) \/ \E m \in roundChanges \cup ByzRoundChanges : UponRoundChange(o, m)
  BY ZenonT(40) DEF Next, Receive, UponRoundTimeout, MarkIrrelevant, UponProposal, UponPrepare, UponCommit,
         UponDecided, network
<1>4. QED BY <1>1, <1>2, <1>3

\* A step sends at most one proposal.
LEMMA SingleProposal ==
  ASSUME [Next]_vars
  PROVE  \A p1, p2 \in proposals' \ proposals : p1 = p2
<1>1. ASSUME NEW o \in Honest, NEW m, UponRoundChange(o, m)
      PROVE  \A p1, p2 \in proposals' \ proposals : p1 = p2
  <2>1. CASE \E rcs, r : LeaderProposes(o, rcs, r)
    BY <2>1 DEF LeaderProposes
  <2>2. CASE UNCHANGED proposals
    BY <2>2
  <2>3. QED
    BY <1>1, <2>1, <2>2 DEF UponRoundChange, UponChangeRoundPartialQuorum
<1>2. ASSUME NEW o \in Honest, Start(o)
      PROVE  \A p1, p2 \in proposals' \ proposals : p1 = p2
  BY <1>2 DEF Start
<1>3. CASE UNCHANGED proposals
  BY <1>3
<1>4. QED
  BY <1>1, <1>2, <1>3, ZenonT(40) DEF Next, Receive, MarkIrrelevant, UponRoundTimeout, UponProposal,
                          UponPrepare, UponCommit, UponDecided, network, vars

\* Nothing was broadcast initially.
LEMMA BroadcastInit == Init => BroadcastInv
BY DEF Init, BroadcastInv, RoundChangesLater, RoundChangeContainerSigned,
       ProposalsFollowQuorums, ProposesOncePerRound, LockJustified, RoundChangesValid,
       ProposalsJustified

\* Round changes are stored as they arrive, signed.
LEMMA ContainerSignedStep ==
  ASSUME TypeOK, RoundChangeContainerSigned, [Next]_vars
  PROVE  RoundChangeContainerSigned'
<1>1. roundChanges \subseteq roundChanges'
  BY MessagesAreKept
<1>2. CASE UNCHANGED roundChangeContainer
  BY <1>1, <1>2 DEF RoundChangeContainerSigned, RoundChangeSigned
<1>3. ASSUME NEW o \in Honest, NEW m \in roundChanges \cup ByzRoundChanges,
             UponRoundChange(o, m)
      PROVE  RoundChangeContainerSigned'
  <2>1. roundChangeContainer' = [roundChangeContainer EXCEPT ![o] = @ \cup {m}]
    BY <1>3 DEF UponRoundChange
  <2>2. RoundChangeSigned(m)
    BY ConstantsAssumption DEF RoundChangeSigned
  <2>3. QED
    BY <1>1, <2>1, <2>2 DEF RoundChangeContainerSigned, RoundChangeSigned, TypeOK
<1>4. QED
  BY <1>2, <1>3, ZenonT(40) DEF Next, Receive, Start, MarkIrrelevant, UponRoundTimeout, UponProposal,
                    UponPrepare, UponCommit, UponDecided, containers, vars

\* The prepares behind the lock are stored before it is taken, and stay.
LEMMA LockJustifiedStep ==
  ASSUME TypeOK, TypeOK', SafetyInv, LockJustified, [Next]_vars
  PROVE  LockJustified'
<1> DEFINE Behind(a, r, v) == Signers({m \in prepareContainer[a] :
                                         ValidPrepareForRoundAndRoot(m, r, v)})
           BehindNext(a, r, v) == Signers({m \in prepareContainer'[a] :
                                         ValidPrepareForRoundAndRoot(m, r, v)})
<1>1. \A a \in Honest : \A r, v : /\ Behind(a, r, v) \subseteq BehindNext(a, r, v)
                                  /\ BehindNext(a, r, v) \subseteq Operators
  <2>1. \A a \in Honest : prepareContainer[a] \subseteq prepareContainer'[a]
    BY MessagesAreKept
  <2>2. \A a \in Honest : prepareContainer'[a] \subseteq Vote
    BY DEF TypeOK
  <2>3. QED
    BY <2>1, <2>2, VoteFields DEF Signers
<1>2. SUFFICES \A a \in Honest : preparedRound'[a] # NoRound =>
                 HasQuorum(BehindNext(a, preparedRound'[a], preparedValue'[a]))
  BY DEF LockJustified, HasQuorum, Signers, ValidPrepareForRoundAndRoot
<1>3. ASSUME NEW a \in Honest, preparedRound'[a] # NoRound,
             preparedRound'[a] = preparedRound[a], preparedValue'[a] = preparedValue[a]
      PROVE  HasQuorum(BehindNext(a, preparedRound'[a], preparedValue'[a]))
  <2>1. HasQuorum(Behind(a, preparedRound[a], preparedValue[a]))
    BY <1>3 DEF LockJustified
  <2> HIDE DEF Behind, BehindNext
  <2>2. QED
    BY <1>1, <1>3, <2>1, QuorumMonotone
<1>4. CASE UNCHANGED lock
  BY <1>3, <1>4 DEF lock
<1>5. ASSUME NEW o \in Honest, NEW m \in prepares \cup ByzPrepares, UponPrepare(o, m),
             ~UNCHANGED lock
      PROVE  \A a \in Honest : preparedRound'[a] # NoRound =>
                 HasQuorum(BehindNext(a, preparedRound'[a], preparedValue'[a]))
  <2> DEFINE before == MessagesForRound(prepareContainer[o], round[o])
  <2>1. /\ HasQuorum(Signers(before \cup {m}))
        /\ preparedValue' = [preparedValue EXCEPT ![o] = accepted[o]]
        /\ preparedRound' = [preparedRound EXCEPT ![o] = round[o]]
        /\ prepareContainer' = [prepareContainer EXCEPT ![o] = @ \cup {m}]
        /\ m.round = round[o] /\ m.root = accepted[o] /\ decided[o] = NoValue
    BY <1>5 DEF UponPrepare, CanProcess, ValidPrepareForRoundAndRoot
  <2>2. \A a \in Honest \ {o} : /\ preparedRound'[a] = preparedRound[a]
                                /\ preparedValue'[a] = preparedValue[a]
    BY <2>1 DEF TypeOK
  <2>3. /\ preparedRound'[o] = round[o] /\ preparedValue'[o] = accepted[o]
        /\ prepareContainer'[o] = prepareContainer[o] \cup {m}
    BY <2>1 DEF TypeOK
  <2>4. \A c \in before \cup {m} : c.round = round[o] /\ c.root = accepted[o]
    BY <2>1 DEF SafetyInv, PrepareContainerSigned, MessagesForRound
  <2>5. Signers(before \cup {m}) \subseteq BehindNext(o, round[o], accepted[o])
    BY <2>3, <2>4 DEF Signers, ValidPrepareForRoundAndRoot, MessagesForRound
  <2> HIDE DEF Behind, BehindNext
  <2>6. HasQuorum(BehindNext(o, round[o], accepted[o]))
    BY <1>1, <2>1, <2>5, QuorumMonotone
  <2>7. QED
    BY <1>3, <2>2, <2>3, <2>6
<1>6. QED
  BY <1>4, <1>5, ZenonT(40) DEF Next, Receive, Start, MarkIrrelevant, UponRoundTimeout, UponProposal,
                    UponCommit, UponRoundChange, UponDecided, vars

\* Every step keeps the broadcasts justified.
LEMMA BroadcastStep ==
  ASSUME TypeOK, TypeOK', SafetyInv, BroadcastInv, [Next]_vars,
         Cardinality(Byzantine) =< FaultyNodes
  PROVE  BroadcastInv'
<1> USE DEF BroadcastInv
<1>1. /\ prepares \subseteq prepares' /\ roundChanges \subseteq roundChanges'
      /\ \A a \in Honest : /\ prepareContainer[a] \subseteq prepareContainer'[a]
                           /\ roundChangeContainer[a] \subseteq roundChangeContainer'[a]
  BY MessagesAreKept
<1>2. RoundChangeContainerSigned' /\ LockJustified'
  BY ContainerSignedStep, LockJustifiedStep
<1>3. ASSUME NEW rc \in roundChanges' \ roundChanges
      PROVE  rc.round > FirstRound /\ ValidRoundChangeForData(rc, rc.round, rc.value)
  <2>1. Next
    BY <1>3 DEF vars, network
  <2>2. PICK o \in Honest, r \in Nat :
          decided[o] = NoValue /\ r > round[o] /\ rc = CreateRoundChange(o, r)
    BY <2>1, NewRoundChanges
  <2>3. rc.round = r /\ r > FirstRound
    BY <2>2, SMTT(30) DEF CreateRoundChange, TypeOK, FirstRound, NoRound
  <2>4. CASE ~(preparedRound[o] # NoRound /\ preparedValue[o] # NoValue)
    BY <2>2, <2>3, <2>4 DEF CreateRoundChange, ValidRoundChangeForData, RoundChangePrepared
  <2>5. CASE preparedRound[o] # NoRound /\ preparedValue[o] # NoValue
    <3> DEFINE ps == {m \in prepareContainer[o] :
                        ValidPrepareForRoundAndRoot(m, preparedRound[o], preparedValue[o])}
               S == {s \in Operators :
                       PrepareSigned([round |-> preparedRound[o], root |-> preparedValue[o],
                                      signer |-> s])}
    <3>1. HasQuorum(Signers(ps))
      BY <2>5 DEF LockJustified
    <3>2. Signers(ps) \subseteq S
      <4> SUFFICES ASSUME NEW c \in ps PROVE c.signer \in S
        BY DEF Signers
      <4>1. /\ c \in Vote /\ PrepareSigned(c)
            /\ c.round = preparedRound[o] /\ c.root = preparedValue[o]
        BY DEF TypeOK, SafetyInv, PrepareContainerSigned, ValidPrepareForRoundAndRoot
      <4>2. QED BY <4>1, VoteFields
    <3>3. PrepareQuorumSigned(preparedRound[o], preparedValue[o])
      BY <3>1, <3>2, QuorumMonotone DEF PrepareQuorumSigned
    <3>4. RoundChangeJustification(o) = preparedRound[o]
      BY <3>1 DEF RoundChangeJustification
    <3>5. preparedRound[o] =< r
      BY <2>2 DEF SafetyInv, LockHeld, TypeOK
    <3>6. QED
      BY <2>2, <2>3, <2>5, <3>3, <3>4, <3>5
      DEF CreateRoundChange, ValidRoundChangeForData, RoundChangePrepared
  <2>6. QED BY <2>3, <2>4, <2>5
<1>4. RoundChangesLater'
  BY <1>3 DEF RoundChangesLater
<1>5. RoundChangesValid'
  BY <1>1, <1>3, ValidStable DEF RoundChangesValid
<1>6. ASSUME NEW p \in proposals' \ proposals
      PROVE  /\ p.signer \in Honest /\ p.signer = Proposer(p.round)
             /\ p.round = FirstRound => p.value = StartValue[p.signer]
             /\ p.round # FirstRound =>
                  /\ ~HadQuorumBefore(p.signer, p.round)
                  /\ HadQuorumBefore(p.signer, p.round)'
                  /\ RoundChangesJustify(p.roundChanges, p.justification, p.round, p.value)
  <2>1. Next
    BY <1>6 DEF vars, network
  <2>2. PICK o \in Honest :
           /\ p.signer = o /\ Proposer(p.round) = o
           /\ \/ p.round = FirstRound /\ p.value = StartValue[o]
              \/ /\ ~HadQuorumBefore(o, p.round)
                 /\ p.roundChanges = MessagesForRound(roundChangeContainer'[o], p.round)
                 /\ HasQuorum(Signers(p.roundChanges))
                 /\ IsProposalJustification(o, p.roundChanges, p.justification,
                                            p.round, p.value)
    BY <2>1, NewProposals
  <2>3. CASE p.round = FirstRound /\ p.value = StartValue[o]
    BY <2>2, <2>3
  <2>4. CASE /\ ~HadQuorumBefore(o, p.round)
             /\ p.roundChanges = MessagesForRound(roundChangeContainer'[o], p.round)
             /\ HasQuorum(Signers(p.roundChanges))
             /\ IsProposalJustification(o, p.roundChanges, p.justification,
                                            p.round, p.value)
    <3>1. HadQuorumBefore(o, p.round)'
      BY <2>4 DEF HadQuorumBefore, HasQuorum, Signers, MessagesForRound
    <3>2. p.round # FirstRound
      <4>1. Signers(p.roundChanges) \subseteq Operators
        BY <2>4 DEF Signers, MessagesForRound, TypeOK, RoundChange
      <4>2. PICK h \in Honest : h \in Signers(p.roundChanges)
        BY <2>4, <4>1, QuorumsMeet
      <4>3. PICK rc \in roundChangeContainer'[o] : rc.round = p.round /\ rc.signer = h
        BY <2>4, <4>2 DEF Signers, MessagesForRound
      <4>4. rc \in roundChanges'
        BY <1>2, <4>3 DEF RoundChangeContainerSigned, RoundChangeSigned, Honest
      <4>5. rc.round \in Nat
        BY <4>4 DEF TypeOK, RoundChange
      <4>6. QED BY <1>4, <4>3, <4>4, <4>5 DEF RoundChangesLater, FirstRound
    <3>3. RoundChangesJustify(p.roundChanges, p.justification, p.round, p.value)
      BY <2>4, <3>2 DEF IsProposalJustification
    <3>4. QED BY <2>2, <2>4, <3>1, <3>2, <3>3
  <2>5. QED BY <2>2, <2>3, <2>4
<1>7. ProposalsFollowQuorums'
  <2> SUFFICES ASSUME NEW p \in proposals'
               PROVE  /\ p.signer \in Honest
                      /\ p.round = FirstRound => p.value = StartValue[p.signer]
                      /\ p.round # FirstRound => HadQuorumBefore(p.signer, p.round)'
    BY DEF ProposalsFollowQuorums
  <2>1. CASE p \in proposals
    BY <1>1, <2>1, HadQuorumStable DEF ProposalsFollowQuorums
  <2>2. CASE p \notin proposals
    BY <1>6, <2>2
  <2>3. QED BY <2>1, <2>2
<1>8. ProposalsJustified'
  <2> SUFFICES ASSUME NEW p \in proposals'
               PROVE  /\ p.signer = Proposer(p.round)
                      /\ p.round # FirstRound =>
                           RoundChangesJustify(p.roundChanges, p.justification,
                                               p.round, p.value)'
    BY DEF ProposalsJustified
  <2>1. /\ p.signer = Proposer(p.round)
        /\ p.round # FirstRound =>
             RoundChangesJustify(p.roundChanges, p.justification, p.round, p.value)
    BY <1>6 DEF ProposalsJustified
  <2>2. QED BY <1>1, <2>1, JustifyStable
<1>9. ProposesOncePerRound'
  <2> SUFFICES ASSUME NEW p1 \in proposals', NEW p2 \in proposals',
                      p1.signer = p2.signer, p1.round = p2.round
               PROVE  p1.value = p2.value
    BY DEF ProposesOncePerRound
  <2>1. CASE p1.round = FirstRound
    BY <1>7, <2>1 DEF ProposalsFollowQuorums
  <2>2. CASE p1.round # FirstRound /\ p1 \in proposals
    BY <1>6, <2>2 DEF ProposalsFollowQuorums, ProposesOncePerRound
  <2>3. CASE p1.round # FirstRound /\ p2 \in proposals
    BY <1>6, <2>3 DEF ProposalsFollowQuorums, ProposesOncePerRound
  <2>4. CASE p1 \notin proposals /\ p2 \notin proposals
    <3>1. \A q1, q2 \in proposals' \ proposals : q1 = q2
      BY <2>4, SingleProposal
    <3>2. QED BY <2>4, <3>1
  <2>5. QED BY <2>1, <2>2, <2>3, <2>4
<1>10. QED
  BY <1>2, <1>4, <1>5, <1>7, <1>8, <1>9

\* The broadcasts are justified in every reachable state.
LEMMA Broadcasts ==
  ASSUME Cardinality(Byzantine) =< FaultyNodes
  PROVE  Spec => []BroadcastInv
<1>1. (TypeOK /\ SafetyInv) /\ (TypeOK /\ SafetyInv)' /\ BroadcastInv /\ [Next]_vars
        => BroadcastInv'
  BY BroadcastStep
<1>2. QED
  BY <1>1, BroadcastInit, Safety, PTL DEF Spec

\* A correct operator votes and proposes once per round: no two of its
\* prepares, of its commits or of its proposals of a round differ in value.
THEOREM VotesOncePerRoundHolds ==
  ASSUME Cardinality(Byzantine) =< FaultyNodes
  PROVE  Spec => []VotesOncePerRound
<1>1. SafetyInv /\ BroadcastInv => VotesOncePerRound
  <2> SUFFICES ASSUME SafetyInv, BroadcastInv PROVE VotesOncePerRound
    OBVIOUS
  <2>1. ASSUME NEW m1 \in commits, NEW m2 \in commits, m1.round = m2.round
        PROVE  m1.root = m2.root
    BY <2>1, PrepareQuorumUnique DEF SafetyInv, CommitsPrepared
  <2>2. QED
    BY <2>1 DEF SafetyInv, BroadcastInv, PreparesOnce, ProposesOncePerRound, VotesOncePerRound
<1>2. QED
  BY <1>1, Safety, Broadcasts, PTL

\* What a correct operator broadcasts passes the validation of every other
\* correct operator, now and later: isProposalJustification and
\* validRoundChangeForData check what CreateRoundChange and the leader made.
THEOREM HonestMessagesJustifiedHolds ==
  ASSUME Cardinality(Byzantine) =< FaultyNodes
  PROVE  Spec => []HonestMessagesJustified
<1>1. BroadcastInv => HonestMessagesJustified
  BY DEF BroadcastInv, RoundChangesValid, ProposalsJustified, HonestMessagesJustified,
         IsProposalJustification
<1>2. QED
  BY <1>1, Broadcasts, PTL

\* An instance that was not started takes no steps but to decide.
LEMMA FreshInstancesHold == Spec => []FreshInstances
<1>1. Init => FreshInstances
  BY DEF Init, InitialRound, FreshInstances
<1>2. TypeOK /\ FreshInstances /\ [Next]_vars => FreshInstances'
  <2> SUFFICES ASSUME TypeOK, FreshInstances, [Next]_vars PROVE FreshInstances'
    OBVIOUS
  <2>1. ASSUME NEW o \in Honest, o \in started,
               \A a \in Honest \ {o} : round'[a] = round[a] /\ decided'[a] = decided[a],
               started' = started
        PROVE  FreshInstances'
    BY <2>1 DEF FreshInstances
  <2>2. CASE UNCHANGED <<round, decided>> /\ started \subseteq started'
    BY <2>2 DEF FreshInstances
  <2>3. ASSUME NEW o \in Honest, Start(o) \/ MarkIrrelevant(o) PROVE FreshInstances'
    BY <2>2, <2>3 DEF Start, MarkIrrelevant
  <2>4. ASSUME NEW o \in Honest, UponRoundTimeout(o) PROVE FreshInstances'
    BY <2>1, <2>4 DEF UponRoundTimeout, CanProcess, BumpToRound, lifecycle, TypeOK
  <2>5. ASSUME NEW o \in Honest, NEW p, UponProposal(o, p) PROVE FreshInstances'
    BY <2>1, <2>5 DEF UponProposal, CanProcess, lifecycle, TypeOK
  <2>6. ASSUME NEW o \in Honest, NEW m, UponPrepare(o, m) PROVE FreshInstances'
    BY <2>2, <2>6 DEF UponPrepare, lifecycle
  <2>7. ASSUME NEW o \in Honest, NEW m, UponCommit(o, m) PROVE FreshInstances'
    BY <2>1, <2>7 DEF UponCommit, CanProcess, MarkDecided, lifecycle, TypeOK
  <2>8. ASSUME NEW o \in Honest, NEW m, UponRoundChange(o, m) PROVE FreshInstances'
    <3>1. (\E r : BumpToRound(o, r)) \/ UNCHANGED <<round, accepted>>
      BY <2>8 DEF UponRoundChange, LeaderProposes, UponChangeRoundPartialQuorum
    <3>2. o \in started /\ UNCHANGED <<started, decided>>
      BY <2>8 DEF UponRoundChange, CanProcess, lifecycle
    <3>3. QED BY <2>1, <3>1, <3>2 DEF BumpToRound, TypeOK
  <2>9. ASSUME NEW o \in Honest, NEW m \in commits \cup ByzCommits,
               UponDecided(o, m.round, m.root)
        PROVE  FreshInstances'
    <3>1. m.root \in Values
      BY ConstantsAssumption, VoteFields DEF TypeOK
    <3>2. QED
      BY <2>9, <3>1, ConstantsAssumption
      DEF UponDecided, MarkDecided, lifecycle, FreshInstances, TypeOK
  <2>10. CASE UNCHANGED vars
    BY <2>2, <2>10 DEF vars, lifecycle
  <2>11. QED
    BY <2>3, <2>4, <2>5, <2>6, <2>7, <2>8, <2>9, <2>10 DEF Next, Receive
<1>3. QED
  BY <1>1, <1>2, TypeCorrect, PTL DEF Spec

\* An operator that is superseded or has reached its cutoff round broadcasts
\* nothing more, whatever the Byzantine operators do.
THEOREM SilentOnceIrrelevantHolds == Spec => SilentOnceIrrelevant
<1> DEFINE Sent == (prepares' \ prepares) \cup (commits' \ commits)
                        \cup (roundChanges' \ roundChanges) \cup (proposals' \ proposals)
           Silent == \A o \in Honest :
                       o \in irrelevant \/ round'[o] >= CutOffRound =>
                         \A m \in (prepares' \ prepares) \cup (commits' \ commits)
                                    \cup (roundChanges' \ roundChanges)
                                    \cup (proposals' \ proposals) : m.signer # o
<1>1. TypeOK /\ FreshInstances /\ [Next]_vars => [Silent]_vars
  <2> SUFFICES ASSUME TypeOK, FreshInstances, Next
               PROVE  Silent
    BY DEF vars
  <2>0. CutOffRound \in Nat /\ \A a \in Honest : round[a] \in Nat
    BY ConstantsAssumption DEF TypeOK
  <2>1. ASSUME NEW o \in Honest, NEW r \in Nat, round'[o] = r, RelevantAt(o, r),
               \A m \in Sent : m.signer = o
        PROVE  Silent
    BY <2>0, <2>1 DEF RelevantAt
  <2>2. CASE UNCHANGED network
    BY <2>2 DEF network
  <2>3. ASSUME NEW o \in Honest, Start(o) PROVE Silent
    <3>1. round'[o] = FirstRound /\ RelevantAt(o, FirstRound)
      BY <2>3, ConstantsAssumption DEF Start, FreshInstances, RelevantAt, FirstRound
    <3>2. \A m \in Sent : m.signer = o
      BY <2>3 DEF Start
    <3>3. QED BY <2>1, <3>1, <3>2 DEF FirstRound
  <2>4. ASSUME NEW o \in Honest, UponRoundTimeout(o) PROVE Silent
    <3>1. CASE ~RelevantAt(o, round[o] + 1)
      BY <2>2, <2>4, <3>1 DEF UponRoundTimeout, network
    <3>2. CASE RelevantAt(o, round[o] + 1)
      <4>1. round'[o] = round[o] + 1 /\ round[o] + 1 \in Nat
        BY <2>0, <2>4 DEF UponRoundTimeout, BumpToRound, RoundAfterBump, TypeOK
      <4>2. \A m \in Sent : m.signer = o
        BY <2>4 DEF UponRoundTimeout, CreateRoundChange
      <4>3. QED BY <2>1, <3>2, <4>1, <4>2
    <3>3. QED BY <3>1, <3>2
  <2>5. ASSUME NEW o \in Honest, NEW p \in proposals \cup ByzantineProposals,
               UponProposal(o, p)
        PROVE  Silent
    <3>1. p.round \in Nat /\ p.round >= round[o]
      BY <2>5, ByzantineProposalsType DEF UponProposal, CanProcess, TypeOK, Proposal
    <3>2. CASE ~RelevantAt(o, p.round)
      BY <2>2, <2>5, <3>2 DEF UponProposal, network
    <3>3. CASE RelevantAt(o, p.round)
      <4>1. round'[o] = p.round
        BY <2>0, <2>5, <3>1 DEF UponProposal, RoundAfterBump, TypeOK
      <4>2. \A m \in Sent : m.signer = o
        BY <2>5 DEF UponProposal
      <4>3. QED BY <2>1, <3>1, <3>3, <4>1, <4>2
    <3>4. QED BY <3>2, <3>3
  <2>6. ASSUME NEW o \in Honest, NEW m, UponPrepare(o, m) PROVE Silent
    <3>1. round'[o] = round[o] /\ RelevantAt(o, round[o])
      BY <2>6 DEF UponPrepare, CanProcess
    <3>2. \A q \in Sent : q.signer = o
      BY <2>6 DEF UponPrepare
    <3>3. QED BY <2>0, <2>1, <3>1, <3>2
  <2>7. ASSUME NEW o \in Honest, NEW m \in roundChanges \cup ByzRoundChanges,
               UponRoundChange(o, m)
        PROVE  Silent
    <3> DEFINE container == roundChangeContainer[o] \cup {m}
               rcs == MessagesForRound(container, m.round)
    <3>0. container \subseteq RoundChange /\ UNCHANGED <<prepares, commits>>
      BY <2>7, ConstantsAssumption DEF TypeOK, UponRoundChange
    <3>1. m.round \in Nat /\ m.round >= round[o]
      BY <2>7, <3>0 DEF UponRoundChange, CanProcess, RoundChange
    <3>2. CASE LeaderProposes(o, rcs, m.round)
      <4>1. round'[o] = m.round
        BY <2>0, <3>1, <3>2 DEF LeaderProposes, BumpToRound, RoundAfterBump, TypeOK
      <4>2. CASE ~RelevantAt(o, m.round)
        BY <2>2, <3>0, <3>2, <4>2 DEF LeaderProposes, network
      <4>3. CASE RelevantAt(o, m.round)
        <5>1. \A q \in Sent : q.signer = o
          BY <3>0, <3>2 DEF LeaderProposes
        <5>2. QED BY <2>1, <3>1, <4>1, <4>3, <5>1
      <4>4. QED BY <4>2, <4>3
    <3>3. ASSUME NEW rc \in FutureRoundChanges(o, container),
                 UponChangeRoundPartialQuorum(o, rc.round)
          PROVE  Silent
      <4>1. rc.round \in Nat /\ rc.round > round[o]
        BY <3>0 DEF FutureRoundChanges, RoundChange
      <4>2. round'[o] = rc.round
        BY <2>0, <3>3, <4>1 DEF UponChangeRoundPartialQuorum, BumpToRound, RoundAfterBump, TypeOK
      <4>3. CASE ~RelevantAt(o, rc.round)
        BY <2>2, <3>0, <3>3, <4>3 DEF UponChangeRoundPartialQuorum, network
      <4>4. CASE RelevantAt(o, rc.round)
        <5>1. \A q \in Sent : q.signer = o
          BY <3>0, <3>3 DEF UponChangeRoundPartialQuorum, CreateRoundChange
        <5>2. QED BY <2>1, <4>1, <4>2, <4>4, <5>1
      <4>5. QED BY <4>3, <4>4
    <3>4. CASE UNCHANGED <<round, accepted, proposals, roundChanges>>
      BY <2>2, <3>0, <3>4 DEF network
    <3>5. QED BY <2>7, <3>2, <3>3, <3>4 DEF UponRoundChange
  <2>8. ASSUME NEW o \in Honest,
               MarkIrrelevant(o) \/ (\E m : UponCommit(o, m)) \/ \E r, v : UponDecided(o, r, v)
        PROVE  Silent
    BY <2>2, <2>8 DEF MarkIrrelevant, UponCommit, UponDecided
  <2>9. QED
    BY <2>3, <2>4, <2>5, <2>6, <2>7, <2>8 DEF Next, Receive
<1>2. QED
  BY <1>1, TypeCorrect, FreshInstancesHold, PTL DEF Spec, SilentOnceIrrelevant

=============================================================================
