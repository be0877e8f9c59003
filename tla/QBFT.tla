-------------------------------- MODULE QBFT --------------------------------
(***************************************************************************)
(* One height of the QBFT consensus of an SSV committee: the Instance of   *)
(* protocol/v2/qbft/instance at every correct operator, together with the  *)
(* part of protocol/v2/qbft/controller that routes messages, decided       *)
(* certificates and round timeouts to it.  Correct operators run the code; *)
(* Byzantine operators sign whatever they like.                            *)
(*                                                                         *)
(* A value stands for a message's full data and for its root: the root is  *)
(* HashDataRoot(fullData), a collision-free hash, and a message whose root *)
(* is not the hash of its data is refused by every receiver, so it is      *)
(* modelled as a lost message.  So are messages with a wrong height,       *)
(* identifier, number of signers or signature.                             *)
(*                                                                         *)
(* The network is the set of messages sent so far.  A message is never     *)
(* removed and may be received never, once or many times, in any order:    *)
(* loss, delay, duplication and reordering, and the retry queue that       *)
(* re-delivers what the code refuses with a retryable error.               *)
(***************************************************************************)
EXTENDS Integers, FiniteSets

CONSTANTS
  Operators,        \* CommitteeMember.Committee
  Byzantine,        \* the operators that do not run this code
  Values,           \* full data (and, one to one, roots)
  NoValue,          \* Go's nil: no proposal, no prepared value, no decision
  StartValue,       \* Instance.StartValue of each correct operator
  CheckValue,       \* the values each operator's ValueChecker accepts
  Proposer(_),      \* config.GetProposerF() at this height
  CutOffRound,      \* config.GetCutOffRound()
  Superseded,       \* correct operators whose next height may start
  TimeoutRounds,    \* rounds whose timer may expire
  ByzProposals,     \* what Byzantine operators may send: rounds and values
  ByzPrepares,      \*   to propose, and the votes and round changes they
  ByzCommits,       \*   sign
  ByzRoundChanges

NoRound == 0
FirstRound == 1
Honest == Operators \ Byzantine

\* CommitteeMember.FaultyNodes, and the thresholds built from it.
FaultyNodes == (Cardinality(Operators) - 1) \div 3
HasQuorum(signers) == Cardinality(signers) >= 2 * FaultyNodes + 1
HasPartialQuorum(signers) == Cardinality(signers) >= FaultyNodes + 1

\* The messages.  Prepares attached to a round change or to a proposal as a
\* justification are accepted only if they form a quorum of prepares for one
\* round and for the message's value: the field justification is that round,
\* NoRound if no such quorum is attached.
Vote == [round : Nat \ {NoRound}, root : Values, signer : Operators]
RoundChange == [round : Nat, signer : Operators, dataRound : Nat,
                value : Values \cup {NoValue}, justification : Nat]
Proposal == [round : Nat, signer : Operators, value : Values,
             roundChanges : SUBSET RoundChange, justification : Nat]

ASSUME ConstantsAssumption ==
  /\ IsFiniteSet(Operators) /\ Cardinality(Operators) % 3 = 1
  /\ Byzantine \subseteq Operators
  /\ NoValue \notin Values
  /\ StartValue \in [Honest -> Values]
  /\ CheckValue \in [Honest -> SUBSET Values]
  /\ CutOffRound \in Nat /\ CutOffRound > FirstRound
  /\ Superseded \subseteq Honest
  /\ TimeoutRounds \subseteq Nat
  /\ ByzProposals \subseteq [round : Nat, value : Values]
  /\ ByzPrepares \subseteq Vote
  /\ \A m \in ByzPrepares : m.signer \in Byzantine
  /\ ByzCommits \subseteq Vote
  /\ \A m \in ByzCommits : m.signer \in Byzantine
  /\ ByzRoundChanges \subseteq RoundChange
  /\ \A m \in ByzRoundChanges : m.signer \in Byzantine

VARIABLES
  started,              \* operators whose controller started this height
  irrelevant,           \* Instance.markedIrrelevant: a later height started
  round,                \* State.Round
  accepted,             \* State.ProposalAcceptedForCurrentRound (its value)
  preparedRound,        \* State.LastPreparedRound
  preparedValue,        \* State.LastPreparedValue
  decided,              \* State.Decided and State.DecidedValue
  proposeContainer,     \* State.ProposeContainer
  prepareContainer,     \* State.PrepareContainer
  commitContainer,      \* State.CommitContainer
  roundChangeContainer, \* State.RoundChangeContainer
  proposals, prepares, commits, roundChanges  \* broadcast by correct operators

lifecycle == <<started, irrelevant>>
lock == <<preparedRound, preparedValue>>
containers == <<proposeContainer, prepareContainer, commitContainer,
                roundChangeContainer>>
network == <<proposals, prepares, commits, roundChanges>>
vars == <<lifecycle, round, accepted, lock, decided, containers, network>>

-----------------------------------------------------------------------------
(* Messages, signatures and containers.                                    *)

Signers(msgs) == {m.signer : m \in msgs}
MessagesForRound(msgs, r) == {m \in msgs : m.round = r}

\* AddFirstMsgForSignerAndRound refuses a second message of a signer and round.
IsFirst(container, m) ==
  \A q \in container : ~(q.signer = m.signer /\ q.round = m.round)

\* A signature verifies iff its owner made it; Byzantine operators sign anything.
PrepareSigned(m) == m.signer \in Byzantine \/ m \in prepares
CommitSigned(m) == m.signer \in Byzantine \/ m \in commits
RoundChangeSigned(m) == m.signer \in Byzantine \/ m \in roundChanges

\* Whether a quorum of prepares, or of commits, for r and root can be shown.
PrepareQuorumSigned(r, root) ==
  HasQuorum({s \in Operators :
               PrepareSigned([round |-> r, root |-> root, signer |-> s])})
CommitQuorumSigned(r, root) ==
  HasQuorum({s \in Operators :
               CommitSigned([round |-> r, root |-> root, signer |-> s])})

\* validSignedPrepareForHeightRoundAndRoot.
ValidPrepareForRoundAndRoot(m, r, root) == m.round = r /\ m.root = root

RoundChangePrepared(rc) == rc.dataRound # NoRound

\* validRoundChangeForData: a prepared round change must carry the prepares
\* of its data round, and its value must be the data it is checked against.
ValidRoundChangeForData(rc, r, fullData) ==
  /\ rc.round = r
  /\ RoundChangePrepared(rc) =>
       /\ rc.justification = rc.dataRound
       /\ PrepareQuorumSigned(rc.dataRound, rc.value)
       /\ fullData = rc.value
       /\ rc.dataRound =< r

\* highestPrepared: a prepared round change no other is prepared above.
IsHighestPrepared(rc, rcs) ==
  /\ rc \in rcs
  /\ RoundChangePrepared(rc)
  /\ \A other \in rcs : other.dataRound =< rc.dataRound

\* isProposalJustification after the first round.  Every round change is
\* checked against the proposed data, not its own.
RoundChangesJustify(rcs, justification, r, fullData) ==
  /\ \A rc \in rcs :
       ValidRoundChangeForData(rc, r, fullData) /\ RoundChangeSigned(rc)
  /\ HasQuorum(Signers(rcs))
  /\ (\E rc \in rcs : RoundChangePrepared(rc)) =>
       \E rc \in rcs :
         /\ IsHighestPrepared(rc, rcs)
         /\ fullData = rc.value
         /\ justification = rc.dataRound
         /\ PrepareQuorumSigned(rc.dataRound, rc.value)

\* Mutant: the value of a proposal is not checked.
UncheckedValueJustified(o, rcs, justification, r, fullData) ==
  r # FirstRound => RoundChangesJustify(rcs, justification, r, fullData)

IsProposalJustification(o, rcs, justification, r, fullData) ==
  /\ fullData \in CheckValue[o]
  /\ r # FirstRound => RoundChangesJustify(rcs, justification, r, fullData)

-----------------------------------------------------------------------------
(* The instance's guards.                                                  *)

\* Mutant: the cutoff round still counts as relevant.
RelevantAtCutOff(o, r) == o \notin irrelevant /\ r =< CutOffRound

\* IsRelevant, for the round the instance is in or is about to enter.
RelevantAt(o, r) == o \notin irrelevant /\ r < CutOffRound

\* UponExistingInstanceMsg, ProcessMsg and BaseMsgValidation: the instance
\* exists, is undecided and relevant, and the message is not of a past round.
CanProcess(o, msgRound) ==
  /\ o \in started
  /\ decided[o] = NoValue
  /\ RelevantAt(o, round[o])
  /\ msgRound >= round[o]

IsValidProposal(o, p) ==
  /\ p.signer = Proposer(p.round)
  /\ IsProposalJustification(o, p.roundChanges, p.justification, p.round, p.value)
  /\ \/ accepted[o] = NoValue /\ p.round = round[o]
     \/ p.round > round[o]

\* bumpToRound: entering a higher round drops the accepted proposal.
RoundAfterBump(o, r) == IF r > round[o] THEN r ELSE round[o]
AcceptedAfterBump(o, r) == IF r > round[o] THEN NoValue ELSE accepted[o]
BumpToRound(o, r) ==
  /\ round' = [round EXCEPT ![o] = RoundAfterBump(o, r)]
  /\ accepted' = [accepted EXCEPT ![o] = AcceptedAfterBump(o, r)]

\* MarkDecided: the only way the round may go down.
MarkDecided(o, r, v) ==
  /\ decided' = [decided EXCEPT ![o] = v]
  /\ round' = [round EXCEPT ![o] = r]

\* Mutant: the justification is looked up in the round just entered.
RoundChangeJustificationOfNewRound(o) ==
  LET ps == {m \in prepareContainer[o] :
               ValidPrepareForRoundAndRoot(m, round[o] + 1, preparedValue[o])}
  IN  IF HasQuorum(Signers(ps)) THEN preparedRound[o] ELSE NoRound

\* getRoundChangeJustification: the prepares of the last prepared round,
\* nothing unless they are a quorum.
RoundChangeJustification(o) ==
  LET ps == {m \in prepareContainer[o] :
               ValidPrepareForRoundAndRoot(m, preparedRound[o], preparedValue[o])}
  IN  IF HasQuorum(Signers(ps)) THEN preparedRound[o] ELSE NoRound

\* Mutant: the lock is not announced.
CreateRoundChangeUnlocked(o, newRound) ==
  [round |-> newRound, signer |-> o, dataRound |-> NoRound,
   value |-> NoValue, justification |-> NoRound]

CreateRoundChange(o, newRound) ==
  IF preparedRound[o] # NoRound /\ preparedValue[o] # NoValue
  THEN [round |-> newRound, signer |-> o, dataRound |-> preparedRound[o],
        value |-> preparedValue[o],
        justification |-> RoundChangeJustification(o)]
  ELSE [round |-> newRound, signer |-> o, dataRound |-> NoRound,
        value |-> NoValue, justification |-> NoRound]

-----------------------------------------------------------------------------
(* The handlers.                                                           *)

\* Mutant: NewInstance leaves the round unset.
InitialRoundUnset == [o \in Honest |-> NoRound]

\* NewInstance's round, and the rest of its state.
InitialRound == [o \in Honest |-> FirstRound]
Init ==
  /\ started = {}
  /\ irrelevant = {}
  /\ round = InitialRound
  /\ accepted = [o \in Honest |-> NoValue]
  /\ preparedRound = [o \in Honest |-> NoRound]
  /\ preparedValue = [o \in Honest |-> NoValue]
  /\ decided = [o \in Honest |-> NoValue]
  /\ proposeContainer = [o \in Honest |-> {}]
  /\ prepareContainer = [o \in Honest |-> {}]
  /\ commitContainer = [o \in Honest |-> {}]
  /\ roundChangeContainer = [o \in Honest |-> {}]
  /\ proposals = {}
  /\ prepares = {}
  /\ commits = {}
  /\ roundChanges = {}

\* Controller.StartNewInstance and Instance.Start: refused for a past height
\* and for a height that already has an instance (one made by UponDecided).
Start(o) ==
  /\ o \notin started
  /\ o \notin irrelevant
  /\ decided[o] = NoValue
  /\ StartValue[o] \in CheckValue[o]
  /\ started' = started \cup {o}
  /\ \/ /\ Proposer(FirstRound) = o
        /\ proposals' = proposals \cup
             {[round |-> FirstRound, signer |-> o, value |-> StartValue[o],
               roundChanges |-> {}, justification |-> NoRound]}
     \/ /\ Proposer(FirstRound) # o
        /\ UNCHANGED proposals
  /\ UNCHANGED <<irrelevant, round, accepted, lock, decided, containers,
                 prepares, commits, roundChanges>>

\* Starting a later height marks this one irrelevant, or, if it was never
\* started, makes it a past height.
MarkIrrelevant(o) ==
  /\ o \in Superseded
  /\ o \notin irrelevant
  /\ irrelevant' = irrelevant \cup {o}
  /\ UNCHANGED <<started, round, accepted, lock, decided, containers, network>>

UponProposal(o, p) ==
  /\ CanProcess(o, p.round)
  /\ IsValidProposal(o, p)
  /\ IsFirst(proposeContainer[o], p)
  /\ proposeContainer' = [proposeContainer EXCEPT ![o] = @ \cup
                            {[round |-> p.round, signer |-> p.signer]}]
  /\ round' = [round EXCEPT ![o] = RoundAfterBump(o, p.round)]
  /\ \/ /\ RelevantAt(o, p.round)
        /\ accepted' = [accepted EXCEPT ![o] = p.value]
        /\ prepares' = prepares \cup
             {[round |-> p.round, root |-> p.value, signer |-> o]}
     \/ /\ ~RelevantAt(o, p.round)
        /\ accepted' = [accepted EXCEPT ![o] = AcceptedAfterBump(o, p.round)]
        /\ UNCHANGED prepares
  /\ UNCHANGED <<lifecycle, lock, decided, prepareContainer, commitContainer,
                 roundChangeContainer, proposals, commits, roundChanges>>

UponPrepare(o, m) ==
  /\ CanProcess(o, m.round)
  /\ accepted[o] # NoValue
  /\ ValidPrepareForRoundAndRoot(m, round[o], accepted[o])
  /\ IsFirst(prepareContainer[o], m)
  /\ prepareContainer' = [prepareContainer EXCEPT ![o] = @ \cup {m}]
  /\ LET before == MessagesForRound(prepareContainer[o], round[o])
         firstQuorum == /\ ~HasQuorum(Signers(before))
                        /\ HasQuorum(Signers(before \cup {m}))
     IN  \/ /\ firstQuorum
            /\ preparedValue' = [preparedValue EXCEPT ![o] = accepted[o]]
            /\ preparedRound' = [preparedRound EXCEPT ![o] = round[o]]
            /\ commits' = commits \cup
                 {[round |-> round[o], root |-> accepted[o], signer |-> o]}
         \/ /\ ~firstQuorum
            /\ UNCHANGED <<lock, commits>>
  /\ UNCHANGED <<lifecycle, round, accepted, decided, proposeContainer,
                 commitContainer, roundChangeContainer, proposals, prepares,
                 roundChanges>>

\* The aggregated commit that broadcastDecided sends needs no state: it is
\* one of the certificates UponDecided finds in the commits sent so far.
UponCommit(o, m) ==
  /\ CanProcess(o, m.round)
  /\ accepted[o] # NoValue
  /\ m.round = round[o]
  /\ m.root = accepted[o]
  /\ IsFirst(commitContainer[o], m)
  /\ commitContainer' = [commitContainer EXCEPT ![o] = @ \cup {m}]
  /\ LET before == {c \in MessagesForRound(commitContainer[o], m.round) :
                      c.root = m.root}
         firstQuorum == /\ ~HasQuorum(Signers(before))
                        /\ HasQuorum(Signers(before \cup {m}))
     IN  \/ firstQuorum /\ MarkDecided(o, m.round, accepted[o])
         \/ ~firstQuorum /\ UNCHANGED <<decided, round>>
  /\ UNCHANGED <<lifecycle, accepted, lock, proposeContainer,
                 prepareContainer, roundChangeContainer, network>>

\* hasReceivedProposalJustificationForLeadingRound: the round changes of rcs
\* the leader can build its proposal on.
ValueToPropose(o, rc) ==
  IF RoundChangePrepared(rc) THEN rc.value ELSE StartValue[o]
ProposalJustificationForLeadingRound(o, rcs, r) ==
  {rc \in rcs :
     /\ HasQuorum(Signers(rcs))
     /\ IsProposalJustification(o, rcs, rc.justification, r, ValueToPropose(o, rc))
     /\ Proposer(r) = o
     /\ \/ accepted[o] = NoValue /\ round[o] = r
        \/ r > round[o]}

\* hasReceivedPartialQuorum and minRound.
FutureRoundChanges(o, rcs) == {rc \in rcs : rc.round > round[o]}
IsMinRound(r, rcs) == /\ \E rc \in rcs : rc.round = r
                      /\ \A rc \in rcs : r =< rc.round

\* The leader's proposal, the catch-up with f + 1 operators that are ahead,
\* or nothing, for the container with the new message in it.
LeaderProposes(o, rcs, r) ==
  \E rc \in ProposalJustificationForLeadingRound(o, rcs, r) :
    /\ BumpToRound(o, r)
    /\ \/ /\ RelevantAt(o, r)
          /\ proposals' = proposals \cup
               {[round |-> r, signer |-> o, value |-> ValueToPropose(o, rc),
                 roundChanges |-> rcs, justification |-> rc.justification]}
       \/ ~RelevantAt(o, r) /\ UNCHANGED proposals
    /\ UNCHANGED roundChanges

UponChangeRoundPartialQuorum(o, newRound) ==
  /\ BumpToRound(o, newRound)
  /\ \/ /\ RelevantAt(o, newRound)
        /\ roundChanges' = roundChanges \cup {CreateRoundChange(o, newRound)}
     \/ ~RelevantAt(o, newRound) /\ UNCHANGED roundChanges
  /\ UNCHANGED proposals

\* Mutant: every round change may start the round again.
NeverHadQuorum(o, r) == FALSE

\* The early return for a round that already had its quorum.
HadQuorumBefore(o, r) ==
  HasQuorum(Signers(MessagesForRound(roundChangeContainer[o], r)))

UponRoundChange(o, m) ==
  /\ CanProcess(o, m.round)
  /\ ValidRoundChangeForData(m, m.round, m.value)
  /\ IsFirst(roundChangeContainer[o], m)
  /\ roundChangeContainer' = [roundChangeContainer EXCEPT ![o] = @ \cup {m}]
  /\ LET container == roundChangeContainer[o] \cup {m}
         rcs == MessagesForRound(container, m.round)
         future == FutureRoundChanges(o, container)
         hadQuorumBefore == HadQuorumBefore(o, m.round)
         leads == ProposalJustificationForLeadingRound(o, rcs, m.round) # {}
         catchesUp == HasPartialQuorum(Signers(future))
     IN  \/ /\ ~hadQuorumBefore /\ leads
            /\ LeaderProposes(o, rcs, m.round)
         \/ /\ ~hadQuorumBefore /\ ~leads /\ catchesUp
            /\ \E rc \in future :
                 /\ IsMinRound(rc.round, future)
                 /\ UponChangeRoundPartialQuorum(o, rc.round)
         \/ /\ hadQuorumBefore \/ (~leads /\ ~catchesUp)
            /\ UNCHANGED <<round, accepted, proposals, roundChanges>>
  /\ UNCHANGED <<lifecycle, lock, decided, proposeContainer,
                 prepareContainer, commitContainer, prepares, commits>>

\* OnQBFTRoundTimeout and UponRoundTimeout.  A timeout of an earlier round
\* or of a decided instance is ignored.
UponRoundTimeout(o) ==
  /\ round[o] \in TimeoutRounds
  /\ CanProcess(o, round[o])
  /\ LET newRound == round[o] + 1
     IN  /\ BumpToRound(o, newRound)
         /\ \/ /\ RelevantAt(o, newRound)
               /\ roundChanges' =
                    roundChanges \cup {CreateRoundChange(o, newRound)}
            \/ ~RelevantAt(o, newRound) /\ UNCHANGED roundChanges
  /\ UNCHANGED <<lifecycle, lock, decided, containers, proposals, prepares,
                 commits>>

\* Mutants: a decided instance decides again; an irrelevant one refuses the
\* certificate.
UponDecidedAgain(o, r, v) ==
  /\ CommitQuorumSigned(r, v)
  /\ MarkDecided(o, r, v)
  /\ UNCHANGED <<lifecycle, accepted, lock, containers, network>>
UponDecidedRelevant(o, r, v) ==
  /\ CommitQuorumSigned(r, v)
  /\ decided[o] = NoValue /\ RelevantAt(o, round[o])
  /\ MarkDecided(o, r, v)
  /\ UNCHANGED <<lifecycle, accepted, lock, containers, network>>

\* Controller.UponDecided for a certificate made of the commits signed so
\* far: an unknown height gets a decided instance, an undecided one is marked
\* decided even if irrelevant or past its cutoff.  ValidateDecided checks the
\* signatures and the data's hash, not the value.  The certificate is also
\* recorded in the commit container, which no handler reads after that.
UponDecided(o, r, v) ==
  /\ CommitQuorumSigned(r, v)
  /\ decided[o] = NoValue
  /\ MarkDecided(o, r, v)
  /\ UNCHANGED <<lifecycle, accepted, lock, containers, network>>

-----------------------------------------------------------------------------
(* What a correct operator may receive.                                    *)

\* The proposals a Byzantine leader can justify with signed round changes.
\* A receiver's reaction depends only on round and value, and an accepted
\* justification contains one of exactly a quorum of round changes with the
\* prepares of its highest one, so these are all that matter.
ByzJustifications(r) ==
  IF r = FirstRound THEN {{}}
  ELSE {rcs \in SUBSET {rc \in roundChanges \cup ByzRoundChanges :
                          ValidRoundChangeForData(rc, r, rc.value)} :
          /\ HasQuorum(Signers(rcs))
          /\ Cardinality(rcs) = 2 * FaultyNodes + 1}
ByzantineProposals ==
  UNION {UNION {[round : {b.round}, signer : {Proposer(b.round)},
                 value : {b.value}, roundChanges : {rcs},
                 justification : {NoRound} \cup {rc.dataRound : rc \in rcs}] :
                rcs \in ByzJustifications(b.round)} :
         b \in {led \in ByzProposals : Proposer(led.round) \in Byzantine}}

Receive(o) ==
  \/ \E p \in proposals \cup ByzantineProposals : UponProposal(o, p)
  \/ \E m \in prepares \cup ByzPrepares : UponPrepare(o, m)
  \/ \E m \in commits \cup ByzCommits : UponCommit(o, m)
  \/ \E m \in roundChanges \cup ByzRoundChanges : UponRoundChange(o, m)
  \/ \E m \in commits \cup ByzCommits : UponDecided(o, m.round, m.root)

Next ==
  \E o \in Honest :
    Start(o) \/ MarkIrrelevant(o) \/ UponRoundTimeout(o) \/ Receive(o)

Spec == Init /\ [][Next]_vars

-----------------------------------------------------------------------------
(* Properties.                                                             *)

TypeOK ==
  /\ started \subseteq Honest
  /\ irrelevant \subseteq Superseded
  /\ round \in [Honest -> Nat \ {NoRound}]
  /\ accepted \in [Honest -> Values \cup {NoValue}]
  /\ preparedRound \in [Honest -> Nat]
  /\ preparedValue \in [Honest -> Values \cup {NoValue}]
  /\ decided \in [Honest -> Values \cup {NoValue}]
  /\ proposeContainer \in [Honest -> SUBSET [round : Nat, signer : Operators]]
  /\ prepareContainer \in [Honest -> SUBSET Vote]
  /\ commitContainer \in [Honest -> SUBSET Vote]
  /\ roundChangeContainer \in [Honest -> SUBSET RoundChange]
  /\ proposals \subseteq Proposal
  /\ prepares \subseteq Vote
  /\ commits \subseteq Vote
  /\ roundChanges \subseteq RoundChange

\* Two correct operators never decide different values, whichever of commit
\* messages and decided certificates they decided by and in whatever rounds.
Agreement ==
  \A o1, o2 \in Honest :
    decided[o1] # NoValue /\ decided[o2] # NoValue => decided[o1] = decided[o2]

\* A correct operator never signs two prepares, two commits or two proposals
\* with different values for one round, whatever it receives.
VotesOncePerRound ==
  /\ \A m1, m2 \in prepares :
       m1.signer = m2.signer /\ m1.round = m2.round => m1.root = m2.root
  /\ \A m1, m2 \in commits :
       m1.signer = m2.signer /\ m1.round = m2.round => m1.root = m2.root
  /\ \A p1, p2 \in proposals :
       p1.signer = p2.signer /\ p1.round = p2.round => p1.value = p2.value

\* A correct operator's round change for a later round announces a prepared
\* round at least as high as any round it sent a commit in: uponPrepare
\* takes the lock before the commit leaves and no later step loses it.
LockIsAnnounced ==
  \A c \in commits, rc \in roundChanges :
    c.signer = rc.signer /\ c.round < rc.round =>
      c.round =< rc.dataRound /\ rc.dataRound < rc.round

\* What a correct operator broadcasts passes the validation of every other:
\* its round changes carry the justification they need, and its proposals are
\* justified for every operator whose value check accepts the value.
HonestMessagesJustified ==
  /\ \A rc \in roundChanges : ValidRoundChangeForData(rc, rc.round, rc.value)
  /\ \A p \in proposals, o \in Honest :
       /\ p.signer = Proposer(p.round)
       /\ p.value \in CheckValue[o] =>
            IsProposalJustification(o, p.roundChanges, p.justification,
                                    p.round, p.value)

\* A decided value passed the value check of more correct operators than
\* there can be faulty ones, although UponDecided itself does not check it.
DecidedValueWasChecked ==
  \A o \in Honest :
    decided[o] # NoValue =>
      HasPartialQuorum({h \in Honest : decided[o] \in CheckValue[h]})

\* Once decided an instance is frozen: neither late votes, timeouts, round
\* changes nor further certificates move its round, lock or value.
DecidedIsFrozen ==
  [][\A o \in Honest : decided[o] # NoValue =>
       /\ decided'[o] = decided[o]
       /\ round'[o] = round[o]
       /\ accepted'[o] = accepted[o]
       /\ preparedRound'[o] = preparedRound[o]
       /\ preparedValue'[o] = preparedValue[o]
       /\ roundChangeContainer'[o] = roundChangeContainer[o]]_vars

\* An operator that reached its cutoff round, or was superseded by a later
\* height, signs nothing more at this height: no handler broadcasts after a
\* bump that lands on the cutoff.
SilentOnceIrrelevant ==
  [][\A o \in Honest :
       o \in irrelevant \/ round'[o] >= CutOffRound =>
         \A m \in (prepares' \ prepares) \cup (commits' \ commits)
                  \cup (roundChanges' \ roundChanges)
                  \cup (proposals' \ proposals) : m.signer # o]_vars

=============================================================================
