---------------------------- MODULE MCQBFTBatch ----------------------------
(***************************************************************************)
(* QBFT with several correct operators, explored under a reduced schedule. *)
(*                                                                         *)
(* Most deliveries only add a message to a container and reach no          *)
(* threshold.  Such a step changes nothing another operator can see, it is *)
(* as possible later as now (the network keeps the message), and what it   *)
(* adds is read only when a threshold is reached.  So every behaviour of   *)
(* QBFT has a counterpart, the same in all but the containers, in which    *)
(* each operator receives the messages that reach a threshold in one       *)
(* uninterrupted batch, and no others.  The handlers are those of QBFT; the *)
(* module only restricts which operator moves (busy) and with which        *)
(* message.  In a batch of votes, all alike, the signers come in           *)
(* ascending order; round changes are not alike, so the leader they are    *)
(* for receives them in any order.  All operators start first: a start     *)
(* delayed past another's step is a delay of every delivery.               *)
(***************************************************************************)
EXTENDS MCQBFT

CONSTANT NotBusy

VARIABLE busy  \* the operator and kind of batch under way

batchVars == <<vars, busy>>

Turn(o, kind) == busy \in {NotBusy, <<o, kind>>} /\ started = Honest

InOrder(m, msgs, container) ==
  \A q \in msgs : q \in container \/ m.signer =< q.signer

VotesFor(o, msgs) ==
  {m \in msgs : m.round = round[o] /\ m.root = accepted[o]}

PrepareBatch(o) ==
  /\ Turn(o, "prepare")
  /\ ~HasQuorum(Signers(MessagesForRound(prepareContainer[o], round[o])))
  /\ LET votes == VotesFor(o, prepares \cup ByzPrepares)
     IN  /\ HasQuorum(Signers(votes))
         /\ \E m \in votes :
              /\ InOrder(m, votes, prepareContainer[o])
              /\ UponPrepare(o, m)
              /\ busy' = IF commits' # commits THEN NotBusy
                                               ELSE <<o, "prepare">>

CommitBatch(o) ==
  /\ Turn(o, "commit")
  /\ LET votes == VotesFor(o, commits \cup ByzCommits)
     IN  /\ HasQuorum(Signers(votes))
         /\ \E m \in votes :
              /\ InOrder(m, votes, commitContainer[o])
              /\ UponCommit(o, m)
              /\ busy' = IF decided' # decided THEN NotBusy
                                               ELSE <<o, "commit">>

\* Towards the quorum the leader of the round waits for, or towards the
\* partial quorum that pulls the operator into a later round.
RoundChangeBatch(o) ==
  /\ Turn(o, "roundChange")
  /\ LET rcs == {rc \in roundChanges \cup ByzRoundChanges :
                   ValidRoundChangeForData(rc, rc.round, rc.value)}
     IN  \E m \in rcs :
           /\ \/ /\ Proposer(m.round) = o
                 /\ HasQuorum(Signers(MessagesForRound(rcs, m.round)))
                 /\ ~HasQuorum(Signers(MessagesForRound(roundChangeContainer[o],
                                                        m.round)))
              \/ /\ m.round > round[o]
                 /\ HasPartialQuorum(Signers(FutureRoundChanges(o, rcs)))
                 /\ \/ Proposer(m.round) = o
                    \/ InOrder(m, rcs, roundChangeContainer[o])
           /\ UponRoundChange(o, m)
           /\ busy' = IF \/ round' # round
                         \/ proposals' # proposals
                         \/ HasQuorum(Signers(MessagesForRound(
                              roundChangeContainer'[o], m.round)))
                      THEN NotBusy ELSE <<o, "roundChange">>

Alone(o) ==
  /\ busy = NotBusy
  /\ \/ Start(o)
     \/ /\ started = Honest
        /\ \/ MarkIrrelevant(o)
           \/ UponRoundTimeout(o)
           \/ \E p \in proposals \cup ByzantineProposals : UponProposal(o, p)
           \/ \E m \in commits : UponDecided(o, m.round, m.root)
  /\ UNCHANGED busy

BatchNext ==
  \E o \in Honest :
    PrepareBatch(o) \/ CommitBatch(o) \/ RoundChangeBatch(o) \/ Alone(o)

BatchSpec == Init /\ busy = NotBusy /\ [][BatchNext]_batchVars

\* Fairness, for committees without active Byzantine operators: messages
\* between correct operators and the decided certificate arrive, an operator
\* works on what it received, and timers expire.  Weak fairness of a batch is
\* enough: the messages of a threshold stay available until it is reached.
FairBatchSpec ==
  /\ BatchSpec
  /\ \A o \in Honest :
       /\ WF_batchVars(PrepareBatch(o))
       /\ WF_batchVars(CommitBatch(o))
       /\ WF_batchVars(RoundChangeBatch(o))
       /\ WF_batchVars(Alone(o) /\ Start(o))
       /\ WF_batchVars(Alone(o) /\ UponRoundTimeout(o))
       /\ WF_batchVars(Alone(o) /\ \E p \in proposals : UponProposal(o, p))
       /\ WF_batchVars(Alone(o) /\ \E m \in commits : UponDecided(o, m.round, m.root))

\* With a faulty leader-to-be silent and synchrony from round 2 on (no timer
\* of a later round expires), every correct operator decides unless a later
\* height supersedes somebody: timeouts, round changes with their locks and
\* the new leader's proposal bring all of them to one round and one value.
EventualDecision ==
  [](irrelevant = {}) => <>(\A o \in Honest : decided[o] # NoValue)

\* A decision reaches every correct operator through the decided
\* certificate, also one in another round or superseded by a later height.
DecisionSpreads ==
  (\E o \in Honest : decided[o] # NoValue)
    ~> (\A o \in Honest : decided[o] # NoValue)

\* States that differ only in what nothing reads any more are explored once:
\* the private state of a decided operator, and votes and round changes of
\* rounds an operator has left, except those of its lock.
Live(o) ==
  <<round[o], accepted[o], preparedRound[o], preparedValue[o],
    {m \in prepareContainer[o] : m.round \in {round[o], preparedRound[o]}},
    {m \in commitContainer[o] : m.round = round[o]},
    {m \in roundChangeContainer[o] : m.round >= round[o]}>>
BatchView ==
  <<lifecycle, network, busy, decided,
    [o \in {q \in Honest : decided[q] = NoValue} |-> Live(o)]>>

\* The Byzantine operator leads round 1 (operator 1) or round 2 (operator 2).
ByzLeads == [round : {1, 2}, value : Values]
ByzVotesBothRounds == ByzVotes(Byzantine, {1, 2})
ByzRoundChangesBoth ==
  Unprepared(Byzantine, {2}) \cup Prepared(Byzantine, {2}, 1)

=============================================================================
