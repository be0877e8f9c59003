------------------------------- MODULE MCQBFT -------------------------------
(***************************************************************************)
(* Constants for model checking QBFT on a committee of four operators at   *)
(* height 0, where operator r leads round r.                               *)
(***************************************************************************)
EXTENDS QBFT, RoundRobinProposer

CONSTANTS v1, v2, v3

MCProposer(r) == ProposerAt(FirstHeight, r, <<1, 2, 3, 4>>, FALSE, 0)

\* Operators may start with different values, e.g. different attestation data.
MCStartValue == [o \in Honest |-> IF o = 2 THEN v2 ELSE v1]

\* Nobody accepts v3, and operator 4 does not accept v2.
MCCheckValue ==
  [o \in Honest |-> Values \cap (IF o = 4 THEN {v1} ELSE {v1, v2})]

\* Messages of Byzantine operators, by signers and rounds.
ByzVotes(signers, rounds) == [round : rounds, root : Values, signer : signers]
Unprepared(signers, rounds) ==
  [round : rounds, signer : signers, dataRound : {NoRound}, value : {NoValue},
   justification : {NoRound}]
Prepared(signers, rounds, r) ==
  [round : rounds, signer : signers, dataRound : {r}, value : Values,
   justification : {r}]

\* One correct operator, number 2, among operators that do anything.  Prepares
\* of two of them reach the quorum with its own; a third unprepared round
\* change lets a quorum form without it; the commits allow a decision in
\* round 1 and leave it one vote short in round 2.
LocalProposals == [round : {1, 3}, value : Values]
LocalPrepares == ByzVotes({1, 3}, {1, 2})
LocalCommits == [round : {1}, root : {v1}, signer : {1, 3}]
                  \cup [round : {2}, root : {v2}, signer : {1}]
LocalRoundChanges ==
  Unprepared({1, 3, 4}, {2}) \cup Prepared({1, 3}, {2}, 1)


=============================================================================
