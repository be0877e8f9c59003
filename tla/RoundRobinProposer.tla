------------------------- MODULE RoundRobinProposer -------------------------
(***************************************************************************)
(* protocol/v2/qbft/round_robin_proposer.go: which operator leads a round  *)
(* of a height.  A committee is the sequence of operator identifiers a     *)
(* caller passes; sequences are indexed from 1, Go slices from 0.          *)
(***************************************************************************)
EXTENDS Integers, Sequences, SequencesExt

FirstHeight == 0

\* The head start of a height; FirstHeight % n is 0 as well.
FirstRoundIndex(height, committee) ==
  IF height # FirstHeight THEN height % Len(committee) ELSE 0

roundRobinProposerPreBooleFork(height, r, committee) ==
  committee[1 + ((FirstRoundIndex(height, committee) + r - 1) % Len(committee))]

\* slices.IsSorted and slices.Sort.
SortedCommittee(committee) ==
  IF IsSorted(committee, =<) THEN committee ELSE SortSeq(committee, <)

RoundRobin(height, r, committee, epoch) ==
  LET sorted == SortedCommittee(committee)
  IN  sorted[1 + ((FirstRoundIndex(height, sorted) + r - 1 + epoch) % Len(sorted))]

\* Proposer, for a height before or after the Boole fork.
ProposerAt(height, r, committee, booleFork, epoch) ==
  IF booleFork THEN RoundRobin(height, r, committee, epoch)
  ELSE roundRobinProposerPreBooleFork(height, r, committee)

=============================================================================
