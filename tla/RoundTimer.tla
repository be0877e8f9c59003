----------------------------- MODULE RoundTimer -----------------------------
(***************************************************************************)
(* The time at which rounds end, and the round a clock implies             *)
(* (protocol/v2/qbft/roundtimer/timer.go), for the roles whose rounds are  *)
(* synchronized to the slot.  Times are seconds into the slot.             *)
(***************************************************************************)
EXTENDS Integers

CONSTANT IntervalDuration   \* a third or a quarter of a slot

ASSUME IntervalAssumption == IntervalDuration \in Nat

QuickTimeoutThreshold == 8
QuickTimeout == 2
SlowTimeout == 120
FirstRound == 1

\* round1HeadStart for committees, which wait for the block of the slot, and
\* for aggregators, which wait for its attestations.
round1HeadStart(role) == IF role = "committee" THEN IntervalDuration ELSE 2 * IntervalDuration

\* roundTimeoutForRound: when a round ends.
roundTimeoutForRound(headStart, round) ==
  IF round <= QuickTimeoutThreshold
  THEN headStart + round * QuickTimeout
  ELSE headStart + QuickTimeoutThreshold * QuickTimeout
         + (round - QuickTimeoutThreshold) * SlowTimeout

\* EstimatedRoundAt inverts roundTimeoutForRound with a formula of its own.
EstimatedRoundAt(headStart, t) ==
  LET elapsed  == t - headStart
      quickEnd == QuickTimeoutThreshold * QuickTimeout
  IN  IF elapsed < 0 THEN FirstRound
      ELSE IF elapsed < quickEnd THEN FirstRound + elapsed \div QuickTimeout
      ELSE FirstRound + QuickTimeoutThreshold + (elapsed - quickEnd) \div SlowTimeout

\* The round that has not ended by t while all the ones before it have: what
\* the timers of an operator that started in time arrive at.
IsRoundAt(headStart, t, round) ==
  /\ round >= FirstRound
  /\ t < roundTimeoutForRound(headStart, round)
  /\ round > FirstRound => roundTimeoutForRound(headStart, round - 1) <= t

=============================================================================
