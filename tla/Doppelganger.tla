---------------------------- MODULE Doppelganger ----------------------------
(***************************************************************************)
(* Doppelganger protection (doppelganger/doppelganger.go): a validator of  *)
(* this operator signs only after the beacon node has reported it inactive *)
(* for a number of epochs, or after a quorum of its committee was seen to  *)
(* sign without this operator.                                             *)
(*                                                                         *)
(* One goroutine handles the slot ticker.  It asks the beacon node with no *)
(* lock held, so quorum reports, removals and whole slots fall between the *)
(* question and its answer; a tick that is not taken in time is lost.      *)
(***************************************************************************)
EXTENDS BeaconClock, FiniteSets

CONSTANTS
  Validators,
  None,
  MaxRestarts   \* bound: restarts

ASSUME DoppelgangerAssumption == MaxRestarts \in Nat

InitialRemainingDetectionEpochs == 2

VARIABLES
  tracked,        \* validatorsState
  ticked,         \* the tick of the current slot was taken or lost
  startEpoch, previousEpoch, firstRun,   \* locals of Start
  checking,       \* the question put to the beacon node, or None
  restarts,
  quietEpochs     \* history: epochs reported quiet since the count began

loopVars == <<ticked, startEpoch, previousEpoch, firstRun>>
doppelgangerVars == <<now, restarts, tracked, loopVars, checking, quietEpochs>>

State == [remainingEpochs : 0 .. InitialRemainingDetectionEpochs,
          observedQuorum  : BOOLEAN]

DoppelgangerTypeOK ==
  /\ now \in Slot /\ restarts \in 0 .. MaxRestarts
  /\ tracked \in [Validators -> State \cup {None}]
  /\ ticked \in BOOLEAN
  /\ startEpoch \in Nat /\ previousEpoch \in Nat
  /\ firstRun \in BOOLEAN
  /\ checking \in [epoch : Nat, slot : Slot, validators : SUBSET Validators] \cup {None}
  /\ quietEpochs \in [Validators -> SUBSET Nat]

DoppelgangerInit ==
  /\ now = 0 /\ restarts = 0
  /\ tracked = [v \in Validators |-> None]
  /\ ticked = FALSE
  /\ startEpoch = 0 /\ previousEpoch = 0 /\ firstRun = TRUE
  /\ checking = None
  /\ quietEpochs = [v \in Validators |-> {}]

-----------------------------------------------------------------------------
Safe(st) == st.remainingEpochs = 0 \/ st.observedQuorum

CanSign(v) == tracked[v] # None /\ Safe(tracked[v])

\* A runner saw a quorum of post-consensus signatures for v.
ReportQuorum(v) ==
  /\ tracked[v] # None /\ ~Safe(tracked[v])
  /\ tracked' = [tracked EXCEPT ![v].observedQuorum = TRUE]
  /\ UNCHANGED <<now, restarts, loopVars, checking, quietEpochs>>

\* The event handler removed v, or liquidated its cluster.
RemoveValidatorState(v) ==
  /\ tracked' = [tracked EXCEPT ![v] = None]
  /\ quietEpochs' = [quietEpochs EXCEPT ![v] = {}]
  /\ UNCHANGED <<now, restarts, loopVars, checking>>

NewState == [remainingEpochs |-> InitialRemainingDetectionEpochs,
             observedQuorum |-> FALSE]

\* updateDoppelgangerState: the validators in charge this epoch, new ones with
\* their whole detection period ahead.
Updated(participating) ==
  [v \in Validators |->
     IF v \notin participating THEN None
     ELSE IF tracked[v] = None THEN NewState
     ELSE tracked[v]]

\* resetDoppelgangerStates: the count starts anew; an observed quorum stands.
ResetStates(states) ==
  [v \in Validators |->
     IF states[v] = None THEN None
     ELSE [states[v] EXCEPT !.remainingEpochs = InitialRemainingDetectionEpochs]]

\* Mutant: the epoch the node started in is checked a second time at its end.
ChecksAgainInStartEpoch == firstRun \/ IsLastSlotOfEpoch(now)

\* Whether a tick does more than refresh the tracked validators.
ChecksNow ==
  /\ firstRun \/ IsLastSlotOfEpoch(now)
  /\ startEpoch # CurrentEpoch

EpochSkipped == previousEpoch > 0 /\ CurrentEpoch # previousEpoch + 1

\* One turn of Start's loop, up to the call of the beacon node; with nothing
\* to ask for it ends here.
Tick(participating) ==
  /\ UNCHANGED <<now, restarts>>
  /\ ~ticked /\ checking = None
  /\ ticked' = TRUE
  /\ LET updated == Updated(participating)
         states  == IF ChecksNow /\ EpochSkipped THEN ResetStates(updated) ELSE updated
         unsafe  == {v \in Validators : states[v] # None /\ ~Safe(states[v])}
     IN  /\ tracked' = states
         /\ quietEpochs' = [v \in Validators |->
              IF tracked[v] = None \/ states[v] = None \/ (ChecksNow /\ EpochSkipped)
              THEN {} ELSE quietEpochs[v]]
         /\ \/ /\ ChecksNow
               /\ firstRun' = FALSE
               /\ startEpoch' = IF firstRun THEN CurrentEpoch ELSE startEpoch
               /\ checking' = IF unsafe = {} THEN None
                              ELSE [epoch |-> CurrentEpoch - 1, slot |-> now,
                                    validators |-> unsafe]
               /\ previousEpoch' = IF unsafe = {} THEN CurrentEpoch ELSE previousEpoch
            \/ /\ ~ChecksNow
               /\ UNCHANGED <<firstRun, startEpoch, previousEpoch, checking>>

\* checkLiveness gives up shortly after the next slot began.
WithinDeadline == checking # None => now = checking.slot

\* processLivenessData: the answer meets the states as they are now.
Processed(live) ==
  [v \in Validators |->
     IF v \notin checking.validators \/ tracked[v] = None THEN tracked[v]
     ELSE IF v \in live
          THEN [tracked[v] EXCEPT !.remainingEpochs = InitialRemainingDetectionEpochs]
     ELSE IF tracked[v].remainingEpochs = 0 THEN tracked[v]
     ELSE [tracked[v] EXCEPT !.remainingEpochs = @ - 1]]

LivenessAnswered(live) ==
  /\ checking # None /\ live \subseteq checking.validators
  /\ tracked' = Processed(live)
  /\ quietEpochs' = [v \in Validators |->
       IF v \notin checking.validators \/ tracked[v] = None THEN quietEpochs[v]
       ELSE IF v \in live THEN {}
       ELSE quietEpochs[v] \cup {checking.epoch}]
  /\ checking' = None
  /\ previousEpoch' = checking.epoch + 1
  /\ UNCHANGED <<now, restarts, ticked, startEpoch, firstRun>>

\* The beacon node failed or missed the deadline.  The turn counts as done.
LivenessFailed ==
  /\ checking # None
  /\ checking' = None
  /\ previousEpoch' = checking.epoch + 1
  /\ UNCHANGED <<now, restarts, tracked, ticked, startEpoch, firstRun, quietEpochs>>

-----------------------------------------------------------------------------
\* The next slot begins; a tick nobody took is lost.
NewSlot ==
  /\ Advance /\ WithinDeadline
  /\ ticked' = FALSE
  /\ UNCHANGED <<restarts, tracked, startEpoch, previousEpoch, firstRun, checking,
                 quietEpochs>>

\* The process restarts: all of it was in memory.
Crash ==
  /\ restarts < MaxRestarts /\ restarts' = restarts + 1
  /\ tracked' = [v \in Validators |-> None]
  /\ ticked' = FALSE
  /\ startEpoch' = 0 /\ previousEpoch' = 0 /\ firstRun' = TRUE
  /\ checking' = None
  /\ quietEpochs' = [v \in Validators |-> {}]
  /\ UNCHANGED now

DoppelgangerNext ==
  \/ NewSlot
  \/ \E participating \in SUBSET Validators : Tick(participating)
  \/ \E v \in Validators : ReportQuorum(v) \/ RemoveValidatorState(v)
  \/ \E live \in SUBSET Validators : LivenessAnswered(live)
  \/ LivenessFailed
  \/ Crash

DoppelgangerSpec == DoppelgangerInit /\ [][DoppelgangerNext]_doppelgangerVars

-----------------------------------------------------------------------------
\* A validator with no observed quorum is safe only after two different epochs
\* in which the beacon node reported it quiet, both later than the moment it
\* was tracked, last reported live or reset by a skipped epoch (Start and
\* processLivenessData: the first check and the checks at the ends of epochs
\* never count an epoch twice).
SafeOnlyAfterQuietEpochs ==
  \A v \in Validators :
    (tracked[v] # None /\ tracked[v].remainingEpochs = 0) =>
      Cardinality(quietEpochs[v]) >= InitialRemainingDetectionEpochs
=============================================================================
