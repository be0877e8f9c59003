------------------------------- MODULE Runner -------------------------------
(***************************************************************************)
(* A validator's duty runner with consensus (protocol/v2/ssv/runner), its  *)
(* QBFT controller, and the queue consumer in front of them                *)
(* (protocol/v2/ssv/validator/queue_validator.go).  The runner is reused   *)
(* for the duties of one validator and role, slot after slot.  One         *)
(* goroutine pops a message, hands it to the runner and waits for it, so   *)
(* every handler is one atomic step; duty starts, round timeouts, consensus *)
(* messages and partial signatures arrive in the queue in any order.       *)
(*                                                                         *)
(* A step of the runner that touches consensus is a step of Controller     *)
(* together with what the runner makes of it.                              *)
(***************************************************************************)
EXTENDS Controller

CONSTANTS
  Duties,   \* slots the scheduler executes a duty for
  NoDuty    \* BaseRunner.State = nil

ASSUME RunnerAssumption == Duties \subseteq Heights /\ NoDuty \notin Heights

VARIABLES
  dutyEvents,  \* ExecuteDuty events not yet popped
  timeouts,    \* Timeout events in the queue
  duty,        \* State.CurrentDuty.DutySlot()
  quorums,     \* the phases whose partial signatures reached their quorum
  running,     \* State.RunningInstance # nil
  taken,       \* State.DecidedValue is set
  succeeded,   \* State.Succeeded
  concluded    \* dutyConcluded = nil: the duty's outcome was handed over

dutyState == <<duty, quorums, running, taken, succeeded, concluded>>
runnerVars == <<dutyEvents, timeouts, dutyState>>
vars == <<controllerVars, runnerVars>>

Timeout == [height : Heights, round : Rounds]

-----------------------------------------------------------------------------
(* The queue consumer.                                                     *)

\* ~hasDutyRunning: only duty starts are popped.
Idle == duty = NoDuty \/ succeeded

\* The consumer's floor is the current duty's slot; what is queued below it
\* is dropped.
Pops(h) == ~Idle /\ h >= duty

\* HasRunningQBFTInstance and the instance's IsDecided.
RunningDecided == running /\ instance[duty].decided
HasRunningInstance == ~Idle /\ running /\ ~instance[duty].decided

\* awaitingProposalFilter: commits, certificates included, of the latest
\* height and of the running instance's round stay queued until a proposal is
\* accepted.
HeldBack(h, r) ==
  /\ HasRunningInstance /\ ~instance[duty].accepted
  /\ h = latest
  /\ r = instance[duty].round

-----------------------------------------------------------------------------
(* Duties.                                                                 *)

Init ==
  /\ ControllerInit
  /\ dutyEvents = Duties
  /\ timeouts = {}
  /\ duty = NoDuty
  /\ quorums = {}
  /\ running = FALSE
  /\ taken = FALSE
  /\ succeeded = FALSE
  /\ concluded = TRUE

\* While no instance was ever started any slot is accepted.
ShouldProcessDuty(s) == latest < s \/ latest = FirstHeight

\* An idle consumer purges what is below the slot of the duty it now serves.
TimeoutsAfterDutyStart(s) ==
  IF Idle /\ s # NoDuty THEN {t \in timeouts : t.height >= s} ELSE timeouts

\* baseStartNewDuty; executeDuty may fail, which concludes the duty.
StartNewDuty(s) ==
  /\ s \in dutyEvents
  /\ dutyEvents' = dutyEvents \ {s}
  /\ \/ /\ ShouldProcessDuty(s)
        /\ duty' = s
        /\ quorums' = {}
        /\ running' = FALSE
        /\ taken' = FALSE
        /\ succeeded' = FALSE
        /\ concluded' \in BOOLEAN
     \/ /\ ~ShouldProcessDuty(s)
        /\ UNCHANGED dutyState
  /\ timeouts' = TimeoutsAfterDutyStart(duty')
  /\ UNCHANGED controllerVars

\* ProcessPreConsensus at the first quorum of pre-consensus signatures: the
\* runner asks for a value and calls decide.  A failure, the controller
\* refusing the height included, concludes the duty.
ProcessPreConsensus ==
  /\ ~Idle
  /\ "pre" \notin quorums
  /\ quorums' = quorums \cup {"pre"}
  /\ \/ /\ StartNewInstance(duty)
        /\ running' = TRUE
        /\ UNCHANGED concluded
     \/ /\ concluded' = TRUE
        /\ UNCHANGED <<controllerVars, running>>
  /\ UNCHANGED <<dutyEvents, timeouts, duty, taken, succeeded>>

\* Mutant: didDecideCorrectly insists on the current height of the controller.
TakeUpLatest(h) ==
  \/ /\ running /\ h = duty /\ h = latest
     /\ \/ taken' = TRUE /\ UNCHANGED concluded
        \/ concluded' = TRUE /\ UNCHANGED taken
  \/ /\ ~(running /\ h = duty /\ h = latest)
     /\ UNCHANGED <<taken, concluded>>

\* baseConsensusMsgProcessing after the controller signalled a decision:
\* didDecideCorrectly, then the value is taken up (and signed), or found
\* invalid, which concludes the duty.
TakeUp(h) ==
  \/ /\ running /\ h = duty
     /\ \/ taken' = TRUE /\ UNCHANGED concluded
        \/ concluded' = TRUE /\ UNCHANGED taken
  \/ /\ ~(running /\ h = duty)
     /\ UNCHANGED <<taken, concluded>>

\* ProcessConsensus: nothing is processed once the running instance decided.
ProcessCertificate(h, r) ==
  /\ Pops(h) /\ ~HeldBack(h, r)
  /\ ~RunningDecided
  /\ UponDecided(h, r)
  /\ \/ Signals(h) /\ TakeUp(h)
     \/ ~Signals(h) /\ UNCHANGED <<taken, concluded>>
  /\ UNCHANGED <<dutyEvents, timeouts, duty, quorums, running, succeeded>>

ProcessCommit(h) ==
  /\ Pops(h)
  /\ ~RunningDecided
  /\ UponCommit(h)
  /\ TakeUp(h)
  /\ UNCHANGED <<dutyEvents, timeouts, duty, quorums, running, succeeded>>

ProcessProposalOrRoundChange(h, r) ==
  /\ Pops(h)
  /\ ~RunningDecided
  /\ UponProposal(h, r) \/ UponRoundChange(h, r)
  /\ UNCHANGED runnerVars

\* ProcessPostConsensus at the quorum of post-consensus signatures, which
\* ValidatePostConsensusMsg collects only for a running instance that is
\* decided with its value taken up.
ProcessPostConsensus ==
  /\ ~Idle
  /\ RunningDecided /\ taken
  /\ "post" \notin quorums
  /\ quorums' = quorums \cup {"post"}
  /\ succeeded' \in BOOLEAN
  /\ concluded' = TRUE
  /\ UNCHANGED <<controllerVars, dutyEvents, timeouts, duty, running, taken>>

\* The round timer's callback; a full queue drops the event.
RoundTimerFires(h) ==
  /\ TimerExpires(h)
  /\ timeouts' \in {timeouts,
       timeouts \cup {[height |-> h, round |-> instance[h].timer]}}
  /\ UNCHANGED <<dutyEvents, dutyState>>

\* The event popped: dropped below the floor, ignored for another slot than
\* the current duty's, else handed to the controller.
OnTimeout(t) ==
  /\ ~Idle
  /\ timeouts' = timeouts \ {t}
  /\ \/ t.height = duty /\ OnQBFTRoundTimeout(t.height, t.round)
     \/ /\ t.height # duty \/ ~TimeoutApplies(t.height, t.round)
        /\ UNCHANGED controllerVars
  /\ UNCHANGED <<dutyEvents, dutyState>>

Next ==
  \/ ProcessPreConsensus
  \/ ProcessPostConsensus
  \/ \E s \in Duties : StartNewDuty(s)
  \/ \E t \in timeouts : OnTimeout(t)
  \/ \E h \in Heights :
       \/ ProcessCommit(h)
       \/ RoundTimerFires(h)
       \/ \E r \in WorkingRounds : ProcessCertificate(h, r)
       \/ \E r \in Rounds : ProcessProposalOrRoundChange(h, r)

Spec == Init /\ [][Next]_vars

-----------------------------------------------------------------------------
(* Properties.                                                             *)

TypeOK ==
  /\ ControllerTypeOK
  /\ dutyEvents \subseteq Duties
  /\ timeouts \subseteq Timeout
  /\ duty \in Duties \cup {NoDuty}
  /\ quorums \subseteq {"pre", "post"}
  /\ running \in BOOLEAN
  /\ taken \in BOOLEAN
  /\ succeeded \in BOOLEAN
  /\ concluded \in BOOLEAN

\* No decision is lost between the controller and the runner: the controller
\* signals a height's decision once, and when the running instance is decided
\* the runner has its value or has given the duty up.
DecisionTakenUp == RunningDecided => taken \/ concluded

\* A timeout waiting in the queue is never of a round its instance has yet to
\* reach, so a late one advances the instance at most out of its own round.
TimeoutsAreNotAhead ==
  \A t \in timeouts :
    ~instance[t.height].decided => t.round =< instance[t.height].round

=============================================================================
