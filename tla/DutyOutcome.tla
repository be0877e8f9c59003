---------------------------- MODULE DutyOutcome -----------------------------
(***************************************************************************)
(* How a duty's outcome is concluded by the message loop and reported by   *)
(* the goroutine that watches the duty (protocol/v2/ssv/runner/runner.go,  *)
(* watchDutyOutcome and the mark functions).                               *)
(***************************************************************************)
CONSTANT None   \* no outcome yet

VARIABLES
  watched,     \* the watcher of the duty was started
  succeeded,   \* State.Succeeded
  concluded,   \* the conclusion sent over dutyConcluded
  noted,       \* a failure was noted over dutyFailureNoted
  reported     \* the outcome the watcher recorded

outcomeVars == <<watched, succeeded, concluded, noted, reported>>

Outcome == {"succeeded", "not_required", "failed", "stuck"}

ASSUME OutcomeAssumption == None \notin Outcome

OutcomeTypeOK ==
  /\ watched \in BOOLEAN /\ succeeded \in BOOLEAN /\ noted \in BOOLEAN
  /\ concluded \in (Outcome \ {"stuck"}) \cup {None}
  /\ reported \in Outcome \cup {None}

OutcomeInit ==
  /\ watched = FALSE /\ succeeded = FALSE /\ noted = FALSE
  /\ concluded = None /\ reported = None

\* concludeDuty hands over the first conclusion only.
concludeDuty(outcome) ==
  concluded' = IF concluded = None THEN outcome ELSE concluded

markDutySucceeded ==
  succeeded' = TRUE /\ concludeDuty("succeeded") /\ UNCHANGED <<watched, noted, reported>>

markDutyNotRequired ==
  succeeded' = TRUE /\ concludeDuty("not_required") /\ UNCHANGED <<watched, noted, reported>>

markDutyFailed ==
  concludeDuty("failed") /\ UNCHANGED <<watched, succeeded, noted, reported>>

noteDutyFailure == noted' = TRUE /\ UNCHANGED <<watched, succeeded, concluded, reported>>

-----------------------------------------------------------------------------

\* What the watcher reports at the deadline: a conclusion that landed just
\* then first, then a failure that was noted.
OutcomeAtDeadline ==
  CASE concluded # None -> concluded
    [] concluded = None /\ noted -> "failed"
    [] OTHER -> "stuck"

\* The watcher receives the conclusion.
ReportConclusion ==
  /\ watched /\ reported = None /\ concluded # None
  /\ reported' = concluded
  /\ UNCHANGED <<watched, succeeded, concluded, noted>>

\* The watcher's timer fires: dutyOutcomeDeadline has passed.
ReportAtDeadline ==
  /\ watched /\ reported = None
  /\ reported' = OutcomeAtDeadline
  /\ UNCHANGED <<watched, succeeded, concluded, noted>>

=============================================================================
