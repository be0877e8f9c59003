----------------------------- MODULE Controller -----------------------------
(***************************************************************************)
(* The QBFT controller of one duty runner (protocol/v2/qbft/controller):   *)
(* which heights have an instance, which of them the controller remembers, *)
(* and what starting a height, a decided certificate and a round timeout   *)
(* do to them.                                                             *)
(*                                                                         *)
(* What happens inside an instance is the subject of QBFT; here it is cut  *)
(* down to its round, whether that round has an accepted proposal, whether *)
(* it is decided or irrelevant, and whether its round timer is armed.  An  *)
(* instance that UponDecided makes from a certificate is decided from the  *)
(* beginning and has no further state.                                     *)
(***************************************************************************)
EXTENDS Integers, FiniteSets

CONSTANTS
  Heights,       \* heights (slots) duties and messages are about
  Capacity,      \* InstancesDefaultCapacity
  CutOffRound    \* config.GetCutOffRound()

FirstHeight == 0
NoRound == 0
FirstRound == 1
Rounds == FirstRound .. CutOffRound
WorkingRounds == FirstRound .. CutOffRound - 1  \* rounds that can be decided

ASSUME ControllerAssumption ==
  /\ Heights \subseteq Nat
  /\ Capacity \in Nat \ {0}
  /\ CutOffRound \in Nat /\ CutOffRound > FirstRound

VARIABLES
  latest,         \* Controller.LatestInstanceHeight
  recent,         \* Controller.RecentInstances: heights, started here or not
  instance,       \* the state of the instance started at each height
  started,        \* history: how often an instance was started at each height
  decidedHeights  \* history: heights this controller has seen decided

controllerVars == <<latest, recent, instance, started, decidedHeights>>

-----------------------------------------------------------------------------
(* Instances.                                                              *)

\* own: started by this controller, rather than made from a certificate.
Entry == [height : Heights, own : BOOLEAN]
OwnEntry(h) == [height |-> h, own |-> TRUE]
CertificateEntry(h) == [height |-> h, own |-> FALSE]

\* timer: the round the timer is armed for, NoRound when it is not.
Instance == [round : Rounds, accepted : BOOLEAN, decided : BOOLEAN,
             irrelevant : BOOLEAN, timer : Rounds \cup {NoRound}]

\* NewInstance followed by Start.
NewInstance == [round |-> FirstRound, accepted |-> FALSE, decided |-> FALSE,
                irrelevant |-> FALSE, timer |-> FirstRound]

\* FindInstance, and IsDecided of the instance found.
Known(h) == \E i \in recent : i.height = h
KnownUndecided(h) == OwnEntry(h) \in recent /\ ~instance[h].decided

\* Mutant: the cutoff round still counts as relevant.
RelevantAtCutOff(inst) == ~inst.irrelevant /\ inst.round =< CutOffRound

\* IsRelevant.
Relevant(inst) == ~inst.irrelevant /\ inst.round < CutOffRound

\* Mutant: the timer is armed for the round after.
BumpedArmingNext(inst, r) ==
  IF r > inst.round
  THEN [inst EXCEPT !.round = r, !.accepted = FALSE,
                    !.timer = IF Relevant([inst EXCEPT !.round = r])
                              THEN r + 1 ELSE @]
  ELSE inst

\* bumpToRound: arms the timer while the instance is relevant.  At the cutoff
\* the timer of the round left behind is not stopped.
Bumped(inst, r) ==
  IF r > inst.round
  THEN [inst EXCEPT !.round = r, !.accepted = FALSE,
                    !.timer = IF Relevant([inst EXCEPT !.round = r])
                              THEN r ELSE @]
  ELSE inst

MarkDecided(inst, r) ==
  [inst EXCEPT !.decided = TRUE, !.round = r, !.timer = NoRound]
MarkIrrelevant(inst) == [inst EXCEPT !.irrelevant = TRUE, !.timer = NoRound]

\* Mutant: the highest instance is dropped.
AddedDroppingHighest(entries, i) ==
  IF Cardinality(entries) < Capacity THEN entries \cup {i}
  ELSE {e \in entries \cup {i} :
          \E other \in entries \cup {i} : other.height > e.height}

\* addNewInstance: kept in descending order of height; at capacity the lowest,
\* possibly the new one, is dropped.
Added(entries, i) ==
  IF Cardinality(entries) < Capacity THEN entries \cup {i}
  ELSE {e \in entries \cup {i} :
          \E other \in entries \cup {i} : other.height < e.height}

-----------------------------------------------------------------------------
(* Operations.                                                             *)

ControllerInit ==
  /\ latest = FirstHeight
  /\ recent = {}
  /\ instance = [h \in Heights |-> NewInstance]
  /\ started = [h \in Heights |-> 0]
  /\ decidedHeights = {}

\* Mutant: the check for a past height is missing.
CanStartAnyHeight(h) == ~Known(h)

\* The conditions under which startInstance does not return an error.
CanStart(h) == h >= latest /\ ~Known(h)

\* Mutant: the recent instances are not terminated.
StartedWithoutMarking(h) == [instance EXCEPT ![h] = NewInstance]

\* markRecentInstancesIrrelevant, and the new instance.
InstancesAfterStart(h) ==
  [k \in Heights |-> IF k = h THEN NewInstance
                     ELSE IF OwnEntry(k) \in recent THEN MarkIrrelevant(instance[k])
                     ELSE instance[k]]

StartNewInstance(h) ==
  /\ CanStart(h)
  /\ instance' = InstancesAfterStart(h)
  /\ recent' = Added(recent, OwnEntry(h))
  /\ latest' = h
  /\ started' = [started EXCEPT ![h] = @ + 1]
  /\ UNCHANGED decidedHeights

\* Whether UponDecided, given a certificate for h, signals "newly decided".
Signals(h) == ~Known(h) \/ KnownUndecided(h)

UponDecided(h, r) ==
  /\ \/ /\ ~Known(h)
        /\ recent' = Added(recent, CertificateEntry(h))
        /\ latest' = IF h > latest THEN h ELSE latest
        /\ UNCHANGED instance
     \/ /\ KnownUndecided(h)
        /\ instance' = [instance EXCEPT ![h] = MarkDecided(@, r)]
        /\ UNCHANGED <<recent, latest>>
     \/ /\ ~Signals(h)
        /\ UNCHANGED <<recent, latest, instance>>
  /\ decidedHeights' = decidedHeights \cup {h}
  /\ UNCHANGED started

\* UponExistingInstanceMsg, for what a message may do to an instance: accept
\* a proposal of this or a later round, enter a later round, decide.
CanProcess(h) == KnownUndecided(h) /\ Relevant(instance[h])

UponProposal(h, r) ==
  /\ CanProcess(h)
  /\ \/ r = instance[h].round /\ ~instance[h].accepted
     \/ r > instance[h].round
  /\ LET bumped == Bumped(instance[h], r)
     IN  instance' = [instance EXCEPT ![h] =
                        [bumped EXCEPT !.accepted = Relevant(bumped)]]
  /\ UNCHANGED <<latest, recent, started, decidedHeights>>

UponRoundChange(h, r) ==
  /\ CanProcess(h)
  /\ r > instance[h].round
  /\ instance' = [instance EXCEPT ![h] = Bumped(@, r)]
  /\ UNCHANGED <<latest, recent, started, decidedHeights>>

UponCommit(h) ==
  /\ CanProcess(h)
  /\ instance[h].accepted
  /\ instance' = [instance EXCEPT ![h] = MarkDecided(@, @.round)]
  /\ decidedHeights' = decidedHeights \cup {h}
  /\ UNCHANGED <<latest, recent, started>>

\* The conditions under which OnQBFTRoundTimeout changes the instance.
TimeoutApplies(h, r) == CanProcess(h) /\ r >= instance[h].round

OnQBFTRoundTimeout(h, r) ==
  /\ TimeoutApplies(h, r)
  /\ instance' = [instance EXCEPT ![h] = Bumped(@, @.round + 1)]
  /\ UNCHANGED <<latest, recent, started, decidedHeights>>

\* The round timer fires; what becomes of the event is up to its owner.
TimerExpires(h) ==
  /\ started[h] > 0
  /\ instance[h].timer # NoRound
  /\ instance' = [instance EXCEPT ![h].timer = NoRound]
  /\ UNCHANGED <<latest, recent, started, decidedHeights>>

ControllerNext ==
  \E h \in Heights :
    \/ StartNewInstance(h)
    \/ UponCommit(h)
    \/ TimerExpires(h)
    \/ \E r \in WorkingRounds : UponDecided(h, r)
    \/ \E r \in Rounds : \/ UponProposal(h, r)
                         \/ UponRoundChange(h, r)
                         \/ OnQBFTRoundTimeout(h, r)

ControllerSpec == ControllerInit /\ [][ControllerNext]_controllerVars

-----------------------------------------------------------------------------
(* Properties.                                                             *)

ControllerTypeOK ==
  /\ latest \in Heights \cup {FirstHeight}
  /\ recent \subseteq Entry
  /\ instance \in [Heights -> Instance]
  /\ started \in [Heights -> Nat]
  /\ decidedHeights \subseteq Heights

\* Heights at which this controller ran consensus or saw it end.
Touched(h) == started[h] > 0 \/ h \in decidedHeights

\* A height gets consensus at most once, and never after its certificate was
\* seen: although only Capacity instances are remembered, no sequence of
\* certificates for later heights makes the controller forget one so that
\* startInstance would run it, and sign for it, a second time.
NeverRunsAgain ==
  [][\A h \in Heights : started'[h] # started[h] => ~Touched(h)]_controllerVars

\* What FindInstance no longer finds is older than all the controller still
\* remembers, and Capacity heights are remembered in its place.
ForgetsOnlyTheOldest ==
  \A h \in Heights :
    Touched(h) /\ ~Known(h) =>
      /\ \A i \in recent : h < i.height
      /\ Cardinality(recent) = Capacity

\* At most one of the instances the controller routes messages and timeouts to
\* is still working: starting a height terminates the others.
OneInstanceWorks ==
  \A i, j \in recent :
    CanProcess(i.height) /\ CanProcess(j.height) => i = j

=============================================================================
