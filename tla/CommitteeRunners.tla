-------------------------- MODULE CommitteeRunners --------------------------
(***************************************************************************)
(* One duty of a CommitteeRunner (attestations and sync committee          *)
(* messages) or of an AggregatorCommitteeRunner (aggregations and sync     *)
(* committee contributions): protocol/v2/ssv/runner/committee.go and       *)
(* aggregator_committee.go, from the start of the duty to its outcome.     *)
(* Either works for several validators at once, and for every one of them  *)
(* needs a quorum of partial signatures of its own.                        *)
(*                                                                         *)
(* The agreement itself is QBFT's; here it yields a decided value at some  *)
(* point.  Messages arrive in any order or not at all; the signatures of   *)
(* Byzantine operators may be bad.                                         *)
(***************************************************************************)
EXTENDS PartialSignatures, DutyOutcome

CONSTANTS
  Self,          \* this operator
  Byzantine,     \* operators that may send bad signatures
  Validators,    \* validators this operator holds shares of
  Duties,        \* pairs of a kind and a validator with a duty in the slot
  PreViews,      \* sets of duties an operator may send proofs for ...
  PostViews,     \* ... and sign: their validators differ, and doppelganger
                 \* protection holds attestations back
  Elections,     \* sets of duties whose proofs may select their validators
  Values,        \* sets of duties an aggregator's value may name
  BadMessages,   \* messages a Byzantine operator may send: functions from
                 \* some of the duties to whether the signature is good
  MaxByzantine   \* bound: messages of Byzantine operators

Kinds == {"att", "sync"}

ASSUME CommitteeRunnersAssumption ==
  /\ Self \in Operators \ Byzantine /\ Byzantine \subseteq Operators
  /\ Duties \subseteq Kinds \X Validators
  /\ PreViews \cup PostViews \cup Elections \cup Values \subseteq SUBSET Duties
  /\ {} \notin Values
  /\ BadMessages \subseteq UNION {[s -> BOOLEAN] : s \in SUBSET Duties}
  /\ MaxByzantine \in Nat

VARIABLES
  role,        \* "committee" or "aggregator"
  consuming,   \* the queue of the slot has its consumer
  started,     \* State.RunningInstance is set
  decided,     \* the duties the decided value is about, or None
  pre, post,   \* PreConsensusContainer, PostConsensusContainer
  seen,        \* preConsensusSeenSigners
  checked,     \* preConsensusDutiesCheckedForSelection
  valid,       \* duties the guard still takes for valid
  submitted,   \* submittedDuties
  own,         \* duties of the post-consensus message this operator sent
  safe,        \* validators the doppelganger handler was told of
  elected,     \* duties whose selection proof selects their validator
  arrived,     \* <<phase, operator>>: honest messages that arrived
  byzantine,   \* number of Byzantine messages that arrived
  unbuilt,     \* history: duties left out as their object could not be built
  unfetched,   \* history: selected duties whose data could not be fetched
  repeated     \* history: duties submitted more than once

runnerVars == <<role, consuming, started, decided, pre, post, seen, checked,
                valid, submitted, own, safe>>
envVars == <<elected, arrived, byzantine>>
historyVars == <<unbuilt, unfetched, repeated>>
vars == <<runnerVars, outcomeVars, envVars, historyVars>>

Container == [Duties -> Entry]

TypeOK ==
  /\ OutcomeTypeOK
  /\ role \in {"committee", "aggregator"}
  /\ consuming \in BOOLEAN /\ started \in BOOLEAN
  /\ decided \in {None} \cup SUBSET Duties
  /\ pre \in Container /\ post \in Container
  /\ seen \subseteq Operators /\ arrived \subseteq {"pre", "post"} \X Operators
  /\ {checked, valid, submitted, own, elected, unbuilt, unfetched, repeated}
        \subseteq SUBSET Duties
  /\ safe \subseteq Validators
  /\ byzantine \in 0 .. MaxByzantine

Init ==
  /\ OutcomeInit
  /\ role \in {"committee", "aggregator"}
  /\ consuming = FALSE /\ started = FALSE /\ decided = None
  /\ pre = [d \in Duties |-> NoSignatures] /\ post = [d \in Duties |-> NoSignatures]
  /\ seen = {} /\ checked = {} /\ valid = Duties /\ submitted = {} /\ own = {}
  /\ safe = {}
  /\ elected \in IF role = "aggregator" THEN Elections ELSE {{}}
  /\ arrived = {} /\ byzantine = 0
  /\ unbuilt = {} /\ unfetched = {} /\ repeated = {}

-----------------------------------------------------------------------------
(* Starting the duty.                                                      *)

\* StartNewDuty and executeDuty.  The committee runner proposes its own vote
\* to the instance at once; the aggregator signs and sends its selection
\* proofs first.
StartNewDuty ==
  /\ ~watched
  /\ watched' = TRUE
  /\ consuming' = TRUE
  /\ started' = (role = "committee")
  /\ UNCHANGED <<role, decided, pre, post, seen, checked, valid, submitted, own, safe>>
  /\ UNCHANGED <<succeeded, concluded, noted, reported, envVars, historyVars>>

\* An error of executeDuty (no attestation data, a proof not signed or not
\* sent) fails the duty, and its queue gets no consumer.
StartNewDutyFails ==
  /\ ~watched
  /\ watched' = TRUE
  /\ concluded' = "failed"
  /\ UNCHANGED <<runnerVars, succeeded, noted, reported, envVars, historyVars>>

\* The guard takes up a newer duty of a validator, or the validator stops.
Invalidate(d) ==
  /\ role = "committee" /\ consuming /\ d \in valid
  /\ valid' = valid \ {d}
  /\ UNCHANGED <<role, consuming, started, decided, pre, post, seen, checked,
                 submitted, own, safe, outcomeVars, envVars, historyVars>>

-----------------------------------------------------------------------------
(* Messages with partial signatures.                                       *)

\* An honest operator sends one message of a phase, with good signatures.
\* This operator sends what it signed.
HonestMessages(phase, o) ==
  LET sets == CASE phase = "pre" -> PreViews
                [] phase = "post" /\ o = Self -> {own}
                [] OTHER -> PostViews
  IN  {[d \in s |-> TRUE] : s \in sets \ {{}}}

MessagesOf(phase, o) ==
  IF o \in Byzantine THEN BadMessages ELSE HonestMessages(phase, o)

Arrives(phase, o) ==
  \/ /\ o \notin Byzantine /\ <<phase, o>> \notin arrived
     /\ arrived' = arrived \cup {<<phase, o>>}
     /\ UNCHANGED <<elected, byzantine>>
  \/ /\ o \in Byzantine /\ byzantine < MaxByzantine
     /\ byzantine' = byzantine + 1
     /\ UNCHANGED <<elected, arrived>>

\* The signing root of a duty: selection proofs of a kind share one, and so do
\* the votes of a kind; an aggregate or a contribution names its validator.
PreRoot == [d \in Duties |-> d[1]]
PostRoot == [d \in Duties |-> IF role = "committee" THEN d[1] ELSE d]

\* The loop over the roots that got a quorum, taken in the order of rank, for
\* the expected duties of these roots.  A duty whose quorum does not
\* reconstruct has the signatures of its validator for the roots ahead
\* verified as well.
Tried(c, roots, expected, root) ==
  {d \in expected : root[d] \in roots /\ HasQuorum(c[d])}
Failing(c, tried) == {d \in tried : ~Reconstructs(c[d])}
VerifiedKeys(c, roots, tried, rank, root) ==
  tried \cup {d \in Duties : \E f \in Failing(c, tried) :
                 /\ f[2] = d[2] /\ root[d] \in roots
                 /\ rank[root[f]] < rank[root[d]]}

Ranks(roots) ==
  {r \in [roots -> 1 .. Cardinality(roots)] :
     \A x, y \in roots : r[x] = r[y] => x = y}

-----------------------------------------------------------------------------
(* Pre-consensus: selection proofs (aggregator only).                      *)

HasSeenAllPreConsensusSigners == seen' = Operators

\* Duties marked as checked: of a contributor only once its data was fetched.
CheckedForSelection(ready, unavailable) ==
  {d \in ready : d[1] = "att" \/ d \notin elected \/ d[1] \notin unavailable}

\* The duties that were chosen have their data fetched, which fails for the
\* unavailable kinds, and the instance is started with what was fetched.  An
\* aggregator counts as chosen before its data is there, a contributor after.
SelectAndDecide(ready, chosen, unavailable, decideOk) ==
  LET data == {d \in chosen : d[1] \notin unavailable}
      any  == {d \in chosen : d[1] = "att" \/ d \in data}
  IN  /\ checked' = checked \cup CheckedForSelection(ready, unavailable)
      /\ unfetched' = unfetched \cup IF decideOk THEN chosen \ data ELSE chosen
      /\ started' = (data # {} /\ decideOk)
      /\ IF any = {} /\ (Duties \subseteq checked' \/ HasSeenAllPreConsensusSigners)
         THEN markDutyNotRequired ELSE UNCHANGED outcomeVars

\* ProcessPreConsensus.  After a quorum the duties of its roots are tested for
\* selection, unless the beacon node does not return the domain of the roots,
\* which fails the duty.
ProcessPreConsensus(o, msg) ==
  /\ role = "aggregator" /\ consuming /\ ~started
  /\ Arrives("pre", o)
  /\ seen' = seen \cup {o}
  /\ UNCHANGED <<role, consuming, decided, post, valid, submitted, own, safe, unbuilt, repeated>>
  /\ IF succeeded
     THEN UNCHANGED <<started, pre, checked, unfetched, outcomeVars>>
     ELSE
       LET c      == StoreAll(pre, o, msg)
           roots  == {PreRoot[d] : d \in NewQuorums(pre, o, msg)}
           tried  == Tried(c, roots, Duties, PreRoot)
           ready  == tried \ Failing(c, tried)
           chosen == ready \cap elected
       IN  IF roots = {}
           THEN /\ pre' = c
                /\ UNCHANGED <<started, checked, unfetched>>
                /\ IF HasSeenAllPreConsensusSigners THEN markDutyNotRequired
                   ELSE UNCHANGED outcomeVars
           ELSE \/ /\ pre' = c
                   /\ UNCHANGED <<started, checked, unfetched>>
                   /\ markDutyFailed
                \/ /\ \E rank \in Ranks(roots) :
                        pre' = VerifyAll(c, VerifiedKeys(c, roots, tried, rank, PreRoot))
                   /\ \E unavailable \in SUBSET Kinds, decideOk \in BOOLEAN :
                        SelectAndDecide(ready, chosen, unavailable, decideOk)

-----------------------------------------------------------------------------
(* Consensus.                                                              *)

\* The decided value: the committee votes for all duties; an aggregator's
\* value names some of them.
DecidedValues == IF role = "committee" THEN {Duties} ELSE Values

\* ProcessConsensus, when the instance decides a value this operator accepts:
\* it signs its duties, but for attestations doppelganger protection holds
\* back, and sends the signatures; ok is false if signing or sending failed,
\* which does not end the duty.  With no duty left there is nothing to do.
ProcessConsensus(value, view, ok) ==
  /\ consuming /\ started /\ decided = None /\ ~succeeded
  /\ decided' = value
  /\ UNCHANGED <<role, started, pre, post, seen, checked, valid, submitted, safe>>
  /\ UNCHANGED <<envVars, historyVars>>
  /\ LET mine == IF role = "committee" THEN valid ELSE value
     IN  IF mine = {}
         THEN markDutyNotRequired /\ consuming' = FALSE /\ own' = {}
         ELSE /\ consuming' = consuming
              /\ own' = IF ok THEN mine \cap view ELSE {}
              /\ IF ok THEN UNCHANGED outcomeVars ELSE noteDutyFailure

\* A decided value this operator cannot take up fails the duty.
DecidesUnacceptable ==
  /\ consuming /\ started /\ decided = None /\ ~succeeded
  /\ concluded = None
  /\ markDutyFailed
  /\ UNCHANGED <<runnerVars, envVars, historyVars>>

-----------------------------------------------------------------------------
(* Post-consensus.                                                         *)

\* Mutant: duties already submitted are not skipped.
AllOf(tried) == tried

\* Skip if already submitted.
NotSubmitted(tried) == tried \ submitted

\* Mutant: the duty is over with the first submission.
ConcludesUnchecked(built) == TRUE

\* HasSubmittedAllValidatorDuties, HasSubmittedAllDuties: over the duties whose
\* objects were built for this message.
HasSubmittedAll(built) == built \subseteq submitted'

\* The duties an object is built for: those the guard still takes for valid,
\* less the ones of the kinds whose domain the beacon node does not return.
\* The aggregator's objects come from the decided value, all or none.
Expected == IF role = "committee" THEN valid ELSE decided
Built(unavailable) == {d \in Expected : d[1] \notin unavailable}

\* Submitting to the beacon node, which rejects the kinds in rejected.  The
\* committee submits all attestations, then all sync committee messages, and
\* gives up at the first error; the aggregator goes on with the rest.
Accepted(ready, rejected) ==
  IF role = "aggregator" THEN {d \in ready : d[1] \notin rejected}
  ELSE IF \E d \in ready : d[1] = "att" /\ "att" \in rejected THEN {}
  ELSE {d \in ready : d[1] \notin rejected}

\* The rest of ProcessPostConsensus once some roots have a quorum.
ActOnQuorum(c, roots, built, rejected) ==
  LET tried   == NotSubmitted(Tried(c, roots, built, PostRoot))
      ready   == tried \ Failing(c, tried)
      accepts == Accepted(ready, rejected)
      attests == {d \in ready : role = "committee" /\ d[1] = "att"}
  IN  IF built = {} \/ (role = "aggregator" /\ built # Expected)
      THEN /\ post' = c
           /\ UNCHANGED <<submitted, safe, unbuilt, repeated>>
           /\ IF Expected = {} THEN markDutyNotRequired /\ consuming' = FALSE
              ELSE markDutyFailed /\ UNCHANGED consuming
      ELSE /\ \E rank \in Ranks(roots) :
                post' = VerifyAll(c, VerifiedKeys(c, roots, tried, rank, PostRoot))
           /\ UNCHANGED consuming
           /\ submitted' = submitted \cup accepts
           /\ repeated' = repeated \cup (submitted \cap accepts)
           /\ unbuilt' = unbuilt \cup (Expected \ built)
           /\ safe' = safe \cup {d[2] : d \in attests}
           /\ CASE accepts # ready -> markDutyFailed
                [] accepts = ready /\ Failing(c, tried) # {} -> UNCHANGED outcomeVars
                [] OTHER -> IF HasSubmittedAll(built) THEN markDutySucceeded
                            ELSE UNCHANGED outcomeVars

\* ProcessPostConsensus.
ProcessPostConsensus(o, msg) ==
  /\ consuming /\ decided # None /\ ~succeeded
  /\ Arrives("post", o)
  /\ UNCHANGED <<role, started, decided, pre, seen, checked, valid, own, unfetched>>
  /\ LET c     == StoreAll(post, o, msg)
         roots == {PostRoot[d] : d \in NewQuorums(post, o, msg)}
     IN  IF roots = {}
         THEN /\ post' = c
              /\ UNCHANGED <<consuming, outcomeVars, submitted, safe, unbuilt, repeated>>
         ELSE \E unavailable, rejected \in SUBSET {d[1] : d \in Expected} :
                ActOnQuorum(c, roots, Built(unavailable), rejected)

-----------------------------------------------------------------------------

Watch ==
  /\ ReportConclusion \/ ReportAtDeadline
  /\ UNCHANGED <<runnerVars, envVars, historyVars>>

Next ==
  \/ StartNewDuty
  \/ StartNewDutyFails
  \/ \E d \in Duties : Invalidate(d)
  \/ \E o \in Operators : \E msg \in MessagesOf("pre", o) : ProcessPreConsensus(o, msg)
  \/ \E value \in DecidedValues, view \in PostViews, ok \in BOOLEAN :
       ProcessConsensus(value, view, ok)
  \/ DecidesUnacceptable
  \/ \E o \in Operators : \E msg \in MessagesOf("post", o) : ProcessPostConsensus(o, msg)
  \/ Watch

Spec == Init /\ [][Next]_vars

-----------------------------------------------------------------------------
(* Properties.                                                             *)

\* Only the message that crosses a quorum makes the runner act on it, and
\* what it does may drop signatures or fail: still, a duty whose quorum of
\* good partial signatures has arrived is submitted, unless the failure of
\* the duty was concluded, the duty was given up, or its object could not be
\* built when its quorum formed (a quorum never forms twice, and such a duty
\* is missed in silence).
QuorumIsUsed ==
  consuming /\ decided # None =>
    \A d \in Expected :
      Cardinality(post[d].good) >= Quorum =>
        \/ d \in submitted \cup unbuilt
        \/ concluded = "failed"
        \/ succeeded

\* What is submitted to the beacon node, and what the doppelganger handler
\* takes for a sign that this operator's own cluster attests, rests on a
\* quorum of good partial signatures.
SubmissionsAreSigned ==
  \A d \in submitted \cup {<<"att", v>> : v \in safe} :
    d \in Duties /\ Cardinality(post[d].good) >= Quorum

\* Roots shared by validators, retries after a bad signature and late quorums
\* make the runner come back to a root; no duty is submitted twice.
SubmittedOnce == repeated = {}

\* The outcome that is reported is the one that came about: "succeeded" when
\* every duty still valid was submitted, but for those whose object could not
\* be built; "not_required" when no duty was left or, of an aggregator's
\* duties, none with a quorum of proofs was selected, but for those whose
\* data could not be fetched.
OutcomeIsTrue ==
  /\ reported = "succeeded" => Expected \subseteq submitted \cup unbuilt
  /\ reported = "not_required" =>
       IF role = "committee" THEN valid = {}
       ELSE \A d \in elected : Cardinality(pre[d].good) >= Quorum => d \in unfetched

=============================================================================
