------------------------ MODULE ProposerPreferences -------------------------
(***************************************************************************)
(* The proposer preferences of one upcoming proposal of one validator: the *)
(* duty handler that emits the duty ahead of the proposal slot, anew when  *)
(* the chain reorganises or validators change                              *)
(* (operator/duties/proposer_preferences.go), and the runner that serves   *)
(* it (protocol/v2/ssv/runner/proposer_preferences.go and                  *)
(* proposer_preferences_request_auth.go).  Operators send their partial    *)
(* signatures once and at their own time, so a runner stashes what it      *)
(* hears and replays it whenever it starts the duty.                       *)
(*                                                                         *)
(* A preference stands for the dependent root it is built under; fee       *)
(* recipient and gas limit come along.  The validator keeps its proposal   *)
(* on every branch of the chain.  The runners of other slots are entries   *)
(* of their own in the same maps.                                          *)
(***************************************************************************)
EXTENDS PartialSignatures, BeaconClock

CONSTANTS
  ThisOperator,
  Preferences,       \* one for each dependent root of the proposal's epoch
  RequestAuths,      \* signing roots of this operator's builder auths
  Packets,           \* [signer, sigs]: messages that may arrive; sigs says of
                     \* its signing roots whether the signature is good
  ProposalSlot,
  ForkEpoch,         \* first epoch of Gloas
  GraceSlots,        \* indicesChangeEmitGraceSlots
  MaxPendingRoots,   \* maxPendingRootsPerSigner
  MaxReorgs,         \* bound: reorgs that change the dependent root
  MaxChanges,        \* bound: changes of the node's validators
  Nil                \* no preference, no runner

SigningRoots == Preferences \cup RequestAuths \cup UNION {DOMAIN p.sigs : p \in Packets}

RootsOf(o) == UNION {DOMAIN p.sigs : p \in {q \in Packets : q.signer = o}}

\* Message validation lets through one preference in a message, and what is in
\* the signer's budget of roots.
ASSUME PreferencesAssumption ==
  /\ ThisOperator \in Operators
  /\ \A p \in Packets :
       /\ p.signer \in Operators /\ p.sigs \in [DOMAIN p.sigs -> BOOLEAN]
       /\ DOMAIN p.sigs \cap Preferences = {} \/ \E r \in Preferences : DOMAIN p.sigs = {r}
  /\ \A o \in Operators : IsFiniteSet(RootsOf(o)) /\ Cardinality(RootsOf(o)) <= MaxPendingRoots
  /\ Preferences \cap RequestAuths = {}
  /\ ProposalSlot \in Nat /\ ForkEpoch \in Nat /\ GraceSlots \in Nat
  /\ MaxPendingRoots \in Nat /\ MaxReorgs \in Nat /\ MaxChanges \in Nat
  /\ Nil \notin Preferences

VARIABLES
  ticked,          \* the tick of this slot was taken up
  chain,           \* the preference under the beacon node's present root
  member,          \* the validator is one of this node's
  others,          \* the node has other participating validators
  reorged,         \* a reorg event waits for the handler ...
  changed,         \* ... and so does a change of the validators
  emitted,         \* what the epoch was last emitted under
  recheck,         \* recheckLookahead
  forkRechecked,   \* gloasForkRechecked
  emitAfterSlot,
  lastRoot,        \* LastProposerDutiesDependentRoot
  queued,          \* emitted duties in the validator's queue
  slotRunner,      \* bySlot of the proposal slot
  pending,         \* the stash: signers of each signing root
  sent,            \* signing roots this operator sent signatures of
  recorded,        \* <<signer, root>>: what message validation let through
  heard,           \* history: the good ones that came in the lookahead
  astray,          \* history: the last duty was lost, or did not build what
                   \* it was emitted for
  reorgs, changes  \* counters

handlerVars == <<ticked, emitted, recheck, forkRechecked, emitAfterSlot>>
eventVars == <<chain, member, others, reorged, changed, reorgs, changes>>
runnerPrefVars == <<slotRunner, pending, sent, recorded, heard>>
preferencesVars == <<now, handlerVars, eventVars, lastRoot, queued, runnerPrefVars, astray>>

SlotRunner ==
  [frozen : Preferences \cup {Nil}, submitted : Preferences \cup {Nil},
   broadcast : Preferences \cup {Nil}, authsSent : SUBSET RequestAuths,
   authsDone : SUBSET RequestAuths, succeeded : BOOLEAN,
   pre : Entry, auths : [RequestAuths -> Entry],
   rejected : BOOLEAN,            \* history: the submission failed
   refused : SUBSET Operators]    \* history: messages refused for lack of a domain

ASSUME NilAssumption == Nil \notin SlotRunner

PreferencesTypeOK ==
  /\ now \in Slot /\ emitAfterSlot \in Nat /\ queued \in Nat
  /\ ticked \in BOOLEAN /\ member \in BOOLEAN /\ others \in BOOLEAN
  /\ reorged \in BOOLEAN /\ changed \in BOOLEAN /\ astray \in BOOLEAN
  /\ recheck \in BOOLEAN /\ forkRechecked \in BOOLEAN
  /\ chain \in Preferences
  /\ emitted \in {Nil} \cup Preferences /\ lastRoot \in {Nil} \cup Preferences
  /\ slotRunner \in SlotRunner \cup {Nil}
  /\ pending \in [SigningRoots -> Entry]
  /\ sent \subseteq SigningRoots
  /\ recorded \cup heard \subseteq Operators \X SigningRoots
  /\ reorgs \in 0 .. MaxReorgs /\ changes \in 0 .. MaxChanges

EmptyStash == [r \in SigningRoots |-> NoSignatures]

PreferencesInit ==
  /\ now \in Slot /\ ticked = FALSE
  /\ chain \in Preferences /\ member \in BOOLEAN /\ others \in BOOLEAN
  /\ reorged = FALSE /\ changed = FALSE
  /\ emitted = Nil /\ recheck = FALSE /\ forkRechecked = FALSE /\ emitAfterSlot = 0
  /\ lastRoot = Nil /\ queued = 0
  /\ slotRunner = Nil /\ pending = EmptyStash /\ sent = {}
  /\ recorded = {} /\ heard = {} /\ astray = FALSE
  /\ reorgs = 0 /\ changes = 0

-----------------------------------------------------------------------------
(* The world.                                                              *)

IsGloas(e) == e >= ForkEpoch

\* A slot begins.  At the fork a beacon node may report another root for the
\* epoch without a reorg.
NextSlot ==
  /\ Advance
  /\ ticked' = FALSE
  /\ \/ chain' = chain
     \/ ~IsGloas(CurrentEpoch) /\ IsGloas(Epoch(now')) /\ chain' \in Preferences \ {chain}
  /\ UNCHANGED <<member, others, reorged, changed, reorgs, changes, emitted, recheck,
                 forkRechecked, emitAfterSlot, lastRoot, queued, runnerPrefVars, astray>>

Reorg ==
  /\ reorgs < MaxReorgs
  /\ reorgs' = reorgs + 1
  /\ chain' \in Preferences \ {chain}
  /\ reorged' = TRUE
  /\ UNCHANGED <<now, handlerVars, member, others, changed, changes, lastRoot, queued,
                 runnerPrefVars, astray>>

ValidatorsChange ==
  /\ changes < MaxChanges
  /\ changes' = changes + 1
  /\ member' \in BOOLEAN
  /\ changed' = TRUE
  /\ UNCHANGED <<now, handlerVars, chain, others, reorged, reorgs, lastRoot, queued,
                 runnerPrefVars, astray>>

-----------------------------------------------------------------------------
(* ProposerPreferencesHandler.                                             *)

\* HandleDuties, indices change: everything is emitted again, after a grace.
TakeIndicesChange ==
  /\ changed /\ changed' = FALSE
  /\ emitted' = Nil
  /\ emitAfterSlot' = now + GraceSlots
  /\ UNCHANGED <<now, ticked, recheck, forkRechecked, chain, member, others, reorged, reorgs,
                 changes, lastRoot, queued, runnerPrefVars, astray>>

\* HandleDuties, reorg: the next tick looks at the roots again.
TakeReorg ==
  /\ reorged /\ reorged' = FALSE
  /\ recheck' = TRUE
  /\ UNCHANGED <<now, ticked, emitted, forkRechecked, emitAfterSlot, chain, member, others,
                 changed, reorgs, changes, lastRoot, queued, runnerPrefVars, astray>>

ShouldFetchNextEpoch == (now % SlotsPerEpoch) + 2 > SlotsPerEpoch \div 2

\* The tick's slot is one in which the proposal's epoch is emitted; before the
\* fork only the first epoch after it is.
EmitsEpoch ==
  \/ Epoch(ProposalSlot) = CurrentEpoch /\ IsGloas(CurrentEpoch)
  \/ /\ Epoch(ProposalSlot) = CurrentEpoch + 1 /\ ShouldFetchNextEpoch
     /\ IsGloas(CurrentEpoch) \/ CurrentEpoch + 1 = ForkEpoch

\* The tick looks at an epoch other than the proposal's, too.
LooksElsewhere ==
  /\ IsGloas(CurrentEpoch) /\ (member \/ others)
  /\ Epoch(ProposalSlot) # CurrentEpoch \/ ShouldFetchNextEpoch

\* Mutant: a recheck that could not be carried out is forgotten.
RecheckForgotten(again) == recheck' = FALSE

\* A recheck that a failed fetch could not carry out is armed again.
KeepRecheck(again) == recheck' = again

\* The duty is put into the validator's queue, unless that is full.
ExecuteDuties(pushed) ==
  IF member /\ ProposalSlot > now
  THEN IF pushed THEN queued' = queued + 1 /\ astray' = astray
                 ELSE queued' = queued /\ astray' = TRUE
  ELSE UNCHANGED <<queued, astray>>

\* emitForEpoch: once for each dependent root.  Either request to the beacon
\* node may fail.  rest is what the tick's other epoch leaves of the recheck.
EmitForEpoch(again, rest) ==
  \/ /\ (emitted # Nil /\ ~again) \/ ~(member \/ others)
     /\ recheck' = rest
     /\ UNCHANGED <<emitted, lastRoot, queued, astray>>
  \/ /\ (emitted = Nil \/ again) /\ (member \/ others)
     /\ \/ KeepRecheck(again) /\ UNCHANGED <<emitted, lastRoot, queued, astray>>
        \/ /\ lastRoot' = chain
           /\ \/ emitted = chain /\ recheck' = rest /\ UNCHANGED <<emitted, queued, astray>>
              \/ emitted # chain /\ KeepRecheck(again) /\ UNCHANGED <<emitted, queued, astray>>
              \/ /\ emitted # chain
                 /\ emitted' = chain
                 /\ recheck' = rest
                 /\ \E pushed \in BOOLEAN : ExecuteDuties(pushed)

\* emitForTick.  The first tick of Gloas looks again, as after a reorg.
EmitForTick ==
  /\ ~ticked /\ ticked' = TRUE
  /\ UNCHANGED <<now, emitAfterSlot, eventVars, runnerPrefVars>>
  /\ \/ /\ now < emitAfterSlot
        /\ UNCHANGED <<emitted, recheck, forkRechecked, lastRoot, queued, astray>>
     \/ /\ now >= emitAfterSlot
        /\ forkRechecked' = (forkRechecked \/ IsGloas(CurrentEpoch))
        /\ LET again == recheck \/ (IsGloas(CurrentEpoch) /\ ~forkRechecked)
           IN  \E rest \in {FALSE, again /\ LooksElsewhere} :
                 \/ EmitsEpoch /\ EmitForEpoch(again, rest)
                 \/ ~EmitsEpoch /\ recheck' = rest /\ UNCHANGED <<emitted, lastRoot, queued, astray>>

-----------------------------------------------------------------------------
(* Collecting signatures.                                                  *)

\* The beacon node's part: it may not return the domain a preference is signed
\* under, or reject the preference.
BeaconNode == {"ok", "no domain", "rejects"}

Crosses(e, o, isGood) == ~HasQuorum(e) /\ HasQuorum(Store(e, o, isGood))

\* A signature is stored; when it crosses the quorum the shares are combined,
\* and if that fails the bad ones are dropped.
Collected(e, o, isGood) ==
  IF Crosses(e, o, isGood) THEN FallBackAndVerifyEachSignature(Store(e, o, isGood))
  ELSE Store(e, o, isGood)

Completes(e, o, isGood) == Crosses(e, o, isGood) /\ Reconstructs(Store(e, o, isGood))

\* What became of a preference whose signature was reconstructed.
Submitted(r, bn) ==
  [r EXCEPT !.submitted = IF bn = "ok" THEN r.frozen ELSE @,
            !.succeeded = (bn = "ok"),
            !.rejected = (bn # "ok")]

\* ProcessPreConsensus of the slot's runner, for a preference.
TakePreference(r, o, sigs, bn) ==
  IF r.succeeded \/ DOMAIN sigs # {r.frozen} THEN r
  ELSE IF bn = "no domain" THEN [r EXCEPT !.refused = @ \cup {o}]
  ELSE LET isGood == sigs[r.frozen]
           stored == [r EXCEPT !.pre = Collected(@, o, isGood)]
       IN  IF Completes(r.pre, o, isGood) THEN Submitted(stored, bn) ELSE stored

\* processRequestAuthPartial: also when the preference was submitted.  Of the
\* packet's roots the ones frozen here and not reconstructed yet count.
TakeAuths(r, o, sigs) ==
  LET matched == (DOMAIN sigs \cap RequestAuths) \ r.authsDone
  IN  [r EXCEPT !.auths = [x \in RequestAuths |->
                             IF x \in matched THEN Collected(@[x], o, sigs[x]) ELSE @[x]],
                !.authsDone = @ \cup {x \in matched : Completes(r.auths[x], o, sigs[x])}]

TakePacket(r, o, sigs, bn) ==
  IF DOMAIN sigs \subseteq Preferences THEN TakePreference(r, o, sigs, bn)
  ELSE TakeAuths(r, o, sigs)

-----------------------------------------------------------------------------
(* ProposerPreferencesRunner.                                              *)

\* evictPastSlots
LiveRunner == IF ProposalSlot < now THEN Nil ELSE slotRunner
LiveStash == IF ProposalSlot < now THEN EmptyStash ELSE pending

InLookahead == ProposalSlot >= now /\ Epoch(ProposalSlot) <= CurrentEpoch + 1

\* stashEntry: a slot's stash is bounded.  (The budgets of message validation
\* keep it from filling; a packet that fits in part does not occur.)
HasRoom(new) ==
  Cardinality({k \in Operators \X SigningRoots : k[1] \in Signers(LiveStash[k[2]])})
    + Cardinality(new) <= Cardinality(Operators) * MaxPendingRoots

\* The first signature of a signer for a root is kept.
WithEntries(o, sigs) ==
  LET new == {r \in DOMAIN sigs : o \notin Signers(LiveStash[r])}
  IN  IF HasRoom(new)
      THEN [r \in SigningRoots |->
              IF r \in new THEN Store(LiveStash[r], o, sigs[r]) ELSE LiveStash[r]]
      ELSE LiveStash

\* stashPending: for slots in the lookahead, whether they have a runner or not.
StashPending(o, sigs) == IF InLookahead THEN WithEntries(o, sigs) ELSE LiveStash

\* ProcessPreConsensus.  Without a runner the message is only stashed.
ProcessPacket(p, bn) ==
  LET roots == DOMAIN p.sigs
      keys  == {p.signer} \X roots
  IN  /\ ~(keys \subseteq recorded)
      /\ p.signer = ThisOperator => roots \subseteq sent
      /\ recorded' = recorded \cup keys
      /\ heard' = heard \cup {k \in keys : InLookahead /\ p.sigs[k[2]] /\ k \notin recorded}
      /\ pending' = StashPending(p.signer, p.sigs)
      /\ slotRunner' = IF LiveRunner = Nil THEN Nil
                       ELSE TakePacket(LiveRunner, p.signer, p.sigs, bn)
      /\ UNCHANGED <<now, handlerVars, eventVars, lastRoot, queued, sent, astray>>

\* The runner that takes the slot over: submitted and sent are carried over.
NewSlotRunner ==
  LET none == [frozen |-> Nil, submitted |-> Nil, broadcast |-> Nil, authsSent |-> {},
               authsDone |-> {}, succeeded |-> FALSE, rejected |-> FALSE, refused |-> {},
               pre |-> NoSignatures, auths |-> [x \in RequestAuths |-> NoSignatures]]
  IN  IF LiveRunner = Nil THEN none
      ELSE [none EXCEPT !.submitted = LiveRunner.submitted, !.broadcast = LiveRunner.broadcast,
                        !.authsSent = LiveRunner.authsSent, !.authsDone = LiveRunner.authsDone]

\* buildProposerPreferences: under the present root or, if that cannot be
\* fetched, the last one that was; not without a fee recipient.
BuiltPreferences == {chain, lastRoot, Nil}

\* runRequestAuthRound: the roots in newAuths could be signed and were sent,
\* each at most once.
RequestAuthRound(r, newAuths) == [r EXCEPT !.authsSent = @ \cup newAuths]

\* executeDuty's choice: a duty that cannot build its preference goes on with
\* the one that was sent.
ToFreeze(r, built) == IF built # Nil THEN built ELSE r.broadcast

\* executeDuty: with nothing to build the duty has failed, with a preference
\* submitted before it is not required, with one sent before it only waits.
\* signs is false if signing or sending failed.
Executed(r, built, signs) ==
  LET preference == ToFreeze(r, built)
  IN  CASE preference = Nil -> r
        [] preference # Nil /\ preference = r.submitted -> [r EXCEPT !.succeeded = TRUE]
        [] OTHER -> [r EXCEPT !.frozen = preference,
                              !.broadcast = IF signs THEN preference ELSE @]

\* A stashed entry as it is in the container once all of it was replayed: bad
\* signatures go when a quorum is tried.
Replayed(e) == IF HasQuorum(e) THEN FallBackAndVerifyEachSignature(e) ELSE e

\* Mutant: a duty starts with nothing but what arrives from then on.
NoReplay(r, bn) == r

\* The replay: the stash is put through ProcessPreConsensus, signature by
\* signature, whether the duty is still running or not.
Replay(r, bn) ==
  LET auths == RequestAuths \ r.authsDone
      good(x) == Cardinality(LiveStash[x].good) >= Quorum
      withAuths ==
        [r EXCEPT !.auths = [x \in RequestAuths |->
                               IF x \in auths THEN Replayed(LiveStash[x]) ELSE @[x]],
                  !.authsDone = @ \cup {x \in auths : good(x)}]
      withAll == [withAuths EXCEPT !.pre = Replayed(LiveStash[r.frozen])]
  IN  CASE r.succeeded \/ r.frozen = Nil -> withAuths
        [] ~(r.succeeded \/ r.frozen = Nil) /\ bn = "no domain" ->
             [withAuths EXCEPT !.refused = Signers(LiveStash[r.frozen])]
        [] OTHER -> IF good(r.frozen) THEN Submitted(withAll, bn) ELSE withAll

\* StartNewDuty: the round of request auths, the preference, then the replay.
\* A runner that is replaced while it runs is concluded.
StartPreferencesDuty(built, newAuths, signs, bn) ==
  LET old == NewSlotRunner
      ran == Executed(RequestAuthRound(old, newAuths), built, signs)
  IN  /\ queued > 0
      /\ newAuths \cap old.authsSent = {}
      /\ queued' = queued - 1
      /\ slotRunner' = Replay(ran, bn)
      /\ pending' = LiveStash
      /\ sent' = sent \cup newAuths \cup ({ran.broadcast} \ {Nil})
      /\ lastRoot' \in {lastRoot, chain}
      /\ built = chain => lastRoot' = chain
      /\ astray' = (built # emitted)
      /\ UNCHANGED <<now, handlerVars, eventVars, recorded, heard>>

-----------------------------------------------------------------------------

HandlerNext ==
  \/ NextSlot \/ Reorg \/ ValidatorsChange
  \/ TakeIndicesChange \/ TakeReorg \/ EmitForTick

PacketArrives(packets) ==
  \E p \in packets, bn \in BeaconNode : ProcessPacket(p, bn)

DutyStarts ==
  \E built \in BuiltPreferences, newAuths \in SUBSET RequestAuths,
     signs \in BOOLEAN, bn \in BeaconNode :
    StartPreferencesDuty(built, newAuths, signs, bn)

PreferencesNext == HandlerNext \/ PacketArrives(Packets) \/ DutyStarts

PreferencesSpec == PreferencesInit /\ [][PreferencesNext]_preferencesVars

-----------------------------------------------------------------------------
(* Properties.                                                             *)

SignersHeard(root) == {o \in Operators : <<o, root>> \in heard}

\* Partial signatures are sent once, and they may come before the duty starts
\* here, while it runs, or before it is replaced.  Whatever the order, the
\* preference that is frozen now has been submitted, or its submission was
\* tried and failed, if a quorum of good ones came (but for those refused
\* because the domain was unavailable); and a builder auth is reconstructed
\* even if the preference is done with.
SentOnceIsEnough ==
  slotRunner # Nil /\ ProposalSlot >= now =>
    /\ slotRunner.frozen # Nil
         /\ Cardinality(SignersHeard(slotRunner.frozen) \ slotRunner.refused) >= Quorum
       => slotRunner.submitted = slotRunner.frozen \/ slotRunner.rejected
    /\ \A x \in RequestAuths :
         Cardinality(SignersHeard(x)) >= Quorum => x \in slotRunner.authsDone

NothingPending ==
  /\ ~reorged /\ ~changed /\ ~recheck /\ queued = 0
  /\ IsGloas(CurrentEpoch) => forkRechecked

\* Reorgs, changes of the validators and the fork come at any time, and the
\* requests to the beacon node may fail: once nothing is pending, the epoch
\* was last emitted under the root the chain has, and the runner has frozen
\* or submitted that preference, but for a duty that went astray.
LatestPreferenceIsServed ==
  ProposalSlot > now /\ emitted # Nil /\ NothingPending =>
    /\ emitted = chain
    /\ member => \/ astray
                 \/ slotRunner # Nil /\ chain \in {slotRunner.frozen, slotRunner.submitted}

=============================================================================
