----------------------------- MODULE Scheduler ------------------------------
(***************************************************************************)
(* The duty scheduler (operator/duties): head events of the beacon node    *)
(* are turned into reorg events (scheduler.go), and a duty handler keeps   *)
(* the duties of the current and the next epoch fetched (attester.go,      *)
(* proposer.go).  One handler is modelled at a time, of either kind; the   *)
(* handlers share nothing but the events.                                  *)
(*                                                                         *)
(* The handler is one goroutine.  While it waits for the beacon node the   *)
(* chain reorganises, validators come and go, events queue up and slots    *)
(* pass, and it takes them up in any order once it is idle again.          *)
(*                                                                         *)
(* The duties of epoch e depend on the last block of epoch e - 2: the      *)
(* previous dependent root of the head events of epoch e, the current one  *)
(* of those of epoch e - 1.                                                *)
(***************************************************************************)
EXTENDS BeaconClock, Sequences

CONSTANTS
  None,
  StartSlot,    \* the slot the node starts in
  FirstVals,    \* the validators it starts with; 0 if it has none
  MaxHeads,     \* bound: heads the beacon node announces
  MaxChanges    \* bound: versions of the set of eligible validators

ASSUME SchedulerAssumption ==
  /\ MaxHeads \in Nat /\ MaxChanges \in Nat \ {0} /\ FirstVals \in 0 .. MaxChanges
  /\ StartSlot \in Slot /\ Epoch(StartSlot) >= 2
  /\ None \notin [epoch : Nat, vals : Nat, root : Nat \cup {None}]

VARIABLES
  kind,            \* which handler: "attester" or "proposer"
  roots,           \* by epoch: the block its last slot is decided by so far
  forks,           \* the chains the head was on before
  heads,           \* blocks so far, to name them
  event,           \* the head event on its way, or None
  lastEpoch, lastBlockRoot, previousRoot, currentRoot,   \* of Scheduler
  reorgs,          \* reorgCh and the handler's reorgEventsCh
  vals,            \* the set of eligible validators, by version; 0 is empty
  indices,         \* changes under way on indicesChangeCh
  told,            \* history: vals when the handler last took such a change
  intents,         \* dutyFetchIntents
  store, stale,    \* the duty store: duties by epoch, stale epochs
  pc, after,       \* where the handler is, and where it goes from a fetch
  tick, armed,     \* the slot of the tick in hand; the ticker's nextSlot
  fetch, deadline, \* the request to the beacon node; its context's deadline
  missed           \* history: epochs whose change was not told as one of theirs

chainVars == <<roots, forks, heads>>
headVars == <<lastEpoch, lastBlockRoot, previousRoot, currentRoot>>
dutyVars == <<intents, store, stale>>
loopVars == <<pc, after, tick, armed, fetch, deadline>>
vars == <<now, kind, chainVars, event, headVars, reorgs, vals, indices, dutyVars,
          loopVars, told, missed>>

LastEpoch == Epoch(MaxSlot) + 1
Epochs == 0 .. LastEpoch

\* The epochs whose duties are of interest.
Reach == {CurrentEpoch, CurrentEpoch + 1}

TypeOK ==
  /\ now \in StartSlot .. MaxSlot /\ kind \in {"attester", "proposer"}
  /\ roots \in [Epochs -> Nat] /\ forks \subseteq [Epochs -> Nat] /\ heads \in Nat
  /\ reorgs \in Seq([current : BOOLEAN, previous : BOOLEAN, epoch : Epochs])
  /\ vals \in 0 .. MaxChanges /\ indices \in 0 .. MaxChanges /\ told \in 0 .. vals
  /\ intents \in [Epochs -> {"absent", "pending", "done"}]
  /\ store \in [Epochs -> [root : Nat, vals : Nat] \cup {None}]
  /\ stale \subseteq Epochs /\ missed \subseteq Epochs
  /\ pc \in {"initial", "fetch", "next", "wait", "idle"}
  /\ after \in {"next", "wait", "idle"}

\* The event of a block that becomes the head of the chain given.
HeadEvent(block, chain) ==
  [slot |-> now, block |-> block,
   current |-> chain[CurrentEpoch - 1], previous |-> chain[CurrentEpoch - 2]]

Init ==
  /\ now = StartSlot /\ kind \in {"attester", "proposer"}
  /\ heads = 3 /\ forks = {}
  /\ roots = [e \in Epochs |-> IF e < CurrentEpoch - 1 THEN 1
                              ELSE IF e < CurrentEpoch THEN 2 ELSE 3]
  /\ event = HeadEvent(3, roots)
  /\ lastEpoch = 0 /\ lastBlockRoot = 0 /\ previousRoot = 0 /\ currentRoot = 0
  /\ reorgs = <<>>
  /\ vals = FirstVals /\ indices = 0 /\ told = 0
  /\ intents = [e \in Epochs |-> "absent"]
  /\ store = [e \in Epochs |-> None] /\ stale = {}
  /\ pc = "initial" /\ after = "idle"
  /\ tick = StartSlot /\ armed = StartSlot + 1
  /\ fetch = None /\ deadline = StartSlot + 1
  /\ missed = {}

-----------------------------------------------------------------------------
(* The beacon node and the validators.                                      *)

\* The root of epoch e's duties by the head the scheduler saw last.
Belief(e) ==
  CASE e = lastEpoch -> previousRoot
    [] e = lastEpoch + 1 -> currentRoot
    [] OTHER -> lastBlockRoot

\* The handler has duties of epoch e by another root than r, or gets them.
HasOther(e, r) ==
  \/ store[e] # None /\ store[e].root # r
  \/ fetch # None /\ fetch.epoch = e /\ fetch.root \notin {None, r}

\* Epoch e's duties will be by root r now, and to the scheduler nothing changed.
NotToBeSeen(e, r) ==
  /\ r # roots[e - 2] /\ HasOther(e, r)
  /\ lastEpoch = 0 \/ Belief(e) = r

\* A block becomes the head.  It extends the head, or replaces the chain from
\* epoch d on, or it is on a chain the head had left (base).  Its event is
\* sent.  What the scheduler last saw is all it compares with: before its
\* first event that is nothing, and of a chain that left a root and is back
\* at it, the events between being late, it tells nothing.
NewHead(base, d) ==
  /\ heads < MaxHeads + 3 /\ event = None
  /\ d \in {CurrentEpoch - 2, CurrentEpoch - 1, CurrentEpoch}
  /\ heads' = heads + 1
  /\ roots' = [e \in Epochs |-> IF e >= d THEN heads' ELSE base[e]]
  /\ forks' = forks \cup {roots}
  /\ event' = HeadEvent(heads', roots')
  /\ missed' = missed \cup {e \in Reach : NotToBeSeen(e, roots'[e - 2])}
  /\ UNCHANGED <<now, kind, headVars, reorgs, vals, indices, told, dutyVars, loopVars>>

\* A validator of this operator is started; the controller reports it
\* (handleMetadataUpdate, ReactivateCluster).
ChangeValidators ==
  /\ vals < MaxChanges
  /\ vals' = vals + 1 /\ indices' = indices + 1
  /\ UNCHANGED <<now, kind, chainVars, event, headVars, reorgs, told, dutyVars, loopVars,
                 missed>>

\* The proposer's handler asks for every operator's validators.  A change
\* among those of the others is reported to nobody.
ChangeOthersValidators ==
  /\ kind = "proposer" /\ vals < MaxChanges
  /\ vals' = vals + 1
  /\ UNCHANGED <<now, kind, chainVars, event, headVars, reorgs, indices, told, dutyVars,
                 loopVars, missed>>

\* reportIndicesChange gives up: for two slots this handler, or another one
\* the change is fanned out to, did not take what came before.
ReportTimesOut ==
  /\ indices > 0 /\ indices' = indices - 1
  /\ UNCHANGED <<now, kind, chainVars, event, headVars, reorgs, vals, told, dutyVars,
                 loopVars, missed>>

-----------------------------------------------------------------------------
(* The scheduler.                                                           *)

EpochTransition == CurrentEpoch > lastEpoch

\* Mutant: an epoch's first event is compared with nothing.
ExpectedWithinEpoch ==
  IF EpochTransition THEN [current |-> 0, previous |-> 0]
  ELSE [current |-> currentRoot, previous |-> previousRoot]

\* The roots an event should carry if nothing was reorganised.
Expected ==
  IF EpochTransition THEN [current |-> lastBlockRoot, previous |-> currentRoot]
  ELSE [current |-> currentRoot, previous |-> previousRoot]

Differs(expected, got) == expected # 0 /\ expected # got

\* HandleHeadEvent: an event of another slot than the clock's is dropped, so a
\* late event is a lost one.  When more than an epoch went by without one, the
\* last block seen is compared with the last of a later epoch only.
HandleHeadEvent ==
  /\ event # None /\ event' = None
  /\ LET current  == lastEpoch # 0 /\ Differs(Expected.current, event.current)
         previous == lastEpoch # 0 /\ Differs(Expected.previous, event.previous)
     IN  \/ /\ event.slot = now
            /\ reorgs' = IF current \/ previous
                         THEN Append(reorgs, [current |-> current, previous |-> previous,
                                              epoch |-> CurrentEpoch])
                         ELSE reorgs
            /\ lastEpoch' = CurrentEpoch
            /\ lastBlockRoot' = event.block
            /\ previousRoot' = event.previous /\ currentRoot' = event.current
            /\ missed' = IF /\ lastEpoch # 0 /\ CurrentEpoch > lastEpoch + 1
                            /\ lastBlockRoot # event.previous /\ ~(current /\ previous)
                         THEN missed \cup {CurrentEpoch} ELSE missed
         \/ /\ event.slot # now
            /\ UNCHANGED <<reorgs, headVars, missed>>
  /\ UNCHANGED <<now, kind, chainVars, vals, indices, told, dutyVars, loopVars>>

-----------------------------------------------------------------------------
(* The handler.                                                             *)

ShouldFetchNextEpoch(slot) == slot % SlotsPerEpoch > (SlotsPerEpoch \div 2) - 2

Pending(want, es) == [e \in Epochs |-> IF e \in es THEN "pending" ELSE want[e]]

\* optimization: prune irrelevant intent
Prune(want, e) == [want EXCEPT ![e] = "absent"]

\* prepareCurrentEpoch and prepareNextEpoch, up to the call of the beacon
\* node: a pending intent is acted on if there are validators to ask for.
Prepare(want, e, allowed, next) ==
  /\ intents' = want /\ after' = next
  /\ IF allowed /\ want[e] = "pending" /\ vals > 0
     THEN pc' = "fetch" /\ fetch' = [epoch |-> e, vals |-> vals, root |-> None]
     ELSE pc' = next /\ UNCHANGED fetch

\* The two epochs in reach, and which of them is fetched at once: at the last
\* slot of an epoch only the next one is.
PrepareAtOnce(want, slot, currentToo) ==
  LET e == Epoch(slot) IN
  IF IsLastSlotOfEpoch(slot)
  THEN Prepare(Prune(want, e), e + 1, ShouldFetchNextEpoch(slot), "idle")
  ELSE Prepare(want, e, currentToo, "idle")

\* HandleInitialDuties.
HandleInitialDuties ==
  /\ pc = "initial"
  /\ PrepareAtOnce(Pending(intents, {Epoch(now), Epoch(now) + 1}), now, TRUE)
  /\ UNCHANGED <<now, kind, chainVars, event, headVars, reorgs, vals, indices, told,
                 store, stale, tick, armed, deadline, missed>>

\* The ticker fires for the slot it was armed for, late if the handler was
\* busy, and is armed for the next slot of the clock.
Tick ==
  /\ pc = "idle" /\ now >= armed
  /\ tick' = armed /\ armed' = now + 1
  /\ deadline' = armed + 1
  /\ Prepare(intents, Epoch(armed), TRUE, "next")
  /\ UNCHANGED <<now, kind, chainVars, event, headVars, reorgs, vals, indices, told,
                 store, stale, missed>>

\* Duties were executed; the next epoch's are prepared.
TickNextEpoch ==
  /\ pc = "next"
  /\ Prepare(intents, Epoch(tick) + 1, ShouldFetchNextEpoch(tick), "wait")
  /\ UNCHANGED <<now, kind, chainVars, event, headVars, reorgs, vals, indices, told,
                 store, stale, tick, armed, deadline, missed>>

\* Mutant: a tick that overran its slot leaves without recording the intent.
RegisteredUnlessLate(want, e) ==
  IF want[e] = "absent" /\ now = tick THEN Pending(want, {e}) ELSE want

\* Schedule the next-epoch duty-fetch intent (only if absent).
Registered(want, e) == IF want[e] = "absent" THEN Pending(want, {e}) ELSE want

Erases == tick % SlotsPerEpoch = 0

\* At the first slot of an epoch the last one's data is erased.  The next
\* epoch's intent is registered before the wait that may return early.
Cleaned ==
  Registered(IF Erases THEN Prune(intents, Epoch(tick) - 1) ELSE intents, Epoch(tick) + 1)

ErasedStore == IF Erases THEN [store EXCEPT ![Epoch(tick) - 1] = None] ELSE store
ErasedStale == IF Erases THEN stale \ {Epoch(tick) - 1} ELSE stale

\* No indices change came in the first part of the slot, or the tick is late.
TickEnds ==
  /\ pc = "wait" /\ pc' = "idle"
  /\ intents' = Cleaned /\ store' = ErasedStore /\ stale' = ErasedStale
  /\ UNCHANGED <<now, kind, chainVars, event, headVars, reorgs, vals, indices, told,
                 after, tick, armed, fetch, deadline, missed>>

\* MarkEpochsStale; only the proposer's store is asked for it.
Marked(marks, es) == IF kind = "proposer" THEN marks \cup es ELSE marks

\* An indices change came while the tick was under way.  Of an epoch the tick
\* is too late to look at, it says nothing.
TickIndicesChange ==
  /\ pc = "wait" /\ indices > 0 /\ indices' = indices - 1 /\ told' = vals
  /\ LET both == {Epoch(tick), Epoch(tick) + 1}
     IN  /\ stale' = Marked(ErasedStale, both)
         /\ PrepareAtOnce(Pending(Cleaned, both), tick, TRUE)
  /\ store' = ErasedStore
  /\ missed' = missed \cup {e \in Epochs : e > Epoch(tick) + 1 /\ store[e] # None}
  /\ UNCHANGED <<now, kind, chainVars, event, headVars, reorgs, vals, tick, armed, deadline>>

\* Between ticks only the proposer's handler listens to it, and fetches nothing.
IdleIndicesChange ==
  /\ kind = "proposer" /\ pc = "idle" /\ indices > 0
  /\ indices' = indices - 1 /\ told' = vals
  /\ stale' = Marked(stale, {CurrentEpoch, CurrentEpoch + 1})
  /\ intents' = Pending(intents, {CurrentEpoch, CurrentEpoch + 1})
  /\ UNCHANGED <<now, kind, chainVars, event, headVars, reorgs, vals, store,
                 loopVars, missed>>

RefetchesCurrent(reorg) == IF kind = "attester" THEN reorg.previous ELSE reorg.current

\* A reorg event, read against the clock of the moment it is taken up.  An
\* attester told of a new current root after that root became the previous
\* one does not look at the epoch it decides.
HandleReorg ==
  /\ pc = "idle" /\ reorgs # <<>>
  /\ reorgs' = Tail(reorgs)
  /\ deadline' = now + 2
  /\ LET reorg == Head(reorgs)
         refetch == RefetchesCurrent(reorg)
         epochs == {CurrentEpoch + 1} \cup (IF refetch THEN {CurrentEpoch} ELSE {})
     IN  /\ stale' = Marked(stale, IF IsLastSlotOfEpoch(now) THEN {CurrentEpoch + 1} ELSE epochs)
         /\ PrepareAtOnce(Pending(intents, epochs), now, kind = "attester" \/ refetch)
         /\ missed' = IF reorg.epoch < CurrentEpoch /\ ~refetch
                      THEN missed \cup {CurrentEpoch} ELSE missed
  /\ UNCHANGED <<now, kind, chainVars, event, headVars, vals, indices, told, store, tick, armed>>

\* The beacon node computes its answer; it is on its way from then on.
BeaconAnswers ==
  /\ pc = "fetch" /\ fetch.root = None
  /\ fetch' = [fetch EXCEPT !.root = roots[fetch.epoch - 2]]
  /\ UNCHANGED <<now, kind, chainVars, event, headVars, reorgs, vals, indices, told,
                 dutyVars, pc, after, tick, armed, deadline, missed>>

\* fetchAndProcessDuties has its answer: Duties.Set, and the intent is done.
Fetched ==
  /\ pc = "fetch" /\ fetch.root # None /\ now < deadline
  /\ store' = [store EXCEPT ![fetch.epoch] = [root |-> fetch.root, vals |-> fetch.vals]]
  /\ stale' = stale \ {fetch.epoch}
  /\ intents' = [intents EXCEPT ![fetch.epoch] = "done"]
  /\ missed' = missed \ {e \in {fetch.epoch} : fetch.root = roots[e - 2]}
  /\ pc' = after /\ fetch' = None
  /\ UNCHANGED <<now, kind, chainVars, event, headVars, reorgs, vals, indices, told,
                 after, tick, armed, deadline>>

\* The beacon node failed, or the context's deadline passed.
FetchFailed ==
  /\ pc = "fetch"
  /\ pc' = after /\ fetch' = None
  /\ UNCHANGED <<now, kind, chainVars, event, headVars, reorgs, vals, indices, told,
                 dutyVars, after, tick, armed, deadline, missed>>

-----------------------------------------------------------------------------
\* The next slot begins.  A goroutine that can go on does so within the slot.
NextSlot ==
  /\ Advance
  /\ \/ pc = "fetch" /\ now < deadline
     \/ pc = "idle" /\ now < armed /\ reorgs = <<>>
  /\ UNCHANGED <<kind, chainVars, event, headVars, reorgs, vals, indices, told,
                 dutyVars, loopVars, missed>>

Next ==
  \/ NextSlot \/ ChangeValidators \/ ChangeOthersValidators \/ ReportTimesOut
  \/ \E base \in {roots} \cup forks, d \in Epochs : NewHead(base, d)
  \/ HandleHeadEvent
  \/ HandleInitialDuties
  \/ Tick \/ TickNextEpoch \/ TickEnds \/ TickIndicesChange
  \/ IdleIndicesChange \/ HandleReorg
  \/ BeaconAnswers \/ Fetched \/ FetchFailed

Spec == Init /\ [][Next]_vars

-----------------------------------------------------------------------------
\* The scheduler has seen the head, and the handler the reorgs it was sent.
Settled ==
  /\ pc = "idle" /\ reorgs = <<>> /\ event = None
  /\ lastEpoch = CurrentEpoch /\ lastBlockRoot = roots[CurrentEpoch]

\* The duties of epoch e are by the chain's root, and no older than the last
\* change of validators the handler took.
UpToDate(e) == store[e].root = roots[e - 2] /\ store[e].vals >= told

\* Once the head is seen and its reorgs are dealt with, the duties of this and
\* the next epoch are those of the canonical chain, and of validators no older
\* than the last change that reached the handler, or a fetch of them is still
\* wanted; outdated proposer duties are marked stale in the meantime
\* (HandleHeadEvent, HandleDuties, Duties.Set).  Left out: the last slot of an
\* epoch, which is not fetched for any more, and the epochs whose change was
\* not told to the handler as one of theirs.
OutdatedIsKnown ==
  Settled =>
    \A e \in Reach :
      (store[e] # None /\ ~UpToDate(e) /\ e \notin missed
         /\ ~(e = CurrentEpoch /\ IsLastSlotOfEpoch(now))) =>
        /\ intents[e] = "pending"
        /\ kind = "proposer" => e \in stale

\* However slow the beacon node is, an idle handler wants, or has, the duties
\* of the epoch it is in (the intent registered before the wait of a tick, and
\* pruned only when the epoch is over).
EveryEpochIsWanted ==
  (pc = "idle" /\ intents[CurrentEpoch] = "absent") => IsLastSlotOfEpoch(now)
=============================================================================
