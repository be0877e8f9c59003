------------------------- MODULE DutyRunnersProofs --------------------------
(***************************************************************************)
(* Proofs about the runners of committee duties, for every committee, set  *)
(* of duties, view of the operators and decided value, and whatever        *)
(* Byzantine operators sign; and about the proposer preferences, for every *)
(* set of packets that message validation lets through and whatever the    *)
(* chain, the validators and the beacon node do.  The partial signatures   *)
(* are the same for both.                                                  *)
(***************************************************************************)
EXTENDS CommitteeRunners, ProposerPreferences, FiniteSetTheorems, TLAPS


\* What the message loop and the watcher know of each other.
OutcomeFollowsState ==
  /\ ~watched => ~consuming /\ ~started /\ reported = None
  /\ concluded \in {"succeeded", "not_required"} => succeeded
  /\ reported \in {"succeeded", "not_required"} => concluded = reported

\* Post-consensus signatures are collected once a value is decided, and every
\* quorum of them, counting what is not verified yet, was acted on.
PostQuorumsAreUsed ==
  /\ decided = None => \A d \in Duties : post[d] = NoSignatures
  /\ decided # None =>
       \A d \in Expected :
         HasQuorum(post[d]) =>
           d \in submitted \cup unbuilt \/ concluded = "failed" \/ succeeded

\* The same of the proofs of the duties that are selected.
PreQuorumsAreUsed ==
  role = "aggregator" =>
    \A d \in elected :
      HasQuorum(pre[d]) => d \in unfetched \/ started \/ concluded = "failed"

\* A conclusion is true when it is reached, and stays so.
ConclusionIsTrue ==
  /\ role = "aggregator" /\ decided # None => decided # {}
  /\ concluded = "succeeded" =>
       decided # None /\ Expected \subseteq submitted \cup unbuilt
  /\ concluded = "not_required" =>
       IF role = "committee" THEN valid = {}
       ELSE \A d \in elected : Cardinality(pre[d].good) >= Quorum => d \in unfetched

IInv ==
  /\ TypeOK
  /\ OutcomeFollowsState
  /\ PostQuorumsAreUsed
  /\ PreQuorumsAreUsed
  /\ ConclusionIsTrue

-----------------------------------------------------------------------------
(* Entries and containers of partial signatures.                           *)

Message == UNION {[s -> BOOLEAN] : s \in SUBSET Duties}

\* Storing a signature keeps the good ones that are stored.
LEMMA StoreEntry ==
  ASSUME NEW e \in Entry, NEW o \in Operators, NEW isGood \in BOOLEAN
  PROVE  Store(e, o, isGood) \in Entry /\ e.good \subseteq Store(e, o, isGood).good
<1>1. CASE o \in e.good
  BY <1>1 DEF Store, Entry, Signers
<1>2. CASE o \notin e.good /\ isGood
  BY <1>2 DEF Store, Entry, Signers
<1>3. CASE o \notin Signers(e) /\ ~isGood
  BY <1>3 DEF Store, Entry, Signers
<1>4. CASE o \in e.bad /\ ~isGood
  BY <1>4 DEF Store, Entry, Signers
<1>5. QED BY <1>1, <1>2, <1>3, <1>4 DEF Signers

\* Verifying drops the bad signatures and nothing else.
LEMMA VerifiedEntry ==
  ASSUME NEW e \in Entry
  PROVE  /\ FallBackAndVerifyEachSignature(e) \in Entry
         /\ FallBackAndVerifyEachSignature(e).good = e.good
         /\ Signers(FallBackAndVerifyEachSignature(e)) = e.good
BY DEF FallBackAndVerifyEachSignature, Entry, Signers

\* The good signatures are some of the signatures.
LEMMA GoodOnesCount ==
  ASSUME NEW e \in Entry
  PROVE  /\ Cardinality(e.good) \in Nat
         /\ Cardinality(Signers(e)) \in Nat
         /\ Cardinality(e.good) <= Cardinality(Signers(e))
<1>1. e.good \subseteq Signers(e) /\ Signers(e) \subseteq Operators
  BY DEF Entry, Signers
<1>2. IsFiniteSet(Signers(e))
  BY <1>1, QuorumAssumption, FS_Subset
<1>3. QED BY <1>1, <1>2, FS_Subset, FS_CardinalityType

\* Signatures reconstruct when a quorum of them is good.
LEMMA ReconstructsGoodQuorums ==
  ASSUME NEW e \in Entry
  PROVE  /\ Reconstructs(e) <=> Cardinality(e.good) >= Quorum
         /\ HasQuorum(FallBackAndVerifyEachSignature(e)) <=> Reconstructs(e)
         /\ Reconstructs(e) => HasQuorum(e)
BY VerifiedEntry, GoodOnesCount, QuorumAssumption DEF Reconstructs, HasQuorum

\* Without signatures there is no quorum.
LEMMA NoSignaturesNoQuorum == NoSignatures \in Entry /\ ~HasQuorum(NoSignatures)
BY FS_EmptySet, QuorumAssumption DEF NoSignatures, Entry, HasQuorum, Signers

\* A larger set of good signatures is still a quorum.
LEMMA GoodQuorumsLast ==
  ASSUME NEW e \in Entry, NEW f \in Entry, e.good \subseteq f.good,
         Cardinality(e.good) >= Quorum
  PROVE  Cardinality(f.good) >= Quorum
<1>1. f.good \subseteq Operators
  BY DEF Entry
<1>2. Cardinality(e.good) <= Cardinality(f.good)
  BY <1>1, QuorumAssumption, FS_Subset
<1>3. QED BY <1>2, GoodOnesCount, QuorumAssumption

\* Storing a message: a quorum that was not there is one of the new ones.
LEMMA StoreAllContainer ==
  ASSUME NEW c \in Container, NEW o \in Operators, NEW msg \in Message
  PROVE  /\ StoreAll(c, o, msg) \in Container
         /\ \A d \in Duties : c[d].good \subseteq StoreAll(c, o, msg)[d].good
         /\ \A d \in Duties : HasQuorum(StoreAll(c, o, msg)[d]) =>
              HasQuorum(c[d]) \/ d \in NewQuorums(c, o, msg)
         /\ NewQuorums(c, o, msg) \subseteq Duties
<1>1. DOMAIN c = Duties /\ \A d \in Duties : c[d] \in Entry
  BY DEF Container
<1>2. DOMAIN msg \subseteq Duties /\ \A d \in DOMAIN msg : msg[d] \in BOOLEAN
  BY DEF Message
<1>3. \A d \in DOMAIN msg : /\ Store(c[d], o, msg[d]) \in Entry
                            /\ c[d].good \subseteq Store(c[d], o, msg[d]).good
  BY <1>1, <1>2, StoreEntry
<1>4. \A d \in Duties : /\ d \in DOMAIN msg => StoreAll(c, o, msg)[d] = Store(c[d], o, msg[d])
                        /\ d \notin DOMAIN msg => StoreAll(c, o, msg)[d] = c[d]
  BY <1>1 DEF StoreAll
<1>5. StoreAll(c, o, msg) \in Container
  BY <1>1, <1>3 DEF StoreAll, Container
<1>6. \A d \in Duties : HasQuorum(StoreAll(c, o, msg)[d]) =>
              HasQuorum(c[d]) \/ d \in NewQuorums(c, o, msg)
  BY <1>4 DEF NewQuorums
<1>7. QED BY <1>2, <1>3, <1>4, <1>5, <1>6 DEF NewQuorums

\* Verifying the signatures of some keys.
LEMMA VerifyAllContainer ==
  ASSUME NEW c \in Container, NEW keys
  PROVE  /\ VerifyAll(c, keys) \in Container
         /\ \A d \in Duties : VerifyAll(c, keys)[d].good = c[d].good
         /\ \A d \in Duties : HasQuorum(VerifyAll(c, keys)[d]) => HasQuorum(c[d])
         /\ \A d \in Duties \cap keys : HasQuorum(VerifyAll(c, keys)[d]) => Reconstructs(c[d])
<1>1. DOMAIN c = Duties /\ \A d \in Duties : c[d] \in Entry
  BY DEF Container
<1>2. \A d \in Duties :
        /\ d \in keys => VerifyAll(c, keys)[d] = FallBackAndVerifyEachSignature(c[d])
        /\ d \notin keys => VerifyAll(c, keys)[d] = c[d]
  BY <1>1 DEF VerifyAll
<1>3. VerifyAll(c, keys) \in Container
  BY <1>1, VerifiedEntry DEF VerifyAll, Container
<1>4. QED BY <1>1, <1>2, <1>3, VerifiedEntry, ReconstructsGoodQuorums

\* What may arrive is a message about the duties.
LEMMA MessagesType ==
  ASSUME TypeOK, NEW phase \in {"pre", "post"}, NEW o \in Operators,
         NEW msg \in MessagesOf(phase, o)
  PROVE  msg \in Message
<1>1. CASE o \in Byzantine
  BY <1>1, CommitteeRunnersAssumption DEF MessagesOf, Message
<1>2. CASE o \notin Byzantine
  <2>1. own \in SUBSET Duties
    BY DEF TypeOK
  <2>2. PICK s \in SUBSET Duties : msg = [d \in s |-> TRUE]
    BY <1>2, <2>1, CommitteeRunnersAssumption DEF MessagesOf, HonestMessages
  <2>3. msg \in [s -> BOOLEAN]
    BY <2>2
  <2>4. QED BY <2>3 DEF Message
<1>3. QED BY <1>1, <1>2

-----------------------------------------------------------------------------
(* What the handlers do to the containers and to the outcome.              *)

\* A duty is a kind and a validator.
LEMMA DutyPair ==
  ASSUME NEW d \in Duties
  PROVE  d[1] \in Kinds /\ d[2] \in Validators /\ d = <<d[1], d[2]>>
BY CommitteeRunnersAssumption

OutcomeStep ==
  \/ markDutySucceeded \/ markDutyNotRequired \/ markDutyFailed
  \/ noteDutyFailure \/ UNCHANGED outcomeVars

\* The mark functions keep the types.
LEMMA OutcomeStepType == OutcomeTypeOK /\ OutcomeStep => OutcomeTypeOK'
<1> SUFFICES ASSUME OutcomeTypeOK, OutcomeStep PROVE OutcomeTypeOK'
  OBVIOUS
<1> USE DEF OutcomeTypeOK, Outcome
<1>1. CASE markDutySucceeded
  BY <1>1 DEF markDutySucceeded, concludeDuty
<1>2. CASE markDutyNotRequired
  BY <1>2 DEF markDutyNotRequired, concludeDuty
<1>3. CASE markDutyFailed
  BY <1>3 DEF markDutyFailed, concludeDuty
<1>4. CASE noteDutyFailure
  BY <1>4 DEF noteDutyFailure
<1>5. CASE UNCHANGED outcomeVars
  BY <1>5 DEF outcomeVars
<1>6. QED BY <1>1, <1>2, <1>3, <1>4, <1>5 DEF OutcomeStep

\* ProcessPostConsensus: good signatures are kept; what is submitted has a
\* quorum of them and was not submitted before; a quorum that forms is used or
\* the duty fails; a success, or that nothing is required, is true.
LEMMA PostConsensusStep ==
  ASSUME TypeOK, NEW o \in Operators, NEW msg \in Message, ProcessPostConsensus(o, msg)
  PROVE  /\ post' \in Container
         /\ \A d \in Duties : post[d].good \subseteq post'[d].good
         /\ consuming' \in BOOLEAN /\ safe' \subseteq Validators
         /\ submitted \subseteq submitted' /\ submitted' \subseteq Duties
         /\ unbuilt \subseteq unbuilt' /\ unbuilt' \subseteq Duties
         /\ \A d \in submitted' \ submitted : Cardinality(post'[d].good) >= Quorum
         /\ \A v \in safe' \ safe :
              <<"att", v>> \in Duties /\ Cardinality(post'[<<"att", v>>].good) >= Quorum
         /\ repeated' = repeated
         /\ \A d \in Expected :
              HasQuorum(post'[d]) =>
                HasQuorum(post[d]) \/ d \in submitted' \cup unbuilt' \/ markDutyFailed
         /\ \/ UNCHANGED outcomeVars
            \/ markDutyFailed
            \/ markDutySucceeded /\ Expected \subseteq submitted' \cup unbuilt'
            \/ markDutyNotRequired /\ Expected = {}
<1> DEFINE c == StoreAll(post, o, msg)
           roots == {PostRoot[d] : d \in NewQuorums(post, o, msg)}
<1>1. /\ post \in Container /\ consuming \in BOOLEAN /\ safe \subseteq Validators
      /\ submitted \subseteq Duties /\ unbuilt \subseteq Duties /\ valid \subseteq Duties
      /\ decided \in {None} \cup SUBSET Duties
  BY DEF TypeOK
<1>2. /\ c \in Container
      /\ \A d \in Duties : post[d].good \subseteq c[d].good
      /\ \A d \in Duties : HasQuorum(c[d]) =>
              HasQuorum(post[d]) \/ d \in NewQuorums(post, o, msg)
      /\ NewQuorums(post, o, msg) \subseteq Duties
  BY <1>1, StoreAllContainer
<1>3. Expected \subseteq Duties
  <2>1. decided # None
    BY DEF ProcessPostConsensus
  <2>2. QED BY <1>1, <2>1 DEF Expected
<1> HIDE DEF c
<1>4. CASE roots = {}
  <2>1. post' = c /\ UNCHANGED <<consuming, outcomeVars, submitted, safe, unbuilt, repeated>>
    BY <1>4 DEF ProcessPostConsensus, c
  <2>2. NewQuorums(post, o, msg) = {}
    BY <1>4
  <2>3. QED BY <1>1, <1>2, <1>3, <2>1, <2>2
<1>5. CASE roots # {}
  <2>1. PICK unavailable \in SUBSET {d[1] : d \in Expected},
             rejected \in SUBSET {d[1] : d \in Expected} :
               ActOnQuorum(c, roots, Built(unavailable), rejected)
    BY <1>5 DEF ProcessPostConsensus, c
  <2> DEFINE built == Built(unavailable)
             tried == NotSubmitted(Tried(c, roots, built, PostRoot))
             ready == tried \ Failing(c, tried)
             accepts == Accepted(ready, rejected)
             attests == {d \in ready : role = "committee" /\ d[1] = "att"}
  <2>2. built \subseteq Expected
    BY DEF Built
  <2>3. CASE built = {} \/ (role = "aggregator" /\ built # Expected)
    <3>1. /\ post' = c
          /\ UNCHANGED <<submitted, safe, unbuilt, repeated>>
          /\ IF Expected = {} THEN markDutyNotRequired /\ consuming' = FALSE
             ELSE markDutyFailed /\ UNCHANGED consuming
      BY <2>1, <2>3 DEF ActOnQuorum
    <3>2. QED BY <1>1, <1>2, <1>3, <3>1
  <2>4. CASE ~(built = {} \/ (role = "aggregator" /\ built # Expected))
    <3>1. /\ \E rank \in Ranks(roots) :
                post' = VerifyAll(c, VerifiedKeys(c, roots, tried, rank, PostRoot))
          /\ UNCHANGED consuming
          /\ submitted' = submitted \cup accepts
          /\ repeated' = repeated \cup (submitted \cap accepts)
          /\ unbuilt' = unbuilt \cup (Expected \ built)
          /\ safe' = safe \cup {d[2] : d \in attests}
          /\ accepts # ready => markDutyFailed
          /\ accepts = ready =>
               UNCHANGED outcomeVars \/ (HasSubmittedAll(built) /\ markDutySucceeded)
      BY <2>1, <2>4, Zenon DEF ActOnQuorum
    <3>2. PICK rank \in Ranks(roots) :
                post' = VerifyAll(c, VerifiedKeys(c, roots, tried, rank, PostRoot))
      BY <3>1
    <3>3. tried \subseteq VerifiedKeys(c, roots, tried, rank, PostRoot)
      BY DEF VerifiedKeys
    <3>4. /\ post' \in Container
          /\ \A d \in Duties : post'[d].good = c[d].good
          /\ \A d \in Duties : HasQuorum(post'[d]) => HasQuorum(c[d])
          /\ \A d \in Duties \cap VerifiedKeys(c, roots, tried, rank, PostRoot) :
               HasQuorum(post'[d]) => Reconstructs(c[d])
      BY <1>2, <3>2, VerifyAllContainer
    <3>5. /\ tried \subseteq built \ submitted
          /\ ready \subseteq tried
          /\ \A d \in ready : Reconstructs(c[d])
          /\ \A d \in tried : Reconstructs(c[d]) => d \in ready
      BY DEF NotSubmitted, Tried, Failing
    <3>6. accepts \subseteq ready
      BY DEF Accepted
    <3>7. \A d \in ready : Cardinality(post'[d].good) >= Quorum
      <4>1. \A d \in ready : d \in Duties /\ c[d] \in Entry
        BY <1>2, <1>3, <2>2, <3>5 DEF Container
      <4>2. QED BY <3>4, <3>5, <4>1, ReconstructsGoodQuorums
    <3>8. \A d \in Expected :
              HasQuorum(post'[d]) =>
                HasQuorum(post[d]) \/ d \in submitted' \cup unbuilt' \/ markDutyFailed
      <4> SUFFICES ASSUME NEW d \in Expected, HasQuorum(post'[d]), ~HasQuorum(post[d]),
                          d \notin submitted', d \notin unbuilt'
                   PROVE  markDutyFailed
        OBVIOUS
      <4>1. d \in Duties /\ d \in built /\ d \notin submitted
        BY <1>3, <3>1
      <4>2. HasQuorum(c[d]) /\ d \in NewQuorums(post, o, msg)
        BY <1>2, <3>4, <4>1
      <4>3. d \in tried
        BY <4>1, <4>2 DEF NotSubmitted, Tried
      <4>4. d \in ready
        BY <3>3, <3>4, <3>5, <4>1, <4>3
      <4>5. QED BY <3>1, <4>4
    <3>9. \A v \in safe' \ safe :
              /\ v \in Validators /\ <<"att", v>> \in Duties
              /\ Cardinality(post'[<<"att", v>>].good) >= Quorum
      <4> SUFFICES ASSUME NEW v \in safe' \ safe
                   PROVE  /\ v \in Validators /\ <<"att", v>> \in Duties
                          /\ Cardinality(post'[<<"att", v>>].good) >= Quorum
        OBVIOUS
      <4>1. PICK d \in attests : v = d[2]
        BY <3>1
      <4>2. d \in ready /\ d[1] = "att" /\ d \in Duties
        BY <1>3, <2>2, <3>5
      <4>3. d = <<"att", v>> /\ v \in Validators
        BY <4>1, <4>2, DutyPair
      <4>4. QED BY <3>7, <4>2, <4>3
    <3>10. accepts = ready /\ HasSubmittedAll(built) => Expected \subseteq submitted' \cup unbuilt'
      BY <3>1 DEF HasSubmittedAll
    <3>11. repeated' = repeated /\ accepts \subseteq Duties
      BY <1>3, <2>2, <3>1, <3>5, <3>6
    <3> HIDE DEF built, tried, ready, accepts, attests
    <3>12. /\ \/ UNCHANGED outcomeVars
              \/ markDutyFailed
              \/ markDutySucceeded /\ Expected \subseteq submitted' \cup unbuilt'
      BY <3>1, <3>10
    <3>13. /\ \A d \in Duties : post[d].good \subseteq post'[d].good
           /\ consuming' \in BOOLEAN /\ safe' \subseteq Validators
           /\ submitted \subseteq submitted' /\ submitted' \subseteq Duties
           /\ unbuilt \subseteq unbuilt' /\ unbuilt' \subseteq Duties
           /\ \A d \in submitted' \ submitted : Cardinality(post'[d].good) >= Quorum
      BY <1>1, <1>2, <1>3, <3>1, <3>4, <3>6, <3>7, <3>9, <3>11
    <3>14. QED BY <3>4, <3>8, <3>9, <3>11, <3>12, <3>13
  <2>5. QED BY <2>3, <2>4
<1>6. QED BY <1>4, <1>5

\* ProcessPreConsensus: a selected duty whose quorum of proofs forms has its
\* data fetched for the agreement, unless that fails; nothing is required only
\* if there is no agreement to be reached.
LEMMA PreConsensusStep ==
  ASSUME TypeOK, NEW o \in Operators, NEW msg \in Message, ProcessPreConsensus(o, msg)
  PROVE  /\ pre' \in Container
         /\ started' \in BOOLEAN /\ checked' \subseteq Duties
         /\ unfetched \subseteq unfetched' /\ unfetched' \subseteq Duties
         /\ ~succeeded =>
              \A d \in elected :
                HasQuorum(pre'[d]) =>
                  HasQuorum(pre[d]) \/ d \in unfetched' \/ started' \/ markDutyFailed
         /\ succeeded => UNCHANGED <<started, pre, unfetched, outcomeVars>>
         /\ \/ UNCHANGED outcomeVars
            \/ markDutyFailed
            \/ markDutyNotRequired /\ ~started'
<1> DEFINE c == StoreAll(pre, o, msg)
           roots == {PreRoot[d] : d \in NewQuorums(pre, o, msg)}
           tried == Tried(c, roots, Duties, PreRoot)
           ready == tried \ Failing(c, tried)
           chosen == ready \cap elected
<1>1. /\ pre \in Container /\ started \in BOOLEAN /\ checked \subseteq Duties
      /\ unfetched \subseteq Duties /\ elected \subseteq Duties
  BY DEF TypeOK
<1>2. /\ c \in Container
      /\ \A d \in Duties : HasQuorum(c[d]) =>
              HasQuorum(pre[d]) \/ d \in NewQuorums(pre, o, msg)
  BY <1>1, StoreAllContainer
<1>3. ~started
  BY DEF ProcessPreConsensus
<1>4. tried \subseteq Duties /\ ready \subseteq Duties /\ chosen \subseteq Duties
  BY DEF Tried
<1>5. CASE succeeded
  <2>1. UNCHANGED <<started, pre, checked, unfetched, outcomeVars>>
    BY <1>5, Zenon DEF ProcessPreConsensus
  <2>2. QED BY <1>1, <1>5, <2>1
<1>6. CASE ~succeeded /\ roots = {}
  <2>1. /\ pre' = c
        /\ UNCHANGED <<started, checked, unfetched>>
        /\ UNCHANGED outcomeVars \/ markDutyNotRequired
    BY <1>6, Zenon DEF ProcessPreConsensus
  <2>2. NewQuorums(pre, o, msg) = {}
    BY <1>6
  <2> HIDE DEF c
  <2>3. QED BY <1>1, <1>2, <1>3, <1>6, <2>1, <2>2
<1>7. CASE ~succeeded /\ roots # {}
  <2>1. \/ /\ pre' = c
           /\ UNCHANGED <<started, checked, unfetched>>
           /\ markDutyFailed
        \/ /\ \E rank \in Ranks(roots) :
                pre' = VerifyAll(c, VerifiedKeys(c, roots, tried, rank, PreRoot))
           /\ \E unavailable \in SUBSET Kinds, decideOk \in BOOLEAN :
                SelectAndDecide(ready, chosen, unavailable, decideOk)
    BY <1>7, Zenon DEF ProcessPreConsensus
  <2>2. CASE pre' = c /\ UNCHANGED <<started, checked, unfetched>> /\ markDutyFailed
    <3> HIDE DEF c
    <3>1. QED BY <1>1, <1>2, <1>7, <2>2
  <2>3. ASSUME NEW rank \in Ranks(roots),
               pre' = VerifyAll(c, VerifiedKeys(c, roots, tried, rank, PreRoot)),
               NEW unavailable \in SUBSET Kinds, NEW decideOk \in BOOLEAN,
               SelectAndDecide(ready, chosen, unavailable, decideOk)
        PROVE  /\ pre' \in Container
               /\ started' \in BOOLEAN /\ checked' \subseteq Duties
               /\ unfetched \subseteq unfetched' /\ unfetched' \subseteq Duties
               /\ \A d \in elected :
                    HasQuorum(pre'[d]) =>
                      HasQuorum(pre[d]) \/ d \in unfetched' \/ started'
               /\ UNCHANGED outcomeVars \/ (markDutyNotRequired /\ ~started')
    <3> DEFINE data == {d \in chosen : d[1] \notin unavailable}
               any == {d \in chosen : d[1] = "att" \/ d \in data}
    <3>1. /\ checked' = checked \cup CheckedForSelection(ready, unavailable)
          /\ unfetched' = unfetched \cup IF decideOk THEN chosen \ data ELSE chosen
          /\ started' = (data # {} /\ decideOk)
          /\ any # {} => UNCHANGED outcomeVars
          /\ UNCHANGED outcomeVars \/ markDutyNotRequired
      BY <2>3, Zenon DEF SelectAndDecide
    <3>2. CheckedForSelection(ready, unavailable) \subseteq Duties
      BY <1>4 DEF CheckedForSelection
    <3>3. tried \subseteq VerifiedKeys(c, roots, tried, rank, PreRoot)
      BY DEF VerifiedKeys
    <3>4. /\ pre' \in Container
          /\ \A d \in Duties : HasQuorum(pre'[d]) => HasQuorum(c[d])
          /\ \A d \in Duties \cap VerifiedKeys(c, roots, tried, rank, PreRoot) :
               HasQuorum(pre'[d]) => Reconstructs(c[d])
      BY <1>2, <2>3, VerifyAllContainer
    <3>5. ASSUME NEW d \in elected, HasQuorum(pre'[d]), ~HasQuorum(pre[d])
          PROVE  d \in chosen
      <4>1. d \in Duties /\ HasQuorum(c[d]) /\ d \in NewQuorums(pre, o, msg)
        BY <1>1, <1>2, <3>4, <3>5
      <4>2. d \in tried
        BY <4>1 DEF Tried
      <4>3. Reconstructs(c[d])
        BY <3>3, <3>4, <3>5, <4>1, <4>2
      <4>4. QED BY <4>2, <4>3 DEF Failing
    <3>6. \A d \in chosen : d \in unfetched' \/ started'
      BY <3>1
    <3>7. data # {} => any # {}
      OBVIOUS
    <3> HIDE DEF chosen, ready, tried, c, any, data
    <3>8. unfetched \subseteq unfetched' /\ unfetched' \subseteq Duties
      BY <1>1, <1>4, <3>1
    <3>9. started' \in BOOLEAN /\ checked' \subseteq Duties
      BY <1>1, <3>1, <3>2
    <3>10. UNCHANGED outcomeVars \/ (markDutyNotRequired /\ ~started')
      BY <3>1, <3>7
    <3>11. QED BY <3>4, <3>5, <3>6, <3>8, <3>9, <3>10
  <2>4. QED BY <1>7, <2>1, <2>2, <2>3
<1>8. QED BY <1>5, <1>6, <1>7

-----------------------------------------------------------------------------
(* Type correctness.                                                       *)

\* The initial states are well typed.
LEMMA TypeInit == Init => TypeOK
<1> SUFFICES ASSUME Init PROVE TypeOK
  OBVIOUS
<1>1. OutcomeTypeOK
  BY DEF Init, OutcomeInit, OutcomeTypeOK
<1>2. [d \in Duties |-> NoSignatures] \in Container
  BY NoSignaturesNoQuorum DEF Container
<1>3. elected \subseteq Duties
  BY CommitteeRunnersAssumption DEF Init
<1>4. byzantine \in 0 .. MaxByzantine
  BY CommitteeRunnersAssumption DEF Init
<1>5. QED BY <1>1, <1>2, <1>3, <1>4 DEF Init, TypeOK

\* An arrival counts a message.
LEMMA ArrivesType ==
  ASSUME TypeOK, NEW phase \in {"pre", "post"}, NEW o \in Operators, Arrives(phase, o)
  PROVE  /\ arrived' \subseteq {"pre", "post"} \X Operators
         /\ byzantine' \in 0 .. MaxByzantine
         /\ elected' = elected
<1>1. /\ arrived \subseteq {"pre", "post"} \X Operators
      /\ byzantine \in 0 .. MaxByzantine /\ MaxByzantine \in Nat
  BY CommitteeRunnersAssumption DEF TypeOK
<1>2. QED BY <1>1 DEF Arrives

\* The steps keep the types.
LEMMA TypeStep == TypeOK /\ [Next]_vars => TypeOK'
<1> SUFFICES ASSUME TypeOK, [Next]_vars PROVE TypeOK'
  OBVIOUS
<1>1. CASE StartNewDuty
  BY <1>1 DEF StartNewDuty, TypeOK, OutcomeTypeOK, envVars, historyVars
<1>2. CASE StartNewDutyFails
  BY <1>2 DEF StartNewDutyFails, TypeOK, OutcomeTypeOK, Outcome, runnerVars, envVars, historyVars
<1>3. ASSUME NEW d \in Duties, Invalidate(d) PROVE TypeOK'
  BY <1>3 DEF Invalidate, TypeOK, OutcomeTypeOK, outcomeVars, envVars, historyVars
<1>4. ASSUME NEW o \in Operators, NEW msg \in MessagesOf("pre", o), ProcessPreConsensus(o, msg)
      PROVE  TypeOK'
  <2>1. msg \in Message
    BY MessagesType
  <2>2. /\ pre' \in Container
        /\ started' \in BOOLEAN /\ checked' \subseteq Duties /\ unfetched' \subseteq Duties
        /\ OutcomeStep
    BY <1>4, <2>1, PreConsensusStep DEF OutcomeStep
  <2>3. OutcomeTypeOK'
    BY <2>2, OutcomeStepType DEF TypeOK
  <2>4. Arrives("pre", o)
    BY <1>4 DEF ProcessPreConsensus
  <2>5. /\ seen' = seen \cup {o}
        /\ UNCHANGED <<role, consuming, decided, post, valid, submitted, own, safe, unbuilt, repeated>>
    BY <1>4 DEF ProcessPreConsensus
  <2>6. QED BY <2>2, <2>3, <2>4, <2>5, ArrivesType DEF TypeOK
<1>5. ASSUME NEW value \in DecidedValues, NEW view \in PostViews, NEW ok \in BOOLEAN,
             ProcessConsensus(value, view, ok)
      PROVE  TypeOK'
  <2>1. value \subseteq Duties
    BY CommitteeRunnersAssumption DEF DecidedValues
  <2>2. consuming' \in BOOLEAN /\ own' \subseteq Duties
    BY <1>5, <2>1 DEF ProcessConsensus, TypeOK
  <2>3. OutcomeTypeOK'
    <3>1. OutcomeStep
      BY <1>5, Zenon DEF ProcessConsensus, OutcomeStep
    <3>2. QED BY <3>1, OutcomeStepType DEF TypeOK
  <2>4. QED BY <1>5, <2>1, <2>2, <2>3 DEF ProcessConsensus, TypeOK, envVars, historyVars
<1>6. CASE DecidesUnacceptable
  <2>1. OutcomeTypeOK'
    BY <1>6, OutcomeStepType DEF DecidesUnacceptable, OutcomeStep, TypeOK
  <2>2. QED BY <1>6, <2>1 DEF DecidesUnacceptable, TypeOK, runnerVars, envVars, historyVars
<1>7. ASSUME NEW o \in Operators, NEW msg \in MessagesOf("post", o), ProcessPostConsensus(o, msg)
      PROVE  TypeOK'
  <2>1. msg \in Message
    BY MessagesType
  <2>2. /\ post' \in Container /\ consuming' \in BOOLEAN /\ safe' \subseteq Validators
        /\ submitted' \subseteq Duties /\ unbuilt' \subseteq Duties /\ repeated' = repeated
        /\ OutcomeStep
    BY <1>7, <2>1, PostConsensusStep DEF OutcomeStep
  <2>3. OutcomeTypeOK'
    BY <2>2, OutcomeStepType DEF TypeOK
  <2>4. Arrives("post", o)
    BY <1>7 DEF ProcessPostConsensus
  <2>5. UNCHANGED <<role, started, decided, pre, seen, checked, valid, own, unfetched>>
    BY <1>7 DEF ProcessPostConsensus
  <2>6. QED BY <2>2, <2>3, <2>4, <2>5, ArrivesType DEF TypeOK
<1>8. CASE Watch
  <2>1. OutcomeTypeOK'
    BY <1>8 DEF Watch, ReportConclusion, ReportAtDeadline, OutcomeAtDeadline, TypeOK,
                OutcomeTypeOK, Outcome
  <2>2. QED BY <1>8, <2>1 DEF Watch, TypeOK, runnerVars, envVars, historyVars
<1>9. CASE UNCHANGED vars
  BY <1>9 DEF vars, runnerVars, outcomeVars, envVars, historyVars, TypeOK, OutcomeTypeOK
<1>10. QED BY <1>1, <1>2, <1>3, <1>4, <1>5, <1>6, <1>7, <1>8, <1>9 DEF Next

\* Types: the containers hold at most one signature of each signer for a duty,
\* and every set of duties the runner keeps is one of this slot's duties.
THEOREM CommitteeRunnersTypeOK == Spec => []TypeOK
<1>1. QED BY TypeInit, TypeStep, PTL DEF Spec

-----------------------------------------------------------------------------
(* Submissions.                                                            *)

\* Outside ProcessPostConsensus nothing is submitted and no signature of the
\* post-consensus phase stored.
LEMMA OnlyPostConsensusSubmits ==
  ASSUME TypeOK, [Next]_vars
  PROVE  \/ UNCHANGED <<post, submitted, safe, repeated, unbuilt>>
         \/ \E o \in Operators : \E msg \in Message : ProcessPostConsensus(o, msg)
BY MessagesType
   DEF Next, StartNewDuty, StartNewDutyFails, Invalidate, ProcessPreConsensus,
       ProcessConsensus, DecidesUnacceptable, Watch, vars, runnerVars, historyVars

\* Whatever is submitted to the beacon node, or reported to doppelganger
\* protection, rests on a quorum of good partial signatures, however many bad
\* ones were stored on the way.
THEOREM SubmissionsHaveQuorums == Spec => []SubmissionsAreSigned
<1>1. Init => SubmissionsAreSigned
  BY DEF Init, SubmissionsAreSigned
<1>2. TypeOK /\ TypeOK' /\ SubmissionsAreSigned /\ [Next]_vars => SubmissionsAreSigned'
  <2> SUFFICES ASSUME TypeOK, TypeOK', SubmissionsAreSigned, [Next]_vars
               PROVE  SubmissionsAreSigned'
    OBVIOUS
  <2>1. CASE UNCHANGED <<post, submitted, safe, repeated, unbuilt>>
    BY <2>1 DEF SubmissionsAreSigned
  <2>2. ASSUME NEW o \in Operators, NEW msg \in Message, ProcessPostConsensus(o, msg)
        PROVE  SubmissionsAreSigned'
    <3>1. /\ \A d \in Duties : post[d].good \subseteq post'[d].good
          /\ submitted' \subseteq Duties
          /\ \A d \in submitted' \ submitted : Cardinality(post'[d].good) >= Quorum
          /\ \A v \in safe' \ safe :
               <<"att", v>> \in Duties /\ Cardinality(post'[<<"att", v>>].good) >= Quorum
      BY <2>2, PostConsensusStep
    <3>2. \A d \in Duties : post[d] \in Entry /\ post'[d] \in Entry
      BY DEF TypeOK, Container
    <3>3. \A d \in Duties :
            Cardinality(post[d].good) >= Quorum => Cardinality(post'[d].good) >= Quorum
      BY <3>1, <3>2, GoodQuorumsLast
    <3>4. \A d \in submitted' : Cardinality(post'[d].good) >= Quorum
      BY <3>1, <3>3 DEF SubmissionsAreSigned
    <3>5. \A v \in safe' :
            <<"att", v>> \in Duties /\ Cardinality(post'[<<"att", v>>].good) >= Quorum
      BY <3>1, <3>3 DEF SubmissionsAreSigned
    <3>6. QED BY <3>1, <3>4, <3>5 DEF SubmissionsAreSigned
  <2>3. QED BY <2>1, <2>2, OnlyPostConsensusSubmits
<1>3. QED BY <1>1, <1>2, CommitteeRunnersTypeOK, PTL DEF Spec

\* No duty is submitted twice, whatever quorums form late and however often
\* the runner comes back to a root.
THEOREM NothingIsSubmittedTwice == Spec => []SubmittedOnce
<1>1. Init => SubmittedOnce
  BY DEF Init, SubmittedOnce
<1>2. TypeOK /\ SubmittedOnce /\ [Next]_vars => SubmittedOnce'
  BY OnlyPostConsensusSubmits, PostConsensusStep DEF SubmittedOnce
<1>3. QED BY <1>1, <1>2, CommitteeRunnersTypeOK, PTL DEF Spec

-----------------------------------------------------------------------------
(* Quorums and outcomes.                                                   *)

\* Nothing is concluded or collected initially.
LEMMA IInvInit == Init => IInv
<1> SUFFICES ASSUME Init PROVE IInv
  OBVIOUS
<1>1. OutcomeFollowsState /\ ConclusionIsTrue
  BY OutcomeAssumption
     DEF Init, OutcomeInit, OutcomeFollowsState, ConclusionIsTrue, Outcome
<1>2. elected \subseteq Duties /\ pre = [d \in Duties |-> NoSignatures]
  BY TypeInit DEF TypeOK, Init
<1>3. PreQuorumsAreUsed
  BY <1>2, NoSignaturesNoQuorum DEF PreQuorumsAreUsed
<1>4. PostQuorumsAreUsed
  BY DEF Init, PostQuorumsAreUsed
<1>5. QED BY <1>1, <1>3, <1>4, TypeInit DEF IInv

\* A step that only invalidates duties, reports or waits.
LEMMA QuietStep ==
  ASSUME IInv, OutcomeFollowsState', valid' \subseteq valid,
         UNCHANGED <<role, started, decided, pre, post, submitted, succeeded, elected,
                     unbuilt, unfetched>>,
         concluded' = concluded \/ concluded' = "failed"
  PROVE  PostQuorumsAreUsed' /\ PreQuorumsAreUsed' /\ ConclusionIsTrue'
<1>1. Expected' \subseteq Expected
  BY DEF Expected
<1>2. PostQuorumsAreUsed'
  BY <1>1 DEF IInv, PostQuorumsAreUsed
<1>3. PreQuorumsAreUsed'
  BY DEF IInv, PreQuorumsAreUsed
<1>4. ConclusionIsTrue'
  BY <1>1 DEF IInv, ConclusionIsTrue
<1>5. QED BY <1>2, <1>3, <1>4

\* A conclusion is handed over once.
LEMMA Conclusions ==
  ASSUME OutcomeFollowsState, OutcomeTypeOK, ~succeeded
  PROVE  /\ concluded \in {None, "failed"}
         /\ markDutyFailed => concluded' = "failed"
         /\ markDutySucceeded => concluded' \in {"succeeded", "failed"} /\ succeeded'
         /\ markDutyNotRequired => concluded' \in {"not_required", "failed"} /\ succeeded'
BY OutcomeAssumption
   DEF OutcomeFollowsState, OutcomeTypeOK, Outcome, markDutyFailed, markDutySucceeded,
       markDutyNotRequired, concludeDuty

\* The mark functions keep what the loop and the watcher know.
LEMMA OutcomeStepFollows ==
  ASSUME OutcomeFollowsState, OutcomeTypeOK, OutcomeStep, watched,
         ~succeeded \/ UNCHANGED outcomeVars
  PROVE  OutcomeFollowsState'
<1> USE OutcomeAssumption DEF OutcomeFollowsState, Outcome
<1>1. CASE UNCHANGED outcomeVars
  BY <1>1 DEF outcomeVars
<1>2. ~succeeded => /\ concluded \in {None, "failed"}
                    /\ reported \notin {"succeeded", "not_required"}
  BY DEF OutcomeTypeOK
<1>3. CASE ~succeeded /\ noteDutyFailure
  BY <1>2, <1>3 DEF noteDutyFailure
<1>4. CASE ~succeeded /\ markDutyFailed
  BY <1>2, <1>4 DEF markDutyFailed, concludeDuty
<1>5. CASE ~succeeded /\ markDutySucceeded
  BY <1>2, <1>5 DEF markDutySucceeded, concludeDuty
<1>6. CASE ~succeeded /\ markDutyNotRequired
  BY <1>2, <1>6 DEF markDutyNotRequired, concludeDuty
<1>7. QED BY <1>1, <1>3, <1>4, <1>5, <1>6 DEF OutcomeStep

\* Every step keeps the invariant.
LEMMA IInvStep == IInv /\ [Next]_vars => IInv'
<1> SUFFICES ASSUME IInv, [Next]_vars
             PROVE  /\ OutcomeFollowsState' /\ PostQuorumsAreUsed'
                    /\ PreQuorumsAreUsed' /\ ConclusionIsTrue'
  BY TypeStep DEF IInv
<1>0. TypeOK /\ OutcomeTypeOK /\ OutcomeFollowsState
  BY DEF IInv, TypeOK
<1>1. CASE StartNewDuty
  <2>1. started \in BOOLEAN
    BY <1>0 DEF TypeOK
  <2>2. OutcomeFollowsState'
    BY <1>0, <1>1 DEF StartNewDuty, OutcomeFollowsState
  <2>3. PostQuorumsAreUsed' /\ ConclusionIsTrue'
    BY <1>1 DEF IInv, PostQuorumsAreUsed, ConclusionIsTrue, StartNewDuty, Expected,
                envVars, historyVars
  <2>4. PreQuorumsAreUsed'
    BY <1>0, <1>1 DEF IInv, PreQuorumsAreUsed, StartNewDuty, OutcomeFollowsState, envVars,
                      historyVars
  <2>5. QED BY <2>2, <2>3, <2>4
<1>2. CASE StartNewDutyFails
  <2>1. OutcomeFollowsState'
    BY <1>0, <1>2, OutcomeAssumption
       DEF StartNewDutyFails, OutcomeFollowsState, Outcome, runnerVars
  <2>2. QED BY <1>2, <2>1, QuietStep DEF StartNewDutyFails, runnerVars, envVars, historyVars
<1>3. ASSUME NEW d \in Duties, Invalidate(d)
      PROVE  /\ OutcomeFollowsState' /\ PostQuorumsAreUsed'
             /\ PreQuorumsAreUsed' /\ ConclusionIsTrue'
  <2>1. OutcomeFollowsState'
    BY <1>0, <1>3 DEF Invalidate, OutcomeFollowsState, outcomeVars
  <2>2. QED BY <1>3, <2>1, QuietStep DEF Invalidate, outcomeVars, envVars, historyVars
<1>4. ASSUME NEW o \in Operators, NEW msg \in MessagesOf("pre", o), ProcessPreConsensus(o, msg)
      PROVE  /\ OutcomeFollowsState' /\ PostQuorumsAreUsed'
             /\ PreQuorumsAreUsed' /\ ConclusionIsTrue'
  <2>1. msg \in Message
    BY <1>0, MessagesType
  <2>2. /\ pre' \in Container
        /\ unfetched \subseteq unfetched'
        /\ ~succeeded =>
              \A d \in elected :
                HasQuorum(pre'[d]) =>
                  HasQuorum(pre[d]) \/ d \in unfetched' \/ started' \/ markDutyFailed
        /\ succeeded => UNCHANGED <<started, pre, unfetched, outcomeVars>>
        /\ \/ UNCHANGED outcomeVars
           \/ markDutyFailed
           \/ markDutyNotRequired /\ ~started'
    BY <1>0, <1>4, <2>1, PreConsensusStep
  <2>3. /\ role = "aggregator" /\ consuming /\ ~started /\ Arrives("pre", o)
        /\ UNCHANGED <<role, consuming, decided, post, valid, submitted, own, safe, unbuilt, repeated>>
    BY <1>4 DEF ProcessPreConsensus
  <2>4. elected' = elected /\ elected \subseteq Duties
    BY <1>0, <2>3, ArrivesType DEF TypeOK
  <2>5. OutcomeFollowsState'
    BY <1>0, <2>2, <2>3, OutcomeStepFollows DEF OutcomeStep, OutcomeFollowsState
  <2>6. CASE succeeded
    BY <2>2, <2>3, <2>4, <2>5, <2>6, QuietStep DEF outcomeVars
  <2>7. CASE ~succeeded
    <3>1. concluded' = concluded \/ concluded' \in {"failed", "not_required"}
      BY <1>0, <2>2, <2>7, Conclusions DEF outcomeVars
    <3>2. concluded \in {None, "failed"} /\ (concluded = "failed" => concluded' = "failed")
      BY <1>0, <2>2, <2>7, Conclusions, OutcomeAssumption
         DEF outcomeVars, Outcome, markDutyFailed, markDutyNotRequired, concludeDuty
    <3>3. PreQuorumsAreUsed'
      <4> SUFFICES ASSUME NEW d \in elected, HasQuorum(pre'[d])
                   PROVE  d \in unfetched' \/ started' \/ concluded' = "failed"
        BY <2>4 DEF PreQuorumsAreUsed
      <4>1. CASE HasQuorum(pre[d])
        BY <2>2, <2>3, <3>2, <4>1 DEF IInv, PreQuorumsAreUsed
      <4>2. CASE ~HasQuorum(pre[d])
        BY <1>0, <2>2, <2>7, <4>2, Conclusions
      <4>3. QED BY <4>1, <4>2
    <3>4. PostQuorumsAreUsed'
      <4>1. Expected' = Expected
        BY <2>3 DEF Expected
      <4>2. succeeded' \/ succeeded' = succeeded
        BY <2>2 DEF outcomeVars, markDutyFailed, markDutyNotRequired
      <4>3. QED BY <2>3, <2>7, <3>2, <4>1, <4>2 DEF IInv, PostQuorumsAreUsed
    <3>5. ConclusionIsTrue'
      <4>1. (role = "aggregator" /\ decided # None => decided # {})'
        BY <2>3 DEF IInv, ConclusionIsTrue
      <4>2. concluded' # "succeeded"
        BY <3>1, <3>2, OutcomeAssumption DEF Outcome
      <4>3. ASSUME concluded' = "not_required", NEW d \in elected,
                   Cardinality(pre'[d].good) >= Quorum
            PROVE  d \in unfetched'
        <5>1. markDutyNotRequired /\ ~started'
          BY <1>0, <2>2, <2>7, <3>2, <4>3, Conclusions, OutcomeAssumption DEF outcomeVars, Outcome
        <5>2. pre'[d] \in Entry
          BY <2>2, <2>4 DEF Container
        <5>3. HasQuorum(pre'[d])
          BY <4>3, <5>2, ReconstructsGoodQuorums
        <5>4. QED BY <2>3, <2>4, <3>3, <4>3, <5>1, <5>3 DEF PreQuorumsAreUsed
      <4>4. role' = "aggregator" /\ elected' = elected
        BY <2>3, <2>4
      <4>5. QED BY <4>1, <4>2, <4>3, <4>4 DEF ConclusionIsTrue
    <3>6. QED BY <2>5, <3>3, <3>4, <3>5
  <2>8. QED BY <2>6, <2>7
<1>5. ASSUME NEW value \in DecidedValues, NEW view \in PostViews, NEW ok \in BOOLEAN,
             ProcessConsensus(value, view, ok)
      PROVE  /\ OutcomeFollowsState' /\ PostQuorumsAreUsed'
             /\ PreQuorumsAreUsed' /\ ConclusionIsTrue'
  <2> DEFINE mine == IF role = "committee" THEN valid ELSE value
  <2>1. /\ consuming /\ started /\ decided = None /\ ~succeeded
        /\ decided' = value
        /\ UNCHANGED <<role, started, pre, post, valid, submitted, elected, unbuilt, unfetched>>
        /\ UNCHANGED outcomeVars \/ noteDutyFailure \/ (markDutyNotRequired /\ mine = {})
    BY <1>5, Zenon DEF ProcessConsensus, envVars, historyVars
  <2>2. role \in {"committee", "aggregator"} /\ valid \subseteq Duties /\ elected \subseteq Duties
        /\ started \in BOOLEAN
    BY <1>0 DEF TypeOK
  <2>3. role = "aggregator" => value # {} /\ mine # {}
    BY <2>2, CommitteeRunnersAssumption DEF DecidedValues
  <2>4. value \subseteq Duties
    BY CommitteeRunnersAssumption DEF DecidedValues
  <2>5. OutcomeFollowsState'
    <3>1. watched
      BY <1>0, <2>1 DEF OutcomeFollowsState
    <3>2. OutcomeStep
      BY <2>1 DEF OutcomeStep
    <3>3. QED BY <1>0, <2>1, <3>1, <3>2, OutcomeStepFollows
  <2>6. PostQuorumsAreUsed'
    <3>1. Expected' \subseteq Duties
      BY <2>1, <2>2, <2>4 DEF Expected
    <3>2. \A d \in Duties : post'[d] = NoSignatures
      BY <2>1 DEF IInv, PostQuorumsAreUsed
    <3>3. QED BY <3>1, <3>2, NoSignaturesNoQuorum DEF PostQuorumsAreUsed
  <2>7. PreQuorumsAreUsed'
    BY <2>1 DEF PreQuorumsAreUsed
  <2>8. concluded' \in {None, "failed"} \/ (concluded' = "not_required" /\ mine = {})
    BY <1>0, <2>1, Conclusions DEF outcomeVars, noteDutyFailure
  <2>9. ConclusionIsTrue'
    <3>1. concluded' # "succeeded" /\ (concluded' = "not_required" => mine = {})
      BY <2>8, OutcomeAssumption DEF Outcome
    <3>2. QED BY <2>1, <2>2, <2>3, <3>1 DEF ConclusionIsTrue
  <2>10. QED BY <2>5, <2>6, <2>7, <2>9
<1>6. CASE DecidesUnacceptable
  <2>1. ~succeeded /\ consuming /\ concluded' = "failed"
    BY <1>0, <1>6, Conclusions DEF DecidesUnacceptable
  <2>2. OutcomeFollowsState'
    BY <1>0, <1>6, <2>1, OutcomeStepFollows
       DEF DecidesUnacceptable, OutcomeStep, OutcomeFollowsState
  <2>3. QED BY <1>6, <2>1, <2>2, QuietStep
            DEF DecidesUnacceptable, markDutyFailed, runnerVars, envVars, historyVars
<1>7. ASSUME NEW o \in Operators, NEW msg \in MessagesOf("post", o), ProcessPostConsensus(o, msg)
      PROVE  /\ OutcomeFollowsState' /\ PostQuorumsAreUsed'
             /\ PreQuorumsAreUsed' /\ ConclusionIsTrue'
  <2>1. msg \in Message
    BY <1>0, MessagesType
  <2>2. /\ submitted \subseteq submitted' /\ unbuilt \subseteq unbuilt'
        /\ \A d \in Expected :
             HasQuorum(post'[d]) =>
               HasQuorum(post[d]) \/ d \in submitted' \cup unbuilt' \/ markDutyFailed
        /\ \/ UNCHANGED outcomeVars
           \/ markDutyFailed
           \/ markDutySucceeded /\ Expected \subseteq submitted' \cup unbuilt'
           \/ markDutyNotRequired /\ Expected = {}
    BY <1>0, <1>7, <2>1, PostConsensusStep
  <2>3. /\ consuming /\ decided # None /\ ~succeeded /\ Arrives("post", o)
        /\ UNCHANGED <<role, started, decided, pre, seen, checked, valid, own, unfetched>>
    BY <1>7 DEF ProcessPostConsensus
  <2>4. elected' = elected
    BY <1>0, <2>3, ArrivesType
  <2>5. OutcomeFollowsState'
    BY <1>0, <2>2, <2>3, OutcomeStepFollows DEF OutcomeStep, OutcomeFollowsState
  <2>6. Expected' = Expected
    BY <2>3 DEF Expected
  <2>7. /\ concluded = "failed" => concluded' = "failed"
        /\ markDutyFailed => concluded' = "failed"
        /\ concluded' = "succeeded" => Expected \subseteq submitted' \cup unbuilt'
        /\ concluded' = "not_required" => Expected = {}
    BY <1>0, <2>2, <2>3, Conclusions, OutcomeAssumption
       DEF outcomeVars, Outcome, markDutyFailed, markDutySucceeded, markDutyNotRequired,
           concludeDuty
  <2>8. PostQuorumsAreUsed'
    BY <2>2, <2>3, <2>6, <2>7 DEF IInv, PostQuorumsAreUsed
  <2>9. PreQuorumsAreUsed'
    BY <2>3, <2>4, <2>7 DEF IInv, PreQuorumsAreUsed
  <2>10. ConclusionIsTrue'
    <3>1. role = "aggregator" => Expected = decided /\ decided # {}
      BY <2>3 DEF IInv, ConclusionIsTrue, Expected
    <3>2. role = "committee" => Expected = valid
      BY DEF Expected
    <3>3. role \in {"committee", "aggregator"}
      BY <1>0 DEF TypeOK
    <3>4. QED BY <2>3, <2>6, <2>7, <3>1, <3>2, <3>3 DEF ConclusionIsTrue
  <2>11. QED BY <2>5, <2>8, <2>9, <2>10
<1>8. CASE Watch
  <2>1. OutcomeFollowsState'
    BY <1>0, <1>8, OutcomeAssumption
       DEF Watch, ReportConclusion, ReportAtDeadline, OutcomeAtDeadline, OutcomeFollowsState,
           runnerVars, Outcome, OutcomeTypeOK
  <2>2. QED BY <1>8, <2>1, QuietStep
            DEF Watch, ReportConclusion, ReportAtDeadline, runnerVars, envVars, historyVars
<1>9. CASE UNCHANGED vars
  <2>1. OutcomeFollowsState'
    BY <1>0, <1>9 DEF vars, runnerVars, outcomeVars, OutcomeFollowsState
  <2>2. QED BY <1>9, <2>1, QuietStep DEF vars, runnerVars, outcomeVars, envVars, historyVars
<1>10. QED BY <1>1, <1>2, <1>3, <1>4, <1>5, <1>6, <1>7, <1>8, <1>9 DEF Next

\* The invariant holds throughout.
LEMMA IInvHolds == Spec => []IInv
<1>1. QED BY IInvInit, IInvStep, PTL DEF Spec

\* A quorum of good post-consensus signatures is submitted, unless the duty
\* failed, was given up, or its object could not be built as the quorum formed.
THEOREM CommitteeQuorumsAreUsed == Spec => []QuorumIsUsed
<1>1. IInv => QuorumIsUsed
  <2> SUFFICES ASSUME IInv, decided # None, NEW d \in Expected,
                      Cardinality(post[d].good) >= Quorum
               PROVE  d \in submitted \cup unbuilt \/ concluded = "failed" \/ succeeded
    BY DEF QuorumIsUsed
  <2>1. valid \subseteq Duties /\ decided \in {None} \cup SUBSET Duties /\ post \in Container
    BY DEF IInv, TypeOK
  <2>2. d \in Duties
    BY <2>1 DEF Expected
  <2>3. post[d] \in Entry
    BY <2>1, <2>2 DEF Container
  <2>4. HasQuorum(post[d])
    BY <2>3, ReconstructsGoodQuorums
  <2>5. QED BY <2>4 DEF IInv, PostQuorumsAreUsed
<1>2. QED BY <1>1, IInvHolds, PTL

\* The outcome the watcher reports is the one that came about, whenever its
\* deadline falls.
THEOREM ReportedOutcomeIsTrue == Spec => []OutcomeIsTrue
<1>1. IInv => OutcomeIsTrue
  BY DEF IInv, OutcomeFollowsState, ConclusionIsTrue, OutcomeIsTrue
<1>2. QED BY <1>1, IInvHolds, PTL

-----------------------------------------------------------------------------
(* Proposer preferences: the signatures of one runner.                     *)

\* The runner's preference was submitted, or its submission failed.
Done(r) == r.submitted = r.frozen \/ r.rejected

\* Collecting a signature loses no good one; a quorum that it makes is acted on
\* or falls apart.
LEMMA CollectedEntry ==
  ASSUME NEW e \in Entry, NEW o \in Operators, NEW isGood \in BOOLEAN
  PROVE  /\ Collected(e, o, isGood) \in Entry
         /\ e.good \subseteq Collected(e, o, isGood).good
         /\ isGood => o \in Collected(e, o, isGood).good
         /\ ~HasQuorum(e) /\ ~Completes(e, o, isGood) => ~HasQuorum(Collected(e, o, isGood))
<1> DEFINE s == Store(e, o, isGood)
<1>1. s \in Entry /\ e.good \subseteq s.good
  BY StoreEntry
<1>2. isGood => o \in s.good
  BY DEF Store, Entry
<1>3. Collected(e, o, isGood) = IF Crosses(e, o, isGood) THEN FallBackAndVerifyEachSignature(s) ELSE s
  BY DEF Collected
<1>4. Completes(e, o, isGood) <=> Crosses(e, o, isGood) /\ Reconstructs(s)
  BY DEF Completes
<1>5. Crosses(e, o, isGood) <=> ~HasQuorum(e) /\ HasQuorum(s)
  BY DEF Crosses
<1> HIDE DEF s
<1>6. CASE Crosses(e, o, isGood)
  BY <1>1, <1>2, <1>3, <1>4, <1>6, VerifiedEntry, ReconstructsGoodQuorums
<1>7. CASE ~Crosses(e, o, isGood)
  BY <1>1, <1>2, <1>3, <1>5, <1>7
<1>8. QED BY <1>6, <1>7

\* A message about the preference.
LEMMA PreferenceTaken ==
  ASSUME NEW r \in SlotRunner, NEW o \in Operators, NEW sigs, NEW bn \in BeaconNode,
         NEW q \in Preferences, sigs \in [{q} -> BOOLEAN],
         NEW t, t = TakePreference(r, o, sigs, bn)
  PROVE  /\ t \in SlotRunner
         /\ t.frozen = r.frozen /\ t.auths = r.auths /\ t.authsDone = r.authsDone
         /\ r.frozen = Nil => t = r
         /\ Done(r) => Done(t)
         /\ ~HasQuorum(r.pre) /\ ~r.succeeded /\ ~Done(t) =>
              /\ ~HasQuorum(t.pre) /\ ~t.succeeded
              /\ r.pre.good \subseteq t.pre.good /\ r.refused \subseteq t.refused
              /\ r.frozen = q /\ sigs[q] => o \in t.pre.good \cup t.refused
<1>1. CASE r.succeeded \/ DOMAIN sigs # {r.frozen}
  <2>1. t = r
    BY <1>1 DEF TakePreference
  <2>2. QED BY <1>1, <2>1
<1>2. CASE ~(r.succeeded \/ DOMAIN sigs # {r.frozen})
  <2>1. r.frozen = q /\ r.frozen # Nil /\ sigs[r.frozen] \in BOOLEAN /\ r.pre \in Entry
    BY <1>2, PreferencesAssumption DEF SlotRunner
  <2>2. CASE bn = "no domain"
    <3>1. t = [r EXCEPT !.refused = @ \cup {o}]
      BY <1>2, <2>2 DEF TakePreference
    <3>2. t \in SlotRunner
      BY <3>1 DEF SlotRunner
    <3>3. QED BY <1>2, <2>1, <3>1, <3>2 DEF Done, SlotRunner
  <2>3. CASE bn # "no domain"
    <3> DEFINE isGood == sigs[r.frozen]
               e == Collected(r.pre, o, isGood)
               stored == [r EXCEPT !.pre = e]
    <3>1. t = IF Completes(r.pre, o, isGood) THEN Submitted(stored, bn) ELSE stored
      BY <1>2, <2>3 DEF TakePreference
    <3>2. /\ e \in Entry /\ r.pre.good \subseteq e.good /\ (isGood => o \in e.good)
          /\ ~HasQuorum(r.pre) /\ ~Completes(r.pre, o, isGood) => ~HasQuorum(e)
      BY <2>1, CollectedEntry
    <3> HIDE DEF e
    <3>3. /\ stored \in SlotRunner /\ stored.frozen = r.frozen /\ stored.auths = r.auths
          /\ stored.authsDone = r.authsDone /\ stored.submitted = r.submitted
          /\ stored.rejected = r.rejected /\ stored.succeeded = r.succeeded
          /\ stored.pre = e /\ stored.refused = r.refused
      BY <3>2 DEF SlotRunner
    <3> HIDE DEF stored, isGood
    <3>4. CASE Completes(r.pre, o, isGood)
      <4>1. t = [stored EXCEPT !.submitted = IF bn = "ok" THEN stored.frozen ELSE @,
                               !.succeeded = (bn = "ok"), !.rejected = (bn # "ok")]
        BY <3>1, <3>4 DEF Submitted
      <4>2. t \in SlotRunner
        BY <3>3, <4>1 DEF SlotRunner
      <4>3. /\ t.frozen = stored.frozen /\ t.auths = stored.auths /\ t.authsDone = stored.authsDone
            /\ Done(t)
        BY <3>3, <4>1, ZenonT(40) DEF SlotRunner, Done
      <4>4. QED BY <2>1, <3>3, <4>2, <4>3
    <3>5. CASE ~Completes(r.pre, o, isGood)
      BY <1>2, <2>1, <3>1, <3>2, <3>3, <3>5 DEF Done, isGood
    <3>6. QED BY <3>4, <3>5
  <2>4. QED BY <2>2, <2>3
<1>3. QED BY <1>1, <1>2

\* A message about builder auths.
LEMMA AuthsTaken ==
  ASSUME NEW r \in SlotRunner, NEW o \in Operators, NEW sigs,
         sigs \in [DOMAIN sigs -> BOOLEAN],
         NEW t, t = TakeAuths(r, o, sigs)
  PROVE  /\ t \in SlotRunner
         /\ t.frozen = r.frozen /\ t.submitted = r.submitted /\ t.succeeded = r.succeeded
         /\ t.rejected = r.rejected /\ t.pre = r.pre /\ t.refused = r.refused
         /\ r.authsDone \subseteq t.authsDone
         /\ \A y \in RequestAuths \ t.authsDone :
              /\ r.auths[y].good \subseteq t.auths[y].good
              /\ ~HasQuorum(r.auths[y]) => ~HasQuorum(t.auths[y])
              /\ y \in DOMAIN sigs /\ sigs[y] => o \in t.auths[y].good
<1> DEFINE matched == (DOMAIN sigs \cap RequestAuths) \ r.authsDone
           as == [y \in RequestAuths |->
                    IF y \in matched THEN Collected(r.auths[y], o, sigs[y]) ELSE r.auths[y]]
           completed == {y \in matched : Completes(r.auths[y], o, sigs[y])}
<1>1. t = [r EXCEPT !.auths = as, !.authsDone = @ \cup completed]
  BY DEF TakeAuths
<1>2. ASSUME NEW y \in RequestAuths
      PROVE  /\ r.auths[y] \in Entry /\ as[y] \in Entry /\ r.auths[y].good \subseteq as[y].good
             /\ y \in matched => sigs[y] \in BOOLEAN
             /\ y \notin completed /\ ~HasQuorum(r.auths[y]) => ~HasQuorum(as[y])
             /\ y \in matched /\ sigs[y] => o \in as[y].good
  <2>1. r.auths[y] \in Entry
    BY DEF SlotRunner
  <2>2. CASE y \in matched
    <3>1. sigs[y] \in BOOLEAN /\ as[y] = Collected(r.auths[y], o, sigs[y])
      BY <2>2
    <3>2. QED BY <2>1, <2>2, <3>1, CollectedEntry
  <2>3. CASE y \notin matched
    BY <2>1, <2>3
  <2>4. QED BY <2>2, <2>3
<1>3. as \in [RequestAuths -> Entry] /\ completed \subseteq RequestAuths
  BY <1>2
<1>4. \A y \in (RequestAuths \cap DOMAIN sigs) \ r.authsDone : y \in matched
  OBVIOUS
<1> HIDE DEF as, completed, matched
<1>5. /\ t \in SlotRunner /\ t.auths = as /\ t.authsDone = r.authsDone \cup completed
  BY <1>1, <1>3 DEF SlotRunner
<1>6. /\ t.frozen = r.frozen /\ t.submitted = r.submitted /\ t.succeeded = r.succeeded
      /\ t.rejected = r.rejected /\ t.pre = r.pre /\ t.refused = r.refused
  BY <1>1 DEF SlotRunner
<1>7. QED BY <1>2, <1>4, <1>5, <1>6

\* The runner that takes over, before anything is replayed: nothing is
\* collected, and it has frozen what it built, or knows it submitted.
LEMMA DutyExecuted ==
  ASSUME slotRunner \in SlotRunner \cup {Nil}, chain \in Preferences,
         lastRoot \in Preferences \cup {Nil},
         NEW built \in BuiltPreferences, NEW newAuths \in SUBSET RequestAuths,
         NEW signs \in BOOLEAN,
         NEW ran, ran = Executed(RequestAuthRound(NewSlotRunner, newAuths), built, signs)
  PROVE  /\ ran \in SlotRunner /\ ran.broadcast \in Preferences \cup {Nil}
         /\ ran.pre = NoSignatures /\ ran.refused = {}
         /\ ran.succeeded => ran.frozen = Nil
         /\ built # Nil => \/ ran.frozen = built
                           \/ ran.frozen = Nil /\ ran.submitted = built
<1> DEFINE none == [frozen |-> Nil, submitted |-> Nil, broadcast |-> Nil, authsSent |-> {},
                    authsDone |-> {}, succeeded |-> FALSE, rejected |-> FALSE, refused |-> {},
                    pre |-> NoSignatures, auths |-> [y \in RequestAuths |-> NoSignatures]]
           new == NewSlotRunner
           r == RequestAuthRound(new, newAuths)
           preference == ToFreeze(r, built)
<1>1. NoSignatures \in Entry
  BY NoSignaturesNoQuorum
<1>2. none \in SlotRunner
  BY <1>1 DEF SlotRunner
<1>3. LiveRunner = Nil \/ LiveRunner \in SlotRunner
  BY DEF LiveRunner
<1>4. new = IF LiveRunner = Nil THEN none
            ELSE [none EXCEPT !.submitted = LiveRunner.submitted, !.broadcast = LiveRunner.broadcast,
                              !.authsSent = LiveRunner.authsSent, !.authsDone = LiveRunner.authsDone]
  BY DEF NewSlotRunner
<1>5. /\ new \in SlotRunner /\ new.pre = NoSignatures /\ new.refused = {} /\ new.frozen = Nil
      /\ ~new.succeeded
  <2>1. CASE LiveRunner = Nil
    BY <1>2, <1>4, <2>1
  <2>2. CASE LiveRunner # Nil
    BY <1>2, <1>3, <1>4, <2>2 DEF SlotRunner
  <2>3. QED BY <2>1, <2>2
<1> HIDE DEF new, none
<1>6. /\ r \in SlotRunner /\ r.pre = NoSignatures /\ r.refused = {} /\ r.frozen = Nil
      /\ ~r.succeeded
  BY <1>5 DEF RequestAuthRound, SlotRunner
<1> HIDE DEF r
<1>7. preference \in Preferences \cup {Nil} /\ (built # Nil => preference = built)
  BY <1>6 DEF ToFreeze, BuiltPreferences, SlotRunner
<1>8. ran = CASE preference = Nil -> r
              [] preference # Nil /\ preference = r.submitted -> [r EXCEPT !.succeeded = TRUE]
              [] OTHER -> [r EXCEPT !.frozen = preference,
                                    !.broadcast = IF signs THEN preference ELSE @]
  BY DEF Executed, r, new
<1> HIDE DEF preference
<1>9. CASE preference = Nil
  BY <1>6, <1>7, <1>8, <1>9 DEF SlotRunner
<1>10. CASE preference # Nil /\ preference = r.submitted
  <2>1. ran = [r EXCEPT !.succeeded = TRUE]
    BY <1>8, <1>10
  <2>2. QED BY <1>6, <1>7, <1>10, <2>1 DEF SlotRunner
<1>11. CASE preference # Nil /\ preference # r.submitted
  <2>1. ran = [r EXCEPT !.frozen = preference, !.broadcast = IF signs THEN preference ELSE @]
    BY <1>8, <1>11
  <2>2. QED BY <1>6, <1>7, <1>11, <2>1 DEF SlotRunner
<1>12. QED BY <1>9, <1>10, <1>11

\* A replayed entry has the good signatures, and a quorum only of them.
LEMMA ReplayedEntry ==
  ASSUME NEW e \in Entry
  PROVE  /\ Replayed(e) \in Entry /\ Replayed(e).good = e.good
         /\ HasQuorum(Replayed(e)) => Cardinality(e.good) >= Quorum
BY VerifiedEntry, ReconstructsGoodQuorums DEF Replayed

\* The runner once the stash is replayed has everything good that is in it.
LEMMA DutyReplayed ==
  ASSUME LiveStash \in [SigningRoots -> Entry], NEW ran \in SlotRunner, NEW bn \in BeaconNode,
         ran.pre = NoSignatures, ran.refused = {}, ran.succeeded => ran.frozen = Nil,
         NEW t, t = Replay(ran, bn)
  PROVE  /\ t \in SlotRunner /\ t.frozen = ran.frozen
         /\ ran.frozen = Nil => t.submitted = ran.submitted
         /\ ran.frozen # Nil =>
              \/ Done(t)
              \/ /\ LiveStash[ran.frozen].good \ t.refused \subseteq t.pre.good
                 /\ ~HasQuorum(t.pre) /\ ~t.succeeded
         /\ \A y \in RequestAuths :
              \/ y \in t.authsDone
              \/ LiveStash[y].good \subseteq t.auths[y].good /\ ~HasQuorum(t.auths[y])
<1> DEFINE auths == RequestAuths \ ran.authsDone
           good(y) == Cardinality(LiveStash[y].good) >= Quorum
           as == [y \in RequestAuths |->
                    IF y \in auths THEN Replayed(LiveStash[y]) ELSE ran.auths[y]]
           complete == {y \in auths : good(y)}
           withAuths == [ran EXCEPT !.auths = as, !.authsDone = @ \cup complete]
           withAll == [withAuths EXCEPT !.pre = Replayed(LiveStash[ran.frozen])]
<1>1. /\ RequestAuths \subseteq SigningRoots /\ Preferences \subseteq SigningRoots
      /\ \A y \in SigningRoots : LiveStash[y] \in Entry
  BY DEF SigningRoots
<1>2. ASSUME NEW y \in RequestAuths
      PROVE  /\ as[y] \in Entry
             /\ y \in ran.authsDone \cup complete
                  \/ (LiveStash[y].good \subseteq as[y].good /\ ~HasQuorum(as[y]))
  <2>1. LiveStash[y] \in Entry /\ ran.auths[y] \in Entry
    BY <1>1 DEF SlotRunner
  <2>2. CASE y \in auths
    BY <2>1, <2>2, ReplayedEntry
  <2>3. CASE y \notin auths
    BY <2>1, <2>3
  <2>4. QED BY <2>2, <2>3
<1>3. as \in [RequestAuths -> Entry] /\ complete \subseteq RequestAuths
  BY <1>2
<1>4. t = CASE ran.succeeded \/ ran.frozen = Nil -> withAuths
            [] ~(ran.succeeded \/ ran.frozen = Nil) /\ bn = "no domain" ->
                 [withAuths EXCEPT !.refused = Signers(LiveStash[ran.frozen])]
            [] OTHER -> IF good(ran.frozen) THEN Submitted(withAll, bn) ELSE withAll
  BY DEF Replay
<1> HIDE DEF as, complete, auths
<1>5. /\ withAuths \in SlotRunner /\ withAuths.auths = as
      /\ withAuths.authsDone = ran.authsDone \cup complete
      /\ withAuths.frozen = ran.frozen /\ withAuths.submitted = ran.submitted
      /\ withAuths.pre = NoSignatures /\ withAuths.succeeded = ran.succeeded
  BY <1>3 DEF SlotRunner
<1> HIDE DEF withAuths
<1>6. CASE ran.succeeded \/ ran.frozen = Nil
  BY <1>2, <1>4, <1>5, <1>6
<1>7. CASE ~(ran.succeeded \/ ran.frozen = Nil)
  <2>1. ran.frozen \in SigningRoots /\ LiveStash[ran.frozen] \in Entry /\ ran.frozen # Nil
    BY <1>1, <1>7 DEF SlotRunner
  <2>2. CASE bn = "no domain"
    <3>1. t = [withAuths EXCEPT !.refused = Signers(LiveStash[ran.frozen])]
      BY <1>4, <1>7, <2>2
    <3>2. LiveStash[ran.frozen].good \subseteq Signers(LiveStash[ran.frozen])
          /\ Signers(LiveStash[ran.frozen]) \subseteq Operators
      BY <2>1 DEF Signers, Entry
    <3>3. /\ t \in SlotRunner /\ t.frozen = ran.frozen /\ t.auths = as
          /\ t.authsDone = ran.authsDone \cup complete /\ t.pre = NoSignatures
          /\ t.succeeded = ran.succeeded /\ t.refused = Signers(LiveStash[ran.frozen])
      BY <1>5, <3>1, <3>2 DEF SlotRunner
    <3>4. QED BY <1>2, <1>7, <3>2, <3>3, NoSignaturesNoQuorum
  <2>3. CASE bn # "no domain"
    <3>1. Replayed(LiveStash[ran.frozen]) \in Entry
      BY <2>1, ReplayedEntry
    <3>2. /\ withAll \in SlotRunner /\ withAll.frozen = ran.frozen /\ withAll.auths = as
          /\ withAll.authsDone = ran.authsDone \cup complete
          /\ withAll.pre = Replayed(LiveStash[ran.frozen]) /\ withAll.succeeded = ran.succeeded
      BY <1>5, <3>1 DEF SlotRunner
    <3>3. t = IF good(ran.frozen) THEN Submitted(withAll, bn) ELSE withAll
      BY <1>4, <1>7, <2>3
    <3> HIDE DEF withAll
    <3>4. CASE good(ran.frozen)
      <4>1. t = [withAll EXCEPT !.submitted = IF bn = "ok" THEN withAll.frozen ELSE @,
                                !.succeeded = (bn = "ok"), !.rejected = (bn # "ok")]
        BY <3>3, <3>4 DEF Submitted
      <4>2. t \in SlotRunner
        BY <3>2, <4>1 DEF SlotRunner
      <4>3. /\ t.frozen = ran.frozen /\ t.auths = as /\ t.authsDone = ran.authsDone \cup complete
            /\ Done(t)
        BY <3>2, <4>1, ZenonT(40) DEF SlotRunner, Done
      <4>4. QED BY <1>2, <2>1, <4>2, <4>3
    <3>5. CASE ~good(ran.frozen)
      <4>1. t = withAll
        BY <3>3, <3>5
      <4>2. /\ Replayed(LiveStash[ran.frozen]).good = LiveStash[ran.frozen].good
            /\ ~HasQuorum(Replayed(LiveStash[ran.frozen]))
        BY <2>1, <3>5, ReplayedEntry
      <4>3. QED BY <1>2, <1>7, <2>1, <3>2, <4>1, <4>2
    <3>6. QED BY <3>4, <3>5
  <2>4. QED BY <2>2, <2>3
<1>8. QED BY <1>6, <1>7

-----------------------------------------------------------------------------
(* Proposer preferences: types.                                            *)

LEMMA PacketOK ==
  ASSUME NEW p \in Packets
  PROVE  /\ p.signer \in Operators /\ p.sigs \in [DOMAIN p.sigs -> BOOLEAN]
         /\ DOMAIN p.sigs \subseteq SigningRoots /\ DOMAIN p.sigs \subseteq RootsOf(p.signer)
         /\ DOMAIN p.sigs \cap Preferences = {} \/ \E r \in Preferences : DOMAIN p.sigs = {r}
BY PreferencesAssumption DEF SigningRoots, RootsOf

LEMMA LiveTypes ==
  ASSUME PreferencesTypeOK
  PROVE  /\ LiveStash \in [SigningRoots -> Entry]
         /\ LiveRunner \in SlotRunner \cup {Nil}
  BY NoSignaturesNoQuorum DEF PreferencesTypeOK, LiveStash, LiveRunner, EmptyStash

LEMMA StashType ==
  ASSUME PreferencesTypeOK, NEW p \in Packets
  PROVE  StashPending(p.signer, p.sigs) \in [SigningRoots -> Entry]
<1>1. LiveStash \in [SigningRoots -> Entry]
  BY LiveTypes
<1>2. ASSUME NEW r \in DOMAIN p.sigs
      PROVE  Store(LiveStash[r], p.signer, p.sigs[r]) \in Entry
  BY <1>1, PacketOK, StoreEntry
<1>3. WithEntries(p.signer, p.sigs) \in [SigningRoots -> Entry]
  BY <1>1, <1>2 DEF WithEntries
<1>4. QED BY <1>1, <1>3 DEF StashPending

\* What a packet makes of a runner.
LEMMA PacketTaken ==
  ASSUME NEW r \in SlotRunner, NEW p \in Packets, NEW bn \in BeaconNode,
         NEW t, t = TakePacket(r, p.signer, p.sigs, bn)
  PROVE  /\ t \in SlotRunner /\ t.frozen = r.frozen
         /\ r.frozen = Nil => t.submitted = r.submitted
<1>1. CASE DOMAIN p.sigs = {}
  <2>1. t = TakePreference(r, p.signer, p.sigs, bn)
    BY <1>1 DEF TakePacket
  <2>2. t = r
    BY <1>1, <2>1 DEF TakePreference
  <2>3. QED BY <2>2
<1>2. ASSUME NEW q \in Preferences, DOMAIN p.sigs = {q}
      PROVE  t \in SlotRunner /\ t.frozen = r.frozen /\ (r.frozen = Nil => t.submitted = r.submitted)
  <2>1. t = TakePreference(r, p.signer, p.sigs, bn) /\ p.sigs \in [{q} -> BOOLEAN]
    BY <1>2, PacketOK DEF TakePacket
  <2>2. QED BY <2>1, PacketOK, PreferenceTaken
<1>3. CASE DOMAIN p.sigs \cap Preferences = {} /\ DOMAIN p.sigs # {}
  <2>1. t = TakeAuths(r, p.signer, p.sigs)
    BY <1>3 DEF TakePacket
  <2>2. QED BY <2>1, PacketOK, AuthsTaken
<1>4. QED BY <1>1, <1>2, <1>3, PacketOK

\* A packet leaves the runner in place as long as the proposal is not past.
LEMMA PacketType ==
  ASSUME PreferencesTypeOK, NEW p \in Packets, NEW bn \in BeaconNode, ProcessPacket(p, bn)
  PROVE  /\ PreferencesTypeOK'
         /\ LiveRunner # Nil =>
              /\ slotRunner' \in SlotRunner /\ slotRunner' = TakePacket(LiveRunner, p.signer, p.sigs, bn)
              /\ slotRunner'.frozen = LiveRunner.frozen
              /\ LiveRunner.frozen = Nil => slotRunner'.submitted = LiveRunner.submitted
<1>1. LiveRunner # Nil =>
        /\ slotRunner' \in SlotRunner /\ slotRunner' = TakePacket(LiveRunner, p.signer, p.sigs, bn)
        /\ slotRunner'.frozen = LiveRunner.frozen
        /\ LiveRunner.frozen = Nil => slotRunner'.submitted = LiveRunner.submitted
  <2>1. LiveRunner # Nil => LiveRunner \in SlotRunner
    BY LiveTypes
  <2>2. LiveRunner # Nil => slotRunner' = TakePacket(LiveRunner, p.signer, p.sigs, bn)
    BY DEF ProcessPacket
  <2>3. QED BY <2>1, <2>2, PacketTaken
<1>2. slotRunner' \in SlotRunner \cup {Nil}
  BY <1>1 DEF ProcessPacket
<1>3. pending' \in [SigningRoots -> Entry]
  BY StashType DEF ProcessPacket
<1>4. {p.signer} \X DOMAIN p.sigs \subseteq Operators \X SigningRoots
  BY PacketOK
<1>5. recorded' \cup heard' \subseteq Operators \X SigningRoots
  BY <1>4 DEF ProcessPacket, PreferencesTypeOK
<1>6. QED
  BY <1>1, <1>2, <1>3, <1>5 DEF ProcessPacket, PreferencesTypeOK, handlerVars, eventVars

\* Starting the duty.
LEMMA DutyType ==
  ASSUME PreferencesTypeOK, NEW built \in BuiltPreferences,
         NEW newAuths \in SUBSET RequestAuths, NEW signs \in BOOLEAN, NEW bn \in BeaconNode,
         StartPreferencesDuty(built, newAuths, signs, bn)
  PROVE  /\ PreferencesTypeOK' /\ slotRunner' # Nil
         /\ built # Nil => \/ slotRunner'.frozen = built
                           \/ slotRunner'.frozen = Nil /\ slotRunner'.submitted = built
         /\ slotRunner'.frozen # Nil =>
              \/ Done(slotRunner')
              \/ /\ LiveStash[slotRunner'.frozen].good \ slotRunner'.refused
                      \subseteq slotRunner'.pre.good
                 /\ ~HasQuorum(slotRunner'.pre) /\ ~slotRunner'.succeeded
         /\ \A y \in RequestAuths :
              \/ y \in slotRunner'.authsDone
              \/ LiveStash[y].good \subseteq slotRunner'.auths[y].good
                   /\ ~HasQuorum(slotRunner'.auths[y])
<1> DEFINE ran == Executed(RequestAuthRound(NewSlotRunner, newAuths), built, signs)
<1>1. /\ slotRunner \in SlotRunner \cup {Nil} /\ chain \in Preferences
      /\ lastRoot \in Preferences \cup {Nil}
  BY DEF PreferencesTypeOK
<1>2. LiveStash \in [SigningRoots -> Entry]
  BY LiveTypes
<1>3. /\ slotRunner' = Replay(ran, bn) /\ pending' = LiveStash
      /\ sent' = sent \cup newAuths \cup ({ran.broadcast} \ {Nil})
  BY DEF StartPreferencesDuty
<1>4. /\ ran \in SlotRunner /\ ran.broadcast \in Preferences \cup {Nil}
      /\ ran.pre = NoSignatures /\ ran.refused = {}
      /\ ran.succeeded => ran.frozen = Nil
      /\ built # Nil => \/ ran.frozen = built
                        \/ ran.frozen = Nil /\ ran.submitted = built
  BY <1>1, DutyExecuted
<1> HIDE DEF ran
<1>5. /\ slotRunner' \in SlotRunner /\ slotRunner'.frozen = ran.frozen
      /\ ran.frozen = Nil => slotRunner'.submitted = ran.submitted
      /\ ran.frozen # Nil =>
           \/ Done(slotRunner')
           \/ /\ LiveStash[ran.frozen].good \ slotRunner'.refused \subseteq slotRunner'.pre.good
              /\ ~HasQuorum(slotRunner'.pre) /\ ~slotRunner'.succeeded
      /\ \A y \in RequestAuths :
           \/ y \in slotRunner'.authsDone
           \/ LiveStash[y].good \subseteq slotRunner'.auths[y].good
                /\ ~HasQuorum(slotRunner'.auths[y])
  BY <1>2, <1>3, <1>4, DutyReplayed
<1>6. slotRunner' # Nil
  BY <1>5, NilAssumption
<1>7. sent' \subseteq SigningRoots
  BY <1>3, <1>4 DEF PreferencesTypeOK, SigningRoots
<1>8. PreferencesTypeOK'
  BY <1>2, <1>3, <1>5, <1>7
  DEF StartPreferencesDuty, PreferencesTypeOK, handlerVars, eventVars
<1>9. QED BY <1>4, <1>5, <1>6, <1>8

\* The types of what the handler keeps, and of what the runner keeps.
HandlerTypes ==
  /\ now \in Slot /\ emitAfterSlot \in Nat /\ queued \in Nat
  /\ ticked \in BOOLEAN /\ member \in BOOLEAN /\ others \in BOOLEAN
  /\ reorged \in BOOLEAN /\ changed \in BOOLEAN /\ astray \in BOOLEAN
  /\ recheck \in BOOLEAN /\ forkRechecked \in BOOLEAN
  /\ chain \in Preferences
  /\ emitted \in {Nil} \cup Preferences /\ lastRoot \in {Nil} \cup Preferences
  /\ reorgs \in 0 .. MaxReorgs /\ changes \in 0 .. MaxChanges

RunnerTypes ==
  /\ slotRunner \in SlotRunner \cup {Nil}
  /\ pending \in [SigningRoots -> Entry]
  /\ sent \subseteq SigningRoots
  /\ recorded \cup heard \subseteq Operators \X SigningRoots

LEMMA SplitTypes == PreferencesTypeOK <=> HandlerTypes /\ RunnerTypes
BY Zenon DEF PreferencesTypeOK, HandlerTypes, RunnerTypes

LEMMA PreferencesTypeInit == PreferencesInit => PreferencesTypeOK
<1> SUFFICES ASSUME PreferencesInit PROVE HandlerTypes /\ RunnerTypes
  BY SplitTypes, Zenon
<1>1. HandlerTypes
  <2>1. /\ now \in Slot /\ emitAfterSlot \in Nat /\ queued \in Nat
        /\ reorgs \in 0 .. MaxReorgs /\ changes \in 0 .. MaxChanges
    BY PreferencesAssumption, SMT DEF PreferencesInit
  <2>2. QED BY <2>1, Zenon DEF PreferencesInit, HandlerTypes
<1>2. RunnerTypes
  BY NoSignaturesNoQuorum DEF PreferencesInit, RunnerTypes, EmptyStash
<1>3. QED BY <1>1, <1>2

LEMMA PreferencesTypeStep == PreferencesTypeOK /\ [PreferencesNext]_preferencesVars => PreferencesTypeOK'
<1> SUFFICES ASSUME PreferencesTypeOK, [PreferencesNext]_preferencesVars PROVE PreferencesTypeOK'
  OBVIOUS
<1> USE ClockAssumption, PreferencesAssumption
<1>1. HandlerTypes /\ RunnerTypes
  BY SplitTypes, Zenon
<1>2. CASE HandlerNext \/ UNCHANGED preferencesVars
  <2> SUFFICES HandlerTypes' /\ RunnerTypes'
    BY Zenon DEF PreferencesTypeOK, HandlerTypes, RunnerTypes
  <2>1. RunnerTypes'
    <3>1. UNCHANGED runnerPrefVars
      BY <1>2 DEF HandlerNext, NextSlot, Reorg, ValidatorsChange, TakeIndicesChange, TakeReorg,
                  EmitForTick, preferencesVars
    <3>2. QED BY <1>1, <3>1 DEF RunnerTypes, runnerPrefVars
  <2>2. CASE NextSlot
    <3>1. now' \in Slot
      BY <1>1, <2>2 DEF NextSlot, Advance, HandlerTypes, Slot
    <3>2. chain' \in Preferences
      BY <1>1, <2>2 DEF NextSlot, HandlerTypes
    <3>3. HandlerTypes'
      BY <1>1, <2>2, <3>1, <3>2 DEF NextSlot, HandlerTypes
    <3>4. QED BY <2>1, <3>3
  <2>3. CASE Reorg
    BY <1>1, <2>1, <2>3 DEF Reorg, HandlerTypes, handlerVars
  <2>4. CASE ValidatorsChange
    BY <1>1, <2>1, <2>4 DEF ValidatorsChange, HandlerTypes, handlerVars
  <2>5. CASE TakeIndicesChange
    <3>1. now + GraceSlots \in Nat
      BY <1>1 DEF HandlerTypes, Slot
    <3>2. HandlerTypes'
      BY <1>1, <2>5, <3>1 DEF TakeIndicesChange, HandlerTypes
    <3>3. QED BY <2>1, <3>2
  <2>6. CASE TakeReorg
    BY <1>1, <2>1, <2>6 DEF TakeReorg, HandlerTypes
  <2>7. CASE EmitForTick
    <3>1. recheck' \in BOOLEAN /\ forkRechecked' \in BOOLEAN
      BY <1>1, <2>7 DEF EmitForTick, EmitForEpoch, KeepRecheck, LooksElsewhere, IsGloas, HandlerTypes
    <3>2. emitted' \in {Nil} \cup Preferences /\ lastRoot' \in {Nil} \cup Preferences
      BY <1>1, <2>7 DEF EmitForTick, EmitForEpoch, HandlerTypes
    <3>3. queued' = queued \/ queued' = queued + 1
      BY <2>7, Zenon DEF EmitForTick, EmitForEpoch, ExecuteDuties
    <3>4. astray' = astray \/ astray' = TRUE
      BY <2>7, Zenon DEF EmitForTick, EmitForEpoch, ExecuteDuties
    <3>5. queued' \in Nat
      BY <1>1, <3>3 DEF HandlerTypes
    <3>6. astray' \in BOOLEAN
      BY <1>1, <3>4, Zenon DEF HandlerTypes
    <3>7. /\ ticked' = TRUE /\ now' = now /\ emitAfterSlot' = emitAfterSlot /\ chain' = chain
          /\ member' = member /\ others' = others /\ reorged' = reorged /\ changed' = changed
          /\ reorgs' = reorgs /\ changes' = changes
      BY <2>7 DEF EmitForTick, eventVars
    <3>8. QED BY <1>1, <2>1, <3>1, <3>2, <3>5, <3>6, <3>7 DEF HandlerTypes
  <2>8. CASE UNCHANGED preferencesVars
    BY <1>1, <2>1, <2>8 DEF preferencesVars, HandlerTypes, handlerVars, eventVars
  <2>9. QED BY <1>2, <2>2, <2>3, <2>4, <2>5, <2>6, <2>7, <2>8 DEF HandlerNext
<1>3. CASE PacketArrives(Packets)
  BY <1>3, PacketType DEF PacketArrives
<1>4. CASE DutyStarts
  BY <1>4, DutyType DEF DutyStarts
<1>5. QED
  BY <1>2, <1>3, <1>4 DEF PreferencesNext

-----------------------------------------------------------------------------
(* Proposer preferences: the handler.                                      *)

\* What was emitted is the chain's, or something is pending that will tell; no
\* tick that comes before the proposal leaves its epoch out once it was
\* emitted.
EmittedIsCurrent ==
  /\ forkRechecked => IsGloas(CurrentEpoch)
  /\ ~(member \/ others) => emitted = Nil \/ changed
  /\ ProposalSlot > now /\ emitted # Nil =>
       /\ EmitsEpoch
       /\ \/ emitted = chain \/ reorged \/ recheck \/ changed
          \/ IsGloas(CurrentEpoch) /\ ~forkRechecked

\* The duty emitted last is in the queue, or with the runner, or went astray.
EmittedIsServed ==
  ProposalSlot > now /\ emitted # Nil /\ member /\ ~changed /\ queued = 0 /\ ~astray =>
    /\ slotRunner # Nil
    /\ \/ slotRunner.frozen = emitted
       \/ slotRunner.frozen = Nil /\ slotRunner.submitted = emitted

LEMMA EpochType ==
  ASSUME NEW s \in Nat PROVE Epoch(s) \in Nat
<1>1. ASSUME NEW S \in Nat \ {0}, NEW n \in Nat PROVE n \div S \in Nat
  BY <1>1
<1> QED BY <1>1, ClockAssumption DEF Epoch

LEMMA EpochGrows ==
  ASSUME NEW s \in Nat, NEW t \in Nat, s <= t PROVE Epoch(s) <= Epoch(t)
<1>1. ASSUME NEW S \in Nat \ {0}, NEW m \in Nat, NEW n \in Nat, m <= n
      PROVE  m \div S <= n \div S
  BY <1>1
<1> QED BY <1>1, ClockAssumption DEF Epoch

LEMMA EpochOfNextSlot ==
  ASSUME NEW s \in Nat
  PROVE  /\ Epoch(s + 1) \in {Epoch(s), Epoch(s) + 1}
         /\ Epoch(s + 1) = Epoch(s) => (s + 1) % SlotsPerEpoch = (s % SlotsPerEpoch) + 1
<1>1. ASSUME NEW S \in Nat \ {0}, NEW n \in Nat
      PROVE  (n + 1) \div S \in {n \div S, n \div S + 1}
  OBVIOUS
<1>2. ASSUME NEW S \in Nat \ {0}, NEW n \in Nat
      PROVE  (n + 1) \div S = n \div S => (n + 1) % S = (n % S) + 1
  BY SMTT(40)
<1> QED BY <1>1, <1>2, ClockAssumption DEF Epoch

\* An epoch that is emitted in a slot is emitted in every later one, up to the
\* proposal.
LEMMA EmitsOn ==
  ASSUME now \in Slot, Advance, EmitsEpoch, ProposalSlot > now'
  PROVE  EmitsEpoch'
<1> DEFINE c == CurrentEpoch  d == Epoch(now + 1)  e == Epoch(ProposalSlot)
<1>1. now \in Nat /\ now' = now + 1 /\ now + 1 \in Nat /\ ProposalSlot \in Nat /\ ForkEpoch \in Nat
  BY ClockAssumption, PreferencesAssumption DEF Slot, Advance
<1>2. c \in Nat /\ d \in Nat /\ e \in Nat /\ d \in {c, c + 1} /\ d <= e /\ CurrentEpoch' = d
  BY <1>1, EpochType, EpochGrows, EpochOfNextSlot DEF CurrentEpoch
<1>3. /\ IsGloas(CurrentEpoch) <=> c >= ForkEpoch
      /\ IsGloas(CurrentEpoch)' <=> d >= ForkEpoch
  BY <1>2 DEF IsGloas
<1>4. EmitsEpoch <=> \/ e = c /\ c >= ForkEpoch
                     \/ /\ e = c + 1 /\ ShouldFetchNextEpoch
                        /\ c >= ForkEpoch \/ c + 1 = ForkEpoch
  BY <1>3 DEF EmitsEpoch
<1>5. EmitsEpoch' <=> \/ e = d /\ d >= ForkEpoch
                      \/ /\ e = d + 1 /\ ShouldFetchNextEpoch'
                         /\ d >= ForkEpoch \/ d + 1 = ForkEpoch
  BY <1>2, <1>3 DEF EmitsEpoch
<1>6. d = c /\ ShouldFetchNextEpoch => ShouldFetchNextEpoch'
  <2>1. d = c => (now + 1) % SlotsPerEpoch = (now % SlotsPerEpoch) + 1
    BY <1>1, EpochOfNextSlot DEF CurrentEpoch
  <2>2. ASSUME NEW S \in Nat \ {0} PROVE S \div 2 \in Nat /\ now % S \in Nat
    BY <1>1, <2>2
  <2>3. QED BY <1>1, <2>1, <2>2, ClockAssumption DEF ShouldFetchNextEpoch
<1> HIDE DEF c, d, e
<1>7. QED BY <1>1, <1>2, <1>4, <1>5, <1>6

LEMMA CurrentInit == PreferencesInit => EmittedIsCurrent /\ EmittedIsServed
BY DEF PreferencesInit, EmittedIsCurrent, EmittedIsServed

\* A tick: a recheck that is due is carried out, or stays due.
LEMMA CurrentTick ==
  ASSUME PreferencesTypeOK, EmittedIsCurrent, EmitForTick
  PROVE  EmittedIsCurrent'
<1> DEFINE gloas == IsGloas(CurrentEpoch)
           again == recheck \/ (gloas /\ ~forkRechecked)
<1>1. /\ UNCHANGED <<now, chain, member, others, reorged, changed>>
      /\ UNCHANGED <<CurrentEpoch, EmitsEpoch>> /\ gloas' = gloas
  BY DEF EmitForTick, eventVars, CurrentEpoch, EmitsEpoch, IsGloas, ShouldFetchNextEpoch
<1>2. (forkRechecked => gloas) /\ (~(member \/ others) => emitted = Nil \/ changed)
  BY DEF EmittedIsCurrent
<1>3. ProposalSlot > now /\ emitted # Nil =>
        /\ EmitsEpoch
        /\ emitted = chain \/ reorged \/ recheck \/ changed \/ (gloas /\ ~forkRechecked)
  BY DEF EmittedIsCurrent
<1>4. CASE now < emitAfterSlot
  <2>1. UNCHANGED <<emitted, recheck, forkRechecked>>
    <3>1. ~(now >= emitAfterSlot)
      BY <1>4, ClockAssumption DEF PreferencesTypeOK, Slot
    <3>2. QED BY <3>1, Zenon DEF EmitForTick
  <2>2. QED BY <1>1, <1>2, <1>3, <2>1 DEF EmittedIsCurrent
<1>5. CASE ~(now < emitAfterSlot)
  <2>1. PICK rest \in {FALSE, again /\ LooksElsewhere} :
          \/ EmitsEpoch /\ EmitForEpoch(again, rest)
          \/ ~EmitsEpoch /\ recheck' = rest /\ UNCHANGED <<emitted, lastRoot, queued, astray>>
    BY <1>5 DEF EmitForTick
  <2>2. forkRechecked' = (forkRechecked \/ gloas)
    BY <1>5 DEF EmitForTick
  <2>3. forkRechecked' => gloas'
    BY <1>1, <1>2, <2>2
  <2>4. CASE ~EmitsEpoch
    <3>1. emitted' = emitted
      BY <2>1, <2>4
    <3>2. QED BY <1>1, <1>2, <1>3, <2>3, <2>4, <3>1 DEF EmittedIsCurrent
  <2>5. CASE EmitsEpoch /\ EmitForEpoch(again, rest)
    <3>1. CASE ~(member \/ others)
      <4>1. emitted' = emitted
        BY <2>5, <3>1 DEF EmitForEpoch
      <4>2. QED BY <1>1, <1>2, <1>3, <2>3, <2>5, <3>1, <4>1 DEF EmittedIsCurrent
    <3>2. CASE emitted # Nil /\ ~again /\ (member \/ others)
      <4>1. emitted' = emitted
        BY <2>5, <3>2 DEF EmitForEpoch
      <4>2. QED BY <1>1, <1>3, <2>3, <2>5, <3>2, <4>1 DEF EmittedIsCurrent
    <3>3. CASE (emitted = Nil \/ again) /\ (member \/ others)
      <4>1. emitted' = chain \/ (emitted' = emitted /\ recheck' = again)
        BY <2>5, <3>3 DEF EmitForEpoch, KeepRecheck
      <4>2. emitted' = chain \/ (emitted' = emitted /\ (emitted = Nil \/ recheck'))
        BY <3>3, <4>1
      <4>3. QED BY <1>1, <1>2, <2>3, <2>5, <3>3, <4>2 DEF EmittedIsCurrent
    <3>4. QED BY <3>1, <3>2, <3>3
  <2>6. QED BY <2>1, <2>4, <2>5
<1>6. QED BY <1>4, <1>5

LEMMA CurrentStep ==
  ASSUME PreferencesTypeOK, EmittedIsCurrent, [PreferencesNext]_preferencesVars
  PROVE  EmittedIsCurrent'
<1>1. CASE NextSlot
  <2>1. now \in Nat /\ now' = now + 1 /\ now \in Slot /\ Advance /\ ProposalSlot \in Nat
    BY <1>1, ClockAssumption, PreferencesAssumption DEF NextSlot, Advance, PreferencesTypeOK, Slot
  <2>2. ProposalSlot > now' => ProposalSlot > now
    BY <2>1
  <2>3. IsGloas(CurrentEpoch) => IsGloas(CurrentEpoch)'
    <3>1. CurrentEpoch \in Nat /\ CurrentEpoch' \in Nat /\ CurrentEpoch <= CurrentEpoch'
      BY <2>1, EpochType, EpochGrows DEF CurrentEpoch
    <3>2. QED BY <3>1, PreferencesAssumption DEF IsGloas
  <2>4. /\ UNCHANGED <<member, others, changed, reorged, recheck, emitted, forkRechecked>>
        /\ chain' = chain \/ (~IsGloas(CurrentEpoch) /\ IsGloas(CurrentEpoch)')
    BY <1>1 DEF NextSlot, CurrentEpoch
  <2>5. ProposalSlot > now' /\ EmitsEpoch => EmitsEpoch'
    BY <2>1, EmitsOn
  <2>6. QED BY <2>2, <2>3, <2>4, <2>5 DEF EmittedIsCurrent
<1>2. ASSUME UNCHANGED <<now, forkRechecked>> PROVE UNCHANGED <<CurrentEpoch, EmitsEpoch>> /\ IsGloas(CurrentEpoch)' = IsGloas(CurrentEpoch)
  BY <1>2 DEF CurrentEpoch, EmitsEpoch, IsGloas, ShouldFetchNextEpoch
<1>3. CASE Reorg \/ TakeReorg
  <2>1. /\ UNCHANGED <<now, forkRechecked, member, others, changed, emitted>>
        /\ reorged' \/ recheck'
    BY <1>3 DEF Reorg, TakeReorg, handlerVars
  <2>2. QED BY <1>2, <2>1 DEF EmittedIsCurrent
<1>4. CASE ValidatorsChange
  <2>1. UNCHANGED <<now, forkRechecked, emitted>> /\ changed'
    BY <1>4 DEF ValidatorsChange, handlerVars
  <2>2. QED BY <1>2, <2>1 DEF EmittedIsCurrent
<1>5. CASE TakeIndicesChange
  <2>1. UNCHANGED <<now, forkRechecked>> /\ emitted' = Nil
    BY <1>5 DEF TakeIndicesChange
  <2>2. QED BY <1>2, <2>1 DEF EmittedIsCurrent
<1>6. CASE PacketArrives(Packets) \/ DutyStarts \/ UNCHANGED preferencesVars
  <2>1. UNCHANGED <<now, handlerVars, eventVars>>
    BY <1>6 DEF PacketArrives, ProcessPacket, DutyStarts, StartPreferencesDuty, preferencesVars
  <2>2. UNCHANGED <<now, forkRechecked, member, others, changed, reorged, recheck, emitted, chain>>
    BY <2>1 DEF handlerVars, eventVars
  <2>3. QED BY <1>2, <2>2 DEF EmittedIsCurrent
<1>7. QED
  BY <1>1, <1>3, <1>4, <1>5, <1>6, CurrentTick DEF PreferencesNext, HandlerNext

LEMMA ServedStep ==
  ASSUME PreferencesTypeOK, EmittedIsServed, [PreferencesNext]_preferencesVars
  PROVE  EmittedIsServed'
<1>1. CASE NextSlot \/ Reorg \/ TakeReorg \/ UNCHANGED preferencesVars
  <2>1. UNCHANGED <<emitted, member, changed, queued, astray, slotRunner>> /\ now' \in {now, now + 1}
    BY <1>1 DEF NextSlot, Advance, Reorg, TakeReorg, preferencesVars, handlerVars, eventVars,
                runnerPrefVars
  <2>2. ProposalSlot > now' => ProposalSlot > now
    BY <2>1, PreferencesAssumption DEF PreferencesTypeOK, Slot
  <2>3. QED BY <2>1, <2>2 DEF EmittedIsServed
<1>2. CASE ValidatorsChange
  BY <1>2 DEF ValidatorsChange, EmittedIsServed
<1>3. CASE TakeIndicesChange
  BY <1>3 DEF TakeIndicesChange, EmittedIsServed
<1>4. CASE EmitForTick
  <2>1. /\ UNCHANGED <<now, member, changed, slotRunner>>
    BY <1>4 DEF EmitForTick, eventVars, runnerPrefVars
  <2>2. \/ UNCHANGED <<emitted, queued, astray>>
        \/ \E pushed \in BOOLEAN : ExecuteDuties(pushed)
    BY <1>4 DEF EmitForTick, EmitForEpoch
  <2>3. CASE UNCHANGED <<emitted, queued, astray>>
    BY <2>1, <2>3 DEF EmittedIsServed
  <2>4. CASE \E pushed \in BOOLEAN : ExecuteDuties(pushed)
    <3>1. member /\ ProposalSlot > now => queued' = queued + 1 \/ astray'
      BY <2>4 DEF ExecuteDuties
    <3>2. queued + 1 # 0
      BY DEF PreferencesTypeOK
    <3>3. QED BY <2>1, <3>1, <3>2 DEF EmittedIsServed
  <2>5. QED BY <2>2, <2>3, <2>4
<1>5. ASSUME NEW p \in Packets, NEW bn \in BeaconNode, ProcessPacket(p, bn)
      PROVE  EmittedIsServed'
  <2>1. UNCHANGED <<now, emitted, member, changed, queued, astray>>
    BY <1>5 DEF ProcessPacket, handlerVars, eventVars
  <2>2. ProposalSlot > now => LiveRunner = slotRunner
    BY PreferencesAssumption DEF LiveRunner, PreferencesTypeOK, Slot
  <2>3. ProposalSlot > now /\ slotRunner # Nil =>
          /\ slotRunner' # Nil
          /\ slotRunner'.frozen = slotRunner.frozen
          /\ slotRunner.frozen = Nil => slotRunner'.submitted = slotRunner.submitted
    BY <1>5, <2>2, PacketType, NilAssumption
  <2>4. QED BY <2>1, <2>3 DEF EmittedIsServed
<1>6. ASSUME NEW built \in BuiltPreferences, NEW newAuths \in SUBSET RequestAuths,
             NEW signs \in BOOLEAN, NEW bn \in BeaconNode,
             StartPreferencesDuty(built, newAuths, signs, bn)
      PROVE  EmittedIsServed'
  <2>1. emitted' = emitted /\ astray' = (built # emitted)
    BY <1>6 DEF StartPreferencesDuty, handlerVars
  <2>2. /\ slotRunner' # Nil
        /\ built # Nil => \/ slotRunner'.frozen = built
                          \/ slotRunner'.frozen = Nil /\ slotRunner'.submitted = built
    BY <1>6, DutyType
  <2>3. QED BY <2>1, <2>2 DEF EmittedIsServed
<1>7. QED
  BY <1>1, <1>2, <1>3, <1>4, <1>5, <1>6 DEF PreferencesNext, HandlerNext, PacketArrives, DutyStarts

\* Reorgs, changes of the validators, the fork and failing requests may come in
\* any order: once nothing is pending, the runner serves the preference of the
\* chain's root, but for a duty that went astray (HandleDuties and emitForTick
\* of proposer_preferences.go).
THEOREM PreferencesAreServed == PreferencesSpec => []LatestPreferenceIsServed
<1>1. PreferencesTypeOK /\ EmittedIsCurrent /\ EmittedIsServed /\ [PreferencesNext]_preferencesVars
      => PreferencesTypeOK' /\ EmittedIsCurrent' /\ EmittedIsServed'
  BY PreferencesTypeStep, CurrentStep, ServedStep
<1>2. EmittedIsCurrent /\ EmittedIsServed => LatestPreferenceIsServed
  BY DEF EmittedIsCurrent, EmittedIsServed, LatestPreferenceIsServed, NothingPending
<1>3. QED BY <1>1, <1>2, PreferencesTypeInit, CurrentInit, PTL DEF PreferencesSpec

-----------------------------------------------------------------------------
(* Proposer preferences: the stash has room.                               *)

\* The keys that message validation may let through.
Budget == {k \in Operators \X SigningRoots : k[2] \in RootsOf(k[1])}

\* A finite set can be numbered.
LEMMA Numbering ==
  ASSUME NEW S, IsFiniteSet(S), NEW M \in Nat, Cardinality(S) <= M
  PROVE  \E g \in [S -> 1 .. M] : \A u, v \in S : g[u] = g[v] => u = v
<1> DEFINE n == Cardinality(S)
<1>1. n \in Nat /\ ExistsBijection(1 .. n, S)
  BY FS_CardinalityType
<1>2. PICK f \in Bijection(1 .. n, S) : TRUE
  BY <1>1 DEF ExistsBijection
<1>3. f \in [1 .. n -> S] /\ \A u \in S : \E i \in 1 .. n : f[i] = u
  BY <1>2 DEF Bijection, Injection, Surjection
<1> DEFINE g == [u \in S |-> CHOOSE i \in 1 .. n : f[i] = u]
<1>4. \A u \in S : g[u] \in 1 .. n /\ f[g[u]] = u
  BY <1>3
<1>5. 1 .. n \subseteq 1 .. M
  BY <1>1
<1>6. g \in [S -> 1 .. M]
  BY <1>4, <1>5
<1>7. \A u, v \in S : g[u] = g[v] => u = v
  BY <1>4
<1>8. QED BY <1>6, <1>7

\* The budgets of all signers together.
LEMMA BudgetBound ==
  /\ IsFiniteSet(Budget) /\ Cardinality(Budget) \in Nat
  /\ Cardinality(Budget) <= Cardinality(Operators) * MaxPendingRoots
<1> DEFINE M == MaxPendingRoots
           Numbers(o) == {g \in [RootsOf(o) -> 1 .. M] : \A u, v \in RootsOf(o) : g[u] = g[v] => u = v}
           num == [o \in Operators |-> CHOOSE g \in Numbers(o) : TRUE]
           h == [k \in Budget |-> <<k[1], num[k[1]][k[2]]>>]
<1>1. M \in Nat /\ \A o \in Operators : IsFiniteSet(RootsOf(o)) /\ Cardinality(RootsOf(o)) <= M
  BY PreferencesAssumption
<1>2. \A o \in Operators : Numbers(o) # {}
  BY <1>1, Numbering
<1>3. \A o \in Operators : num[o] \in Numbers(o)
  BY <1>2
<1>4. \A o \in Operators : /\ \A u \in RootsOf(o) : num[o][u] \in 1 .. M
                           /\ \A u, v \in RootsOf(o) : num[o][u] = num[o][v] => u = v
  BY <1>3
<1> HIDE DEF num, M
<1>5. \A k \in Budget : k[1] \in Operators /\ k[2] \in RootsOf(k[1]) /\ k = <<k[1], k[2]>>
  BY DEF Budget
<1>6. h \in [Budget -> Operators \X (1 .. M)]
  BY <1>4, <1>5
<1>7. ASSUME NEW k \in Budget, NEW l \in Budget, h[k] = h[l] PROVE k = l
  <2>1. k[1] = l[1] /\ num[k[1]][k[2]] = num[l[1]][l[2]]
    BY <1>7
  <2>2. k[2] = l[2]
    BY <1>4, <1>5, <2>1
  <2>3. QED BY <1>5, <2>1, <2>2
<1>8. h \in Injection(Budget, Operators \X (1 .. M))
  BY <1>6, <1>7 DEF Injection, IsInjective
<1>9. IsFiniteSet(1 .. M) /\ Cardinality(1 .. M) = M
  BY <1>1, FS_Interval
<1>10. /\ IsFiniteSet(Operators \X (1 .. M))
       /\ Cardinality(Operators \X (1 .. M)) = Cardinality(Operators) * M
  BY <1>9, QuorumAssumption, FS_Product
<1> HIDE DEF h
<1>11. IsFiniteSet(Budget) /\ Cardinality(Budget) <= Cardinality(Operators \X (1 .. M))
  BY <1>8, <1>10, FS_Injection
<1>12. QED BY <1>10, <1>11, FS_CardinalityType DEF M

\* What is stashed was let through, and is complete: the good signatures that
\* came in time are in it.
StashIsFull ==
  /\ recorded \subseteq Budget
  /\ \A r \in SigningRoots : \A o \in Signers(pending[r]) : <<o, r>> \in recorded
  /\ ProposalSlot >= now => \A r \in SigningRoots : SignersHeard(r) \subseteq pending[r].good

LEMMA AlwaysRoom ==
  ASSUME PreferencesTypeOK, StashIsFull, NEW o \in Operators,
         NEW new \in SUBSET RootsOf(o), new \subseteq SigningRoots,
         \A r \in new : o \notin Signers(LiveStash[r])
  PROVE  HasRoom(new)
<1> DEFINE A == {k \in Operators \X SigningRoots : k[1] \in Signers(LiveStash[k[2]])}
           B == {o} \X new
<1>1. \A r \in SigningRoots : \A q \in Signers(LiveStash[r]) : <<q, r>> \in Budget
  BY DEF LiveStash, EmptyStash, NoSignatures, Signers, StashIsFull
<1>2. A \subseteq Budget
  BY <1>1
<1>3. B \subseteq Budget
  BY DEF Budget
<1>4. A \cap B = {}
  OBVIOUS
<1>5. /\ IsFiniteSet(A) /\ IsFiniteSet(B) /\ Cardinality(A) \in Nat /\ Cardinality(B) \in Nat
      /\ IsFiniteSet(A \cup B) /\ Cardinality(A \cup B) <= Cardinality(Budget)
      /\ Cardinality(A \cup B) \in Nat
  <2>1. A \cup B \subseteq Budget
    BY <1>2, <1>3
  <2> HIDE DEF A, B
  <2>2. QED BY <1>2, <1>3, <2>1, BudgetBound, FS_Subset, FS_CardinalityType
<1>6. IsFiniteSet(new)
  BY PreferencesAssumption, FS_Subset
<1>7. Cardinality(B) = Cardinality(new)
  <2>1. IsFiniteSet({o}) /\ Cardinality({o}) = 1
    BY FS_Singleton
  <2>2. Cardinality({o} \X new) = Cardinality({o}) * Cardinality(new)
    BY <1>6, <2>1, FS_Product
  <2>3. QED BY <1>6, <2>1, <2>2, FS_CardinalityType
<1>8. Cardinality(A) + Cardinality(new) <= Cardinality(Budget)
  <2>1. Cardinality(A \cup B) = Cardinality(A) + Cardinality(B) - Cardinality(A \cap B)
    BY <1>5, FS_Union
  <2>2. Cardinality(A \cap B) = 0
    BY <1>4, FS_EmptySet
  <2> HIDE DEF A, B
  <2>3. QED BY <1>5, <1>7, <2>1, <2>2, BudgetBound
<1>9. Cardinality(A) + Cardinality(new) <= Cardinality(Operators) * MaxPendingRoots
  <2>1. Cardinality(Operators) * MaxPendingRoots \in Nat
    BY QuorumAssumption, PreferencesAssumption, FS_CardinalityType
  <2> HIDE DEF A
  <2>2. Cardinality(new) \in Nat
    BY <1>6, FS_CardinalityType
  <2>3. QED BY <1>5, <1>8, <2>1, <2>2, BudgetBound
<1>10. QED BY <1>9 DEF HasRoom

\* A signature that is stored adds its signer, and is in if it is good.
LEMMA StoreSigner ==
  ASSUME NEW e \in Entry, NEW o \in Operators, NEW isGood \in BOOLEAN
  PROVE  /\ Signers(Store(e, o, isGood)) \subseteq Signers(e) \cup {o}
         /\ isGood => o \in Store(e, o, isGood).good
<1>1. CASE o \in e.good
  BY <1>1 DEF Store, Entry, Signers
<1>2. CASE o \notin e.good /\ isGood
  BY <1>2 DEF Store, Entry, Signers
<1>3. CASE o \notin Signers(e) /\ ~isGood
  BY <1>3 DEF Store, Entry, Signers
<1>4. CASE o \in e.bad /\ ~isGood
  BY <1>4 DEF Store, Entry, Signers
<1>5. QED BY <1>1, <1>2, <1>3, <1>4 DEF Signers

\* What a packet adds to the stash.
LEMMA PacketStashed ==
  ASSUME PreferencesTypeOK, StashIsFull, NEW p \in Packets, NEW r \in SigningRoots,
         NEW stash, stash = StashPending(p.signer, p.sigs)
  PROVE  /\ LiveStash[r].good \subseteq stash[r].good
         /\ Signers(stash[r]) \subseteq
              Signers(LiveStash[r]) \cup (IF r \in DOMAIN p.sigs THEN {p.signer} ELSE {})
         /\ InLookahead /\ r \in DOMAIN p.sigs /\ p.signer \notin Signers(LiveStash[r]) /\ p.sigs[r]
              => p.signer \in stash[r].good
<1> DEFINE o == p.signer
           new == {x \in DOMAIN p.sigs : o \notin Signers(LiveStash[x])}
<1>1. LiveStash \in [SigningRoots -> Entry] /\ LiveStash[r] \in Entry
  BY LiveTypes
<1>2. CASE ~InLookahead
  BY <1>2 DEF StashPending
<1>3. CASE InLookahead
  <2>1. HasRoom(new)
    BY PacketOK, AlwaysRoom
  <2>2. stash = [x \in SigningRoots |->
                   IF x \in new THEN Store(LiveStash[x], o, p.sigs[x]) ELSE LiveStash[x]]
    BY <1>3, <2>1 DEF StashPending, WithEntries
  <2>3. CASE r \in new
    <3>1. p.sigs[r] \in BOOLEAN /\ o \in Operators
      BY <2>3, PacketOK
    <3>2. stash[r] = Store(LiveStash[r], o, p.sigs[r]) /\ r \in DOMAIN p.sigs
      BY <2>2, <2>3
    <3>3. QED BY <1>1, <3>1, <3>2, StoreEntry, StoreSigner
  <2>4. CASE r \notin new
    BY <2>2, <2>4
  <2>5. QED BY <2>3, <2>4
<1>4. QED BY <1>2, <1>3

\* The handler and the world leave the runner alone, and time goes on.
LEMMA HandlerLeavesRunner ==
  ASSUME PreferencesTypeOK, HandlerNext \/ UNCHANGED preferencesVars
  PROVE  /\ UNCHANGED <<slotRunner, pending, recorded, heard>>
         /\ ProposalSlot >= now' => ProposalSlot >= now
<1>1. UNCHANGED runnerPrefVars /\ now' \in {now, now + 1}
  BY DEF HandlerNext, NextSlot, Advance, Reorg, ValidatorsChange, TakeIndicesChange, TakeReorg,
         EmitForTick, preferencesVars
<1>2. now \in Nat /\ ProposalSlot \in Nat
  BY PreferencesAssumption DEF PreferencesTypeOK, Slot
<1>3. QED BY <1>1, <1>2 DEF runnerPrefVars

LEMMA LiveWhileNotPast ==
  ASSUME PreferencesTypeOK, ProposalSlot >= now
  PROVE  LiveStash = pending /\ LiveRunner = slotRunner
BY PreferencesAssumption DEF PreferencesTypeOK, Slot, LiveStash, LiveRunner

LEMMA StashedIsRecorded ==
  ASSUME StashIsFull, NEW r \in SigningRoots, NEW o \in Signers(LiveStash[r])
  PROVE  <<o, r>> \in recorded
BY DEF LiveStash, EmptyStash, NoSignatures, Signers, StashIsFull

\* The signers that were heard once a step is taken.
HeardAfter(root) == {o \in Operators : <<o, root>> \in heard'}

\* What a packet adds to them.
LEMMA PacketHeard ==
  ASSUME NEW p \in Packets, NEW bn \in BeaconNode, ProcessPacket(p, bn),
         NEW r, NEW o \in HeardAfter(r)
  PROVE  \/ o \in SignersHeard(r)
         \/ /\ o = p.signer /\ r \in DOMAIN p.sigs /\ p.sigs[r]
            /\ InLookahead /\ <<o, r>> \notin recorded
<1>1. <<o, r>> \in heard' /\ o \in Operators
  BY DEF HeardAfter
<1>2. CASE <<o, r>> \in heard
  BY <1>1, <1>2 DEF SignersHeard
<1>3. CASE <<o, r>> \notin heard
  <2>1. <<o, r>> \in {k \in {p.signer} \X DOMAIN p.sigs :
                        InLookahead /\ p.sigs[k[2]] /\ k \notin recorded}
    BY <1>1, <1>3 DEF ProcessPacket
  <2>2. QED BY <2>1
<1>4. QED BY <1>2, <1>3

LEMMA StashStep ==
  ASSUME PreferencesTypeOK, StashIsFull, [PreferencesNext]_preferencesVars
  PROVE  StashIsFull'
<1>1. CASE HandlerNext \/ UNCHANGED preferencesVars
  BY <1>1, HandlerLeavesRunner DEF StashIsFull, SignersHeard
<1>2. ASSUME NEW p \in Packets, NEW bn \in BeaconNode, ProcessPacket(p, bn)
      PROVE  StashIsFull'
  <2>1. /\ recorded' = recorded \cup ({p.signer} \X DOMAIN p.sigs)
        /\ pending' = StashPending(p.signer, p.sigs) /\ now' = now
    BY <1>2 DEF ProcessPacket
  <2>2. recorded' \subseteq Budget
    BY <2>1, PacketOK DEF StashIsFull, Budget
  <2>3. ASSUME NEW r \in SigningRoots, NEW o \in Signers(pending'[r])
        PROVE  <<o, r>> \in recorded'
    <3>1. Signers(pending'[r]) \subseteq
            Signers(LiveStash[r]) \cup (IF r \in DOMAIN p.sigs THEN {p.signer} ELSE {})
      BY <2>1, PacketStashed
    <3>2. o \in Signers(LiveStash[r]) => <<o, r>> \in recorded
      BY StashedIsRecorded
    <3>3. QED BY <2>1, <2>3, <3>1, <3>2
  <2>4. ASSUME ProposalSlot >= now, NEW r \in SigningRoots, NEW o \in HeardAfter(r)
        PROVE  o \in pending'[r].good
    <3>1. LiveStash = pending
      BY <2>4, LiveWhileNotPast
    <3>2. CASE o \in SignersHeard(r)
      <4>1. o \in LiveStash[r].good
        BY <2>4, <3>1, <3>2 DEF StashIsFull
      <4>2. QED BY <2>1, <4>1, PacketStashed
    <3>3. CASE o \notin SignersHeard(r)
      <4>1. /\ o = p.signer /\ r \in DOMAIN p.sigs /\ p.sigs[r]
            /\ InLookahead /\ <<o, r>> \notin recorded
        BY <1>2, <2>4, <3>3, PacketHeard
      <4>2. o \notin Signers(LiveStash[r])
        BY <4>1, StashedIsRecorded
      <4>3. QED BY <2>1, <4>1, <4>2, PacketStashed
    <3>4. QED BY <3>2, <3>3
  <2>5. QED BY <2>1, <2>2, <2>3, <2>4 DEF StashIsFull, HeardAfter, SignersHeard
<1>3. CASE DutyStarts
  <2>1. pending' = LiveStash /\ UNCHANGED <<now, recorded, heard>>
    BY <1>3 DEF DutyStarts, StartPreferencesDuty
  <2>2. \A r \in SigningRoots : \A o \in Signers(LiveStash[r]) : <<o, r>> \in recorded
    BY StashedIsRecorded
  <2>3. QED BY <2>1, <2>2, LiveWhileNotPast DEF StashIsFull, SignersHeard
<1>4. QED BY <1>1, <1>2, <1>3 DEF PreferencesNext, PacketArrives

-----------------------------------------------------------------------------
(* Proposer preferences: the runner has what was heard.                    *)

\* A runner has every good signature that came in time, whether it came before
\* the duty started or after, and has no quorum it did not act on.
RunnerHeardAll ==
  slotRunner # Nil /\ ProposalSlot >= now =>
    /\ slotRunner.frozen # Nil =>
         \/ Done(slotRunner)
         \/ /\ SignersHeard(slotRunner.frozen) \ slotRunner.refused \subseteq slotRunner.pre.good
            /\ ~HasQuorum(slotRunner.pre) /\ ~slotRunner.succeeded
    /\ \A y \in RequestAuths :
         \/ y \in slotRunner.authsDone
         \/ SignersHeard(y) \subseteq slotRunner.auths[y].good /\ ~HasQuorum(slotRunner.auths[y])

LEMMA HeardAllPacket ==
  ASSUME PreferencesTypeOK, RunnerHeardAll, NEW p \in Packets, NEW bn \in BeaconNode,
         ProcessPacket(p, bn)
  PROVE  RunnerHeardAll'
<1> SUFFICES ASSUME slotRunner' # Nil, ProposalSlot >= now
             PROVE  /\ slotRunner'.frozen # Nil =>
                         \/ Done(slotRunner')
                         \/ /\ HeardAfter(slotRunner'.frozen) \ slotRunner'.refused
                                 \subseteq slotRunner'.pre.good
                            /\ ~HasQuorum(slotRunner'.pre) /\ ~slotRunner'.succeeded
                    /\ \A y \in RequestAuths :
                         \/ y \in slotRunner'.authsDone
                         \/ /\ HeardAfter(y) \subseteq slotRunner'.auths[y].good
                            /\ ~HasQuorum(slotRunner'.auths[y])
  BY DEF RunnerHeardAll, ProcessPacket, SignersHeard, HeardAfter, Done
<1> DEFINE r == slotRunner  t == slotRunner'  o == p.signer
<1>1. /\ LiveRunner = r /\ r # Nil /\ r \in SlotRunner
      /\ t = TakePacket(r, o, p.sigs, bn)
  BY LiveWhileNotPast DEF ProcessPacket, PreferencesTypeOK
<1>2. /\ r.frozen # Nil =>
           \/ Done(r)
           \/ /\ SignersHeard(r.frozen) \ r.refused \subseteq r.pre.good
              /\ ~HasQuorum(r.pre) /\ ~r.succeeded
      /\ \A y \in RequestAuths :
           \/ y \in r.authsDone
           \/ SignersHeard(y) \subseteq r.auths[y].good /\ ~HasQuorum(r.auths[y])
  BY <1>1 DEF RunnerHeardAll
<1>3. ASSUME NEW x, NEW s \in HeardAfter(x)
      PROVE  s \in SignersHeard(x) \/ (s = o /\ x \in DOMAIN p.sigs /\ p.sigs[x])
  BY <1>3, PacketHeard
<1>4. DOMAIN p.sigs # {}
  BY DEF ProcessPacket
<1>5. ASSUME NEW q \in Preferences, DOMAIN p.sigs = {q}
      PROVE  /\ t.frozen # Nil =>
                  \/ Done(t)
                  \/ /\ HeardAfter(t.frozen) \ t.refused \subseteq t.pre.good
                     /\ ~HasQuorum(t.pre) /\ ~t.succeeded
             /\ \A y \in RequestAuths :
                  \/ y \in t.authsDone
                  \/ HeardAfter(y) \subseteq t.auths[y].good /\ ~HasQuorum(t.auths[y])
  <2>1. t = TakePreference(r, o, p.sigs, bn) /\ p.sigs \in [{q} -> BOOLEAN] /\ o \in Operators
    BY <1>1, <1>5, PacketOK DEF TakePacket
  <2>2. /\ t.frozen = r.frozen /\ t.auths = r.auths /\ t.authsDone = r.authsDone
        /\ Done(r) => Done(t)
        /\ ~HasQuorum(r.pre) /\ ~r.succeeded /\ ~Done(t) =>
             /\ ~HasQuorum(t.pre) /\ ~t.succeeded
             /\ r.pre.good \subseteq t.pre.good /\ r.refused \subseteq t.refused
             /\ r.frozen = q /\ p.sigs[q] => o \in t.pre.good \cup t.refused
    BY <1>1, <2>1, PreferenceTaken
  <2>3. \A y \in RequestAuths : HeardAfter(y) \subseteq SignersHeard(y)
    BY <1>3, <1>5, PreferencesAssumption
  <2>4. ASSUME t.frozen # Nil, ~Done(t), NEW s \in HeardAfter(t.frozen) \ t.refused
        PROVE  s \in t.pre.good
    <3>1. /\ SignersHeard(r.frozen) \ r.refused \subseteq r.pre.good
          /\ r.pre.good \subseteq t.pre.good /\ r.refused \subseteq t.refused
          /\ r.frozen = q /\ p.sigs[q] => o \in t.pre.good \cup t.refused
      BY <1>2, <2>2, <2>4
    <3>2. s \in SignersHeard(r.frozen)
            \/ (s = o /\ r.frozen \in DOMAIN p.sigs /\ p.sigs[r.frozen])
      BY <1>3, <2>2, <2>4
    <3>3. QED BY <1>5, <2>4, <3>1, <3>2
  <2>5. t.frozen # Nil /\ ~Done(t) => ~HasQuorum(t.pre) /\ ~t.succeeded
    BY <1>2, <2>2
  <2>6. QED BY <1>2, <2>2, <2>3, <2>4, <2>5
<1>6. CASE DOMAIN p.sigs \cap Preferences = {}
  <2>1. t = TakeAuths(r, o, p.sigs) /\ p.sigs \in [DOMAIN p.sigs -> BOOLEAN] /\ o \in Operators
    BY <1>1, <1>4, <1>6, PacketOK DEF TakePacket
  <2>2. /\ t.frozen = r.frozen /\ t.submitted = r.submitted /\ t.succeeded = r.succeeded
        /\ t.rejected = r.rejected /\ t.pre = r.pre /\ t.refused = r.refused
        /\ r.authsDone \subseteq t.authsDone
        /\ \A y \in RequestAuths \ t.authsDone :
             /\ r.auths[y].good \subseteq t.auths[y].good
             /\ ~HasQuorum(r.auths[y]) => ~HasQuorum(t.auths[y])
             /\ y \in DOMAIN p.sigs /\ p.sigs[y] => o \in t.auths[y].good
    BY <1>1, <2>1, AuthsTaken
  <2>3. r.frozen # Nil => HeardAfter(r.frozen) \subseteq SignersHeard(r.frozen)
    <3>1. r.frozen # Nil => r.frozen \notin DOMAIN p.sigs
      BY <1>1, <1>6 DEF SlotRunner
    <3>2. QED BY <1>3, <3>1
  <2>4. t.frozen # Nil =>
          \/ Done(t)
          \/ /\ HeardAfter(t.frozen) \ t.refused \subseteq t.pre.good
             /\ ~HasQuorum(t.pre) /\ ~t.succeeded
    BY <1>2, <2>2, <2>3 DEF Done
  <2>5. ASSUME NEW y \in RequestAuths \ t.authsDone
        PROVE  HeardAfter(y) \subseteq t.auths[y].good /\ ~HasQuorum(t.auths[y])
    <3>1. SignersHeard(y) \subseteq r.auths[y].good /\ ~HasQuorum(r.auths[y])
      BY <1>2, <2>2
    <3>2. QED BY <1>3, <2>2, <3>1
  <2>6. QED BY <2>4, <2>5
<1>7. QED BY <1>5, <1>6, PacketOK

LEMMA HeardAllStep ==
  ASSUME PreferencesTypeOK, StashIsFull, RunnerHeardAll, [PreferencesNext]_preferencesVars
  PROVE  RunnerHeardAll'
<1>1. CASE HandlerNext \/ UNCHANGED preferencesVars
  BY <1>1, HandlerLeavesRunner DEF RunnerHeardAll, SignersHeard
<1>2. ASSUME NEW built \in BuiltPreferences, NEW newAuths \in SUBSET RequestAuths,
             NEW signs \in BOOLEAN, NEW bn \in BeaconNode,
             StartPreferencesDuty(built, newAuths, signs, bn), ProposalSlot >= now
      PROVE  RunnerHeardAll'
  <2>1. UNCHANGED <<now, heard>> /\ LiveStash = pending
    BY <1>2, LiveWhileNotPast DEF StartPreferencesDuty
  <2>2. \A x : SignersHeard(x)' = SignersHeard(x)
    BY <2>1 DEF SignersHeard
  <2>3. \A x \in SigningRoots : SignersHeard(x) \subseteq LiveStash[x].good
    BY <1>2, <2>1 DEF StashIsFull
  <2>4. /\ slotRunner' \in SlotRunner
        /\ slotRunner'.frozen # Nil => slotRunner'.frozen \in SigningRoots
        /\ RequestAuths \subseteq SigningRoots
    <3>1. slotRunner' # Nil /\ slotRunner' \in SlotRunner \cup {Nil}
      BY <1>2, DutyType DEF PreferencesTypeOK
    <3>2. QED BY <3>1 DEF SlotRunner, SigningRoots
  <2>5. /\ slotRunner'.frozen # Nil =>
             \/ Done(slotRunner')
             \/ /\ LiveStash[slotRunner'.frozen].good \ slotRunner'.refused
                     \subseteq slotRunner'.pre.good
                /\ ~HasQuorum(slotRunner'.pre) /\ ~slotRunner'.succeeded
        /\ \A y \in RequestAuths :
             \/ y \in slotRunner'.authsDone
             \/ LiveStash[y].good \subseteq slotRunner'.auths[y].good
                  /\ ~HasQuorum(slotRunner'.auths[y])
    BY <1>2, DutyType
  <2>6. QED BY <2>1, <2>2, <2>3, <2>4, <2>5 DEF RunnerHeardAll, Done
<1>3. CASE DutyStarts
  <2>1. CASE ProposalSlot >= now
    BY <1>2, <1>3, <2>1 DEF DutyStarts
  <2>2. CASE ~(ProposalSlot >= now)
    <3>1. now' = now
      BY <1>3 DEF DutyStarts, StartPreferencesDuty
    <3>2. QED BY <2>2, <3>1 DEF RunnerHeardAll
  <2>3. QED BY <2>1, <2>2
<1>4. CASE PacketArrives(Packets)
  BY <1>4, HeardAllPacket DEF PacketArrives
<1>5. QED BY <1>1, <1>3, <1>4 DEF PreferencesNext

\* Signers without a quorum among those of an entry are none themselves.
LEMMA NoQuorumOfSome ==
  ASSUME NEW e \in Entry, ~HasQuorum(e), NEW S, S \subseteq e.good
  PROVE  ~(Cardinality(S) >= Quorum)
<1>1. S \subseteq Signers(e) /\ Signers(e) \subseteq Operators
  BY DEF Entry, Signers
<1>2. IsFiniteSet(Signers(e))
  BY <1>1, QuorumAssumption, FS_Subset
<1>3. Cardinality(S) <= Cardinality(Signers(e)) /\ Cardinality(S) \in Nat
      /\ Cardinality(Signers(e)) \in Nat
  BY <1>1, <1>2, FS_Subset, FS_CardinalityType
<1>4. QED BY <1>3, QuorumAssumption DEF HasQuorum

\* Partial signatures are sent once: whether they come before the runner starts
\* the duty, while it runs or before it is replaced, a quorum of good ones
\* submits the preference or has failed to, and reconstructs the builder auths
\* (stashPending, the replay of StartNewDuty and ProcessPreConsensus of
\* proposer_preferences.go).
THEOREM SentOnceSuffices == PreferencesSpec => []SentOnceIsEnough
<1>1. PreferencesInit => StashIsFull /\ RunnerHeardAll
  BY DEF PreferencesInit, StashIsFull, RunnerHeardAll, EmptyStash, NoSignatures, Signers,
         SignersHeard
<1>2. PreferencesTypeOK /\ StashIsFull /\ RunnerHeardAll /\ [PreferencesNext]_preferencesVars
      => PreferencesTypeOK' /\ StashIsFull' /\ RunnerHeardAll'
  BY PreferencesTypeStep, StashStep, HeardAllStep
<1>3. ASSUME PreferencesTypeOK, RunnerHeardAll PROVE SentOnceIsEnough
  <2> SUFFICES ASSUME slotRunner # Nil, ProposalSlot >= now PROVE SentOnceIsEnough
    BY DEF SentOnceIsEnough
  <2>1. slotRunner \in SlotRunner
    BY <1>3 DEF PreferencesTypeOK
  <2>2. slotRunner.pre \in Entry /\ \A y \in RequestAuths : slotRunner.auths[y] \in Entry
    BY <2>1 DEF SlotRunner
  <2>3. slotRunner.frozen # Nil
          /\ Cardinality(SignersHeard(slotRunner.frozen) \ slotRunner.refused) >= Quorum
        => Done(slotRunner)
    BY <1>3, <2>2, NoQuorumOfSome DEF RunnerHeardAll
  <2>4. \A y \in RequestAuths :
          Cardinality(SignersHeard(y)) >= Quorum => y \in slotRunner.authsDone
    BY <1>3, <2>2, NoQuorumOfSome DEF RunnerHeardAll
  <2>5. QED BY <2>3, <2>4 DEF SentOnceIsEnough, Done
<1>4. QED BY <1>1, <1>2, <1>3, PreferencesTypeInit, PTL DEF PreferencesSpec

\* The types of the proposer preferences' state, those of its runner, its stash
\* and its signatures included.
THEOREM PreferencesTypesHold == PreferencesSpec => []PreferencesTypeOK
BY PreferencesTypeInit, PreferencesTypeStep, PTL DEF PreferencesSpec

=============================================================================
