------------------------- MODULE PartialSignatures --------------------------
(***************************************************************************)
(* The partial signatures a runner has collected for one validator and one *)
(* signing root (protocol/v2/ssv/partial_sig_container.go), and the rules  *)
(* by which runners fill, verify and combine them (runner.go,              *)
(* runner_signatures.go, runner_validations.go).                           *)
(*                                                                         *)
(* A signature is told apart only by its signer and by whether it verifies *)
(* under the signer's share, which a runner does not check when it stores  *)
(* it: an entry is the set of signers of good and of bad signatures.       *)
(***************************************************************************)
EXTENDS Naturals, FiniteSets

CONSTANTS
  Operators,   \* the committee
  Quorum       \* signatures that reconstruct a validator's signature

ASSUME QuorumAssumption == Quorum \in Nat \ {0} /\ IsFiniteSet(Operators)

Entry == {e \in [good : SUBSET Operators, bad : SUBSET Operators] :
            e.good \cap e.bad = {}}

NoSignatures == [good |-> {}, bad |-> {}]

Signers(e) == e.good \cup e.bad

HasQuorum(e) == Cardinality(Signers(e)) >= Quorum

\* The first signature of a signer is stored unverified; a second one keeps a
\* stored one that verifies, and otherwise takes its place if it verifies
\* itself (resolveDuplicateSignature).
Store(e, o, isGood) ==
  CASE o \in e.good -> e
    [] o \notin e.good /\ isGood ->
         [good |-> e.good \cup {o}, bad |-> e.bad \ {o}]
    [] o \notin Signers(e) /\ ~isGood -> [e EXCEPT !.bad = @ \cup {o}]
    [] o \in e.bad /\ ~isGood -> [e EXCEPT !.bad = @ \ {o}]

\* Every signature is verified and the bad ones are dropped.
FallBackAndVerifyEachSignature(e) == [e EXCEPT !.bad = {}]

\* Mutant: what is left of a quorum is not counted again.
ReconstructsAnyway(e) == HasQuorum(e)

\* reconstructQuorumSig: all the shares are combined, so one bad share spoils
\* the result; the bad ones are then dropped and the rest is tried again as
\* long as it is still a quorum.
Reconstructs(e) == HasQuorum(FallBackAndVerifyEachSignature(e))

-----------------------------------------------------------------------------
(* A container maps keys (a validator and a signing root) to entries; a    *)
(* message of a signer is a function from some of the keys to whether its  *)
(* signature for the key is good.                                          *)

\* basePartialSigMsgProcessing stores the message's signatures ...
StoreAll(c, o, msg) ==
  [k \in DOMAIN c |-> IF k \in DOMAIN msg THEN Store(c[k], o, msg[k]) ELSE c[k]]

\* ... and reports the keys that had no quorum before and have one now.
NewQuorums(c, o, msg) ==
  {k \in DOMAIN msg : ~HasQuorum(c[k]) /\ HasQuorum(Store(c[k], o, msg[k]))}

\* Mutant: bad signatures are left where they are.
KeepAll(c, keys) == c

\* The container after the signatures of some keys were verified.
VerifyAll(c, keys) ==
  [k \in DOMAIN c |->
     IF k \in keys THEN FallBackAndVerifyEachSignature(c[k]) ELSE c[k]]

=============================================================================
