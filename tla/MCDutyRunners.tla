--------------------------- MODULE MCDutyRunners ----------------------------
(***************************************************************************)
(* One duty of a committee of four with one Byzantine operator, at one of  *)
(* its runners.  The runners do not interact: `served` is the one that a   *)
(* behaviour is about, and for proposer preferences the messages that      *)
(* arrive.                                                                 *)
(***************************************************************************)
EXTENDS CommitteeRunners, ProposerPreferences, TLC

CONSTANTS o1, o2, o3, o4, v1, v2, a, b, x, z

VARIABLE served

-----------------------------------------------------------------------------
(* CommitteeRunners: three duties of two validators, of which two share a  *)
(* kind and two share a validator.                                         *)

MCDuties == {<<"att", v1>>, <<"att", v2>>, <<"sync", v1>>}

\* All duties, or all but an attestation that is held back.
MCPreViews == {MCDuties}
MCViews == {MCDuties, {<<"att", v2>>, <<"sync", v1>>}}

\* A Byzantine message: good, bad for one attestation, or bad throughout.
MCBadMessages == {[d \in MCDuties |-> d \notin bad] : bad \in {{}, {<<"att", v1>>}, MCDuties}}

\* No validator is selected, one aggregator is, or the first one for both.
MCElections == {{}, {<<"att", v2>>}, {<<"att", v1>>, <<"sync", v1>>}}

MCValues == {MCDuties, {<<"att", v1>>, <<"sync", v1>>}}

-----------------------------------------------------------------------------
(* ProposerPreferences: two dependent roots, one builder.  The handler is  *)
(* looked at from the epoch before the fork on, without messages; the      *)
(* runner from the fork on, with a reorg and messages for preferences, and *)
(* with changed validators and messages for a preference and an auth.      *)

Packet(o, sigs) == [signer |-> o, sigs |-> sigs]
Honest == {o1, o2, o3}
PreferencePackets ==
  {Packet(o, r :> TRUE) : o \in Honest, r \in {a, b}} \cup {Packet(o4, a :> FALSE)}
AuthPackets ==
  {Packet(o, r :> TRUE) : o \in Honest, r \in {a, x}} \cup {Packet(o4, x :> FALSE @@ z :> TRUE)}
MCPackets == PreferencePackets \cup AuthPackets

\* Without messages it does not matter to the handler how a duty ends.
WithoutMessages ==
  \/ HandlerNext
  \/ \E built \in BuiltPreferences :
       StartPreferencesDuty(built, RequestAuths \ sent, TRUE, "ok")

\* Bounds: one signer's message refused, two duties in the queue, two messages
\* when the proposal is past, and what differs between the two.
WithMessages ==
  /\ HandlerNext \/ PacketArrives(served) \/ DutyStarts
  /\ member'
  /\ slotRunner' # Nil => Cardinality(slotRunner'.refused) <= 1
  /\ now' > ProposalSlot => served = AuthPackets /\ Cardinality(recorded') <= 2
  /\ IF served = AuthPackets THEN reorgs' = 0
     ELSE /\ changes' = 0
          /\ slotRunner' # Nil => slotRunner'.authsSent = RequestAuths

-----------------------------------------------------------------------------

AtCommittee == served = None

MCInit ==
  /\ Init /\ PreferencesInit
  /\ served \in {None, {}, PreferencePackets, AuthPackets}
  /\ IF AtCommittee
     THEN now = 0 /\ chain = a /\ member /\ others
     ELSE /\ role = "committee"
          /\ now = IF served = {} THEN 0 ELSE FirstSlotOf(ForkEpoch)
          /\ others = ~member
          /\ IF served = {} THEN chain = a ELSE member

MCNext ==
  /\ served' = served
  /\ \/ AtCommittee /\ Next /\ UNCHANGED preferencesVars
     \/ /\ ~AtCommittee /\ UNCHANGED vars
        /\ IF served = {} THEN WithoutMessages ELSE WithMessages
        /\ queued' <= 2

MCSpec == MCInit /\ [][MCNext]_<<vars, preferencesVars, served>>

\* The honest operators other than Self are interchangeable.
Peers == Permutations({o2, o3})

=============================================================================
