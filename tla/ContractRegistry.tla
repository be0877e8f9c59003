-------------------------- MODULE ContractRegistry --------------------------
(***************************************************************************)
(* What processing the contract's events promises: the registry changes by *)
(* whole blocks, each applied once and in order, and a block's effect is   *)
(* that of its events one after the other (eth/eventhandler).              *)
(***************************************************************************)
EXTENDS Naturals, Sequences

CONSTANTS
  Validators,     \* validators of one owner's cluster this operator serves
  MaxEvents,      \* bound: events of a block
  MaxBlocks       \* bound: blocks with events

VARIABLES
  enabled,        \* the contract has the cluster as not liquidated
  block,          \* the next block with events, <<>> while there is none
  processed,      \* blocks applied
  members,        \* per validator: "absent", "active" or "liquidated"
  nonce           \* of the owner: ValidatorAdded events seen

registry == <<enabled, block, processed, members, nonce>>

Status == {"absent", "active", "liquidated"}

Event ==
  [type : {"add", "addMalformed", "remove"}, validator : Validators]
    \cup [type : {"liquidate", "reactivate"}]

Block == UNION {[1 .. n -> Event] : n \in 1 .. MaxEvents}

\* Whether the cluster is enabled after the first n events of b.
EnabledAfter(b, n) ==
  \/ enabled /\ \A i \in 1 .. n : b[i].type # "liquidate"
  \/ \E i \in 1 .. n : /\ b[i].type = "reactivate"
                       /\ \A j \in i + 1 .. n : b[j].type # "liquidate"

\* The contract registers validators in, and liquidates, enabled clusters only,
\* and reactivates liquidated ones only.
Legal(b) ==
  \A n \in DOMAIN b :
    CASE b[n].type \in {"add", "addMalformed", "liquidate"} -> EnabledAfter(b, n - 1)
      [] b[n].type = "reactivate" -> ~EnabledAfter(b, n - 1)
      [] OTHER -> TRUE

\* A validator of status s after an event.  An event about a validator in the
\* wrong state is skipped.
StatusAfter(s, v, e) ==
  CASE e.type = "add" /\ e.validator = v /\ s = "absent" -> "active"
    [] e.type = "remove" /\ e.validator = v -> "absent"
    [] e.type = "liquidate" /\ s # "absent" -> "liquidated"
    [] e.type = "reactivate" /\ s # "absent" -> "active"
    [] OTHER -> s

\* The registry after an event.  A malformed ValidatorAdded counts for the
\* nonce and for nothing else.
Applied(r, e) ==
  [members |-> [v \in Validators |-> StatusAfter(r.members[v], v, e)],
   nonce |-> IF e.type \in {"add", "addMalformed"} THEN r.nonce + 1 ELSE r.nonce]

\* The registry after each prefix of a block, and after the block.
AppliedPrefixes(r, b) ==
  LET after[n \in 0 .. Len(b)] == IF n = 0 THEN r ELSE Applied(after[n - 1], b[n])
  IN  after

AppliedBlock(r, b) == AppliedPrefixes(r, b)[Len(b)]

Init ==
  /\ enabled = TRUE
  /\ block = <<>>
  /\ processed = 0
  /\ members = [v \in Validators |-> "absent"]
  /\ nonce = 0

\* The chain grows by a block with events of the contract.
Produce ==
  /\ block = <<>> /\ processed < MaxBlocks
  /\ block' \in Block /\ Legal(block')
  /\ enabled' = EnabledAfter(block', Len(block'))
  /\ UNCHANGED <<processed, members, nonce>>

Apply ==
  LET r == AppliedBlock([members |-> members, nonce |-> nonce], block)
  IN  /\ block # <<>>
      /\ block' = <<>>
      /\ UNCHANGED enabled
      /\ processed' = processed + 1
      /\ members' = r.members
      /\ nonce' = r.nonce

Next == Apply \/ Produce

Spec == Init /\ [][Next]_registry
=============================================================================
