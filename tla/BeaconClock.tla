----------------------------- MODULE BeaconClock -----------------------------
(***************************************************************************)
(* The beacon chain's wall clock as networkconfig/beacon.go computes it:   *)
(* slots counted from genesis, grouped into epochs.  Every component reads *)
(* it; nothing in the node sets it.                                        *)
(***************************************************************************)
EXTENDS Integers

CONSTANTS
  SlotsPerEpoch,
  MaxSlot         \* bound: the last slot of a behaviour

ASSUME ClockAssumption ==
  /\ SlotsPerEpoch \in Nat \ {0}
  /\ MaxSlot \in Nat

VARIABLE now      \* EstimatedCurrentSlot

Slot == 0 .. MaxSlot

\* EstimatedEpochAtSlot and what it is used for.
Epoch(s) == s \div SlotsPerEpoch
CurrentEpoch == Epoch(now)
FirstSlotOf(e) == e * SlotsPerEpoch
IsLastSlotOfEpoch(s) == s % SlotsPerEpoch = SlotsPerEpoch - 1

\* The next slot begins.
Advance ==
  /\ now < MaxSlot
  /\ now' = now + 1
=============================================================================
