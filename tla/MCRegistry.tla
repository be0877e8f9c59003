----------------------------- MODULE MCRegistry -----------------------------
(***************************************************************************)
(* Registry with the two validators of a cluster, two blocks of up to two  *)
(* events, a crash, the three tries of SyncHistory and one answer of the   *)
(* beacon node that lacks a validator or cannot be saved: a share can be   *)
(* added, removed and added again, and the cluster liquidated and          *)
(* reactivated, within a block and across blocks, and either block may be  *)
(* handled again, by the same process or after a restart.                  *)
(***************************************************************************)
EXTENDS Registry, TLC

Symmetry == Permutations(Validators)

=============================================================================
