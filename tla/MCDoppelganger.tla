--------------------------- MODULE MCDoppelganger ---------------------------
(***************************************************************************)
(* Doppelganger with two validators over six epochs of three slots: enough *)
(* for a full detection period before and after a restart, for an epoch    *)
(* skipped in between and for a validator that leaves and returns.         *)
(***************************************************************************)
EXTENDS Doppelganger, TLC

Symmetry == Permutations(Validators)
=============================================================================
