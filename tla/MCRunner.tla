------------------------------ MODULE MCRunner ------------------------------
(***************************************************************************)
(* Runner with the slice its controller keeps.  Four consecutive slots are *)
(* twice the capacity of the slice, so instances, started or not, are      *)
(* evicted; three duties let the runner move on with and without finishing *)
(* one, and skip a slot its peers decide.                                  *)
(***************************************************************************)
EXTENDS Runner, Instances

=============================================================================
