---------------------------- MODULE MCCommittee -----------------------------
(***************************************************************************)
(* Committee with two validators over as many slots as it takes a runner   *)
(* to expire.                                                              *)
(***************************************************************************)
EXTENDS Committee

CONSTANTS v1, v2

MCDutySets == {{<<"att", v1>>}, {<<"att", v1>>, <<"att", v2>>}}

=============================================================================
