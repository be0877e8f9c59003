---------------------------- MODULE MCKeyManager ----------------------------
(***************************************************************************)
(* KeyManager with one good share and one malformed one, under either kind *)
(* of key manager.  Epochs of two slots; slots 0 to 4 and three blocks let *)
(* a share sign, be removed and come back in one block or in two, a        *)
(* transaction stay open over an epoch's end, and a block be committed     *)
(* between a check and its record.  One restart, or block handled again.   *)
(***************************************************************************)
EXTENDS KeyManager

=============================================================================
