----------------------- MODULE MCMessageValidation ------------------------
(***************************************************************************)
(* MessageValidation for one message ID at a time: a slot whose consensus  *)
(* messages are told apart, the slot that shares its place in the ring,    *)
(* and the others of its epoch.                                            *)
(***************************************************************************)
EXTENDS MessageValidation

Msg(os, s, r, k, roots) ==
  [signers |-> os, slot |-> s, round |-> r, kind |-> k, roots |-> roots]

MCProposer(s, r) == 1

Partials(k, slots) == {Msg({1}, s, 0, k, {}) : s \in slots}

\* The operator's messages of a slot: proposals of two values, a vote, a
\* round change that carries a value and a proposal of another one.
Consensus(s) ==
  {Msg({1}, s, 1, "proposal", {"a"}), Msg({1}, s, 1, "proposal", {"b"}),
   Msg({1}, s, 1, "prepare", {}),
   Msg({1}, s, 2, "roundchange", {"b"}), Msg({1}, s, 2, "proposal", {"a"})}
Decided(s) ==
  {Msg(os, s, 1, "commit", {"a"}) : os \in {{1, 2, 3}, {1, 2, 3, 4}}}

\* What no honest operator sends.
Malformed(s) ==
  {Msg({2}, s, 1, "proposal", {"a"}), Msg({1, 2}, s, 1, "commit", {"a"}),
   Msg({1}, s, 0, "prepare", {}), Msg({1}, s, 13, "prepare", {}),
   Msg({1}, s, 1, "prepare", {"a"}), Msg({1}, s, 0, "selection", {})}

MCMessages ==
  [committee    |-> Consensus(1) \cup Decided(1) \cup Malformed(1) \cup Partials("post", {1, 2, 3, 7}),
   proposer     |-> Consensus(1) \cup Malformed(1) \cup Partials("pre", {1, 2})
                      \cup Partials("post", {1}),
   registration |-> Partials("pre", {1, 2, 3, 4, 7}) \cup {Msg({1}, 1, 1, "prepare", {})},
   preferences  |-> {Msg({1}, 1, 0, "preferences", rs) : rs \in {{"a"}, {"b"}, {"a", "c"}}}
                      \cup {Msg({1}, s, 0, "preferences", {"a"}) : s \in {0, 2, 4, 11, 12}}
                      \cup {Msg({1}, 1, 1, "prepare", {})}]

=============================================================================
