---------------------------- MODULE MCScheduler -----------------------------
(***************************************************************************)
(* Scheduler from the middle of an epoch of four slots into the one after  *)
(* the next, with two heads after the first and a change of validators:    *)
(* the chain can leave a root and be back at it before the scheduler sees  *)
(* either, and more than an epoch can pass without an event.               *)
(***************************************************************************)
EXTENDS Scheduler

=============================================================================
