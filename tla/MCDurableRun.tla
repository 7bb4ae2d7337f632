----------------------------- MODULE MCDurableRun -----------------------------
(***************************************************************************)
(* DurableRun for TLC: a version that waits, acts, and waits for the same  *)
(* event again; a wait that times out goes to a delay, which branches.     *)
(***************************************************************************)
EXTENDS DurableRun, TLC

CONSTANTS wait1, act, wait2, pause, check

MCKind  == wait1 :> "wait_for_event" @@ act :> "action" @@ wait2 :> "wait_for_event"
           @@ pause :> "delay" @@ check :> "condition"
MCEvent == [s \in Steps |-> "booked"]
MCGoto  == wait1 :> act @@ act :> wait2 @@ wait2 :> NULL @@ pause :> check @@ check :> NULL
MCElse  == wait1 :> pause @@ act :> NULL @@ wait2 :> NULL @@ pause :> NULL @@ check :> act
===============================================================================
