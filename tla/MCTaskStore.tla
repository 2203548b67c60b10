---------------------------- MODULE MCTaskStore ----------------------------
(***************************************************************************)
(* The store alone, under callers that may do anything at any time: two    *)
(* pushes to one pull request and a delivery that routes to no task.  The  *)
(* second push has two task ids, so that a replay could dispatch it again. *)
(***************************************************************************)
EXTENDS TaskStoreQueue, Oversight

Ev(kind, installation) ==
  [kind |-> kind, installation |-> installation, pr |-> "pr", commander |-> "nobody"]

MCEvent == [push1 |-> Ev("review", "acme"),
            push2 |-> Ev("review", "acme"),
            ping  |-> Ev("ignored", "other")]

MCSource == [r1 |-> "push1", r2 |-> "push2", r2again |-> "push2"]

MCDelivery == DOMAIN MCEvent
MCTask     == DOMAIN MCSource
MCCap      == [i \in {"acme", "other"} |-> 1]
=============================================================================
