---------------------------- MODULE DurableQueue ----------------------------
(***************************************************************************)
(* What the durable store promises about one delivery, with no table, row  *)
(* or column in sight (docs/durable-task-store.md, "Goals"): a delivery is *)
(* accepted once, its job waits, is taken a bounded number of times,       *)
(* settles once and for all, and may later expire.  Only the removal of    *)
(* the tenant makes the queue forget that the delivery was ever seen.      *)
(* TaskStore is shown to implement this module.                            *)
(***************************************************************************)
EXTENDS Naturals

CONSTANTS
  Delivery,     \* the deliveries
  Tenant,       \* Tenant[d]: the installation delivery d belongs to
  MaxAttempts   \* how often a job may be taken

VARIABLES
  job,    \* what has become of each delivery
  tries   \* how often its job was taken

queueVars == <<job, tries>>

Init ==
  /\ job   = [d \in Delivery |-> "new"]
  /\ tries = [d \in Delivery |-> 0]

\* The jobs of S move on to status s.
Move(S, s) == job' = [d \in Delivery |-> IF d \in S THEN s ELSE job[d]]

Ignore(d) ==
  /\ job[d] = "new"
  /\ Move({d}, "ignored")
  /\ UNCHANGED tries

\* A new job may displace jobs that wait.
Accept(d, displaced) ==
  /\ job[d] = "new"
  /\ \A e \in displaced : job[e] = "waiting"
  /\ job' = [e \in Delivery |-> IF e = d THEN "waiting"
                                ELSE IF e \in displaced THEN "settled" ELSE job[e]]
  /\ UNCHANGED tries

Take(d) ==
  /\ job[d] = "waiting"
  /\ tries[d] < MaxAttempts
  /\ Move({d}, "taken")
  /\ tries' = [tries EXCEPT ![d] = @ + 1]

\* Jobs are over: done, failed, or displaced before they were taken.
Settle(S) ==
  /\ \A d \in S : job[d] \in {"waiting", "taken"}
  /\ Move(S, "settled")
  /\ UNCHANGED tries

\* The process died: every taken job waits again, unless its tries are spent.
Interrupt ==
  /\ job' = [d \in Delivery |->
               IF job[d] # "taken" THEN job[d]
               ELSE IF tries[d] < MaxAttempts THEN "waiting" ELSE "settled"]
  /\ UNCHANGED tries

\* History is dropped, the memory that the delivery was seen is not.
Expire(S) ==
  /\ \A d \in S : job[d] = "settled"
  /\ Move(S, "expired")
  /\ tries' = [d \in Delivery |-> IF d \in S THEN 0 ELSE tries[d]]

RemoveTenant(i) ==
  /\ Move({d \in Delivery : Tenant[d] = i}, "new")
  /\ tries' = [d \in Delivery |-> IF Tenant[d] = i THEN 0 ELSE tries[d]]

Next ==
  \/ \E d \in Delivery : Ignore(d) \/ Take(d)
  \/ \E d \in Delivery, S \in SUBSET Delivery : Accept(d, S)
  \/ \E S \in SUBSET Delivery : Settle(S) \/ Expire(S)
  \/ Interrupt
  \/ \E d \in Delivery : RemoveTenant(Tenant[d])

Spec == Init /\ [][Next]_queueVars
=============================================================================
