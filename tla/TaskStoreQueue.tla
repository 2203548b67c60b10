--------------------------- MODULE TaskStoreQueue ---------------------------
(***************************************************************************)
(* The store seen as a durable queue: the refinement mapping under which   *)
(* TaskStore implements DurableQueue.                                      *)
(***************************************************************************)
EXTENDS TaskStore

\* The row of a delivery, when it has one.
HasRow(d) == \E t \in Task : Present(t) /\ Source[t] = d
RowOf(d)  == CHOOSE t \in Task : Present(t) /\ Source[t] = d

StatusOf(t) == CASE state[t] = "queued"  -> "waiting"
                 [] state[t] = "running" -> "taken"
                 [] OTHER                -> "settled"

\* A delivery that routed to a task but has no row left has expired.
JobOf(d) == IF HasRow(d) THEN StatusOf(RowOf(d))
            ELSE CASE routing[d] = "unseen"  -> "new"
                   [] routing[d] = "ignored" -> "ignored"
                   [] OTHER                  -> "expired"

jobs   == [d \in Delivery |-> JobOf(d)]
claims == [d \in Delivery |-> IF HasRow(d) THEN attempts[RowOf(d)] ELSE 0]
tenant == [d \in Delivery |-> Event[d].installation]

Queue == INSTANCE DurableQueue WITH Tenant <- tenant, job <- jobs, tries <- claims

\* The store keeps the promises of a durable queue: a delivery is dispatched
\* once unless its tenant is removed, an accepted job is never lost, a settled
\* job is never taken again, and no job is taken more than MaxAttempts times.
StoreImplementsQueue == Queue!Spec
=============================================================================
