----------------------------- MODULE TaskStore -----------------------------
(***************************************************************************)
(* The durable store of coven-github: one SQLite database that holds the   *)
(* webhook deliveries, the task rows they routed to and one row per claim  *)
(* attempt (tables webhook_deliveries, tasks, task_attempts).  Every       *)
(* operation below is one transaction of crates/store, run under the       *)
(* store's mutex, so it is one atomic step.  Callers are unconstrained     *)
(* here: TaskQueue says who calls what, and when.                          *)
(*                                                                         *)
(* A column is a function on Task or Delivery.  A task id is a uuid minted *)
(* for one delivery, so Source maps the ids to the deliveries they can be  *)
(* minted for; Event is what the delivery asks for.                        *)
(***************************************************************************)
EXTENDS Naturals, FiniteSets

CONSTANTS
  Delivery,     \* the delivery ids GitHub (or the gardener schedule) may send
  Task,         \* the task ids that may be minted
  Installation, \* GitHub App installations, the tenants
  PR,           \* supersession keys, "owner/repo#number"
  Event,        \* Event[d]: what delivery d asks for
  Source,       \* Source[t]: the delivery task id t is minted for
  MaxAttempts,  \* worker.max_retries + 1, the argument of startup recovery
  Cap           \* Cap[i]: the max_concurrent limit of installation i

Kind == {"fix", "review", "reply", "cancel", "garden"}

\* Nobody (an automatic trigger), or a commenter with or without write access.
Commander == {"nobody", "writer", "reader"}

EventType == [kind: Kind \union {"ignored"}, installation: Installation,
              pr: PR, commander: Commander]

\* Config::check refuses a zero max_concurrent, and max_retries is unsigned.
ASSUME StoreAssumption ==
  /\ IsFiniteSet(Task)
  /\ Event \in [Delivery -> EventType]
  /\ Source \in [Task -> Delivery]
  /\ MaxAttempts \in Nat \ {0}
  /\ Cap \in [Installation -> Nat \ {0}]

VARIABLES
  routing,   \* webhook_deliveries.routing, "unseen" when there is no row
  state,     \* tasks.state, "absent" when there is no row
  attempts,  \* tasks.attempts, the claims made of the row
  created,   \* tasks.created_at; 0 for an id never minted, kept after deletion
  ledger,    \* the rows of task_attempts of each task
  clock      \* the last created_at handed out

storeVars == <<routing, state, attempts, created, ledger, clock>>

Terminal == {"completed", "failed", "superseded"}
State    == {"absent", "queued", "running"} \union Terminal
Outcome  == {"open", "interrupted"} \union Terminal

\* A row of task_attempts; "open" stands for ended_at IS NULL.
AttemptRow == [attempt: Nat \ {0}, outcome: Outcome]

StoreTypeOK ==
  /\ routing  \in [Delivery -> {"unseen", "ignored", "task"}]
  /\ state    \in [Task -> State]
  /\ attempts \in [Task -> Nat]
  /\ created  \in [Task -> Nat]
  /\ ledger   \in [Task -> SUBSET AttemptRow]
  /\ clock    \in Nat

-----------------------------------------------------------------------------
(* What the rows say. *)

EventOf(t)        == Event[Source[t]]
InstallationOf(t) == EventOf(t).installation
IsReviewOf(t, p)  == EventOf(t).kind = "review" /\ EventOf(t).pr = p

Present(t) == state[t] # "absent"

Running(i) == {t \in Task : state[t] = "running" /\ InstallationOf(t) = i}
AtCap(i)   == Cardinality(Running(i)) >= Cap[i]

\* Wrong on purpose: the cap is not looked at.
ClaimableUncapped == {t \in Task : state[t] = "queued"}

Claimable == {t \in Task : state[t] = "queued" /\ ~AtCap(InstallationOf(t))}

\* Wrong on purpose: a review at work is withdrawn like a waiting one.
UnfinishedReviews(p) ==
  {t \in Task : state[t] \in {"queued", "running"} /\ IsReviewOf(t, p)}

QueuedReviews(p) == {t \in Task : state[t] = "queued" /\ IsReviewOf(t, p)}

\* UPDATE task_attempts SET outcome = o WHERE ended_at IS NULL
Close(rows, o) ==
  {r \in rows : r.outcome # "open"} \union
  {[attempt |-> r.attempt, outcome |-> o] : r \in {q \in rows : q.outcome = "open"}}

Tombstone(S) == [t \in Task |-> IF t \in S THEN "superseded" ELSE state[t]]

-----------------------------------------------------------------------------
(* The transactions. *)

StoreInit ==
  /\ routing  = [d \in Delivery |-> "unseen"]
  /\ state    = [t \in Task |-> "absent"]
  /\ attempts = [t \in Task |-> 0]
  /\ created  = [t \in Task |-> 0]
  /\ ledger   = [t \in Task |-> {}]
  /\ clock    = 0

\* record_delivery of an event no task is routed for, or whose task a plan or
\* quota gate turned away.
RecordIgnored(d) ==
  /\ routing[d] = "unseen"
  /\ routing' = [routing EXCEPT ![d] = "ignored"]
  /\ UNCHANGED <<state, attempts, created, ledger, clock>>

\* Wrong on purpose: nothing is tombstoned; whoever asks tombstones.
DisplacedNone(d) == {}

DisplacedByAnyone(d) ==
  IF Event[d].kind = "review" THEN QueuedReviews(Event[d].pr) ELSE {}

\* An automatic review tombstones the queued reviews of its PR as it is
\* inserted; a commanded one waits for the worker's permission gate.
Displaced(d) ==
  IF Event[d].kind = "review" /\ Event[d].commander = "nobody"
    THEN QueuedReviews(Event[d].pr)
    ELSE {}

\* Wrong on purpose: the delivery id is not looked up first.
RecordTaskAgain(d, t) ==
  /\ Event[d].kind # "ignored"
  /\ Source[t] = d
  /\ created[t] = 0
  /\ routing' = [routing EXCEPT ![d] = "task"]
  /\ state'   = [Tombstone(Displaced(d)) EXCEPT ![t] = "queued"]
  /\ created' = [created EXCEPT ![t] = clock + 1]
  /\ clock'   = clock + 1
  /\ UNCHANGED <<attempts, ledger>>

\* record_delivery of an event that routes to task t.  A delivery id already
\* recorded is a Duplicate, which persists nothing: no step.
RecordTask(d, t) ==
  /\ routing[d] = "unseen"
  /\ Event[d].kind # "ignored"
  /\ Source[t] = d
  /\ created[t] = 0
  /\ routing' = [routing EXCEPT ![d] = "task"]
  /\ state'   = [Tombstone(Displaced(d)) EXCEPT ![t] = "queued"]
  /\ created' = [created EXCEPT ![t] = clock + 1]
  /\ clock'   = clock + 1
  /\ UNCHANGED <<attempts, ledger>>

\* claim_next: the oldest queued task whose installation is below its cap is
\* marked running and its attempt opened.  The (task_id, attempt) primary key
\* must be free, or the whole transaction rolls back.
Claim(t) ==
  /\ t \in Claimable
  /\ \A u \in Claimable : created[t] <= created[u]
  /\ \A r \in ledger[t] : r.attempt # attempts[t] + 1
  /\ state'    = [state EXCEPT ![t] = "running"]
  /\ attempts' = [attempts EXCEPT ![t] = @ + 1]
  /\ ledger'   = [ledger EXCEPT ![t] =
                    @ \union {[attempt |-> attempts[t] + 1, outcome |-> "open"]}]
  /\ UNCHANGED <<routing, created, clock>>

\* finish: an unconditional update of the row, whatever its state; nothing
\* happens when the id is unknown.
Finish(t, s) ==
  /\ state'  = [state EXCEPT ![t] = IF Present(t) THEN s ELSE "absent"]
  /\ ledger' = [ledger EXCEPT ![t] = Close(@, s)]
  /\ UNCHANGED <<routing, attempts, created, clock>>

\* cancel_queued and supersede_queued_except: the queued reviews of PR p
\* yield, the excepted task aside.
SupersedeQueued(p, except) ==
  /\ state' = Tombstone(QueuedReviews(p) \ except)
  /\ UNCHANGED <<routing, attempts, created, ledger, clock>>

\* Wrong on purpose: the bound is met only when it is exceeded; the row gets
\* the word of the attempt.
AfterInterruptionPastMax(t) ==
  IF state[t] # "running" THEN state[t]
  ELSE IF attempts[t] > MaxAttempts THEN "failed" ELSE "queued"

AfterInterruptionInterrupted(t) ==
  IF state[t] # "running" THEN state[t]
  ELSE IF attempts[t] >= MaxAttempts THEN "failed" ELSE "interrupted"

\* recover_interrupted, at boot: close every open attempt, give up on the
\* running rows whose attempts are spent, requeue the others.
AfterInterruption(t) ==
  IF state[t] # "running" THEN state[t]
  ELSE IF attempts[t] >= MaxAttempts THEN "failed" ELSE "queued"

\* Wrong on purpose: the attempt of the dead process is not closed.
RecoverRowsOnly ==
  /\ state' = [t \in Task |-> AfterInterruption(t)]
  /\ UNCHANGED <<ledger, routing, attempts, created, clock>>

Recover ==
  /\ state'  = [t \in Task |-> AfterInterruption(t)]
  /\ ledger' = [t \in Task |-> Close(ledger[t], "interrupted")]
  /\ UNCHANGED <<routing, attempts, created, clock>>

Deleted(S) ==
  /\ state'    = [t \in Task |-> IF t \in S THEN "absent" ELSE state[t]]
  /\ attempts' = [t \in Task |-> IF t \in S THEN 0 ELSE attempts[t]]
  /\ ledger'   = [t \in Task |-> IF t \in S THEN {} ELSE ledger[t]]

\* delete_tasks_for_installation: attempts, tasks and deliveries of a tenant,
\* in whatever state they are.
DeleteInstallation(i) ==
  /\ Deleted({t \in Task : InstallationOf(t) = i})
  /\ routing' = [d \in Delivery |->
                   IF Event[d].installation = i THEN "unseen" ELSE routing[d]]
  /\ UNCHANGED <<created, clock>>

\* Wrong on purpose: the delivery records are swept with the tasks.
ExpireWithDeliveries(S) ==
  /\ S # {}
  /\ \A t \in S : state[t] \in Terminal
  /\ Deleted(S)
  /\ routing' = [d \in Delivery |->
                   IF \E t \in S : Source[t] = d THEN "unseen" ELSE routing[d]]
  /\ UNCHANGED <<created, clock>>

\* expire_terminal_tasks: the terminal rows of some age and older.  The
\* delivery records stay.
ExpireTerminal(S) ==
  /\ S # {}
  /\ \A t \in S : state[t] \in Terminal
  /\ Deleted(S)
  /\ UNCHANGED <<routing, created, clock>>

-----------------------------------------------------------------------------

StoreNext ==
  \/ \E d \in Delivery : RecordIgnored(d)
  \/ \E d \in Delivery, t \in Task : RecordTask(d, t)
  \/ \E t \in Task : Claim(t)
  \/ \E t \in Task, s \in Terminal : Finish(t, s)
  \/ \E p \in PR : SupersedeQueued(p, {})
  \/ \E p \in PR, t \in Task : SupersedeQueued(p, {t})
  \/ Recover
  \/ \E i \in Installation : DeleteInstallation(i)
  \/ \E S \in SUBSET Task : ExpireTerminal(S)

StoreSpec == StoreInit /\ [][StoreNext]_storeVars

-----------------------------------------------------------------------------
(* What the store guarantees, whoever calls it. *)

\* The attempt table and the task row tell one story across claims, crashes
\* and terminal writes: attempts are numbered 1..attempts with no hole and no
\* duplicate, and one of them is open exactly while the row is running, the
\* last one.  (claim_next increments and inserts in one transaction; finish and
\* recovery close; a failure of this leaves a claim that the primary key of
\* task_attempts rolls back for ever.)
AttemptLedger ==
  \A t \in Task :
    /\ \A n \in 1..attempts[t] : \E r \in ledger[t] : r.attempt = n
    /\ \A r \in ledger[t] :
         /\ r.attempt \in 1..attempts[t]
         /\ r.outcome = "open" <=> state[t] = "running" /\ r.attempt = attempts[t]
    /\ \A r, q \in ledger[t] : r.attempt = q.attempt => r = q

\* A task is claimed at most MaxAttempts times, and a row that has spent its
\* attempts never waits in the queue again: a crash-looping task cannot poison
\* the queue.
AttemptsBounded ==
  \A t \in Task :
    /\ attempts[t] <= MaxAttempts
    /\ state[t] = "queued" => attempts[t] < MaxAttempts
    /\ state[t] = "running" => attempts[t] > 0

\* Replaying a delivery id never creates a second task beside the first: the
\* rows of one delivery are never two, and a row never outlives the delivery
\* record that makes the replay a duplicate.
OneTaskPerDelivery ==
  /\ \A t \in Task : Present(t) => routing[Source[t]] = "task" /\ created[t] > 0
  /\ \A t, u \in Task : Present(t) /\ Present(u) /\ Source[t] = Source[u] => t = u

\* No installation ever has more running rows than its max_concurrent cap, not
\* even after a recovery that requeues rows next to younger running ones.
CapRespected ==
  \A i \in Installation : Cardinality(Running(i)) <= Cap[i]

\* Once an automatic review of a PR is recorded, no older review of that PR
\* that was never started waits in the queue: the newest push wins.  (One that
\* a crash interrupted may be back in the queue: attempts # 0.)
NewerReviewWins ==
  \A t, u \in Task :
    /\ EventOf(u).kind = "review" /\ EventOf(u).commander = "nobody"
    /\ IsReviewOf(t, EventOf(u).pr)
    /\ state[t] = "queued" /\ attempts[t] = 0
    => created[u] <= created[t]

=============================================================================
