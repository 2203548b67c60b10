----------------------------- MODULE TaskQueue -----------------------------
(***************************************************************************)
(* The running server around the store: the webhook handler that records   *)
(* deliveries and nudges the worker, the claim loop of crates/worker with  *)
(* its permit pool, one executor per claimed task, the retention sweep,    *)
(* and the death and restart of the process.                               *)
(*                                                                         *)
(* GitHub, the session and the familiar's result are abstracted to what    *)
(* decides the next store transaction: which gate the commander passes,    *)
(* whether pre-flight fails, how the session ends.                         *)
(***************************************************************************)
EXTENDS TaskStore

CONSTANT Concurrency   \* worker.concurrency, the permits of the pool

\* Config::check refuses a zero concurrency.
ASSUME ConcurrencyAssumption == Concurrency \in Nat \ {0}

VARIABLES
  up,      \* is the process alive
  loop,    \* the claim loop: "claiming" (or awaiting a permit), or "parked"
  wakeup,  \* the permit stored in tokio's Notify
  exec     \* exec[t]: how far the executor of task t has come, "none" if none

procVars == <<up, loop, wakeup, exec>>
vars     == <<storeVars, procVars>>

\* claimed:    execute_task was spawned, the commander is not yet checked
\* gated:      past the permission gate and the supersession it allows
\* session:    the Check Run exists, run_and_publish is at work
\* publishing: the terminal state was written, surfaces are being updated
Stage == {"none", "claimed", "gated", "session", "publishing"}

TypeOK ==
  /\ StoreTypeOK
  /\ up \in BOOLEAN
  /\ loop \in {"claiming", "parked"}
  /\ wakeup \in BOOLEAN
  /\ exec \in [Task -> Stage]

KindOf(t)      == EventOf(t).kind
CommanderOf(t) == EventOf(t).commander

\* Answered by the adapter itself, with neither a session nor a Check Run.
AdapterKind == {"reply", "cancel", "garden"}
SessionKind == {"fix", "review"}

Executors == {t \in Task : exec[t] # "none"}
PoolFree  == Cardinality(Executors) < Concurrency

\* The executor of t moves on to stage s.
Become(t, s) ==
  /\ up
  /\ exec' = [exec EXCEPT ![t] = s]
  /\ UNCHANGED <<up, loop, wakeup>>

Init ==
  /\ StoreInit
  /\ up = TRUE
  /\ loop = "claiming"
  /\ wakeup = FALSE
  /\ exec = [t \in Task |-> "none"]

-----------------------------------------------------------------------------
(* The webhook handler and the gardener schedule. *)

DeliverIgnored(d) ==
  /\ up
  /\ RecordIgnored(d)
  /\ UNCHANGED procVars

\* The task is committed, then notify_one is called; a handler dropped in
\* between, with its connection, never notifies.
Deliver(d, t) ==
  /\ up
  /\ RecordTask(d, t)
  /\ wakeup' \in {wakeup, TRUE}
  /\ UNCHANGED <<up, loop, exec>>

\* installation.deleted: everything of the tenant is purged.  The record of that
\* delivery itself is a DeliverIgnored before it, and purged with the rest.
Uninstall(i) ==
  /\ up
  /\ DeleteInstallation(i)
  /\ UNCHANGED procVars

\* The task-history sweep.
Sweep(S) ==
  /\ up
  /\ ExpireTerminal(S)
  /\ UNCHANGED procVars

-----------------------------------------------------------------------------
(* The claim loop: a permit first, then claim_next. *)

ClaimNext(t) ==
  /\ up
  /\ loop = "claiming"
  /\ PoolFree
  /\ Claim(t)
  /\ exec' = [exec EXCEPT ![t] = "claimed"]
  /\ UNCHANGED <<up, loop, wakeup>>

ClaimNothing ==
  /\ up
  /\ loop = "claiming"
  /\ PoolFree
  /\ Claimable = {}
  /\ loop' = "parked"
  /\ UNCHANGED <<storeVars, up, wakeup, exec>>

WakeBySignal ==
  /\ up
  /\ loop = "parked"
  /\ wakeup
  /\ loop' = "claiming"
  /\ wakeup' = FALSE
  /\ UNCHANGED <<storeVars, up, exec>>

\* Wrong on purpose: no poll timer, only a notification ends the wait.
WakeByTimerNotified ==
  /\ up
  /\ loop = "parked"
  /\ wakeup
  /\ loop' = "claiming"
  /\ UNCHANGED <<storeVars, up, wakeup, exec>>

WakeByTimer ==
  /\ up
  /\ loop = "parked"
  /\ loop' = "claiming"
  /\ UNCHANGED <<storeVars, up, wakeup, exec>>

-----------------------------------------------------------------------------
(* The executor of a claimed task. *)

\* What an authorized commander's task does to the queue: a cancel withdraws
\* the queued reviews of its PR, a commanded review displaces the others.
GateEffect(t) ==
  CASE KindOf(t) = "cancel" -> SupersedeQueued(EventOf(t).pr, {})
    [] KindOf(t) = "review" /\ CommanderOf(t) # "nobody"
                            -> SupersedeQueued(EventOf(t).pr, {t})
    [] OTHER                -> UNCHANGED storeVars

PassGate(t) ==
  /\ exec[t] = "claimed"
  /\ CommanderOf(t) # "reader"
  /\ GateEffect(t)
  /\ Become(t, "gated")

\* A commander below write access: a decline is posted and the task is over.
Decline(t) ==
  /\ exec[t] = "claimed"
  /\ CommanderOf(t) = "reader"
  /\ Finish(t, "completed")
  /\ Become(t, "none")

\* The work is done by the adapter; a garden run that failed still has its
\* status comment to post.
FinishAdapterWork(t) ==
  /\ exec[t] = "gated"
  /\ KindOf(t) \in AdapterKind
  /\ \/ Finish(t, "completed") /\ Become(t, "none")
     \/ KindOf(t) = "garden" /\ Finish(t, "failed") /\ Become(t, "publishing")

\* A token, permission, ref or Check Run call failed before the Check Run.
PreflightFails(t) ==
  /\ exec[t] \in {"claimed", "gated"}
  /\ KindOf(t) \in SessionKind \union {"garden"}
  /\ Finish(t, "failed")
  /\ Become(t, "none")

StartSession(t) ==
  /\ exec[t] = "gated"
  /\ KindOf(t) \in SessionKind
  /\ UNCHANGED storeVars
  /\ Become(t, "session")

\* The session is over; only a review whose head moved ends superseded.  An
\* error of the terminal write is dropped and publication goes on.
EndSession(t) ==
  /\ exec[t] = "session"
  /\ \/ Finish(t, "completed")
     \/ Finish(t, "failed")
     \/ KindOf(t) = "review" /\ Finish(t, "superseded")
     \/ UNCHANGED storeVars
  /\ Become(t, "publishing")

\* Wrong on purpose: the permit is not given back.
PublishedPermitLeaked(t) ==
  /\ exec[t] = "publishing"
  /\ UNCHANGED <<storeVars, procVars>>

Published(t) ==
  /\ exec[t] = "publishing"
  /\ UNCHANGED storeVars
  /\ Become(t, "none")

\* execute_task returns early or panics: an unreadable key, a familiar no
\* longer configured, an API error of a reply or cancel task, a store error.
\* The permit is released; the row is left as it is.
Abandon(t) ==
  /\ exec[t] \in {"claimed", "gated", "session"}
  /\ UNCHANGED storeVars
  /\ Become(t, "none")

ExecutorStep(t) ==
  \/ PassGate(t) \/ Decline(t) \/ FinishAdapterWork(t) \/ PreflightFails(t)
  \/ StartSession(t) \/ EndSession(t) \/ Published(t) \/ Abandon(t)

-----------------------------------------------------------------------------
(* The process. *)

\* Wrong on purpose: an executor outlives the process that recovery follows.
CrashLeavesExecutors ==
  /\ up
  /\ up' = FALSE
  /\ loop' = "claiming"
  /\ wakeup' = FALSE
  /\ UNCHANGED <<storeVars, exec>>

\* Executors, the permit pool and the Notify live in memory.
Crash ==
  /\ up
  /\ up' = FALSE
  /\ loop' = "claiming"
  /\ wakeup' = FALSE
  /\ exec' = [t \in Task |-> "none"]
  /\ UNCHANGED storeVars

\* serve recovers the store before it spawns the worker or binds the port.
Restart ==
  /\ ~up
  /\ Recover
  /\ up' = TRUE
  /\ UNCHANGED <<loop, wakeup, exec>>

Next ==
  \/ \E d \in Delivery : DeliverIgnored(d)
  \/ \E d \in Delivery, t \in Task : Deliver(d, t)
  \/ \E i \in Installation : Uninstall(i)
  \/ \E S \in SUBSET Task : Sweep(S)
  \/ \E t \in Task : ClaimNext(t)
  \/ ClaimNothing \/ WakeBySignal \/ WakeByTimer
  \/ \E t \in Task : ExecutorStep(t)
  \/ Crash \/ Restart

Spec == Init /\ [][Next]_vars

\* tokio runs a ready task and fires a timer: the claim loop never stops.
LoopFairness ==
  /\ WF_vars((\E t \in Task : ClaimNext(t)) \/ ClaimNothing)
  /\ WF_vars(WakeByTimer)

\* An executor does not hang.  A session is ended by its timeout; that a call
\* to GitHub answers or fails is assumed of the network, the client sets no
\* timeout.  TaskExecution shows that nothing else is assumed.
ExecutorFairness == \A t \in Task : WF_vars(ExecutorStep(t))

LoopSpec == Spec /\ LoopFairness
FairSpec == Spec /\ LoopFairness /\ ExecutorFairness

-----------------------------------------------------------------------------
(* Safety. *)

\* A live executor works on a row that is still its own: running, or purged
\* with its tenant.  Nobody requeues, expires or finishes a row under it, so
\* claim_next cannot hand the same row to a second executor.
ExecutorOwnsRow ==
  \A t \in Task :
    /\ exec[t] \in {"claimed", "gated", "session"} => state[t] \in {"running", "absent"}
    /\ exec[t] = "publishing" => state[t] # "queued"

\* What the attempt table says of a row's past is what happened: every attempt
\* but the last was interrupted by a crash, and the last one carries the
\* outcome the row shows, unless the row was tombstoned while it waited or
\* recovery gave up on it.
LastAttempt(t, o) == \E r \in ledger[t] : r.attempt = attempts[t] /\ r.outcome = o
AllInterrupted(t) == \A r \in ledger[t] : r.outcome = "interrupted"

AuditTrail ==
  \A t \in Task :
    /\ \A r \in ledger[t] : r.attempt < attempts[t] => r.outcome = "interrupted"
    /\ state[t] = "completed"  => LastAttempt(t, "completed")
    /\ state[t] = "failed"     => \/ LastAttempt(t, "failed")
                                  \/ AllInterrupted(t) /\ attempts[t] = MaxAttempts
    /\ state[t] = "superseded" => LastAttempt(t, "superseded") \/ AllInterrupted(t)
    /\ state[t] = "queued"     => AllInterrupted(t)

\* A commenter without write access never displaces queued work: a review that
\* was withdrawn before anybody worked on it yielded to an event of its PR that
\* was automatic or came from a maintainer.
DriveByNeverDisplaces ==
  \A t \in Task :
    state[t] = "superseded" /\ AllInterrupted(t) =>
      \E u \in Task \ {t} :
        /\ created[u] > 0
        /\ KindOf(u) \in {"review", "cancel"} /\ EventOf(u).pr = EventOf(t).pr
        /\ CommanderOf(u) # "reader"

\* A terminal row is never written again; it can only be deleted.  finish does
\* not look at the state it overwrites, so this rests on who calls it when.
TerminalIsFinal ==
  [][\A t \in Task : state[t] \in Terminal => state'[t] \in {state[t], "absent"}]_vars

-----------------------------------------------------------------------------
(* Liveness. *)

Abandoned(t) == state[t] = "running" /\ exec[t] = "none"

\* The poll timer backstops every lost notification: a task is not left queued
\* for ever while a permit is free and its installation is below its cap, even
\* if executors hang.
NoLostWakeup ==
  <>[]up => \A t \in Task :
    ~ <>[](state[t] = "queued" /\ PoolFree /\ ~AtCap(InstallationOf(t)))

\* A queued task ends, unless its executor abandons it, or its installation's
\* cap is used up by rows that executors abandoned.
Drains ==
  ExecutorFairness /\ <>[]up => \A t \in Task :
    (state[t] = "queued") ~>
      \/ state[t] \in Terminal \union {"absent"}
      \/ Abandoned(t)
      \/ Cardinality({u \in Running(InstallationOf(t)) : Abandoned(u)})
           >= Cap[InstallationOf(t)]
=============================================================================
