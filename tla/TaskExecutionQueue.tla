------------------------ MODULE TaskExecutionQueue -------------------------
(***************************************************************************)
(* The detailed execution of one task implements what TaskQueue says of an *)
(* executor and its row, in an instance with that one task and one permit. *)
(***************************************************************************)
EXTENDS TaskExecution

\* The stage TaskQueue knows the executor to be at.
StageOf(s) ==
  CASE s \in {"none", "claimed"}    -> s
    [] s \in {"gated", "resolved"}  -> "gated"
    [] s \in Working                -> "session"
    [] s \in Surfacing              -> "publishing"

\* Every attempt but the last was interrupted.
Attempts ==
  {[attempt |-> c, outcome |-> IF c = claims THEN outcome ELSE "interrupted"] :
     c \in 1 .. claims}

Minted == IF row = "absent" THEN 0 ELSE 1

Queue == INSTANCE TaskQueue WITH
  Delivery     <- {"delivery"},
  Task         <- {"task"},
  Installation <- {"installation"},
  PR           <- {"pr"},
  Event        <- [d \in {"delivery"} |->
                     [kind |-> TaskKind, installation |-> "installation",
                      pr |-> "pr", commander |-> "nobody"]],
  Source       <- [t \in {"task"} |-> "delivery"],
  Cap          <- [i \in {"installation"} |-> 1],
  Concurrency  <- 1,
  routing      <- [d \in {"delivery"} |-> IF row = "absent" THEN "unseen" ELSE "task"],
  state        <- [t \in {"task"} |-> row],
  attempts     <- [t \in {"task"} |-> claims],
  created      <- [t \in {"task"} |-> Minted],
  ledger       <- [t \in {"task"} |-> Attempts],
  clock        <- Minted,
  loop         <- "claiming",
  wakeup       <- FALSE,
  exec         <- [t \in {"task"} |-> StageOf(pc)]

\* Each step of the execution is a step of the queue's executor, claim loop or
\* process, or is invisible to the queue.
ImplementsExecutor == Queue!Spec
=============================================================================
