------------------------------ MODULE Oversight ------------------------------
(***************************************************************************)
(* What the store tells the oversight endpoints: the task list of Cave     *)
(* (cave_list), the audit stream (audit_events) and the usage rollup       *)
(* (usage).  Each is one transaction over the tables of TaskStore, read    *)
(* here for one installation or for all of them (a scope of every tenant). *)
(* The pull request and the result of a task are TaskExecution's columns,  *)
(* handed in where they count; a group of the rollup is an installation.   *)
(***************************************************************************)
EXTENDS TaskStore

InScope(t, scope) == Present(t) /\ InstallationOf(t) \in scope

\* project_status.
ProjectStatus(t, needsInput, hasPull) ==
  CASE state[t] = "completed" /\ (needsInput \/ hasPull)   -> "review"
    [] state[t] = "completed" /\ ~(needsInput \/ hasPull)  -> "done"
    [] OTHER                                               -> state[t]

\* cave_list: replies are not tasks to look at.
CaveList(scope) ==
  {[task |-> t, status |-> ProjectStatus(t, FALSE, FALSE)] :
     t \in {u \in Task : InScope(u, scope) /\ EventOf(u).kind # "reply"}}

\* audit_events: what was turned away, and every attempt with its outcome.
Ignored(scope) ==
  {d \in Delivery : routing[d] = "ignored" /\ Event[d].installation \in scope}

AttemptEvents(scope) ==
  UNION {{[task |-> t, attempt |-> r.attempt,
           kind |-> IF r.outcome = "open" THEN "running" ELSE r.outcome] : r \in ledger[t]} :
         t \in {u \in Task : InScope(u, scope)}}

\* usage: the tasks LEFT JOINed with their attempts, a task that was never
\* claimed having one row of its own.
Joined(scope) ==
  UNION {{<<t, r>> : r \in IF ledger[t] = {} THEN {[attempt |-> 0, outcome |-> "open"]}
                                             ELSE ledger[t]} :
         t \in {u \in Task : InScope(u, scope)}}

RowsIn(scope, s) == {row \in Joined(scope) : state[row[1]] = s}

Usage(i) ==
  [tasks     |-> Cardinality({row[1] : row \in Joined({i})}),
   completed |-> Cardinality(RowsIn({i}, "completed")),
   failed    |-> Cardinality(RowsIn({i}, "failed"))]

-----------------------------------------------------------------------------
(* Properties. *)

\* The endpoints tell one story whatever crashed in between: the tasks the
\* dashboard shows as running are those whose last attempt the audit stream
\* shows as running, and a task it shows as over has no attempt under way.
\* (Replies are audited and not listed.)
DashboardAgreesWithAudit ==
  \A i \in Installation :
    {item.task : item \in {x \in CaveList({i}) : x.status = "running"}} =
    {event.task : event \in {e \in AttemptEvents({i}) :
                               e.kind = "running" /\ EventOf(e.task).kind # "reply"}}

\* The usage rollup is one of "task counts" (crates/store/lib.rs): what it
\* counts as completed or failed are tasks, of those it counts as accepted.
TaskCounts ==
  \A i \in Installation : Usage(i).completed + Usage(i).failed <= Usage(i).tasks

=============================================================================
