--------------------------- MODULE StatusComment ---------------------------
(***************************************************************************)
(* The marker-backed status comment of one familiar on one issue or pull   *)
(* request (crates/worker/src/status_comment.rs).  upsert lists the first  *)
(* page of the thread, and then edits the first comment that carries the   *)
(* marker or posts a new one: two calls, and other executors with work on  *)
(* the same thread, or people, write between them.                         *)
(***************************************************************************)
EXTENDS Naturals, Sequences

CONSTANTS
  Writer,    \* the executors that may work on this thread at the same time
  PageSize,  \* comments list_comments asks for, 100 in the code
  MaxThread  \* bound: the longest thread

ASSUME ThreadAssumption ==
  /\ "somebody" \notin Writer
  /\ PageSize \in Nat \ {0}
  /\ MaxThread \in Nat

VARIABLES
  thread,  \* who posted each comment; an executor's carries the marker
  step,    \* step[w]: "idle", or "listed" between the two calls of an upsert
  found    \* found[w]: the comment its list found, 0 for none

vars == <<thread, step, found>>

ThreadTypeOK ==
  /\ thread \in Seq(Writer \union {"somebody"})
  /\ step \in [Writer -> {"idle", "listed"}]
  /\ found \in [Writer -> Nat]

\* The comments with the marker that a list shows.
Shown == {i \in DOMAIN thread : i <= PageSize /\ thread[i] # "somebody"}

Init ==
  /\ thread = <<>>
  /\ step = [w \in Writer |-> "idle"]
  /\ found = [w \in Writer |-> 0]

SomebodyComments ==
  /\ Len(thread) < MaxThread
  /\ thread' = Append(thread, "somebody")
  /\ UNCHANGED <<step, found>>

\* Wrong on purpose: the marker is not searched for.
ListNothing(w) ==
  /\ step[w] = "idle"
  /\ step' = [step EXCEPT ![w] = "listed"]
  /\ found' = [found EXCEPT ![w] = 0]
  /\ UNCHANGED thread

List(w) ==
  /\ step[w] = "idle"
  /\ step' = [step EXCEPT ![w] = "listed"]
  /\ \/ Shown = {} /\ found' = [found EXCEPT ![w] = 0]
     \/ \E i \in Shown :
          /\ \A j \in Shown : i <= j
          /\ found' = [found EXCEPT ![w] = i]
  /\ UNCHANGED thread

\* The comment found is edited in place: nobody else's, and no new one.
Update(w) ==
  /\ step[w] = "listed" /\ found[w] # 0
  /\ step' = [step EXCEPT ![w] = "idle"]
  /\ UNCHANGED <<thread, found>>

Post(w) ==
  /\ step[w] = "listed" /\ found[w] = 0
  /\ Len(thread) < MaxThread
  /\ thread' = Append(thread, w)
  /\ step' = [step EXCEPT ![w] = "idle"]
  /\ UNCHANGED found

\* A call failed, or the process died: the upsert is over.
GiveUp(w) ==
  /\ step[w] = "listed"
  /\ step' = [step EXCEPT ![w] = "idle"]
  /\ UNCHANGED <<thread, found>>

Next ==
  \/ SomebodyComments
  \/ \E w \in Writer : List(w) \/ Update(w) \/ Post(w) \/ GiveUp(w)

Spec == Init /\ [][Next]_vars

\* However upserts overlap and whatever fails, an executor's later updates never
\* stack up: of the comments on the first page, each executor posted at most one.
StacksNothing ==
  \A i, j \in Shown : thread[i] = thread[j] => i = j
=============================================================================
