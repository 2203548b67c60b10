---------------------------- MODULE MCTaskQueue ----------------------------
(***************************************************************************)
(* Instances of TaskQueue.  A scenario names the deliveries that may       *)
(* arrive and the task ids that may be minted for them; installation acme  *)
(* may run one task at a time, globex two, and all reviews and cancels are *)
(* of one pull request.                                                    *)
(***************************************************************************)
EXTENDS TaskQueue

Ev(kind, installation, commander) ==
  [kind |-> kind, installation |-> installation, pr |-> "pr", commander |-> commander]

MCCap == [i \in {"acme", "globex"} |-> IF i = "acme" THEN 1 ELSE 2]

\* One pull request: a push, a review somebody without write access asks for,
\* and one a maintainer asks for.
ReviewsEvent == [push   |-> Ev("review", "globex", "nobody"),
                 rerun  |-> Ev("review", "globex", "reader"),
                 review |-> Ev("review", "globex", "writer")]
ReviewsSource == [p |-> "push", r |-> "rerun", m |-> "review"]

\* Work that competes for acme's one slot, a tenant beside it, and an event
\* that asks for nothing.
ContendersEvent == [issue  |-> Ev("fix", "acme", "nobody"),
                    cancel |-> Ev("cancel", "acme", "writer"),
                    slot   |-> Ev("garden", "globex", "nobody"),
                    ping   |-> Ev("ignored", "acme", "nobody")]
ContendersSource == [i |-> "issue", c |-> "cancel", g |-> "slot"]
=============================================================================
