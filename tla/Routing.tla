------------------------------ MODULE Routing ------------------------------
(***************************************************************************)
(* From a webhook payload to at most one task: parse_event types the       *)
(* payload (crates/webhook/events.rs), Config::scope_for says which        *)
(* familiars and trigger lanes the installation and repository have, the   *)
(* command protocol reads a comment (commands.rs), and event_to_task       *)
(* decides (routes.rs).  Everything is a function of the configuration     *)
(* and the payload; both are records.                                      *)
(*                                                                         *)
(* A comment body is its sequence of words.  A word that holds "@handle"   *)
(* names the handle in `at`; `glued` says an identifier character or "@"   *)
(* precedes it, `tail` is what follows the handle in the same word.  Words *)
(* are in lower case and without the trailing colon of a verb.             *)
(*                                                                         *)
(* A payload's `actor` is the login the event is judged by: the assignee,  *)
(* the author of the comment or review, or the author of the pull request. *)
(***************************************************************************)
EXTENDS Naturals, FiniteSets, SequencesExt

Lane == {"assignment", "labels", "commands", "reviews"}

\* Option::None of the fields that are names.
None == "none"

Or(option, default) == IF option = None THEN default ELSE option

\* An Option<bool> of a repository override: "on", "off" or None, inherited.
Switched(override, inherited) ==
  \/ override = "on"
  \/ override = None /\ inherited

Familiar   == [id: STRING, bot: STRING, handle: STRING, labels: SUBSET STRING]
NoFamiliar == [id |-> None, bot |-> None, handle |-> None, labels |-> {}]

\* A filtered list is a function on the positions it keeps of the list it is of:
\* which items there are and their order is all that find() and a reader see.
Kept(list, positions) == [n \in positions |-> list[n]]

Earliest(positions) == CHOOSE n \in positions : \A m \in positions : n <= m

\* iter().find(): the first familiar of a list at one of the positions.
First(familiars, positions) ==
  IF positions = {} THEN NoFamiliar ELSE familiars[Earliest(positions)]

-----------------------------------------------------------------------------
(* The scope of an installation and a repository. *)

BlocksOf(cfg, i) == {n \in DOMAIN cfg.installations : cfg.installations[n].id = i}

IsListed(cfg, i) == BlocksOf(cfg, i) # {}
BlockFor(cfg, i) == cfg.installations[Earliest(BlocksOf(cfg, i))]

Admits(block, id) == block.familiars = {} \/ id \in block.familiars

\* An empty allow-list allows every familiar.
Allowed(cfg, block) ==
  Kept(cfg.familiars, {n \in DOMAIN cfg.familiars : Admits(block, cfg.familiars[n].id)})

\* Wrong on purpose: a switched-off repository still inherits its lanes.
OpenLanesInherited(policy, repo) ==
  IF repo \notin DOMAIN policy.repos THEN policy.triggers
  ELSE {l \in Lane : Switched(policy.repos[repo].lanes[l], l \in policy.triggers)}

OpenLanes(policy, repo) ==
  IF repo \notin DOMAIN policy.repos THEN policy.triggers
  ELSE {l \in Lane : /\ policy.repos[repo].enabled # "off"
                     /\ Switched(policy.repos[repo].lanes[l], l \in policy.triggers)}

\* Config::scope_for: everything while no installation is configured, nothing
\* for one that is not listed once some are; the first of two blocks wins.
ScopeFor(cfg, i, repo) ==
  IF cfg.installations = <<>> THEN [familiars |-> cfg.familiars, open |-> Lane]
  ELSE IF ~IsListed(cfg, i) THEN [familiars |-> <<>>, open |-> {}]
  ELSE LET block == BlockFor(cfg, i) IN
         [familiars |-> Allowed(cfg, block), open |-> OpenLanes(block, repo)]

IdsOf(familiars) == [n \in DOMAIN familiars |-> familiars[n].id]

\* The dashboard's list is filtered by its ids.
IdsShown(ids, block) == Kept(ids, {n \in DOMAIN ids : Admits(block, ids[n])})

NoOverrides == [r \in {} |-> None]

\* Config::routing_view, the policy the dashboard shows of an installation.
RoutingView(cfg, i) ==
  IF cfg.installations = <<>>
  THEN [familiars |-> IdsOf(cfg.familiars), listed |-> FALSE,
        triggers |-> Lane, repos |-> NoOverrides]
  ELSE IF ~IsListed(cfg, i)
  THEN [familiars |-> <<>>, listed |-> FALSE, triggers |-> {}, repos |-> NoOverrides]
  ELSE LET block == BlockFor(cfg, i) IN
         [familiars |-> IdsShown(IdsOf(cfg.familiars), block), listed |-> TRUE,
          triggers |-> block.triggers, repos |-> block.repos]

-----------------------------------------------------------------------------
(* The automatic review policy: the [review] section and its overrides. *)

ReviewOverride(cfg, repo) ==
  IF repo \in DOMAIN cfg.review.repos THEN cfg.review.repos[repo]
  ELSE [pull_request |-> None, drafts |-> None, familiar |-> None]

PullRequestEnabled(cfg, repo) ==
  Switched(ReviewOverride(cfg, repo).pull_request, cfg.review.pull_request)

DraftsIncluded(cfg, repo) ==
  Switched(ReviewOverride(cfg, repo).drafts, cfg.review.drafts)

Reviewer(cfg, repo) == Or(ReviewOverride(cfg, repo).familiar, cfg.review.familiar)

-----------------------------------------------------------------------------
(* The payload, typed. *)

\* The events the adapter understands, the actions it takes them for and the
\* objects their payload must hold.
Understood == [
  IssueAssigned |->
    [event |-> "issues", actions |-> {"assigned"},
     needs |-> {"installation", "repository", "issue", "assignee"}],
  IssueLabeled |->
    [event |-> "issues", actions |-> {"labeled"},
     needs |-> {"installation", "repository", "issue", "label"}],
  IssueComment |->
    [event |-> "issue_comment", actions |-> {"created"},
     needs |-> {"installation", "repository", "issue", "comment"}],
  PullRequestReview |->
    [event |-> "pull_request_review", actions |-> {"submitted"},
     needs |-> {"installation", "repository", "pull_request", "review"}],
  PullRequestReviewComment |->
    [event |-> "pull_request_review_comment", actions |-> {"created"},
     needs |-> {"installation", "repository", "pull_request", "comment"}],
  PullRequestChanged |->
    [event |-> "pull_request",
     actions |-> {"opened", "synchronize", "reopened", "ready_for_review", "labeled"},
     needs |-> {"installation", "repository", "pull_request", "title", "head",
                "base", "user"}],
  Push |->
    [event |-> "push", actions |-> {None},
     needs |-> {"installation", "repository", "ref", "before", "after", "sender"}]]

ParseEvent(p) ==
  LET fits == {k \in DOMAIN Understood : /\ p.event = Understood[k].event
                                         /\ p.action \in Understood[k].actions
                                         /\ Understood[k].needs \subseteq p.has}
  IN IF fits = {} THEN "Unsupported" ELSE CHOOSE k \in fits : TRUE

-----------------------------------------------------------------------------
(* The maintainer command protocol. *)

Verb == {"review", "fix", "deepen", "retry", "cancel", "garden", "remember",
         "forget", "status"}

\* "x" stands for the characters that continue an identifier.
Names(word, handle) == word.at = handle /\ word.tail # "x"

Mentions(body, handle) ==
  \E n \in DOMAIN body : Names(body[n], handle) /\ ~body[n].glued

\* The word in the verb's place: what is glued to the handle, else the next one.
VerbOf(body) ==
  CASE body[1].tail = ":" -> None
    [] body[1].tail \notin {"", ":"} -> body[1].tail
    [] OTHER -> IF Len(body) > 1 THEN body[2].text ELSE None

\* parse_mention: the verb of a command, "casual" or "no mention".
ParseMention(body, handle) ==
  CASE handle = None -> "no mention"
    [] /\ handle # None
       /\ body # <<>> /\ Names(body[1], handle) /\ ~body[1].glued ->
         IF VerbOf(body) = None THEN "casual"
         ELSE IF VerbOf(body) \in Verb THEN VerbOf(body) ELSE "unknown"
    [] OTHER -> IF Mentions(body, handle) THEN "casual" ELSE "no mention"

SlashGarden(body) ==
  Len(body) > 1 /\ body[1].text = "/coven" /\ body[2].text = "garden"

Commanded(f, body) ==
  \/ SlashGarden(body)
  \/ ParseMention(body, f.handle) \notin {"casual", "no mention"}

\* parse_command: the first familiar of the scope in command position that is
\* not the author itself.
Addressee(scope, body, author) ==
  First(scope.familiars,
        {n \in DOMAIN scope.familiars : /\ author # scope.familiars[n].bot
                                        /\ Commanded(scope.familiars[n], body)})

CommandFor(f, body) ==
  IF SlashGarden(body) THEN "garden" ELSE ParseMention(body, f.handle)

\* command_task: the commands whose task carries its commander to the worker's
\* permission gate.
Gated(command, onPr) ==
  \/ command \in {"fix", "retry", "garden", "remember", "forget"}
  \/ command \in {"review", "deepen", "cancel"} /\ onPr

\* command_task: the task a command on an issue or pull request becomes.
CommandKind(command, onPr) ==
  CASE command \in {"review", "deepen", "retry"} /\ onPr -> "ReviewPullRequest"
    [] command = "fix" /\ onPr     -> "AddressReviewComment"
    [] command = "cancel" /\ onPr  -> "CancelReviews"
    [] command \in {"fix", "retry"} /\ ~onPr -> "FixIssue"
    [] command = "garden"          -> "GardenRun"
    [] OTHER                       -> "CommandReply"

-----------------------------------------------------------------------------
(* The task of a payload. *)

NoTask == [kind |-> None, familiar |-> None, commander |-> None,
           installation |-> None, repo |-> None]

TaskFor(p, f, kind, commander) ==
  IF f = NoFamiliar THEN NoTask
  ELSE [kind |-> kind, familiar |-> f.id, commander |-> commander,
        installation |-> p.installation, repo |-> p.repo]

Assigned(scope, p) == {n \in DOMAIN scope.familiars : scope.familiars[n].bot = p.actor}
Labelled(scope, p) == {n \in DOMAIN scope.familiars : p.label \in scope.familiars[n].labels}
WithId(scope, id)  == {n \in DOMAIN scope.familiars : scope.familiars[n].id = id}

AssignmentTask(scope, p) ==
  IF "assignment" \in scope.open
  THEN TaskFor(p, First(scope.familiars, Assigned(scope, p)), "FixIssue", None)
  ELSE NoTask

LabelTask(scope, p, kind) ==
  IF "labels" \in scope.open
  THEN TaskFor(p, First(scope.familiars, Labelled(scope, p)), kind, None)
  ELSE NoTask

\* A review and a review comment are on a pull request; an issue comment may be.
CommandTask(scope, p) ==
  LET f       == Addressee(scope, p.body, p.actor)
      command == CommandFor(f, p.body)
      onPr    == p.event # "issue_comment" \/ "issue.pull_request" \in p.has
  IN IF "commands" \notin scope.open \/ f = NoFamiliar THEN NoTask
     ELSE TaskFor(p, f, CommandKind(command, onPr),
               IF Gated(command, onPr) THEN p.actor ELSE None)

AutomaticReview(cfg, scope, p) ==
  IF /\ "reviews" \in scope.open
     /\ PullRequestEnabled(cfg, p.repo)
     /\ p.draft => DraftsIncluded(cfg, p.repo)
     /\ Reviewer(cfg, p.repo) # None
  THEN TaskFor(p, First(scope.familiars, WithId(scope, Reviewer(cfg, p.repo))),
            "ReviewPullRequest", None)
  ELSE NoTask

\* Wrong on purpose: the loop guard looks at the visible familiars only.
OwnAuthorVisible(cfg, p) ==
  \E n \in DOMAIN ScopeFor(cfg, p.installation, p.repo).familiars :
    ScopeFor(cfg, p.installation, p.repo).familiars[n].bot = p.actor

\* Any familiar of the deployment, whatever the scope.
OwnAuthor(cfg, p) == \E n \in DOMAIN cfg.familiars : cfg.familiars[n].bot = p.actor

\* event_to_task.
Route(cfg, p) ==
  LET scope == ScopeFor(cfg, p.installation, p.repo)
      kind  == ParseEvent(p)
  IN CASE kind = "IssueAssigned" -> AssignmentTask(scope, p)
       [] kind = "IssueLabeled"  -> LabelTask(scope, p, "FixIssue")
       [] kind \in {"IssueComment", "PullRequestReview", "PullRequestReviewComment"} ->
            CommandTask(scope, p)
       [] kind = "PullRequestChanged" /\ OwnAuthor(cfg, p) -> NoTask
       [] kind = "PullRequestChanged" /\ ~OwnAuthor(cfg, p) /\ p.action = "labeled" ->
            LabelTask(scope, p, "ReviewPullRequest")
       [] kind = "PullRequestChanged" /\ ~OwnAuthor(cfg, p) /\ p.action # "labeled" ->
            AutomaticReview(cfg, scope, p)
       [] OTHER -> NoTask
=============================================================================
