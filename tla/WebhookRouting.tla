--------------------------- MODULE WebhookRouting ---------------------------
(***************************************************************************)
(* The server as a router: it is started with a configuration file, serves *)
(* only when the check of Doctor finds no error, and turns every payload   *)
(* it receives into at most one task (Routing).  The file may be changed   *)
(* between two runs of the server, never during one.                       *)
(***************************************************************************)
EXTENDS Doctor

CONSTANTS
  Configs,   \* the configuration files an operator may start the server with
  Payloads   \* the payloads GitHub may deliver

\* The file, once parsed, has its sections, and [[familiars]] is a list.
ASSUME RoutingAssumption ==
  \A cfg \in Configs :
    /\ {"familiars", "installations", "review"} \subseteq DOMAIN cfg
    /\ cfg.familiars \in Seq(Familiar)

VARIABLES
  config,    \* the configuration of the process
  up,        \* the server accepts deliveries
  payload,   \* the last payload, a record without content before the first
  task       \* what it was routed to

vars == <<config, up, payload, task>>

NoPayload == [event |-> None, action |-> None, has |-> {}, installation |-> None,
              repo |-> None, actor |-> None, label |-> None, body |-> <<>>,
              draft |-> FALSE]

Init ==
  /\ config \in Configs
  /\ up = FALSE
  /\ payload = NoPayload
  /\ task = NoTask

\* main: an error of the check ends the process before it listens.
Serve ==
  /\ ~up /\ Errors(config) = {}
  /\ up' = TRUE
  /\ UNCHANGED <<config, payload, task>>

\* handle_webhook, up to the routing decision; Intake has the rest.
Deliver(p) ==
  /\ up
  /\ payload' = p
  /\ task' = Route(config, p)
  /\ UNCHANGED <<config, up>>

Stop ==
  /\ up
  /\ up' = FALSE
  /\ payload' = NoPayload
  /\ task' = NoTask
  /\ UNCHANGED config

\* The operator corrects or changes the file.
Edit ==
  /\ ~up
  /\ config' \in Configs
  /\ UNCHANGED <<up, payload, task>>

Next == Serve \/ Stop \/ Edit \/ \E p \in Payloads : Deliver(p)

Spec == Init /\ [][Next]_vars

-----------------------------------------------------------------------------
(* What a served configuration guarantees. *)

Routed  == task # NoTask
Comment == {"IssueComment", "PullRequestReview", "PullRequestReviewComment"}
LaneOf(p) ==
  CASE ParseEvent(p) = "IssueAssigned" -> "assignment"
    [] ParseEvent(p) \in Comment       -> "commands"
    [] p.action = "labeled"            -> "labels"
    [] OTHER                           -> "reviews"

ShownOpen(view, repo, lane) ==
  IF repo \in DOMAIN view.repos
  THEN LET o == view.repos[repo] IN
         o.enabled # "off" /\ Switched(o.lanes[lane], lane \in view.triggers)
  ELSE lane \in view.triggers

\* The dashboard tells an operator the truth about routing, which scope_for and
\* routing_view resolve separately: the view of an installation shows exactly
\* the familiars and lanes its deliveries have, whatever is routed went to a
\* familiar and through a lane that is shown open, and an installation that a
\* configured deployment does not list routes nothing.
DashboardShowsRouting ==
  LET view  == RoutingView(config, payload.installation)
      scope == ScopeFor(config, payload.installation, payload.repo)
  IN /\ view.familiars = IdsOf(scope.familiars)
     /\ \A l \in Lane : ShownOpen(view, payload.repo, l) <=> l \in scope.open
     /\ Routed => /\ task.familiar \in ToSet(view.familiars)
                   /\ ShownOpen(view, payload.repo, LaneOf(payload))
                   /\ config.installations # <<>> => view.listed

\* Whoever sets a familiar to work is somebody else, with the right to.  What a
\* comment sets in motion beyond a reply carries the commenter to the worker's
\* permission gate, whichever verb, surface or slash command it came by; only
\* work GitHub itself triggered has no commander.  A comment of a familiar's own
\* bot is never a task for it, and a pull request that any familiar of the
\* deployment opened is no task at all, even where the installation cannot see
\* that familiar.
SetToWorkByOthers ==
  /\ Routed =>
       IF ParseEvent(payload) \in Comment
       THEN task.kind # "CommandReply" => task.commander = payload.actor
       ELSE task.commander = None /\ task.kind \in {"FixIssue", "ReviewPullRequest"}
  /\ \A f \in ToSet(config.familiars) :
       Routed /\ payload.actor = f.bot =>
         /\ ParseEvent(payload) # "PullRequestChanged"
         /\ ParseEvent(payload) \in Comment => task.familiar # f.id

SharedHandle ==
  \E f, g \in ToSet(config.familiars) : f.handle = g.handle /\ f.bot # g.bot

Reversed == [config EXCEPT !.familiars = Reverse(@)]

\* Who answers does not hang on the order of the [[familiars]] blocks, so two
\* familiars never race one event: assignments, mentions and automatic reviews
\* have one addressee.  Labels and "/coven garden" go to the first familiar
\* that fits, and so does a mention when two logins differ in "[bot]" only,
\* which the check lets pass with a warning.
OneAddressee ==
  /\ up /\ ~SharedHandle
  /\ payload.action # "labeled"
  /\ ~SlashGarden(payload.body)
  => Route(Reversed, payload) = task

\* An automatic review that the policy asks for is not dropped for want of a
\* reviewer: in a served configuration the lane's reviewer is a familiar.  The
\* check does not see two cases: a reviewer outside the installation's
\* allow-list, and an override that names a familiar but leaves the lane to
\* the section.
ReviewsReachReviewer ==
  LET scope    == ScopeFor(config, payload.installation, payload.repo)
      override == ReviewOverride(config, payload.repo)
      unseen   == \/ /\ Reviewer(config, payload.repo) \in FamiliarIds(config)
                     /\ Reviewer(config, payload.repo) \notin
                          {f.id : f \in ToSet(scope.familiars)}
                  \/ override.familiar # None /\ override.pull_request = None
  IN /\ ParseEvent(payload) = "PullRequestChanged"
     /\ payload.action # "labeled" /\ ~OwnAuthor(config, payload)
     /\ "reviews" \in scope.open /\ PullRequestEnabled(config, payload.repo)
     /\ payload.draft => DraftsIncluded(config, payload.repo)
     /\ ~unseen
     => Routed
=============================================================================
