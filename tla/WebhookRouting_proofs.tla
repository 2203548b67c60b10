----------------------- MODULE WebhookRouting_proofs ------------------------
(***************************************************************************)
(* Proofs about routing, for any configuration files and any payloads: the *)
(* dashboard tells the truth, whoever sets a familiar to work is somebody  *)
(* else, events have one addressee and reviews reach their reviewer.       *)
(***************************************************************************)
EXTENDS WebhookRouting, WellFoundedInduction, TLAPS

-----------------------------------------------------------------------------
(* Searching a list. *)

Less == {ss \in Nat \X Nat : ss[1] < ss[2]}

LEMMA EarliestIsLeast ==
  ASSUME NEW S \in SUBSET Nat, S # {}
  PROVE  Earliest(S) \in S /\ \A m \in S : Earliest(S) <= m
<1>1. IsWellFoundedOn(Less, Nat)
  BY NatLessThanWellFounded DEF OpToRel, Less
<1>2. PICK n \in S : \A m \in S : <<m, n>> \notin Less
  BY <1>1, WFMin, Zenon
<1>3. \A m \in S : n <= m
  <2> SUFFICES ASSUME NEW m \in S, m < n PROVE FALSE
    OBVIOUS
  <2>1. m \in Nat /\ n \in Nat
    OBVIOUS
  <2>2. <<m, n>> \in Less
    BY <2>1 DEF Less
  <2> QED BY <1>2, <2>2
<1> QED BY <1>2, <1>3 DEF Earliest

\* find() on a list whose positions are numbers.
LEMMA FirstIsThere ==
  ASSUME NEW list, NEW S \in SUBSET Nat, S # {}
  PROVE  \E n \in S : First(list, S) = list[n]
BY EarliestIsLeast DEF First

LEMMA FirstOfOne ==
  ASSUME NEW list, NEW S \in SUBSET Nat, NEW n \in S, \A m \in S : m = n
  PROVE  First(list, S) = list[n]
BY FirstIsThere

-----------------------------------------------------------------------------
(* What a configuration without errors is like. *)

LEMMA CheckedConfig ==
  ASSUME NEW cfg, Errors(cfg) = {}
  PROVE  /\ None \notin FamiliarIds(cfg)
         /\ \A m, n \in DOMAIN cfg.familiars :
              \/ cfg.familiars[m].id = cfg.familiars[n].id
              \/ cfg.familiars[m].bot = cfg.familiars[n].bot
              => m = n
         /\ ~ ReviewerMissing(cfg)
<1>1. Reported(FamiliarComplaints(cfg)) = {} /\ Reported(ReviewComplaints(cfg)) = {}
  BY DEF Errors
<1>2. \A complaints, field : Reported(complaints) = {} /\ field \in DOMAIN complaints
                              => ~ complaints[field]
  BY DEF Reported
<1>3. /\ ~ FamiliarComplaints(cfg)["familiar_id"] /\ ~ FamiliarComplaints(cfg)["bot_username"]
      /\ ~ ReviewComplaints(cfg)["review_familiar"]
  <2>1. /\ {"familiar_id", "bot_username"} \subseteq DOMAIN FamiliarComplaints(cfg)
        /\ "review_familiar" \in DOMAIN ReviewComplaints(cfg)
    BY DEF FamiliarComplaints, ReviewComplaints
  <2> QED
    BY <1>1, <1>2, <2>1
<1>4. ~ (None \in FamiliarIds(cfg) \/ ~ Unique(cfg.familiars, LAMBDA f : f.id))
  BY <1>3, Zenon DEF FamiliarComplaints
<1>5. ~ BotsWrong(cfg)
  BY <1>3, Zenon DEF FamiliarComplaints
<1>6. ~ ReviewerMissing(cfg)
  BY <1>3, Zenon DEF ReviewComplaints
<1> QED
  BY <1>4, <1>5, <1>6 DEF BotsWrong, Unique

-----------------------------------------------------------------------------
(* The scope. *)

\* Does the installation see the familiar with this id.
Sees(cfg, i, id) ==
  \/ cfg.installations = <<>>
  \/ IsListed(cfg, i) /\ Admits(BlockFor(cfg, i), id)

Visible(cfg, i) == {n \in DOMAIN cfg.familiars : Sees(cfg, i, cfg.familiars[n].id)}

LEMMA ScopeIsVisible ==
  ASSUME NEW cfg, cfg.familiars \in Seq(Familiar), NEW i, NEW repo
  PROVE  ScopeFor(cfg, i, repo).familiars = Kept(cfg.familiars, Visible(cfg, i))
<1>1. CASE cfg.installations = <<>>
  <2>1. Visible(cfg, i) = DOMAIN cfg.familiars
    BY <1>1 DEF Visible, Sees
  <2>2. cfg.familiars = Kept(cfg.familiars, DOMAIN cfg.familiars)
    BY DEF Kept
  <2> QED
    BY <1>1, <2>1, <2>2 DEF ScopeFor
<1>2. CASE cfg.installations # <<>> /\ ~ IsListed(cfg, i)
  <2>1. Visible(cfg, i) = {}
    BY <1>2 DEF Visible, Sees
  <2>2. Kept(cfg.familiars, {}) = <<>>
    BY DEF Kept
  <2> QED
    BY <1>2, <2>1, <2>2 DEF ScopeFor
<1>3. CASE cfg.installations # <<>> /\ IsListed(cfg, i)
  <2>1. Allowed(cfg, BlockFor(cfg, i)) = Kept(cfg.familiars, Visible(cfg, i))
    BY <1>3 DEF Visible, Sees, Allowed
  <2> QED
    BY <1>3, <2>1 DEF ScopeFor
<1> QED
  BY <1>1, <1>2, <1>3

LEMMA ScopePositions ==
  ASSUME NEW cfg, cfg.familiars \in Seq(Familiar), NEW i, NEW repo
  PROVE  LET familiars == ScopeFor(cfg, i, repo).familiars IN
         /\ DOMAIN familiars \in SUBSET Nat
         /\ DOMAIN familiars \subseteq DOMAIN cfg.familiars
         /\ \A n \in DOMAIN familiars : familiars[n] = cfg.familiars[n]
<1> DEFINE familiars == ScopeFor(cfg, i, repo).familiars
<1>1. familiars = Kept(cfg.familiars, Visible(cfg, i))
  BY ScopeIsVisible
<1>2. DOMAIN familiars = Visible(cfg, i) /\ \A n \in Visible(cfg, i) : familiars[n] = cfg.familiars[n]
  BY <1>1 DEF Kept
<1>3. Visible(cfg, i) \subseteq DOMAIN cfg.familiars /\ DOMAIN cfg.familiars \subseteq Nat
  BY DEF Visible
<1> QED
  BY <1>2, <1>3

-----------------------------------------------------------------------------
(* The payload. *)

LEMMA EventKinds ==
  ASSUME NEW p
  PROVE  /\ ParseEvent(p) \in DOMAIN Understood \union {"Unsupported"}
         /\ ParseEvent(p) # "Unsupported" =>
              /\ p.event = Understood[ParseEvent(p)].event
              /\ p.action \in Understood[ParseEvent(p)].actions
<1> DEFINE fits == {k \in DOMAIN Understood : /\ p.event = Understood[k].event
                                              /\ p.action \in Understood[k].actions
                                              /\ Understood[k].needs \subseteq p.has}
<1>1. CASE fits = {}
  BY <1>1 DEF ParseEvent
<1>2. CASE fits # {}
  <2>1. ParseEvent(p) \in fits
    BY <1>2 DEF ParseEvent
  <2> QED
    BY <2>1
<1> QED
  BY <1>1, <1>2

LEMMA KindsOfEvent ==
  ASSUME NEW p
  PROVE  /\ ParseEvent(p) \in Comment \union
              {"IssueAssigned", "IssueLabeled", "PullRequestChanged", "Push", "Unsupported"}
         /\ ParseEvent(p) = "IssueLabeled" => p.action = "labeled"
         /\ ParseEvent(p) \in Comment \union {"IssueAssigned"} => p.action # "labeled"
         /\ ParseEvent(NoPayload) = "Unsupported"
<1>1. DOMAIN Understood = Comment \union
        {"IssueAssigned", "IssueLabeled", "PullRequestChanged", "Push"}
  BY DEF Understood, Comment
<1>2. /\ Understood["IssueLabeled"].actions = {"labeled"}
      /\ \A k \in Comment \union {"IssueAssigned"} : "labeled" \notin Understood[k].actions
  BY DEF Understood, Comment
<1>3. \A k \in DOMAIN Understood : Understood[k].event # None
  BY DEF Understood, None
<1>4. ParseEvent(NoPayload) = "Unsupported"
  BY <1>3, EventKinds DEF NoPayload
<1>5. ParseEvent(p) \in DOMAIN Understood \union {"Unsupported"}
  BY EventKinds
<1>6. \A k \in DOMAIN Understood : ParseEvent(p) = k => p.action \in Understood[k].actions
  <2>1. "Unsupported" \notin DOMAIN Understood
    BY DEF Understood
  <2> QED
    BY <2>1, EventKinds
<1>7. ParseEvent(p) = "IssueLabeled" => p.action = "labeled"
  BY <1>1, <1>2, <1>6
<1>8. ParseEvent(p) \in Comment \union {"IssueAssigned"} => p.action # "labeled"
  BY <1>1, <1>2, <1>6
<1> QED
  BY <1>1, <1>4, <1>5, <1>7, <1>8
-----------------------------------------------------------------------------
(* The task. *)

\* A task is for a familiar that find() found.
LEMMA TaskHasFamiliar ==
  ASSUME NEW list, NEW S \in SUBSET Nat, NEW p, NEW kind, NEW commander,
         TaskFor(p, First(list, S), kind, commander) # NoTask
  PROVE  \E n \in S : TaskFor(p, First(list, S), kind, commander) =
           [kind |-> kind, familiar |-> list[n].id, commander |-> commander,
            installation |-> p.installation, repo |-> p.repo]
<1>1. S # {}
  BY DEF First, TaskFor
<1>2. PICK n \in S : First(list, S) = list[n]
  BY <1>1, FirstIsThere
<1>3. First(list, S) # NoFamiliar
  BY DEF TaskFor
<1> QED
  BY <1>2, <1>3 DEF TaskFor

\* What a routed event says of the familiar at position n, the one it is for.
RoutedTo(cfg, p, n) ==
  LET scope == ScopeFor(cfg, p.installation, p.repo)
      task_ == Route(cfg, p)
  IN /\ n \in DOMAIN scope.familiars
     /\ task_.familiar = scope.familiars[n].id
     /\ LaneOf(p) \in scope.open
     /\ IF ParseEvent(p) \in Comment
        THEN /\ p.actor # scope.familiars[n].bot
             /\ task_.kind # "CommandReply" => task_.commander = p.actor
        ELSE task_.commander = None /\ task_.kind \in {"FixIssue", "ReviewPullRequest"}
     /\ ParseEvent(p) = "PullRequestChanged" => ~ OwnAuthor(cfg, p)

LEMMA GatedCommands ==
  ASSUME NEW command, NEW onPr \in BOOLEAN, CommandKind(command, onPr) # "CommandReply"
  PROVE  Gated(command, onPr)
BY DEF CommandKind, Gated

LEMMA RouteIsExplained ==
  ASSUME NEW cfg, cfg.familiars \in Seq(Familiar), NEW p, Route(cfg, p) # NoTask
  PROVE  \E n \in Nat : RoutedTo(cfg, p, n)
<1> DEFINE scope == ScopeFor(cfg, p.installation, p.repo)
           F     == scope.familiars
<1>0. DOMAIN F \in SUBSET Nat
  BY ScopePositions
<1> HIDE DEF scope
<1>1. ParseEvent(p) \in Comment \union {"IssueAssigned", "IssueLabeled", "PullRequestChanged"}
  BY KindsOfEvent DEF Route, Comment
<1>2. CASE ParseEvent(p) = "IssueAssigned"
  <2>1. /\ "assignment" \in scope.open /\ LaneOf(p) = "assignment"
        /\ Route(cfg, p) = TaskFor(p, First(F, Assigned(scope, p)), "FixIssue", None)
    <3>1. Route(cfg, p) = AssignmentTask(scope, p)
      BY <1>2 DEF Route, scope
    <3>2. LaneOf(p) = "assignment"
      BY <1>2, KindsOfEvent DEF LaneOf, Comment
    <3> QED
      BY <3>1, <3>2 DEF AssignmentTask
  <2>2. Assigned(scope, p) \in SUBSET Nat
    BY <1>0 DEF Assigned
  <2>3. PICK n \in Assigned(scope, p) : Route(cfg, p) =
          [kind |-> "FixIssue", familiar |-> F[n].id, commander |-> None,
           installation |-> p.installation, repo |-> p.repo]
    BY <2>1, <2>2, TaskHasFamiliar
  <2>4. n \in Nat /\ n \in DOMAIN F
    BY <2>2 DEF Assigned
  <2> QED
    BY <1>2, <2>1, <2>3, <2>4 DEF RoutedTo, Comment, scope
<1>3. CASE \/ ParseEvent(p) = "IssueLabeled"
           \/ ParseEvent(p) = "PullRequestChanged" /\ p.action = "labeled"
  <2>1. PICK kind \in {"FixIssue", "ReviewPullRequest"} :
          /\ Route(cfg, p) = TaskFor(p, First(F, Labelled(scope, p)), kind, None)
          /\ "labels" \in scope.open
          /\ ParseEvent(p) = "PullRequestChanged" => ~ OwnAuthor(cfg, p)
    BY <1>3 DEF Route, LabelTask, scope
  <2>2. Labelled(scope, p) \in SUBSET Nat
    BY <1>0 DEF Labelled
  <2>3. PICK n \in Labelled(scope, p) : Route(cfg, p) =
          [kind |-> kind, familiar |-> F[n].id, commander |-> None,
           installation |-> p.installation, repo |-> p.repo]
    BY <2>1, <2>2, TaskHasFamiliar
  <2>4. n \in Nat /\ n \in DOMAIN F
    BY <2>2 DEF Labelled
  <2>5. ParseEvent(p) \notin Comment /\ LaneOf(p) = "labels"
    BY <1>3, KindsOfEvent DEF LaneOf, Comment
  <2> QED
    BY <2>1, <2>3, <2>4, <2>5 DEF RoutedTo, scope
<1>4. CASE ParseEvent(p) = "PullRequestChanged" /\ p.action # "labeled"
  <2>1. /\ "reviews" \in scope.open /\ LaneOf(p) = "reviews" /\ ~ OwnAuthor(cfg, p)
        /\ Route(cfg, p) = TaskFor(p, First(F, WithId(scope, Reviewer(cfg, p.repo))),
                                   "ReviewPullRequest", None)
    BY <1>4 DEF Route, AutomaticReview, LaneOf, Comment, scope
  <2>2. WithId(scope, Reviewer(cfg, p.repo)) \in SUBSET Nat
    BY <1>0 DEF WithId
  <2>3. PICK n \in WithId(scope, Reviewer(cfg, p.repo)) : Route(cfg, p) =
          [kind |-> "ReviewPullRequest", familiar |-> F[n].id, commander |-> None,
           installation |-> p.installation, repo |-> p.repo]
    BY <2>1, <2>2, TaskHasFamiliar
  <2>4. n \in Nat /\ n \in DOMAIN F
    BY <2>2 DEF WithId
  <2> QED
    BY <1>4, <2>1, <2>3, <2>4 DEF RoutedTo, Comment, scope
<1>5. CASE ParseEvent(p) \in Comment
  <2> DEFINE hits    == {n \in DOMAIN F : /\ p.actor # F[n].bot
                                          /\ Commanded(F[n], p.body)}
             f       == First(F, hits)
             command == CommandFor(f, p.body)
             onPr    == p.event # "issue_comment" \/ "issue.pull_request" \in p.has
             by      == IF Gated(command, onPr) THEN p.actor ELSE None
  <2>1. /\ "commands" \in scope.open /\ LaneOf(p) = "commands"
        /\ Route(cfg, p) = TaskFor(p, f, CommandKind(command, onPr), by)
    <3>1. Route(cfg, p) = CommandTask(scope, p)
      BY <1>5 DEF Route, Comment, scope
    <3>2. LaneOf(p) = "commands"
      BY <1>5, KindsOfEvent DEF LaneOf, Comment
    <3>3. f = Addressee(scope, p.body, p.actor)
      BY DEF Addressee
    <3>4. "commands" \in scope.open /\ f # NoFamiliar
      BY <3>1, <3>3 DEF CommandTask
    <3>5. CommandTask(scope, p) = TaskFor(p, f, CommandKind(command, onPr), by)
      BY <3>3, <3>4 DEF CommandTask
    <3> QED
      BY <3>1, <3>2, <3>4, <3>5
  <2>2. hits \in SUBSET Nat
    BY <1>0
  <2>3. CommandKind(command, onPr) # "CommandReply" => by = p.actor
    BY GatedCommands
  <2> HIDE DEF hits, command, onPr, by
  <2>0. Route(cfg, p) = TaskFor(p, First(F, hits), CommandKind(command, onPr), by)
    BY <2>1
  <2>4. PICK n \in hits : Route(cfg, p) =
          [kind |-> CommandKind(command, onPr), familiar |-> F[n].id, commander |-> by,
           installation |-> p.installation, repo |-> p.repo]
    BY <2>0, <2>2, TaskHasFamiliar
  <2>5. n \in Nat /\ n \in DOMAIN F /\ p.actor # F[n].bot
    BY <2>2 DEF hits
  <2> QED
    BY <1>5, <2>1, <2>3, <2>4, <2>5 DEF RoutedTo, Comment, scope
<1> QED
  BY <1>1, <1>2, <1>3, <1>4, <1>5
-----------------------------------------------------------------------------
(* The server as a router. *)

\* The task of the moment is what the running configuration makes of the last
\* payload, and a configuration is served only when its check finds no error.
Answered ==
  /\ config \in Configs
  /\ up => Errors(config) = {}
  /\ ~up => payload = NoPayload
  /\ task = Route(config, payload)

LEMMA NothingToRoute ==
  ASSUME NEW cfg
  PROVE  Route(cfg, NoPayload) = NoTask
BY KindsOfEvent DEF Route

LEMMA AnsweredHolds == Spec => []Answered
<1>1. Init => Answered
  BY NothingToRoute DEF Init, Answered
<1>2. Answered /\ [Next]_vars => Answered'
  <2> SUFFICES ASSUME Answered, [Next]_vars PROVE Answered'
    OBVIOUS
  <2> USE DEF Answered
  <2>1. CASE Serve
    BY <2>1 DEF Serve
  <2>2. CASE Stop
    BY <2>2, NothingToRoute DEF Stop
  <2>3. CASE Edit
    <3>1. payload' = NoPayload /\ task' = NoTask /\ ~up'
      BY <2>3, NothingToRoute DEF Edit
    <3> QED
      BY <2>3, <3>1, NothingToRoute DEF Edit
  <2>4. CASE \E p \in Payloads : Deliver(p)
    BY <2>4 DEF Deliver
  <2>5. CASE UNCHANGED vars
    BY <2>5 DEF vars
  <2> QED
    BY <2>1, <2>2, <2>3, <2>4, <2>5 DEF Next
<1> QED
  BY <1>1, <1>2, PTL DEF Spec

LEMMA FamiliarsAreListed ==
  ASSUME NEW cfg \in Configs
  PROVE  cfg.familiars \in Seq(Familiar)
BY RoutingAssumption

\* What is routed was routed by a served configuration.
LEMMA RoutedIsServed ==
  ASSUME Answered, Routed
  PROVE  Errors(config) = {} /\ \E n \in Nat : RoutedTo(config, payload, n)
BY NothingToRoute, FamiliarsAreListed, RouteIsExplained DEF Answered, Routed

LEMMA ViewOfScope ==
  ASSUME NEW cfg, NEW i, NEW repo
  PROVE  /\ RoutingView(cfg, i).familiars = IdsOf(ScopeFor(cfg, i, repo).familiars)
         /\ \A l \in Lane : ShownOpen(RoutingView(cfg, i), repo, l)
                              <=> l \in ScopeFor(cfg, i, repo).open
<1>1. CASE cfg.installations = <<>>
  BY <1>1 DEF RoutingView, ScopeFor, ShownOpen, NoOverrides
<1>2. CASE cfg.installations # <<>> /\ ~ IsListed(cfg, i)
  <2>1. IdsOf(<<>>) = <<>>
    BY DEF IdsOf
  <2> QED
    BY <1>2, <2>1 DEF RoutingView, ScopeFor, ShownOpen, NoOverrides
<1>3. CASE cfg.installations # <<>> /\ IsListed(cfg, i)
  <2> DEFINE block == BlockFor(cfg, i)
  <2>1. /\ RoutingView(cfg, i) = [familiars |-> IdsShown(IdsOf(cfg.familiars), block),
                                  listed |-> TRUE, triggers |-> block.triggers,
                                  repos |-> block.repos]
        /\ ScopeFor(cfg, i, repo) = [familiars |-> Allowed(cfg, block),
                                     open |-> OpenLanes(block, repo)]
    BY <1>3 DEF RoutingView, ScopeFor
  <2>2. IdsShown(IdsOf(cfg.familiars), block) = IdsOf(Allowed(cfg, block))
    BY DEF IdsShown, IdsOf, Allowed, Kept
  <2> HIDE DEF block
  <2>3. /\ RoutingView(cfg, i).triggers = block.triggers /\ RoutingView(cfg, i).repos = block.repos
        /\ RoutingView(cfg, i).familiars = IdsShown(IdsOf(cfg.familiars), block)
        /\ ScopeFor(cfg, i, repo).familiars = Allowed(cfg, block)
        /\ ScopeFor(cfg, i, repo).open = OpenLanes(block, repo)
    BY <2>1
  <2>4. \A l \in Lane : ShownOpen(RoutingView(cfg, i), repo, l) <=> l \in OpenLanes(block, repo)
    BY <2>3 DEF ShownOpen, OpenLanes
  <2> QED
    BY <2>2, <2>3, <2>4
<1> QED
  BY <1>1, <1>2, <1>3

\* An operator who looks at the dashboard sees the familiars and lanes that
\* deliveries are routed by: Config::routing_view and Config::scope_for agree.
THEOREM DashboardShowsRoutingHolds == Spec => []DashboardShowsRouting
<1>1. Answered => DashboardShowsRouting
  <2> SUFFICES ASSUME Answered PROVE DashboardShowsRouting
    OBVIOUS
  <2> DEFINE view  == RoutingView(config, payload.installation)
             scope == ScopeFor(config, payload.installation, payload.repo)
  <2>1. /\ view.familiars = IdsOf(scope.familiars)
        /\ \A l \in Lane : ShownOpen(view, payload.repo, l) <=> l \in scope.open
    BY ViewOfScope
  <2>2. ASSUME Routed
        PROVE  /\ task.familiar \in ToSet(view.familiars)
               /\ ShownOpen(view, payload.repo, LaneOf(payload))
               /\ config.installations # <<>> => view.listed
    <3>1. PICK n \in Nat : RoutedTo(config, payload, n)
      BY <2>2, RoutedIsServed
    <3>2. n \in DOMAIN scope.familiars /\ task.familiar = scope.familiars[n].id
      BY <3>1 DEF RoutedTo, Answered
    <3>3. task.familiar \in ToSet(view.familiars)
      BY <2>1, <3>2 DEF IdsOf, ToSet
    <3>4. LaneOf(payload) \in scope.open /\ LaneOf(payload) \in Lane
      BY <3>1 DEF RoutedTo, LaneOf, Lane
    <3>5. config.installations # <<>> => view.listed
      BY <3>2 DEF ScopeFor, RoutingView
    <3> QED
      BY <2>1, <3>3, <3>4, <3>5
  <2> QED
    BY <2>1, <2>2 DEF DashboardShowsRouting
<1> QED
  BY <1>1, AnsweredHolds, PTL

\* A familiar is set to work by somebody else, who has to pass the worker's
\* permission gate: parse_command, command_task and the loop guard of
\* event_to_task, for every scope and every command.
THEOREM SetToWorkByOthersHolds == Spec => []SetToWorkByOthers
<1>1. Answered => SetToWorkByOthers
  <2> SUFFICES ASSUME Answered, Routed PROVE SetToWorkByOthers
    BY DEF SetToWorkByOthers
  <2> DEFINE F == ScopeFor(config, payload.installation, payload.repo).familiars
  <2>1. PICK n \in Nat : RoutedTo(config, payload, n)
    BY RoutedIsServed
  <2>2. /\ n \in DOMAIN F /\ task.familiar = F[n].id
        /\ ParseEvent(payload) \in Comment => payload.actor # F[n].bot
        /\ ParseEvent(payload) = "PullRequestChanged" => ~ OwnAuthor(config, payload)
    BY <2>1 DEF RoutedTo, Answered
  <2>3. n \in DOMAIN config.familiars /\ F[n] = config.familiars[n]
    BY <2>2, ScopePositions, FamiliarsAreListed DEF Answered
  <2>4. ASSUME NEW f \in ToSet(config.familiars), payload.actor = f.bot
        PROVE  /\ ParseEvent(payload) # "PullRequestChanged"
               /\ ParseEvent(payload) \in Comment => task.familiar # f.id
    <3>1. PICK m \in DOMAIN config.familiars : f = config.familiars[m]
      BY DEF ToSet
    <3>2. OwnAuthor(config, payload)
      BY <2>4, <3>1 DEF OwnAuthor
    <3>3. f.id = F[n].id => m = n
      BY <2>3, <3>1, RoutedIsServed, CheckedConfig
    <3> QED
      BY <2>2, <2>3, <2>4, <3>1, <3>2, <3>3
  <2>5. IF ParseEvent(payload) \in Comment
        THEN task.kind # "CommandReply" => task.commander = payload.actor
        ELSE task.commander = None /\ task.kind \in {"FixIssue", "ReviewPullRequest"}
    BY <2>1 DEF RoutedTo, Answered
  <2> QED
    BY <2>4, <2>5 DEF SetToWorkByOthers
<1> QED
  BY <1>1, AnsweredHolds, PTL
-----------------------------------------------------------------------------
(* The order of the familiars. *)

Backwards(cfg) == [cfg EXCEPT !.familiars = Reverse(@)]
Mirror(cfg, n) == Len(cfg.familiars) - n + 1

LEMMA BackwardsFacts ==
  ASSUME NEW cfg \in Configs
  PROVE  /\ Backwards(cfg).familiars \in Seq(Familiar)
         /\ DOMAIN Backwards(cfg).familiars = DOMAIN cfg.familiars
         /\ \A n \in DOMAIN cfg.familiars :
              /\ Mirror(cfg, n) \in DOMAIN cfg.familiars
              /\ Mirror(cfg, Mirror(cfg, n)) = n
              /\ Backwards(cfg).familiars[Mirror(cfg, n)] = cfg.familiars[n]
              /\ Backwards(cfg).familiars[n] = cfg.familiars[Mirror(cfg, n)]
         /\ Backwards(cfg).installations = cfg.installations
         /\ Backwards(cfg).review = cfg.review
<1>1. cfg.familiars \in Seq(Familiar) /\ {"familiars", "installations", "review"} \subseteq DOMAIN cfg
  BY RoutingAssumption
<1>2. /\ Backwards(cfg).installations = cfg.installations
      /\ Backwards(cfg).review = cfg.review
      /\ Backwards(cfg).familiars = Reverse(cfg.familiars)
  BY <1>1 DEF Backwards
<1>3. Reverse(cfg.familiars) \in Seq(Familiar) /\ DOMAIN Reverse(cfg.familiars) = DOMAIN cfg.familiars
  BY <1>1 DEF Reverse
<1>4. ASSUME NEW n \in DOMAIN cfg.familiars
      PROVE  /\ Mirror(cfg, n) \in DOMAIN cfg.familiars
             /\ Mirror(cfg, Mirror(cfg, n)) = n
             /\ Reverse(cfg.familiars)[Mirror(cfg, n)] = cfg.familiars[n]
             /\ Reverse(cfg.familiars)[n] = cfg.familiars[Mirror(cfg, n)]
  BY <1>1 DEF Mirror, Reverse
<1> QED
  BY <1>2, <1>3, <1>4

LEMMA ScopeBackwards ==
  ASSUME NEW cfg \in Configs, NEW i, NEW repo
  PROVE  LET F == ScopeFor(cfg, i, repo).familiars
             B == ScopeFor(Backwards(cfg), i, repo).familiars
         IN /\ DOMAIN F \in SUBSET Nat /\ DOMAIN B \in SUBSET Nat
            /\ \A n \in DOMAIN F : /\ n \in DOMAIN cfg.familiars /\ F[n] = cfg.familiars[n]
                                   /\ Mirror(cfg, n) \in DOMAIN B /\ B[Mirror(cfg, n)] = F[n]
            /\ \A n \in DOMAIN B : /\ Mirror(cfg, n) \in DOMAIN F /\ F[Mirror(cfg, n)] = B[n]
                                   /\ Mirror(cfg, Mirror(cfg, n)) = n
            /\ ScopeFor(Backwards(cfg), i, repo).open = ScopeFor(cfg, i, repo).open
<1> DEFINE rev == Backwards(cfg)
           F == ScopeFor(cfg, i, repo).familiars
           B == ScopeFor(rev, i, repo).familiars
<1>1. cfg.familiars \in Seq(Familiar) /\ rev.familiars \in Seq(Familiar)
  BY FamiliarsAreListed, BackwardsFacts
<1>2. \A id : Sees(rev, i, id) <=> Sees(cfg, i, id)
  BY BackwardsFacts DEF Sees, IsListed, BlockFor, BlocksOf
<1>3. ScopeFor(rev, i, repo).open = ScopeFor(cfg, i, repo).open
  BY BackwardsFacts DEF ScopeFor, IsListed, BlockFor, BlocksOf
<1> HIDE DEF rev
<1>4. /\ DOMAIN F = Visible(cfg, i) /\ DOMAIN B = Visible(rev, i)
      /\ DOMAIN F \in SUBSET Nat /\ DOMAIN B \in SUBSET Nat
      /\ \A n \in DOMAIN F : n \in DOMAIN cfg.familiars /\ F[n] = cfg.familiars[n]
      /\ \A n \in DOMAIN B : n \in DOMAIN rev.familiars /\ B[n] = rev.familiars[n]
  <2>1. F = Kept(cfg.familiars, Visible(cfg, i)) /\ B = Kept(rev.familiars, Visible(rev, i))
    BY <1>1, ScopeIsVisible
  <2>2. DOMAIN F = Visible(cfg, i) /\ DOMAIN B = Visible(rev, i)
    BY <2>1 DEF Kept
  <2> QED
    BY <1>1, <2>2, ScopePositions
<1>5. ASSUME NEW n \in DOMAIN F
      PROVE  Mirror(cfg, n) \in DOMAIN B /\ B[Mirror(cfg, n)] = F[n]
  <2>1. /\ n \in DOMAIN cfg.familiars /\ Sees(cfg, i, cfg.familiars[n].id)
        /\ rev.familiars[Mirror(cfg, n)] = cfg.familiars[n]
        /\ Mirror(cfg, n) \in DOMAIN rev.familiars
    BY <1>4, BackwardsFacts DEF Visible, rev
  <2>2. Mirror(cfg, n) \in Visible(rev, i)
    BY <1>2, <2>1 DEF Visible
  <2> QED
    BY <1>4, <2>1, <2>2
<1>6. ASSUME NEW n \in DOMAIN B
      PROVE  /\ Mirror(cfg, n) \in DOMAIN F /\ F[Mirror(cfg, n)] = B[n]
             /\ Mirror(cfg, Mirror(cfg, n)) = n
  <2>1. n \in DOMAIN rev.familiars /\ Sees(rev, i, rev.familiars[n].id)
    BY <1>4 DEF Visible
  <2>2. /\ rev.familiars[n] = cfg.familiars[Mirror(cfg, n)]
        /\ Mirror(cfg, n) \in DOMAIN cfg.familiars
        /\ Mirror(cfg, Mirror(cfg, n)) = n
    BY <2>1, BackwardsFacts DEF rev
  <2>3. Mirror(cfg, n) \in Visible(cfg, i)
    BY <1>2, <2>1, <2>2 DEF Visible
  <2> QED
    BY <1>4, <2>2, <2>3
<1> QED
  BY <1>3, <1>4, <1>5, <1>6 DEF rev

\* When at most one familiar fits, both orders find it.
LEMMA OneFits ==
  ASSUME NEW cfg \in Configs, NEW i, NEW repo, NEW S, NEW T,
         S \subseteq DOMAIN ScopeFor(cfg, i, repo).familiars,
         T \subseteq DOMAIN ScopeFor(Backwards(cfg), i, repo).familiars,
         \A n \in S : Mirror(cfg, n) \in T,
         \A n \in T : Mirror(cfg, n) \in S,
         \A m, n \in S : m = n
  PROVE  First(ScopeFor(cfg, i, repo).familiars, S)
           = First(ScopeFor(Backwards(cfg), i, repo).familiars, T)
<1> DEFINE F == ScopeFor(cfg, i, repo).familiars
           B == ScopeFor(Backwards(cfg), i, repo).familiars
<1>1. S \in SUBSET Nat /\ T \in SUBSET Nat
  BY ScopeBackwards
<1>2. CASE S = {}
  <2>1. T = {}
    BY <1>2
  <2> QED
    BY <1>2, <2>1 DEF First
<1>3. CASE S # {}
  <2>1. PICK n \in S : TRUE
    BY <1>3
  <2>2. First(F, S) = F[n]
    BY <1>1, FirstOfOne
  <2>3. \A m \in T : m = Mirror(cfg, n)
    BY ScopeBackwards
  <2>4. First(B, T) = B[Mirror(cfg, n)]
    BY <1>1, <2>3, FirstOfOne
  <2> QED
    BY <2>2, <2>4, ScopeBackwards
<1> QED
  BY <1>2, <1>3
\* Outside the slash command a familiar answers to its own handle.
LEMMA AnswersToHandle ==
  ASSUME NEW f, NEW body, ~ SlashGarden(body), Commanded(f, body)
  PROVE  f.handle = body[1].at
BY DEF Commanded, ParseMention, Names

LEMMA SameAddressee ==
  ASSUME NEW cfg \in Configs, NEW p, Errors(cfg) = {}, ~ SlashGarden(p.body),
         \A f, g \in ToSet(cfg.familiars) : f.handle = g.handle => f.bot = g.bot
  PROVE  LET scope == ScopeFor(cfg, p.installation, p.repo)
             back  == ScopeFor(Backwards(cfg), p.installation, p.repo)
         IN /\ Addressee(scope, p.body, p.actor) = Addressee(back, p.body, p.actor)
            /\ First(scope.familiars, Assigned(scope, p)) = First(back.familiars, Assigned(back, p))
            /\ \A id : First(scope.familiars, WithId(scope, id))
                         = First(back.familiars, WithId(back, id))
<1> DEFINE scope == ScopeFor(cfg, p.installation, p.repo)
           back  == ScopeFor(Backwards(cfg), p.installation, p.repo)
           F == scope.familiars
           B == back.familiars
           Hits(L) == {n \in DOMAIN L : p.actor # L[n].bot /\ Commanded(L[n], p.body)}
<1>1. /\ \A n \in DOMAIN F : /\ n \in DOMAIN cfg.familiars /\ F[n] = cfg.familiars[n]
                             /\ Mirror(cfg, n) \in DOMAIN B /\ B[Mirror(cfg, n)] = F[n]
      /\ \A n \in DOMAIN B : Mirror(cfg, n) \in DOMAIN F /\ F[Mirror(cfg, n)] = B[n]
  BY ScopeBackwards
<1>2. \A m, n \in DOMAIN F : F[m].id = F[n].id \/ F[m].bot = F[n].bot => m = n
  BY <1>1, CheckedConfig
<1>3. First(F, Hits(F)) = First(B, Hits(B))
  <2>1. ASSUME NEW m \in Hits(F), NEW n \in Hits(F) PROVE m = n
    <3>1. F[m].handle = F[n].handle
      BY <2>1, AnswersToHandle
    <3>2. F[m] \in ToSet(cfg.familiars) /\ F[n] \in ToSet(cfg.familiars)
      BY <1>1 DEF ToSet
    <3> QED
      BY <1>2, <3>1, <3>2
  <2>2. /\ \A n \in Hits(F) : Mirror(cfg, n) \in Hits(B)
        /\ \A n \in Hits(B) : Mirror(cfg, n) \in Hits(F)
    BY <1>1
  <2>3. Hits(F) \subseteq DOMAIN F /\ Hits(B) \subseteq DOMAIN B
    OBVIOUS
  <2> HIDE DEF Hits
  <2> QED
    BY <2>1, <2>2, <2>3, OneFits
<1>4. First(F, Assigned(scope, p)) = First(B, Assigned(back, p))
  <2>1. /\ \A n \in Assigned(scope, p) : Mirror(cfg, n) \in Assigned(back, p)
        /\ \A n \in Assigned(back, p) : Mirror(cfg, n) \in Assigned(scope, p)
        /\ Assigned(scope, p) \subseteq DOMAIN F /\ Assigned(back, p) \subseteq DOMAIN B
        /\ \A m, n \in Assigned(scope, p) : m = n
    BY <1>1, <1>2 DEF Assigned
  <2> QED
    BY <2>1, OneFits
<1>5. ASSUME NEW id PROVE First(F, WithId(scope, id)) = First(B, WithId(back, id))
  <2>1. /\ \A n \in WithId(scope, id) : Mirror(cfg, n) \in WithId(back, id)
        /\ \A n \in WithId(back, id) : Mirror(cfg, n) \in WithId(scope, id)
        /\ WithId(scope, id) \subseteq DOMAIN F /\ WithId(back, id) \subseteq DOMAIN B
        /\ \A m, n \in WithId(scope, id) : m = n
    BY <1>1, <1>2 DEF WithId
  <2> QED
    BY <2>1, OneFits
<1>6. Addressee(scope, p.body, p.actor) = Addressee(back, p.body, p.actor)
  BY <1>3 DEF Addressee
<1> QED
  BY <1>4, <1>5, <1>6

\* An assignment, a mention and an automatic review have one addressee whatever
\* the order of the [[familiars]] blocks: what Config::check refuses is enough
\* for the find() of event_to_task and parse_command to be no race.
THEOREM OneAddresseeHolds == Spec => []OneAddressee
<1>1. Answered => OneAddressee
  <2> SUFFICES ASSUME Answered, up, ~SharedHandle, payload.action # "labeled",
                      ~SlashGarden(payload.body)
               PROVE  Route(Reversed, payload) = task
    BY DEF OneAddressee
  <2> DEFINE p     == payload
             rev   == Backwards(config)
             scope == ScopeFor(config, p.installation, p.repo)
             back  == ScopeFor(rev, p.installation, p.repo)
             kind  == ParseEvent(p)
  <2>1. config \in Configs /\ Errors(config) = {} /\ Reversed = rev /\ task = Route(config, p)
    BY DEF Answered, Reversed, Backwards
  <2>2. /\ Addressee(scope, p.body, p.actor) = Addressee(back, p.body, p.actor)
        /\ First(scope.familiars, Assigned(scope, p)) = First(back.familiars, Assigned(back, p))
        /\ \A id : First(scope.familiars, WithId(scope, id))
                     = First(back.familiars, WithId(back, id))
    BY <2>1, SameAddressee DEF SharedHandle
  <2>3. back.open = scope.open
    BY <2>1, ScopeBackwards
  <2>4. /\ AssignmentTask(back, p) = AssignmentTask(scope, p)
        /\ CommandTask(back, p) = CommandTask(scope, p)
        /\ AutomaticReview(rev, back, p) = AutomaticReview(config, scope, p)
    <3>1. AssignmentTask(back, p) = AssignmentTask(scope, p)
      BY <2>2, <2>3 DEF AssignmentTask
    <3>2. CommandTask(back, p) = CommandTask(scope, p)
      BY <2>2, <2>3 DEF CommandTask
    <3>3. rev.review = config.review
      BY <2>1, BackwardsFacts
    <3>4. AutomaticReview(rev, back, p) = AutomaticReview(config, scope, p)
      BY <2>2, <2>3, <3>3
      DEF AutomaticReview, PullRequestEnabled, DraftsIncluded, Reviewer, ReviewOverride
    <3> QED
      BY <3>1, <3>2, <3>4
  <2>5. OwnAuthor(rev, p) <=> OwnAuthor(config, p)
    <3>1. /\ DOMAIN rev.familiars = DOMAIN config.familiars
          /\ \A n \in DOMAIN config.familiars :
               /\ Mirror(config, n) \in DOMAIN config.familiars
               /\ rev.familiars[Mirror(config, n)] = config.familiars[n]
               /\ rev.familiars[n] = config.familiars[Mirror(config, n)]
      BY <2>1, BackwardsFacts
    <3> HIDE DEF rev, p
    <3> QED
      BY <3>1 DEF OwnAuthor
  <2>6. kind # "IssueLabeled" /\ p.action # "labeled"
    BY KindsOfEvent
  <2> HIDE DEF rev, scope, back, p
  <2>7. Route(rev, p) = Route(config, p)
    BY <2>4, <2>5, <2>6 DEF Route, scope, back
  <2> QED
    BY <2>1, <2>7 DEF p
<1> QED
  BY <1>1, AnsweredHolds, PTL

\* An automatic review the policy asks for is routed: ReviewerMissing of
\* Config::check leaves no lane open whose reviewer does not exist.
THEOREM ReviewsReachReviewerHolds == Spec => []ReviewsReachReviewer
<1>1. Answered => ReviewsReachReviewer
  <2> DEFINE p        == payload
             scope    == ScopeFor(config, p.installation, p.repo)
             override == ReviewOverride(config, p.repo)
             reviewer == Reviewer(config, p.repo)
  <2> SUFFICES ASSUME Answered,
                      ParseEvent(p) = "PullRequestChanged", p.action # "labeled",
                      ~OwnAuthor(config, p), "reviews" \in scope.open,
                      PullRequestEnabled(config, p.repo),
                      p.draft => DraftsIncluded(config, p.repo),
                      reviewer \in FamiliarIds(config) =>
                        reviewer \in {f.id : f \in ToSet(scope.familiars)},
                      override.familiar # None => override.pull_request # None
               PROVE  Routed
    BY DEF ReviewsReachReviewer
  <2>1. Errors(config) = {} /\ config \in Configs
    BY KindsOfEvent DEF Answered
  <2>2. ~ ReviewerMissing(config) /\ None \notin FamiliarIds(config)
    BY <2>1, CheckedConfig
  <2>3. reviewer \in FamiliarIds(config)
    <3>1. CASE p.repo \in DOMAIN config.review.repos
               /\ config.review.repos[p.repo].pull_request = "on"
      BY <2>2, <3>1 DEF ReviewerMissing, Reviewer, ReviewOverride
    <3>2. CASE ~ (p.repo \in DOMAIN config.review.repos
                  /\ config.review.repos[p.repo].pull_request = "on")
      <4>1. override.pull_request # "on"
        BY <3>2 DEF ReviewOverride, None
      <4>2. override.pull_request = None /\ config.review.pull_request
        BY <4>1 DEF PullRequestEnabled, Switched
      <4>3. reviewer = config.review.familiar
        BY <4>2 DEF Reviewer, Or
      <4> QED
        BY <2>2, <4>2, <4>3 DEF ReviewerMissing
    <3> QED
      BY <3>1, <3>2
  <2>4. PICK n \in DOMAIN scope.familiars : scope.familiars[n].id = reviewer
    BY <2>3 DEF ToSet
  <2>5. WithId(scope, reviewer) \in SUBSET Nat /\ WithId(scope, reviewer) # {}
    BY <2>1, <2>4, FamiliarsAreListed, ScopePositions DEF WithId
  <2>6. PICK m \in WithId(scope, reviewer) :
          First(scope.familiars, WithId(scope, reviewer)) = scope.familiars[m]
    BY <2>5, FirstIsThere
  <2>7. scope.familiars[m].id = reviewer /\ reviewer # None
    BY <2>2, <2>3, <2>6 DEF WithId
  <2>8. scope.familiars[m] # NoFamiliar
    BY <2>7 DEF NoFamiliar
  <2>9. task = AutomaticReview(config, scope, p)
    BY DEF Route, Answered
  <2>10. AutomaticReview(config, scope, p)
           = TaskFor(p, First(scope.familiars, WithId(scope, reviewer)), "ReviewPullRequest", None)
    BY <2>7 DEF AutomaticReview
  <2>11. task.kind = "ReviewPullRequest"
    BY <2>6, <2>8, <2>9, <2>10 DEF TaskFor
  <2> QED
    BY <2>11 DEF Routed, NoTask, None
<1> QED
  BY <1>1, AnsweredHolds, PTL
=============================================================================
