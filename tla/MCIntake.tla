------------------------------ MODULE MCIntake ------------------------------
(***************************************************************************)
(* Two requests at a time.  "acme" has an [[installations]] block with a   *)
(* quota of one task a day and opens, pushes to and asks about one pull    *)
(* request before it uninstalls; "hosted" lives on a Marketplace plan that *)
(* is bought and cancelled, and has one scheduled gardener run.  Any three *)
(* requests arrive, in any order and any of them again, with one fault.    *)
(***************************************************************************)
EXTENDS Intake, TLC

R == INSTANCE Routing

Config ==
  [familiars |-> <<[id |-> "cody", bot |-> "cody[bot]", handle |-> "cody", labels |-> {}]>>,
   installations |-> <<>>,
   review |-> [pull_request |-> TRUE, drafts |-> FALSE, familiar |-> "cody",
               repos |-> R!NoOverrides]]

Payload(event, action, has, installation, body) ==
  [event |-> event, action |-> action, has |-> {"installation", "repository"} \union has,
   installation |-> installation, repo |-> "app", actor |-> "ann", label |-> "none",
   body |-> body, draft |-> FALSE]

Push(action, installation) ==
  Payload("pull_request", action, {"pull_request", "title", "head", "base", "user"},
          installation, <<>>)

Ask(installation) ==
  Payload("issue_comment", "created", {"issue", "comment"}, installation,
          <<[at |-> "cody", glued |-> FALSE, tail |-> "", text |-> "@cody"],
            [at |-> "none", glued |-> FALSE, tail |-> "", text |-> "fix"]>>)

MCPayload == [open |-> Push("opened", "acme"), push |-> Push("synchronize", "acme"),
              fix  |-> Ask("acme"),            ask  |-> Ask("hosted")]

Ev(kind, installation, commander) ==
  [kind |-> kind, installation |-> installation, pr |-> "pr", commander |-> commander]

MCEvent ==
  [open    |-> Ev("review", "acme", "nobody"),  push   |-> Ev("review", "acme", "nobody"),
   fix     |-> Ev("fix", "acme", "writer"),     ask    |-> Ev("fix", "hosted", "writer"),
   nightly |-> Ev("garden", "hosted", "nobody"),
   gone    |-> Ev("ignored", "acme", "nobody"),
   hello   |-> Ev("ignored", "hosted", "nobody"),
   bye     |-> Ev("ignored", "hosted", "nobody"),
   buy     |-> Ev("ignored", "no tenant", "nobody"),
   cancel  |-> Ev("ignored", "no tenant", "nobody"),
   ping    |-> Ev("ignored", "no tenant", "nobody")]

\* The store's view of a routed task.
EventOfTask(task) ==
  Ev(CASE task.kind = "ReviewPullRequest" -> "review"
       [] task.kind = "FixIssue"          -> "fix",
     task.installation,
     IF task.commander = "none" THEN "nobody" ELSE "writer")

\* The events of the four payloads are what Routing makes of them.
ASSUME MCEventsAreRouted ==
  \A d \in DOMAIN MCPayload : MCEvent[d] = EventOfTask(R!Route(Config, MCPayload[d]))

MCDelivery == DOMAIN MCEvent
MCClass == [open |-> "work", push |-> "work", fix |-> "work", ask |-> "work",
            nightly |-> "scheduled", gone |-> "uninstalled",
            hello |-> "installed", bye |-> "uninstalled",
            buy |-> "purchase", cancel |-> "purchase",
            ping |-> "other"]
MCSource == [o |-> "open", o2 |-> "open", p |-> "push", f |-> "fix", a |-> "ask", n |-> "nightly"]
MCTask   == DOMAIN MCSource

Words(action) == [tier |-> ParseTier({"starter"}), state |-> StateAfter(action, FALSE)]
MCChange    == [d \in MCDelivery |-> Words(IF d = "cancel" THEN "cancelled" ELSE "purchased")]
MCPurchaser == [d \in MCDelivery |-> "org"]
MCInstallation == {"acme", "hosted", "no tenant"}
MCOwnerOf   == [i \in MCInstallation |-> "org"]
MCExplicit  == [i \in MCInstallation |-> IF i = "acme" THEN {1} ELSE {}]
MCCap       == [i \in MCInstallation |-> 1]
MCTierPerDay == [starter |-> 1, team |-> 2]

Handlers == Permutations(Handler)
=============================================================================
