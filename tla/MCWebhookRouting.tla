-------------------------- MODULE MCWebhookRouting --------------------------
(***************************************************************************)
(* Two repositories of one installation and every kind of configuration    *)
(* file about them: open and listed deployments, allow-lists, overrides,   *)
(* duplicate blocks, reviewers that exist or do not, and one broken field  *)
(* at a time of the rest.                                                  *)
(***************************************************************************)
EXTENDS WebhookRouting

Fam(id, handle, bot, labels) ==
  [id |-> id, bot |-> bot, handle |-> handle, labels |-> labels]

Cody  == Fam("cody", "cody", "cody[bot]", {"fix"})
Sage  == Fam("sage", "sage", "sage[bot]", {"fix", "review"})
Twin  == Fam("twin", "cody", "cody[bot]", {})
Plain == Fam("plain", "cody", "cody", {})

FamiliarLists == {<<Cody, Sage>>, <<Cody, Twin>>, <<Cody, Plain>>, <<Cody, Cody>>}

Inherit == [l \in Lane |-> None]
Block(id, familiars, triggers, repos) ==
  [id |-> id, familiars |-> familiars, triggers |-> triggers, repos |-> repos,
   max_concurrent |-> {1}, max_tasks_per_day |-> {}]
Override(enabled, lanes) == [app |-> [enabled |-> enabled, lanes |-> lanes]]

Everything == Block("acme", {}, Lane, NoOverrides)
InstallationLists ==
  {<<>>, <<Everything>>,
   <<Block("acme", {"sage"}, Lane \ {"reviews"}, Override("off", [Inherit EXCEPT !["commands"] = "on"]))>>,
   <<Block("acme", {"cody"}, {"reviews"}, Override(None, [Inherit EXCEPT !["commands"] = "on"]))>>,
   <<Block("other", {}, Lane, NoOverrides)>>,
   <<Everything, Block("acme", {"ghost"}, {}, NoOverrides)>>}

Review(on, familiar, repos) ==
  [pull_request |-> on, drafts |-> FALSE, familiar |-> familiar, min_severity |-> None,
   publish |-> None, repos |-> repos]
ForApp(on, drafts, familiar) ==
  [app |-> [pull_request |-> on, drafts |-> drafts, familiar |-> familiar,
            min_severity |-> None, publish |-> None]]

ReviewPolicies ==
  {Review(FALSE, None, NoOverrides), Review(TRUE, "cody", NoOverrides),
   Review(TRUE, None, NoOverrides), Review(FALSE, None, ForApp("on", None, None)),
   Review(FALSE, None, ForApp("on", "on", "sage")),
   Review(TRUE, "cody", ForApp(None, None, "ghost"))}

Good ==
  [github        |-> [app_id |-> 1, key |-> "pem", secret |-> "long"],
   worker        |-> [concurrency |-> 2, backend |-> "container", bin |-> FALSE,
                      allow_host |-> FALSE, docker |-> TRUE, image |-> TRUE],
   familiars     |-> <<Cody, Sage>>,
   installations |-> <<Everything>>,
   storage       |-> "file",
   api           |-> [mode |-> "token", service |-> "service", tenants |-> <<>>],
   review        |-> Review(TRUE, "cody", NoOverrides),
   gardener      |-> [autonomy |-> "propose", schedule |-> "4:00", repos |-> NoOverrides]]

OneFault ==
  {[Good EXCEPT !.github.app_id = 0], [Good EXCEPT !.github.key = "missing"],
   [Good EXCEPT !.github.secret = "placeholder"], [Good EXCEPT !.worker.concurrency = 0],
   [Good EXCEPT !.worker.backend = "host"], [Good EXCEPT !.worker.docker = FALSE],
   [Good EXCEPT !.worker.image = FALSE], [Good EXCEPT !.familiars = <<>>],
   [Good EXCEPT !.storage = "directory"], [Good EXCEPT !.api.service = None],
   [Good EXCEPT !.installations[1].max_tasks_per_day = {0}],
   [Good EXCEPT !.review.publish = "loud"], [Good EXCEPT !.gardener.autonomy = "full"],
   [Good EXCEPT !.gardener.schedule = "malformed"]}

MCConfigs ==
  OneFault \union
  {[Good EXCEPT !.familiars = f, !.installations = i, !.review = r] :
     f \in FamiliarLists, i \in InstallationLists, r \in ReviewPolicies}

-----------------------------------------------------------------------------

Objects(event) ==
  CASE event = "issues"        -> {"issue", "assignee", "label"}
    [] event = "issue_comment" -> {"issue", "comment"}
    [] event = "pull_request"  -> {"pull_request", "title", "head", "base", "user"}
    [] event = "push"          -> {"ref", "before", "after", "sender"}
    [] OTHER                   -> {"pull_request", "review", "comment"}

Payload(event, action, repo, actor) ==
  [event |-> event, action |-> action, repo |-> repo, actor |-> actor,
   has |-> {"installation", "repository"} \union Objects(event),
   installation |-> "acme", label |-> None, body |-> <<>>, draft |-> FALSE]

Word(text)         == [at |-> None, glued |-> FALSE, tail |-> "", text |-> text]
At(handle, tail)   == [at |-> handle, glued |-> FALSE, tail |-> tail, text |-> None]
Glued(handle)      == [At(handle, "") EXCEPT !.glued = TRUE]

Bodies ==
  {<<At("cody", ""), Word(v)>> : v \in Verb \union {"dance"}} \union
  {<<>>, <<At("cody", "")>>, <<At("cody", ":"), Word("fix")>>,
   <<At("cody", "x"), Word("fix")>>, <<At("cody", ","), Word("fix")>>,
   <<Glued("cody"), Word("fix")>>, <<Word("thanks"), At("cody", ""), Word("fix")>>,
   <<At("sage", ""), Word("fix"), At("cody", "")>>, <<Word("/coven"), Word("garden")>>}

Actors == {"ann", "cody[bot]", "sage[bot]"}

Says(event, action) ==
  {[Payload(event, action, r, a) EXCEPT !.body = b] :
     r \in {"app", "lib"}, a \in Actors, b \in Bodies}

MCPayloads ==
  Says("issue_comment", "created") \union
  {[p EXCEPT !.has = @ \union {"issue.pull_request"}] : p \in Says("issue_comment", "created")} \union
  {[Payload("pull_request_review", "submitted", "app", "ann") EXCEPT !.body = b] : b \in Bodies} \union
  {[Payload("pull_request_review_comment", "created", "app", "ann") EXCEPT !.body = b] : b \in Bodies} \union
  {Payload("issues", "assigned", r, a) : r \in {"app", "lib"}, a \in Actors} \union
  {[Payload(e, "labeled", r, a) EXCEPT !.label = l] :
     e \in {"issues", "pull_request"}, r \in {"app", "lib"}, a \in Actors, l \in {"fix", None}} \union
  {[Payload("pull_request", act, r, a) EXCEPT !.draft = d] :
     act \in {"opened", "synchronize", "closed"}, r \in {"app", "lib"}, a \in Actors,
     d \in BOOLEAN} \union
  {Payload("push", None, "app", "ann"), Payload("fork", None, "app", "ann"),
   [Payload("issues", "assigned", "app", "cody[bot]") EXCEPT !.has = {"repository", "issue"}]}
=============================================================================
