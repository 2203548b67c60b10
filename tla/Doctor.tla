------------------------------- MODULE Doctor -------------------------------
(***************************************************************************)
(* Config::check (crates/config/lib.rs), the validation behind the doctor  *)
(* command, as the set of fields it reports an error for; the server does  *)
(* not start while there is one (crates/server/main.rs).  Warnings stop    *)
(* nobody and are left out.  A path, a secret and a policy word are        *)
(* members of small sets that say what the check finds out about them; an  *)
(* optional number is a set of at most one.                                *)
(***************************************************************************)
EXTENDS Routing

Severity    == {"info", "low", "medium", "high", "critical"}
PublishMode == {"check_run", "advisory_comment", "request_changes"}

\* A policy word as it is written; check compares it in lower case.
Lower(word) == IF word = "REQUEST_CHANGES" THEN "request_changes" ELSE word

KnownPolicy(severity, publish) ==
  /\ severity = None \/ Lower(severity) \in Severity
  /\ publish = None \/ Lower(publish) \in PublishMode

RangeOf(seq) == {seq[n] : n \in DOMAIN seq}

Unique(seq, Key(_)) ==
  \A m, n \in DOMAIN seq : Key(seq[m]) = Key(seq[n]) => m = n

FamiliarIds(cfg) == {f.id : f \in RangeOf(cfg.familiars)}

\* The tokens of the task API, as check compares them: trimmed.
ApiTokens(cfg) ==
  (IF cfg.api.service = None THEN <<>> ELSE <<cfg.api.service>>)
  \o [n \in DOMAIN cfg.api.tenants |-> cfg.api.tenants[n].token]

\* Wrong on purpose: two familiars may answer to one login.
BotsWrongIfMissing(cfg) == \E f \in RangeOf(cfg.familiars) : f.bot = None

BotsWrong(cfg) ==
  \/ \E f \in RangeOf(cfg.familiars) : f.bot = None
  \/ ~Unique(cfg.familiars, LAMBDA f : f.bot)

\* Wrong on purpose: only the global section is looked at.
ReviewerMissingGlobally(cfg) ==
  cfg.review.pull_request /\ cfg.review.familiar \notin FamiliarIds(cfg)

\* The reviewer of the section when its lane is on, and of each override that
\* switches the lane on itself.
ReviewerMissing(cfg) ==
  \/ cfg.review.pull_request /\ cfg.review.familiar \notin FamiliarIds(cfg)
  \/ \E r \in DOMAIN cfg.review.repos :
       /\ cfg.review.repos[r].pull_request = "on"
       /\ Or(cfg.review.repos[r].familiar, cfg.review.familiar) \notin FamiliarIds(cfg)

-----------------------------------------------------------------------------
(* The sections of the check in its order: what each field is an error for. *)

AppComplaints(cfg) == [
  app_id            |-> cfg.github.app_id = 0,
  private_key_path  |-> cfg.github.key \in {"missing", "directory"},
  webhook_secret    |-> cfg.github.secret \in {"empty", "placeholder"}]

WorkerComplaints(cfg) == [
  concurrency       |-> cfg.worker.concurrency = 0,
  coven_code_bin    |-> cfg.worker.backend = "host" /\ ~cfg.worker.bin,
  backend           |-> /\ cfg.worker.backend = "host"
                        /\ cfg.installations # <<>>
                        /\ ~cfg.worker.allow_host,
  docker_bin        |-> cfg.worker.backend = "container" /\ ~cfg.worker.docker,
  image             |-> cfg.worker.backend = "container" /\ ~cfg.worker.image]

FamiliarComplaints(cfg) == [
  familiars         |-> cfg.familiars = <<>>,
  familiar_id       |-> \/ None \in FamiliarIds(cfg)
                        \/ ~Unique(cfg.familiars, LAMBDA f : f.id),
  bot_username      |-> BotsWrong(cfg)]

StorageComplaints(cfg) == [storage_path |-> cfg.storage = "directory"]

ApiComplaints(cfg) == [
  api_mode          |-> cfg.api.mode = "token" /\ ApiTokens(cfg) = <<>>,
  api_token         |-> ~Unique(ApiTokens(cfg), LAMBDA t : t)]

InstallationComplaints(cfg) == [
  installation_id   |-> \/ \E b \in RangeOf(cfg.installations) : b.id = None
                        \/ ~Unique(cfg.installations, LAMBDA b : b.id),
  allow_list        |-> \E b \in RangeOf(cfg.installations) :
                          ~(b.familiars \subseteq FamiliarIds(cfg)),
  limits            |-> \E b \in RangeOf(cfg.installations) :
                          0 \in b.max_concurrent \union b.max_tasks_per_day]

ReviewComplaints(cfg) == [
  review_familiar   |-> ReviewerMissing(cfg),
  review_policy     |-> \E o \in {cfg.review} \union RangeOf(cfg.review.repos) :
                          ~KnownPolicy(o.min_severity, o.publish)]

GardenerComplaints(cfg) == [
  autonomy          |-> \E o \in {cfg.gardener} \union RangeOf(cfg.gardener.repos) :
                          o.autonomy \notin {None, "propose", "prune-dead"},
  schedule          |-> \E o \in {cfg.gardener} \union RangeOf(cfg.gardener.repos) :
                          o.schedule = "malformed"]

Reported(complaints) == {field \in DOMAIN complaints : complaints[field]}

Errors(cfg) ==
  UNION {Reported(c) : c \in {AppComplaints(cfg), WorkerComplaints(cfg),
                              FamiliarComplaints(cfg), StorageComplaints(cfg),
                              ApiComplaints(cfg), InstallationComplaints(cfg),
                              ReviewComplaints(cfg), GardenerComplaints(cfg)}}
=============================================================================
