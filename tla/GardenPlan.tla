------------------------------ MODULE GardenPlan ------------------------------
(***************************************************************************)
(* The judgements of the Branch Gardener: its policy for a repository, the *)
(* fate of a branch given the facts of a scan (crates/gardener), and the   *)
(* runs a minute of the schedule asks for (worker/gardener_schedule.rs).   *)
(*                                                                         *)
(* A branch name, like a pattern, is the sequence of its pieces, "*" being *)
(* one; a schedule is its minute of the day, or Malformed; a field of an   *)
(* override is a sequence of at most one value.                            *)
(***************************************************************************)
EXTENDS Integers, FiniteSets, Sequences

CONSTANTS
  Repo,       \* repositories, "owner/name"
  RepoOrder,  \* their names in the order a BTreeSet keeps them
  OwnerOf,    \* OwnerOf[r]: the part before the slash
  Sanitized,  \* Sanitized[r]: sanitize_id of the name
  Day         \* minutes of a day, 1440

Malformed == -1
Anyone    == "anyone"

ASSUME GardenPlanAssumption ==
  /\ RepoOrder \in Seq(Repo)
  /\ \A r \in Repo : \E n \in DOMAIN RepoOrder : RepoOrder[n] = r
  /\ Day \in Nat \ {0}

-----------------------------------------------------------------------------
(* GardenerConfig: a per-repo override, when there is one, field by field. *)

Field(cfg, r, field) ==
  IF r \in DOMAIN cfg.repos /\ cfg.repos[r][field] # <<>>
    THEN cfg.repos[r][field][1] ELSE cfg[field]

\* Only "prune-dead" prunes; whatever else is written proposes.
Policy(cfg, r) ==
  [enabled  |-> Field(cfg, r, "enabled"),
   prunes   |-> Field(cfg, r, "autonomy") = "prune-dead",
   schedule |-> Field(cfg, r, "schedule"),
   exclude  |-> Field(cfg, r, "exclude")]

-----------------------------------------------------------------------------
(* classify and plan. *)

\* A literal, or a prefix before one trailing star.
Matches(name, pattern) ==
  LET n == Len(pattern) - 1 IN
  \/ name = pattern
  \/ /\ n >= 0
     /\ pattern[n + 1] = "*"
     /\ \A k \in 1..n : pattern[k] # "*"
     /\ Len(name) >= n
     /\ \A k \in 1..n : name[k] = pattern[k]

\* Wrong on purpose: the exclude list is not looked at.
ExcludedByGitHub(fact, policy) == fact.default \/ fact.protected

\* What is never touched: the default branch, a protected one, an excluded one.
Excluded(fact, policy) ==
  \/ fact.default
  \/ fact.protected
  \/ \E pattern \in policy.exclude : Matches(fact.name, pattern)

\* A merged branch and a dead one differ in the reason reported only.
Class(fact, policy) ==
  IF Excluded(fact, policy) THEN "excluded"
  ELSE IF fact.open THEN "active"
  ELSE CASE fact.merged /\ fact.ahead = 0 -> "merged"
         [] ~fact.merged /\ fact.ahead = 0 -> "dead"
         [] OTHER -> "prless"

\* Wrong on purpose: no login that is not a bot's was seen.
BotOnlySeen(fact) == \A login \in fact.authors : login = "bot"

\* is_proven_bot_only: an incomplete or empty list of authors proves nothing.
BotOnly(fact) ==
  /\ ~fact.truncated
  /\ fact.authors # {}
  /\ \A login \in fact.authors : login = "bot"

\* The one section of the plan a branch goes to.
Fate(fact, policy) ==
  LET class == Class(fact, policy) IN
  CASE class = "excluded"                               -> "skipped"
    [] class \in {"merged", "dead"} /\ policy.prunes    -> "prune"
    [] class \in {"merged", "dead"} /\ ~policy.prunes   -> "would prune"
    [] class = "active"                                 -> "active"
    [] class = "prless" /\ BotOnly(fact)                -> "skipped"
    [] class = "prless" /\ ~BotOnly(fact)               -> "surface"

-----------------------------------------------------------------------------
(* The schedule.  An installation is [id, account, repos]. *)

\* parse_schedule and slot_id: only in the minute itself.
FiresAt(schedule, minute) == schedule # Malformed /\ minute % Day = schedule

Due(cfg, b, r, minute) ==
  /\ r \in DOMAIN cfg.repos \union b.repos
  /\ b.account \in {Anyone, OwnerOf[r]}
  /\ Policy(cfg, r).enabled
  /\ FiresAt(Policy(cfg, r).schedule, minute)

\* The delivery id and the task id of a slot, which is its day and minute of
\* the day.  The delivery names the repository as it is, the task id only what
\* sanitize_id leaves of it.
SlotDelivery(i, r, minute) == <<"schedule", i, r, minute>>
SlotTask(i, r, minute)     == <<"garden", i, Sanitized[r], minute>>

\* The runs of a pass: a slot is the place of its installation among the
\* blocks and that of its repository among the names.
Slots(cfg, installations, minute) ==
  {s \in (DOMAIN installations) \X (DOMAIN RepoOrder) :
     Due(cfg, installations[s[1]], RepoOrder[s[2]], minute)}

\* They are recorded installation by installation.
IsFirst(s, slots) ==
  /\ s \in slots
  /\ \A q \in slots : s[1] < q[1] \/ (s[1] = q[1] /\ s[2] <= q[2])
=============================================================================
