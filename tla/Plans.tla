-------------------------------- MODULE Plans --------------------------------
(***************************************************************************)
(* Hosted plans: how the name of a Marketplace plan is classified, which   *)
(* states of a plan entitle to service, and the limits that follow         *)
(* (crates/config/lib.rs, docs/pricing.md).  An optional limit is a set of *)
(* at most one number, empty for unlimited.  A plan name is the set of the *)
(* tier words it contains, in any case of letters.                         *)
(***************************************************************************)
EXTENDS Naturals, FiniteSets

CONSTANT TierPerDay   \* max_tasks_per_day of the paid tiers, see PerDay

ASSUME PlanAssumption == TierPerDay \in [{"starter", "team"} -> Nat \ {0}]

Tier      == {"starter", "team", "dedicated", "unknown"}
PlanState == {"none", "active", "trial", "cancelled"}
IsLimit(L) == L \subseteq Nat /\ \A m, n \in L : m = n

\* PlanTier::parse: the first tier word decides.
ParseTier(name) ==
  CASE "starter" \in name -> "starter"
    [] "starter" \notin name /\ "team" \in name -> "team"
    [] name \intersect {"starter", "team"} = {} /\ "dedicated" \in name -> "dedicated"
    [] OTHER -> "unknown"

\* AccountPlan::entitled.
Entitling == {"active", "trial"}

\* PlanTier::limits: an unclassified plan is limited like the smallest one, a
\* Dedicated one by its contract only.
PerDay(tier) ==
  CASE tier \in {"starter", "unknown"} -> {TierPerDay["starter"]}
    [] tier = "team"                   -> {TierPerDay["team"]}
    [] OTHER                           -> {}

\* effective_limits: what the operator wrote wins, the tier fills in.
EffectivePerDay(explicit, tier) == IF explicit # {} THEN explicit ELSE PerDay(tier)

\* The state a marketplace action leaves the plan in; "none" for the pending
\* changes, which take effect with a later `changed`.
StateAfter(action, onTrial) ==
  CASE action \in {"purchased", "changed"} -> IF onTrial THEN "trial" ELSE "active"
    [] action = "cancelled"                -> "cancelled"
    [] OTHER                               -> "none"
=============================================================================
