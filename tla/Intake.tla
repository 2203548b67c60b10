------------------------------- MODULE Intake -------------------------------
(***************************************************************************)
(* The webhook intake as a concurrent program: any number of handlers, one *)
(* per request, each a sequence of store transactions with other requests, *)
(* the scheduler and the executors in between (handle_webhook and          *)
(* handle_marketplace_purchase of crates/webhook/routes.rs).  The process  *)
(* may die between any two of them, any of them may fail, and GitHub may   *)
(* deliver the same id again, also while it is being handled.              *)
(*                                                                         *)
(* The tables of TaskStore are extended by account_plans (`plan`),         *)
(* installation_accounts (`owner`) and memory_activity (`activity`, by the *)
(* task that reported it).  How an event is routed is Routing's; here      *)
(* Event[d] is its result and Class[d] the branch of handle_webhook.       *)
(***************************************************************************)
EXTENDS TaskStore, Plans

CONSTANTS
  Handler,      \* requests served at a time
  Account,      \* the accounts that buy plans
  OwnerOf,      \* OwnerOf[i]: the account installation events of i name
  Class,        \* Class[d]: how handle_webhook treats delivery d
  Change,       \* Change[d]: the plan a marketplace delivery brings
  Purchaser,    \* Purchaser[d]: the account of a marketplace delivery
  RequirePlan,  \* billing.require_plan
  Listed,       \* the installations with an [[installations]] block
  Executors,    \* worker.concurrency
  Explicit,     \* Explicit[i]: max_tasks_per_day of that block
  MaxRequests,  \* bound: requests and scheduled tasks of a behaviour
  MaxFaults     \* bound: store failures and crashes of a behaviour

NoAccount  == "no account"
NoPlan     == [tier |-> "unknown", state |-> "none"]
NoTier     == "no tier"
NoDelivery == "no delivery"

\* "work" is routed to a task; "scheduled" is the gardener schedule's own.  A
\* purchase names no installation, so no uninstall takes its record away.
ASSUME IntakeAssumption ==
  /\ IsFiniteSet(Handler)
  /\ NoAccount \notin Account /\ NoDelivery \notin Delivery
  /\ OwnerOf \in [Installation -> Account]
  /\ Class \in [Delivery -> {"work", "other", "purchase", "installed",
                             "uninstalled", "scheduled"}]
  /\ Change \in [Delivery -> [tier : Tier, state : PlanState]]
  /\ Purchaser \in [Delivery -> Account]
  /\ RequirePlan \in BOOLEAN
  /\ Listed \subseteq Installation
  /\ \A i \in Installation : IsLimit(Explicit[i])
  /\ Executors \in Nat
  /\ MaxRequests \in Nat /\ MaxFaults \in Nat
  /\ \A d \in Delivery :
       Event[d].kind # "ignored" <=> Class[d] \in {"work", "scheduled"}
  /\ \A d, e \in Delivery :
       Class[d] = "purchase" /\ Class[e] = "uninstalled"
         => Event[d].installation # Event[e].installation

VARIABLES
  plan,      \* account_plans
  owner,     \* installation_accounts
  activity,  \* the tasks with rows in memory_activity
  handler,   \* handler[h]: the request h is at work on
  working,   \* the tasks an executor of this process is at work on
  dayStart,  \* the clock value 24 hours ago
  requests,  \* requests and scheduled tasks so far
  faults     \* failures so far

\* Observations no code makes: the handlers whose tenant's plan changed under
\* them, and per departed installation what may still write for it.
VARIABLES overtaken, departed, late

ghosts     == <<overtaken, departed, late>>
intakeVars == <<plan, owner, activity, handler, working, dayStart, requests, faults, ghosts>>
vars       == <<storeVars, intakeVars>>

Idle == [at |-> "idle", d |-> NoDelivery, cap |-> {}]

Stage == {"idle", "begun", "limited", "admitted", "unpaid", "over quota",
          "unroutable", "to purge memory", "to purge tasks", "to forget"}

HandlersOK ==
  /\ handler \in [Handler -> [at : Stage, d : Delivery \union {NoDelivery}, cap : SUBSET Nat]]
  /\ \A h \in Handler :
       /\ IsLimit(handler[h].cap)
       /\ handler[h].at = "idle" <=> handler[h].d = NoDelivery
       /\ handler[h].at = "limited" => handler[h].cap # {}

IntakeTypeOK ==
  /\ StoreTypeOK
  /\ HandlersOK
  /\ plan \in [Account -> [tier : Tier, state : PlanState]]
  /\ owner \in [Installation -> Account \union {NoAccount}]
  /\ activity \subseteq Task
  /\ working \subseteq Task
  /\ dayStart \in 0..clock
  /\ requests \in 0..MaxRequests /\ faults \in 0..MaxFaults
  /\ overtaken \subseteq Handler
  /\ departed \subseteq Installation
  /\ late \in [Installation -> SUBSET (Task \union Delivery)]

-----------------------------------------------------------------------------
(* What the tables say of an installation. *)

TenantOf(h) == Event[handler[h].d].installation

\* plan_for_installation: the join of the two billing tables.
PlanOf(i) == IF owner[i] \in Account THEN plan[owner[i]] ELSE NoPlan

\* Wrong on purpose: any plan record entitles, a cancelled one too.
EntitledEver(i) == PlanOf(i).state # "none"

Entitled(i) == PlanOf(i).state \in Entitling

\* effective_limits of an installation whose entitled plan, if any, has a tier.
DayCap(i, tier) == IF tier = NoTier THEN Explicit[i] ELSE EffectivePerDay(Explicit[i], tier)

TierOf(i) == IF Entitled(i) THEN PlanOf(i).tier ELSE NoTier

\* tasks_created_since.
Recent(i) == {t \in Task : Present(t) /\ InstallationOf(t) = i /\ created[t] > dayStart}

-----------------------------------------------------------------------------

Init ==
  /\ StoreInit
  /\ plan      = [a \in Account |-> NoPlan]
  /\ owner     = [i \in Installation |-> NoAccount]
  /\ activity  = {}
  /\ handler   = [h \in Handler |-> Idle]
  /\ working   = {}
  /\ dayStart  = 0
  /\ requests  = 0
  /\ faults    = 0
  /\ overtaken = {}
  /\ departed  = {}
  /\ late      = [i \in Installation |-> {}]

Move(h, stage) == handler' = [handler EXCEPT ![h].at = stage]

Return(h) == handler' = [handler EXCEPT ![h] = Idle]

Unchanged(others) == UNCHANGED others /\ UNCHANGED <<working, dayStart, requests, faults>>

PastPlanGate(h) == handler[h].at \in {"limited", "admitted", "over quota"}

\* The plan of the installations in S is about to change.
Overtakes(S) ==
  overtaken' = overtaken \union {h \in Handler : PastPlanGate(h) /\ TenantOf(h) \in S}

\* Something new is at work for i; from its uninstall on that is noted.
MayStillWrite(i, who) ==
  late' = [late EXCEPT ![i] = IF i \in departed THEN @ \union who ELSE {}]

\* The purge of the installations in S is incomplete.
NotDeparted(S) ==
  /\ departed' = departed \ S
  /\ late' = [i \in Installation |-> IF i \in S THEN {} ELSE late[i]]

Purging(h) == handler[h].at \in {"to purge memory", "to purge tasks", "to forget"}

\* A signed delivery arrives, perhaps not for the first time: routed, not yet
\* recorded.
Begin(h, d) ==
  /\ handler[h].at = "idle"
  /\ Class[d] # "scheduled"
  /\ requests < MaxRequests
  /\ requests' = requests + 1
  /\ handler' = [handler EXCEPT ![h] = [at |-> "begun", d |-> d, cap |-> {}]]
  /\ MayStillWrite(Event[d].installation, {d})
  /\ UNCHANGED <<storeVars, plan, owner, activity, working, dayStart, faults,
                 overtaken, departed>>

\* plan_for_installation and the plan gate.
ReadPlan(h) ==
  /\ handler[h].at = "begun" /\ Class[handler[h].d] = "work"
  /\ LET i   == TenantOf(h)
         cap == DayCap(i, TierOf(i))
     IN IF RequirePlan /\ ~Entitled(i) /\ i \notin Listed
        THEN Move(h, "unpaid")
        ELSE handler' = [handler EXCEPT ![h].cap = cap,
                           ![h].at = IF cap = {} THEN "admitted" ELSE "limited"]
  /\ Unchanged(<<storeVars, plan, owner, activity, ghosts>>)

\* Wrong on purpose: the cap is let through once more.
UnderCapOrAt(n, cap) == \A limit \in cap : n <= limit

UnderCap(n, cap) == \A limit \in cap : n < limit

\* The daily quota, counted before the delivery is recorded.
CountToday(h) ==
  /\ handler[h].at = "limited"
  /\ Move(h, IF UnderCap(Cardinality(Recent(TenantOf(h))), handler[h].cap)
             THEN "admitted" ELSE "over quota")
  /\ Unchanged(<<storeVars, plan, owner, activity, ghosts>>)

\* record_delivery of a routed task; a delivery already recorded is a
\* duplicate and changes nothing.
RecordWork(h) ==
  /\ handler[h].at = "admitted"
  /\ \/ \E t \in Task : RecordTask(handler[h].d, t)
     \/ routing[handler[h].d] # "unseen" /\ UNCHANGED storeVars
  /\ Return(h)
  /\ overtaken' = overtaken \ {h}
  /\ Unchanged(<<plan, owner, activity, departed, late>>)

\* record_delivery of a delivery that is not routed to a task.
RecordOther(h) ==
  /\ \/ handler[h].at \in {"unpaid", "over quota", "unroutable"}
     \/ handler[h].at = "begun" /\ Class[handler[h].d] = "other"
  /\ \/ RecordIgnored(handler[h].d)
     \/ routing[handler[h].d] # "unseen" /\ UNCHANGED storeVars
  /\ Return(h)
  /\ overtaken' = overtaken \ {h}
  /\ Unchanged(<<plan, owner, activity, departed, late>>)

\* Wrong on purpose: the plan is written by a transaction of its own, which a
\* crash forgets.
WithPlanOrWithout(h) ==
  LET d == handler[h].d
      a == Purchaser[d]
  IN /\ RecordIgnored(d)
     /\ plan' \in {plan, [plan EXCEPT ![a] = Change[d]]}
     /\ Overtakes({i \in Installation : owner[i] = a})

\* record_delivery_with_plan: delivery and plan in one transaction.
WithPlan(h) ==
  LET d == handler[h].d
      a == Purchaser[d]
  IN /\ RecordIgnored(d)
     /\ plan' = IF Change[d].state = "none" THEN plan ELSE [plan EXCEPT ![a] = Change[d]]
     /\ Overtakes({i \in Installation : owner[i] = a})

RecordPurchase(h) ==
  /\ handler[h].at = "begun" /\ Class[handler[h].d] = "purchase"
  /\ \/ WithPlan(h)
     \/ routing[handler[h].d] # "unseen" /\ UNCHANGED <<storeVars, plan, overtaken>>
  /\ Return(h)
  /\ Unchanged(<<owner, activity, departed, late>>)

\* record_installation_account, before the delivery id is looked at; then the
\* event is recorded as not routable.
RecordAccount(h) ==
  LET i == TenantOf(h) IN
    /\ handler[h].at = "begun" /\ Class[handler[h].d] = "installed"
    /\ owner' = [owner EXCEPT ![i] = OwnerOf[i]]
    /\ Move(h, "unroutable")
    /\ Overtakes({i})
    /\ Unchanged(<<storeVars, plan, activity, departed, late>>)

\* The uninstall is recorded first; what was there before must go.
Uninstall(h) ==
  LET i == TenantOf(h) IN
    /\ handler[h].at = "begun" /\ Class[handler[h].d] = "uninstalled"
    /\ \/ /\ RecordIgnored(handler[h].d)
          /\ Move(h, "to purge memory")
          /\ departed' = departed \union {i}
          /\ late' = [late EXCEPT ![i] = {t \in working : InstallationOf(t) = i}
                       \union {handler[g].d : g \in {f \in Handler \ {h} :
                                 handler[f].at # "idle" /\ TenantOf(f) = i}}]
       \/ /\ routing[handler[h].d] # "unseen"
          /\ Return(h)
          /\ UNCHANGED <<storeVars, departed, late>>
    /\ Unchanged(<<plan, owner, activity, overtaken>>)

PurgeMemory(h) ==
  /\ handler[h].at = "to purge memory"
  /\ activity' = {t \in activity : InstallationOf(t) # TenantOf(h)}
  /\ Move(h, "to purge tasks")
  /\ Unchanged(<<storeVars, plan, owner, ghosts>>)

PurgeTasks(h) ==
  /\ handler[h].at = "to purge tasks"
  /\ DeleteInstallation(TenantOf(h))
  /\ Move(h, "to forget")
  /\ Unchanged(<<plan, owner, activity, ghosts>>)

\* Wrong on purpose: the account stays known.
ForgetNothing(i) == UNCHANGED owner

Forget(i) == owner' = [owner EXCEPT ![i] = NoAccount]

ForgetAccount(h) ==
  /\ handler[h].at = "to forget"
  /\ Forget(TenantOf(h))
  /\ Return(h)
  /\ Overtakes({TenantOf(h)})
  /\ Unchanged(<<storeVars, plan, activity, departed, late>>)

\* A store call fails.  Most answer 5xx, with nothing recorded; the account
\* mapping and the steps of the purge are best effort and go on.
StoreFails(h) ==
  LET at == handler[h].at
      onward == CASE at = "begun" /\ Class[handler[h].d] = "installed" -> "unroutable"
                  [] at = "to purge memory" -> "to purge tasks"
                  [] at = "to purge tasks"  -> "to forget"
                  [] OTHER                  -> "idle"
  IN /\ at # "idle" /\ faults < MaxFaults
     /\ faults' = faults + 1
     /\ IF onward = "idle" THEN Return(h) ELSE Move(h, onward)
     /\ NotDeparted(IF Purging(h) THEN {TenantOf(h)} ELSE {})
     /\ overtaken' = IF onward = "idle" THEN overtaken \ {h} ELSE overtaken
     /\ UNCHANGED <<storeVars, plan, owner, activity, working, dayStart, requests>>

\* The gardener schedule inserts its tasks past every gate.
RecordScheduled(d) ==
  /\ Class[d] = "scheduled"
  /\ requests < MaxRequests
  /\ requests' = requests + 1
  /\ \E t \in Task : RecordTask(d, t)
  /\ MayStillWrite(Event[d].installation, {d})
  /\ UNCHANGED <<plan, owner, activity, handler, working, dayStart, faults,
                 overtaken, departed>>

ExecutorClaims(t) ==
  /\ Cardinality(working) < Executors
  /\ Claim(t)
  /\ working' = working \union {t}
  /\ MayStillWrite(InstallationOf(t), {t})
  /\ UNCHANGED <<plan, owner, activity, handler, dayStart, requests, faults,
                 overtaken, departed>>

\* record_memory_activity, of an executor that may have lost its row meanwhile.
ExecutorReports(t) ==
  /\ t \in working
  /\ activity' = activity \union {t}
  /\ Unchanged(<<storeVars, plan, owner, handler, ghosts>>)

ExecutorFinishes(t) ==
  /\ t \in working
  /\ Finish(t, "completed")
  /\ working' = working \ {t}
  /\ UNCHANGED <<plan, owner, activity, handler, dayStart, requests, faults, ghosts>>

DayPasses ==
  /\ \E n \in dayStart + 1 .. clock : dayStart' = n
  /\ UNCHANGED <<storeVars, plan, owner, activity, handler, working, requests, faults, ghosts>>

\* The process dies and is started again.
Crash ==
  /\ faults < MaxFaults
  /\ faults' = faults + 1
  /\ Recover
  /\ handler' = [h \in Handler |-> Idle]
  /\ working' = {}
  /\ NotDeparted({TenantOf(h) : h \in {g \in Handler : Purging(g)}})
  /\ overtaken' = {}
  /\ UNCHANGED <<plan, owner, activity, dayStart, requests>>

Next ==
  \/ \E h \in Handler, d \in Delivery : Begin(h, d)
  \/ \E h \in Handler :
       \/ ReadPlan(h) \/ CountToday(h) \/ RecordWork(h) \/ RecordOther(h)
       \/ RecordPurchase(h) \/ RecordAccount(h)
       \/ Uninstall(h) \/ PurgeMemory(h) \/ PurgeTasks(h) \/ ForgetAccount(h)
       \/ StoreFails(h)
  \/ \E d \in Delivery : RecordScheduled(d)
  \/ \E t \in Task : ExecutorClaims(t) \/ ExecutorReports(t) \/ ExecutorFinishes(t)
  \/ DayPasses
  \/ Crash

Spec == Init /\ [][Next]_vars

-----------------------------------------------------------------------------
(* What the intake guarantees. *)

\* The tiers that an installation may be admitted under.
Admissible(i) ==
  {Change[d].tier : d \in {e \in Delivery : Class[e] = "purchase"}}
  \union (IF RequirePlan /\ i \notin Listed THEN {} ELSE {NoTier})

Caps(i) == UNION {DayCap(i, tier) : tier \in Admissible(i)}

\* The tasks of the last day that deliveries were routed to.
Routed(i) == {t \in Recent(i) : Class[Source[t]] = "work"}

\* The daily quota is read in one transaction and used in another, so it may be
\* overshot, but by no more than the requests served at the same time: whatever
\* is delivered, redelivered, retried or crashes, the routed tasks of the last
\* day stay below the largest cap that was
\* ever to apply plus the number of handlers.  (Scheduled gardener
\* runs count against the quota and are not held back by it.)
QuotaOvershoot ==
  \A i \in Installation :
    (\A tier \in Admissible(i) : DayCap(i, tier) # {})
    => \/ Routed(i) = {}
       \/ \E cap \in Caps(i) : Cardinality(Routed(i)) < cap + Cardinality(Handler)

\* With billing.require_plan, a delivery gets past the plan gate of an
\* installation nobody vouched for only on a plan that entitles, or that
\* stopped entitling while this very request was being served.
AdmittedOnPlan ==
  \A h \in Handler :
    /\ PastPlanGate(h)
    /\ RequirePlan /\ TenantOf(h) \notin Listed
    => PlanOf(TenantOf(h)).state \in Entitling \/ h \in overtaken

Purchases(a) == {d \in Delivery : /\ Class[d] = "purchase" /\ Purchaser[d] = a
                                  /\ Change[d].state # "none"
                                  /\ routing[d] # "unseen"}

\* A marketplace delivery that is marked as seen has taken effect, and one that
\* took effect is marked: the plan of an account is that of a recorded
\* purchase, and none exactly when no purchase is recorded.  A crash or a
\* failure in between never loses a purchase that a replay would not repeat.
NoLostTransition ==
  \A a \in Account :
    plan[a] \in IF Purchases(a) = {} THEN {NoPlan} ELSE {Change[d] : d \in Purchases(a)}

\* After an uninstall whose purge ran to its end nothing of the tenant is left
\* but what was written by a request or an executor that was at work when the
\* uninstall was recorded, or came after it: no row, no delivery record, no
\* memory record and no account mapping of before survives.
NothingOfTheDeparted ==
  \A i \in departed :
    (\A h \in Handler : ~(Purging(h) /\ TenantOf(h) = i)) =>
      /\ \A t \in Task : Present(t) /\ InstallationOf(t) = i => Source[t] \in late[i]
      /\ \A t \in activity : InstallationOf(t) = i => t \in late[i]
      /\ \A d \in Delivery : Event[d].installation = i /\ routing[d] # "unseen" => d \in late[i]
      /\ owner[i] # NoAccount => \E d \in late[i] \intersect Delivery : Class[d] = "installed"
=============================================================================
