---------------------------- MODULE Intake_proofs ----------------------------
(***************************************************************************)
(* Proofs about the webhook intake, for any deliveries, tenants, accounts, *)
(* handlers and quotas and any number of requests and failures.            *)
(***************************************************************************)
EXTENDS Intake, TaskStore_proofs

-----------------------------------------------------------------------------
(* The intake is a client of the store.                                    *)

LEMMA TenantKnown ==
  ASSUME IntakeTypeOK, NEW h \in Handler, handler[h].at # "idle"
  PROVE  handler[h].d \in Delivery /\ TenantOf(h) \in Installation
BY StoreAssumption DEF IntakeTypeOK, HandlersOK, TenantOf, EventType

LEMMA IntakeStepsStore == IntakeTypeOK /\ [Next]_vars => [StoreNext]_storeVars
<1> SUFFICES ASSUME IntakeTypeOK, Next PROVE StoreNext \/ UNCHANGED storeVars
  BY DEF vars, storeVars
<1>1. "completed" \in Terminal
  BY DEF Terminal
<1>2. ASSUME NEW h \in Handler,
             RecordWork(h) \/ RecordOther(h) \/ RecordPurchase(h) \/ Uninstall(h)
             \/ PurgeTasks(h)
      PROVE  StoreNext \/ UNCHANGED storeVars
  <2>1. handler[h].at # "idle"
    BY <1>2 DEF RecordWork, RecordOther, RecordPurchase, Uninstall, PurgeTasks
  <2>2. handler[h].d \in Delivery /\ TenantOf(h) \in Installation
    BY <2>1, TenantKnown
  <2> QED
    BY <1>2, <2>2
    DEF RecordWork, RecordOther, RecordPurchase, WithPlan, Uninstall, PurgeTasks, StoreNext
<1>3. ASSUME NEW h \in Handler,
             ReadPlan(h) \/ CountToday(h) \/ RecordAccount(h) \/ PurgeMemory(h)
             \/ ForgetAccount(h) \/ StoreFails(h)
      PROVE  UNCHANGED storeVars
  BY <1>3 DEF ReadPlan, CountToday, RecordAccount, PurgeMemory, ForgetAccount,
              StoreFails, Unchanged, storeVars
<1>4. ASSUME NEW h \in Handler, NEW d \in Delivery, Begin(h, d) PROVE UNCHANGED storeVars
  BY <1>4 DEF Begin, storeVars
<1>5. ASSUME NEW d \in Delivery, RecordScheduled(d) PROVE StoreNext
  BY <1>5 DEF RecordScheduled, StoreNext
<1>6. ASSUME NEW t \in Task, ExecutorClaims(t) \/ ExecutorFinishes(t) PROVE StoreNext
  BY <1>1, <1>6 DEF ExecutorClaims, ExecutorFinishes, StoreNext
<1>7. ASSUME NEW t \in Task, ExecutorReports(t) PROVE UNCHANGED storeVars
  BY <1>7 DEF ExecutorReports, Unchanged, storeVars
<1>8. CASE DayPasses
  BY <1>8 DEF DayPasses, storeVars
<1>9. CASE Crash
  BY <1>9 DEF Crash, StoreNext
<1> QED BY <1>2, <1>3, <1>4, <1>5, <1>6, <1>7, <1>8, <1>9 DEF Next

-----------------------------------------------------------------------------
(* Type correctness.                                                       *)

LEMMA MoveKeepsTypes ==
  ASSUME HandlersOK, NEW h \in Handler, NEW stage \in Stage \ {"idle", "limited"},
         handler[h].at # "idle", Move(h, stage)
  PROVE  HandlersOK'
BY DEF HandlersOK, Move, IsLimit

LEMMA ReturnKeepsTypes ==
  ASSUME HandlersOK, NEW h \in Handler, Return(h)
  PROVE  HandlersOK'
BY DEF HandlersOK, Return, Idle, Stage, IsLimit

LEMMA LimitsAreLimits ==
  ASSUME NEW i \in Installation, NEW tier
  PROVE  DayCap(i, tier) \subseteq Nat /\ IsLimit(DayCap(i, tier))
<1>1. IsLimit(PerDay(tier))
  BY PlanAssumption DEF PerDay, IsLimit
<1> QED BY <1>1, IntakeAssumption DEF DayCap, EffectivePerDay, IsLimit

LEMMA ReadPlanKeepsTypes ==
  ASSUME HandlersOK, NEW h \in Handler, TenantOf(h) \in Installation, ReadPlan(h)
  PROVE  HandlersOK'
<1> DEFINE cap == DayCap(TenantOf(h), TierOf(TenantOf(h)))
<1>1. cap \subseteq Nat /\ IsLimit(cap)
  BY LimitsAreLimits
<1>2. CASE Move(h, "unpaid")
  BY <1>2, MoveKeepsTypes DEF ReadPlan, Stage
<1>3. CASE handler' = [handler EXCEPT ![h].cap = cap,
                         ![h].at = IF cap = {} THEN "admitted" ELSE "limited"]
  <2>1. handler[h].d # NoDelivery
    BY DEF ReadPlan, HandlersOK
  <2>2. /\ handler' \in [Handler -> [at : Stage, d : Delivery \union {NoDelivery},
                                     cap : SUBSET Nat]]
        /\ handler'[h] = [at |-> IF cap = {} THEN "admitted" ELSE "limited",
                          d |-> handler[h].d, cap |-> cap]
        /\ \A g \in Handler \ {h} : handler'[g] = handler[g]
    <3> HIDE DEF cap
    <3> QED BY <1>1, <1>3 DEF HandlersOK, Stage
  <2> QED BY <1>1, <2>1, <2>2 DEF HandlersOK
<1> QED BY <1>2, <1>3 DEF ReadPlan

LEMMA IntakeInitType == Init => IntakeTypeOK
BY StoreInitType, IntakeAssumption
DEF Init, IntakeTypeOK, HandlersOK, StoreInit, NoPlan, Tier, PlanState, Idle, Stage, IsLimit

LEMMA ClockGrows ==
  ASSUME StoreTypeOK, [StoreNext]_storeVars
  PROVE  clock <= clock'
<1>1. CASE \E d \in Delivery, t \in Task : RecordTask(d, t)
  BY <1>1 DEF StoreTypeOK, RecordTask
<1>2. CASE ~ \E d \in Delivery, t \in Task : RecordTask(d, t)
  <2>1. clock' = clock
    BY <1>2 DEF StoreNext, storeVars, RecordIgnored, Claim, Finish, SupersedeQueued,
                Recover, DeleteInstallation, ExpireTerminal
  <2> QED BY <2>1 DEF StoreTypeOK
<1> QED BY <1>1, <1>2

LEMMA IntakeNextType == IntakeTypeOK /\ [Next]_vars => IntakeTypeOK'
<1> SUFFICES ASSUME IntakeTypeOK, [Next]_vars PROVE IntakeTypeOK'
  OBVIOUS
<1> USE DEF IntakeTypeOK
<1>1. StoreTypeOK'
  BY IntakeStepsStore, StoreNextType
<1>2. clock \in Nat /\ clock' \in Nat /\ clock <= clock'
  BY <1>1, IntakeStepsStore, ClockGrows DEF StoreTypeOK
<1>3. dayStart \in 0..clock'
  BY <1>2
<1>4. ASSUME NEW h \in Handler, NEW d \in Delivery, Begin(h, d) PROVE IntakeTypeOK'
  <2>1. HandlersOK'
    BY <1>4, IntakeAssumption DEF Begin, HandlersOK, Stage, IsLimit
  <2>2. requests' \in 0..MaxRequests
    BY <1>4, IntakeAssumption DEF Begin
  <2> QED BY <1>1, <1>3, <1>4, <2>1, <2>2 DEF Begin, MayStillWrite
<1>5. ASSUME NEW h \in Handler, ReadPlan(h) PROVE IntakeTypeOK'
  <2>1. HandlersOK'
    BY <1>5, TenantKnown, ReadPlanKeepsTypes DEF ReadPlan
  <2> QED BY <1>1, <1>3, <1>5, <2>1 DEF ReadPlan, Unchanged, ghosts
<1>6. ASSUME NEW h \in Handler, CountToday(h) PROVE IntakeTypeOK'
  <2>1. HandlersOK'
    BY <1>6, MoveKeepsTypes DEF CountToday, Stage
  <2> QED BY <1>1, <1>3, <1>6, <2>1 DEF CountToday, Unchanged, ghosts
<1>7. ASSUME NEW h \in Handler, RecordWork(h) \/ RecordOther(h) PROVE IntakeTypeOK'
  <2>1. HandlersOK'
    BY <1>7, ReturnKeepsTypes DEF RecordWork, RecordOther
  <2> QED BY <1>1, <1>3, <1>7, <2>1 DEF RecordWork, RecordOther, Unchanged
<1>8. ASSUME NEW h \in Handler, RecordPurchase(h) PROVE IntakeTypeOK'
  <2>1. HandlersOK'
    BY <1>8, ReturnKeepsTypes DEF RecordPurchase
  <2>2. handler[h].d \in Delivery
    BY <1>8, TenantKnown DEF RecordPurchase
  <2> QED
    BY <1>1, <1>3, <1>8, <2>1, <2>2, IntakeAssumption
    DEF RecordPurchase, WithPlan, Unchanged, Overtakes
<1>9. ASSUME NEW h \in Handler, RecordAccount(h) PROVE IntakeTypeOK'
  <2>1. HandlersOK'
    BY <1>9, MoveKeepsTypes DEF RecordAccount, Stage
  <2>2. TenantOf(h) \in Installation
    BY <1>9, TenantKnown DEF RecordAccount
  <2> QED
    BY <1>1, <1>3, <1>9, <2>1, <2>2, IntakeAssumption
    DEF RecordAccount, Unchanged, Overtakes
<1>10. ASSUME NEW h \in Handler, Uninstall(h) PROVE IntakeTypeOK'
  <2>1. HandlersOK'
    BY <1>10, MoveKeepsTypes, ReturnKeepsTypes DEF Uninstall, Stage
  <2>2. TenantOf(h) \in Installation
    BY <1>10, TenantKnown DEF Uninstall
  <2>3. {handler[g].d : g \in {f \in Handler \ {h} :
           handler[f].at # "idle" /\ TenantOf(f) = TenantOf(h)}} \subseteq Delivery
    BY TenantKnown
  <2> QED
    BY <1>1, <1>3, <1>10, <2>1, <2>2, <2>3 DEF Uninstall, Unchanged
<1>11. ASSUME NEW h \in Handler, PurgeMemory(h) \/ PurgeTasks(h) PROVE IntakeTypeOK'
  <2>1. HandlersOK'
    BY <1>11, MoveKeepsTypes DEF PurgeMemory, PurgeTasks, Stage
  <2> QED BY <1>1, <1>3, <1>11, <2>1 DEF PurgeMemory, PurgeTasks, Unchanged, ghosts
<1>12. ASSUME NEW h \in Handler, ForgetAccount(h) PROVE IntakeTypeOK'
  <2>1. HandlersOK'
    BY <1>12, ReturnKeepsTypes DEF ForgetAccount
  <2> QED
    BY <1>1, <1>3, <1>12, <2>1 DEF ForgetAccount, Forget, Unchanged, Overtakes
<1>13. ASSUME NEW h \in Handler, StoreFails(h) PROVE IntakeTypeOK'
  <2>1. HandlersOK'
    BY <1>13, MoveKeepsTypes, ReturnKeepsTypes DEF StoreFails, Stage
  <2>2. faults' \in 0..MaxFaults
    <3>1. faults < MaxFaults /\ faults' = faults + 1
      BY <1>13 DEF StoreFails
    <3> QED BY <3>1, IntakeAssumption
  <2>3. overtaken' \subseteq Handler
    BY <1>13 DEF StoreFails
  <2>4. departed' \subseteq Installation /\ late' \in [Installation -> SUBSET (Task \union Delivery)]
    BY <1>13 DEF StoreFails, NotDeparted
  <2>5. UNCHANGED <<plan, owner, activity, working, dayStart, requests>>
    BY <1>13 DEF StoreFails
  <2> QED BY <1>1, <1>3, <2>1, <2>2, <2>3, <2>4, <2>5
<1>14. ASSUME NEW d \in Delivery, RecordScheduled(d) PROVE IntakeTypeOK'
  <2>1. requests' \in 0..MaxRequests
    BY <1>14, IntakeAssumption DEF RecordScheduled
  <2> QED BY <1>1, <1>3, <1>14, <2>1 DEF RecordScheduled, MayStillWrite, HandlersOK
<1>15. ASSUME NEW t \in Task, ExecutorClaims(t) PROVE IntakeTypeOK'
  BY <1>1, <1>3, <1>15 DEF ExecutorClaims, MayStillWrite, HandlersOK
<1>16. ASSUME NEW t \in Task, ExecutorReports(t) \/ ExecutorFinishes(t) PROVE IntakeTypeOK'
  BY <1>1, <1>3, <1>16 DEF ExecutorReports, ExecutorFinishes, Unchanged, ghosts, HandlersOK
<1>17. CASE DayPasses
  BY <1>1, <1>2, <1>17 DEF DayPasses, ghosts, HandlersOK, storeVars
<1>18. CASE Crash
  <2>1. HandlersOK'
    BY <1>18 DEF Crash, HandlersOK, Idle, Stage, IsLimit
  <2>2. faults' \in 0..MaxFaults
    BY <1>18, IntakeAssumption DEF Crash
  <2> QED BY <1>1, <1>3, <1>18, <2>1, <2>2 DEF Crash, NotDeparted
<1>19. CASE UNCHANGED vars
  BY <1>1, <1>3, <1>19 DEF vars, intakeVars, ghosts, HandlersOK
<1> QED
  BY <1>4, <1>5, <1>6, <1>7, <1>8, <1>9, <1>10, <1>11, <1>12, <1>13, <1>14, <1>15,
     <1>16, <1>17, <1>18, <1>19
  DEF Next

\* Tables, requests and executors of the intake always hold values of their
\* types, whatever arrives, fails or crashes.
THEOREM IntakeTypeCorrect == Spec => []IntakeTypeOK
BY IntakeInitType, IntakeNextType, PTL DEF Spec

\* The intake changes the tables of the queue only through the store's
\* transactions: everything proved of the store holds under it.
THEOREM IntakeUsesStore == Spec => StoreSpec
<1>1. Init => StoreInit
  BY DEF Init
<1> QED BY <1>1, IntakeTypeCorrect, IntakeStepsStore, PTL DEF Spec, StoreSpec

\* With any number of concurrent, repeated and failing requests, every delivery
\* still becomes at most one job of the durable queue.
THEOREM IntakeRefinesQueue == Spec => StoreImplementsQueue
BY IntakeUsesStore, StoreRefinesQueue, PTL

-----------------------------------------------------------------------------
(* How far a request can be: its class decides which stages it passes.     *)

FitsClass(at, its) ==
  /\ at \in {"limited", "admitted", "unpaid", "over quota"} => its = "work"
  /\ at = "unroutable" => its = "installed"
  /\ at \in {"to purge memory", "to purge tasks", "to forget"} => its = "uninstalled"

StageFitsClass == \A h \in Handler : FitsClass(handler[h].at, Class[handler[h].d])

\* What a step may do to a request g.
Stays(g)    == handler'[g] = handler[g]
Ends(g)     == handler'[g] = Idle
Arrives(g)  == /\ handler[g].at = "idle" /\ handler'[g].at = "begun"
               /\ \E d \in Delivery : Begin(g, d)
Advances(g) ==
  /\ handler'[g].d = handler[g].d
  /\ LET at  == handler[g].at
         to  == handler'[g].at
         its == Class[handler[g].d]
     IN \/ at = "begun" /\ its = "work" /\ to \in {"unpaid", "limited", "admitted"}
        \/ at = "limited" /\ to \in {"admitted", "over quota"}
        \/ at = "begun" /\ its = "installed" /\ to = "unroutable"
        \/ at = "begun" /\ its = "uninstalled" /\ to = "to purge memory"
        \/ at = "to purge memory" /\ to = "to purge tasks"
        \/ at = "to purge tasks" /\ to = "to forget"

LEMMA MoveIs ==
  ASSUME IntakeTypeOK, NEW h \in Handler, NEW stage, Move(h, stage)
  PROVE  /\ handler'[h].at = stage /\ handler'[h].d = handler[h].d
         /\ \A g \in Handler \ {h} : Stays(g)
BY DEF IntakeTypeOK, HandlersOK, Move, Stays

LEMMA ReturnIs ==
  ASSUME IntakeTypeOK, NEW h \in Handler, Return(h)
  PROVE  Ends(h) /\ \A g \in Handler \ {h} : Stays(g)
BY DEF IntakeTypeOK, HandlersOK, Return, Stays, Ends

LEMMA RequestSteps ==
  ASSUME IntakeTypeOK, [Next]_vars, NEW g \in Handler
  PROVE  Stays(g) \/ Ends(g) \/ Arrives(g) \/ Advances(g)
<1>1. ASSUME NEW h \in Handler, NEW d \in Delivery, Begin(h, d)
      PROVE  Stays(g) \/ Arrives(g)
  BY <1>1 DEF Begin, IntakeTypeOK, HandlersOK, Stays, Arrives
<1>2. ASSUME NEW h \in Handler, ReadPlan(h) PROVE Stays(g) \/ Advances(g)
  <2>1. CASE Move(h, "unpaid")
    BY <1>2, <2>1, MoveIs DEF ReadPlan, Advances
  <2>2. ASSUME NEW cap,
               handler' = [handler EXCEPT ![h].cap = cap,
                             ![h].at = IF cap = {} THEN "admitted" ELSE "limited"]
        PROVE  Stays(g) \/ Advances(g)
    <3>1. CASE g # h
      BY <2>2, <3>1 DEF IntakeTypeOK, HandlersOK, Stays
    <3>2. /\ handler'[h].at = IF cap = {} THEN "admitted" ELSE "limited"
          /\ handler'[h].d = handler[h].d
      BY <2>2 DEF IntakeTypeOK, HandlersOK
    <3> QED BY <1>2, <3>1, <3>2 DEF ReadPlan, Advances
  <2> QED BY <1>2, <2>1, <2>2 DEF ReadPlan
<1>3. ASSUME NEW h \in Handler, CountToday(h) PROVE Stays(g) \/ Advances(g)
  BY <1>3, MoveIs DEF CountToday, Advances
<1>4. ASSUME NEW h \in Handler,
             RecordWork(h) \/ RecordOther(h) \/ RecordPurchase(h) \/ ForgetAccount(h)
      PROVE  Stays(g) \/ Ends(g)
  BY <1>4, ReturnIs DEF RecordWork, RecordOther, RecordPurchase, ForgetAccount
<1>5. ASSUME NEW h \in Handler, RecordAccount(h) \/ PurgeMemory(h) \/ PurgeTasks(h)
      PROVE  Stays(g) \/ Advances(g)
  BY <1>5, MoveIs DEF RecordAccount, PurgeMemory, PurgeTasks, Advances
<1>6. ASSUME NEW h \in Handler, Uninstall(h) PROVE Stays(g) \/ Advances(g) \/ Ends(g)
  BY <1>6, MoveIs, ReturnIs DEF Uninstall, Advances
<1>7. ASSUME NEW h \in Handler, StoreFails(h) PROVE Stays(g) \/ Advances(g) \/ Ends(g)
  BY <1>7, MoveIs, ReturnIs DEF StoreFails, Advances
<1>8. CASE UNCHANGED handler
  BY <1>8 DEF Stays
<1>9. CASE Crash
  BY <1>9 DEF Crash, Ends
<1>10. ASSUME \/ \E d \in Delivery : RecordScheduled(d)
              \/ \E t \in Task : ExecutorClaims(t) \/ ExecutorReports(t) \/ ExecutorFinishes(t)
              \/ DayPasses
              \/ UNCHANGED vars
       PROVE  UNCHANGED handler
  BY <1>10 DEF RecordScheduled, ExecutorClaims, ExecutorReports, ExecutorFinishes,
               DayPasses, Unchanged, vars, intakeVars
<1> QED
  BY <1>1, <1>2, <1>3, <1>4, <1>5, <1>6, <1>7, <1>8, <1>9, <1>10 DEF Next

LEMMA StageFitsClassHolds == Spec => []StageFitsClass
<1>1. Init => StageFitsClass
  <2> SUFFICES ASSUME Init, NEW h \in Handler
               PROVE  FitsClass(handler[h].at, Class[handler[h].d])
    BY DEF StageFitsClass
  <2>1. handler[h].at = "idle"
    BY DEF Init, Idle
  <2> QED BY <2>1 DEF FitsClass
<1>2. IntakeTypeOK /\ StageFitsClass /\ [Next]_vars => StageFitsClass'
  <2> SUFFICES ASSUME IntakeTypeOK, StageFitsClass, [Next]_vars, NEW h \in Handler
               PROVE  FitsClass(handler'[h].at, Class[handler'[h].d])
    BY DEF StageFitsClass
  <2>1. FitsClass(handler[h].at, Class[handler[h].d])
    BY DEF StageFitsClass
  <2>2. CASE Stays(h)
    BY <2>1, <2>2 DEF Stays
  <2>3. CASE Ends(h)
    <3>1. handler'[h].at = "idle"
      BY <2>3 DEF Ends, Idle
    <3> QED BY <3>1 DEF FitsClass
  <2>4. CASE Arrives(h)
    BY <2>4 DEF Arrives, FitsClass
  <2>5. CASE Advances(h)
    BY <2>1, <2>5 DEF Advances, FitsClass
  <2> QED BY <2>2, <2>3, <2>4, <2>5, RequestSteps
<1> QED BY <1>1, <1>2, IntakeTypeCorrect, PTL DEF Spec

-----------------------------------------------------------------------------
(* The plan gate.  A request that is past it was let through on a plan that *)
(* entitled then; every step that changes the plan of its installation      *)
(* counts it among the overtaken.                                           *)

LetThrough(g) ==
  PastPlanGate(g) /\ RequirePlan /\ TenantOf(g) \notin Listed
    => PlanOf(TenantOf(g)).state \in Entitling \/ g \in overtaken

LEMMA SamePlans ==
  ASSUME NEW g \in Handler, LetThrough(g), UNCHANGED <<plan, owner>>,
         overtaken \subseteq overtaken',
         handler'[g].d = handler[g].d, PastPlanGate(g)' => PastPlanGate(g)
  PROVE  LetThrough(g)'
BY DEF LetThrough, TenantOf, PlanOf

LEMMA NotPastTheGate ==
  ASSUME NEW g \in Handler, Ends(g) \/ Arrives(g)
  PROVE  LetThrough(g)'
<1>1. handler'[g].at \in {"idle", "begun"}
  BY DEF Ends, Arrives, Idle
<1> QED BY <1>1 DEF LetThrough, PastPlanGate

\* The plans of the installations outside S stay what they are.
LEMMA OvertakenOrSame ==
  ASSUME NEW g \in Handler, LetThrough(g), Stays(g), TenantOf(g) \in Installation,
         NEW S, Overtakes(S), \A i \in Installation \ S : PlanOf(i)' = PlanOf(i)
  PROVE  LetThrough(g)'
<1>1. TenantOf(g)' = TenantOf(g) /\ PastPlanGate(g)' = PastPlanGate(g)
  BY DEF Stays, TenantOf, PastPlanGate
<1>2. CASE TenantOf(g) \in S
  BY <1>1, <1>2 DEF Overtakes, LetThrough
<1>3. CASE TenantOf(g) \notin S
  BY <1>1, <1>3 DEF Overtakes, LetThrough
<1> QED BY <1>2, <1>3

LEMMA NextLetsThrough ==
  ASSUME IntakeTypeOK, [Next]_vars, NEW g \in Handler, LetThrough(g)
  PROVE  LetThrough(g)'
<1>1. CASE Ends(g) \/ Arrives(g)
  BY <1>1, NotPastTheGate
<1>2. CASE handler[g].at = "idle" /\ Stays(g)
  BY <1>2 DEF LetThrough, PastPlanGate, Stays
<1> SUFFICES ASSUME ~Ends(g), ~Arrives(g), ~(handler[g].at = "idle" /\ Stays(g))
             PROVE  LetThrough(g)'
  BY <1>1, <1>2
<1>3. handler[g].at # "idle" /\ (Stays(g) \/ Advances(g))
  BY RequestSteps DEF Advances
<1>4. handler'[g].d = handler[g].d
  BY <1>3 DEF Stays, Advances
<1>5. TenantOf(g) \in Installation
  BY <1>3, TenantKnown
<1>6. ASSUME UNCHANGED <<plan, owner>>, overtaken \subseteq overtaken', Stays(g)
      PROVE  LetThrough(g)'
  BY <1>4, <1>6, SamePlans DEF Stays, PastPlanGate
<1>7. ASSUME NEW h \in Handler, NEW d \in Delivery, Begin(h, d) PROVE LetThrough(g)'
  BY <1>3, <1>6, <1>7 DEF Begin, Advances, IntakeTypeOK, HandlersOK, Arrives
<1>8. ASSUME NEW h \in Handler, ReadPlan(h) PROVE LetThrough(g)'
  <2>1. UNCHANGED <<plan, owner, overtaken>>
    BY <1>8 DEF ReadPlan, Unchanged, ghosts
  <2>2. CASE g # h
    BY <1>6, <1>8, <2>1, <2>2 DEF ReadPlan, Move, Stays, IntakeTypeOK, HandlersOK
  <2>3. CASE g = h /\ (RequirePlan => Entitled(TenantOf(g)) \/ TenantOf(g) \in Listed)
    BY <1>4, <2>1, <2>3 DEF LetThrough, TenantOf, PlanOf, Entitled
  <2>4. CASE g = h /\ ~(RequirePlan => Entitled(TenantOf(g)) \/ TenantOf(g) \in Listed)
    <3>1. handler'[g].at = "unpaid"
      BY <1>8, <2>4, MoveIs DEF ReadPlan
    <3> QED BY <3>1 DEF LetThrough, PastPlanGate
  <2> QED BY <2>2, <2>3, <2>4
<1>9. ASSUME NEW h \in Handler, CountToday(h) PROVE LetThrough(g)'
  <2>1. UNCHANGED <<plan, owner, overtaken>>
    BY <1>9 DEF CountToday, Unchanged, ghosts
  <2>2. PastPlanGate(g)' => PastPlanGate(g)
    BY <1>9, MoveIs DEF CountToday, PastPlanGate, Stays
  <2> QED BY <1>4, <2>1, <2>2, SamePlans
<1>10. ASSUME NEW h \in Handler, RecordWork(h) \/ RecordOther(h) PROVE LetThrough(g)'
  <2>1. g # h /\ Stays(g) /\ UNCHANGED <<plan, owner>> /\ overtaken' = overtaken \ {h}
    BY <1>10, ReturnIs DEF RecordWork, RecordOther, Unchanged
  <2>2. PastPlanGate(g)' => PastPlanGate(g)
    BY <2>1 DEF Stays, PastPlanGate
  <2> QED BY <2>1, <2>2 DEF LetThrough, TenantOf, PlanOf, Stays
<1>11. ASSUME NEW h \in Handler, RecordPurchase(h) PROVE LetThrough(g)'
  <2>1. Stays(g) /\ UNCHANGED owner
    BY <1>11, ReturnIs DEF RecordPurchase, Unchanged
  <2>2. CASE UNCHANGED <<plan, overtaken>>
    BY <1>6, <2>1, <2>2
  <2>3. CASE WithPlan(h)
    <3> DEFINE a == Purchaser[handler[h].d]
               S == {i \in Installation : owner[i] = a}
    <3>1. Overtakes(S)
      BY <2>3 DEF WithPlan
    <3>2. \A b \in Account \ {a} : plan'[b] = plan[b]
      BY <2>3 DEF WithPlan, IntakeTypeOK
    <3>3. \A i \in Installation \ S : PlanOf(i)' = PlanOf(i)
      BY <2>1, <3>2 DEF PlanOf
    <3> QED BY <1>5, <2>1, <3>1, <3>3, OvertakenOrSame
  <2> QED BY <1>11, <2>2, <2>3 DEF RecordPurchase
<1>12. ASSUME NEW h \in Handler, RecordAccount(h) PROVE LetThrough(g)'
  <2>1. CASE g = h
    <3>1. handler'[g].at = "unroutable"
      BY <1>12, <2>1, MoveIs DEF RecordAccount
    <3> QED BY <3>1 DEF LetThrough, PastPlanGate
  <2>2. CASE g # h
    <3>1. Stays(g) /\ UNCHANGED plan /\ Overtakes({TenantOf(h)})
      BY <1>12, <2>2, MoveIs DEF RecordAccount, Unchanged
    <3>2. \A i \in Installation \ {TenantOf(h)} : PlanOf(i)' = PlanOf(i)
      BY <1>12, <3>1 DEF RecordAccount, PlanOf, IntakeTypeOK
    <3> QED BY <1>5, <3>1, <3>2, OvertakenOrSame
  <2> QED BY <2>1, <2>2
<1>13. ASSUME NEW h \in Handler, ForgetAccount(h) PROVE LetThrough(g)'
  <2>1. Stays(g) /\ UNCHANGED plan /\ Overtakes({TenantOf(h)})
    BY <1>13, ReturnIs DEF ForgetAccount, Unchanged
  <2>2. \A i \in Installation \ {TenantOf(h)} : PlanOf(i)' = PlanOf(i)
    BY <1>13, <2>1 DEF ForgetAccount, Forget, PlanOf, IntakeTypeOK
  <2> QED BY <1>5, <2>1, <2>2, OvertakenOrSame
<1>14. ASSUME NEW h \in Handler, Uninstall(h) \/ PurgeMemory(h) \/ PurgeTasks(h)
       PROVE  LetThrough(g)'
  <2>1. UNCHANGED <<plan, owner, overtaken>>
    BY <1>14 DEF Uninstall, PurgeMemory, PurgeTasks, Unchanged, ghosts
  <2>2. PastPlanGate(g)' => PastPlanGate(g)
    BY <1>14, MoveIs, ReturnIs
    DEF Uninstall, PurgeMemory, PurgeTasks, PastPlanGate, Stays, Ends, Idle
  <2> QED BY <1>4, <2>1, <2>2, SamePlans
<1>15. ASSUME NEW h \in Handler, StoreFails(h) PROVE LetThrough(g)'
  <2>1. UNCHANGED <<plan, owner>>
    BY <1>15 DEF StoreFails
  <2>2. CASE Return(h)
    <3>1. g # h /\ Stays(g)
      BY <2>2, ReturnIs
    <3>2. overtaken' = overtaken \ {h} \/ overtaken' = overtaken
      BY <1>15 DEF StoreFails
    <3> QED BY <2>1, <3>1, <3>2 DEF LetThrough, TenantOf, PlanOf, Stays, PastPlanGate
  <2>3. CASE ~Return(h)
    <3>1. /\ overtaken' = overtaken
          /\ \E stage \in {"unroutable", "to purge tasks", "to forget"} : Move(h, stage)
      BY <1>15, <2>3 DEF StoreFails
    <3>2. PastPlanGate(g)' => PastPlanGate(g)
      BY <3>1, MoveIs DEF PastPlanGate, Stays
    <3> QED BY <1>4, <2>1, <3>1, <3>2, SamePlans
  <2> QED BY <2>2, <2>3
<1>16. ASSUME \/ \E d \in Delivery : RecordScheduled(d)
              \/ \E t \in Task : ExecutorClaims(t) \/ ExecutorReports(t) \/ ExecutorFinishes(t)
              \/ DayPasses
              \/ UNCHANGED vars
       PROVE  LetThrough(g)'
  <2>1. UNCHANGED <<handler, plan, owner, overtaken>>
    BY <1>16 DEF RecordScheduled, ExecutorClaims, ExecutorReports, ExecutorFinishes,
                 DayPasses, Unchanged, vars, intakeVars, ghosts
  <2> QED BY <1>6, <2>1 DEF Stays
<1>17. CASE Crash
  BY <1>17 DEF Crash, Ends
<1> QED
  BY <1>7, <1>8, <1>9, <1>10, <1>11, <1>12, <1>13, <1>14, <1>15, <1>16, <1>17 DEF Next

\* The plan gate is as good as the transaction it reads in: whatever happens
\* between two requests or in the middle of one, nobody who needs a plan is past
\* the gate without one, unless the plan ended while that request was served.
THEOREM AdmittedOnPlanHolds == Spec => []AdmittedOnPlan
<1>1. Init => AdmittedOnPlan
  <2> SUFFICES ASSUME Init, NEW h \in Handler PROVE ~PastPlanGate(h)
    BY DEF AdmittedOnPlan
  <2> QED BY DEF Init, Idle, PastPlanGate
<1>2. IntakeTypeOK /\ AdmittedOnPlan /\ [Next]_vars => AdmittedOnPlan'
  <2>1. AdmittedOnPlan <=> \A g \in Handler : LetThrough(g)
    BY DEF AdmittedOnPlan, LetThrough
  <2>2. AdmittedOnPlan' <=> \A g \in Handler : LetThrough(g)'
    BY DEF AdmittedOnPlan, LetThrough
  <2> QED BY <2>1, <2>2, NextLetsThrough
<1> QED BY <1>1, <1>2, IntakeTypeCorrect, PTL DEF Spec

-----------------------------------------------------------------------------
(* The plan of an account and the purchases that are marked as seen.       *)

SeenAsBefore == \A d \in Delivery : Class[d] = "purchase" =>
                  (routing'[d] = "unseen" <=> routing[d] = "unseen")

LEMMA OnlyPurchasesBringPlans ==
  ASSUME IntakeTypeOK, StageFitsClass, [Next]_vars,
         \A h \in Handler : ~(RecordPurchase(h) /\ WithPlan(h))
  PROVE  UNCHANGED plan /\ SeenAsBefore
<1>1. ASSUME UNCHANGED routing PROVE SeenAsBefore
  BY <1>1 DEF SeenAsBefore
<1>2. ASSUME NEW d \in Delivery, Class[d] # "purchase", NEW mark,
             routing' = [routing EXCEPT ![d] = mark]
      PROVE  SeenAsBefore
  BY <1>2 DEF SeenAsBefore, IntakeTypeOK, StoreTypeOK
<1>3. ASSUME NEW h \in Handler, NEW d \in Delivery, Begin(h, d)
      PROVE  UNCHANGED <<plan, routing>>
  BY <1>3 DEF Begin, storeVars
<1>4. ASSUME NEW h \in Handler,
             ReadPlan(h) \/ CountToday(h) \/ RecordAccount(h) \/ PurgeMemory(h)
             \/ ForgetAccount(h) \/ StoreFails(h)
      PROVE  UNCHANGED <<plan, routing>>
  BY <1>4 DEF ReadPlan, CountToday, RecordAccount, PurgeMemory, ForgetAccount, StoreFails,
              Unchanged, storeVars
<1>5. ASSUME NEW h \in Handler, RecordWork(h) \/ RecordOther(h) \/ Uninstall(h)
      PROVE  UNCHANGED plan /\ SeenAsBefore
  <2>1. handler[h].d \in Delivery /\ FitsClass(handler[h].at, Class[handler[h].d])
    BY <1>5, TenantKnown DEF RecordWork, RecordOther, Uninstall, StageFitsClass
  <2>2. Class[handler[h].d] # "purchase"
    BY <1>5, <2>1 DEF RecordWork, RecordOther, Uninstall, FitsClass
  <2>3. UNCHANGED plan
    BY <1>5 DEF RecordWork, RecordOther, Uninstall, Unchanged
  <2>4. \/ UNCHANGED routing
        \/ \E mark : routing' = [routing EXCEPT ![handler[h].d] = mark]
    BY <1>5 DEF RecordWork, RecordOther, Uninstall, RecordTask, RecordIgnored, storeVars
  <2> QED BY <1>1, <1>2, <2>1, <2>2, <2>3, <2>4
<1>6. ASSUME NEW h \in Handler, RecordPurchase(h) PROVE UNCHANGED <<plan, routing>>
  BY <1>6 DEF RecordPurchase, storeVars
<1>7. ASSUME NEW h \in Handler, PurgeTasks(h) PROVE UNCHANGED plan /\ SeenAsBefore
  <2>1. handler[h].d \in Delivery /\ Class[handler[h].d] = "uninstalled"
    BY <1>7, TenantKnown DEF PurgeTasks, StageFitsClass, FitsClass
  <2>2. \A d \in Delivery : Class[d] = "purchase" => Event[d].installation # TenantOf(h)
    BY <2>1, IntakeAssumption DEF TenantOf
  <2>3. \A d \in Delivery : Class[d] = "purchase" => routing'[d] = routing[d]
    BY <1>7, <2>2 DEF PurgeTasks, DeleteInstallation
  <2> QED BY <1>7, <2>3 DEF PurgeTasks, Unchanged, SeenAsBefore
<1>8. ASSUME NEW d \in Delivery, RecordScheduled(d) PROVE UNCHANGED plan /\ SeenAsBefore
  <2>1. Class[d] # "purchase"
    BY <1>8 DEF RecordScheduled
  <2> QED BY <1>2, <1>8, <2>1 DEF RecordScheduled, RecordTask
<1>9. ASSUME \/ \E t \in Task : ExecutorClaims(t) \/ ExecutorReports(t) \/ ExecutorFinishes(t)
             \/ DayPasses \/ Crash \/ UNCHANGED vars
      PROVE  UNCHANGED <<plan, routing>>
  BY <1>9 DEF ExecutorClaims, ExecutorReports, ExecutorFinishes, Claim, Finish, DayPasses, Crash,
              Recover, Unchanged, storeVars, vars, intakeVars
<1> QED
  BY <1>1, <1>3, <1>4, <1>5, <1>6, <1>7, <1>8, <1>9 DEF Next

LEMMA NextLosesNoTransition ==
  ASSUME IntakeTypeOK, StageFitsClass, [Next]_vars, NoLostTransition
  PROVE  NoLostTransition'
<1> SUFFICES ASSUME NEW a \in Account
             PROVE  plan'[a] \in IF Purchases(a)' = {} THEN {NoPlan}
                                 ELSE {Change[d] : d \in Purchases(a)'}
  BY DEF NoLostTransition
<1>1. plan[a] \in IF Purchases(a) = {} THEN {NoPlan} ELSE {Change[d] : d \in Purchases(a)}
  BY DEF NoLostTransition
<1>2. CASE \A h \in Handler : ~(RecordPurchase(h) /\ WithPlan(h))
  <2>1. UNCHANGED plan /\ SeenAsBefore
    BY <1>2, OnlyPurchasesBringPlans
  <2>2. Purchases(a)' = Purchases(a)
    BY <2>1 DEF Purchases, SeenAsBefore
  <2> QED BY <1>1, <2>1, <2>2
<1>3. ASSUME NEW h \in Handler, RecordPurchase(h), WithPlan(h)
      PROVE  plan'[a] \in IF Purchases(a)' = {} THEN {NoPlan}
                          ELSE {Change[d] : d \in Purchases(a)'}
  <2> DEFINE e == handler[h].d
  <2>1. e \in Delivery /\ Class[e] = "purchase"
    BY <1>3, TenantKnown DEF RecordPurchase
  <2>2. routing'[e] = "ignored" /\ \A d \in Delivery \ {e} : routing'[d] = routing[d]
    BY <1>3, <2>1 DEF WithPlan, RecordIgnored, IntakeTypeOK, StoreTypeOK
  <2>3. Purchases(a) \subseteq Purchases(a)'
    BY <2>2 DEF Purchases
  <2>4. CASE Change[e].state # "none" /\ Purchaser[e] = a
    <3>1. e \in Purchases(a)'
      BY <2>1, <2>2, <2>4 DEF Purchases
    <3>2. plan'[a] = Change[e]
      BY <1>3, <2>4 DEF WithPlan, IntakeTypeOK
    <3> QED BY <3>1, <3>2
  <2>5. CASE Change[e].state = "none" \/ Purchaser[e] # a
    <3>1. plan'[a] = plan[a]
      BY <1>3, <2>5 DEF WithPlan, IntakeTypeOK
    <3>2. Purchases(a)' = Purchases(a)
      BY <2>2, <2>5 DEF Purchases
    <3> QED BY <1>1, <3>1, <3>2
  <2> QED BY <2>4, <2>5
<1> QED BY <1>2, <1>3

\* A purchase and the record of its delivery are one: no crash, failure or
\* replay leaves an account with a plan nobody recorded, or with none although
\* a purchase is marked as seen.
THEOREM NoLostTransitionHolds == Spec => []NoLostTransition
<1>1. Init => NoLostTransition
  BY DEF Init, StoreInit, NoLostTransition, Purchases
<1> QED
  BY <1>1, NextLosesNoTransition, IntakeTypeCorrect, StageFitsClassHolds, PTL DEF Spec

-----------------------------------------------------------------------------
(* What an uninstall leaves behind.  From its record on, whatever may still *)
(* write for installation i is noted in late[i]; and what is not noted is   *)
(* gone as far as some purge of i has come.                                 *)

MemoryGone(i) == \A t \in activity : InstallationOf(t) = i => t \in late[i]

RowsGone(i) ==
  /\ \A t \in Task : Present(t) /\ InstallationOf(t) = i => Source[t] \in late[i]
  /\ \A d \in Delivery : Event[d].installation = i /\ routing[d] # "unseen" => d \in late[i]

AccountGone(i) ==
  owner[i] # NoAccount => \E d \in late[i] \intersect Delivery : Class[d] = "installed"

PurgeAt(i, stage) == \E h \in Handler : handler[h].at = stage /\ TenantOf(h) = i

WritersNoted(i) ==
  /\ \A t \in working : InstallationOf(t) = i => t \in late[i]
  /\ \A h \in Handler : /\ handler[h].at # "idle" /\ ~Purging(h) /\ TenantOf(h) = i
                        => handler[h].d \in late[i]

PurgeProgress(i) ==
  \/ PurgeAt(i, "to purge memory")
  \/ PurgeAt(i, "to purge tasks") /\ MemoryGone(i)
  \/ PurgeAt(i, "to forget") /\ MemoryGone(i) /\ RowsGone(i)
  \/ MemoryGone(i) /\ RowsGone(i) /\ AccountGone(i)

DepartedInv == \A i \in departed : WritersNoted(i) /\ PurgeProgress(i)

\* The step that records an uninstall of i: what was noted before is let go.
Leaves(i) ==
  \E h \in Handler : Uninstall(h) /\ TenantOf(h) = i /\ Move(h, "to purge memory")

LEMMA LateGrows ==
  ASSUME IntakeTypeOK, [Next]_vars, NEW i \in departed', ~Leaves(i)
  PROVE  i \in departed /\ late[i] \subseteq late'[i]
<1>1. i \in Installation
  BY IntakeNextType DEF IntakeTypeOK
<1>2. CASE UNCHANGED <<departed, late>>
  BY <1>2
<1>3. ASSUME departed' = departed, NEW j, NEW who, MayStillWrite(j, who)
      PROVE  i \in departed /\ late[i] \subseteq late'[i]
  BY <1>1, <1>3 DEF MayStillWrite, IntakeTypeOK
<1>4. ASSUME NEW S, NotDeparted(S) PROVE i \in departed /\ late[i] \subseteq late'[i]
  BY <1>1, <1>4 DEF NotDeparted
<1>5. ASSUME NEW h \in Handler,
             ReadPlan(h) \/ CountToday(h) \/ RecordWork(h) \/ RecordOther(h)
             \/ RecordPurchase(h) \/ RecordAccount(h) \/ PurgeMemory(h) \/ PurgeTasks(h)
             \/ ForgetAccount(h)
      PROVE  UNCHANGED <<departed, late>>
  BY <1>5 DEF ReadPlan, CountToday, RecordWork, RecordOther, RecordPurchase, RecordAccount,
              PurgeMemory, PurgeTasks, ForgetAccount, Unchanged, ghosts
<1>6. ASSUME NEW h \in Handler, Uninstall(h)
      PROVE  i \in departed /\ late[i] \subseteq late'[i]
  <2>1. CASE UNCHANGED <<departed, late>>
    BY <2>1, <1>2
  <2>2. CASE ~UNCHANGED <<departed, late>>
    <3>1. /\ Move(h, "to purge memory")
          /\ departed' = departed \union {TenantOf(h)}
          /\ \E new : late' = [late EXCEPT ![TenantOf(h)] = new]
      BY <1>6, <2>2 DEF Uninstall
    <3>2. TenantOf(h) # i
      BY <1>6, <3>1 DEF Leaves
    <3> QED BY <1>1, <3>1, <3>2 DEF IntakeTypeOK
  <2> QED BY <2>1, <2>2
<1>7. ASSUME NEW t \in Task, ExecutorReports(t) \/ ExecutorFinishes(t)
      PROVE  UNCHANGED <<departed, late>>
  BY <1>7 DEF ExecutorReports, ExecutorFinishes, Unchanged, ghosts
<1>8. CASE DayPasses \/ UNCHANGED vars
  BY <1>2, <1>8 DEF DayPasses, vars, intakeVars, ghosts
<1>9. ASSUME NEW h \in Handler, NEW d \in Delivery, Begin(h, d)
      PROVE  i \in departed /\ late[i] \subseteq late'[i]
  BY <1>3, <1>9 DEF Begin
<1>10. ASSUME NEW d \in Delivery, RecordScheduled(d)
       PROVE  i \in departed /\ late[i] \subseteq late'[i]
  BY <1>3, <1>10 DEF RecordScheduled
<1>11. ASSUME NEW t \in Task, ExecutorClaims(t)
       PROVE  i \in departed /\ late[i] \subseteq late'[i]
  BY <1>3, <1>11 DEF ExecutorClaims
<1>12. ASSUME NEW h \in Handler, StoreFails(h)
       PROVE  i \in departed /\ late[i] \subseteq late'[i]
  BY <1>4, <1>12 DEF StoreFails
<1>13. CASE Crash
  BY <1>4, <1>13 DEF Crash
<1> QED
  BY <1>2, <1>5, <1>6, <1>7, <1>8, <1>9, <1>10, <1>11, <1>12, <1>13 DEF Next

\* Whoever starts to work for i after its departure is noted as he does.
LEMMA NewWritersNoted ==
  ASSUME IntakeTypeOK, [Next]_vars, NEW i \in departed', i \in departed, ~Leaves(i),
         WritersNoted(i)
  PROVE  WritersNoted(i)'
<1>1. late[i] \subseteq late'[i] /\ i \in Installation
  BY LateGrows DEF IntakeTypeOK
<1>2. ASSUME NEW t \in working', InstallationOf(t) = i PROVE t \in late'[i]
  <2>1. CASE t \in working
    BY <1>1, <1>2, <2>1 DEF WritersNoted
  <2>2. CASE t \notin working
    <3>1. ExecutorClaims(t)
      BY <2>2
      DEF Next, Begin, ReadPlan, CountToday, RecordWork, RecordOther, RecordPurchase,
          RecordAccount, Uninstall, PurgeMemory, PurgeTasks, ForgetAccount, StoreFails,
          RecordScheduled, ExecutorClaims, ExecutorReports, ExecutorFinishes, DayPasses,
          Crash, Unchanged, vars, intakeVars
    <3> QED BY <1>1, <1>2, <3>1 DEF ExecutorClaims, MayStillWrite, IntakeTypeOK
  <2> QED BY <2>1, <2>2
<1>3. ASSUME NEW h \in Handler, handler'[h].at # "idle", ~Purging(h)', TenantOf(h)' = i
      PROVE  handler'[h].d \in late'[i]
  <2>1. CASE Stays(h) \/ Advances(h)
    <3>1. handler'[h].d = handler[h].d /\ handler[h].at # "idle" /\ ~Purging(h)
      BY <1>3, <2>1 DEF Stays, Advances, Purging
    <3>2. TenantOf(h) = i
      BY <1>3, <3>1 DEF TenantOf
    <3> QED BY <1>1, <3>1, <3>2 DEF WritersNoted
  <2>2. CASE ~(Stays(h) \/ Advances(h))
    <3>1. Arrives(h)
      BY <1>3, <2>2, RequestSteps DEF Ends, Idle
    <3>2. PICK d \in Delivery : Begin(h, d)
      BY <3>1 DEF Arrives
    <3>3. handler'[h].d = d
      BY <3>2 DEF Begin, IntakeTypeOK, HandlersOK
    <3>4. Event[d].installation = i
      BY <1>3, <3>3 DEF TenantOf
    <3> QED BY <1>1, <3>2, <3>3, <3>4 DEF Begin, MayStillWrite, IntakeTypeOK
  <2> QED BY <2>1, <2>2
<1> QED BY <1>2, <1>3 DEF WritersNoted, InstallationOf, EventOf

LEMMA MemoryStaysGone ==
  ASSUME IntakeTypeOK, [Next]_vars, NEW i \in departed', ~Leaves(i), WritersNoted(i), MemoryGone(i)
  PROVE  MemoryGone(i)'
<1>1. late[i] \subseteq late'[i]
  BY LateGrows
<1>2. activity' \subseteq activity \union working
  BY DEF Next, Begin, ReadPlan, CountToday, RecordWork, RecordOther, RecordPurchase,
         RecordAccount, Uninstall, PurgeMemory, PurgeTasks, ForgetAccount, StoreFails,
         RecordScheduled, ExecutorClaims, ExecutorReports, ExecutorFinishes, DayPasses,
         Crash, Unchanged, vars, intakeVars
<1>3. \A t \in activity' : InstallationOf(t) = i => t \in late'[i]
  BY <1>1, <1>2 DEF MemoryGone, WritersNoted
<1> QED BY <1>3 DEF MemoryGone, InstallationOf, EventOf

\* A transaction that records delivery d, of task t if it has one.
Adds(d, t) ==
  /\ \A u \in Task : Present(u)' => Present(u) \/ Source[u] = d
  /\ \A e \in Delivery \ {d} : routing'[e] = routing[e]

LEMMA RecordTaskAdds ==
  ASSUME StoreTypeOK, NEW d \in Delivery, NEW t \in Task, RecordTask(d, t)
  PROVE  Adds(d, t)
<1>1. ASSUME NEW u \in Task, Present(u)', u # t PROVE Present(u)
  <2>1. state'[u] = Tombstone(Displaced(d))[u]
    BY <1>1 DEF RecordTask, Tombstone
  <2>2. u \in Displaced(d) => state[u] = "queued"
    BY DEF Displaced, QueuedReviews
  <2> QED BY <1>1, <2>1, <2>2 DEF Tombstone, Present
<1>2. Source[t] = d /\ \A e \in Delivery \ {d} : routing'[e] = routing[e]
  BY DEF RecordTask, StoreTypeOK
<1> QED BY <1>1, <1>2 DEF Adds

LEMMA RecordIgnoredAdds ==
  ASSUME StoreTypeOK, NEW d \in Delivery, RecordIgnored(d)
  PROVE  \A t \in Task : Adds(d, t)
BY DEF Adds, RecordIgnored, Present, StoreTypeOK

\* The transactions that add neither row nor record.
LEMMA NothingAdded ==
  ASSUME StoreTypeOK,
         \/ \E t \in Task : Claim(t) \/ Finish(t, "completed")
         \/ Recover
         \/ \E i \in Installation : DeleteInstallation(i)
         \/ UNCHANGED storeVars
  PROVE  /\ \A u \in Task : Present(u)' => Present(u)
         /\ \A d \in Delivery : routing'[d] # "unseen" => routing[d] # "unseen"
<1>1. ASSUME NEW t \in Task, Claim(t), NEW u \in Task, Present(u)' PROVE Present(u)
  BY <1>1 DEF Claim, Claimable, Present, StoreTypeOK
<1>2. ASSUME NEW t \in Task, Finish(t, "completed"), NEW u \in Task, Present(u)'
      PROVE  Present(u)
  BY <1>2 DEF Finish, Present, StoreTypeOK
<1>3. ASSUME Recover, NEW u \in Task, Present(u)' PROVE Present(u)
  BY <1>3 DEF Recover, AfterInterruption, Present
<1>4. ASSUME NEW i \in Installation, DeleteInstallation(i), NEW u \in Task, Present(u)'
      PROVE  Present(u)
  BY <1>4 DEF DeleteInstallation, Deleted, Present
<1>5. ASSUME UNCHANGED storeVars, NEW u \in Task, Present(u)' PROVE Present(u)
  BY <1>5 DEF storeVars, Present
<1>6. \A d \in Delivery : routing'[d] # "unseen" => routing[d] # "unseen"
  BY DEF Claim, Finish, Recover, DeleteInstallation, storeVars
<1> QED BY <1>1, <1>2, <1>3, <1>4, <1>5, <1>6

LEMMA RowsStayGone ==
  ASSUME IntakeTypeOK, [Next]_vars, NEW i \in departed', ~Leaves(i), WritersNoted(i), RowsGone(i)
  PROVE  RowsGone(i)'
<1>1. late[i] \subseteq late'[i] /\ i \in departed /\ i \in Installation
  BY LateGrows DEF IntakeTypeOK
<1>2. ASSUME \A u \in Task : Present(u)' => Present(u),
             \A d \in Delivery : routing'[d] # "unseen" => routing[d] # "unseen"
      PROVE  RowsGone(i)'
  BY <1>1, <1>2 DEF RowsGone, InstallationOf, EventOf
<1>3. ASSUME NEW d \in Delivery, NEW t, Adds(d, t), Event[d].installation = i => d \in late'[i]
      PROVE  RowsGone(i)'
  BY <1>1, <1>3 DEF RowsGone, Adds, InstallationOf, EventOf
<1>4. ASSUME NEW h \in Handler, handler[h].at # "idle", ~Purging(h), TenantOf(h) = i
      PROVE  handler[h].d \in late'[i]
  BY <1>1, <1>4 DEF WritersNoted
<1>5. ASSUME NEW h \in Handler,
             RecordWork(h) \/ RecordOther(h) \/ RecordPurchase(h) \/ Uninstall(h)
      PROVE  RowsGone(i)'
  <2>1. handler[h].at # "idle" /\ ~Purging(h) /\ handler[h].d \in Delivery
    BY <1>5, TenantKnown DEF RecordWork, RecordOther, RecordPurchase, Uninstall, Purging
  <2>2. Event[handler[h].d].installation = i => handler[h].d \in late'[i]
    BY <1>4, <2>1 DEF TenantOf
  <2>3. CASE UNCHANGED storeVars
    BY <1>2, <2>3, NothingAdded DEF IntakeTypeOK
  <2>4. CASE \E t \in Task : RecordTask(handler[h].d, t)
    BY <1>3, <2>1, <2>2, <2>4, RecordTaskAdds DEF IntakeTypeOK
  <2>5. CASE RecordIgnored(handler[h].d)
    <3>1. \A u \in Task : Present(u)' => Present(u)
      BY <2>5 DEF RecordIgnored, Present
    <3>2. \A e \in Delivery \ {handler[h].d} : routing'[e] = routing[e]
      BY <2>5 DEF RecordIgnored, IntakeTypeOK, StoreTypeOK
    <3> QED BY <1>1, <2>2, <3>1, <3>2 DEF RowsGone, InstallationOf, EventOf
  <2> QED
    BY <1>5, <2>3, <2>4, <2>5 DEF RecordWork, RecordOther, RecordPurchase, WithPlan, Uninstall
<1>6. ASSUME NEW d \in Delivery, RecordScheduled(d) PROVE RowsGone(i)'
  <2>1. Event[d].installation = i => d \in late'[i]
    BY <1>1, <1>6 DEF RecordScheduled, MayStillWrite, IntakeTypeOK
  <2> QED BY <1>3, <1>6, <2>1, RecordTaskAdds DEF RecordScheduled, IntakeTypeOK
<1>7. ASSUME NEW h \in Handler,
             (\E d \in Delivery : Begin(h, d)) \/ ReadPlan(h) \/ CountToday(h)
             \/ RecordAccount(h) \/ PurgeMemory(h) \/ ForgetAccount(h) \/ StoreFails(h)
      PROVE  UNCHANGED storeVars
  BY <1>7 DEF Begin, ReadPlan, CountToday, RecordAccount, PurgeMemory, ForgetAccount,
              StoreFails, Unchanged, storeVars
<1>8. ASSUME NEW h \in Handler, PurgeTasks(h) PROVE \E j \in Installation : DeleteInstallation(j)
  BY <1>8, TenantKnown DEF PurgeTasks
<1>9. ASSUME \/ \E t \in Task : ExecutorClaims(t) \/ ExecutorReports(t) \/ ExecutorFinishes(t)
             \/ DayPasses \/ Crash \/ UNCHANGED vars
      PROVE  \/ \E t \in Task : Claim(t) \/ Finish(t, "completed")
             \/ Recover
             \/ UNCHANGED storeVars
  BY <1>9 DEF ExecutorClaims, ExecutorReports, ExecutorFinishes, DayPasses, Crash, Unchanged,
              vars, storeVars
<1> QED
  BY <1>2, <1>5, <1>6, <1>7, <1>8, <1>9, NothingAdded DEF Next, IntakeTypeOK

LEMMA AccountStaysGone ==
  ASSUME IntakeTypeOK, [Next]_vars, NEW i \in departed', ~Leaves(i), WritersNoted(i),
         AccountGone(i)
  PROVE  AccountGone(i)'
<1>1. late[i] \subseteq late'[i] /\ i \in departed /\ i \in Installation
  BY LateGrows DEF IntakeTypeOK
<1>2. CASE owner'[i] = NoAccount \/ owner'[i] = owner[i]
  BY <1>1, <1>2 DEF AccountGone
<1>3. CASE owner'[i] # NoAccount /\ owner'[i] # owner[i]
  <2>1. PICK h \in Handler : RecordAccount(h)
    BY <1>1, <1>3
    DEF Next, Begin, ReadPlan, CountToday, RecordWork, RecordOther, RecordPurchase,
        RecordAccount, Uninstall, PurgeMemory, PurgeTasks, ForgetAccount, Forget, StoreFails,
        RecordScheduled, ExecutorClaims, ExecutorReports, ExecutorFinishes, DayPasses,
        Crash, Unchanged, vars, intakeVars, IntakeTypeOK
  <2>2. TenantOf(h) = i
    BY <1>1, <1>3, <2>1 DEF RecordAccount, IntakeTypeOK
  <2>3. handler[h].at = "begun" /\ Class[handler[h].d] = "installed" /\ handler[h].d \in Delivery
    BY <2>1, TenantKnown DEF RecordAccount
  <2>4. handler[h].d \in late[i]
    BY <2>2, <2>3 DEF WritersNoted, Purging
  <2> QED BY <1>1, <2>3, <2>4 DEF AccountGone
<1> QED BY <1>2, <1>3

\* A purge goes on with its next step, or i is no longer taken for departed.
LEMMA PurgesGoOn ==
  ASSUME IntakeTypeOK, [Next]_vars, NEW i \in departed', ~Leaves(i),
         NEW h \in Handler, Purging(h), TenantOf(h) = i
  PROVE  \/ Stays(h)
         \/ PurgeMemory(h) \/ PurgeTasks(h) \/ ForgetAccount(h)
<1>1. ASSUME NEW g \in Handler, NEW d \in Delivery, Begin(g, d) PROVE Stays(h)
  BY <1>1 DEF Begin, Purging, Stays, IntakeTypeOK, HandlersOK
<1>2. ASSUME NEW g \in Handler, ReadPlan(g) PROVE Stays(h)
  <2>1. g # h
    BY <1>2 DEF ReadPlan, Purging
  <2> QED BY <1>2, <2>1 DEF ReadPlan, Move, Stays, IntakeTypeOK, HandlersOK
<1>3. ASSUME NEW g \in Handler,
             CountToday(g) \/ RecordWork(g) \/ RecordOther(g) \/ RecordPurchase(g)
             \/ RecordAccount(g) \/ Uninstall(g)
      PROVE  Stays(h)
  <2>1. g # h
    BY <1>3 DEF CountToday, RecordWork, RecordOther, RecordPurchase, RecordAccount,
                Uninstall, Purging
  <2> QED
    BY <1>3, <2>1, MoveIs, ReturnIs
    DEF CountToday, RecordWork, RecordOther, RecordPurchase, RecordAccount, Uninstall
<1>4. ASSUME NEW g \in Handler, PurgeMemory(g) \/ PurgeTasks(g) \/ ForgetAccount(g), g # h
      PROVE  Stays(h)
  BY <1>4, MoveIs, ReturnIs DEF PurgeMemory, PurgeTasks, ForgetAccount
<1>5. ASSUME NEW g \in Handler, StoreFails(g) PROVE Stays(h)
  <2>1. g # h
    BY <1>5 DEF StoreFails, NotDeparted
  <2> QED BY <1>5, <2>1, MoveIs, ReturnIs DEF StoreFails
<1>6. ~Crash
  BY DEF Crash, NotDeparted
<1>7. ASSUME \/ \E d \in Delivery : RecordScheduled(d)
             \/ \E t \in Task : ExecutorClaims(t) \/ ExecutorReports(t) \/ ExecutorFinishes(t)
             \/ DayPasses
             \/ UNCHANGED vars
      PROVE  UNCHANGED handler
  BY <1>7 DEF RecordScheduled, ExecutorClaims, ExecutorReports, ExecutorFinishes,
               DayPasses, Unchanged, vars, intakeVars
<1> QED BY <1>1, <1>2, <1>3, <1>4, <1>5, <1>6, <1>7 DEF Next, Stays

LEMMA PurgeAdvances ==
  ASSUME IntakeTypeOK, [Next]_vars, NEW i \in departed', ~Leaves(i), WritersNoted(i),
         PurgeProgress(i)
  PROVE  PurgeProgress(i)'
<1>0. i \in Installation
  BY IntakeNextType DEF IntakeTypeOK
<1>1. MemoryGone(i) => MemoryGone(i)'
  BY MemoryStaysGone
<1>2. RowsGone(i) => RowsGone(i)'
  BY RowsStayGone
<1>3. AccountGone(i) => AccountGone(i)'
  BY AccountStaysGone
<1>4. ASSUME NEW h \in Handler, NEW stage, handler[h].at = stage, TenantOf(h) = i, Stays(h)
      PROVE  PurgeAt(i, stage)'
  BY <1>4 DEF PurgeAt, Stays, TenantOf
<1>5. ASSUME NEW h \in Handler, NEW stage, TenantOf(h) = i, Move(h, stage)
      PROVE  PurgeAt(i, stage)'
  <2>1. handler'[h].at = stage /\ handler'[h].d = handler[h].d
    BY <1>5, MoveIs
  <2> QED BY <1>5, <2>1 DEF PurgeAt, TenantOf
<1>6. CASE PurgeAt(i, "to purge memory")
  <2>1. PICK h \in Handler : handler[h].at = "to purge memory" /\ TenantOf(h) = i
    BY <1>6 DEF PurgeAt
  <2>2. CASE Stays(h)
    BY <1>4, <2>1, <2>2 DEF PurgeProgress
  <2>3. CASE PurgeMemory(h)
    <3>1. MemoryGone(i)'
      BY <2>1, <2>3 DEF PurgeMemory, MemoryGone, InstallationOf, EventOf
    <3>2. PurgeAt(i, "to purge tasks")'
      BY <1>5, <2>1, <2>3 DEF PurgeMemory
    <3> QED BY <3>1, <3>2 DEF PurgeProgress
  <2> QED BY <2>1, <2>2, <2>3, PurgesGoOn DEF Purging, PurgeTasks, ForgetAccount
<1>7. CASE PurgeAt(i, "to purge tasks") /\ MemoryGone(i)
  <2>1. PICK h \in Handler : handler[h].at = "to purge tasks" /\ TenantOf(h) = i
    BY <1>7 DEF PurgeAt
  <2>2. CASE Stays(h)
    BY <1>1, <1>4, <1>7, <2>1, <2>2 DEF PurgeProgress
  <2>3. CASE PurgeTasks(h)
    <3>1. /\ \A t \in Task : InstallationOf(t) = i => state'[t] = "absent"
          /\ \A d \in Delivery : Event[d].installation = i => routing'[d] = "unseen"
      BY <2>1, <2>3 DEF PurgeTasks, DeleteInstallation, Deleted
    <3>2. RowsGone(i)'
      BY <3>1 DEF RowsGone, Present, InstallationOf, EventOf
    <3>3. PurgeAt(i, "to forget")'
      BY <1>5, <2>1, <2>3 DEF PurgeTasks
    <3> QED BY <1>1, <1>7, <3>2, <3>3 DEF PurgeProgress
  <2> QED BY <2>1, <2>2, <2>3, PurgesGoOn DEF Purging, PurgeMemory, ForgetAccount
<1>8. CASE PurgeAt(i, "to forget") /\ MemoryGone(i) /\ RowsGone(i)
  <2>1. PICK h \in Handler : handler[h].at = "to forget" /\ TenantOf(h) = i
    BY <1>8 DEF PurgeAt
  <2>2. CASE Stays(h)
    BY <1>1, <1>2, <1>4, <1>8, <2>1, <2>2 DEF PurgeProgress
  <2>3. CASE ForgetAccount(h)
    <3>1. owner'[i] = NoAccount
      BY <1>0, <2>1, <2>3 DEF ForgetAccount, Forget, IntakeTypeOK
    <3>2. AccountGone(i)'
      BY <3>1 DEF AccountGone
    <3> QED BY <1>1, <1>2, <1>8, <3>2 DEF PurgeProgress
  <2> QED BY <2>1, <2>2, <2>3, PurgesGoOn DEF Purging, PurgeMemory, PurgeTasks
<1>9. CASE MemoryGone(i) /\ RowsGone(i) /\ AccountGone(i)
  BY <1>1, <1>2, <1>3, <1>9 DEF PurgeProgress
<1> QED BY <1>6, <1>7, <1>8, <1>9 DEF PurgeProgress

\* When the uninstall is recorded, everybody at work for i is noted.
LEMMA DepartureNotesWriters ==
  ASSUME IntakeTypeOK, NEW i \in Installation, Leaves(i)
  PROVE  WritersNoted(i)' /\ PurgeProgress(i)'
<1>1. PICK h \in Handler : Uninstall(h) /\ TenantOf(h) = i /\ Move(h, "to purge memory")
  BY DEF Leaves
<1>2. handler'[h].at = "to purge memory" /\ handler'[h].d = handler[h].d
      /\ \A g \in Handler \ {h} : Stays(g)
  BY <1>1, MoveIs
<1>3. late' = [late EXCEPT ![i] = {t \in working : InstallationOf(t) = i}
                 \union {handler[g].d : g \in {f \in Handler \ {h} :
                           handler[f].at # "idle" /\ TenantOf(f) = i}}]
  <2>1. ASSUME Return(h) PROVE FALSE
    <3>1. handler'[h].at = "idle"
      BY <2>1, ReturnIs DEF Ends, Idle
    <3> QED BY <1>2, <3>1
  <2> QED BY <1>1, <2>1 DEF Uninstall
<1>4. late'[i] = {t \in working : InstallationOf(t) = i}
                 \union {handler[g].d : g \in {f \in Handler \ {h} :
                           handler[f].at # "idle" /\ TenantOf(f) = i}}
  BY <1>3 DEF IntakeTypeOK
<1>5. UNCHANGED working
  BY <1>1 DEF Uninstall, Unchanged
<1>6. \A t \in working' : InstallationOf(t) = i => t \in late'[i]
  BY <1>4, <1>5
<1>7. ASSUME NEW g \in Handler, handler'[g].at # "idle", ~Purging(g)', TenantOf(g)' = i
      PROVE  handler'[g].d \in late'[i]
  <2>1. g # h
    BY <1>2, <1>7 DEF Purging
  <2>2. handler'[g] = handler[g]
    BY <1>2, <2>1 DEF Stays
  <2>3. g \in {f \in Handler \ {h} : handler[f].at # "idle" /\ TenantOf(f) = i}
    BY <1>7, <2>1, <2>2 DEF TenantOf
  <2> QED BY <1>4, <2>2, <2>3
<1>8. WritersNoted(i)'
  BY <1>6, <1>7 DEF WritersNoted, InstallationOf, EventOf
<1>9. PurgeAt(i, "to purge memory")'
  BY <1>1, <1>2 DEF PurgeAt, TenantOf
<1> QED BY <1>8, <1>9 DEF PurgeProgress

\* A finished uninstall leaves nothing that was there before it: what the
\* tables still hold of the tenant was written by whoever was at work when it
\* came, or arrived after it.
THEOREM NothingOfTheDepartedHolds == Spec => []NothingOfTheDeparted
<1>1. Init => DepartedInv
  BY DEF Init, DepartedInv
<1>2. IntakeTypeOK /\ DepartedInv /\ [Next]_vars => DepartedInv'
  <2> SUFFICES ASSUME IntakeTypeOK, DepartedInv, [Next]_vars, NEW i \in departed'
               PROVE  WritersNoted(i)' /\ PurgeProgress(i)'
    BY DEF DepartedInv
  <2>1. CASE Leaves(i)
    BY <2>1, DepartureNotesWriters, IntakeNextType DEF IntakeTypeOK
  <2>2. CASE ~Leaves(i)
    <3>1. i \in departed /\ WritersNoted(i) /\ PurgeProgress(i)
      BY <2>2, LateGrows DEF DepartedInv
    <3> QED BY <2>2, <3>1, NewWritersNoted, PurgeAdvances
  <2> QED BY <2>1, <2>2
<1>3. DepartedInv => NothingOfTheDeparted
  BY DEF DepartedInv, PurgeProgress, PurgeAt, Purging, NothingOfTheDeparted,
         MemoryGone, RowsGone, AccountGone
<1> QED BY <1>1, <1>2, <1>3, IntakeTypeCorrect, PTL DEF Spec

-----------------------------------------------------------------------------
(* The daily quota.  A request that was admitted holds a place of its own:  *)
(* the routed tasks and the admitted requests together stay below a cap     *)
(* plus the number of handlers.                                             *)

Limited(i) == \A tier \in Admissible(i) : DayCap(i, tier) # {}

Admitted(i) == {h \in Handler : handler[h].at = "admitted" /\ TenantOf(h) = i}

CapsApply ==
  \A h \in Handler :
    handler[h].at = "limited" /\ Limited(TenantOf(h)) => handler[h].cap \subseteq Caps(TenantOf(h))

WithinQuota(i) ==
  \/ Routed(i) = {} /\ Admitted(i) = {}
  \/ \E cap \in Caps(i) :
       Cardinality(Routed(i)) + Cardinality(Admitted(i)) < cap + Cardinality(Handler)

QuotaInv == CapsApply /\ \A i \in Installation : Limited(i) => WithinQuota(i)

LEMMA CapsAreNumbers ==
  ASSUME NEW i \in Installation
  PROVE  Caps(i) \subseteq Nat
BY LimitsAreLimits DEF Caps

LEMMA QuotaSetsFinite ==
  ASSUME NEW i
  PROVE  /\ IsFiniteSet(Routed(i)) /\ Cardinality(Routed(i)) \in Nat
         /\ IsFiniteSet(Admitted(i)) /\ Cardinality(Admitted(i)) \in Nat
         /\ Cardinality(Handler) \in Nat
<1>1. Routed(i) \in SUBSET Task /\ Admitted(i) \in SUBSET Handler
  BY DEF Routed, Recent, Admitted
<1>2. IsFiniteSet(Routed(i)) /\ IsFiniteSet(Admitted(i))
  BY <1>1, FS_Subset, StoreAssumption, IntakeAssumption
<1> QED BY <1>2, FS_CardinalityType, IntakeAssumption

\* The plan a request is limited by is one that somebody may be admitted under.
LEMMA TierAdmissible ==
  ASSUME IntakeTypeOK, NoLostTransition, NEW i \in Installation,
         RequirePlan => Entitled(i) \/ i \in Listed
  PROVE  TierOf(i) \in Admissible(i)
<1>1. CASE ~Entitled(i)
  BY <1>1 DEF TierOf, Admissible
<1>2. CASE Entitled(i)
  <2>1. PlanOf(i) # NoPlan
    BY <1>2 DEF Entitled, Entitling, NoPlan
  <2>2. owner[i] \in Account /\ PlanOf(i) = plan[owner[i]]
    BY <2>1 DEF PlanOf
  <2>3. PlanOf(i) \in {Change[d] : d \in Purchases(owner[i])}
    BY <2>1, <2>2 DEF NoLostTransition
  <2>4. PICK d \in Delivery : Class[d] = "purchase" /\ PlanOf(i) = Change[d]
    BY <2>3 DEF Purchases
  <2> QED BY <1>2, <2>4 DEF TierOf, Admissible
<1> QED BY <1>1, <1>2

LEMMA ReadPlanReadsCaps ==
  ASSUME IntakeTypeOK, NoLostTransition, NEW h \in Handler, ReadPlan(h), Limited(TenantOf(h))
  PROVE  /\ handler'[h].at # "admitted"
         /\ handler'[h].at = "limited" => handler'[h].cap \subseteq Caps(TenantOf(h))
<1> DEFINE i == TenantOf(h)
           cap == DayCap(i, TierOf(i))
<1>1. i \in Installation
  BY TenantKnown DEF ReadPlan
<1>2. CASE RequirePlan /\ ~Entitled(i) /\ i \notin Listed
  <2>1. handler'[h].at = "unpaid"
    BY <1>2, MoveIs DEF ReadPlan
  <2> QED BY <2>1
<1>3. CASE ~(RequirePlan /\ ~Entitled(i) /\ i \notin Listed)
  <2>1. TierOf(i) \in Admissible(i)
    BY <1>1, <1>3, TierAdmissible
  <2>2. cap # {} /\ cap \subseteq Caps(i)
    BY <2>1 DEF Limited, Caps
  <2>3. handler' = [handler EXCEPT ![h].cap = cap,
                      ![h].at = IF cap = {} THEN "admitted" ELSE "limited"]
    BY <1>3 DEF ReadPlan
  <2>4. handler'[h].at = "limited" /\ handler'[h].cap = cap
    <3> HIDE DEF cap
    <3> QED BY <2>2, <2>3 DEF IntakeTypeOK, HandlersOK
  <2> QED BY <2>2, <2>4
<1> QED BY <1>2, <1>3

\* Who is admitted, and with what cap who waits to be.
LEMMA ReadersAndCounters ==
  ASSUME IntakeTypeOK, [Next]_vars, NEW g \in Handler,
         handler'[g].at \in {"limited", "admitted"}
  PROVE  Stays(g) \/ ReadPlan(g) \/ CountToday(g)
<1>1. ASSUME NEW h \in Handler, NEW d \in Delivery, Begin(h, d) PROVE Stays(g)
  BY <1>1 DEF Begin, IntakeTypeOK, HandlersOK, Stays
<1>2. ASSUME NEW h \in Handler, ReadPlan(h), h # g PROVE Stays(g)
  BY <1>2 DEF ReadPlan, Move, Stays, IntakeTypeOK, HandlersOK
<1>3. ASSUME NEW h \in Handler,
             CountToday(h) \/ RecordWork(h) \/ RecordOther(h) \/ RecordPurchase(h)
             \/ RecordAccount(h) \/ Uninstall(h) \/ PurgeMemory(h) \/ PurgeTasks(h)
             \/ ForgetAccount(h) \/ StoreFails(h),
             h # g
      PROVE  Stays(g)
  BY <1>3, MoveIs, ReturnIs
  DEF CountToday, RecordWork, RecordOther, RecordPurchase, RecordAccount, Uninstall,
      PurgeMemory, PurgeTasks, ForgetAccount, StoreFails
<1>4. ASSUME RecordWork(g) \/ RecordOther(g) \/ RecordPurchase(g) \/ RecordAccount(g)
             \/ Uninstall(g) \/ PurgeMemory(g) \/ PurgeTasks(g) \/ ForgetAccount(g)
             \/ StoreFails(g)
      PROVE  FALSE
  <2>1. ASSUME Return(g) PROVE FALSE
    <3>1. handler'[g].at = "idle"
      BY <2>1, ReturnIs DEF Ends, Idle
    <3> QED BY <3>1
  <2>2. ~ \E stage \in {"unroutable", "to purge memory", "to purge tasks", "to forget"} :
             Move(g, stage)
    BY MoveIs
  <2> QED
    BY <1>4, <2>1, <2>2
    DEF RecordWork, RecordOther, RecordPurchase, RecordAccount, Uninstall,
        PurgeMemory, PurgeTasks, ForgetAccount, StoreFails
<1>5. ASSUME \/ \E d \in Delivery : RecordScheduled(d)
             \/ \E t \in Task : ExecutorClaims(t) \/ ExecutorReports(t) \/ ExecutorFinishes(t)
             \/ DayPasses
             \/ UNCHANGED vars
      PROVE  UNCHANGED handler
  BY <1>5 DEF RecordScheduled, ExecutorClaims, ExecutorReports, ExecutorFinishes,
               DayPasses, Unchanged, vars, intakeVars
<1>6. ~Crash
  BY DEF Crash, Idle
<1> QED BY <1>1, <1>2, <1>3, <1>4, <1>5, <1>6 DEF Next, Stays

LEMMA CapsStillApply ==
  ASSUME IntakeTypeOK, NoLostTransition, [Next]_vars, CapsApply
  PROVE  CapsApply'
<1> SUFFICES ASSUME NEW h \in Handler, handler'[h].at = "limited",
                    NEW i, i = Event[handler'[h].d].installation, Limited(i)
             PROVE  handler'[h].cap \subseteq Caps(i)
  BY DEF CapsApply, TenantOf, Limited, Caps, Admissible, DayCap
<1>1. CASE Stays(h)
  BY <1>1 DEF Stays, CapsApply, TenantOf
<1>2. CASE ReadPlan(h)
  <2>1. handler'[h].d = handler[h].d
    <3>1. CASE Move(h, "unpaid")
      BY <3>1, MoveIs
    <3>2. CASE ~Move(h, "unpaid")
      BY <1>2, <3>2 DEF ReadPlan, IntakeTypeOK, HandlersOK
    <3> QED BY <3>1, <3>2
  <2>2. TenantOf(h) = i
    BY <2>1 DEF TenantOf
  <2> QED BY <1>2, <2>2, ReadPlanReadsCaps
<1>3. CASE CountToday(h)
  <2>1. Move(h, "admitted") \/ Move(h, "over quota")
    BY <1>3 DEF CountToday
  <2>2. handler'[h].at \in {"admitted", "over quota"}
    BY <2>1, MoveIs
  <2> QED BY <2>2
<1> QED BY <1>1, <1>2, <1>3, ReadersAndCounters

\* A routed task appears with the end of a request that was admitted.
LEMMA RoutedGrows ==
  ASSUME IntakeTypeOK, [Next]_vars, NEW i \in Installation
  PROVE  \/ Routed(i)' \subseteq Routed(i)
         \/ \E h \in Admitted(i), t \in Task :
              Ends(h) /\ Routed(i)' \subseteq Routed(i) \union {t}
<1>1. ASSUME UNCHANGED created, dayStart <= dayStart',
             \A t \in Task : Present(t)' => Present(t)
      PROVE  Routed(i)' \subseteq Routed(i)
  <2>1. dayStart \in Nat /\ dayStart' \in Nat /\ created \in [Task -> Nat]
    BY IntakeNextType DEF IntakeTypeOK, StoreTypeOK
  <2>2. \A t \in Task : created'[t] > dayStart' => created[t] > dayStart
    BY <1>1, <2>1
  <2> QED BY <1>1, <2>2 DEF Routed, Recent, InstallationOf, EventOf
<1>2. dayStart \in Nat /\ dayStart <= dayStart
  BY DEF IntakeTypeOK, StoreTypeOK
<1>3. ASSUME NEW d \in Delivery, NEW u \in Task, RecordTask(d, u), UNCHANGED dayStart
      PROVE  Routed(i)' \subseteq Routed(i) \union {u}
             /\ (Event[d].installation # i \/ Class[d] # "work" => Routed(i)' \subseteq Routed(i))
  <2>1. \A t \in Task \ {u} : created'[t] = created[t] /\ (Present(t)' => Present(t))
    <3>1. \A t \in Displaced(d) : state[t] = "queued"
      BY DEF Displaced, QueuedReviews
    <3> QED BY <1>3, <3>1 DEF RecordTask, Tombstone, Present, IntakeTypeOK, StoreTypeOK
  <2>2. Source[u] = d
    BY <1>3 DEF RecordTask
  <2> QED
    BY <1>3, <2>1, <2>2 DEF Routed, Recent, InstallationOf, EventOf
<1>4. ASSUME NEW h \in Handler, RecordWork(h)
      PROVE  \/ Routed(i)' \subseteq Routed(i)
             \/ \E g \in Admitted(i), t \in Task :
                  Ends(g) /\ Routed(i)' \subseteq Routed(i) \union {t}
  <2>1. handler[h].d \in Delivery /\ UNCHANGED dayStart /\ Ends(h)
    BY <1>4, TenantKnown, ReturnIs DEF RecordWork, Unchanged
  <2>2. CASE UNCHANGED storeVars
    BY <1>1, <1>2, <2>1, <2>2 DEF storeVars, Present
  <2>3. ASSUME NEW t \in Task, RecordTask(handler[h].d, t), TenantOf(h) = i
        PROVE  h \in Admitted(i) /\ Routed(i)' \subseteq Routed(i) \union {t}
    BY <1>3, <1>4, <2>1, <2>3 DEF Admitted, RecordWork
  <2>4. ASSUME NEW t \in Task, RecordTask(handler[h].d, t), TenantOf(h) # i
        PROVE  Routed(i)' \subseteq Routed(i)
    BY <1>3, <2>1, <2>4 DEF TenantOf
  <2> QED BY <1>4, <2>1, <2>2, <2>3, <2>4 DEF RecordWork
<1>5. ASSUME NEW d \in Delivery, RecordScheduled(d) PROVE Routed(i)' \subseteq Routed(i)
  BY <1>3, <1>5 DEF RecordScheduled
<1>6. ASSUME NEW h \in Handler,
             (\E d \in Delivery : Begin(h, d)) \/ ReadPlan(h) \/ CountToday(h)
             \/ RecordAccount(h) \/ PurgeMemory(h) \/ ForgetAccount(h) \/ StoreFails(h)
      PROVE  Routed(i)' \subseteq Routed(i)
  <2>1. UNCHANGED <<storeVars, dayStart>>
    BY <1>6 DEF Begin, ReadPlan, CountToday, RecordAccount, PurgeMemory, ForgetAccount,
                StoreFails, Unchanged, storeVars
  <2> QED BY <1>1, <1>2, <2>1 DEF storeVars, Present
<1>7. ASSUME NEW h \in Handler, RecordOther(h) \/ RecordPurchase(h) \/ Uninstall(h)
      PROVE  Routed(i)' \subseteq Routed(i)
  <2>1. UNCHANGED <<state, created, dayStart>>
    BY <1>7 DEF RecordOther, RecordPurchase, WithPlan, Uninstall, RecordIgnored, Unchanged,
                storeVars
  <2> QED BY <1>1, <1>2, <2>1 DEF Present
<1>8. ASSUME NEW h \in Handler, PurgeTasks(h) PROVE Routed(i)' \subseteq Routed(i)
  <2>1. DeleteInstallation(TenantOf(h)) /\ UNCHANGED dayStart
    BY <1>8 DEF PurgeTasks, Unchanged
  <2>2. UNCHANGED created /\ \A t \in Task : Present(t)' => Present(t)
    BY <2>1 DEF DeleteInstallation, Deleted, Present
  <2> QED BY <1>1, <1>2, <2>1, <2>2
<1>9. ASSUME NEW t \in Task, ExecutorClaims(t) \/ ExecutorReports(t) \/ ExecutorFinishes(t)
      PROVE  Routed(i)' \subseteq Routed(i)
  <2>1. UNCHANGED <<created, dayStart>> /\ (Claim(t) \/ Finish(t, "completed") \/ UNCHANGED storeVars)
    BY <1>9 DEF ExecutorClaims, ExecutorReports, ExecutorFinishes, Claim, Finish, Unchanged,
                storeVars
  <2> QED BY <1>1, <1>2, <2>1, NothingAdded DEF IntakeTypeOK
<1>10. CASE DayPasses
  <2>1. UNCHANGED storeVars /\ dayStart <= dayStart'
    BY <1>2, <1>10 DEF DayPasses, IntakeTypeOK, StoreTypeOK
  <2> QED BY <1>1, <2>1 DEF storeVars, Present
<1>11. CASE Crash
  <2>1. UNCHANGED <<created, dayStart>> /\ Recover
    BY <1>11 DEF Crash, Recover
  <2> QED BY <1>1, <1>2, <2>1, NothingAdded DEF IntakeTypeOK
<1>12. CASE UNCHANGED vars
  BY <1>1, <1>2, <1>12 DEF vars, intakeVars, storeVars, Present
<1> QED
  BY <1>4, <1>5, <1>6, <1>7, <1>8, <1>9, <1>10, <1>11, <1>12 DEF Next

\* Whoever is newly admitted has just counted less than his cap.
LEMMA AdmissionCounted ==
  ASSUME IntakeTypeOK, NoLostTransition, [Next]_vars, CapsApply,
         NEW i \in Installation, Limited(i), ~(Admitted(i)' \subseteq Admitted(i))
  PROVE  Routed(i)' \subseteq Routed(i) /\ \E cap \in Caps(i) : Cardinality(Routed(i)) < cap
<1>1. PICK h \in Handler : handler'[h].at = "admitted" /\ TenantOf(h)' = i /\ h \notin Admitted(i)
  BY DEF Admitted
<1>2. ~Stays(h)
  BY <1>1 DEF Stays, Admitted, TenantOf
<1>3. ASSUME ReadPlan(h) PROVE FALSE
  <2>1. handler'[h].d = handler[h].d
    <3>1. CASE Move(h, "unpaid")
      BY <3>1, MoveIs
    <3>2. CASE ~Move(h, "unpaid")
      BY <1>3, <3>2 DEF ReadPlan, IntakeTypeOK, HandlersOK
    <3> QED BY <3>1, <3>2
  <2>2. TenantOf(h) = i
    BY <1>1, <2>1 DEF TenantOf
  <2> QED BY <1>1, <1>3, <2>2, ReadPlanReadsCaps
<1>4. CountToday(h)
  BY <1>1, <1>2, <1>3, ReadersAndCounters
<1>5. TenantOf(h) = i
  BY <1>1, <1>4, MoveIs DEF CountToday, TenantOf
<1>6. UnderCap(Cardinality(Recent(i)), handler[h].cap)
  BY <1>1, <1>4, <1>5, MoveIs DEF CountToday
<1>7. PICK cap \in handler[h].cap : cap \in Caps(i)
  BY <1>4, <1>5 DEF CountToday, CapsApply, IntakeTypeOK, HandlersOK
<1>8. Cardinality(Routed(i)) < cap
  <2>1. Recent(i) \in SUBSET Task /\ Routed(i) \in SUBSET Recent(i)
    BY DEF Recent, Routed
  <2>2. IsFiniteSet(Recent(i)) /\ Cardinality(Routed(i)) <= Cardinality(Recent(i))
    BY <2>1, FS_Subset, StoreAssumption
  <2>3. /\ Cardinality(Recent(i)) \in Nat /\ Cardinality(Routed(i)) \in Nat
        /\ cap \in Nat
    BY <1>7, <2>2, FS_CardinalityType, QuotaSetsFinite, CapsAreNumbers
  <2>4. Cardinality(Recent(i)) < cap
    BY <1>6, <1>7 DEF UnderCap
  <2> QED BY <2>2, <2>3, <2>4
<1>9. Routed(i)' \subseteq Routed(i)
  BY <1>4
  DEF CountToday, Unchanged, storeVars, Routed, Recent, Present, InstallationOf, EventOf
<1> QED BY <1>7, <1>8, <1>9

LEMMA QuotaSetsFiniteNext ==
  ASSUME NEW i
  PROVE  /\ IsFiniteSet(Routed(i)') /\ Cardinality(Routed(i)') \in Nat
         /\ IsFiniteSet(Admitted(i)') /\ Cardinality(Admitted(i)') \in Nat
<1>1. Routed(i)' \in SUBSET Task /\ Admitted(i)' \in SUBSET Handler
  BY DEF Routed, Recent, Admitted
<1>2. IsFiniteSet(Routed(i)') /\ IsFiniteSet(Admitted(i)')
  BY <1>1, FS_Subset, StoreAssumption, IntakeAssumption
<1> QED BY <1>2, FS_CardinalityType

LEMMA StaysWithinQuota ==
  ASSUME IntakeTypeOK, NoLostTransition, [Next]_vars, CapsApply,
         NEW i \in Installation, Limited(i), WithinQuota(i)
  PROVE  \/ Routed(i)' = {} /\ Admitted(i)' = {}
         \/ \E cap \in Caps(i) :
              Cardinality(Routed(i)') + Cardinality(Admitted(i)') < cap + Cardinality(Handler)
<1> DEFINE r  == Cardinality(Routed(i))
           a  == Cardinality(Admitted(i))
           r2 == Cardinality(Routed(i)')
           a2 == Cardinality(Admitted(i)')
           n  == Cardinality(Handler)
<1>1. r \in Nat /\ a \in Nat /\ r2 \in Nat /\ a2 \in Nat /\ n \in Nat /\ Caps(i) \subseteq Nat
  BY QuotaSetsFinite, QuotaSetsFiniteNext, CapsAreNumbers
<1>2. Routed(i)' \subseteq Routed(i) => r2 <= r
  BY QuotaSetsFinite, FS_Subset
<1>3. Admitted(i)' \subseteq Admitted(i) => a2 <= a
  BY QuotaSetsFinite, FS_Subset
<1>4. CASE ~(Admitted(i)' \subseteq Admitted(i))
  <2>1. Routed(i)' \subseteq Routed(i) /\ \E cap \in Caps(i) : r < cap
    BY <1>4, AdmissionCounted
  <2>2. a2 <= n
    <3>1. Admitted(i)' \in SUBSET Handler
      BY DEF Admitted
    <3> QED BY <3>1, FS_Subset, IntakeAssumption
  <2> HIDE DEF r, a, r2, a2, n
  <2>3. \E cap \in Caps(i) : r2 + a2 < cap + n
    BY <1>1, <1>2, <2>1, <2>2
  <2> QED BY <2>3 DEF r2, a2, n
<1>5. CASE Admitted(i)' \subseteq Admitted(i) /\ Routed(i)' \subseteq Routed(i)
  <2>1. CASE Routed(i) = {} /\ Admitted(i) = {}
    BY <1>5, <2>1
  <2>2. CASE ~(Routed(i) = {} /\ Admitted(i) = {})
    <3>1. \E cap \in Caps(i) : r + a < cap + n
      BY <2>2 DEF WithinQuota
    <3> HIDE DEF r, a, r2, a2, n
    <3>2. \E cap \in Caps(i) : r2 + a2 < cap + n
      BY <1>1, <1>2, <1>3, <1>5, <3>1
    <3> QED BY <3>2 DEF r2, a2, n
  <2> QED BY <2>1, <2>2
<1>6. ASSUME NEW h \in Admitted(i), NEW t \in Task, Ends(h),
             Routed(i)' \subseteq Routed(i) \union {t}, Admitted(i)' \subseteq Admitted(i)
      PROVE  \E cap \in Caps(i) : r2 + a2 < cap + n
  <2>1. Admitted(i)' \subseteq Admitted(i) \ {h}
    <3>1. handler'[h].at = "idle"
      BY <1>6 DEF Ends, Idle
    <3> QED BY <1>6, <3>1 DEF Admitted
  <2>2. Cardinality(Admitted(i) \ {h}) = a - 1 /\ IsFiniteSet(Admitted(i) \ {h})
    BY QuotaSetsFinite, FS_RemoveElement
  <2>3. a2 <= a - 1
    BY <2>1, <2>2, FS_Subset
  <2>4. IsFiniteSet(Routed(i) \union {t})
        /\ Cardinality(Routed(i) \union {t}) = IF t \in Routed(i) THEN r ELSE r + 1
    BY QuotaSetsFinite, FS_AddElement
  <2>5. r2 <= Cardinality(Routed(i) \union {t})
    BY <1>6, <2>4, FS_Subset
  <2>6. \E cap \in Caps(i) : r + a < cap + n
    BY <1>6 DEF WithinQuota
  <2> HIDE DEF r, a, r2, a2, n
  <2>7. r2 <= r + 1
    BY <1>1, <2>4, <2>5
  <2> QED BY <1>1, <2>3, <2>6, <2>7
<1> QED BY <1>4, <1>5, <1>6, RoutedGrows

\* The quota holds but for the requests that were let through together: the
\* tasks routed within a day stay below the largest cap that applied plus the
\* number of handlers, whatever is redelivered, retried or crashes.
THEOREM QuotaOvershootHolds == Spec => []QuotaOvershoot
<1>1. Init => QuotaInv
  <2> SUFFICES ASSUME Init PROVE QuotaInv
    OBVIOUS
  <2>1. \A h \in Handler : handler[h].at = "idle"
    BY DEF Init, Idle
  <2>2. \A t \in Task : state[t] = "absent"
    BY DEF Init, StoreInit
  <2> QED
    BY <2>1, <2>2 DEF QuotaInv, CapsApply, WithinQuota, Routed, Recent, Admitted, Present
<1>2. IntakeTypeOK /\ NoLostTransition /\ QuotaInv /\ [Next]_vars => QuotaInv'
  <2> SUFFICES ASSUME IntakeTypeOK, NoLostTransition, QuotaInv, [Next]_vars PROVE QuotaInv'
    OBVIOUS
  <2>1. CapsApply'
    BY CapsStillApply DEF QuotaInv
  <2>2. \A i \in Installation : Limited(i) => WithinQuota(i)'
    BY StaysWithinQuota DEF QuotaInv, WithinQuota, Caps, Admissible, DayCap
  <2>3. \A i \in Installation : Limited(i)' <=> Limited(i)
    BY DEF Limited, Admissible, DayCap
  <2> QED BY <2>1, <2>2, <2>3 DEF QuotaInv
<1>3. QuotaInv => QuotaOvershoot
  <2> SUFFICES ASSUME QuotaInv, NEW i \in Installation, Limited(i), Routed(i) # {}
               PROVE  \E cap \in Caps(i) : Cardinality(Routed(i)) < cap + Cardinality(Handler)
    BY DEF QuotaOvershoot, Limited
  <2>1. PICK cap \in Caps(i) :
          Cardinality(Routed(i)) + Cardinality(Admitted(i)) < cap + Cardinality(Handler)
    BY DEF QuotaInv, WithinQuota
  <2>2. /\ Cardinality(Routed(i)) \in Nat /\ Cardinality(Admitted(i)) \in Nat
        /\ Cardinality(Handler) \in Nat /\ cap \in Nat
    BY QuotaSetsFinite, CapsAreNumbers
  <2> QED BY <2>1, <2>2
<1> QED BY <1>1, <1>2, <1>3, IntakeTypeCorrect, NoLostTransitionHolds, PTL DEF Spec
=============================================================================
