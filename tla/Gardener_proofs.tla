--------------------------- MODULE Gardener_proofs ---------------------------
(***************************************************************************)
(* Proofs about the Branch Gardener, for any repositories, branches,       *)
(* commits, policies and schedules, any number of runs at a time, and any  *)
(* moves of users and failures of calls.                                   *)
(***************************************************************************)
EXTENDS Gardener, TaskStore_proofs, SequenceTheorems

-----------------------------------------------------------------------------
(* The gardener is a client of the store.                                  *)

LEMMA SlotsOfPass ==
  ASSUME GardenTypeOK, NEW s \in pass.rest
  PROVE  /\ pass # NoPass /\ pass.minute \in 0..LastMinute
         /\ DeliveryOf(s, pass.minute) \in Delivery /\ TaskOf(s, pass.minute) \in Task
<1>1. pass.rest # {} /\ pass.minute \in -1..LastMinute /\ pass.minute # -1
  BY DEF GardenTypeOK
<1>2. pass # NoPass /\ pass.minute \in 0..LastMinute
  BY <1>1, GardenerAssumption DEF NoPass
<1>3. s \in Slots(cfg, Installations, pass.minute) /\ cfg \in Configs
  BY DEF GardenTypeOK
<1> QED BY <1>2, <1>3, GardenerAssumption

LEMMA GardenStepsStore == GardenTypeOK /\ [Next]_vars => [StoreNext]_storeVars
<1> SUFFICES ASSUME GardenTypeOK, Next PROVE StoreNext \/ UNCHANGED storeVars
  BY DEF vars, storeVars
<1>1. CASE ScheduleNext
  <2>1. ASSUME NEW s \in pass.rest, RecordSlot(s) PROVE StoreNext
    BY <2>1, SlotsOfPass DEF RecordSlot, StoreNext
  <2>2. ASSUME NEW s \in pass.rest, SkipDuplicate(s) \/ CollidingSlot(s)
        PROVE  UNCHANGED storeVars
    BY <2>2 DEF SkipDuplicate, CollidingSlot
  <2>3. CASE Elapse \/ Tick \/ PassFails
    BY <2>3 DEF Elapse, Tick, PassFails, storeVars
  <2> QED BY <1>1, <2>1, <2>2, <2>3 DEF ScheduleNext
<1>2. ASSUME NEW d \in Delivery, NEW t \in Task, Commanded(d, t) PROVE StoreNext
  BY <1>2 DEF Commanded, StoreNext
<1>3. ASSUME NEW t \in Task, RunNext(t) PROVE StoreNext \/ UNCHANGED storeVars
  <2>1. CASE Begin(t)
    BY <2>1 DEF Begin, StoreNext
  <2>2. CASE Decline(t) \/ Report(t) \/ Fail(t)
    BY <2>2 DEF Decline, Report, Fail, StoreNext, Terminal
  <2>3. CASE ListBranches(t) \/ ScanFails(t) \/ MintFails(t)
    BY <2>3 DEF ListBranches, ScanFails, MintFails, OnlyRun
  <2>4. ASSUME NEW b \in Branch,
               Compare(t, b) \/ AskPulls(t, b) \/ Recheck(t, b) \/ Spare(t, b)
               \/ Delete(t, b) \/ DeleteFails(t, b) \/ OpenPull(t, b) \/ OpenPullFails(t, b)
        PROVE  UNCHANGED storeVars
    BY <2>4 DEF Compare, AskPulls, Recheck, Spare, Delete, DeleteFails, OpenPull,
                OpenPullFails, OnlyRun
  <2> QED BY <1>3, <2>1, <2>2, <2>3, <2>4 DEF RunNext
<1>4. CASE Crash
  BY <1>4 DEF Crash, StoreNext
<1>5. CASE UsersNext
  BY <1>5 DEF UsersNext, Push, Propose, Merge, CloseIt, Users
<1> QED BY <1>1, <1>2, <1>3, <1>4, <1>5 DEF Next

-----------------------------------------------------------------------------
(* Type correctness.                                                       *)

LEMMA FactTypes ==
  ASSUME GardenTypeOK, NEW b \in Branch
  PROVE  NoFact \in Fact /\ FactOf(b) \in Fact
BY GardenerAssumption DEF GardenTypeOK, NoFact, Fact, FactOf

LEMMA NoRunType == ASSUME TRUE PROVE NoRun \in Run
<1>1. NoFact \in Fact
  BY GardenerAssumption DEF NoFact, Fact
<1> QED BY <1>1 DEF NoRun, Run, Stage

LEMMA OnwardType ==
  ASSUME NEW t \in Task, NEW r \in Run, NEW done
  PROVE  Go(r, Onward(t, r, done)) \in Run
<1>1. \A fate : Section(t, r, fate) \subseteq Branch
  BY DEF Section, Run
<1>2. Onward(t, r, done).at \in Stage /\ Onward(t, r, done).rest \subseteq Branch
  BY <1>1 DEF Onward, Stage
<1> QED BY <1>2 DEF Go, Run

LEMMA DoneWithType ==
  ASSUME NEW t \in Task, NEW r \in Run, NEW b
  PROVE  DoneWith(t, b, r) \in Run
<1>1. [r EXCEPT !.rest = @ \ {b}, !.at = IF @ = "deleting" THEN "pruning" ELSE @] \in Run
  BY DEF Run, Stage
<1> QED BY <1>1, OnwardType DEF DoneWith

LEMMA CardinalityOfCommits ==
  ASSUME NEW S \in SUBSET Commit
  PROVE  IsFiniteSet(S) /\ Cardinality(S) \in Nat
BY FS_Subset, FS_CardinalityType, GardenerAssumption

LEMMA GardenInitType == Init => GardenTypeOK
<1> SUFFICES ASSUME Init PROVE GardenTypeOK
  OBVIOUS
<1>1. StoreTypeOK
  BY StoreInitType DEF Init
<1>2. run \in [Task -> Run]
  BY NoRunType DEF Init
<1>3. /\ pass.minute = -1 /\ pass.rest = {}
      /\ pass \in [minute : -1..LastMinute, rest : SUBSET Slot]
  BY GardenerAssumption DEF Init, NoPass
<1>4. tip \in [Branch -> SUBSET Commit]
  BY GardenerAssumption DEF Init
<1>5. minute \in 0..LastMinute /\ moves \in 0..MaxTrouble /\ faults \in 0..MaxFaults
  BY GardenerAssumption DEF Init
<1> QED BY <1>1, <1>2, <1>3, <1>4, <1>5 DEF Init, GardenTypeOK

\* What is left of a pass is slots of its minute.
PassTypeOK ==
  /\ pass \in [minute : -1..LastMinute, rest : SUBSET Slot]
  /\ pass.minute = -1 <=> pass.rest = {}
  /\ pass.rest \subseteq Slots(cfg, Installations, pass.minute)

LEMMA PassOverType ==
  ASSUME pass' = NoPass
  PROVE  PassTypeOK'
BY GardenerAssumption DEF PassTypeOK, NoPass

LEMMA AdvanceType ==
  ASSUME GardenTypeOK, NEW s \in pass.rest, Advance(s) \/ pass' = NoPass, UNCHANGED cfg
  PROVE  PassTypeOK'
<1>1. CASE pass' = NoPass
  BY <1>1, PassOverType
<1>2. CASE Advance(s) /\ pass.rest # {s}
  BY <1>2 DEF Advance, PassTypeOK, GardenTypeOK
<1> QED BY <1>1, <1>2 DEF Advance

\* The steps of the schedule, of the users and of a crash leave the runs alone
\* or forget them.
RunSteps == \E t \in Task : RunNext(t)

LEMMA ScheduleType ==
  ASSUME GardenTypeOK, [Next]_vars, ~RunSteps
  PROVE  GardenTypeOK'
<1> USE DEF GardenTypeOK
<1>1. StoreTypeOK'
  BY GardenStepsStore, StoreNextType
<1>2. CASE Elapse
  <2>1. minute' \in 0..LastMinute
    BY <1>2, GardenerAssumption DEF Elapse
  <2> QED BY <1>1, <1>2, <2>1 DEF Elapse, repository, effects
<1>3. CASE Tick
  <2>1. /\ pass' = [minute |-> minute, rest |-> Slots(cfg, Installations, minute)]
        /\ Slots(cfg, Installations, minute) # {} /\ UNCHANGED cfg
    BY <1>3 DEF Tick
  <2>2. Slots(cfg, Installations, minute) \subseteq Slot
    BY DEF Slots, Slot
  <2>3. minute \in -1..LastMinute /\ minute # -1
    BY GardenerAssumption
  <2>4. PassTypeOK'
    BY <2>1, <2>2, <2>3 DEF PassTypeOK
  <2> QED BY <1>1, <1>3, <2>4 DEF Tick, PassTypeOK, repository, effects
<1>4. ASSUME NEW s \in pass.rest, RecordSlot(s) \/ SkipDuplicate(s) \/ CollidingSlot(s)
      PROVE  GardenTypeOK'
  <2>1. PassTypeOK'
    BY <1>4, AdvanceType DEF RecordSlot, SkipDuplicate, CollidingSlot, Pass
  <2> QED
    BY <1>1, <1>4, <2>1
    DEF RecordSlot, SkipDuplicate, CollidingSlot, Pass, Succeeds, PassTypeOK, repository,
        effects
<1>5. CASE PassFails
  <2>1. PassTypeOK'
    BY <1>5, PassOverType DEF PassFails
  <2>2. faults' \in 0..MaxFaults
    BY <1>5, GardenerAssumption DEF PassFails, Fails
  <2> QED BY <1>1, <1>5, <2>1, <2>2 DEF PassFails, Pass, PassTypeOK, repository, effects
<1>6. ASSUME NEW d \in Delivery, NEW t \in Task, Commanded(d, t) PROVE GardenTypeOK'
  BY <1>1, <1>6 DEF Commanded, schedule, repository, effects
<1>7. CASE Crash
  <2>1. PassTypeOK'
    BY <1>7, PassOverType DEF Crash
  <2>2. faults' \in 0..MaxFaults
    BY <1>7, GardenerAssumption DEF Crash, Fails
  <2> QED BY <1>1, <1>7, <2>1, <2>2, NoRunType DEF Crash, PassTypeOK, repository, effects
<1>8. CASE UsersNext
  <2>1. UNCHANGED <<cfg, schedule, run, faults, effects>> /\ moves' \in 0..MaxTrouble
    BY <1>8, GardenerAssumption DEF UsersNext, Push, Propose, Merge, CloseIt, Users
  <2>2. /\ alive' \subseteq Branch /\ opened' \subseteq Branch /\ merged' \subseteq Branch
        /\ tip' \in [Branch -> SUBSET Commit]
    <3>1. ASSUME NEW push \in Pushes, Push(push[1], push[2])
          PROVE  /\ alive' \subseteq Branch /\ opened' \subseteq Branch /\ merged' \subseteq Branch
                 /\ tip' \in [Branch -> SUBSET Commit]
      <4>1. push[1] \in Branch /\ push[2] \in SUBSET Commit
        BY GardenerAssumption
      <4> QED BY <3>1, <4>1 DEF Push
    <3>2. ASSUME NEW b \in Branch, Propose(b) \/ Merge(b) \/ CloseIt(b)
          PROVE  /\ alive' \subseteq Branch /\ opened' \subseteq Branch /\ merged' \subseteq Branch
                 /\ tip' \in [Branch -> SUBSET Commit]
      BY <3>2, GardenerAssumption DEF Propose, Merge, CloseIt
    <3> QED BY <1>8, <3>1, <3>2 DEF UsersNext
  <2> QED BY <1>1, <2>1, <2>2 DEF schedule, effects
<1>9. CASE UNCHANGED vars
  BY <1>1, <1>9 DEF vars, schedule, repository, effects
<1> QED
  BY <1>2, <1>3, <1>4, <1>5, <1>6, <1>7, <1>8, <1>9 DEF Next, ScheduleNext, RunSteps

LEMMA SetType ==
  ASSUME GardenTypeOK, NEW t \in Task, NEW r \in Run, Set(t, r)
  PROVE  run' \in [Task -> Run]
BY DEF GardenTypeOK, Set

LEMMA RemoveType ==
  ASSUME GardenTypeOK, NEW t \in Task, NEW b \in Branch,
         Remove(t, b) \/ Raise(t, b) \/ UNCHANGED <<repository, effects>>
  PROVE  /\ alive' \subseteq Branch /\ opened' \subseteq Branch /\ merged' \subseteq Branch
         /\ tip' \in [Branch -> SUBSET Commit]
         /\ cut' \in [Task -> SUBSET Branch] /\ raised' \in [Task -> SUBSET Branch]
BY DEF GardenTypeOK, Remove, Raise, repository, effects

LEMMA RunType ==
  ASSUME GardenTypeOK, NEW t \in Task, RunNext(t)
  PROVE  run' \in [Task -> Run]
<1> USE DEF GardenTypeOK
<1>0. run[t] \in Run
  OBVIOUS
<1>1. CASE Begin(t)
  <2>1. [NoRun EXCEPT !.at = "begun"] \in Run
    BY NoRunType DEF Run, Stage
  <2> QED BY <1>1, <2>1, SetType DEF Begin
<1>2. CASE Decline(t) \/ Report(t) \/ Fail(t)
  BY <1>2, NoRunType, SetType DEF Decline, Report, Fail
<1>3. CASE ListBranches(t)
  <2> DEFINE listed == IF RepoOf[t] = Home THEN alive ELSE {}
             facts  == [b \in Branch |-> IF b \in listed THEN FactOf(b) ELSE NoFact]
             rest   == {b \in listed : ~Excluded(facts[b], PolicyOf(t))}
             r      == [run[t] EXCEPT !.listed = listed, !.facts = facts, !.since = moves]
  <2>1. r \in Run
    <3>1. facts \in [Branch -> Fact]
      BY FactTypes
    <3>2. listed \subseteq Branch /\ moves \in Nat
      OBVIOUS
    <3> HIDE DEF listed, facts
    <3> QED BY <1>0, <3>1, <3>2 DEF Run
  <2>2. Go(r, [at |-> "comparing", rest |-> rest]) \in Run
    <3>1. rest \subseteq Branch
      OBVIOUS
    <3> HIDE DEF r, rest
    <3> QED BY <2>1, <3>1 DEF Go, Run, Stage
  <2>3. Go(r, Onward(t, r, {})) \in Run
    <3> HIDE DEF r
    <3> QED BY <2>1, OnwardType
  <2>4. Set(t, IF rest = {} THEN Go(r, Onward(t, r, {}))
               ELSE Go(r, [at |-> "comparing", rest |-> rest]))
    BY <1>3 DEF ListBranches
  <2> HIDE DEF r, rest
  <2> QED BY <2>2, <2>3, <2>4, SetType
<1>4. CASE ScanFails(t) \/ MintFails(t)
  <2>1. [run[t] EXCEPT !.at = "failing", !.rest = {}] \in Run
    BY <1>0 DEF Run, Stage
  <2> QED BY <1>4, <2>1, SetType DEF ScanFails, MintFails
<1>5. ASSUME NEW b \in Branch, Compare(t, b) PROVE run' \in [Task -> Run]
  <2> DEFINE ahead == tip[b] \ tip[Main]
  <2>1. PICK page \in SUBSET ahead :
          Set(t, [run[t] EXCEPT
               !.at = "asking",
               !.facts[b] = [@ EXCEPT
                 !.ahead = Cardinality(ahead), !.truncated = page # ahead,
                 !.authors = {Author[c] : c \in page} \ {"unknown"},
                 !.seen = tip[b], !.base = tip[Main]]])
    BY <1>5 DEF Compare
  <2>2. ahead \subseteq Commit /\ Cardinality(ahead) \in Nat /\ tip[b] \subseteq Commit
        /\ tip[Main] \subseteq Commit
    BY GardenerAssumption, CardinalityOfCommits
  <2>3. {Author[c] : c \in page} \ {"unknown"} \subseteq {"bot", "human"}
    BY <2>2, GardenerAssumption
  <2> DEFINE f == [run[t].facts[b] EXCEPT
                 !.ahead = Cardinality(ahead), !.truncated = page # ahead,
                 !.authors = {Author[c] : c \in page} \ {"unknown"},
                 !.seen = tip[b], !.base = tip[Main]]
  <2>4. f \in Fact
    <3> DEFINE cutShort == page # ahead
               logins   == {Author[c] : c \in page} \ {"unknown"}
    <3>1. run[t].facts[b] \in Fact
      BY <1>0 DEF Run
    <3>2. cutShort \in BOOLEAN /\ logins \subseteq {"bot", "human"}
      BY <2>3
    <3>3. f = [run[t].facts[b] EXCEPT !.ahead = Cardinality(ahead), !.truncated = cutShort,
                 !.authors = logins, !.seen = tip[b], !.base = tip[Main]]
      OBVIOUS
    <3> HIDE DEF f, cutShort, logins, ahead
    <3> QED BY <2>2, <3>1, <3>2, <3>3 DEF Fact
  <2> HIDE DEF f
  <2>5. [run[t] EXCEPT !.at = "asking", !.facts[b] = f] \in Run
    BY <1>0, <2>4 DEF Run, Stage
  <2>6. Set(t, [run[t] EXCEPT !.at = "asking", !.facts[b] = f])
    BY <2>1 DEF f
  <2> QED BY <2>5, <2>6, SetType
<1>6. ASSUME NEW b \in Branch, AskPulls(t, b) PROVE run' \in [Task -> Run]
  <2> DEFINE r == [run[t] EXCEPT !.facts[b].open = b \in opened, !.facts[b].merged = b \in merged]
  <2>1. r \in Run
    <3> DEFINE f == [run[t].facts[b] EXCEPT !.open = b \in opened, !.merged = b \in merged]
    <3>1. f \in Fact
      <4> DEFINE isOpen == b \in opened
                 isMerged == b \in merged
      <4>1. run[t].facts[b] \in Fact
        BY <1>0 DEF Run
      <4>2. isOpen \in BOOLEAN /\ isMerged \in BOOLEAN
        OBVIOUS
      <4>3. f = [run[t].facts[b] EXCEPT !.open = isOpen, !.merged = isMerged]
        OBVIOUS
      <4> HIDE DEF f, isOpen, isMerged
      <4> QED BY <4>1, <4>2, <4>3 DEF Fact
    <3>2. r = [run[t] EXCEPT !.facts[b] = f]
      BY <1>0 DEF Run
    <3> HIDE DEF f, r
    <3> QED BY <1>0, <3>1, <3>2 DEF Run
  <2>2. Set(t, IF r.rest # {b} THEN [r EXCEPT !.at = "comparing", !.rest = @ \ {b}]
               ELSE Go(r, Onward(t, r, {})))
    BY <1>6 DEF AskPulls
  <2> HIDE DEF r
  <2>3. [r EXCEPT !.at = "comparing", !.rest = @ \ {b}] \in Run
    BY <2>1 DEF Run, Stage
  <2> QED BY <2>1, <2>2, <2>3, OnwardType, SetType
<1>7. ASSUME NEW b \in Branch, Recheck(t, b) PROVE run' \in [Task -> Run]
  <2>1. [run[t] EXCEPT !.at = "deleting", !.checked = tip[b]] \in Run
    BY <1>0 DEF Run, Stage
  <2> QED BY <1>7, <2>1, SetType DEF Recheck
<1>8. ASSUME NEW b \in Branch,
             Spare(t, b) \/ Delete(t, b) \/ DeleteFails(t, b) \/ OpenPull(t, b) \/ OpenPullFails(t, b)
      PROVE  run' \in [Task -> Run]
  <2>1. /\ [run[t] EXCEPT !.pruned = @ \union {b}] \in Run
        /\ [run[t] EXCEPT !.spared = @ \union {b}] \in Run
        /\ [run[t] EXCEPT !.surfaced = @ \union {b}] \in Run
        /\ [run[t] EXCEPT !.withheld = @ \union {b}] \in Run
    BY <1>0 DEF Run
  <2> QED
    BY <1>8, <2>1, DoneWithType, SetType DEF Spare, Delete, DeleteFails, OpenPull, OpenPullFails
<1> QED BY <1>1, <1>2, <1>3, <1>4, <1>5, <1>6, <1>7, <1>8 DEF RunNext

LEMMA RunKeepsTypes ==
  ASSUME GardenTypeOK, [Next]_vars, NEW t \in Task, RunNext(t)
  PROVE  GardenTypeOK'
<1>1. StoreTypeOK'
  BY GardenStepsStore, StoreNextType DEF GardenTypeOK
<1>2. run' \in [Task -> Run]
  BY RunType
<1>3. /\ UNCHANGED <<cfg, schedule, moves>>
      /\ UNCHANGED faults \/ Fails
      /\ \/ \E b \in Branch : Remove(t, b) \/ Raise(t, b)
         \/ UNCHANGED <<repository, effects>>
         \/ Begin(t)
  BY DEF RunNext, Begin, Decline, ListBranches, ScanFails, MintFails, Compare, AskPulls,
         Recheck, Spare, Delete, DeleteFails, OpenPull, OpenPullFails, Report, Fail,
         OnlyRun, Succeeds
<1>4. faults' \in 0..MaxFaults
  BY <1>3, GardenerAssumption DEF GardenTypeOK, Fails
<1>5. /\ alive' \subseteq Branch /\ opened' \subseteq Branch /\ merged' \subseteq Branch
      /\ tip' \in [Branch -> SUBSET Commit]
      /\ cut' \in [Task -> SUBSET Branch] /\ raised' \in [Task -> SUBSET Branch]
  <2>1. CASE Begin(t)
    BY <2>1 DEF Begin, repository, GardenTypeOK
  <2>2. CASE ~Begin(t)
    BY <1>3, <2>2, RemoveType, GardenerAssumption
  <2> QED BY <2>1, <2>2
<1> QED BY <1>1, <1>2, <1>3, <1>4, <1>5 DEF GardenTypeOK, schedule

LEMMA GardenNextType == GardenTypeOK /\ [Next]_vars => GardenTypeOK'
BY ScheduleType, RunKeepsTypes DEF RunSteps

\* Schedule, runs and repository always hold values of their types.
THEOREM GardenTypeCorrect == Spec => []GardenTypeOK
BY GardenInitType, GardenNextType, PTL DEF Spec

\* Schedule, commands and runs change the tables of the queue only through the
\* store's transactions: everything proved of the store holds for garden runs.
THEOREM GardenUsesStore == Spec => StoreSpec
<1>1. Init => StoreInit
  BY DEF Init
<1> QED BY <1>1, GardenTypeCorrect, GardenStepsStore, PTL DEF Spec, StoreSpec

\* The queue seen through scheduled and commanded garden runs, a pass that ends
\* early and slots that collide included, is the abstract durable queue.
THEOREM GardenRefinesQueue == Spec => StoreImplementsQueue
BY GardenUsesStore, StoreRefinesQueue, PTL

-----------------------------------------------------------------------------
(* What a run r knows of its repository, under its policy p.               *)

NameOK(b, f) == f.name = b /\ f.default = (b = Main) /\ f.protected = (b \in Protected)

Compared(f) == f.ahead = Cardinality(f.seen \ f.base)

Judged(p, f) == Excluded(f, p) \/ Compared(f)

\* The facts are those of the listed branches, and whatever is past the compare
\* is excluded or compared.
ScanGood(p, r) ==
  /\ \A b \in r.listed : NameOK(b, r.facts[b])
  /\ r.rest \subseteq r.listed
  /\ r.at \in {"comparing", "asking"} => p.enabled
  /\ r.at = "comparing" => \A b \in r.listed \ r.rest : Judged(p, r.facts[b])
  /\ r.at = "asking" => \A b \in r.listed \ r.rest : Judged(p, r.facts[b])
  /\ r.at = "asking" => \A b \in Branch : IsNext(r, b) => Judged(p, r.facts[b])

Planned == {"pruning", "deleting", "surfacing", "reporting"}

PlanBase(p, r) ==
  /\ p.enabled
  /\ \A b \in r.listed : Judged(p, r.facts[b])

Part(p, r, fate) == {b \in r.listed : Fate(r.facts[b], p) = fate}

Apart(A, B) == A \intersect B = {}

\* The books of the execution: what is done and what is left share out the plan.
PruneBook(p, r, left) ==
  /\ r.pruned \union r.spared \union left = Part(p, r, "prune")
  /\ Apart(r.pruned, r.spared) /\ Apart(left, r.pruned \union r.spared)

SurfaceBook(p, r, left) ==
  /\ r.surfaced \union r.withheld \union left = Part(p, r, "surface")
  /\ Apart(r.surfaced, r.withheld) /\ Apart(left, r.surfaced \union r.withheld)

PlanGood(p, r) ==
  /\ r.at \in {"begun", "comparing", "asking"} => r.pruned = {} /\ r.spared = {}
  /\ r.at \in {"begun", "comparing", "asking", "pruning", "deleting"} =>
       r.surfaced = {} /\ r.withheld = {}
  /\ r.at \in Planned => PlanBase(p, r)
  /\ r.at \in {"pruning", "deleting"} => PruneBook(p, r, r.rest)
  /\ r.at \in {"surfacing", "reporting"} => PruneBook(p, r, {}) /\ SurfaceBook(p, r, r.rest)
  /\ r.at = "reporting" => r.rest = {}
  /\ r.at = "deleting" => \A b \in Branch : IsNext(r, b) => r.checked = r.facts[b].sha

RunGood(p, r) == ScanGood(p, r) /\ PlanGood(p, r)

LEMMA OneIsNext ==
  ASSUME NEW r, NEW b \in Branch, NEW c \in Branch, IsNext(r, b), IsNext(r, c)
  PROVE  b = c
<1>1. PICK m \in DOMAIN Branches : Branches[m] = b
  BY DEF Branch
<1>2. PICK n \in DOMAIN Branches : Branches[n] = c
  BY DEF Branch
<1>3. m <= n /\ n <= m
  BY <1>1, <1>2 DEF IsNext
<1>4. m \in Nat /\ n \in Nat
  <2>1. DOMAIN Branches = 1..Len(Branches) /\ Len(Branches) \in Nat
    BY GardenerAssumption, LenProperties
  <2> QED BY <1>1, <1>2, <2>1
<1> QED BY <1>1, <1>2, <1>3, <1>4

\* A branch that is to be pruned has nothing ahead, under a policy that prunes;
\* nothing excluded is acted on.
LEMMA FateMeans ==
  ASSUME NEW f, NEW p
  PROVE  /\ Fate(f, p) = "prune" => f.ahead = 0 /\ p.prunes /\ ~Excluded(f, p)
         /\ Fate(f, p) = "surface" => ~Excluded(f, p)
BY DEF Fate, Class

LEMMA OnwardGood ==
  ASSUME NEW t \in Task, NEW r \in Run, NEW done,
         \A b \in r.listed : NameOK(b, r.facts[b]),
         PlanBase(PolicyOf(t), r),
         "surface" \in done => "prune" \in done,
         "prune" \in done => PruneBook(PolicyOf(t), r, {}),
         "prune" \notin done => r.pruned = {} /\ r.spared = {},
         "surface" \in done => SurfaceBook(PolicyOf(t), r, {}),
         "surface" \notin done => r.surfaced = {} /\ r.withheld = {}
  PROVE  RunGood(PolicyOf(t), Go(r, Onward(t, r, done)))
<1> DEFINE p       == PolicyOf(t)
           on      == Onward(t, r, done)
           q       == Go(r, on)
           prune   == Part(p, r, "prune")
           surface == Part(p, r, "surface")
<1> SUFFICES RunGood(p, q)
  OBVIOUS
<1>1. \A fate : Section(t, r, fate) = Part(p, r, fate)
  BY DEF Section, Part
<1>2. /\ q.at = on.at /\ q.rest = on.rest /\ q.listed = r.listed /\ q.facts = r.facts
      /\ q.pruned = r.pruned /\ q.spared = r.spared
      /\ q.surfaced = r.surfaced /\ q.withheld = r.withheld
  BY DEF Go, Run
<1>3. \/ on.at = "pruning" /\ "prune" \notin done /\ on.rest = prune
      \/ /\ on.at = "surfacing" /\ "surface" \notin done /\ on.rest = surface
         /\ "prune" \in done \/ prune = {}
      \/ /\ on.at = "reporting" /\ on.rest = {}
         /\ "prune" \in done \/ prune = {}
         /\ "surface" \in done \/ surface = {}
  BY <1>1 DEF Onward
<1>4. \A fate : Part(p, q, fate) = Part(p, r, fate)
  BY <1>2 DEF Part
<1>5. prune \subseteq r.listed /\ surface \subseteq r.listed
  BY DEF Part
<1>6. PlanBase(p, q)
  BY <1>2 DEF PlanBase
<1>7. /\ "prune" \in done => PruneBook(p, q, {})
      /\ "surface" \in done => SurfaceBook(p, q, {})
  BY <1>2, <1>4 DEF PruneBook, SurfaceBook
<1> HIDE DEF p, on, q, prune, surface
<1>8. ScanGood(p, q)
  BY <1>2, <1>3, <1>5 DEF ScanGood
<1>9. CASE on.at = "pruning"
  <2>1. /\ q.at = "pruning" /\ q.rest = prune /\ q.pruned = {} /\ q.spared = {}
        /\ q.surfaced = {} /\ q.withheld = {}
    BY <1>2, <1>3, <1>9
  <2>2. PruneBook(p, q, q.rest)
    BY <2>1, <1>4 DEF PruneBook, Apart, prune
  <2> QED BY <1>6, <1>8, <2>1, <2>2 DEF RunGood, PlanGood, Planned
<1>10. CASE on.at = "surfacing"
  <2>1. PruneBook(p, q, {})
    BY <1>2, <1>3, <1>4, <1>7, <1>10 DEF PruneBook, Apart, prune
  <2>2. SurfaceBook(p, q, q.rest)
    BY <1>2, <1>3, <1>4, <1>10 DEF SurfaceBook, Apart, surface
  <2> QED BY <1>2, <1>6, <1>8, <1>10, <2>1, <2>2 DEF RunGood, PlanGood, Planned
<1>11. CASE on.at = "reporting"
  <2>1. PruneBook(p, q, {})
    BY <1>2, <1>3, <1>4, <1>7, <1>11 DEF PruneBook, Apart, prune
  <2>2. q.rest = {} /\ SurfaceBook(p, q, {})
    BY <1>2, <1>3, <1>4, <1>7, <1>11 DEF SurfaceBook, Apart, surface
  <2> QED BY <1>2, <1>6, <1>8, <1>11, <2>1, <2>2 DEF RunGood, PlanGood, Planned
<1> QED BY <1>3, <1>9, <1>10, <1>11

\* Taking b off the list of the pruning, done or spared, keeps the run good.
LEMMA DoneWithGood ==
  ASSUME NEW t \in Task, NEW b \in Branch, NEW r \in Run,
         RunGood(PolicyOf(t), r), r.at \in {"pruning", "deleting", "surfacing"}, b \in r.rest,
         NEW q \in Run,
         \/ /\ r.at # "surfacing"
            /\ \/ q = [r EXCEPT !.spared = @ \union {b}]
               \/ q = [r EXCEPT !.pruned = @ \union {b}]
         \/ /\ r.at = "surfacing"
            /\ \/ q = [r EXCEPT !.surfaced = @ \union {b}]
               \/ q = [r EXCEPT !.withheld = @ \union {b}]
  PROVE  RunGood(PolicyOf(t), DoneWith(t, b, q))
<1> DEFINE p == PolicyOf(t)
<1> SUFFICES RunGood(p, DoneWith(t, b, q))
  OBVIOUS
<1> USE DEF Planned
<1>1. /\ q.at = r.at /\ q.listed = r.listed /\ q.facts = r.facts /\ q.rest = r.rest
      /\ q.checked = r.checked
  BY DEF Run
<1>2. \/ /\ r.at # "surfacing"
         /\ q.surfaced = r.surfaced /\ q.withheld = r.withheld
         /\ \/ q.pruned = r.pruned /\ q.spared = r.spared \union {b}
            \/ q.spared = r.spared /\ q.pruned = r.pruned \union {b}
      \/ /\ r.at = "surfacing"
         /\ q.pruned = r.pruned /\ q.spared = r.spared
         /\ \/ q.surfaced = r.surfaced /\ q.withheld = r.withheld \union {b}
            \/ q.withheld = r.withheld /\ q.surfaced = r.surfaced \union {b}
  BY DEF Run
<1>3. ScanGood(p, r) /\ PlanGood(p, r)
  BY DEF RunGood
<1> HIDE DEF p
<1>4. \A fate : Part(p, q, fate) = Part(p, r, fate)
  BY <1>1 DEF Part
<1>5. PlanBase(p, q) /\ \A c \in q.listed : NameOK(c, q.facts[c])
  BY <1>1, <1>3 DEF PlanGood, PlanBase, ScanGood
<1>6. r.at # "surfacing" =>
        PruneBook(p, q, q.rest \ {b}) /\ q.surfaced = {} /\ q.withheld = {}
  BY <1>1, <1>2, <1>3, <1>4 DEF PlanGood, PruneBook, Apart
<1>7. r.at = "surfacing" => PruneBook(p, q, {}) /\ SurfaceBook(p, q, q.rest \ {b})
  BY <1>1, <1>2, <1>3, <1>4 DEF PlanGood, PruneBook, SurfaceBook, Apart
<1>8. CASE q.rest = {b}
  <2> DEFINE done == IF q.at = "surfacing" THEN {"prune", "surface"} ELSE {"prune"}
  <2>1. DoneWith(t, b, q) = Go(q, Onward(t, q, done))
    BY <1>8 DEF DoneWith
  <2>2. /\ "prune" \in done /\ PruneBook(p, q, {})
        /\ "surface" \in done => SurfaceBook(p, q, {})
        /\ "surface" \notin done => q.surfaced = {} /\ q.withheld = {}
    <3>1. q.rest \ {b} = {}
      BY <1>8
    <3> QED BY <1>1, <1>6, <1>7, <3>1
  <2> HIDE DEF done
  <2>3. RunGood(PolicyOf(t), Go(q, Onward(t, q, done)))
    BY <1>5, <2>2, OnwardGood DEF p
  <2> QED BY <2>1, <2>3 DEF p
<1>9. CASE q.rest # {b}
  <2> DEFINE s == DoneWith(t, b, q)
  <2>1. /\ s.at = (IF q.at = "deleting" THEN "pruning" ELSE q.at) /\ s.rest = q.rest \ {b}
        /\ s.listed = q.listed /\ s.facts = q.facts
        /\ s.pruned = q.pruned /\ s.spared = q.spared
        /\ s.surfaced = q.surfaced /\ s.withheld = q.withheld
    BY <1>9 DEF DoneWith, Run
  <2> HIDE DEF s
  <2>2. s.at \in {"pruning", "surfacing"} /\ (s.at = "surfacing" <=> r.at = "surfacing")
    BY <1>1, <2>1
  <2>3. \A fate : Part(p, s, fate) = Part(p, q, fate)
    BY <2>1 DEF Part
  <2>4. ScanGood(p, s)
    <3>1. s.rest \subseteq s.listed
      BY <1>1, <1>3, <2>1 DEF ScanGood
    <3> QED BY <1>5, <2>1, <2>2, <3>1 DEF ScanGood
  <2>5. PlanBase(p, s)
    BY <1>5, <2>1 DEF PlanBase
  <2>6. s.at = "pruning" => PruneBook(p, s, s.rest) /\ s.surfaced = {} /\ s.withheld = {}
    BY <1>6, <2>1, <2>2, <2>3 DEF PruneBook
  <2>7. s.at = "surfacing" => PruneBook(p, s, {}) /\ SurfaceBook(p, s, s.rest)
    BY <1>7, <2>1, <2>2, <2>3 DEF PruneBook, SurfaceBook
  <2>8. PlanGood(p, s)
    BY <2>2, <2>5, <2>6, <2>7 DEF PlanGood
  <2> QED BY <2>4, <2>8 DEF RunGood, s
<1> QED BY <1>8, <1>9

-----------------------------------------------------------------------------
(* Every run knows what it should, whoever else is at work.                *)

RunsGood == \A t \in Task : RunGood(PolicyOf(t), run[t])

LEMMA NoRunGood ==
  ASSUME NEW p
  PROVE  RunGood(p, NoRun) /\ RunGood(p, [NoRun EXCEPT !.at = "begun"])
BY DEF RunGood, ScanGood, PlanGood, Planned, NoRun

\* A run that gives up knows enough.
LEMMA FailingGood ==
  ASSUME NEW p, NEW r \in Run, RunGood(p, r)
  PROVE  RunGood(p, [r EXCEPT !.at = "failing", !.rest = {}])
BY DEF RunGood, ScanGood, PlanGood, Planned, Run

LEMMA ListGood ==
  ASSUME GardenTypeOK, RunsGood, NEW t \in Task, ListBranches(t)
  PROVE  RunGood(PolicyOf(t), run'[t])
<1> DEFINE p      == PolicyOf(t)
           listed == IF RepoOf[t] = Home THEN alive ELSE {}
           facts  == [b \in Branch |-> IF b \in listed THEN FactOf(b) ELSE NoFact]
           rest   == {b \in listed : ~Excluded(facts[b], PolicyOf(t))}
           r      == [run[t] EXCEPT !.listed = listed, !.facts = facts, !.since = moves]
           on     == [at |-> "comparing", rest |-> rest]
<1> SUFFICES RunGood(p, run'[t])
  OBVIOUS
<1>1. /\ run[t] \in Run /\ run[t].at = "begun" /\ p.enabled /\ RunGood(p, run[t])
      /\ listed \subseteq Branch
  BY DEF GardenTypeOK, ListBranches, RunsGood
<1>2. r \in Run
  <2>1. facts \in [Branch -> Fact]
    BY FactTypes DEF GardenTypeOK
  <2>2. moves \in Nat
    BY DEF GardenTypeOK
  <2> HIDE DEF facts, listed
  <2> QED BY <1>1, <2>1, <2>2 DEF Run
<1>3. run'[t] = IF rest = {} THEN Go(r, Onward(t, r, {})) ELSE Go(r, on)
  BY DEF ListBranches, Set, GardenTypeOK
<1>4. \A b \in listed : NameOK(b, facts[b])
  BY <1>1 DEF NameOK, FactOf
<1>5. /\ r.listed = listed /\ r.facts = facts
      /\ r.pruned = {} /\ r.spared = {} /\ r.surfaced = {} /\ r.withheld = {}
  BY <1>1 DEF Run, RunGood, PlanGood
<1>6. \A b \in listed \ rest : Judged(p, facts[b])
  BY DEF Judged
<1>7. rest \subseteq listed
  OBVIOUS
<1> HIDE DEF p, listed, facts, rest, r
<1>8. CASE rest = {}
  <2>1. PlanBase(p, r)
    BY <1>1, <1>5, <1>6, <1>8 DEF PlanBase
  <2>2. \A b \in r.listed : NameOK(b, r.facts[b])
    BY <1>4, <1>5
  <2> QED BY <1>2, <1>3, <1>5, <1>8, <2>1, <2>2, OnwardGood DEF p
<1>9. CASE rest # {}
  <2> DEFINE s == Go(r, on)
  <2>1. /\ s.at = "comparing" /\ s.rest = rest /\ s.listed = listed /\ s.facts = facts
        /\ s.pruned = {} /\ s.spared = {} /\ s.surfaced = {} /\ s.withheld = {}
    BY <1>2, <1>5 DEF Go, Run
  <2> HIDE DEF s
  <2>2. RunGood(p, s)
    BY <1>1, <1>4, <1>6, <1>7, <2>1 DEF RunGood, ScanGood, PlanGood, Planned
  <2> QED BY <1>3, <1>9, <2>2 DEF s
<1> QED BY <1>8, <1>9

LEMMA CompareGood ==
  ASSUME GardenTypeOK, RunsGood, NEW t \in Task, NEW b \in Branch, Compare(t, b)
  PROVE  RunGood(PolicyOf(t), run'[t])
<1> DEFINE p     == PolicyOf(t)
           ahead == tip[b] \ tip[Main]
<1> SUFFICES RunGood(p, run'[t])
  OBVIOUS
<1>1. PICK page \in SUBSET ahead :
        Set(t, [run[t] EXCEPT
             !.at = "asking",
             !.facts[b] = [@ EXCEPT
               !.ahead = Cardinality(ahead), !.truncated = page # ahead,
               !.authors = {Author[c] : c \in page} \ {"unknown"},
               !.seen = tip[b], !.base = tip[Main]]])
  BY DEF Compare
<1> DEFINE f == [run[t].facts[b] EXCEPT
               !.ahead = Cardinality(ahead), !.truncated = page # ahead,
               !.authors = {Author[c] : c \in page} \ {"unknown"},
               !.seen = tip[b], !.base = tip[Main]]
           q == [run[t] EXCEPT !.at = "asking", !.facts[b] = f]
<1>2. run[t] \in Run /\ run[t].at = "comparing" /\ IsNext(run[t], b) /\ RunGood(p, run[t])
  BY DEF GardenTypeOK, Compare, RunsGood
<1>3. run'[t] = q
  BY <1>1 DEF Set, GardenTypeOK
<1>4. /\ f.name = run[t].facts[b].name /\ f.default = run[t].facts[b].default
      /\ f.protected = run[t].facts[b].protected
      /\ f.ahead = Cardinality(f.seen \ f.base)
  BY <1>2 DEF Run, Fact
<1> HIDE DEF f
<1>5. /\ q.at = "asking" /\ q.rest = run[t].rest /\ q.listed = run[t].listed
      /\ q.facts = [run[t].facts EXCEPT ![b] = f]
      /\ q.pruned = run[t].pruned /\ q.spared = run[t].spared
      /\ q.surfaced = run[t].surfaced /\ q.withheld = run[t].withheld
  BY <1>2 DEF Run
<1>6. q.facts[b] = f /\ \A c \in Branch \ {b} : q.facts[c] = run[t].facts[c]
  BY <1>2, <1>5 DEF Run
<1> HIDE DEF p, q
<1>7. b \in run[t].rest /\ run[t].listed \subseteq Branch
  BY <1>2 DEF IsNext, Run
<1>8. Judged(p, q.facts[b])
  BY <1>4, <1>6 DEF Judged, Compared
<1>9. \A c \in Branch : IsNext(q, c) => c = b
  <2>1. IsNext(q, b)
    BY <1>2, <1>5 DEF IsNext
  <2> QED BY <2>1, OneIsNext
<1>10. ScanGood(p, run[t]) /\ PlanGood(p, run[t])
  BY <1>2 DEF RunGood
<1>11. \A c \in q.listed : NameOK(c, q.facts[c])
  <2>1. \A c \in run[t].listed : NameOK(c, run[t].facts[c])
    BY <1>10 DEF ScanGood
  <2> QED BY <1>4, <1>5, <1>6, <1>7, <2>1 DEF NameOK
<1>12. \A c \in q.listed \ q.rest : Judged(p, q.facts[c])
  <2>1. \A c \in run[t].listed \ run[t].rest : Judged(p, run[t].facts[c])
    BY <1>2, <1>10 DEF ScanGood
  <2> QED BY <1>5, <1>6, <1>7, <2>1
<1>13. ScanGood(p, q)
  <2>1. p.enabled /\ run[t].rest \subseteq run[t].listed
    BY <1>2, <1>10 DEF ScanGood
  <2> QED BY <1>5, <1>8, <1>9, <1>11, <1>12, <2>1 DEF ScanGood
<1>14. PlanGood(p, q)
  BY <1>2, <1>5, <1>10 DEF PlanGood, Planned
<1> QED BY <1>3, <1>13, <1>14 DEF RunGood

LEMMA AskGood ==
  ASSUME GardenTypeOK, RunsGood, NEW t \in Task, NEW b \in Branch, AskPulls(t, b)
  PROVE  RunGood(PolicyOf(t), run'[t])
<1> DEFINE p == PolicyOf(t)
           r == [run[t] EXCEPT !.facts[b].open = b \in opened, !.facts[b].merged = b \in merged]
<1> SUFFICES RunGood(p, run'[t])
  OBVIOUS
<1>1. run[t] \in Run /\ run[t].at = "asking" /\ IsNext(run[t], b) /\ RunGood(p, run[t])
  BY DEF GardenTypeOK, AskPulls, RunsGood
<1>2. r \in Run
  <2> DEFINE isOpen   == b \in opened
             isMerged == b \in merged
             f == [run[t].facts[b] EXCEPT !.open = isOpen, !.merged = isMerged]
  <2>1. isOpen \in BOOLEAN /\ isMerged \in BOOLEAN
    OBVIOUS
  <2>2. f \in Fact
    <3>1. run[t].facts[b] \in Fact
      BY <1>1 DEF Run
    <3> HIDE DEF isOpen, isMerged
    <3> QED BY <2>1, <3>1 DEF Fact
  <2>3. r = [run[t] EXCEPT !.facts[b] = f]
    BY <1>1 DEF Run
  <2> HIDE DEF f, r
  <2> QED BY <1>1, <2>2, <2>3 DEF Run
<1>3. run'[t] = IF r.rest # {b} THEN [r EXCEPT !.at = "comparing", !.rest = @ \ {b}]
                ELSE Go(r, Onward(t, r, {}))
  BY DEF AskPulls, Set, GardenTypeOK
<1>4. /\ r.at = "asking" /\ r.rest = run[t].rest /\ r.listed = run[t].listed
      /\ r.pruned = {} /\ r.spared = {} /\ r.surfaced = {} /\ r.withheld = {}
  BY <1>1 DEF Run, RunGood, PlanGood
<1>5. \A c \in Branch : /\ r.facts[c].name = run[t].facts[c].name
                        /\ r.facts[c].default = run[t].facts[c].default
                        /\ r.facts[c].protected = run[t].facts[c].protected
                        /\ r.facts[c].ahead = run[t].facts[c].ahead
                        /\ r.facts[c].seen = run[t].facts[c].seen
                        /\ r.facts[c].base = run[t].facts[c].base
  <2>1. run[t].facts \in [Branch -> Fact]
    BY <1>1 DEF Run
  <2>2. r.facts = [run[t].facts EXCEPT ![b].open = b \in opened, ![b].merged = b \in merged]
    BY <1>1 DEF Run
  <2> QED BY <2>1, <2>2 DEF Fact
<1>6. run[t].listed \subseteq Branch /\ b \in run[t].rest
  BY <1>1 DEF Run, IsNext
<1>7. ScanGood(p, run[t])
  BY <1>1 DEF RunGood
<1> HIDE DEF p, r
<1>8. \A c \in Branch : Judged(p, run[t].facts[c]) => Judged(p, r.facts[c])
  BY <1>5 DEF Judged, Excluded, Compared
<1>9. \A c \in r.listed : NameOK(c, r.facts[c])
  BY <1>4, <1>5, <1>6, <1>7 DEF NameOK, ScanGood
<1>10. \A c \in r.listed \ (r.rest \ {b}) : Judged(p, r.facts[c])
  <2>1. \A c \in run[t].listed \ run[t].rest : Judged(p, run[t].facts[c])
    BY <1>1, <1>7 DEF ScanGood
  <2>2. Judged(p, run[t].facts[b])
    BY <1>1, <1>7 DEF ScanGood
  <2> QED BY <1>4, <1>6, <1>8, <2>1, <2>2
<1>11. p.enabled /\ r.rest \subseteq r.listed
  BY <1>1, <1>4, <1>7 DEF ScanGood
<1>12. CASE r.rest = {b}
  <2>1. PlanBase(p, r)
    BY <1>10, <1>11, <1>12 DEF PlanBase
  <2> QED BY <1>2, <1>3, <1>4, <1>9, <1>12, <2>1, OnwardGood DEF p
<1>13. CASE r.rest # {b}
  <2> DEFINE s == [r EXCEPT !.at = "comparing", !.rest = @ \ {b}]
  <2>1. /\ s.at = "comparing" /\ s.rest = r.rest \ {b} /\ s.listed = r.listed
        /\ s.facts = r.facts
        /\ s.pruned = {} /\ s.spared = {} /\ s.surfaced = {} /\ s.withheld = {}
    BY <1>2, <1>4 DEF Run
  <2> HIDE DEF s
  <2>2. RunGood(p, s)
    BY <1>9, <1>10, <1>11, <2>1 DEF RunGood, ScanGood, PlanGood, Planned
  <2> QED BY <1>3, <1>13, <2>2 DEF s
<1> QED BY <1>12, <1>13

LEMMA RecheckGood ==
  ASSUME GardenTypeOK, RunsGood, NEW t \in Task, NEW b \in Branch, Recheck(t, b)
  PROVE  RunGood(PolicyOf(t), run'[t])
<1> DEFINE p == PolicyOf(t)
           q == [run[t] EXCEPT !.at = "deleting", !.checked = tip[b]]
<1> SUFFICES RunGood(p, run'[t])
  OBVIOUS
<1>1. /\ run[t] \in Run /\ run[t].at = "pruning" /\ IsNext(run[t], b) /\ RunGood(p, run[t])
      /\ tip[b] = run[t].facts[b].sha
  BY DEF GardenTypeOK, Recheck, RunsGood
<1>2. run'[t] = q
  BY DEF Recheck, Set, GardenTypeOK
<1>3. /\ q.at = "deleting" /\ q.rest = run[t].rest /\ q.listed = run[t].listed
      /\ q.facts = run[t].facts /\ q.checked = run[t].facts[b].sha
      /\ q.pruned = run[t].pruned /\ q.spared = run[t].spared
      /\ q.surfaced = run[t].surfaced /\ q.withheld = run[t].withheld
  BY <1>1 DEF Run
<1> HIDE DEF p, q
<1>4. \A c \in Branch : IsNext(q, c) => c = b
  <2>1. IsNext(q, b)
    BY <1>1, <1>3 DEF IsNext
  <2> QED BY <2>1, OneIsNext
<1>5. \A fate : Part(p, q, fate) = Part(p, run[t], fate)
  BY <1>3 DEF Part
<1>6. ScanGood(p, q)
  BY <1>1, <1>3 DEF RunGood, ScanGood
<1>7. PlanGood(p, q)
  <2>1. PlanGood(p, run[t])
    BY <1>1 DEF RunGood
  <2>2. PlanBase(p, q)
    BY <1>1, <1>3, <2>1 DEF PlanGood, PlanBase, Planned
  <2>3. PruneBook(p, q, q.rest)
    BY <1>1, <1>3, <1>5, <2>1 DEF PlanGood, PruneBook
  <2>4. q.surfaced = {} /\ q.withheld = {}
    BY <1>1, <1>3, <2>1 DEF PlanGood
  <2> QED BY <1>3, <1>4, <2>2, <2>3, <2>4 DEF PlanGood
<1> QED BY <1>2, <1>6, <1>7 DEF RunGood

LEMMA ExecuteGood ==
  ASSUME GardenTypeOK, RunsGood, NEW t \in Task, NEW b \in Branch,
         Spare(t, b) \/ Delete(t, b) \/ DeleteFails(t, b) \/ OpenPull(t, b) \/ OpenPullFails(t, b)
  PROVE  RunGood(PolicyOf(t), run'[t])
<1>1. PICK q \in {[run[t] EXCEPT !.spared = @ \union {b}], [run[t] EXCEPT !.pruned = @ \union {b}],
                  [run[t] EXCEPT !.surfaced = @ \union {b}],
                  [run[t] EXCEPT !.withheld = @ \union {b}]} :
        /\ run' = [run EXCEPT ![t] = DoneWith(t, b, q)]
        /\ IsNext(run[t], b)
        /\ \/ /\ run[t].at \in {"pruning", "deleting"}
              /\ \/ q = [run[t] EXCEPT !.spared = @ \union {b}]
                 \/ q = [run[t] EXCEPT !.pruned = @ \union {b}]
           \/ /\ run[t].at = "surfacing"
              /\ \/ q = [run[t] EXCEPT !.surfaced = @ \union {b}]
                 \/ q = [run[t] EXCEPT !.withheld = @ \union {b}]
  BY DEF Spare, Delete, DeleteFails, OpenPull, OpenPullFails, Set
<1>2. run[t] \in Run /\ RunGood(PolicyOf(t), run[t]) /\ b \in run[t].rest
  BY <1>1 DEF GardenTypeOK, RunsGood, IsNext
<1>3. q \in Run
  BY <1>1, <1>2 DEF Run
<1>4. run'[t] = DoneWith(t, b, q)
  BY <1>1 DEF GardenTypeOK
<1>5. run[t].at \in {"pruning", "deleting", "surfacing"}
  BY <1>1
<1> QED BY <1>1, <1>2, <1>3, <1>4, <1>5, DoneWithGood

LEMMA OthersStay ==
  ASSUME GardenTypeOK, NEW u \in Task, RunNext(u)
  PROVE  /\ UNCHANGED cfg
         /\ \A t \in Task : t # u => run'[t] = run[t]
<1>1. \E r : run' = [run EXCEPT ![u] = r]
  BY DEF RunNext, Begin, Decline, ListBranches, ScanFails, MintFails, Compare, AskPulls, Recheck,
      Spare, Delete, DeleteFails, OpenPull, OpenPullFails, Report, Fail, Set
<1>2. UNCHANGED cfg
  BY DEF RunNext, Begin, Decline, ListBranches, ScanFails, MintFails, Compare, AskPulls, Recheck,
      Spare, Delete, DeleteFails, OpenPull, OpenPullFails, Report, Fail, OnlyRun
<1> QED BY <1>1, <1>2 DEF GardenTypeOK

LEMMA ConfigFixed == GardenTypeOK /\ [Next]_vars => UNCHANGED cfg
<1>1. ~RunSteps /\ [Next]_vars => UNCHANGED cfg
  BY DEF Next, ScheduleNext, RunSteps, Elapse, Tick, RecordSlot, SkipDuplicate, CollidingSlot,
      PassFails, Pass, Commanded, Crash, UsersNext, Push, Propose, Merge, CloseIt, Users, vars
<1> QED BY <1>1, OthersStay DEF RunSteps

LEMMA RunsGoodKept == GardenTypeOK /\ RunsGood /\ [Next]_vars => RunsGood'
<1> SUFFICES ASSUME GardenTypeOK, RunsGood, [Next]_vars, NEW t \in Task
             PROVE  RunGood(PolicyOf(t)', run'[t])
  BY DEF RunsGood
<1>1. RunGood(PolicyOf(t), run[t])
  BY DEF RunsGood
<1>2. CASE run'[t] = run[t] /\ UNCHANGED cfg
  BY <1>1, <1>2 DEF PolicyOf
<1>3. CASE Crash
  BY <1>3, NoRunGood DEF Crash, PolicyOf
<1>4. CASE RunNext(t)
  <2>1. UNCHANGED cfg
    BY <1>4, OthersStay
  <2>2. run \in [Task -> Run]
    BY DEF GardenTypeOK
  <2>3. CASE Begin(t) \/ Decline(t) \/ Report(t) \/ Fail(t)
    <3>1. run'[t] \in {NoRun, [NoRun EXCEPT !.at = "begun"]}
      BY <2>2, <2>3 DEF Begin, Decline, Report, Fail, Set
    <3> QED BY <2>1, <3>1, NoRunGood DEF PolicyOf
  <2>4. CASE ScanFails(t) \/ MintFails(t)
    <3>1. run'[t] = [run[t] EXCEPT !.at = "failing", !.rest = {}]
      BY <2>2, <2>4 DEF ScanFails, MintFails, Set
    <3>2. RunGood(PolicyOf(t), run'[t])
      <4>1. run[t] \in Run
        BY <2>2
      <4> DEFINE p == PolicyOf(t)
                 r == run[t]
      <4>2. r \in Run /\ RunGood(p, r)
        BY <1>1, <4>1
      <4>3. run'[t] = [r EXCEPT !.at = "failing", !.rest = {}]
        BY <3>1
      <4> HIDE DEF p, r
      <4>4. RunGood(p, [r EXCEPT !.at = "failing", !.rest = {}])
        BY <4>2, FailingGood
      <4> QED BY <4>3, <4>4 DEF p
    <3> QED BY <2>1, <3>2 DEF PolicyOf
  <2>5. CASE ~(Begin(t) \/ Decline(t) \/ Report(t) \/ Fail(t) \/ ScanFails(t) \/ MintFails(t))
    <3> DEFINE Good == RunGood(PolicyOf(t), run'[t])
    <3>1. ListBranches(t) => Good
      BY ListGood
    <3>2. ASSUME NEW b \in Branch PROVE Compare(t, b) \/ AskPulls(t, b) \/ Recheck(t, b) => Good
      BY CompareGood, AskGood, RecheckGood
    <3>3. ASSUME NEW b \in Branch
          PROVE  Spare(t, b) \/ Delete(t, b) \/ DeleteFails(t, b)
                   \/ OpenPull(t, b) \/ OpenPullFails(t, b) => Good
      BY ExecuteGood
    <3> HIDE DEF Good
    <3>4. Good
      BY <1>4, <2>5, <3>1, <3>2, <3>3 DEF RunNext
    <3> QED BY <2>1, <3>4 DEF PolicyOf, Good
  <2> QED BY <2>3, <2>4, <2>5
<1>5. ASSUME NEW u \in Task, u # t, RunNext(u)
      PROVE  run'[t] = run[t] /\ UNCHANGED cfg
  BY <1>5, OthersStay
<1>6. CASE ~RunSteps /\ ~Crash
  <2>1. UNCHANGED <<run, cfg>>
    BY <1>6
    DEF Next, ScheduleNext, RunSteps, Elapse, Tick, RecordSlot, SkipDuplicate, CollidingSlot,
        PassFails, Pass, Commanded, UsersNext, Push, Propose, Merge, CloseIt, Users, vars
  <2> QED BY <1>2, <2>1
<1> QED BY <1>2, <1>3, <1>4, <1>5, <1>6 DEF RunSteps

LEMMA RunsGoodHolds == Spec => [](GardenTypeOK /\ RunsGood)
<1>1. Init => RunsGood
  BY NoRunGood DEF Init, RunsGood
<1> QED BY <1>1, GardenTypeCorrect, RunsGoodKept, PTL DEF Spec

-----------------------------------------------------------------------------
(* The effects of a run, its report and the losses.                        *)

EffectsGood ==
  \A t \in Task :
    LET r == run[t] IN
    /\ r.pruned \subseteq cut[t] /\ r.surfaced \subseteq raised[t]
    /\ r.at # "idle" => /\ cut[t] \subseteq r.pruned \union r.spared
                       /\ raised[t] \subseteq r.surfaced \union r.withheld
    /\ r.at # "idle" /\ faults = 0 => r.pruned = cut[t] /\ r.surfaced = raised[t]

\* A branch a run is about to delete or to raise is one the policy lets it.
LEMMA PlannedIsAllowed ==
  ASSUME GardenTypeOK, RunsGood, NEW t \in Task, NEW b \in Branch, IsNext(run[t], b),
         run[t].at \in {"pruning", "deleting", "surfacing"}
  PROVE  /\ PolicyOf(t).enabled /\ b \notin {Main} \union Protected
         /\ \A pattern \in PolicyOf(t).exclude : ~Matches(b, pattern)
         /\ run[t].at # "surfacing" => PolicyOf(t).prunes /\ FateOf(t, b) = "prune"
<1> DEFINE p == PolicyOf(t)
           r == run[t]
           f == r.facts[b]
<1>1. ScanGood(p, r) /\ PlanGood(p, r) /\ b \in r.rest
  BY DEF RunsGood, RunGood, IsNext
<1>2. b \in r.listed
  BY <1>1 DEF ScanGood
<1>3. NameOK(b, f)
  BY <1>1, <1>2 DEF ScanGood
<1>4. p.enabled
  BY <1>1 DEF PlanGood, PlanBase, Planned
<1>5. r.at # "surfacing" => Fate(f, p) = "prune"
  BY <1>1 DEF PlanGood, PruneBook, Part
<1>6. r.at = "surfacing" => Fate(f, p) = "surface"
  BY <1>1 DEF PlanGood, SurfaceBook, Part
<1>7. ~Excluded(f, p) /\ (r.at # "surfacing" => p.prunes)
  BY <1>5, <1>6, FateMeans
<1>8. b \notin {Main} \union Protected /\ \A pattern \in p.exclude : ~Matches(b, pattern)
  BY <1>3, <1>7 DEF Excluded, NameOK
<1> QED BY <1>4, <1>5, <1>7, <1>8 DEF FateOf

\* The three ways a step touches the effects.
LEMMA EffectSteps ==
  ASSUME GardenTypeOK, [Next]_vars
  PROVE  \/ UNCHANGED effects
         \/ \E t \in Task : Begin(t)
         \/ \E t \in Task, b \in Branch :
              /\ IsNext(run[t], b) /\ run[t].at = "deleting" /\ Remove(t, b)
              /\ Delete(t, b) \/ DeleteFails(t, b)
         \/ \E t \in Task, b \in Branch :
              /\ IsNext(run[t], b) /\ run[t].at = "surfacing" /\ Raise(t, b)
              /\ OpenPull(t, b) \/ OpenPullFails(t, b)
<1>1. CASE RunSteps
  <2>1. PICK t \in Task : RunNext(t)
    BY <1>1 DEF RunSteps
  <2>2. CASE \E b \in Branch : Delete(t, b) \/ DeleteFails(t, b)
    BY <2>2 DEF Delete, DeleteFails, effects
  <2>3. CASE \E b \in Branch : OpenPull(t, b) \/ OpenPullFails(t, b)
    BY <2>3 DEF OpenPull, OpenPullFails, effects
  <2>4. CASE \E b \in Branch : Compare(t, b) \/ AskPulls(t, b) \/ Recheck(t, b) \/ Spare(t, b)
    BY <2>4 DEF Compare, AskPulls, Recheck, Spare
  <2>5. CASE Begin(t)
    BY <2>5
  <2>6. CASE Decline(t) \/ ListBranches(t) \/ ScanFails(t) \/ MintFails(t) \/ Report(t) \/ Fail(t)
    BY <2>6 DEF Decline, ListBranches, ScanFails, MintFails, Report, Fail
  <2> QED BY <2>1, <2>2, <2>3, <2>4, <2>5, <2>6 DEF RunNext
<1>2. CASE ~RunSteps
  BY <1>2
  DEF Next, ScheduleNext, RunSteps, Elapse, Tick, RecordSlot, SkipDuplicate, CollidingSlot,
      PassFails, Pass, Commanded, Crash, UsersNext, Push, Propose, Merge, CloseIt, Users, vars
<1> QED BY <1>1, <1>2

LEMMA WithinPolicyKept ==
  GardenTypeOK /\ RunsGood /\ WithinPolicy /\ [Next]_vars => WithinPolicy'
<1> SUFFICES ASSUME GardenTypeOK, RunsGood, WithinPolicy, [Next]_vars
             PROVE  WithinPolicy'
  OBVIOUS
<1>1. \A t \in Task : PolicyOf(t)' = PolicyOf(t)
  BY ConfigFixed DEF PolicyOf
<1>2. CASE UNCHANGED effects
  BY <1>1, <1>2 DEF effects, WithinPolicy
<1>3. ASSUME NEW u \in Task, Begin(u) PROVE WithinPolicy'
  BY <1>1, <1>3 DEF Begin, WithinPolicy, GardenTypeOK
<1>4. ASSUME NEW u \in Task, NEW b \in Branch, IsNext(run[u], b),
             \/ run[u].at = "deleting" /\ Remove(u, b)
             \/ run[u].at = "surfacing" /\ Raise(u, b)
      PROVE  WithinPolicy'
  <2>1. /\ PolicyOf(u).enabled /\ b \notin {Main} \union Protected
        /\ \A pattern \in PolicyOf(u).exclude : ~Matches(b, pattern)
        /\ run[u].at # "surfacing" => PolicyOf(u).prunes
    BY <1>4, PlannedIsAllowed
  <2>2. \/ cut' = [cut EXCEPT ![u] = @ \union {b}] /\ raised' = raised /\ PolicyOf(u).prunes
        \/ raised' = [raised EXCEPT ![u] = @ \union {b}] /\ cut' = cut
    BY <1>4, <2>1 DEF Remove, Raise
  <2>3. ASSUME NEW t \in Task
        PROVE  /\ cut'[t] \union raised'[t] \subseteq
                    cut[t] \union raised[t] \union (IF t = u THEN {b} ELSE {})
               /\ cut'[t] # {} => cut[t] # {} \/ (t = u /\ PolicyOf(u).prunes)
    BY <2>2 DEF GardenTypeOK
  <2>4. ASSUME NEW t \in Task
        PROVE  /\ \A c \in cut'[t] \union raised'[t] :
                    /\ c \notin {Main} \union Protected
                    /\ \A pattern \in PolicyOf(t).exclude : ~Matches(c, pattern)
               /\ cut'[t] # {} => PolicyOf(t).prunes
               /\ cut'[t] \union raised'[t] # {} => PolicyOf(t).enabled
    <3>1. \A c \in cut[t] \union raised[t] :
             /\ c \notin {Main} \union Protected
             /\ \A pattern \in PolicyOf(t).exclude : ~Matches(c, pattern)
      BY DEF WithinPolicy
    <3>2. cut[t] # {} => PolicyOf(t).prunes
      BY DEF WithinPolicy
    <3>3. cut[t] \union raised[t] # {} => PolicyOf(t).enabled
      BY DEF WithinPolicy
    <3> QED BY <2>1, <2>3, <3>1, <3>2, <3>3
  <2> QED BY <1>1, <2>4 DEF WithinPolicy
<1> QED BY <1>2, <1>3, <1>4, EffectSteps

\* Whatever users, other runs, failures and crashes do, the gardener touches
\* only branches its policy lets it touch, and deletes only where it may.
THEOREM WithinPolicyHolds == Spec => []WithinPolicy
<1>1. Init => WithinPolicy
  BY DEF Init, WithinPolicy
<1> QED BY <1>1, RunsGoodHolds, WithinPolicyKept, PTL DEF Spec

\* A deletion that loses commits is a race with a user after the re-check,
\* between list and compare, or of the default branch: for every repository.
THEOREM LossesAreRacesHold == Spec => LossesAreRaces
<1>1. ASSUME GardenTypeOK, RunsGood, [Next]_vars, NEW t \in Task,
             cut'[t] # cut[t], cut'[t] # {}
      PROVE  LossIsARace(t)
  <2>1. PICK b \in Branch : IsNext(run[t], b) /\ run[t].at = "deleting" /\ Remove(t, b)
    BY <1>1, EffectSteps DEF Begin, Remove, Raise, effects, GardenTypeOK
  <2> DEFINE f == run[t].facts[b]
  <2>2. alive \ alive' \subseteq {b}
    BY <2>1 DEF Remove
  <2>3. FateOf(t, b) = "prune"
    BY <1>1, <2>1, PlannedIsAllowed
  <2>4. f.ahead = 0 /\ ~Excluded(f, PolicyOf(t))
    BY <2>3, FateMeans DEF FateOf
  <2>5. PlanGood(PolicyOf(t), run[t]) /\ ScanGood(PolicyOf(t), run[t])
    BY <1>1 DEF RunsGood, RunGood
  <2>6. b \in run[t].listed
    BY <2>1, <2>5 DEF ScanGood, IsNext
  <2>7. Cardinality(f.seen \ f.base) = 0
    BY <2>1, <2>4, <2>5, <2>6 DEF PlanGood, PlanBase, Planned, Judged, Compared
  <2>8. f.seen \subseteq f.base
    <3>1. f \in Fact
      BY <1>1 DEF GardenTypeOK, Run
    <3>2. IsFiniteSet(f.seen \ f.base)
      BY <3>1, GardenerAssumption, FS_Subset DEF Fact
    <3>3. f.seen \ f.base = {}
      BY <2>7, <3>2, FS_EmptySet
    <3> QED BY <3>3
  <2>9. run[t].checked = f.sha
    BY <2>1, <2>5 DEF PlanGood
  <2> QED BY <2>2, <2>8, <2>9 DEF LossIsARace
<1>2. GardenTypeOK /\ RunsGood /\ [Next]_vars =>
        [\A t \in Task : cut'[t] # cut[t] /\ cut'[t] # {} => LossIsARace(t)]_vars
  BY <1>1
<1> QED BY <1>2, RunsGoodHolds, PTL DEF Spec, LossesAreRaces

\* The bookkeeping of a run is that of its effects, answer by answer.
Forgets(t) ==
  /\ run'[t].pruned = {} /\ run'[t].surfaced = {}
  /\ run'[t].at = "idle" \/ (cut'[t] = {} /\ raised'[t] = {})

KeepsSpared(t) ==
  run[t].spared \subseteq run'[t].spared /\ run[t].withheld \subseteq run'[t].withheld

Books(t) ==
  /\ run'[t].pruned = run[t].pruned /\ run'[t].surfaced = run[t].surfaced
  /\ run[t].at # "idle" /\ KeepsSpared(t)
  /\ cut'[t] \subseteq cut[t] \union run'[t].spared
  /\ raised'[t] \subseteq raised[t] \union run'[t].withheld

BooksCut(t, b) ==
  /\ run[t].at # "idle" /\ KeepsSpared(t) /\ UNCHANGED <<faults, raised>>
  /\ run'[t].pruned = run[t].pruned \union {b} /\ cut'[t] = cut[t] \union {b}
  /\ run'[t].surfaced = run[t].surfaced

BooksRaised(t, b) ==
  /\ run[t].at # "idle" /\ KeepsSpared(t) /\ UNCHANGED <<faults, cut>>
  /\ run'[t].surfaced = run[t].surfaced \union {b} /\ raised'[t] = raised[t] \union {b}
  /\ run'[t].pruned = run[t].pruned

LEMMA BooksOfRun ==
  ASSUME GardenTypeOK, NEW t \in Task, RunNext(t)
  PROVE  \/ Forgets(t)
         \/ Books(t) /\ (UNCHANGED effects \/ faults' # 0)
         \/ \E b \in Branch : BooksCut(t, b) \/ BooksRaised(t, b)
<1> DEFINE r == run[t]
           q == run'[t]
           Same(x, y) == /\ y.pruned = x.pruned /\ y.spared = x.spared
                         /\ y.surfaced = x.surfaced /\ y.withheld = x.withheld
<1> USE DEF GardenTypeOK
<1>1. r \in Run
  OBVIOUS
<1>2. CASE Begin(t) \/ Decline(t) \/ Report(t) \/ Fail(t)
  <2>1. \/ run'[t] = NoRun
        \/ /\ run'[t] = [NoRun EXCEPT !.at = "begun"]
           /\ cut'[t] = {} /\ raised'[t] = {}
    BY <1>2 DEF Begin, Decline, Report, Fail, Set
  <2>2. /\ NoRun.pruned = {} /\ NoRun.surfaced = {} /\ NoRun.at = "idle"
        /\ [NoRun EXCEPT !.at = "begun"].pruned = {}
        /\ [NoRun EXCEPT !.at = "begun"].surfaced = {}
    BY DEF NoRun
  <2>3. Forgets(t)
    BY <2>1, <2>2 DEF Forgets
  <2> QED BY <2>3
<1>3. ASSUME NEW b \in Branch, NEW s \in Run
      PROVE  Same(s, DoneWith(t, b, s))
  BY DEF DoneWith, Go, Run
<1>4. ASSUME Same(r, q), r.at # "idle", UNCHANGED effects
      PROVE  Books(t) /\ UNCHANGED effects
  BY <1>4 DEF Books, KeepsSpared, effects
<1>5. CASE ListBranches(t)
  <2>1. Same(r, q)
    BY <1>1, <1>5 DEF ListBranches, Set, Go, Run
  <2>2. r.at # "idle" /\ UNCHANGED effects
    BY <1>5 DEF ListBranches
  <2> QED BY <1>4, <2>1, <2>2
<1>6. CASE ScanFails(t) \/ MintFails(t)
  <2>1. q = [r EXCEPT !.at = "failing", !.rest = {}]
    BY <1>6 DEF ScanFails, MintFails, Set
  <2>2. Same(r, q)
    BY <1>1, <2>1 DEF Run
  <2>3. r.at # "idle" /\ UNCHANGED effects
    BY <1>6 DEF ScanFails, MintFails
  <2> QED BY <1>4, <2>2, <2>3
<1>7. ASSUME NEW b \in Branch, Compare(t, b) \/ Recheck(t, b)
      PROVE  Books(t) /\ UNCHANGED effects
  <2>1. Recheck(t, b) => q = [r EXCEPT !.at = "deleting", !.checked = tip[b]]
    BY DEF Recheck, Set
  <2>2. Same(r, q)
    <3>1. CASE Recheck(t, b)
      BY <1>1, <2>1, <3>1 DEF Run
    <3>2. CASE Compare(t, b)
      BY <1>1, <3>2 DEF Compare, Set, Run
    <3> QED BY <1>7, <3>1, <3>2
  <2>3. r.at # "idle" /\ UNCHANGED effects
    BY <1>7 DEF Compare, Recheck
  <2> QED BY <1>4, <2>2, <2>3
<1>8. ASSUME NEW b \in Branch, AskPulls(t, b)
      PROVE  Books(t) /\ UNCHANGED effects
  <2> DEFINE s == [r EXCEPT !.facts[b].open = b \in opened, !.facts[b].merged = b \in merged]
  <2>1. Same(r, s) /\ DOMAIN s = DOMAIN r
    BY <1>1 DEF Run
  <2>2. \/ q = [s EXCEPT !.at = "comparing", !.rest = @ \ {b}]
        \/ q = Go(s, Onward(t, s, {}))
    BY <1>8 DEF AskPulls, Set
  <2>3. r.at # "idle" /\ UNCHANGED effects
    BY <1>8 DEF AskPulls
  <2>4. DOMAIN s = {"at", "listed", "rest", "facts", "checked", "since", "pruned",
                    "spared", "surfaced", "withheld"}
    BY <1>1, <2>1 DEF Run
  <2> HIDE DEF s
  <2>5. Same(r, q)
    BY <2>1, <2>2, <2>4 DEF Go
  <2> QED BY <1>4, <2>3, <2>5
<1>9. ASSUME NEW b \in Branch, Spare(t, b) \/ DeleteFails(t, b)
      PROVE  Books(t) /\ (UNCHANGED effects \/ faults' # 0)
  <2> DEFINE s == [r EXCEPT !.spared = @ \union {b}]
  <2>1. /\ s \in Run /\ s.pruned = r.pruned /\ s.spared = r.spared \union {b}
        /\ s.surfaced = r.surfaced /\ s.withheld = r.withheld
    BY <1>1 DEF Run
  <2>2. q = DoneWith(t, b, s)
    BY <1>9 DEF Spare, DeleteFails, Set
  <2> HIDE DEF s
  <2>3. /\ q.pruned = r.pruned /\ q.spared = r.spared \union {b}
        /\ q.surfaced = r.surfaced /\ q.withheld = r.withheld
    BY <1>3, <2>1, <2>2
  <2>4. r.at # "idle" /\ (UNCHANGED effects \/ (Fails /\ Remove(t, b)))
    BY <1>9 DEF Spare, DeleteFails
  <2>5. Fails => faults' # 0
    BY DEF Fails
  <2>6. cut'[t] \subseteq cut[t] \union {b} /\ raised'[t] = raised[t]
    BY <2>4 DEF Remove, effects
  <2> QED BY <2>3, <2>4, <2>5, <2>6 DEF Books, KeepsSpared
<1>10. ASSUME NEW b \in Branch, OpenPullFails(t, b)
       PROVE  Books(t) /\ (UNCHANGED effects \/ faults' # 0)
  <2> DEFINE s == [r EXCEPT !.withheld = @ \union {b}]
  <2>1. /\ s \in Run /\ s.pruned = r.pruned /\ s.spared = r.spared
        /\ s.surfaced = r.surfaced /\ s.withheld = r.withheld \union {b}
    BY <1>1 DEF Run
  <2>2. q = DoneWith(t, b, s)
    BY <1>10 DEF OpenPullFails, Set
  <2> HIDE DEF s
  <2>3. /\ q.pruned = r.pruned /\ q.spared = r.spared
        /\ q.surfaced = r.surfaced /\ q.withheld = r.withheld \union {b}
    BY <1>3, <2>1, <2>2
  <2>4. r.at # "idle" /\ (UNCHANGED effects \/ (Fails /\ Raise(t, b)))
    BY <1>10 DEF OpenPullFails
  <2>5. Fails => faults' # 0
    BY DEF Fails
  <2>6. raised'[t] \subseteq raised[t] \union {b} /\ cut'[t] = cut[t]
    BY <2>4 DEF Raise, effects
  <2> QED BY <2>3, <2>4, <2>5, <2>6 DEF Books, KeepsSpared
<1>11. ASSUME NEW b \in Branch, Delete(t, b)
       PROVE  BooksCut(t, b)
  <2> DEFINE s == [r EXCEPT !.pruned = @ \union {b}]
  <2>1. /\ s \in Run /\ s.pruned = r.pruned \union {b} /\ s.spared = r.spared
        /\ s.surfaced = r.surfaced /\ s.withheld = r.withheld
    BY <1>1 DEF Run
  <2>2. q = DoneWith(t, b, s)
    BY <1>11 DEF Delete, Set
  <2> HIDE DEF s
  <2> QED BY <1>3, <1>11, <2>1, <2>2 DEF Delete, Remove, Succeeds, BooksCut, KeepsSpared
<1>12. ASSUME NEW b \in Branch, OpenPull(t, b)
       PROVE  BooksRaised(t, b)
  <2> DEFINE s == [r EXCEPT !.surfaced = @ \union {b}]
  <2>1. /\ s \in Run /\ s.pruned = r.pruned /\ s.spared = r.spared
        /\ s.surfaced = r.surfaced \union {b} /\ s.withheld = r.withheld
    BY <1>1 DEF Run
  <2>2. q = DoneWith(t, b, s)
    BY <1>12 DEF OpenPull, Set
  <2> HIDE DEF s
  <2> QED BY <1>3, <1>12, <2>1, <2>2 DEF OpenPull, Raise, Succeeds, BooksRaised, KeepsSpared
<1> HIDE DEF Same
<1>13. CASE \E b \in Branch :
              \/ Compare(t, b) \/ AskPulls(t, b) \/ Recheck(t, b) \/ Spare(t, b)
              \/ DeleteFails(t, b) \/ OpenPullFails(t, b)
  BY <1>7, <1>8, <1>9, <1>10, <1>13
<1>14. CASE \E b \in Branch : Delete(t, b) \/ OpenPull(t, b)
  BY <1>11, <1>12, <1>14
<1> QED BY <1>2, <1>5, <1>6, <1>13, <1>14 DEF RunNext

\* A run has its own effects only, and keeps those it had.
LEMMA EffectsOfRun ==
  ASSUME GardenTypeOK, NEW u \in Task, RunNext(u)
  PROVE  /\ \A t \in Task : t # u => cut'[t] = cut[t] /\ raised'[t] = raised[t]
         /\ ~Begin(u) => cut[u] \subseteq cut'[u] /\ raised[u] \subseteq raised'[u]
<1>1. CASE Begin(u)
  BY <1>1 DEF Begin, GardenTypeOK
<1>2. CASE ~Begin(u)
  <2>1. \/ UNCHANGED effects
        \/ \E b \in Branch : Remove(u, b) \/ Raise(u, b)
    BY <1>2
    DEF RunNext, Decline, ListBranches, ScanFails, MintFails, Compare, AskPulls, Recheck,
        Spare, Delete, DeleteFails, OpenPull, OpenPullFails, Report, Fail
  <2> QED BY <1>2, <2>1 DEF Remove, Raise, effects, GardenTypeOK
<1> QED BY <1>1, <1>2

\* Faults are counted and not forgotten.
LEMMA NoFaultBefore ==
  ASSUME GardenTypeOK, [Next]_vars, faults' = 0
  PROVE  faults = 0
<1>1. CASE RunSteps
  <2>1. UNCHANGED faults \/ Fails
    <3> HIDE DEF Fails
    <3>1. PICK u \in Task : RunNext(u)
      BY <1>1 DEF RunSteps
    <3>2. CASE Begin(u) \/ Decline(u) \/ ListBranches(u) \/ ScanFails(u) \/ MintFails(u)
                 \/ Report(u) \/ Fail(u)
      BY <3>2 DEF Begin, Decline, ListBranches, ScanFails, MintFails, Report, Fail, Succeeds
    <3>3. CASE \E b \in Branch :
                 \/ Compare(u, b) \/ AskPulls(u, b) \/ Recheck(u, b) \/ Spare(u, b)
                 \/ Delete(u, b) \/ DeleteFails(u, b) \/ OpenPull(u, b) \/ OpenPullFails(u, b)
      BY <3>3
      DEF Compare, AskPulls, Recheck, Spare, Delete, DeleteFails, OpenPull, OpenPullFails,
          Succeeds
    <3> QED BY <3>1, <3>2, <3>3 DEF RunNext
  <2> QED BY <2>1 DEF Fails, GardenTypeOK
<1>2. CASE ~RunSteps
  <2>1. UNCHANGED faults \/ Fails
    BY <1>2
    DEF RunSteps, Next, ScheduleNext, Elapse, Tick, RecordSlot, SkipDuplicate, CollidingSlot,
        PassFails, Pass, Commanded, Crash, UsersNext, Push, Propose, Merge, CloseIt, Users,
        Succeeds, vars
  <2> QED BY <2>1 DEF Fails, GardenTypeOK
<1> QED BY <1>1, <1>2

LEMMA EffectsGoodKept ==
  GardenTypeOK /\ EffectsGood /\ [Next]_vars => EffectsGood'
<1> DEFINE Good(r, c, o, f) ==
             /\ r.pruned \subseteq c /\ r.surfaced \subseteq o
             /\ r.at # "idle" => /\ c \subseteq r.pruned \union r.spared
                                /\ o \subseteq r.surfaced \union r.withheld
             /\ r.at # "idle" /\ f = 0 => r.pruned = c /\ r.surfaced = o
<1> SUFFICES ASSUME GardenTypeOK, EffectsGood, [Next]_vars, NEW t \in Task
             PROVE  Good(run'[t], cut'[t], raised'[t], faults')
  BY DEF EffectsGood
<1>1. Good(run[t], cut[t], raised[t], faults)
  BY DEF EffectsGood
<1>2. faults' = 0 => faults = 0
  BY NoFaultBefore
<1>3. CASE RunNext(t)
  <2>1. CASE Forgets(t)
    BY <2>1 DEF Forgets
  <2>2. CASE Books(t) /\ UNCHANGED effects
    BY <1>1, <1>2, <2>2 DEF Books, KeepsSpared, effects
  <2>3. CASE Books(t) /\ faults' # 0
    <3>1. CASE ~Begin(t)
      BY <1>1, <1>3, <2>3, <3>1, EffectsOfRun DEF Books, KeepsSpared
    <3>2. CASE Begin(t)
      BY <3>2, <2>3 DEF Begin, Set, NoRun, GardenTypeOK
    <3> QED BY <3>1, <3>2
  <2>4. CASE \E b \in Branch : BooksCut(t, b) \/ BooksRaised(t, b)
    BY <1>1, <1>2, <2>4 DEF BooksCut, BooksRaised, KeepsSpared
  <2> QED BY <1>3, <2>1, <2>2, <2>3, <2>4, BooksOfRun
<1>4. ASSUME NEW u \in Task, u # t, RunNext(u)
      PROVE  run'[t] = run[t] /\ cut'[t] = cut[t] /\ raised'[t] = raised[t]
  <2>1. run'[t] = run[t]
    BY <1>4, OthersStay
  <2>2. cut'[t] = cut[t] /\ raised'[t] = raised[t]
    BY <1>4, EffectsOfRun
  <2> QED BY <2>1, <2>2
<1>5. CASE Crash
  BY <1>1, <1>5 DEF Crash, effects, NoRun
<1>6. CASE ~RunSteps /\ ~Crash
  <2>1. UNCHANGED <<run, effects>>
    BY <1>6
    DEF Next, ScheduleNext, RunSteps, Elapse, Tick, RecordSlot, SkipDuplicate, CollidingSlot,
        PassFails, Pass, Commanded, UsersNext, Push, Propose, Merge, CloseIt, Users, vars
  <2> QED BY <1>1, <1>2, <2>1 DEF effects
<1> QED BY <1>1, <1>2, <1>3, <1>4, <1>5, <1>6 DEF RunSteps

LEMMA BranchIsFinite == IsFiniteSet(Branch)
<1>1. DOMAIN Branches = 1..Len(Branches) /\ Len(Branches) \in Nat
  BY GardenerAssumption, LenProperties
<1>2. Branches \in [1..Len(Branches) -> Branch]
  BY <1>1, GardenerAssumption
<1>3. Branches \in Surjection(1..Len(Branches), Branch)
  BY <1>1, <1>2 DEF Surjection, Branch
<1> QED BY <1>1, <1>3, FS_Interval, FS_Surjection DEF ExistsSurjection

LEMMA DisjointBranches ==
  ASSUME NEW A \in SUBSET Branch, NEW B \in SUBSET Branch, Apart(A, B)
  PROVE  Cardinality(A \union B) = Cardinality(A) + Cardinality(B)
<1>1. IsFiniteSet(A) /\ IsFiniteSet(B)
  BY BranchIsFinite, FS_Subset
<1>2. Cardinality(A) \in Nat /\ Cardinality(B) \in Nat /\ Cardinality(A \intersect B) = 0
  BY <1>1, FS_CardinalityType, FS_EmptySet DEF Apart
<1>3. Cardinality(A \union B) = Cardinality(A) + Cardinality(B) - Cardinality(A \intersect B)
  BY <1>1, FS_Union
<1> QED BY <1>2, <1>3

\* A branch has one fate.
LEMMA OneFate ==
  ASSUME NEW f, NEW p
  PROVE  Fate(f, p) \in {"prune", "would prune", "surface", "skipped", "active"}
<1>1. Class(f, p) \in {"excluded", "active", "merged", "dead", "prless"}
  BY DEF Class
<1> QED BY <1>1 DEF Fate

\* The report of a run whose books are closed.
LEMMA ReportShares ==
  ASSUME GardenTypeOK, NEW t \in Task,
         PruneBook(PolicyOf(t), run[t], {}), SurfaceBook(PolicyOf(t), run[t], {})
  PROVE  LET count   == ReportOf(t).count
             section == ReportOf(t).section
         IN /\ count.pruned + count.moved = Cardinality(section.pruned)
            /\ Cardinality(section.pruned) + Cardinality(section.wouldPrune)
                 + Cardinality(section.surfaced) + Cardinality(section.skipped) + count.active
                 = Cardinality(run[t].listed)
<1> DEFINE r       == run[t]
           A       == Section(t, r, "prune")
           B       == Section(t, r, "would prune")
           C       == Section(t, r, "surface")
           D       == Section(t, r, "skipped")
           E       == Section(t, r, "active")
<1>1. r \in Run
  BY DEF GardenTypeOK
<1>2. /\ A \in SUBSET Branch /\ B \in SUBSET Branch /\ C \in SUBSET Branch
      /\ D \in SUBSET Branch /\ E \in SUBSET Branch
  BY <1>1 DEF Section, Run
<1>3. /\ r.pruned \in SUBSET Branch /\ r.spared \in SUBSET Branch
      /\ r.surfaced \in SUBSET Branch /\ r.withheld \in SUBSET Branch
  BY <1>1 DEF Run
<1>4. A = r.pruned \union r.spared /\ Apart(r.pruned, r.spared)
  BY DEF PruneBook, Part, Section
<1>5. C = r.surfaced \union r.withheld /\ Apart(r.surfaced, r.withheld)
  BY DEF SurfaceBook, Part, Section
<1>6. r.listed = A \union B \union C \union D \union E
  BY OneFate DEF Section
<1>7. /\ Apart(A, B) /\ Apart(A, C) /\ Apart(A, D) /\ Apart(A, E) /\ Apart(B, C)
      /\ Apart(B, D) /\ Apart(B, E) /\ Apart(C, D) /\ Apart(C, E) /\ Apart(D, E)
  BY DEF Section, Apart
<1>8. /\ ReportOf(t).count.pruned = Cardinality(r.pruned)
      /\ ReportOf(t).count.moved = Cardinality(r.spared)
      /\ ReportOf(t).count.active = Cardinality(E)
      /\ ReportOf(t).section.pruned = A /\ ReportOf(t).section.wouldPrune = B
      /\ ReportOf(t).section.surfaced = r.surfaced
      /\ ReportOf(t).section.skipped = D \union r.withheld
  BY DEF ReportOf
<1> HIDE DEF A, B, C, D, E
<1>9. Cardinality(r.pruned) + Cardinality(r.spared) = Cardinality(A)
  BY <1>3, <1>4, DisjointBranches
<1>10. Cardinality(D \union r.withheld) = Cardinality(D) + Cardinality(r.withheld)
  <2>1. Apart(D, r.withheld)
    BY <1>5, <1>7 DEF Apart
  <2> QED BY <1>2, <1>3, <2>1, DisjointBranches
<1>11. Cardinality(C) = Cardinality(r.surfaced) + Cardinality(r.withheld)
  BY <1>3, <1>5, DisjointBranches
<1>12. Cardinality(r.listed) = Cardinality(A) + Cardinality(B) + Cardinality(C)
                               + Cardinality(D) + Cardinality(E)
  <2>1. /\ Apart(A \union B, C) /\ Apart(A \union B \union C, D)
        /\ Apart(A \union B \union C \union D, E)
    BY <1>7 DEF Apart
  <2>2. Cardinality(A \union B) = Cardinality(A) + Cardinality(B)
    BY <1>2, <1>7, DisjointBranches
  <2>3. Cardinality(A \union B \union C) = Cardinality(A \union B) + Cardinality(C)
    BY <1>2, <2>1, DisjointBranches
  <2>4. Cardinality(A \union B \union C \union D)
          = Cardinality(A \union B \union C) + Cardinality(D)
    BY <1>2, <2>1, DisjointBranches
  <2>5. Cardinality(A \union B \union C \union D \union E)
          = Cardinality(A \union B \union C \union D) + Cardinality(E)
    BY <1>2, <2>1, DisjointBranches
  <2> QED BY <1>6, <2>2, <2>3, <2>4, <2>5
<1>13. \A S \in SUBSET Branch : Cardinality(S) \in Nat
  BY BranchIsFinite, FS_Subset, FS_CardinalityType
<1> QED BY <1>2, <1>3, <1>8, <1>9, <1>10, <1>11, <1>12, <1>13

\* Of what a run lists, its report counts what it did itself, names all it did,
\* and puts every branch in one place: for any number of runs side by side, any
\* moves of users, lost answers and failing calls.
THEOREM ReportAddsUpHolds == Spec => []ReportAddsUp
<1>1. Init => EffectsGood
  BY DEF Init, EffectsGood, NoRun
<1>2. GardenTypeOK /\ RunsGood /\ EffectsGood => ReportAddsUp
  <2> SUFFICES ASSUME GardenTypeOK, RunsGood, EffectsGood,
                      NEW t \in Task, run[t].at = "reporting"
               PROVE  AddsUp(t)
    BY DEF ReportAddsUp
  <2> DEFINE r       == run[t]
             count   == ReportOf(t).count
             section == ReportOf(t).section
  <2>1. PruneBook(PolicyOf(t), r, {}) /\ SurfaceBook(PolicyOf(t), r, {})
    BY DEF RunsGood, RunGood, PlanGood
  <2>2. /\ r.pruned \subseteq cut[t] /\ cut[t] \subseteq r.pruned \union r.spared
        /\ r.surfaced \subseteq raised[t] /\ raised[t] \subseteq r.surfaced \union r.withheld
        /\ faults = 0 => r.pruned = cut[t] /\ r.surfaced = raised[t]
    BY DEF EffectsGood
  <2>3. /\ section.pruned = r.pruned \union r.spared /\ section.surfaced = r.surfaced
        /\ r.withheld \subseteq section.skipped
        /\ count.pruned = Cardinality(r.pruned) /\ count.moved = Cardinality(r.spared)
        /\ count.surfaced = Cardinality(r.surfaced)
    BY <2>1 DEF ReportOf, Section, PruneBook, Part
  <2>4. /\ cut[t] \in SUBSET Branch /\ r.spared \in SUBSET Branch
    BY DEF GardenTypeOK, Run
  <2>5. count.pruned <= Cardinality(cut[t])
    BY <2>2, <2>3, <2>4, BranchIsFinite, FS_Subset
  <2>6. count.moved = 0 => section.pruned = cut[t]
    <3>1. count.moved = 0 => r.spared = {}
      BY <2>3, <2>4, BranchIsFinite, FS_Subset, FS_EmptySet
    <3> QED BY <2>2, <2>3, <3>1
  <2>7. /\ cut[t] \subseteq section.pruned /\ section.surfaced \subseteq raised[t]
        /\ raised[t] \subseteq section.surfaced \union section.skipped
        /\ faults = 0 => /\ count.pruned = Cardinality(cut[t])
                         /\ count.surfaced = Cardinality(raised[t])
    BY <2>2, <2>3
  <2> HIDE DEF count, section
  <2> QED BY <2>1, <2>5, <2>6, <2>7, ReportShares DEF AddsUp, count, section
<1> QED BY <1>1, <1>2, RunsGoodHolds, EffectsGoodKept, PTL DEF Spec
-----------------------------------------------------------------------------
(* The schedule.                                                           *)

\* A pass has recorded every slot of its minute that it is through with.
PassGood ==
  /\ pass.minute <= minute /\ served \subseteq 0..LastMinute
  /\ pass # NoPass =>
       \A s \in Slots(cfg, Installations, pass.minute) \ pass.rest :
         routing[DeliveryOf(s, pass.minute)] = "task"

\* Nothing is ignored, and nothing is deleted, so that what is recorded stays.
Recorded == \A d \in Delivery : routing[d] \in {"unseen", "task"}

Minutes == \A d \in Delivery : d[1] = "schedule" /\ routing[d] = "task" => d[4] \in Nat

ScheduleGood == PassGood /\ Recorded /\ Minutes /\ SlotsServed

LEMMA RoutingStays ==
  ASSUME GardenTypeOK, Recorded, [Next]_vars,
         ~ \E s \in pass.rest : RecordSlot(s), ~ \E d \in Delivery, t \in Task : Commanded(d, t)
  PROVE  UNCHANGED routing
<1>1. CASE RunSteps
  <2>1. PICK t \in Task : RunNext(t)
    BY <1>1 DEF RunSteps
  <2>2. CASE Begin(t)
    BY <2>2 DEF Begin, Claim
  <2>3. CASE Decline(t) \/ Report(t) \/ Fail(t)
    BY <2>3 DEF Decline, Report, Fail, Finish
  <2>4. CASE ListBranches(t) \/ ScanFails(t) \/ MintFails(t)
    BY <2>4 DEF ListBranches, ScanFails, MintFails, OnlyRun, storeVars
  <2>5. ASSUME NEW b \in Branch,
               Compare(t, b) \/ AskPulls(t, b) \/ Recheck(t, b) \/ Spare(t, b)
               \/ Delete(t, b) \/ DeleteFails(t, b) \/ OpenPull(t, b) \/ OpenPullFails(t, b)
        PROVE  UNCHANGED routing
    BY <2>5 DEF Compare, AskPulls, Recheck, Spare, Delete, DeleteFails, OpenPull,
                OpenPullFails, OnlyRun, storeVars
  <2> QED BY <2>1, <2>2, <2>3, <2>4, <2>5 DEF RunNext
<1>2. CASE Crash
  BY <1>2 DEF Crash, Recover
<1>3. CASE ~RunSteps /\ ~Crash
  BY <1>3
  DEF RunSteps, Next, ScheduleNext, Elapse, Tick, SkipDuplicate, CollidingSlot, PassFails,
      UsersNext, Push, Propose, Merge, CloseIt, Users, vars, storeVars
<1> QED BY <1>1, <1>2, <1>3

\* A pass moves on from a slot it has recorded.
LEMMA AdvanceGood ==
  ASSUME GardenTypeOK, ScheduleGood, NEW s \in pass.rest, Advance(s),
         UNCHANGED <<cfg, minute>>,
         routing'[DeliveryOf(s, pass.minute)] = "task",
         \A d \in Delivery : routing[d] = "task" => routing'[d] = "task",
         \A d \in Delivery : routing'[d] = "task" =>
           routing[d] = "task" \/ d = DeliveryOf(s, pass.minute)
  PROVE  PassGood' /\ Minutes' /\ SlotsServed'
<1> DEFINE now == pass.minute
<1>1. /\ pass # NoPass /\ now \in 0..LastMinute /\ cfg \in Configs
      /\ now <= minute /\ minute \in 0..LastMinute /\ served \subseteq 0..LastMinute
  BY SlotsOfPass DEF ScheduleGood, PassGood, GardenTypeOK
<1>2. ASSUME NEW m \in 0..LastMinute, NEW q \in Slots(cfg, Installations, m)
      PROVE  DeliveryOf(q, m) \in Delivery
  BY <1>1, GardenerAssumption
<1>3. \A q \in Slots(cfg, Installations, now) \ (pass.rest \ {s}) :
        routing'[DeliveryOf(q, now)] = "task"
  BY <1>1, <1>2 DEF ScheduleGood, PassGood
<1>4. \A m \in served : \A q \in Slots(cfg, Installations, m) :
        routing'[DeliveryOf(q, m)] = "task"
  BY <1>1, <1>2 DEF ScheduleGood, SlotsServed
<1>5. \A d \in Delivery : d[1] = "schedule" /\ routing'[d] = "task" =>
        d[4] \in Nat /\ d[4] <= minute
  <2>1. DeliveryOf(s, now)[4] = now
    BY DEF DeliveryOf, SlotDelivery
  <2> QED BY <1>1, <2>1 DEF ScheduleGood, Minutes, SlotsServed
<1>6. CASE pass.rest # {s}
  <2>1. /\ pass' = [pass EXCEPT !.rest = @ \ {s}] /\ served' = served
        /\ pass'.minute = now /\ pass'.rest = pass.rest \ {s}
    BY <1>6 DEF Advance, GardenTypeOK
  <2> QED BY <1>1, <1>3, <1>4, <1>5, <2>1 DEF PassGood, Minutes, SlotsServed
<1>7. CASE pass.rest = {s}
  <2>1. pass' = NoPass /\ served' = served \union {now}
    BY <1>7 DEF Advance
  <2>2. \A q \in Slots(cfg, Installations, now) : routing'[DeliveryOf(q, now)] = "task"
    BY <1>3, <1>7
  <2>3. pass'.minute <= minute
    BY <1>1, <2>1, GardenerAssumption DEF NoPass
  <2> QED BY <1>1, <1>4, <1>5, <2>1, <2>2, <2>3 DEF PassGood, Minutes, SlotsServed
<1> QED BY <1>6, <1>7

LEMMA ScheduleGoodKept == GardenTypeOK /\ ScheduleGood /\ [Next]_vars => ScheduleGood'
<1> SUFFICES ASSUME GardenTypeOK, ScheduleGood, [Next]_vars PROVE ScheduleGood'
  OBVIOUS
<1>1. ASSUME NEW s \in pass.rest, RecordSlot(s) PROVE ScheduleGood'
  <2> DEFINE d == DeliveryOf(s, pass.minute)
  <2>1. d \in Delivery /\ UNCHANGED <<cfg, minute>> /\ Advance(s)
        /\ routing' = [routing EXCEPT ![d] = "task"]
    BY <1>1, SlotsOfPass DEF RecordSlot, RecordTask, Pass
  <2> HIDE DEF d
  <2>2. /\ routing'[d] = "task"
        /\ \A e \in Delivery : routing[e] = "task" => routing'[e] = "task"
        /\ \A e \in Delivery : routing'[e] = "task" => routing[e] = "task" \/ e = d
        /\ \A e \in Delivery : routing'[e] \in {"unseen", "task"}
    BY <2>1 DEF GardenTypeOK, StoreTypeOK, ScheduleGood, Recorded
  <2>3. PassGood' /\ Minutes' /\ SlotsServed'
    BY <2>1, <2>2, AdvanceGood DEF d
  <2> QED BY <2>2, <2>3 DEF ScheduleGood, Recorded
<1>2. ASSUME NEW s \in pass.rest, SkipDuplicate(s) PROVE ScheduleGood'
  <2> DEFINE d == DeliveryOf(s, pass.minute)
  <2>1. d \in Delivery /\ UNCHANGED <<cfg, minute, routing>> /\ Advance(s)
        /\ routing[d] # "unseen"
    BY <1>2, SlotsOfPass DEF SkipDuplicate, Pass, storeVars
  <2>2. routing'[d] = "task"
    BY <2>1 DEF ScheduleGood, Recorded
  <2>3. PassGood' /\ Minutes' /\ SlotsServed'
    BY <2>1, <2>2, AdvanceGood
  <2> QED BY <2>1, <2>3 DEF ScheduleGood, Recorded
<1>3. ASSUME NEW d \in Delivery, NEW t \in Task, Commanded(d, t) PROVE ScheduleGood'
  <2>1. /\ routing' = [routing EXCEPT ![d] = "task"] /\ UNCHANGED <<cfg, schedule>>
        /\ d[1] # "schedule"
    BY <1>3 DEF Commanded, RecordTask
  <2>2. /\ \A e \in Delivery : routing[e] = "task" => routing'[e] = "task"
        /\ \A e \in Delivery : routing'[e] = "task" => routing[e] = "task" \/ e = d
        /\ \A e \in Delivery : routing'[e] \in {"unseen", "task"}
    BY <2>1 DEF GardenTypeOK, StoreTypeOK, ScheduleGood, Recorded
  <2>3. cfg \in Configs /\ served \subseteq 0..LastMinute
        /\ (pass # NoPass => pass.minute \in 0..LastMinute)
    <3>1. pass # NoPass => pass.rest # {}
      BY DEF GardenTypeOK, NoPass
    <3> QED BY <3>1, SlotsOfPass DEF ScheduleGood, PassGood, GardenTypeOK
  <2>4. ASSUME NEW m \in 0..LastMinute, NEW q \in Slots(cfg, Installations, m)
        PROVE  DeliveryOf(q, m) \in Delivery
    BY <2>3, GardenerAssumption
  <2>5. PassGood'
    BY <2>1, <2>2, <2>3, <2>4 DEF ScheduleGood, PassGood, schedule
  <2>6. SlotsServed' /\ Minutes'
    BY <2>1, <2>2, <2>3, <2>4 DEF ScheduleGood, SlotsServed, Minutes, schedule
  <2> QED BY <2>2, <2>5, <2>6 DEF ScheduleGood, Recorded
<1>4. CASE /\ ~ \E s \in pass.rest : RecordSlot(s) \/ SkipDuplicate(s)
           /\ ~ \E d \in Delivery, t \in Task : Commanded(d, t)
  <2>1. UNCHANGED routing
    BY <1>4, RoutingStays DEF ScheduleGood
  <2>2. \/ Elapse \/ Tick
        \/ UNCHANGED <<minute, served>> /\ pass' = NoPass
        \/ UNCHANGED schedule
    <3>1. CASE RunSteps
      <4>1. ASSUME NEW t \in Task, RunNext(t) PROVE UNCHANGED schedule
        BY <4>1
        DEF RunNext, Begin, Decline, ListBranches, ScanFails, MintFails, Compare, AskPulls,
            Recheck, Spare, Delete, DeleteFails, OpenPull, OpenPullFails, Report, Fail, OnlyRun
      <4> QED BY <3>1, <4>1 DEF RunSteps
    <3>2. CASE (\E s \in pass.rest : CollidingSlot(s)) \/ PassFails \/ Crash
      BY <3>2 DEF CollidingSlot, PassFails, Pass, Crash
    <3>3. CASE UsersNext \/ UNCHANGED vars
      BY <3>3 DEF UsersNext, Push, Propose, Merge, CloseIt, Users, vars
    <3> QED BY <1>4, <3>1, <3>2, <3>3 DEF RunSteps, Next, ScheduleNext
  <2>3. UNCHANGED cfg
    BY ConfigFixed
  <2>4. minute \in Nat /\ minute' \in {minute, minute + 1} /\ UNCHANGED served
    BY <2>2, GardenerAssumption DEF Elapse, Tick, schedule, GardenTypeOK
  <2>5. PassGood'
    <3>1. CASE Elapse \/ UNCHANGED schedule
      <4>1. UNCHANGED <<pass, served>> /\ pass.minute \in Int /\ pass.minute <= minute
        BY <3>1, GardenerAssumption DEF Elapse, schedule, GardenTypeOK, ScheduleGood, PassGood
      <4> QED BY <2>1, <2>3, <2>4, <4>1 DEF ScheduleGood, PassGood
    <3>2. CASE pass' = NoPass
      BY <2>4, <3>2 DEF ScheduleGood, PassGood, NoPass
    <3>3. CASE Tick
      BY <2>3, <2>4, <3>3 DEF Tick, ScheduleGood, PassGood
    <3> QED BY <2>2, <3>1, <3>2, <3>3
  <2>6. SlotsServed'
    <3>1. ASSUME NEW d \in Delivery, d[1] = "schedule", routing'[d] = "task"
          PROVE  d[4] <= minute'
      <4>1. d[4] <= minute /\ d[4] \in Nat
        BY <2>1, <3>1 DEF ScheduleGood, SlotsServed, Minutes
      <4> QED BY <2>4, <4>1
    <3> QED BY <2>1, <2>3, <2>4, <3>1 DEF ScheduleGood, SlotsServed
  <2> QED BY <2>1, <2>5, <2>6 DEF ScheduleGood, Recorded, Minutes
<1> QED BY <1>1, <1>2, <1>3, <1>4

\* A slot whose minute a pass got through has its run, whatever fails, crashes
\* or was recorded before; and no slot is recorded ahead of its minute.
THEOREM SlotsServedHolds == Spec => []SlotsServed
<1>1. Init => ScheduleGood
  <2> SUFFICES ASSUME Init PROVE ScheduleGood
    OBVIOUS
  <2>1. /\ \A d \in Delivery : routing[d] = "unseen"
        /\ minute = 0 /\ pass = NoPass /\ served = {}
    BY DEF Init, StoreInit
  <2> QED BY <2>1 DEF ScheduleGood, PassGood, Recorded, Minutes, SlotsServed, NoPass
<1>2. ScheduleGood => SlotsServed
  BY DEF ScheduleGood
<1> QED BY <1>1, <1>2, GardenTypeCorrect, ScheduleGoodKept, PTL DEF Spec

-----------------------------------------------------------------------------
(* What a quiet run leaves behind.                                         *)

\* What a compare says of branch b is still so with the tips T.
StillSo(b, f, T) ==
  /\ f.seen = T[b] /\ f.base = T[Main]
  /\ ~f.truncated => f.authors = {Author[c] : c \in T[b] \ T[Main]} \ {"unknown"}

PastCompare(r, b) ==
  \/ r.at \notin {"comparing", "asking"}
  \/ b \notin r.rest
  \/ r.at = "asking" /\ IsNext(r, b)

\* All a run knows of the branches that are left, among the branches A with the
\* tips T and the open pull requests O, is still so; what it pruned or spared is
\* gone, and what it surfaced or withheld is gone or has its pull request.
Current(p, r, A, T, O) ==
  /\ \A b \in r.listed \intersect A :
       /\ r.facts[b].sha = T[b]
       /\ r.facts[b].open => b \in O
       /\ PastCompare(r, b) => Excluded(r.facts[b], p) \/ StillSo(b, r.facts[b], T)
  /\ \A b \in A : b \notin r.pruned \union r.spared
  /\ \A b \in A : b \in r.surfaced \union r.withheld => b \in O

Quiet(t) ==
  run[t].since = moves /\ faults = 0 /\ run[t].at \notin {"idle", "begun", "failing"}

RunsCurrent ==
  \A t \in Task :
    /\ run[t].since <= moves
    /\ Quiet(t) => Current(PolicyOf(t), run[t], alive, tip, opened)

\* Only users and runs change the repository.
LEMMA RepositorySteps ==
  ASSUME GardenTypeOK, [Next]_vars, moves' = moves
  PROVE  \/ UNCHANGED repository
         \/ \E t \in Task, b \in Branch :
              /\ IsNext(run[t], b)
              /\ \/ run[t].at = "deleting" /\ Remove(t, b)
                 \/ run[t].at = "surfacing" /\ Raise(t, b)
<1>1. CASE RunSteps
  <2>1. PICK t \in Task : RunNext(t)
    BY <1>1 DEF RunSteps
  <2>2. CASE \E b \in Branch : Delete(t, b) \/ DeleteFails(t, b)
    BY <2>2 DEF Delete, DeleteFails
  <2>3. CASE \E b \in Branch : OpenPull(t, b) \/ OpenPullFails(t, b)
    BY <2>3 DEF OpenPull, OpenPullFails
  <2>4. CASE \E b \in Branch : Compare(t, b) \/ AskPulls(t, b) \/ Recheck(t, b) \/ Spare(t, b)
    BY <2>4 DEF Compare, AskPulls, Recheck, Spare
  <2>5. CASE Begin(t) \/ Decline(t) \/ ListBranches(t) \/ ScanFails(t) \/ MintFails(t)
               \/ Report(t) \/ Fail(t)
    BY <2>5 DEF Begin, Decline, ListBranches, ScanFails, MintFails, Report, Fail
  <2> QED BY <2>1, <2>2, <2>3, <2>4, <2>5 DEF RunNext
<1>2. CASE UsersNext
  <2>1. moves' = moves + 1 /\ moves \in Nat
    BY <1>2 DEF UsersNext, Push, Propose, Merge, CloseIt, Users, GardenTypeOK
  <2> QED BY <2>1
<1>3. CASE ~RunSteps /\ ~UsersNext
  BY <1>3
  DEF Next, ScheduleNext, RunSteps, Elapse, Tick, RecordSlot, SkipDuplicate, CollidingSlot,
      PassFails, Pass, Commanded, Crash, vars
<1> QED BY <1>1, <1>2, <1>3

\* While the users are quiet a branch can go, but what is left stays as it is
\* and keeps its pull request.
LEMMA QuietRepository ==
  ASSUME GardenTypeOK, RunsGood, [Next]_vars, moves' = moves
  PROVE  /\ alive' \subseteq alive
         /\ \A b \in alive' : tip'[b] = tip[b]
         /\ tip'[Main] = tip[Main]
         /\ \A b \in alive' : b \in opened => b \in opened'
<1>1. CASE UNCHANGED repository
  BY <1>1 DEF repository
<1>2. ASSUME NEW t \in Task, NEW b \in Branch, IsNext(run[t], b), run[t].at = "deleting",
             Remove(t, b)
      PROVE  /\ alive' \subseteq alive
             /\ \A c \in alive' : tip'[c] = tip[c]
             /\ tip'[Main] = tip[Main]
             /\ \A c \in alive' : c \in opened => c \in opened'
  <2>1. b # Main
    BY <1>2, PlannedIsAllowed
  <2> QED BY <1>2, <2>1, GardenerAssumption DEF Remove, GardenTypeOK
<1>3. ASSUME NEW t \in Task, NEW b \in Branch, Raise(t, b)
      PROVE  /\ alive' \subseteq alive
             /\ \A c \in alive' : tip'[c] = tip[c]
             /\ tip'[Main] = tip[Main]
             /\ \A c \in alive' : c \in opened => c \in opened'
  BY <1>3 DEF Raise
<1> QED BY <1>1, <1>2, <1>3, RepositorySteps

LEMMA CurrentStays ==
  ASSUME NEW p, NEW r \in Run, NEW A \in SUBSET Branch, NEW T, NEW O,
         NEW A1 \in SUBSET A, NEW T1, NEW O1,
         Current(p, r, A, T, O),
         \A b \in A1 : T1[b] = T[b],
         T1[Main] = T[Main],
         \A b \in A1 : b \in O => b \in O1
  PROVE  Current(p, r, A1, T1, O1)
<1>1. ASSUME NEW b \in r.listed \intersect A1
      PROVE  /\ r.facts[b].sha = T1[b]
             /\ r.facts[b].open => b \in O1
             /\ PastCompare(r, b) => Excluded(r.facts[b], p) \/ StillSo(b, r.facts[b], T1)
  BY DEF Current, StillSo
<1> QED BY <1>1 DEF Current

\* The plan is carried out on the facts of the scan.
LEMMA CurrentOnward ==
  ASSUME NEW p, NEW r, NEW q, NEW A, NEW T, NEW O,
         Current(p, r, A, T, O),
         q.listed = r.listed, q.facts = r.facts,
         q.pruned = r.pruned, q.spared = r.spared,
         q.surfaced = r.surfaced, q.withheld = r.withheld,
         \A b \in r.listed : PastCompare(q, b) => PastCompare(r, b)
  PROVE  Current(p, q, A, T, O)
BY DEF Current

LEMMA ListCurrent ==
  ASSUME GardenTypeOK, RunsGood, NEW t \in Task, ListBranches(t)
  PROVE  Current(PolicyOf(t), run'[t], alive, tip, opened) /\ run'[t].since = moves
<1> DEFINE p      == PolicyOf(t)
           listed == IF RepoOf[t] = Home THEN alive ELSE {}
           facts  == [b \in Branch |-> IF b \in listed THEN FactOf(b) ELSE NoFact]
           rest   == {b \in listed : ~Excluded(facts[b], PolicyOf(t))}
           r      == [run[t] EXCEPT !.listed = listed, !.facts = facts, !.since = moves]
           on     == IF rest = {} THEN Onward(t, r, {}) ELSE [at |-> "comparing", rest |-> rest]
           q      == Go(r, on)
<1> SUFFICES Current(p, run'[t], alive, tip, opened) /\ run'[t].since = moves
  OBVIOUS
<1>1. run[t] \in Run /\ run[t].at = "begun" /\ PlanGood(p, run[t]) /\ listed \subseteq alive
      /\ alive \subseteq Branch
  BY DEF GardenTypeOK, ListBranches, RunsGood, RunGood
<1>2. run'[t] = q
  BY DEF ListBranches, Set, GardenTypeOK
<1>3. /\ q.listed = listed /\ q.facts = facts /\ q.since = moves /\ q.at = on.at
      /\ q.rest = on.rest
      /\ q.pruned = {} /\ q.spared = {} /\ q.surfaced = {} /\ q.withheld = {}
  BY <1>1 DEF Go, Run, PlanGood
<1>4. \A b \in listed : facts[b].sha = tip[b] /\ ~facts[b].open
  BY <1>1 DEF FactOf
<1>5. \A b \in listed : PastCompare(q, b) => Excluded(facts[b], p)
  <2>1. rest # {} => q.at = "comparing" /\ q.rest = rest
    BY <1>3
  <2> QED BY <2>1 DEF PastCompare
<1> HIDE DEF p, listed, facts, rest, r, on, q
<1> QED BY <1>2, <1>3, <1>4, <1>5 DEF Current

LEMMA CompareCurrent ==
  ASSUME GardenTypeOK, RunsGood, NEW t \in Task, NEW b \in Branch, Compare(t, b),
         Current(PolicyOf(t), run[t], alive, tip, opened)
  PROVE  Current(PolicyOf(t), run'[t], alive, tip, opened) /\ run'[t].since = run[t].since
<1> DEFINE p     == PolicyOf(t)
           ahead == tip[b] \ tip[Main]
<1> SUFFICES Current(p, run'[t], alive, tip, opened) /\ run'[t].since = run[t].since
  OBVIOUS
<1>1. PICK page \in SUBSET ahead :
        Set(t, [run[t] EXCEPT
             !.at = "asking",
             !.facts[b] = [@ EXCEPT
               !.ahead = Cardinality(ahead), !.truncated = page # ahead,
               !.authors = {Author[c] : c \in page} \ {"unknown"},
               !.seen = tip[b], !.base = tip[Main]]])
  BY DEF Compare
<1> DEFINE f == [run[t].facts[b] EXCEPT
               !.ahead = Cardinality(ahead), !.truncated = page # ahead,
               !.authors = {Author[c] : c \in page} \ {"unknown"},
               !.seen = tip[b], !.base = tip[Main]]
           q == [run[t] EXCEPT !.at = "asking", !.facts[b] = f]
<1>2. run[t] \in Run /\ run[t].at = "comparing" /\ IsNext(run[t], b)
  BY DEF GardenTypeOK, Compare
<1>3. run'[t] = q
  BY <1>1 DEF Set, GardenTypeOK
<1>4. f.sha = run[t].facts[b].sha /\ f.open = run[t].facts[b].open /\ StillSo(b, f, tip)
  <2>1. /\ f.sha = run[t].facts[b].sha /\ f.open = run[t].facts[b].open
        /\ f.seen = tip[b] /\ f.base = tip[Main]
        /\ f.authors = {Author[c] : c \in page} \ {"unknown"}
        /\ f.truncated = (page # ahead)
    BY <1>2 DEF Run, Fact
  <2>2. ~f.truncated => page = ahead
    BY <2>1
  <2> HIDE DEF f
  <2> QED BY <2>1, <2>2 DEF StillSo
<1> HIDE DEF f
<1>5. /\ q.at = "asking" /\ q.rest = run[t].rest /\ q.listed = run[t].listed
      /\ q.facts = [run[t].facts EXCEPT ![b] = f] /\ q.since = run[t].since
      /\ q.pruned = run[t].pruned /\ q.spared = run[t].spared
      /\ q.surfaced = run[t].surfaced /\ q.withheld = run[t].withheld
  BY <1>2 DEF Run
<1>6. q.facts[b] = f /\ \A c \in Branch \ {b} : q.facts[c] = run[t].facts[c]
  BY <1>2, <1>5 DEF Run
<1>7. b \in run[t].rest /\ run[t].listed \subseteq Branch
  BY <1>2 DEF IsNext, Run
<1> HIDE DEF p, q
<1>8. \A c \in Branch : IsNext(q, c) => c = b
  <2>1. IsNext(q, b)
    BY <1>2, <1>5 DEF IsNext
  <2> QED BY <2>1, OneIsNext
<1>9. \A c \in run[t].listed : PastCompare(q, c) => c = b \/ PastCompare(run[t], c)
  BY <1>5, <1>7, <1>8 DEF PastCompare
<1>10. ASSUME NEW c \in q.listed \intersect alive
       PROVE  /\ q.facts[c].sha = tip[c]
              /\ q.facts[c].open => c \in opened
              /\ PastCompare(q, c) => Excluded(q.facts[c], p) \/ StillSo(c, q.facts[c], tip)
  <2>1. /\ run[t].facts[c].sha = tip[c]
        /\ run[t].facts[c].open => c \in opened
        /\ PastCompare(run[t], c) =>
             Excluded(run[t].facts[c], p) \/ StillSo(c, run[t].facts[c], tip)
    BY <1>5, <1>10 DEF Current, p
  <2> QED BY <1>4, <1>5, <1>6, <1>7, <1>9, <2>1
<1> QED BY <1>3, <1>5, <1>10 DEF Current, p

LEMMA AskCurrent ==
  ASSUME GardenTypeOK, RunsGood, NEW t \in Task, NEW b \in Branch, AskPulls(t, b),
         Current(PolicyOf(t), run[t], alive, tip, opened)
  PROVE  Current(PolicyOf(t), run'[t], alive, tip, opened) /\ run'[t].since = run[t].since
<1> DEFINE p == PolicyOf(t)
           r == [run[t] EXCEPT !.facts[b].open = b \in opened, !.facts[b].merged = b \in merged]
           q == IF r.rest # {b} THEN [r EXCEPT !.at = "comparing", !.rest = @ \ {b}]
                ELSE Go(r, Onward(t, r, {}))
<1> SUFFICES Current(p, run'[t], alive, tip, opened) /\ run'[t].since = run[t].since
  OBVIOUS
<1>1. run[t] \in Run /\ run[t].at = "asking" /\ IsNext(run[t], b)
  BY DEF GardenTypeOK, AskPulls
<1>2. run'[t] = q
  BY DEF AskPulls, Set, GardenTypeOK
<1>3. /\ r.at = "asking" /\ r.rest = run[t].rest /\ r.listed = run[t].listed
      /\ r.since = run[t].since
      /\ r.pruned = run[t].pruned /\ r.spared = run[t].spared
      /\ r.surfaced = run[t].surfaced /\ r.withheld = run[t].withheld
      /\ r.facts = [run[t].facts EXCEPT ![b].open = b \in opened, ![b].merged = b \in merged]
      /\ DOMAIN r = {"at", "listed", "rest", "facts", "checked", "since", "pruned",
                     "spared", "surfaced", "withheld"}
  BY <1>1 DEF Run
<1>4. \A c \in Branch : /\ r.facts[c].name = run[t].facts[c].name
                        /\ r.facts[c].default = run[t].facts[c].default
                        /\ r.facts[c].protected = run[t].facts[c].protected
                        /\ r.facts[c].sha = run[t].facts[c].sha
                        /\ r.facts[c].seen = run[t].facts[c].seen
                        /\ r.facts[c].base = run[t].facts[c].base
                        /\ r.facts[c].authors = run[t].facts[c].authors
                        /\ r.facts[c].truncated = run[t].facts[c].truncated
                        /\ r.facts[c].open => c \in opened \/ run[t].facts[c].open
  <2>1. run[t].facts \in [Branch -> Fact]
    BY <1>1 DEF Run
  <2> QED BY <1>3, <2>1 DEF Fact
<1>5. run[t].listed \subseteq Branch /\ b \in run[t].rest
  BY <1>1 DEF Run, IsNext
<1>6. \/ q.at = "comparing" /\ q.rest = r.rest \ {b}
      \/ r.rest = {b}
  BY <1>3
<1>7. /\ q.listed = r.listed /\ q.facts = r.facts /\ q.since = r.since
      /\ q.pruned = r.pruned /\ q.spared = r.spared
      /\ q.surfaced = r.surfaced /\ q.withheld = r.withheld
  <2> HIDE DEF r
  <2> QED BY <1>3 DEF Go
<1> HIDE DEF p, r, q
<1>8. \A c \in r.listed : PastCompare(q, c) => PastCompare(run[t], c)
  BY <1>1, <1>3, <1>6 DEF PastCompare
<1>9. ASSUME NEW c \in r.listed \intersect alive
      PROVE  /\ q.facts[c].sha = tip[c]
             /\ q.facts[c].open => c \in opened
             /\ PastCompare(q, c) => Excluded(q.facts[c], p) \/ StillSo(c, q.facts[c], tip)
  <2>1. /\ run[t].facts[c].sha = tip[c]
        /\ run[t].facts[c].open => c \in opened
        /\ PastCompare(run[t], c) =>
             Excluded(run[t].facts[c], p) \/ StillSo(c, run[t].facts[c], tip)
    BY <1>3, <1>9 DEF Current, p
  <2>2. c \in Branch /\ c \in r.listed /\ q.facts[c] = r.facts[c]
    BY <1>3, <1>5, <1>7, <1>9
  <2>3. Excluded(run[t].facts[c], p) => Excluded(q.facts[c], p)
    BY <1>4, <2>2 DEF Excluded
  <2>4. StillSo(c, run[t].facts[c], tip) => StillSo(c, q.facts[c], tip)
    BY <1>4, <2>2 DEF StillSo
  <2>5. q.facts[c].sha = tip[c] /\ (q.facts[c].open => c \in opened)
    BY <1>4, <2>1, <2>2
  <2> QED BY <1>8, <2>1, <2>2, <2>3, <2>4, <2>5
<1> QED BY <1>2, <1>3, <1>7, <1>9 DEF Current, p

LEMMA RecheckCurrent ==
  ASSUME GardenTypeOK, NEW t \in Task, NEW b \in Branch, Recheck(t, b),
         Current(PolicyOf(t), run[t], alive, tip, opened)
  PROVE  Current(PolicyOf(t), run'[t], alive, tip, opened) /\ run'[t].since = run[t].since
<1> DEFINE q == [run[t] EXCEPT !.at = "deleting", !.checked = tip[b]]
<1>1. run[t] \in Run /\ run[t].at = "pruning" /\ run'[t] = q
  BY DEF Recheck, Set, GardenTypeOK
<1>2. /\ q.listed = run[t].listed /\ q.facts = run[t].facts /\ q.since = run[t].since
      /\ q.pruned = run[t].pruned /\ q.spared = run[t].spared
      /\ q.surfaced = run[t].surfaced /\ q.withheld = run[t].withheld
  BY <1>1 DEF Run
<1>3. \A c : PastCompare(run[t], c)
  BY <1>1 DEF PastCompare
<1> HIDE DEF q
<1> QED BY <1>1, <1>2, <1>3, CurrentOnward

\* A branch to surface, if it is still there, has commits to surface.
LEMMA SurfaceRaises ==
  ASSUME GardenTypeOK, RunsGood, NEW t \in Task, NEW b \in alive, run[t].at = "surfacing",
         b \in run[t].rest, Current(PolicyOf(t), run[t], alive, tip, opened)
  PROVE  ~(tip[b] \subseteq tip[Main])
<1> DEFINE p == PolicyOf(t)
           r == run[t]
           f == r.facts[b]
<1>1. /\ b \in Branch /\ r \in Run /\ PlanGood(p, r) /\ b \in r.listed
      /\ Fate(f, p) = "surface"
  BY DEF GardenTypeOK, RunsGood, RunGood, PlanGood, SurfaceBook, Part
<1>2. f \in Fact
  BY <1>1 DEF Run
<1>3. f.ahead # 0 /\ ~Excluded(f, p)
  BY <1>1, <1>2 DEF Fate, Class, Fact
<1>4. f.ahead = Cardinality(f.seen \ f.base)
  BY <1>1, <1>3 DEF PlanGood, PlanBase, Planned, Judged, Compared
<1>5. f.seen = tip[b] /\ f.base = tip[Main]
  BY <1>1, <1>3 DEF Current, PastCompare, StillSo
<1>6. f.seen \ f.base # {}
  BY <1>3, <1>4, FS_EmptySet
<1> QED BY <1>5, <1>6

LEMMA ExecuteCurrent ==
  ASSUME GardenTypeOK, RunsGood, [Next]_vars, moves' = moves, faults' = 0,
         NEW t \in Task, NEW b \in Branch,
         Spare(t, b) \/ Delete(t, b) \/ DeleteFails(t, b) \/ OpenPull(t, b) \/ OpenPullFails(t, b),
         Current(PolicyOf(t), run[t], alive, tip, opened)
  PROVE  /\ Current(PolicyOf(t), run'[t], alive', tip', opened')
         /\ run'[t].since = run[t].since
<1> DEFINE p == PolicyOf(t)
           r == run[t]
<1>1. PICK q \in {[r EXCEPT !.spared = @ \union {b}], [r EXCEPT !.pruned = @ \union {b}],
                  [r EXCEPT !.surfaced = @ \union {b}], [r EXCEPT !.withheld = @ \union {b}]} :
        /\ run' = [run EXCEPT ![t] = DoneWith(t, b, q)]
        /\ IsNext(r, b) /\ r.at \in {"pruning", "deleting", "surfacing"}
        /\ \/ q \in {[r EXCEPT !.spared = @ \union {b}], [r EXCEPT !.pruned = @ \union {b}]}
              /\ (Spare(t, b) \/ Delete(t, b) \/ DeleteFails(t, b))
           \/ q \in {[r EXCEPT !.surfaced = @ \union {b}], [r EXCEPT !.withheld = @ \union {b}]}
              /\ (OpenPull(t, b) \/ OpenPullFails(t, b))
  BY DEF Spare, Delete, DeleteFails, OpenPull, OpenPullFails, Set
<1>2. r \in Run /\ b \in r.rest /\ alive \in SUBSET Branch
  BY <1>1 DEF GardenTypeOK, IsNext
<1>3. b \in r.listed
  BY <1>2 DEF RunsGood, RunGood, ScanGood
<1>4. Current(p, r, alive', tip', opened')
  BY <1>2, QuietRepository, CurrentStays
<1>5. ~Fails
  BY DEF Fails, GardenTypeOK
<1>6. Spare(t, b) \/ Delete(t, b) \/ DeleteFails(t, b) => b \notin alive'
  <2>1. b \in alive => r.facts[b].sha = tip[b]
    BY <1>3 DEF Current
  <2>2. Spare(t, b) => b \notin alive /\ UNCHANGED alive
    BY <1>5, <2>1 DEF Spare, repository
  <2>3. DeleteFails(t, b) => b \notin alive /\ UNCHANGED alive
    BY <1>5 DEF DeleteFails, repository
  <2>4. Delete(t, b) => b \notin alive'
    BY DEF Delete, Remove
  <2> QED BY <2>2, <2>3, <2>4
<1>7. OpenPull(t, b) \/ OpenPullFails(t, b) => (b \in alive' => b \in opened')
  <2>1. OpenPull(t, b) => b \in opened'
    BY DEF OpenPull, Raise
  <2>2. OpenPullFails(t, b) => ~Raisable(b) /\ UNCHANGED <<alive, opened>> /\ r.at = "surfacing"
    BY <1>5 DEF OpenPullFails, repository
  <2>3. ~Raisable(b) /\ r.at = "surfacing" => b \notin alive \/ b \in opened
    BY <1>2, SurfaceRaises DEF Raisable
  <2> QED BY <2>1, <2>2, <2>3
<1>8. /\ q \in Run /\ q.at = r.at /\ q.listed = r.listed /\ q.facts = r.facts
      /\ q.since = r.since /\ q.rest = r.rest
      /\ \/ /\ q.pruned \union q.spared = r.pruned \union r.spared \union {b}
            /\ q.surfaced = r.surfaced /\ q.withheld = r.withheld
            /\ (Spare(t, b) \/ Delete(t, b) \/ DeleteFails(t, b))
         \/ /\ q.surfaced \union q.withheld = r.surfaced \union r.withheld \union {b}
            /\ q.pruned = r.pruned /\ q.spared = r.spared
            /\ (OpenPull(t, b) \/ OpenPullFails(t, b))
  BY <1>1, <1>2 DEF Run
<1> HIDE DEF p, r
<1>9. \A c : PastCompare(r, c)
  BY <1>1 DEF PastCompare
<1>10. Current(p, q, alive', tip', opened')
  BY <1>4, <1>6, <1>7, <1>8, <1>9 DEF Current
<1> DEFINE s == DoneWith(t, b, q)
<1>11. /\ s.listed = q.listed /\ s.facts = q.facts /\ s.since = q.since
       /\ s.pruned = q.pruned /\ s.spared = q.spared
       /\ s.surfaced = q.surfaced /\ s.withheld = q.withheld
  BY <1>8 DEF DoneWith, Go, Run
<1>12. \A c : PastCompare(q, c)
  BY <1>1, <1>8 DEF PastCompare
<1>13. run'[t] = s
  BY <1>1 DEF GardenTypeOK
<1> HIDE DEF s
<1>14. Current(p, s, alive', tip', opened')
  BY <1>10, <1>11, <1>12, CurrentOnward
<1> QED BY <1>8, <1>11, <1>13, <1>14 DEF p, r

\* How a step leaves the run of t and the number of moves.
LEMMA SinceStays ==
  ASSUME GardenTypeOK, [Next]_vars, NEW t \in Task
  PROVE  /\ moves' \in {moves, moves + 1}
         /\ moves' # moves => run'[t] = run[t]
         /\ ~RunNext(t) => run'[t] = run[t] \/ run'[t] = NoRun
<1>1. CASE RunNext(t)
  BY <1>1
  DEF RunNext, Begin, Decline, ListBranches, ScanFails, MintFails, Compare, AskPulls, Recheck,
      Spare, Delete, DeleteFails, OpenPull, OpenPullFails, Report, Fail, OnlyRun
<1>2. ASSUME NEW u \in Task, u # t, RunNext(u)
      PROVE  run'[t] = run[t] /\ moves' = moves
  <2>1. run'[t] = run[t]
    BY <1>2, OthersStay
  <2>2. moves' = moves
    BY <1>2
    DEF RunNext, Begin, Decline, ListBranches, ScanFails, MintFails, Compare, AskPulls, Recheck,
        Spare, Delete, DeleteFails, OpenPull, OpenPullFails, Report, Fail, OnlyRun
  <2> QED BY <2>1, <2>2
<1>3. CASE UsersNext
  BY <1>3 DEF UsersNext, Push, Propose, Merge, CloseIt, Users
<1>4. CASE Crash
  BY <1>4 DEF Crash
<1>5. CASE ~RunSteps /\ ~UsersNext /\ ~Crash
  BY <1>5
  DEF Next, ScheduleNext, RunSteps, Elapse, Tick, RecordSlot, SkipDuplicate, CollidingSlot,
      PassFails, Pass, Commanded, vars
<1> QED BY <1>1, <1>2, <1>3, <1>4, <1>5 DEF RunSteps

LEMMA SinceOfRun ==
  ASSUME GardenTypeOK, NEW t \in Task, RunNext(t)
  PROVE  \/ run'[t].at \in {"idle", "begun", "failing"} /\ run'[t].since \in {0, run[t].since}
         \/ ListBranches(t)
         \/ \E b \in Branch : Compare(t, b) \/ AskPulls(t, b) \/ Recheck(t, b)
         \/ \E b \in Branch : Spare(t, b) \/ Delete(t, b) \/ DeleteFails(t, b)
                              \/ OpenPull(t, b) \/ OpenPullFails(t, b)
<1>1. CASE Begin(t) \/ Decline(t) \/ Report(t) \/ Fail(t)
  <2>1. run'[t] \in {NoRun, [NoRun EXCEPT !.at = "begun"]}
    BY <1>1 DEF Begin, Decline, Report, Fail, Set, GardenTypeOK
  <2> QED BY <2>1 DEF NoRun
<1>2. CASE ScanFails(t) \/ MintFails(t)
  <2>1. run[t] \in Run /\ run'[t] = [run[t] EXCEPT !.at = "failing", !.rest = {}]
    BY <1>2 DEF ScanFails, MintFails, Set, GardenTypeOK
  <2> QED BY <2>1 DEF Run
<1> QED BY <1>1, <1>2 DEF RunNext

\* Executing keeps the moment the run began to look.
LEMMA ExecuteSince ==
  ASSUME GardenTypeOK, NEW t \in Task, NEW b \in Branch,
         Spare(t, b) \/ Delete(t, b) \/ DeleteFails(t, b) \/ OpenPull(t, b) \/ OpenPullFails(t, b)
  PROVE  run'[t].since = run[t].since
<1>1. run[t] \in Run
  BY DEF GardenTypeOK
<1>2. PICK q \in {[run[t] EXCEPT !.spared = @ \union {b}], [run[t] EXCEPT !.pruned = @ \union {b}],
                  [run[t] EXCEPT !.surfaced = @ \union {b}],
                  [run[t] EXCEPT !.withheld = @ \union {b}]} :
        run'[t] = DoneWith(t, b, q)
  BY DEF Spare, Delete, DeleteFails, OpenPull, OpenPullFails, Set, GardenTypeOK
<1>3. q \in Run /\ q.since = run[t].since
  BY <1>1, <1>2 DEF Run
<1>4. DoneWith(t, b, q).since = q.since
  BY <1>3 DEF DoneWith, Go, Run
<1> QED BY <1>2, <1>3, <1>4

LEMMA ScanSince ==
  ASSUME GardenTypeOK, NEW t \in Task, NEW b \in Branch,
         Compare(t, b) \/ AskPulls(t, b) \/ Recheck(t, b)
  PROVE  run'[t].since = run[t].since
<1>1. run[t] \in Run
  BY DEF GardenTypeOK
<1>2. CASE Compare(t, b)
  <2>1. \E f : run'[t] = [run[t] EXCEPT !.at = "asking", !.facts[b] = f]
    BY <1>2 DEF Compare, Set, GardenTypeOK
  <2> QED BY <1>1, <2>1 DEF Run
<1>3. CASE Recheck(t, b)
  <2>1. run'[t] = [run[t] EXCEPT !.at = "deleting", !.checked = tip[b]]
    BY <1>3 DEF Recheck, Set, GardenTypeOK
  <2> QED BY <1>1, <2>1 DEF Run
<1>4. CASE AskPulls(t, b)
  <2> DEFINE r == [run[t] EXCEPT !.facts[b].open = b \in opened,
                                 !.facts[b].merged = b \in merged]
  <2>1. /\ r.since = run[t].since
        /\ DOMAIN r = {"at", "listed", "rest", "facts", "checked", "since", "pruned",
                       "spared", "surfaced", "withheld"}
    BY <1>1 DEF Run
  <2>2. \/ run'[t] = [r EXCEPT !.at = "comparing", !.rest = @ \ {b}]
        \/ run'[t] = Go(r, Onward(t, r, {}))
    BY <1>4 DEF AskPulls, Set, GardenTypeOK
  <2> HIDE DEF r
  <2> QED BY <2>1, <2>2 DEF Go
<1> QED BY <1>2, <1>3, <1>4

LEMMA RunsCurrentKept ==
  GardenTypeOK /\ RunsGood /\ RunsCurrent /\ [Next]_vars => RunsCurrent'
<1> SUFFICES ASSUME GardenTypeOK, RunsGood, RunsCurrent, [Next]_vars, NEW t \in Task
             PROVE  /\ run'[t].since <= moves'
                    /\ Quiet(t)' => Current(PolicyOf(t)', run'[t], alive', tip', opened')
  BY DEF RunsCurrent
<1>1. /\ run[t].since <= moves /\ run[t] \in Run /\ moves \in Nat
      /\ Quiet(t) => Current(PolicyOf(t), run[t], alive, tip, opened)
  BY DEF RunsCurrent, GardenTypeOK
<1>2. run[t].since \in Nat /\ alive \in SUBSET Branch /\ UNCHANGED cfg
  BY <1>1, ConfigFixed DEF Run, GardenTypeOK
<1>3. PolicyOf(t)' = PolicyOf(t)
  BY <1>2 DEF PolicyOf
<1> DEFINE Kept == Current(PolicyOf(t), run'[t], alive', tip', opened')
<1> SUFFICES run'[t].since <= moves' /\ (Quiet(t)' => Kept)
  BY <1>3
<1>4. CASE ~RunNext(t) /\ run'[t] = NoRun
  BY <1>1, <1>4, SinceStays DEF NoRun, Quiet
<1>5. CASE run'[t] = run[t]
  <2>1. run'[t].since <= moves'
    BY <1>1, <1>2, <1>5, SinceStays
  <2>2. ASSUME Quiet(t)' PROVE Kept
    <3>1. moves' = moves /\ faults = 0 /\ Quiet(t)
      BY <1>1, <1>2, <1>5, <2>2, SinceStays, NoFaultBefore DEF Quiet
    <3> QED BY <1>1, <1>2, <1>5, <3>1, QuietRepository, CurrentStays
  <2> QED BY <2>1, <2>2
<1>6. CASE RunNext(t) /\ run'[t] # run[t]
  <2>1. moves' = moves
    BY <1>1, <1>6, SinceStays
  <2>2. CASE /\ run'[t].at \in {"idle", "begun", "failing"}
             /\ run'[t].since \in {0, run[t].since}
    BY <1>1, <1>2, <2>1, <2>2 DEF Quiet
  <2>3. CASE ListBranches(t)
    <3>1. UNCHANGED <<alive, tip, opened>>
      BY <2>3 DEF ListBranches, repository
    <3> QED BY <1>1, <2>1, <2>3, <3>1, ListCurrent
  <2>4. ASSUME NEW b \in Branch, Compare(t, b) \/ AskPulls(t, b) \/ Recheck(t, b)
        PROVE  run'[t].since <= moves' /\ (Quiet(t)' => Kept)
    <3>1. run'[t].since = run[t].since
      BY <2>4, ScanSince
    <3>2. UNCHANGED <<alive, tip, opened>>
      BY <2>4 DEF Compare, AskPulls, Recheck, repository
    <3>3. Quiet(t)' => Quiet(t)
      BY <2>1, <2>4, <3>1, NoFaultBefore DEF Quiet, Compare, AskPulls, Recheck
    <3>4. Quiet(t) => Current(PolicyOf(t), run'[t], alive, tip, opened)
      BY <1>1, <2>4, CompareCurrent, AskCurrent, RecheckCurrent
    <3> QED BY <1>1, <2>1, <3>1, <3>2, <3>3, <3>4
  <2>5. ASSUME NEW b \in Branch,
               Spare(t, b) \/ Delete(t, b) \/ DeleteFails(t, b)
               \/ OpenPull(t, b) \/ OpenPullFails(t, b)
        PROVE  run'[t].since <= moves' /\ (Quiet(t)' => Kept)
    <3>1. run'[t].since = run[t].since
      BY <2>5, ExecuteSince
    <3>2. Quiet(t)' => Quiet(t) /\ faults' = 0
      BY <2>1, <2>5, <3>1, NoFaultBefore
      DEF Quiet, Spare, Delete, DeleteFails, OpenPull, OpenPullFails
    <3>3. Quiet(t)' => Kept
      BY <1>1, <2>1, <2>5, <3>2, ExecuteCurrent
    <3> QED BY <1>1, <2>1, <3>1, <3>3
  <2> QED BY <1>6, <2>2, <2>3, <2>4, <2>5, SinceOfRun
<1> QED BY <1>4, <1>5, <1>6, SinceStays

\* The facts of a quiet run that has come to its report decide its repository.
LEMMA QuietIsTidy == GardenTypeOK /\ RunsGood /\ RunsCurrent => TidyAfterQuietRun
<1> SUFFICES ASSUME GardenTypeOK, RunsGood, RunsCurrent,
                    NEW t \in Task, run[t].at = "reporting", run[t].since = moves, faults = 0,
                    NEW b \in run[t].listed, ~Excluded(run[t].facts[b], PolicyOf(t)),
                    b \in alive \ opened
             PROVE  LET authors == {Author[c] : c \in tip[b] \ tip[Main]} IN
                    /\ "human" \notin authors
                    /\ authors # {} => "bot" \in authors
                    /\ PolicyOf(t).prunes => authors # {}
  BY DEF TidyAfterQuietRun
<1> DEFINE p == PolicyOf(t)
           r == run[t]
           f == r.facts[b]
           ahead == tip[b] \ tip[Main]
           authors == {Author[c] : c \in ahead}
<1>1. Current(p, r, alive, tip, opened)
  BY DEF RunsCurrent, Quiet
<1>2. StillSo(b, f, tip) /\ ~f.open
  BY <1>1 DEF Current, PastCompare
<1>3. PlanGood(p, r) /\ r \in Run /\ b \in Branch
  BY DEF RunsGood, RunGood, GardenTypeOK
<1>4. f \in Fact
  BY <1>3 DEF Run
<1>5. f.ahead = Cardinality(ahead)
  BY <1>2, <1>3 DEF PlanGood, PlanBase, Planned, Judged, Compared, StillSo
<1>6. ahead \subseteq Commit /\ IsFiniteSet(ahead)
  <2>1. ahead \subseteq Commit
    BY <1>3 DEF GardenTypeOK
  <2> QED BY <2>1, FS_Subset, GardenerAssumption
<1>7. b \notin r.pruned \union r.spared /\ b \notin r.surfaced \union r.withheld
  BY <1>1 DEF Current
<1>8. Fate(f, p) # "prune" /\ Fate(f, p) # "surface"
  BY <1>3, <1>7 DEF PlanGood, PruneBook, SurfaceBook, Part
<1>9. CASE f.ahead = 0
  <2>1. ahead = {}
    BY <1>5, <1>6, <1>9, FS_EmptySet
  <2>2. Class(f, p) \in {"merged", "dead"}
    BY <1>2, <1>4, <1>9 DEF Class, Fact
  <2>3. ~p.prunes
    BY <1>8, <2>2 DEF Fate
  <2> QED BY <2>1, <2>3
<1>10. CASE f.ahead # 0
  <2>1. ahead # {}
    BY <1>5, <1>10, FS_EmptySet
  <2>2. Class(f, p) = "prless"
    BY <1>2, <1>4, <1>10 DEF Class, Fact
  <2>3. BotOnly(f)
    BY <1>8, <2>2 DEF Fate
  <2>4. authors \ {"unknown"} = f.authors
    BY <1>2, <2>3 DEF BotOnly, StillSo
  <2>5. "human" \notin authors
    BY <2>3, <2>4 DEF BotOnly
  <2>6. "bot" \in authors
    <3>1. PICK login \in f.authors : login = "bot"
      BY <2>3 DEF BotOnly
    <3> QED BY <2>4, <3>1
  <2> QED BY <2>5, <2>6
<1> QED BY <1>9, <1>10

\* A run that no user disturbed and no call failed leaves no branch in its care
\* with a human's commits and no pull request, nor, where it may prune, one
\* without commits of its own: for any branches, and any other runs beside it.
THEOREM TidyAfterQuietRunHolds == Spec => []TidyAfterQuietRun
<1>1. Init => RunsCurrent
  BY DEF Init, RunsCurrent, Quiet, NoRun
<1> QED BY <1>1, RunsGoodHolds, RunsCurrentKept, QuietIsTidy, PTL DEF Spec
=============================================================================
