------------------------------- MODULE Gardener -------------------------------
(***************************************************************************)
(* The Branch Gardener as a concurrent program: the schedule that enqueues *)
(* runs, minute by minute (worker/gardener_schedule.rs), and the runs      *)
(* (worker/gardener_exec.rs), each a sequence of GitHub calls, with the    *)
(* users of the repository, another run of the same repository, failing    *)
(* calls and a crash between any two of them.                              *)
(*                                                                         *)
(* A branch is the set of the commits it reaches, which is also its sha.   *)
(* GitHub is as the code uses it: a compare and a re-check go by the name  *)
(* of the branch, a delete names no sha, one branch has one open pull      *)
(* request, and a deleted branch closes it.  Comments and check runs are   *)
(* StatusComment's and TaskExecution's; who may command a run TaskQueue's. *)
(***************************************************************************)
EXTENDS TaskStore, GardenPlan

CONSTANTS
  Configs,       \* the gardener sections to start with
  Installations, \* the [[installations]] blocks, in order
  RepoOf,        \* RepoOf[t]: the repository of run t
  Home,          \* the one repository with branches
  Branches,      \* its branch names in the order GitHub lists them
  Main,          \* its default branch
  Protected,     \* its protected branches
  Commit,        \* the commits there may be
  Author,        \* Author[c]: "bot", "human", or "unknown" to GitHub
  Tips,          \* the branches' commits to start with
  PageOfCommits, \* the commits a compare lists at most
  Pushes,        \* bound: the pushes users may make, <<branch, commits>>
  LastMinute,    \* bound: the minutes of a behaviour
  MaxFaults,     \* bound: failing calls and crashes
  MaxTrouble     \* bound: these and what users do to the repository

Branch == {Branches[n] : n \in DOMAIN Branches}

\* The places of the slots, and what the pass of minute m records for one.
Slot == (DOMAIN Installations) \X (DOMAIN RepoOrder)
DeliveryOf(s, m) == SlotDelivery(Installations[s[1]].id, RepoOrder[s[2]], m)
TaskOf(s, m)     == SlotTask(Installations[s[1]].id, RepoOrder[s[2]], m)

ASSUME GardenerAssumption ==
  /\ RepoOf \in [Task -> Repo] /\ Home \in Repo
  /\ Branches \in Seq(Branch)
  /\ Main \in Branch /\ Protected \subseteq Branch
  /\ IsFiniteSet(Commit)
  /\ Author \in [Commit -> {"bot", "human", "unknown"}]
  /\ \A start \in Tips : start \in [Branch -> SUBSET Commit]
  /\ PageOfCommits \in Nat
  /\ Pushes \subseteq Branch \X SUBSET Commit
  /\ LastMinute \in Nat /\ MaxFaults \in Nat /\ MaxTrouble \in Nat
  /\ \A c \in Configs, m \in 0..LastMinute : \A s \in Slots(c, Installations, m) :
       DeliveryOf(s, m) \in Delivery /\ TaskOf(s, m) \in Task

VARIABLES
  cfg,    \* the [gardener] section the process was started with
  minute, \* the wall clock
  pass,   \* the slots the ticking task has still to record
  alive,  \* the branches there are
  tip,    \* tip[b]: the commits of b
  opened, \* the branches with an open pull request
  merged, \* the branches with a merged one
  run,    \* run[t]: what the executor of t has seen and done
  moves, faults

\* Observations no code makes: the minutes a pass got through, and the effects
\* run t had, whatever answer it got.
VARIABLES served, cut, raised

repository == <<alive, tip, opened, merged>>
schedule   == <<minute, pass, served>>
effects    == <<cut, raised>>
vars == <<storeVars, cfg, schedule, repository, run, moves, faults, effects>>

NoPass == [minute |-> -1, rest |-> {}]

\* What is known of a branch before the scan.
NoFact == [name |-> Main, default |-> FALSE, protected |-> FALSE, sha |-> {}, ahead |-> 0,
           authors |-> {}, truncated |-> FALSE, open |-> FALSE, merged |-> FALSE,
           seen |-> {}, base |-> {}]

\* listed: the branches of the scan; rest: those this part of the run has still
\* to deal with; since: the moves of users before it.  Of pruned and spared the
\* code keeps the numbers only; surfaced and withheld are entries of its plan.
NoRun == [at |-> "idle", listed |-> {}, rest |-> {}, facts |-> [b \in Branch |-> NoFact],
          checked |-> {}, since |-> 0,
          pruned |-> {}, spared |-> {}, surfaced |-> {}, withheld |-> {}]

Stage == {"idle", "begun", "comparing", "asking", "pruning", "deleting",
          "surfacing", "reporting", "failing"}

Fact == [name : Branch, default : BOOLEAN, protected : BOOLEAN, sha : SUBSET Commit,
         ahead : Nat, authors : SUBSET {"bot", "human"}, truncated : BOOLEAN,
         open : BOOLEAN, merged : BOOLEAN, seen : SUBSET Commit, base : SUBSET Commit]

Run == [at : Stage, listed : SUBSET Branch, rest : SUBSET Branch, facts : [Branch -> Fact],
        checked : SUBSET Commit, since : Nat,
        pruned : SUBSET Branch, spared : SUBSET Branch,
        surfaced : SUBSET Branch, withheld : SUBSET Branch]

GardenTypeOK ==
  /\ StoreTypeOK
  /\ cfg \in Configs
  /\ minute \in 0..LastMinute
  /\ pass \in [minute : -1..LastMinute, rest : SUBSET Slot]
  /\ pass.minute = -1 <=> pass.rest = {}
  /\ pass.rest \subseteq Slots(cfg, Installations, pass.minute)
  /\ alive \subseteq Branch /\ opened \subseteq Branch /\ merged \subseteq Branch
  /\ tip \in [Branch -> SUBSET Commit]
  /\ moves \in 0..MaxTrouble /\ faults \in 0..MaxFaults
  /\ cut \in [Task -> SUBSET Branch] /\ raised \in [Task -> SUBSET Branch]
  /\ run \in [Task -> Run]

-----------------------------------------------------------------------------
(* What a run has found out. *)

PolicyOf(t) == Policy(cfg, RepoOf[t])

FateOf(t, b) == Fate(run[t].facts[b], PolicyOf(t))

\* The branches of a section of the plan.
Section(t, r, fate) == {b \in r.listed : Fate(r.facts[b], PolicyOf(t)) = fate}

\* They are dealt with in the order GitHub listed them.
IsNext(r, b) ==
  /\ b \in r.rest
  /\ \A m, n \in DOMAIN Branches : Branches[n] = b /\ Branches[m] \in r.rest => n <= m

\* Where the run goes when this part of the plan is done.
Onward(t, r, done) ==
  LET prune   == IF "prune" \in done THEN {} ELSE Section(t, r, "prune")
      surface == IF "surface" \in done THEN {} ELSE Section(t, r, "surface")
  IN CASE prune # {}                  -> [at |-> "pruning", rest |-> prune]
       [] prune = {} /\ surface # {}  -> [at |-> "surfacing", rest |-> surface]
       [] prune = {} /\ surface = {}  -> [at |-> "reporting", rest |-> {}]

Set(t, r) == run' = [run EXCEPT ![t] = r]

Go(r, on) == [r EXCEPT !.at = on.at, !.rest = on.rest]

\* The run is through with b.
DoneWith(t, b, r) ==
  IF r.rest # {b}
    THEN [r EXCEPT !.rest = @ \ {b}, !.at = IF @ = "deleting" THEN "pruning" ELSE @]
    ELSE Go(r, Onward(t, r, IF r.at = "surfacing" THEN {"prune", "surface"} ELSE {"prune"}))

-----------------------------------------------------------------------------

Init ==
  /\ StoreInit
  /\ cfg \in Configs
  /\ minute = 0
  /\ pass = NoPass
  /\ served = {}
  /\ tip \in Tips
  /\ alive = Branch
  /\ opened = {}
  /\ merged = {}
  /\ run = [t \in Task |-> NoRun]
  /\ moves = 0
  /\ faults = 0
  /\ cut = [t \in Task |-> {}]
  /\ raised = [t \in Task |-> {}]

OnlyRun   == UNCHANGED <<storeVars, cfg, schedule, moves>>
Succeeds  == UNCHANGED faults
Fails     == /\ faults < MaxFaults /\ moves + faults < MaxTrouble
             /\ faults' = faults + 1

-----------------------------------------------------------------------------
(* The schedule: run and enqueue_due_gardener_runs. *)

\* The clock, followed as far as the schedule has something left to do.
Elapse ==
  /\ \E m \in minute + 1..LastMinute : Slots(cfg, Installations, m) # {}
  /\ minute' = minute + 1
  /\ UNCHANGED <<storeVars, cfg, pass, served, repository, run, moves, faults, effects>>

\* The clock is read once, before the pass.
Tick ==
  /\ pass = NoPass
  /\ Slots(cfg, Installations, minute) # {}
  /\ pass' = [minute |-> minute, rest |-> Slots(cfg, Installations, minute)]
  /\ UNCHANGED <<storeVars, cfg, minute, served, repository, run, moves, faults, effects>>

Pass == UNCHANGED <<cfg, minute, repository, run, moves, effects>>

Advance(s) ==
  IF pass.rest # {s}
    THEN pass' = [pass EXCEPT !.rest = @ \ {s}] /\ UNCHANGED served
    ELSE pass' = NoPass /\ served' = served \union {pass.minute}

\* record_delivery of the slot: a new task, or a duplicate that changes nothing.
RecordSlot(s) ==
  /\ IsFirst(s, pass.rest)
  /\ RecordTask(DeliveryOf(s, pass.minute), TaskOf(s, pass.minute))
  /\ Advance(s) /\ Pass /\ Succeeds

\* Wrong on purpose: a slot recorded before ends the pass.
EndAtDuplicate(s) ==
  /\ IsFirst(s, pass.rest)
  /\ routing[DeliveryOf(s, pass.minute)] # "unseen"
  /\ pass' = NoPass /\ served' = served \union {pass.minute}
  /\ UNCHANGED storeVars
  /\ Pass /\ Succeeds

SkipDuplicate(s) ==
  /\ IsFirst(s, pass.rest)
  /\ routing[DeliveryOf(s, pass.minute)] # "unseen"
  /\ UNCHANGED storeVars
  /\ Advance(s) /\ Pass /\ Succeeds

\* The insert fails: the task id is taken by another repository's run.  The
\* transaction rolls back, and the error ends the whole pass.
CollidingSlot(s) ==
  /\ IsFirst(s, pass.rest)
  /\ routing[DeliveryOf(s, pass.minute)] = "unseen"
  /\ Source[TaskOf(s, pass.minute)] # DeliveryOf(s, pass.minute)
  /\ Present(TaskOf(s, pass.minute))
  /\ pass' = NoPass
  /\ UNCHANGED <<storeVars, served>>
  /\ Pass /\ Succeeds

PassFails ==
  /\ pass # NoPass
  /\ pass' = NoPass
  /\ UNCHANGED <<storeVars, served>>
  /\ Pass /\ Fails

\* A maintainer's command, through the webhook.
Commanded(d, t) ==
  /\ d[1] = "webhook"
  /\ RecordTask(d, t)
  /\ UNCHANGED <<cfg, schedule, repository, run, moves, faults, effects>>

-----------------------------------------------------------------------------
(* The scan: scan_garden_branches, then the plan. *)

Begin(t) ==
  /\ Claim(t)
  /\ Set(t, [NoRun EXCEPT !.at = "begun"])
  /\ cut' = [cut EXCEPT ![t] = {}] /\ raised' = [raised EXCEPT ![t] = {}]
  /\ UNCHANGED <<cfg, schedule, repository, moves, faults>>

\* The gardener is off for the repository.
Decline(t) ==
  /\ run[t].at = "begun"
  /\ ~PolicyOf(t).enabled
  /\ Finish(t, "completed")
  /\ Set(t, NoRun)
  /\ UNCHANGED <<cfg, schedule, repository, moves, faults, effects>>

FactOf(b) ==
  [name |-> b, default |-> b = Main, protected |-> b \in Protected, sha |-> tip[b],
   ahead |-> 0, authors |-> {}, truncated |-> FALSE, open |-> FALSE, merged |-> FALSE,
   seen |-> tip[b], base |-> tip[Main]]

\* get_repo and list_branches; the excluded branches are looked at no further.
ListBranches(t) ==
  /\ run[t].at = "begun"
  /\ PolicyOf(t).enabled
  /\ LET listed == IF RepoOf[t] = Home THEN alive ELSE {}
         facts  == [b \in Branch |-> IF b \in listed THEN FactOf(b) ELSE NoFact]
         rest   == {b \in listed : ~Excluded(facts[b], PolicyOf(t))}
         r      == [run[t] EXCEPT !.listed = listed, !.facts = facts, !.since = moves]
     IN Set(t, IF rest = {} THEN Go(r, Onward(t, r, {}))
               ELSE Go(r, [at |-> "comparing", rest |-> rest]))
  /\ OnlyRun /\ Succeeds /\ UNCHANGED <<repository, effects>>

\* compare of the default branch with b, by name: what is ahead now, and the
\* authors of the commits that fit the page.
Compare(t, b) ==
  LET ahead == tip[b] \ tip[Main]
  IN /\ run[t].at = "comparing" /\ IsNext(run[t], b)
     /\ b \in alive
     /\ \E page \in SUBSET ahead :
          /\ Cardinality(page) = IF Cardinality(ahead) < PageOfCommits
                                   THEN Cardinality(ahead) ELSE PageOfCommits
          /\ Set(t, [run[t] EXCEPT
               !.at = "asking",
               !.facts[b] = [@ EXCEPT
                 !.ahead = Cardinality(ahead), !.truncated = page # ahead,
                 !.authors = {Author[c] : c \in page} \ {"unknown"},
                 !.seen = tip[b], !.base = tip[Main]]])
     /\ OnlyRun /\ Succeeds /\ UNCHANGED <<repository, effects>>

\* list_pulls_by_head.  After the last branch the plan is made.
AskPulls(t, b) ==
  LET r == [run[t] EXCEPT !.facts[b].open = b \in opened, !.facts[b].merged = b \in merged]
  IN /\ run[t].at = "asking" /\ IsNext(run[t], b)
     /\ Set(t, IF r.rest # {b}
                 THEN [r EXCEPT !.at = "comparing", !.rest = @ \ {b}]
                 ELSE Go(r, Onward(t, r, {})))
     /\ OnlyRun /\ Succeeds /\ UNCHANGED <<repository, effects>>

\* A scan error is the run's: a failing call, or a branch gone since the list.
ScanFails(t) ==
  /\ run[t].at \in {"begun", "comparing", "asking"}
  /\ run[t].at = "begun" => PolicyOf(t).enabled
  /\ IF run[t].at = "comparing" /\ \E b \in Branch \ alive : IsNext(run[t], b)
       THEN Succeeds ELSE Fails
  /\ Set(t, [run[t] EXCEPT !.at = "failing", !.rest = {}])
  /\ OnlyRun /\ UNCHANGED <<repository, effects>>

-----------------------------------------------------------------------------
(* The execution: execute_garden_plan and the end of execute_garden_run. *)

\* Wrong on purpose: the branch is taken to be where it was.
RecheckTrusting(t, b) ==
  /\ run[t].at = "pruning" /\ IsNext(run[t], b)
  /\ Set(t, [run[t] EXCEPT !.at = "deleting", !.checked = tip[b]])
  /\ OnlyRun /\ Succeeds /\ UNCHANGED <<repository, effects>>

\* The branch is where the list saw it.
Recheck(t, b) ==
  /\ run[t].at = "pruning" /\ IsNext(run[t], b)
  /\ b \in alive /\ tip[b] = run[t].facts[b].sha
  /\ Set(t, [run[t] EXCEPT !.at = "deleting", !.checked = tip[b]])
  /\ OnlyRun /\ Succeeds /\ UNCHANGED <<repository, effects>>

\* It moved, it is gone, or the call failed: the branch is spared.
Spare(t, b) ==
  /\ run[t].at = "pruning" /\ IsNext(run[t], b)
  /\ IF b \in alive /\ tip[b] = run[t].facts[b].sha THEN Fails ELSE Succeeds
  /\ Set(t, DoneWith(t, b, [run[t] EXCEPT !.spared = @ \union {b}]))
  /\ OnlyRun /\ UNCHANGED <<repository, effects>>

Remove(t, b) ==
  /\ alive' = alive \ {b}
  /\ tip' = [tip EXCEPT ![b] = {}]
  /\ opened' = opened \ {b}
  /\ cut' = [cut EXCEPT ![t] = @ \union {b}]
  /\ UNCHANGED <<merged, raised>>

\* Wrong on purpose: a branch already gone counts as pruned.
DeleteOrGone(t, b) ==
  /\ run[t].at = "deleting" /\ IsNext(run[t], b)
  /\ IF b \in alive THEN Remove(t, b) ELSE UNCHANGED <<repository, effects>>
  /\ Set(t, DoneWith(t, b, [run[t] EXCEPT !.pruned = @ \union {b}]))
  /\ OnlyRun /\ Succeeds

Delete(t, b) ==
  /\ run[t].at = "deleting" /\ IsNext(run[t], b)
  /\ b \in alive
  /\ Remove(t, b)
  /\ Set(t, DoneWith(t, b, [run[t] EXCEPT !.pruned = @ \union {b}]))
  /\ OnlyRun /\ Succeeds

\* The branch is gone, the call failed, or its answer was lost.
DeleteFails(t, b) ==
  /\ run[t].at = "deleting" /\ IsNext(run[t], b)
  /\ IF b \in alive THEN Fails ELSE Succeeds
  /\ \/ UNCHANGED <<repository, effects>>
     \/ b \in alive /\ Remove(t, b)
  /\ Set(t, DoneWith(t, b, [run[t] EXCEPT !.spared = @ \union {b}]))
  /\ OnlyRun

\* What GitHub opens a pull request for.
Raisable(b) == b \in alive \ opened /\ ~(tip[b] \subseteq tip[Main])

Raise(t, b) ==
  /\ opened' = opened \union {b}
  /\ raised' = [raised EXCEPT ![t] = @ \union {b}]
  /\ UNCHANGED <<alive, tip, merged, cut>>

OpenPull(t, b) ==
  /\ run[t].at = "surfacing" /\ IsNext(run[t], b)
  /\ Raisable(b)
  /\ Raise(t, b)
  /\ Set(t, DoneWith(t, b, [run[t] EXCEPT !.surfaced = @ \union {b}]))
  /\ OnlyRun /\ Succeeds

\* Refused, failed, or opened with the answer lost: reported as withheld.
OpenPullFails(t, b) ==
  /\ run[t].at = "surfacing" /\ IsNext(run[t], b)
  /\ IF Raisable(b) THEN Fails ELSE Succeeds
  /\ \/ UNCHANGED <<repository, effects>>
     \/ Raisable(b) /\ Raise(t, b)
  /\ Set(t, DoneWith(t, b, [run[t] EXCEPT !.withheld = @ \union {b}]))
  /\ OnlyRun

\* No AgentGit token before the first re-check, or no Publication token before
\* the first pull request: the run fails, whatever it has pruned by then.
MintFails(t) ==
  /\ \/ run[t].at = "pruning" /\ run[t].pruned \union run[t].spared = {}
     \/ run[t].at = "surfacing" /\ run[t].surfaced \union run[t].withheld = {}
  /\ Set(t, [run[t] EXCEPT !.at = "failing", !.rest = {}])
  /\ OnlyRun /\ Fails /\ UNCHANGED <<repository, effects>>

\* The report: the plan as the execution left it, and the execution's counters.
\* The section of the pruned branches is the planned one, whatever became of
\* them: only the two counts tell.  A branch whose pull request was not opened
\* has moved to the skipped ones.  The counts left out are lengths of sections.
ReportOf(t) ==
  LET r == run[t] IN
  [count   |-> [pruned |-> Cardinality(r.pruned), moved |-> Cardinality(r.spared),
                surfaced |-> Cardinality(r.surfaced),
                active |-> Cardinality(Section(t, r, "active"))],
   section |-> [pruned     |-> Section(t, r, "prune"),
                wouldPrune |-> Section(t, r, "would prune"),
                surfaced   |-> r.surfaced,
                skipped    |-> Section(t, r, "skipped") \union r.withheld]]

\* finish_garden with the report, and its summary line.
Report(t) ==
  /\ run[t].at = "reporting"
  /\ Finish(t, "completed")
  /\ Set(t, NoRun)
  /\ UNCHANGED <<cfg, schedule, repository, moves, faults, effects>>

\* finish_failed_garden_run.
Fail(t) ==
  /\ run[t].at = "failing"
  /\ Finish(t, "failed")
  /\ Set(t, NoRun)
  /\ UNCHANGED <<cfg, schedule, repository, moves, faults, effects>>

\* The process dies and boots: what ran is requeued or given up.
Crash ==
  /\ Recover
  /\ run' = [t \in Task |-> NoRun]
  /\ pass' = NoPass
  /\ Fails
  /\ UNCHANGED <<cfg, minute, served, repository, moves, effects>>

-----------------------------------------------------------------------------
(* The users of the repository. *)

Users ==
  /\ moves + faults < MaxTrouble
  /\ moves' = moves + 1
  /\ UNCHANGED <<storeVars, cfg, schedule, run, faults, effects>>

\* A push, a force-push or a new branch.
Push(b, commits) ==
  /\ b \notin alive \/ tip[b] # commits
  /\ tip' = [tip EXCEPT ![b] = commits]
  /\ alive' = alive \union {b}
  /\ Users /\ UNCHANGED <<opened, merged>>

\* The pull request of b is opened, merged or closed.
Propose(b) ==
  /\ b # Main /\ Raisable(b)
  /\ opened' = opened \union {b}
  /\ Users /\ UNCHANGED <<alive, tip, merged>>

Merge(b) ==
  /\ b \in opened
  /\ tip' = [tip EXCEPT ![Main] = @ \union tip[b]]
  /\ opened' = opened \ {b}
  /\ merged' = merged \union {b}
  /\ Users /\ UNCHANGED alive

CloseIt(b) ==
  /\ b \in opened
  /\ opened' = opened \ {b}
  /\ Users /\ UNCHANGED <<alive, tip, merged>>

-----------------------------------------------------------------------------

ScheduleNext ==
  \/ Elapse \/ Tick
  \/ \E s \in pass.rest : RecordSlot(s) \/ SkipDuplicate(s) \/ CollidingSlot(s)
  \/ PassFails

RunNext(t) ==
  \/ Begin(t) \/ Decline(t) \/ ListBranches(t) \/ ScanFails(t) \/ MintFails(t)
  \/ \E b \in Branch :
       \/ Compare(t, b) \/ AskPulls(t, b)
       \/ Recheck(t, b) \/ Spare(t, b) \/ Delete(t, b) \/ DeleteFails(t, b)
       \/ OpenPull(t, b) \/ OpenPullFails(t, b)
  \/ Report(t) \/ Fail(t)

UsersNext ==
  \/ \E push \in Pushes : Push(push[1], push[2])
  \/ \E b \in Branch : Propose(b) \/ Merge(b) \/ CloseIt(b)

Next ==
  \/ ScheduleNext
  \/ \E d \in Delivery, t \in Task : Commanded(d, t)
  \/ \E t \in Task : RunNext(t)
  \/ Crash
  \/ UsersNext

Spec == Init /\ [][Next]_vars

-----------------------------------------------------------------------------
(* Properties. *)

\* A deletion that loses commits the default branch does not have is a race
\* with a user, never a judgement on old facts: the branch was pushed after the
\* re-check, or it was away from the listed commit while it was compared, or the
\* default branch has been rewound since.  (docs/branch-gardener.md promises
\* that no such branch is ever deleted; the re-check narrows the race to these.)
LossIsARace(t) ==
  \A b \in alive \ alive' :
    LET fact == run[t].facts[b] IN
    ~(tip[b] \subseteq tip[Main]) =>
      \/ tip[b] # run[t].checked
      \/ fact.seen # fact.sha
      \/ ~(fact.base \subseteq tip[Main])

LossesAreRaces == [][\A t \in Task : cut'[t] # cut[t] /\ cut'[t] # {} => LossIsARace(t)]_vars

\* Whatever the users and other runs do meanwhile, the gardener neither deletes
\* nor opens a pull request for the default branch, a protected one or one that
\* the policy excludes, and where the policy only proposes it deletes nothing.
WithinPolicy ==
  \A t \in Task :
    /\ \A b \in cut[t] \union raised[t] :
         b \notin {Main} \union Protected
         /\ \A pattern \in PolicyOf(t).exclude : ~Matches(b, pattern)
    /\ cut[t] # {} => PolicyOf(t).prunes
    /\ cut[t] \union raised[t] # {} => PolicyOf(t).enabled

\* The report of run t holds against what the run did.
AddsUp(t) ==
  LET count   == ReportOf(t).count
      section == ReportOf(t).section
  IN /\ count.pruned <= Cardinality(cut[t])
     /\ cut[t] \subseteq section.pruned
     /\ count.pruned + count.moved = Cardinality(section.pruned)
     /\ count.moved = 0 => section.pruned = cut[t]
     /\ section.surfaced \subseteq raised[t]
     /\ raised[t] \subseteq section.surfaced \union section.skipped
     /\ Cardinality(section.pruned) + Cardinality(section.wouldPrune)
          + Cardinality(section.surfaced) + Cardinality(section.skipped) + count.active
          = Cardinality(run[t].listed)
     /\ faults = 0 => /\ count.pruned = Cardinality(cut[t])
                      /\ count.surfaced = Cardinality(raised[t])

\* A report counts no deletion that its run did not make, though another run of
\* the repository may make those it planned, and lists every one it made, also
\* where the answer was lost; the two counts share out the list, so that with
\* none spared the list is what the run deleted.  It lists as surfaced only what
\* it opened itself, and what it opened as surfaced or skipped.  Every branch of
\* the scan is in one place of it, and without a failure the counts are exact.
ReportAddsUp == \A t \in Task : run[t].at = "reporting" => AddsUp(t)

\* A run during which no user did anything and nothing failed leaves the
\* repository tidy, another run beside it or not: every branch in its care has a
\* pull request that has a commit of a human ahead, or commits none of which is
\* known to be a bot's, and under a pruning policy no branch is left without a
\* commit ahead and without a pull request.  (A bot's commit among commits whose
\* authors GitHub does not know keeps a branch back: the code passes over these.)
TidyAfterQuietRun ==
  \A t \in Task :
    run[t].at = "reporting" /\ run[t].since = moves /\ faults = 0 =>
      \A b \in run[t].listed :
        ~Excluded(run[t].facts[b], PolicyOf(t)) /\ b \in alive \ opened =>
          LET authors == {Author[c] : c \in tip[b] \ tip[Main]} IN
          /\ "human" \notin authors
          /\ authors # {} => "bot" \in authors
          /\ PolicyOf(t).prunes => authors # {}

\* A slot whose minute a pass got through has its run (a pass that meets two
\* names which are one to sanitize_id never gets through), and no slot has a run
\* before its minute.
SlotsServed ==
  /\ \A m \in served : \A s \in Slots(cfg, Installations, m) :
       routing[DeliveryOf(s, m)] = "task"
  /\ \A d \in Delivery : d[1] = "schedule" /\ routing[d] = "task" => d[4] <= minute

=============================================================================
