--------------------------- MODULE TaskExecution ---------------------------
(***************************************************************************)
(* One task that needs a session, from its row to what GitHub shows of it: *)
(* execute_task and run_and_publish of crates/worker, the retry of         *)
(* coven-code, the workspace it runs in, and the surfaces it publishes on. *)
(* TaskQueue abstracts all of it to a stage; QueueSpec below says so.      *)
(*                                                                         *)
(* Every call to GitHub may fail, and a failed call may have taken effect. *)
(* The process may die between any two steps; the sessions it started need *)
(* not die with it.  A task has one workspace, keyed by its id, so the     *)
(* attempt after a crash runs in the leftovers of the one before.          *)
(***************************************************************************)
EXTENDS Naturals, FiniteSets

CONSTANTS
  TaskKind,   \* "fix", or "review" of a pull request
  Backend,    \* "host" process, or "container" started by the docker CLI
  Verdicts,   \* is review.publish set to "request_changes"
  MaxRetries, \* worker.max_retries
  Reported,   \* bound: the results a session may write
  ExitCodes,  \* bound: how a session may end; 2 is every end but 0, 1 and 3
  Flaky,      \* bound: the calls that may fail
  MaxHead     \* bound: the last commit anybody pushes

Status == {"success", "partial", "failure", "needs_input"}

\* What may fail, in the order an attempt calls it.
Call == {"preflight", "provision", "announce", "token", "launch", "head", "open",
         "remove", "finish", "verdict", "comment", "conclude"}

ASSUME ExecutionAssumption ==
  /\ TaskKind \in {"fix", "review"}
  /\ Backend \in {"host", "container"}
  /\ Verdicts \in BOOLEAN
  /\ MaxRetries \in Nat
  /\ Reported \subseteq [status: Status \union {"unusable"}, changes: BOOLEAN]
  /\ ExitCodes \subseteq 0 .. 3
  /\ Flaky \subseteq Call
  /\ MaxHead \in Nat \ {0}

MaxAttempts == MaxRetries + 1

VARIABLES
  up, row, claims, outcome,               \* the process, the row, the outcome of its last attempt
  pc, target, tries, ending, report,      \* the executor
  exitCode,                               \* and the exit code its session reported with
  workspace, file, live,                  \* the disk, and the coven-code processes alive
  head, checks, comment, prs, verdicts,   \* GitHub
  endHead, spawns, crashed, lost, dirty, unkilled  \* what happened, for the properties

queueVars   == <<up, row, claims, outcome>>
runVars     == <<pc, target, tries, ending, report, exitCode>>
sessionVars == <<workspace, file, live>>
githubVars  == <<head, checks, comment, prs, verdicts>>
pastVars    == <<endHead, spawns, crashed, lost, dirty, unkilled>>
vars        == <<queueVars, runVars, sessionVars, githubVars, pastVars>>

Claim   == 1 .. MaxAttempts
Session == Claim \X (0 .. MaxRetries)   \* the try of a claim that started it

\* result.json: who wrote it, whether it keeps the contract and, if so, what it
\* reports, and whether it names a branch with commits.
NoResult == [by |-> <<0, 0>>, status |-> "none", changes |-> FALSE]
Result   == [by: Session, status: Status \union {"unusable"}, changes: BOOLEAN]

Terminal   == {"completed", "failed", "superseded"}
\* "stale" is the code's neutral with the title Stale.
Conclusion == {"success", "neutral", "failure", "action_required", "stale"}

Preflight == {"claimed", "gated", "resolved"}
Working   == {"created", "provisioned", "announced", "launching", "running",
              "judging", "publishing", "cleanup", "finishing"}
Surfacing == {"verdict", "commenting", "concluding"}

ExecutionTypeOK ==
  /\ up \in BOOLEAN
  /\ row \in {"absent", "queued", "running"} \union Terminal
  /\ claims \in 0 .. MaxAttempts
  /\ outcome \in {"none", "open", "interrupted"} \union Terminal
  /\ pc \in {"none"} \union Preflight \union Working \union Surfacing
  /\ target \in Nat
  /\ tries \in 0 .. MaxRetries
  /\ ending \in {"none", "error", "stale", "result"}
  /\ report \in Result \union {NoResult}
  /\ exitCode \in 0 .. 3
  /\ workspace \in BOOLEAN
  /\ file \in Result \union {NoResult}
  /\ live \subseteq Session
  /\ head \in Nat
  /\ checks \in [Claim -> {"none", "queued", "in_progress"} \union Conclusion]
  /\ comment \in {"none", "starting", "done", "needs_input", "failed",
                  "superseded", "unopened"}
  /\ prs \subseteq Claim
  /\ verdicts \subseteq [of: Claim, reviewed: Nat, on: Nat]
  /\ endHead \in Nat
  /\ spawns \in Nat
  /\ crashed \subseteq Claim
  /\ lost \subseteq Claim
  /\ dirty \in BOOLEAN
  /\ unkilled \in BOOLEAN

Current == <<claims, tries>>

Fail(call) == call \in Flaky

\* A best-effort update: v becomes new, unless the call fails.
Try(call, v, new) == {new} \union (IF Fail(call) THEN {v} ELSE {})

Init ==
  /\ up = TRUE /\ row = "absent" /\ claims = 0 /\ outcome = "none"
  /\ pc = "none" /\ target = 0 /\ tries = 0 /\ ending = "none"
  /\ report = NoResult /\ exitCode = 0
  /\ workspace = FALSE /\ file = NoResult /\ live = {}
  /\ head = 1 /\ checks = [c \in Claim |-> "none"] /\ comment = "none"
  /\ prs = {} /\ verdicts = {}
  /\ endHead = 0 /\ spawns = 0 /\ crashed = {} /\ lost = {}
  /\ dirty = FALSE /\ unkilled = FALSE

-----------------------------------------------------------------------------
(* The row, as TaskQueue knows it. *)

Record ==
  /\ up /\ row = "absent"
  /\ row' = "queued"
  /\ UNCHANGED <<up, claims, outcome, runVars, sessionVars, githubVars, pastVars>>

ClaimRow ==
  /\ up /\ row = "queued" /\ pc = "none"
  /\ row' = "running" /\ claims' = claims + 1 /\ outcome' = "open"
  /\ pc' = "claimed" /\ target' = 0 /\ tries' = 0 /\ ending' = "none"
  /\ report' = NoResult /\ exitCode' = 0
  /\ endHead' = 0
  /\ UNCHANGED <<up, sessionVars, githubVars, spawns, crashed, lost, dirty, unkilled>>

\* store.finish(..).await.ok(): the terminal write, or its error dropped.
FinishRow(s) ==
  /\ \/ row' = s /\ outcome' = s
     \/ Fail("finish") /\ UNCHANGED <<row, outcome>>
  /\ UNCHANGED <<up, claims>>

-----------------------------------------------------------------------------
(* Pre-flight. *)

At(s)  == up /\ pc = s
Goto(s) == pc' = s /\ UNCHANGED <<target, tries, ending, report, exitCode>>

PassGate ==
  /\ At("claimed")
  /\ Goto("gated")
  /\ UNCHANGED <<queueVars, sessionVars, githubVars, pastVars>>

ResolveTargets ==
  /\ At("gated")
  /\ pc' = "resolved" /\ target' = head
  /\ UNCHANGED <<tries, ending, report, exitCode>>
  /\ UNCHANGED <<queueVars, sessionVars, githubVars, pastVars>>

CreateCheck ==
  /\ At("resolved")
  /\ checks' = [checks EXCEPT ![claims] = "queued"]
  /\ Goto("created")
  /\ UNCHANGED <<queueVars, sessionVars, head, comment, prs, verdicts, pastVars>>

\* Any of the three failed.  The Check Run may exist although the call that
\* creates it did not answer.
PreflightFails ==
  /\ up /\ pc \in Preflight /\ Fail("preflight")
  /\ FinishRow("failed")
  /\ Goto("none")
  /\ \/ UNCHANGED <<checks, lost>>
     \/ /\ pc = "resolved"
        /\ checks' = [checks EXCEPT ![claims] = "queued"]
        /\ lost' = lost \union {claims}
  /\ UNCHANGED <<sessionVars, head, comment, prs, verdicts>>
  /\ UNCHANGED <<endHead, spawns, crashed, dirty, unkilled>>

-----------------------------------------------------------------------------
(* run_and_publish. *)

\* `?` in run_and_publish: the error is carried to the finalization.
Fails ==
  /\ pc' = "cleanup" /\ ending' = "error"
  /\ UNCHANGED <<target, tries, report, exitCode>>

\* create_dir_all keeps what a workspace of that name already holds.  The disk,
\* the list of changed files or the brief may fail.
Provision ==
  /\ At("created")
  /\ \/ workspace' = TRUE /\ Goto("provisioned")
     \/ Fail("provision") /\ workspace' \in {workspace, TRUE} /\ Fails
  /\ UNCHANGED <<queueVars, file, live, githubVars, pastVars>>

\* The start comment and the progress of the Check Run, both best-effort.
Announce ==
  /\ At("provisioned")
  /\ comment' \in Try("announce", comment, "starting")
  /\ checks' \in Try("announce", checks, [checks EXCEPT ![claims] = "in_progress"])
  /\ Goto("announced")
  /\ UNCHANGED <<queueVars, sessionVars, head, prs, verdicts, pastVars>>

MintAgentToken ==
  /\ At("announced")
  /\ Goto("launching") \/ (Fail("token") /\ Fails)
  /\ UNCHANGED <<queueVars, sessionVars, githubVars, pastVars>>

\* Wrong on purpose: the attempts of the loop are not counted.
RetrySafeUncounted == Goto("launching")

\* Attempt::RetrySafe in run_session_with_backoff.
RetrySafe ==
  IF tries < MaxRetries
    THEN /\ pc' = "launching" /\ tries' = tries + 1
         /\ UNCHANGED <<target, ending, report, exitCode>>
    ELSE Fails

\* result.json is left where it is, whoever wrote it.
Launch ==
  /\ At("launching")
  /\ live' = live \union {Current}
  /\ spawns' = spawns + 1
  /\ Goto("running")
  /\ UNCHANGED <<queueVars, workspace, file, githubVars>>
  /\ UNCHANGED <<endHead, crashed, lost, dirty, unkilled>>

LaunchFails ==
  /\ At("launching") /\ Fail("launch")
  /\ RetrySafe
  /\ UNCHANGED <<queueVars, sessionVars, githubVars, pastVars>>

Usable(f) == f.status \in Status

\* read_result after exit 0, 1 or 3.  The code itself is not looked at again.
SessionExits(code) ==
  /\ At("running")
  /\ Current \in live
  /\ live' = live \ {Current}
  /\ IF code \in {0, 1, 3} /\ Usable(file)
       THEN /\ pc' = "judging" /\ ending' = "result"
            /\ report' = file /\ exitCode' = code
            /\ endHead' = head
            /\ UNCHANGED <<target, tries>>
       ELSE RetrySafe /\ UNCHANGED endHead
  /\ UNCHANGED <<queueVars, workspace, file, githubVars>>
  /\ UNCHANGED <<spawns, crashed, lost, dirty, unkilled>>

\* Wrong on purpose: the child is awaited without a deadline.
TimeoutNever == FALSE /\ UNCHANGED vars

\* Wrong on purpose: the child is given up, not killed.
TimeoutNoKill ==
  /\ At("running")
  /\ RetrySafe
  /\ UNCHANGED <<queueVars, sessionVars, githubVars, pastVars>>

\* The child is killed.  The child of the container backend is the docker CLI;
\* `docker kill` stops the container, unless it fails.
Timeout ==
  /\ At("running")
  /\ \/ live' = live \ {Current} /\ UNCHANGED unkilled
     \/ Backend = "container" /\ UNCHANGED live /\ unkilled' = TRUE
  /\ RetrySafe
  /\ UNCHANGED <<queueVars, workspace, file, githubVars>>
  /\ UNCHANGED <<endHead, spawns, crashed, lost, dirty>>

\* Wrong on purpose: the head is not fetched again.
StaleGateOpen ==
  /\ At("judging")
  /\ Goto("publishing")
  /\ UNCHANGED <<queueVars, sessionVars, githubVars, pastVars>>

\* A review is worth something only for the head it reviewed.
StaleGate ==
  /\ At("judging")
  /\ \/ TaskKind = "fix" /\ Goto("publishing")
     \/ TaskKind = "review" /\ head = target /\ Goto("publishing")
     \/ /\ TaskKind = "review" /\ head # target
        /\ pc' = "cleanup" /\ ending' = "stale"
        /\ UNCHANGED <<target, tries, report, exitCode>>
     \/ TaskKind = "review" /\ Fail("head") /\ Fails
  /\ UNCHANGED <<queueVars, sessionVars, githubVars, pastVars>>

\* Wrong on purpose: a branch is enough.
WantsPrOfFailure == report.changes

WantsPr == report.changes /\ report.status \in {"success", "partial"}

\* open_draft_pr, best-effort; the failure is posted on the status comment.
OpenPullRequest ==
  /\ At("publishing")
  /\ IF WantsPr
       THEN \/ prs' = prs \union {claims} /\ UNCHANGED comment
            \/ /\ Fail("open")
               /\ prs' \in {prs, prs \union {claims}}
               /\ comment' \in Try("comment", comment, "unopened")
       ELSE UNCHANGED <<prs, comment>>
  /\ Goto("cleanup")
  /\ UNCHANGED <<queueVars, sessionVars, head, checks, verdicts, pastVars>>

-----------------------------------------------------------------------------
(* Back in execute_task: finalization. *)

\* Wrong on purpose: a failed task keeps its workspace.
CleanUpOnSuccess ==
  /\ At("cleanup")
  /\ workspace' = (ending = "error" /\ workspace)
  /\ Goto("finishing")
  /\ UNCHANGED <<queueVars, file, live, githubVars, pastVars>>

\* remove_dir_all; a failure is logged and audited.
CleanUp ==
  /\ At("cleanup")
  /\ \/ workspace' = FALSE /\ file' = NoResult /\ UNCHANGED dirty
     \/ /\ workspace /\ Fail("remove")
        /\ dirty' = TRUE /\ file' \in {file, NoResult} /\ UNCHANGED workspace
  /\ Goto("finishing")
  /\ UNCHANGED <<queueVars, live, githubVars>>
  /\ UNCHANGED <<endHead, spawns, crashed, lost, unkilled>>

\* Wrong on purpose: whatever was published counts as completed.
TerminalStatePublished ==
  CASE ending = "error"  -> "failed"
    [] ending = "stale"  -> "superseded"
    [] ending = "result" -> "completed"

TerminalState ==
  CASE ending = "error"  -> "failed"
    [] ending = "stale"  -> "superseded"
    [] ending = "result" -> IF report.status = "failure" THEN "failed" ELSE "completed"

FinishRun ==
  /\ At("finishing")
  /\ FinishRow(TerminalState)
  /\ Goto("verdict")
  /\ UNCHANGED <<sessionVars, githubVars, pastVars>>

\* A review carries no commit id: GitHub attaches it to the head it finds.
SubmitVerdict ==
  /\ At("verdict")
  /\ IF TaskKind = "review" /\ ending = "result" /\ Verdicts
       THEN verdicts' \in Try("verdict", verdicts,
              verdicts \union {[of |-> claims, reviewed |-> target, on |-> head]})
       ELSE UNCHANGED verdicts
  /\ Goto("commenting")
  /\ UNCHANGED <<queueVars, sessionVars, head, checks, comment, prs, pastVars>>

FinalComment ==
  CASE ending = "error"  -> "failed"
    [] ending = "stale"  -> "superseded"
    [] ending = "result" ->
         CASE report.status = "failure"     -> "failed"
           [] report.status = "needs_input" -> "needs_input"
           [] OTHER                         -> "done"

\* Wrong on purpose: an error of the status comment ends the task.
CommentOrReturn ==
  /\ At("commenting")
  /\ \/ comment' = FinalComment /\ Goto("concluding")
     \/ Fail("comment") /\ UNCHANGED comment /\ Goto("none")
  /\ UNCHANGED <<queueVars, sessionVars, head, checks, prs, verdicts, pastVars>>

Comment ==
  /\ At("commenting")
  /\ comment' \in Try("comment", comment, FinalComment)
  /\ Goto("concluding")
  /\ UNCHANGED <<queueVars, sessionVars, head, checks, prs, verdicts, pastVars>>

CheckConclusion ==
  CASE ending = "error"  -> "failure"
    [] ending = "stale"  -> "stale"
    [] ending = "result" ->
         CASE report.status = "success"     -> "success"
           [] report.status = "partial"     -> "neutral"
           [] report.status = "failure"     -> "failure"
           [] report.status = "needs_input" -> "action_required"

\* A failure is logged; nobody tries again.
Conclude ==
  /\ At("concluding")
  /\ \/ checks' = [checks EXCEPT ![claims] = CheckConclusion] /\ UNCHANGED lost
     \/ Fail("conclude") /\ UNCHANGED checks /\ lost' = lost \union {claims}
  /\ Goto("none")
  /\ UNCHANGED <<queueVars, sessionVars, head, comment, prs, verdicts>>
  /\ UNCHANGED <<endHead, spawns, crashed, dirty, unkilled>>

\* What the executor does by itself, its timer included.
OwnStep ==
  \/ PassGate \/ ResolveTargets \/ CreateCheck \/ PreflightFails
  \/ Provision \/ Announce \/ MintAgentToken
  \/ Launch \/ LaunchFails \/ Timeout
  \/ StaleGate \/ OpenPullRequest
  \/ CleanUp \/ FinishRun \/ SubmitVerdict \/ Comment \/ Conclude

ExecutorStep == OwnStep \/ \E code \in ExitCodes : SessionExits(code)

-----------------------------------------------------------------------------
(* The others. *)

Push ==
  /\ head < MaxHead
  /\ head' = head + 1
  /\ UNCHANGED <<queueVars, runVars, sessionVars, checks, comment, prs, verdicts, pastVars>>

\* A session alive, awaited or not, writes result.json.
WriteResult(s) ==
  /\ s \in live
  /\ workspace
  /\ \E r \in Reported :
       file' = [by |-> s, status |-> r.status, changes |-> r.changes]
  /\ UNCHANGED <<queueVars, runVars, workspace, live, githubVars, pastVars>>

\* A session nobody waits for comes to its end.
StrayEnds(s) ==
  /\ s \in live
  /\ ~(At("running") /\ s = Current)
  /\ live' = live \ {s}
  /\ UNCHANGED <<queueVars, runVars, workspace, file, githubVars, pastVars>>

\* The executor is gone; its child processes and containers may live on.
Crash ==
  /\ up
  /\ up' = FALSE
  /\ live' \in SUBSET live
  /\ crashed' = IF pc = "none" THEN crashed ELSE crashed \union {claims}
  /\ Goto("none")
  /\ UNCHANGED <<row, claims, outcome, workspace, file, githubVars>>
  /\ UNCHANGED <<endHead, spawns, lost, dirty, unkilled>>

\* Wrong on purpose: a crash-looping task is always tried again.
GivesUpNever == FALSE

GivesUp == claims >= MaxAttempts

\* recover_interrupted.
Restart ==
  /\ ~up
  /\ up' = TRUE
  /\ row' = CASE row = "running" /\ GivesUp  -> "failed"
              [] row = "running" /\ ~GivesUp -> "queued"
              [] OTHER                       -> row
  /\ outcome' = IF outcome = "open" THEN "interrupted" ELSE outcome
  /\ UNCHANGED <<claims, runVars, sessionVars, githubVars, pastVars>>

Next ==
  \/ Record \/ ClaimRow \/ ExecutorStep
  \/ Push \/ (\E s \in live : WriteResult(s) \/ StrayEnds(s))
  \/ Crash \/ Restart

Spec == Init /\ [][Next]_vars

\* A call to GitHub answers or fails, and the timer of a session fires; no
\* session need end by itself.
FairSpec == Spec /\ WF_vars(OwnStep)

-----------------------------------------------------------------------------
(* Properties. *)

Open(c)      == checks[c] \in {"queued", "in_progress"}
Concluded(c) == checks[c] \in Conclusion

\* A Check Run is left open only by a crash, by the loss of the answer to its
\* creation, or by a failure of the very call that concludes it; no other
\* error on the way, and no order of errors, leaves it open.
OpenCheckExplained ==
  \A c \in Claim :
    Open(c) => c \in crashed \union lost \/ (c = claims /\ pc \in Working \union Surfacing)

\* What the row says of its last attempt and what its Check Run shows are two
\* translations of one ending, made in different places: they agree on whether
\* the task failed and on whether it was withheld as stale.
RowAndCheckAgree ==
  outcome \in Terminal /\ Concluded(claims) =>
    /\ outcome = "failed"     <=> checks[claims] = "failure"
    /\ outcome = "superseded" <=> checks[claims] = "stale"

\* A draft pull request is never opened by an attempt whose Check Run then says
\* that it failed or that its result was withheld.
NoPrBehindFailure ==
  \A c \in prs : checks[c] \notin {"failure", "stale"}

\* A push to the pull request while its review's session runs withholds the
\* review: no verdict and no conclusion of a result are published for it.
PushWithholds ==
  TaskKind = "review" /\ endHead # target =>
    /\ checks[claims] \notin {"success", "neutral", "action_required"}
    /\ \A v \in verdicts : v.of # claims

\* A task costs no more sessions than its retries and attempts allow, however
\* often the server dies.
SpawnBudget == spawns <= claims * (MaxRetries + 1) /\ claims <= MaxAttempts

\* While nothing was interrupted and every kill succeeded, no session is alive
\* but the one the executor waits for.
NoStraySession ==
  crashed = {} /\ ~unkilled => live \subseteq (IF pc = "running" THEN {Current} ELSE {})

\* Without a crash the private checkout does not outlive its executor, unless
\* its removal failed and was reported.
CheckoutRemoved ==
  crashed = {} /\ pc \in {"none"} \union Surfacing /\ workspace => dirty

\* An executor returns: what TaskQueue assumes of it.
ExecutorReturns == <>[]up => (pc # "none" ~> pc = "none")

-----------------------------------------------------------------------------
(* What a comment says and the code does not do; the finding.             *)

\* crates/worker, finalization: "never publish stale review output as if it
\* covered the current head".
VerdictOnReviewedHead == \A v \in verdicts : v.on = v.reviewed
=============================================================================
