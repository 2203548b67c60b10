------------------------ MODULE TaskExecution_proofs -----------------------
(***************************************************************************)
(* Proofs about TaskExecution, for any number of retries, any commits and  *)
(* any calls that may fail.                                                *)
(***************************************************************************)
EXTENDS TaskExecutionQueue, FiniteSetTheorems, TLAPS

USE ExecutionAssumption

\* The executor, the row and the process fit together.
Shape ==
  /\ pc # "none" => up /\ claims > 0
  /\ row = "absent" => claims = 0
  /\ row = "queued" => claims < MaxAttempts /\ pc = "none"
  /\ pc \in Preflight \union Working => row = "running" /\ outcome = "open"
  /\ outcome \in Terminal => row = outcome

\* What run_and_publish returned is known from the moment it returns, and a
\* report it returned keeps the contract.
Returned ==
  /\ pc \in {"cleanup", "finishing"} \union Surfacing => ending # "none"
  /\ pc \in {"judging", "publishing"} => ending = "result"
  /\ ending = "result" => report.status \in Status

Sound == ExecutionTypeOK /\ Shape /\ Returned

LEMMA SoundInit == Init => Sound
<1> SUFFICES ASSUME Init PROVE Sound
  OBVIOUS
<1>1. MaxAttempts \in Nat \ {0}
  BY DEF MaxAttempts
<1>2. ExecutionTypeOK
  <2>1. checks \in [Claim -> {"none"}]
    BY DEF Init
  <2>2. verdicts \subseteq [of: Claim, reviewed: Nat, on: Nat]
    BY DEF Init
  <2>3. live \subseteq Session /\ prs \subseteq Claim /\ crashed \subseteq Claim /\ lost \subseteq Claim
    BY DEF Init
  <2>4. report \in Result \union {NoResult} /\ file \in Result \union {NoResult}
    BY DEF Init
  <2>5. claims \in 0 .. MaxAttempts /\ tries \in 0 .. MaxRetries /\ exitCode \in 0 .. 3
    BY <1>1 DEF Init
  <2>6. checks \in [Claim -> {"none", "queued", "in_progress"} \union Conclusion]
    BY <2>1
  <2> QED
    BY <2>2, <2>3, <2>4, <2>5, <2>6 DEF Init, ExecutionTypeOK
<1>3. Shape
  BY DEF Init, Shape, Preflight, Working, Terminal
<1>4. Returned
  BY DEF Init, Returned, Surfacing
<1> QED
  BY <1>2, <1>3, <1>4 DEF Sound

-----------------------------------------------------------------------------
(* The finalization's three translations of an ending. *)

LEMMA Translations ==
  ASSUME Sound, ending # "none"
  PROVE  /\ TerminalState \in Terminal
         /\ FinalComment \in {"done", "needs_input", "failed", "superseded"}
         /\ CheckConclusion \in Conclusion
         /\ TerminalState = "failed" <=> CheckConclusion = "failure"
         /\ TerminalState = "superseded" <=> CheckConclusion = "stale"
  BY DEF Sound, ExecutionTypeOK, Returned, TerminalState, FinalComment,
         CheckConclusion, Terminal, Conclusion, Status

-----------------------------------------------------------------------------
(* Every step keeps types and shape. *)

LEMMA SoundStep == Sound /\ [Next]_vars => Sound'
<1> SUFFICES ASSUME Sound, [Next]_vars PROVE Sound'
  OBVIOUS
<1> USE DEF Sound, ExecutionTypeOK, Shape, Returned, Preflight, Working, Surfacing,
            queueVars, runVars, sessionVars, githubVars, pastVars
<1> DEFINE Exits == \E code \in ExitCodes : SessionExits(code)
<1>0. MaxAttempts \in Nat \ {0} /\ (claims > 0 => claims \in Claim)
  BY DEF MaxAttempts, Claim
<1>1. CASE Record
  BY <1>0, <1>1 DEF Record, Terminal
<1>2. CASE ClaimRow
  BY <1>0, <1>2 DEF ClaimRow, Terminal, NoResult
<1>3. CASE PassGate
  BY <1>3 DEF PassGate, At, Goto
<1>4. CASE ResolveTargets
  BY <1>4 DEF ResolveTargets, At
<1>5. CASE CreateCheck
  BY <1>0, <1>5 DEF CreateCheck, At, Goto
<1>6. CASE PreflightFails
  BY <1>0, <1>6 DEF PreflightFails, FinishRow, Goto, Terminal
<1>7. CASE Provision
  BY <1>7 DEF Provision, Fails, At, Goto
<1>8. CASE Announce
  BY <1>0, <1>8 DEF Announce, At, Goto, Try
<1>9. CASE MintAgentToken
  BY <1>9 DEF MintAgentToken, Fails, At, Goto
<1>10. CASE Launch
  <2>1. Current \in Session
    BY <1>0, <1>10 DEF Launch, At, Current, Session
  <2> QED
    BY <1>10, <2>1 DEF Launch, At, Goto
<1>11. CASE LaunchFails
  BY <1>11 DEF LaunchFails, RetrySafe, Fails, At
<1>12. CASE Exits
  <2>1. PICK code \in ExitCodes : SessionExits(code)
    BY <1>12
  <2> QED
    BY <2>1 DEF SessionExits, RetrySafe, Fails, At, Usable, Status
<1>13. CASE Timeout
  <2>1. live' \subseteq Session /\ unkilled' \in BOOLEAN
    BY <1>13 DEF Timeout
  <2>2. pc = "running" /\ RetrySafe
    BY <1>13 DEF Timeout, At
  <2> QED
    BY <1>13, <2>1, <2>2 DEF Timeout, RetrySafe, Fails
<1>14. CASE StaleGate
  BY <1>14 DEF StaleGate, Fails, At, Goto
<1>15. CASE OpenPullRequest
  BY <1>0, <1>15 DEF OpenPullRequest, At, Goto, Try
<1>16. CASE CleanUp
  BY <1>16 DEF CleanUp, At, Goto, NoResult
<1>17. CASE FinishRun
  <2>1. TerminalState \in Terminal
    BY <1>17, Translations DEF FinishRun, At
  <2> QED
    BY <1>17, <2>1 DEF FinishRun, FinishRow, At, Goto, Terminal
<1>18. CASE SubmitVerdict
  <2>1. At("verdict") /\ Goto("commenting")
    BY <1>18 DEF SubmitVerdict
  <2>2. verdicts' \subseteq [of: Claim, reviewed: Nat, on: Nat]
    BY <1>0, <1>18, <2>1 DEF SubmitVerdict, Try, At
  <2> QED
    BY <1>18, <2>1, <2>2 DEF SubmitVerdict, At, Goto
<1>19. CASE Comment
  <2>1. FinalComment \in {"done", "needs_input", "failed", "superseded"}
    BY <1>19, Translations DEF Comment, At
  <2> QED
    BY <1>19, <2>1 DEF Comment, At, Goto, Try
<1>20. CASE Conclude
  <2>1. CheckConclusion \in Conclusion
    BY <1>20, Translations DEF Conclude, At
  <2> QED
    BY <1>0, <1>20, <2>1 DEF Conclude, At, Goto
<1>21. CASE Push
  BY <1>21 DEF Push
<1>22. CASE \E s \in live : WriteResult(s) \/ StrayEnds(s)
  <2>1. PICK s \in live : WriteResult(s) \/ StrayEnds(s)
    BY <1>22
  <2>2. CASE WriteResult(s)
    <3>1. file' \in Result
      BY <2>2 DEF WriteResult, Result
    <3> QED
      BY <2>2, <3>1 DEF WriteResult
  <2>3. CASE StrayEnds(s)
    BY <2>3 DEF StrayEnds
  <2> QED
    BY <2>1, <2>2, <2>3
<1>23. CASE Crash
  <2>1. live' \subseteq Session /\ crashed' \subseteq Claim
    BY <1>0, <1>23 DEF Crash
  <2>2. /\ up' = FALSE /\ pc' = "none"
        /\ UNCHANGED <<row, claims, outcome, target, tries, ending, report, exitCode>>
        /\ UNCHANGED <<workspace, file, githubVars, endHead, spawns, lost, dirty, unkilled>>
    BY <1>23 DEF Crash, Goto
  <2>3. ExecutionTypeOK'
    <3>1. up' \in BOOLEAN /\ pc' \in {"none"} \union Preflight \union Working \union Surfacing
      BY <2>2
    <3> HIDE DEF Preflight, Working, Surfacing
    <3> QED
      BY <2>1, <2>2, <3>1
  <2>4. Shape'
    BY <2>2
  <2>5. Returned'
    BY <2>2
  <2> QED
    BY <2>3, <2>4, <2>5
<1>24. CASE Restart
  BY <1>0, <1>24 DEF Restart, GivesUp, Terminal
<1>25. CASE UNCHANGED vars
  BY <1>25 DEF vars
<1> QED
  BY <1>1, <1>2, <1>3, <1>4, <1>5, <1>6, <1>7, <1>8, <1>9, <1>10, <1>11, <1>12,
     <1>13, <1>14, <1>15, <1>16, <1>17, <1>18, <1>19, <1>20, <1>21, <1>22, <1>23,
     <1>24, <1>25 DEF Next, ExecutorStep, OwnStep

\* Row, executor, surfaces and history hold values of their types throughout.
THEOREM ExecutionTypeCorrect == Spec => []ExecutionTypeOK
<1>1. Spec => []Sound
  BY SoundInit, SoundStep, PTL DEF Spec
<1>2. Sound => ExecutionTypeOK
  BY DEF Sound
<1> QED
  BY <1>1, <1>2, PTL

-----------------------------------------------------------------------------
(* The Check Run is concluded or its being open is explained. *)

LEMMA OpenCheckStep == Sound /\ OpenCheckExplained /\ [Next]_vars => OpenCheckExplained'
<1> SUFFICES ASSUME Sound, OpenCheckExplained, [Next]_vars PROVE OpenCheckExplained'
  OBVIOUS
<1> USE DEF Sound, ExecutionTypeOK, Shape, OpenCheckExplained, Open,
            Preflight, Working, Surfacing, queueVars, runVars, sessionVars, githubVars, pastVars
<1> DEFINE Exits == \E code \in ExitCodes : SessionExits(code)
<1>0. claims > 0 => claims \in Claim
  BY DEF Sound, ExecutionTypeOK, Claim, MaxAttempts
<1>1. CASE Record
  BY <1>0, <1>1 DEF Record
<1>2. CASE ClaimRow
  BY <1>0, <1>2 DEF ClaimRow
<1>3. CASE PassGate
  BY <1>0, <1>3 DEF PassGate, At, Goto
<1>4. CASE ResolveTargets
  BY <1>0, <1>4 DEF ResolveTargets, At
<1>5. CASE CreateCheck
  BY <1>0, <1>5 DEF CreateCheck, At, Goto
<1>6. CASE PreflightFails
  BY <1>0, <1>6 DEF PreflightFails, FinishRow, Goto
<1>7. CASE Provision
  BY <1>0, <1>7 DEF Provision, Fails, At, Goto
<1>8. CASE Announce
  BY <1>0, <1>8 DEF Announce, Try, At, Goto
<1>9. CASE MintAgentToken
  BY <1>0, <1>9 DEF MintAgentToken, Fails, At, Goto
<1>10. CASE Launch
  BY <1>0, <1>10 DEF Launch, At, Goto
<1>11. CASE LaunchFails
  BY <1>0, <1>11 DEF LaunchFails, RetrySafe, Fails, At
<1>12. CASE Exits
  BY <1>0, <1>12 DEF SessionExits, RetrySafe, Fails, At
<1>13. CASE Timeout
  BY <1>0, <1>13 DEF Timeout, RetrySafe, Fails, At
<1>14. CASE StaleGate
  BY <1>0, <1>14 DEF StaleGate, Fails, At, Goto
<1>15. CASE OpenPullRequest
  BY <1>0, <1>15 DEF OpenPullRequest, At, Goto
<1>16. CASE CleanUp
  BY <1>0, <1>16 DEF CleanUp, At, Goto
<1>17. CASE FinishRun
  BY <1>0, <1>17 DEF FinishRun, FinishRow, At, Goto
<1>18. CASE SubmitVerdict
  BY <1>0, <1>18 DEF SubmitVerdict, Try, At, Goto
<1>19. CASE Comment
  BY <1>0, <1>19 DEF Comment, At, Goto
<1>20. CASE Conclude
  <2>1. CheckConclusion \notin {"queued", "in_progress"}
    BY <1>20, Translations DEF Conclude, At, Sound, Returned, Conclusion
  <2> QED
    BY <1>0, <1>20, <2>1 DEF Conclude, At, Goto
<1>21. CASE Push
  BY <1>0, <1>21 DEF Push
<1>22. CASE \E s \in live : WriteResult(s) \/ StrayEnds(s)
  BY <1>0, <1>22 DEF WriteResult, StrayEnds
<1>23. CASE Crash
  BY <1>0, <1>23 DEF Crash, Goto
<1>24. CASE Restart
  BY <1>0, <1>24 DEF Restart
<1>25. CASE UNCHANGED vars
  BY <1>0, <1>25 DEF vars
<1> QED
  BY <1>1, <1>2, <1>3, <1>4, <1>5, <1>6, <1>7, <1>8, <1>9, <1>10, <1>11, <1>12,
     <1>13, <1>14, <1>15, <1>16, <1>17, <1>18, <1>19, <1>20, <1>21, <1>22, <1>23, <1>24,
     <1>25 DEF Next, ExecutorStep, OwnStep

\* Only a crash, a lost answer to the creating call or a failed concluding call
\* leaves a Check Run open behind the executor (execute_task).
THEOREM OpenCheckExplainedHolds == Spec => []OpenCheckExplained
<1>1. Init => OpenCheckExplained
  BY DEF Init, OpenCheckExplained, Open
<1> QED
  BY <1>1, SoundInit, SoundStep, OpenCheckStep, PTL DEF Spec

-----------------------------------------------------------------------------
(* What is published, and when. *)

\* Nothing is concluded for an attempt still at work, let alone for a later one.
NoEarlyConclusion ==
  \A c \in Claim : c > claims \/ (c = claims /\ pc # "none") => checks[c] \notin Conclusion

\* The row ends as the attempt did, if its terminal write was not lost.
EndsAsTheAttempt == pc \in Surfacing => outcome \in {"open", TerminalState}

Telling == NoEarlyConclusion /\ EndsAsTheAttempt /\ RowAndCheckAgree

LEMMA TellingStep == Sound /\ Telling /\ [Next]_vars => Telling'
<1> SUFFICES ASSUME Sound, Telling, [Next]_vars PROVE Telling'
  OBVIOUS
<1> USE DEF Sound, ExecutionTypeOK, Shape, Returned, Telling, NoEarlyConclusion,
            EndsAsTheAttempt, RowAndCheckAgree, Concluded, Preflight, Working, Surfacing,
            queueVars, runVars, sessionVars, githubVars, pastVars
<1> DEFINE Exits == \E code \in ExitCodes : SessionExits(code)
<1>0. claims \in Nat /\ Claim \subseteq Nat /\ (claims > 0 => claims \in Claim)
  BY DEF Claim, MaxAttempts
<1>1. CASE Record
  BY <1>0, <1>1 DEF Record, TerminalState
<1>2. CASE ClaimRow
  <2>1. /\ claims' = claims + 1 /\ pc' = "claimed" /\ outcome' = "open" /\ UNCHANGED checks
    BY <1>2 DEF ClaimRow
  <2> QED
    BY <1>0, <2>1 DEF Terminal
<1>3. CASE PassGate
  BY <1>0, <1>3 DEF PassGate, At, Goto, TerminalState
<1>4. CASE ResolveTargets
  BY <1>0, <1>4 DEF ResolveTargets, At, TerminalState
<1>5. CASE CreateCheck
  <2>1. checks' = [checks EXCEPT ![claims] = "queued"] /\ UNCHANGED <<claims, outcome>>
    BY <1>5 DEF CreateCheck
  <2>2. pc = "resolved" /\ pc' = "created" /\ outcome \notin Terminal
    BY <1>5 DEF CreateCheck, At, Goto, Terminal
  <2> QED
    BY <1>0, <2>1, <2>2 DEF Conclusion
<1>6. CASE PreflightFails
  <2>1. pc \in Preflight /\ claims \in Claim /\ pc' = "none" /\ claims' = claims
    BY <1>0, <1>6 DEF PreflightFails, FinishRow, Goto
  <2>2. checks' \in {checks, [checks EXCEPT ![claims] = "queued"]}
    BY <1>6 DEF PreflightFails
  <2>3. \A c \in Claim : c >= claims => checks[c] \notin Conclusion
    BY <1>0, <2>1
  <2>4. \A c \in Claim : c >= claims => checks'[c] \notin Conclusion
    BY <1>0, <2>1, <2>2, <2>3 DEF Conclusion
  <2> QED
    BY <1>0, <2>1, <2>4
<1>7. CASE Provision
  BY <1>0, <1>7 DEF Provision, Fails, At, Goto, TerminalState
<1>8. CASE Announce
  <2>1. checks' \in {checks, [checks EXCEPT ![claims] = "in_progress"]} /\ claims' = claims
    BY <1>8 DEF Announce, Try
  <2>2. pc = "provisioned" /\ pc' = "announced" /\ outcome' = outcome /\ outcome \notin Terminal
    BY <1>8 DEF Announce, At, Goto, Terminal
  <2>3. \A c \in Claim : c >= claims => checks[c] \notin Conclusion
    BY <1>0, <2>2
  <2>4. \A c \in Claim : c >= claims => checks'[c] \notin Conclusion
    BY <1>0, <2>1, <2>2, <2>3 DEF Conclusion
  <2> QED
    BY <1>0, <2>1, <2>2, <2>4
<1>9. CASE MintAgentToken
  BY <1>0, <1>9 DEF MintAgentToken, Fails, At, Goto, TerminalState
<1>10. CASE Launch
  BY <1>0, <1>10 DEF Launch, At, Goto, TerminalState
<1>11. CASE LaunchFails
  BY <1>0, <1>11 DEF LaunchFails, RetrySafe, Fails, At, TerminalState
<1>12. CASE Exits
  BY <1>0, <1>12 DEF SessionExits, RetrySafe, Fails, At, TerminalState
<1>13. CASE Timeout
  BY <1>0, <1>13 DEF Timeout, RetrySafe, Fails, At, TerminalState
<1>14. CASE StaleGate
  BY <1>0, <1>14 DEF StaleGate, Fails, At, Goto, TerminalState
<1>15. CASE OpenPullRequest
  BY <1>0, <1>15 DEF OpenPullRequest, At, Goto, TerminalState
<1>16. CASE CleanUp
  BY <1>0, <1>16 DEF CleanUp, At, Goto, TerminalState
<1>17. CASE FinishRun
  BY <1>0, <1>17 DEF FinishRun, FinishRow, At, Goto, TerminalState
<1>18. CASE SubmitVerdict
  BY <1>0, <1>18 DEF SubmitVerdict, Try, At, Goto, TerminalState
<1>19. CASE Comment
  BY <1>0, <1>19 DEF Comment, At, Goto, TerminalState
<1>20. CASE Conclude
  <2>1. pc = "concluding" /\ pc' = "none" /\ UNCHANGED <<claims, outcome>>
    BY <1>20 DEF Conclude, At, Goto
  <2>2. checks' \in {checks, [checks EXCEPT ![claims] = CheckConclusion]}
    BY <1>20 DEF Conclude
  <2>3. NoEarlyConclusion' /\ EndsAsTheAttempt'
    BY <1>0, <2>1, <2>2
  <2>4. outcome \in {"open", TerminalState} /\ claims \in Claim
    BY <1>0, <2>1
  <2>5. CASE checks' = checks
    BY <2>1, <2>3, <2>5
  <2>6. CASE checks' = [checks EXCEPT ![claims] = CheckConclusion]
    <3>1. checks'[claims] = CheckConclusion
      BY <2>4, <2>6
    <3> HIDE DEF RowAndCheckAgree
    <3>2. RowAndCheckAgree'
      BY <2>1, <2>4, <3>1, Translations DEF RowAndCheckAgree, Terminal
    <3> QED
      BY <2>3, <3>2
  <2> QED
    BY <2>2, <2>5, <2>6
<1>21. CASE Push
  BY <1>0, <1>21 DEF Push, TerminalState
<1>22. CASE \E s \in live : WriteResult(s) \/ StrayEnds(s)
  BY <1>0, <1>22 DEF WriteResult, StrayEnds, TerminalState
<1>23. CASE Crash
  BY <1>0, <1>23 DEF Crash, Goto, TerminalState
<1>24. CASE Restart
  <2>1. pc' = pc /\ pc = "none" /\ UNCHANGED <<claims, checks>>
    BY <1>24 DEF Restart
  <2>2. outcome' \in Terminal => outcome' = outcome
    BY <1>24 DEF Restart, Terminal
  <2> QED
    BY <2>1, <2>2
<1>25. CASE UNCHANGED vars
  BY <1>0, <1>25 DEF vars, TerminalState
<1> QED
  BY <1>1, <1>2, <1>3, <1>4, <1>5, <1>6, <1>7, <1>8, <1>9, <1>10, <1>11, <1>12,
     <1>13, <1>14, <1>15, <1>16, <1>17, <1>18, <1>19, <1>20, <1>21, <1>22, <1>23, <1>24,
     <1>25 DEF Next, ExecutorStep, OwnStep

\* The row and its Check Run agree on failure and on staleness: terminal_of and
\* disposition, and the arms of execute_task, never tell two stories.
THEOREM RowAndCheckAgreeHolds == Spec => []RowAndCheckAgree
<1>1. Init => Telling
  BY DEF Init, Telling, NoEarlyConclusion, EndsAsTheAttempt, RowAndCheckAgree,
         Conclusion, Surfacing, Terminal
<1>2. Telling => RowAndCheckAgree
  BY DEF Telling
<1> QED
  BY <1>1, <1>2, SoundInit, SoundStep, TellingStep, PTL DEF Spec

-----------------------------------------------------------------------------
(* Sessions: how many, and which are alive. *)

\* No session is alive but the awaited one, while nothing is interrupted.
LEMMA NoStrayStep == Sound /\ NoStraySession /\ [Next]_vars => NoStraySession'
<1> SUFFICES ASSUME Sound, NoStraySession, [Next]_vars PROVE NoStraySession'
  OBVIOUS
<1> USE DEF Sound, Shape, NoStraySession, Preflight, Working, Surfacing,
            queueVars, runVars, sessionVars, githubVars, pastVars
<1> DEFINE Exits == \E code \in ExitCodes : SessionExits(code)
<1>1. CASE Record
  BY <1>1 DEF Record, Current
<1>2. CASE ClaimRow
  BY <1>2 DEF ClaimRow, Current
<1>3. CASE PassGate
  BY <1>3 DEF PassGate, At, Goto, Current
<1>4. CASE ResolveTargets
  BY <1>4 DEF ResolveTargets, At, Current
<1>5. CASE CreateCheck
  BY <1>5 DEF CreateCheck, At, Goto, Current
<1>6. CASE PreflightFails
  BY <1>6 DEF PreflightFails, FinishRow, Goto, Current
<1>7. CASE Provision
  BY <1>7 DEF Provision, Fails, At, Goto, Current
<1>8. CASE Announce
  BY <1>8 DEF Announce, Try, At, Goto, Current
<1>9. CASE MintAgentToken
  BY <1>9 DEF MintAgentToken, Fails, At, Goto, Current
<1>10. CASE Launch
  BY <1>10 DEF Launch, At, Goto, Current
<1>11. CASE LaunchFails
  BY <1>11 DEF LaunchFails, RetrySafe, Fails, At, Current
<1>12. CASE Exits
  BY <1>12 DEF SessionExits, RetrySafe, Fails, At, Current
<1>13. CASE Timeout
  BY <1>13 DEF Timeout, RetrySafe, Fails, At, Current
<1>14. CASE StaleGate
  BY <1>14 DEF StaleGate, Fails, At, Goto, Current
<1>15. CASE OpenPullRequest
  BY <1>15 DEF OpenPullRequest, At, Goto, Current
<1>16. CASE CleanUp
  BY <1>16 DEF CleanUp, At, Goto, Current
<1>17. CASE FinishRun
  BY <1>17 DEF FinishRun, FinishRow, At, Goto, Current
<1>18. CASE SubmitVerdict
  BY <1>18 DEF SubmitVerdict, Try, At, Goto, Current
<1>19. CASE Comment
  BY <1>19 DEF Comment, At, Goto, Current
<1>20. CASE Conclude
  BY <1>20 DEF Conclude, At, Goto, Current
<1>21. CASE Push
  BY <1>21 DEF Push, Current
<1>22. CASE \E s \in live : WriteResult(s) \/ StrayEnds(s)
  <2>1. PICK s \in live : WriteResult(s) \/ StrayEnds(s)
    BY <1>22
  <2>2. live' \subseteq live /\ UNCHANGED <<pc, claims, tries, crashed, workspace, dirty, unkilled>>
    BY <2>1 DEF WriteResult, StrayEnds
  <2> QED
    BY <2>2 DEF Current
<1>23. CASE Crash
  <2>1. live' \subseteq live /\ pc' = "none" /\ UNCHANGED unkilled
    BY <1>23 DEF Crash, Goto
  <2>2. crashed' = {} => crashed = {} /\ pc = "none"
    BY <1>23 DEF Crash
  <2> QED
    BY <2>1, <2>2
<1>24. CASE Restart
  BY <1>24 DEF Restart, Current
<1>25. CASE UNCHANGED vars
  BY <1>25 DEF vars, Current
<1> QED
  BY <1>1, <1>2, <1>3, <1>4, <1>5, <1>6, <1>7, <1>8, <1>9, <1>10, <1>11, <1>12,
     <1>13, <1>14, <1>15, <1>16, <1>17, <1>18, <1>19, <1>20, <1>21, <1>22, <1>23, <1>24,
     <1>25 DEF Next, ExecutorStep, OwnStep

\* await_child leaves no session behind, unless the server dies or docker kill
\* fails.
THEOREM NoStraySessionHolds == Spec => []NoStraySession
<1>1. Init => NoStraySession
  BY DEF Init, NoStraySession
<1> QED
  BY <1>1, SoundInit, SoundStep, NoStrayStep, PTL DEF Spec

\* The checkout on disk belongs to an executor, while nothing is interrupted.
Checkout == crashed = {} /\ workspace /\ ~dirty => pc \in Working \ {"finishing"}

LEMMA CheckoutStep == Sound /\ Checkout /\ [Next]_vars => Checkout'
<1> SUFFICES ASSUME Sound, Checkout, [Next]_vars PROVE Checkout'
  OBVIOUS
<1> USE DEF Sound, ExecutionTypeOK, Shape, Checkout, Preflight, Working, Surfacing,
            queueVars, runVars, sessionVars, githubVars, pastVars
<1> DEFINE Exits == \E code \in ExitCodes : SessionExits(code)
<1>1. CASE Record
  BY <1>1 DEF Record
<1>2. CASE ClaimRow
  BY <1>2 DEF ClaimRow
<1>3. CASE PassGate
  BY <1>3 DEF PassGate, At, Goto
<1>4. CASE ResolveTargets
  BY <1>4 DEF ResolveTargets, At
<1>5. CASE CreateCheck
  BY <1>5 DEF CreateCheck, At, Goto
<1>6. CASE PreflightFails
  BY <1>6 DEF PreflightFails, FinishRow, Goto
<1>7. CASE Provision
  BY <1>7 DEF Provision, Fails, At, Goto
<1>8. CASE Announce
  BY <1>8 DEF Announce, Try, At, Goto
<1>9. CASE MintAgentToken
  BY <1>9 DEF MintAgentToken, Fails, At, Goto
<1>10. CASE Launch
  BY <1>10 DEF Launch, At, Goto
<1>11. CASE LaunchFails
  BY <1>11 DEF LaunchFails, RetrySafe, Fails, At
<1>12. CASE Exits
  BY <1>12 DEF SessionExits, RetrySafe, Fails, At
<1>13. CASE Timeout
  BY <1>13 DEF Timeout, RetrySafe, Fails, At
<1>14. CASE StaleGate
  BY <1>14 DEF StaleGate, Fails, At, Goto
<1>15. CASE OpenPullRequest
  BY <1>15 DEF OpenPullRequest, At, Goto
<1>16. CASE CleanUp
  BY <1>16 DEF CleanUp, At, Goto
<1>17. CASE FinishRun
  BY <1>17 DEF FinishRun, FinishRow, At, Goto
<1>18. CASE SubmitVerdict
  BY <1>18 DEF SubmitVerdict, Try, At, Goto
<1>19. CASE Comment
  BY <1>19 DEF Comment, At, Goto
<1>20. CASE Conclude
  BY <1>20 DEF Conclude, At, Goto
<1>21. CASE Push
  BY <1>21 DEF Push
<1>22. CASE \E s \in live : WriteResult(s) \/ StrayEnds(s)
  <2>1. PICK s \in live : WriteResult(s) \/ StrayEnds(s)
    BY <1>22
  <2>2. live' \subseteq live /\ UNCHANGED <<pc, claims, tries, crashed, workspace, dirty, unkilled>>
    BY <2>1 DEF WriteResult, StrayEnds
  <2> QED
    BY <2>2 DEF Current
<1>23. CASE Crash
  BY <1>23 DEF Crash, Goto
<1>24. CASE Restart
  BY <1>24 DEF Restart
<1>25. CASE UNCHANGED vars
  BY <1>25 DEF vars
<1> QED
  BY <1>1, <1>2, <1>3, <1>4, <1>5, <1>6, <1>7, <1>8, <1>9, <1>10, <1>11, <1>12,
     <1>13, <1>14, <1>15, <1>16, <1>17, <1>18, <1>19, <1>20, <1>21, <1>22, <1>23, <1>24,
     <1>25 DEF Next, ExecutorStep, OwnStep

\* The private checkout is gone when its executor has returned (execute_task).
THEOREM CheckoutRemovedHolds == Spec => []CheckoutRemoved
<1>1. Init => Checkout
  BY DEF Init, Checkout
<1>2. Checkout => CheckoutRemoved
  BY DEF Checkout, CheckoutRemoved, Working, Surfacing
<1> QED
  BY <1>1, <1>2, SoundInit, SoundStep, CheckoutStep, PTL DEF Spec

\* The sessions paid for by the claims before this one, and by its own tries.
Paid == (claims - 1) * (MaxRetries + 1)

Budget ==
  /\ claims = 0 => spawns = 0
  /\ claims > 0 => spawns <= Paid + MaxRetries + 1
  /\ pc \in Preflight \union {"created", "provisioned", "announced"} => spawns <= Paid /\ tries = 0
  /\ pc = "launching" => spawns <= Paid + tries
  /\ pc = "running" => spawns <= Paid + tries + 1

LEMMA Slack ==
  ASSUME NEW a \in Nat, NEW b \in Nat, NEW r \in Nat, a <= b
  PROVE  a <= b + r + 1
  OBVIOUS

LEMMA PaidGrows ==
  ASSUME NEW c \in Nat
  PROVE  /\ c * (MaxRetries + 1) \in Nat
         /\ c > 0 => c * (MaxRetries + 1) = (c - 1) * (MaxRetries + 1) + (MaxRetries + 1)
         /\ c > 0 => (c - 1) * (MaxRetries + 1) \in Nat
         /\ ((c + 1) - 1) * (MaxRetries + 1) = c * (MaxRetries + 1)
  OBVIOUS

LEMMA BudgetStep == Sound /\ Budget /\ [Next]_vars => Budget'
<1> SUFFICES ASSUME Sound, Budget, [Next]_vars PROVE Budget'
  OBVIOUS
<1> USE DEF Sound, Shape, Budget, Preflight, Working, Surfacing,
            queueVars, runVars, sessionVars, githubVars, pastVars
<1> DEFINE Exits == \E code \in ExitCodes : SessionExits(code)
<1>0. /\ claims \in Nat /\ spawns \in Nat /\ tries \in 0 .. MaxRetries /\ MaxRetries \in Nat
      /\ claims > 0 => Paid \in Nat
  BY PaidGrows DEF Paid, ExecutionTypeOK, MaxAttempts
<1>A. claims' = claims => Paid' = Paid
  BY DEF Paid
<1>1. CASE Record
  BY <1>0, <1>A, <1>1 DEF Record
<1>2. CASE ClaimRow
  <2>1. claims' = claims + 1 /\ pc' = "claimed" /\ tries' = 0 /\ UNCHANGED spawns
    BY <1>2 DEF ClaimRow
  <2>2. Paid' = claims * (MaxRetries + 1)
    BY <1>0, <2>1, PaidGrows DEF Paid
  <2>3. claims > 0 => claims * (MaxRetries + 1) = Paid + MaxRetries + 1
    BY <1>0, PaidGrows DEF Paid
  <2>4. claims = 0 => claims * (MaxRetries + 1) = 0
    OBVIOUS
  <2>5. spawns <= Paid'
    BY <1>0, <2>2, <2>3, <2>4
  <2>6. Paid' \in Nat
    BY <1>0, <2>2, PaidGrows
  <2>7. claims' > 0
    BY <1>0, <2>1
  <2>8. spawns' \in Nat /\ spawns' <= Paid'
    BY <1>0, <2>1, <2>5
  <2>9. spawns' <= Paid' + MaxRetries + 1
    BY <1>0, <2>6, <2>8, Slack
  <2> QED
    BY <2>1, <2>7, <2>8, <2>9
<1>3. CASE PassGate
  BY <1>0, <1>A, <1>3 DEF PassGate, At, Goto
<1>4. CASE ResolveTargets
  BY <1>0, <1>A, <1>4 DEF ResolveTargets, At
<1>5. CASE CreateCheck
  BY <1>0, <1>A, <1>5 DEF CreateCheck, At, Goto
<1>6. CASE PreflightFails
  BY <1>0, <1>A, <1>6 DEF PreflightFails, FinishRow, Goto
<1>7. CASE Provision
  BY <1>0, <1>A, <1>7 DEF Provision, Fails, At, Goto
<1>8. CASE Announce
  BY <1>0, <1>A, <1>8 DEF Announce, Try, At, Goto
<1>9. CASE MintAgentToken
  BY <1>0, <1>A, <1>9 DEF MintAgentToken, Fails, At, Goto
<1>10. CASE Launch
  BY <1>0, <1>A, <1>10 DEF Launch, At, Goto
<1>11. CASE LaunchFails
  BY <1>0, <1>A, <1>11 DEF LaunchFails, RetrySafe, Fails, At
<1>12. CASE Exits
  BY <1>0, <1>A, <1>12 DEF SessionExits, RetrySafe, Fails, At
<1>13. CASE Timeout
  BY <1>0, <1>A, <1>13 DEF Timeout, RetrySafe, Fails, At
<1>14. CASE StaleGate
  BY <1>0, <1>A, <1>14 DEF StaleGate, Fails, At, Goto
<1>15. CASE OpenPullRequest
  BY <1>0, <1>A, <1>15 DEF OpenPullRequest, At, Goto
<1>16. CASE CleanUp
  BY <1>0, <1>A, <1>16 DEF CleanUp, At, Goto
<1>17. CASE FinishRun
  BY <1>0, <1>A, <1>17 DEF FinishRun, FinishRow, At, Goto
<1>18. CASE SubmitVerdict
  BY <1>0, <1>A, <1>18 DEF SubmitVerdict, Try, At, Goto
<1>19. CASE Comment
  BY <1>0, <1>A, <1>19 DEF Comment, At, Goto
<1>20. CASE Conclude
  BY <1>0, <1>A, <1>20 DEF Conclude, At, Goto
<1>21. CASE Push
  BY <1>0, <1>A, <1>21 DEF Push
<1>22. CASE \E s \in live : WriteResult(s) \/ StrayEnds(s)
  BY <1>0, <1>A, <1>22 DEF WriteResult, StrayEnds
<1>23. CASE Crash
  BY <1>0, <1>A, <1>23 DEF Crash, Goto
<1>24. CASE Restart
  BY <1>0, <1>A, <1>24 DEF Restart
<1>25. CASE UNCHANGED vars
  BY <1>0, <1>A, <1>25 DEF vars
<1> QED
  BY <1>1, <1>2, <1>3, <1>4, <1>5, <1>6, <1>7, <1>8, <1>9, <1>10, <1>11, <1>12,
     <1>13, <1>14, <1>15, <1>16, <1>17, <1>18, <1>19, <1>20, <1>21, <1>22, <1>23, <1>24,
     <1>25 DEF Next, ExecutorStep, OwnStep

\* However often the server dies, a task starts at most (max_retries + 1)^2
\* sessions: run_session_with_backoff and recover_interrupted bound each other.
THEOREM SpawnBudgetHolds == Spec => []SpawnBudget
<1>1. Init => Budget
  BY DEF Init, Budget, Preflight
<1>2. Sound /\ Budget => SpawnBudget
  <2> SUFFICES ASSUME Sound, Budget PROVE SpawnBudget
    OBVIOUS
  <2>1. claims \in 0 .. MaxAttempts /\ spawns \in Nat /\ claims \in Nat
    BY DEF Sound, ExecutionTypeOK, MaxAttempts
  <2>2. spawns <= claims * (MaxRetries + 1)
    BY <2>1, PaidGrows DEF Budget, Paid
  <2> QED
    BY <2>1, <2>2 DEF SpawnBudget, MaxAttempts
<1> QED
  BY <1>1, <1>2, SoundInit, SoundStep, BudgetStep, PTL DEF Spec

-----------------------------------------------------------------------------
(* Pull requests and reviews. *)

\* The attempt that opened a pull request goes on to conclude a result that
\* made progress.
PrFromProgress ==
  \A c \in prs :
    /\ c <= claims
    /\ c = claims /\ pc # "none" =>
         /\ pc \in {"cleanup", "finishing"} \union Surfacing
         /\ ending = "result" /\ report.status \in {"success", "partial"}

Opened == PrFromProgress /\ NoPrBehindFailure

LEMMA OpenedStep == Sound /\ NoEarlyConclusion /\ Opened /\ [Next]_vars => Opened'
<1> SUFFICES ASSUME Sound /\ NoEarlyConclusion, Opened, [Next]_vars PROVE Opened'
  OBVIOUS
<1> USE DEF Sound, ExecutionTypeOK, Shape, Opened, PrFromProgress, NoPrBehindFailure,
            Preflight, Working, Surfacing, queueVars, runVars, sessionVars, githubVars, pastVars
<1> DEFINE Exits == \E code \in ExitCodes : SessionExits(code)
<1>0. claims \in Nat /\ Claim \subseteq Nat /\ (claims > 0 => claims \in Claim)
  BY DEF Claim, MaxAttempts
<1>1. CASE Record
  BY <1>0, <1>1 DEF Record
<1>2. CASE ClaimRow
  BY <1>0, <1>2 DEF ClaimRow
<1>3. CASE PassGate
  BY <1>0, <1>3 DEF PassGate, At, Goto
<1>4. CASE ResolveTargets
  BY <1>0, <1>4 DEF ResolveTargets, At
<1>5. CASE CreateCheck
  BY <1>0, <1>5 DEF CreateCheck, At, Goto
<1>6. CASE PreflightFails
  BY <1>0, <1>6 DEF PreflightFails, FinishRow, Goto
<1>7. CASE Provision
  BY <1>0, <1>7 DEF Provision, Fails, At, Goto
<1>8. CASE Announce
  BY <1>0, <1>8 DEF Announce, Try, At, Goto
<1>9. CASE MintAgentToken
  BY <1>0, <1>9 DEF MintAgentToken, Fails, At, Goto
<1>10. CASE Launch
  BY <1>0, <1>10 DEF Launch, At, Goto
<1>11. CASE LaunchFails
  BY <1>0, <1>11 DEF LaunchFails, RetrySafe, Fails, At
<1>12. CASE Exits
  BY <1>0, <1>12 DEF SessionExits, RetrySafe, Fails, At
<1>13. CASE Timeout
  BY <1>0, <1>13 DEF Timeout, RetrySafe, Fails, At
<1>14. CASE StaleGate
  BY <1>0, <1>14 DEF StaleGate, Fails, At, Goto
<1>15. CASE OpenPullRequest
  <2>1. pc = "publishing" /\ pc' = "cleanup" /\ UNCHANGED <<claims, checks, ending, report>>
    BY <1>15 DEF OpenPullRequest, At, Goto
  <2>2. prs' = prs \/ (prs' = prs \union {claims} /\ report.status \in {"success", "partial"})
    BY <1>15 DEF OpenPullRequest, WantsPr
  <2>3. ending = "result" /\ claims \notin prs
    BY <2>1 DEF Returned
  <2>4. checks[claims] \notin {"failure", "stale"}
    BY <1>0, <2>1 DEF NoEarlyConclusion, Conclusion
  <2>5. claims' \in prs' => ending' = "result" /\ report'.status \in {"success", "partial"}
    BY <2>1, <2>2, <2>3
  <2>6. PrFromProgress'
    <3> SUFFICES ASSUME NEW c \in prs'
                 PROVE  /\ c <= claims'
                        /\ c = claims' => ending' = "result" /\ report'.status \in {"success", "partial"}
      BY <2>1
    <3>1. c \in prs \/ c = claims
      BY <2>2
    <3>2. c <= claims
      <4>1. c \in prs => c <= claims
        OBVIOUS
      <4>2. claims <= claims
        BY <1>0
      <4> QED
        BY <3>1, <4>1, <4>2
    <3> QED
      BY <2>1, <2>5, <3>2
  <2>7. NoPrBehindFailure'
    BY <2>1, <2>2, <2>4
  <2> QED
    BY <2>6, <2>7
<1>16. CASE CleanUp
  BY <1>0, <1>16 DEF CleanUp, At, Goto
<1>17. CASE FinishRun
  BY <1>0, <1>17 DEF FinishRun, FinishRow, At, Goto
<1>18. CASE SubmitVerdict
  BY <1>0, <1>18 DEF SubmitVerdict, Try, At, Goto
<1>19. CASE Comment
  BY <1>0, <1>19 DEF Comment, At, Goto
<1>20. CASE Conclude
  <2>1. pc = "concluding" /\ pc' = "none" /\ UNCHANGED <<claims, prs>>
    BY <1>20 DEF Conclude, At, Goto
  <2>2. checks' \in {checks, [checks EXCEPT ![claims] = CheckConclusion]}
    BY <1>20 DEF Conclude
  <2>3. claims \in prs => CheckConclusion \notin {"failure", "stale"}
    BY <2>1 DEF CheckConclusion
  <2> QED
    BY <1>0, <2>1, <2>2, <2>3
<1>21. CASE Push
  BY <1>0, <1>21 DEF Push
<1>22. CASE \E s \in live : WriteResult(s) \/ StrayEnds(s)
  BY <1>0, <1>22 DEF WriteResult, StrayEnds
<1>23. CASE Crash
  BY <1>0, <1>23 DEF Crash, Goto
<1>24. CASE Restart
  BY <1>0, <1>24 DEF Restart
<1>25. CASE UNCHANGED vars
  BY <1>0, <1>25 DEF vars
<1> QED
  BY <1>1, <1>2, <1>3, <1>4, <1>5, <1>6, <1>7, <1>8, <1>9, <1>10, <1>11, <1>12,
     <1>13, <1>14, <1>15, <1>16, <1>17, <1>18, <1>19, <1>20, <1>21, <1>22, <1>23, <1>24,
     <1>25 DEF Next, ExecutorStep, OwnStep

\* No draft pull request stands behind a Check Run that says the attempt failed
\* or was withheld (disposition, open_draft_pr and the arms of execute_task).
THEOREM NoPrBehindFailureHolds == Spec => []NoPrBehindFailure
<1>1. Init => Opened
  BY DEF Init, Opened, PrFromProgress, NoPrBehindFailure
<1>2. Init => Telling
  BY DEF Init, Telling, NoEarlyConclusion, EndsAsTheAttempt, RowAndCheckAgree,
         Conclusion, Surfacing, Terminal
<1>3. Telling => NoEarlyConclusion
  BY DEF Telling
<1>4. Opened => NoPrBehindFailure
  BY DEF Opened
<1> QED
  BY <1>1, <1>2, <1>3, <1>4, SoundInit, SoundStep, TellingStep, OpenedStep, PTL DEF Spec

\* The head only moves on; a review that got past the gate is of the head that
\* was there when its session ended, and only such a review is told of.
Gated ==
  /\ target <= head /\ endHead <= head
  /\ pc = "judging" => target <= endHead
  /\ pc \in Preflight \union {"created", "provisioned", "announced", "launching", "running"}
       => ending = "none"
  /\ TaskKind = "review" /\ ending = "result" /\ pc \notin {"none", "judging"} => endHead = target
  /\ \A v \in verdicts :
       /\ v.of <= claims
       /\ v.of = claims => pc \in {"none", "commenting", "concluding"}

Withheld == Gated /\ PushWithholds

LEMMA WithheldStep == Sound /\ NoEarlyConclusion /\ Withheld /\ [Next]_vars => Withheld'
<1> SUFFICES ASSUME Sound /\ NoEarlyConclusion, Withheld, [Next]_vars PROVE Withheld'
  OBVIOUS
<1> USE DEF Sound, ExecutionTypeOK, Shape, Returned, Withheld, Gated, PushWithholds,
            Preflight, Working, Surfacing, queueVars, runVars, sessionVars, githubVars, pastVars
<1> DEFINE Exits == \E code \in ExitCodes : SessionExits(code)
<1>0. claims \in Nat /\ Claim \subseteq Nat /\ (claims > 0 => claims \in Claim)
  BY DEF Claim, MaxAttempts
<1>A. \A v \in verdicts : v.of \in Nat
  BY <1>0
<1>1. CASE Record
  BY <1>0, <1>A, <1>1 DEF Record
<1>2. CASE ClaimRow
  <2>1. /\ claims' = claims + 1 /\ target' = 0 /\ endHead' = 0 /\ pc' = "claimed"
        /\ ending' = "none" /\ UNCHANGED <<head, verdicts>>
    BY <1>2 DEF ClaimRow
  <2>2. \A v \in verdicts' : v.of <= claims' /\ v.of # claims'
    BY <1>0, <1>A, <2>1
  <2>3. Gated'
    BY <2>1, <2>2
  <2>4. PushWithholds'
    BY <2>1
  <2> QED
    BY <2>3, <2>4
<1>3. CASE PassGate
  BY <1>0, <1>A, <1>3 DEF PassGate, At, Goto
<1>4. CASE ResolveTargets
  <2>1. /\ pc = "gated" /\ pc' = "resolved" /\ target' = head
        /\ UNCHANGED <<claims, ending, head, endHead, verdicts, checks>>
    BY <1>4 DEF ResolveTargets, At
  <2>2. checks[claims] \notin Conclusion /\ \A v \in verdicts : v.of # claims
    BY <1>0, <2>1 DEF NoEarlyConclusion
  <2>3. Gated'
    BY <2>1
  <2>4. PushWithholds'
    BY <2>1, <2>2 DEF Conclusion
  <2> QED
    BY <2>3, <2>4
<1>5. CASE CreateCheck
  BY <1>0, <1>A, <1>5 DEF CreateCheck, At, Goto
<1>6. CASE PreflightFails
  BY <1>0, <1>A, <1>6 DEF PreflightFails, FinishRow, Goto
<1>7. CASE Provision
  BY <1>0, <1>A, <1>7 DEF Provision, Fails, At, Goto
<1>8. CASE Announce
  BY <1>0, <1>A, <1>8 DEF Announce, Try, At, Goto
<1>9. CASE MintAgentToken
  BY <1>0, <1>A, <1>9 DEF MintAgentToken, Fails, At, Goto
<1>10. CASE Launch
  BY <1>0, <1>A, <1>10 DEF Launch, At, Goto
<1>11. CASE LaunchFails
  BY <1>0, <1>A, <1>11 DEF LaunchFails, RetrySafe, Fails, At
<1>12. CASE Exits
  <2>1. PICK code \in ExitCodes : SessionExits(code)
    BY <1>12
  <2>2. /\ pc = "running" /\ pc' \in {"judging", "launching", "cleanup"}
        /\ UNCHANGED <<claims, target, head, verdicts, checks>>
        /\ endHead' \in {endHead, head}
    BY <2>1 DEF SessionExits, RetrySafe, Fails, At
  <2>3. /\ pc' = "judging" => endHead' = head
        /\ pc' = "launching" => ending' = "none"
        /\ pc' = "cleanup" => ending' = "error"
    BY <2>1 DEF SessionExits, RetrySafe, Fails, At
  <2>4. checks[claims] \notin Conclusion /\ \A v \in verdicts : v.of # claims
    BY <1>0, <2>2 DEF NoEarlyConclusion
  <2>5. Gated'
    BY <2>2, <2>3, <2>4
  <2>6. PushWithholds'
    BY <2>2, <2>4 DEF Conclusion
  <2> QED
    BY <2>5, <2>6
<1>13. CASE Timeout
  BY <1>0, <1>A, <1>13 DEF Timeout, RetrySafe, Fails, At
<1>14. CASE StaleGate
  BY <1>0, <1>A, <1>14 DEF StaleGate, Fails, At, Goto
<1>15. CASE OpenPullRequest
  BY <1>0, <1>A, <1>15 DEF OpenPullRequest, At, Goto
<1>16. CASE CleanUp
  BY <1>0, <1>A, <1>16 DEF CleanUp, At, Goto
<1>17. CASE FinishRun
  BY <1>0, <1>A, <1>17 DEF FinishRun, FinishRow, At, Goto
<1>18. CASE SubmitVerdict
  BY <1>0, <1>A, <1>18 DEF SubmitVerdict, Try, At, Goto
<1>19. CASE Comment
  BY <1>0, <1>A, <1>19 DEF Comment, At, Goto
<1>20. CASE Conclude
  <2>1. /\ pc = "concluding" /\ pc' = "none"
        /\ UNCHANGED <<claims, target, ending, report, head, endHead, verdicts>>
    BY <1>20 DEF Conclude, At, Goto
  <2>2. checks' \in {checks, [checks EXCEPT ![claims] = CheckConclusion]}
    BY <1>20 DEF Conclude
  <2>3. TaskKind = "review" /\ endHead # target => CheckConclusion \in {"failure", "stale"}
    BY <2>1 DEF CheckConclusion
  <2>4. Gated'
    BY <2>1
  <2>5. PushWithholds'
    BY <1>0, <2>1, <2>2, <2>3
  <2> QED
    BY <2>4, <2>5
<1>21. CASE Push
  BY <1>0, <1>A, <1>21 DEF Push
<1>22. CASE \E s \in live : WriteResult(s) \/ StrayEnds(s)
  BY <1>0, <1>A, <1>22 DEF WriteResult, StrayEnds
<1>23. CASE Crash
  BY <1>0, <1>A, <1>23 DEF Crash, Goto
<1>24. CASE Restart
  BY <1>0, <1>A, <1>24 DEF Restart
<1>25. CASE UNCHANGED vars
  BY <1>0, <1>A, <1>25 DEF vars
<1> QED
  BY <1>1, <1>2, <1>3, <1>4, <1>5, <1>6, <1>7, <1>8, <1>9, <1>10, <1>11, <1>12,
     <1>13, <1>14, <1>15, <1>16, <1>17, <1>18, <1>19, <1>20, <1>21, <1>22, <1>23, <1>24,
     <1>25 DEF Next, ExecutorStep, OwnStep

\* A push while a review's session runs withholds the review: the stale-ref gate
\* of run_and_publish, through retries and restarts.
THEOREM PushWithholdsHolds == Spec => []PushWithholds
<1>1. Init => Withheld
  BY DEF Init, Withheld, Gated, PushWithholds
<1>2. Init => Telling
  BY DEF Init, Telling, NoEarlyConclusion, EndsAsTheAttempt, RowAndCheckAgree,
         Conclusion, Surfacing, Terminal
<1>3. Telling => NoEarlyConclusion
  BY DEF Telling
<1>4. Withheld => PushWithholds
  BY DEF Withheld
<1> QED
  BY <1>1, <1>2, <1>3, <1>4, SoundInit, SoundStep, TellingStep, WithheldStep, PTL DEF Spec
-----------------------------------------------------------------------------
(* The execution of a task implements the executor TaskQueue knows.        *)

\* The attempt that is open is the last one of a running row; a row that waits
\* again was interrupted.
Accounted ==
  /\ outcome = "open" <=> row = "running"
  /\ row = "queued" /\ claims > 0 => outcome = "interrupted"
  /\ outcome = "none" => claims = 0
  /\ ending = "stale" => TaskKind = "review"

LEMMA AccountedStep == Sound /\ Accounted /\ [Next]_vars => Accounted'
<1> SUFFICES ASSUME Sound, Accounted, [Next]_vars PROVE Accounted'
  OBVIOUS
<1> USE DEF Sound, ExecutionTypeOK, Shape, Returned, Accounted,
            Preflight, Working, Surfacing, queueVars, runVars
<1> DEFINE Exits == \E code \in ExitCodes : SessionExits(code)
<1>0. claims \in Nat
  BY DEF MaxAttempts
<1>1. CASE Record
  BY <1>0, <1>1 DEF Record
<1>2. CASE ClaimRow
  BY <1>0, <1>2 DEF ClaimRow
<1>3. CASE PassGate \/ ResolveTargets \/ CreateCheck
  BY <1>3 DEF PassGate, ResolveTargets, CreateCheck, At, Goto
<1>4. CASE PreflightFails
  BY <1>4 DEF PreflightFails, FinishRow, Goto
<1>5. CASE Provision \/ Announce \/ MintAgentToken
  BY <1>5 DEF Provision, Announce, MintAgentToken, Fails, At, Goto
<1>6. CASE Launch \/ LaunchFails
  BY <1>6 DEF Launch, LaunchFails, RetrySafe, Fails, At, Goto
<1>7. CASE Exits
  BY <1>7 DEF SessionExits, RetrySafe, Fails, At
<1>8. CASE Timeout
  BY <1>8 DEF Timeout, RetrySafe, Fails, At
<1>9. CASE StaleGate
  BY <1>9 DEF StaleGate, Fails, At, Goto
<1>10. CASE OpenPullRequest \/ CleanUp
  BY <1>10 DEF OpenPullRequest, CleanUp, At, Goto
<1>11. CASE FinishRun
  <2>1. TerminalState \in Terminal
    BY <1>11, Translations DEF FinishRun, At
  <2> QED
    BY <1>11, <2>1 DEF FinishRun, FinishRow, At, Goto, Terminal
<1>12. CASE SubmitVerdict \/ Comment \/ Conclude
  BY <1>12 DEF SubmitVerdict, Comment, Conclude, At, Goto
<1>13. CASE Push \/ \E s \in live : WriteResult(s) \/ StrayEnds(s)
  BY <1>13 DEF Push, WriteResult, StrayEnds
<1>14. CASE Crash
  BY <1>14 DEF Crash, Goto
<1>15. CASE Restart
  BY <1>15 DEF Restart, Terminal
<1>16. CASE UNCHANGED vars
  BY <1>16 DEF vars
<1> QED
  BY <1>1, <1>2, <1>3, <1>4, <1>5, <1>6, <1>7, <1>8, <1>9, <1>10, <1>11, <1>12,
     <1>13, <1>14, <1>15, <1>16 DEF Next, ExecutorStep, OwnStep

\* What TaskQueue can see of the execution.
Seen == <<up, row, claims, outcome, StageOf(pc)>>

LEMMA UnseenStutters == UNCHANGED Seen => UNCHANGED Queue!vars
<1> SUFFICES ASSUME UNCHANGED Seen PROVE UNCHANGED Queue!vars
  OBVIOUS
<1>1. /\ up' = up /\ row' = row /\ claims' = claims /\ outcome' = outcome
      /\ StageOf(pc)' = StageOf(pc)
  BY DEF Seen
<1>2. Attempts' = Attempts /\ Minted' = Minted
  BY <1>1 DEF Attempts, Minted
<1> QED
  BY <1>1, <1>2 DEF Queue!vars, Queue!storeVars, Queue!procVars

LEMMA StageValues ==
  /\ StageOf("none") = "none" /\ StageOf("claimed") = "claimed"
  /\ StageOf("gated") = "gated" /\ StageOf("resolved") = "gated"
  /\ \A s \in Working : StageOf(s) = "session"
  /\ \A s \in Surfacing : StageOf(s) = "publishing"
BY DEF StageOf, Working, Surfacing

LEMMA RecordRefines ==
  ASSUME Sound, Accounted, Record
  PROVE  Queue!Deliver("delivery", "task")
<1>1. /\ up /\ up' = up /\ row = "absent" /\ row' = "queued"
      /\ claims' = claims /\ outcome' = outcome /\ pc' = pc
  BY DEF Record, runVars
<1>2. Attempts' = Attempts /\ StageOf(pc)' = StageOf(pc) /\ Minted = 0 /\ Minted' = 1
  BY <1>1 DEF Attempts, Minted
<1>3. TaskKind # "ignored"
  OBVIOUS
<1>4. Queue!RecordTask("delivery", "task")
  <2> DEFINE One(v) == [t \in {"task"} |-> v]
  <2>1. \A S : [Queue!Tombstone(S) EXCEPT !["task"] = "queued"] = One(row')
    BY <1>1 DEF Queue!Tombstone
  <2>2. /\ [One(Minted) EXCEPT !["task"] = Minted + 1] = One(Minted')
        /\ Minted' = Minted + 1
    BY <1>2
  <2>3. [[d \in {"delivery"} |-> IF row = "absent" THEN "unseen" ELSE "task"]
           EXCEPT !["delivery"] = "task"]
        = [d \in {"delivery"} |-> IF row' = "absent" THEN "unseen" ELSE "task"]
    BY <1>1
  <2> QED
    BY <1>1, <1>2, <1>3, <2>1, <2>2, <2>3 DEF Queue!RecordTask
<1> QED
  BY <1>1, <1>2, <1>4 DEF Queue!Deliver
LEMMA NoExecutorFree ==
  ASSUME pc = "none", row # "running"
  PROVE  /\ Queue!PoolFree
         /\ ~ Queue!AtCap("installation")
<1>1. Queue!Executors = {} /\ Queue!Running("installation") = {}
  BY StageValues DEF Queue!Executors, Queue!Running
<1>2. Queue!Cardinality({}) = 0
  BY FS_EmptySet DEF Queue!Cardinality, Cardinality
<1>3. Queue!PoolFree
  BY <1>1, <1>2 DEF Queue!PoolFree
<1>4. ~ Queue!AtCap("installation")
  BY <1>1, <1>2 DEF Queue!AtCap
<1> QED
  BY <1>3, <1>4

LEMMA ClaimRefines ==
  ASSUME Sound, Accounted, ClaimRow
  PROVE  Queue!ClaimNext("task")
<1>1. /\ up /\ up' = up /\ row = "queued" /\ row' = "running"
      /\ claims' = claims + 1 /\ outcome' = "open" /\ pc = "none" /\ pc' = "claimed"
  BY DEF ClaimRow
<1>2. claims \in Nat /\ (claims > 0 => outcome = "interrupted")
  BY <1>1 DEF Sound, ExecutionTypeOK, Accounted, MaxAttempts
<1>3. Minted' = Minted /\ StageOf(pc)' = "claimed"
  BY <1>1, StageValues DEF Minted
<1>4. Attempts' = Attempts \union {[attempt |-> claims + 1, outcome |-> "open"]}
  BY <1>1, <1>2 DEF Attempts
<1>5. \A r \in Attempts : r.attempt # claims + 1
  BY <1>2 DEF Attempts
<1>6. Queue!Claimable = {"task"}
  BY <1>1, NoExecutorFree DEF Queue!Claimable, Queue!InstallationOf, Queue!EventOf
<1>7. Queue!Claim("task")
  <2> DEFINE One(v) == [t \in {"task"} |-> v]
  <2>1. /\ [One(row) EXCEPT !["task"] = "running"] = One(row')
        /\ [One(claims) EXCEPT !["task"] = @ + 1] = One(claims')
        /\ [One(Attempts) EXCEPT !["task"] =
              @ \union {[attempt |-> claims + 1, outcome |-> "open"]}] = One(Attempts')
    BY <1>1, <1>4
  <2>2. Minted \in Nat
    BY DEF Minted
  <2> QED
    BY <1>1, <1>3, <1>5, <1>6, <2>1, <2>2 DEF Queue!Claim
<1> QED
  BY <1>1, <1>3, <1>7, NoExecutorFree DEF Queue!ClaimNext
\* The executor moves on to the stage the new program counter stands for.
LEMMA BecomeRefines ==
  ASSUME up, up' = up, NEW s, StageOf(pc)' = s
  PROVE  Queue!Become("task", s)
BY DEF Queue!Become

LEMMA StoreUnseen ==
  ASSUME UNCHANGED <<row, claims, outcome>>
  PROVE  UNCHANGED Queue!storeVars
<1>1. Attempts' = Attempts /\ Minted' = Minted
  BY DEF Attempts, Minted
<1> QED
  BY <1>1 DEF Queue!storeVars

LEMMA PassGateRefines ==
  ASSUME PassGate
  PROVE  Queue!PassGate("task")
<1>1. pc = "claimed" /\ pc' = "gated" /\ up /\ UNCHANGED <<up, row, claims, outcome>>
  BY DEF PassGate, At, Goto, queueVars
<1>2. Queue!GateEffect("task")
  BY <1>1, StoreUnseen DEF Queue!GateEffect, Queue!KindOf, Queue!CommanderOf, Queue!EventOf
<1>3. Queue!CommanderOf("task") # "reader"
  BY DEF Queue!CommanderOf, Queue!EventOf
<1>4. Queue!Become("task", "gated")
  BY <1>1, StageValues, BecomeRefines
<1> QED
  BY <1>1, <1>2, <1>3, <1>4, StageValues DEF Queue!PassGate

\* Closing the open attempts closes the last one, if it is open.
LEMMA CloseLast ==
  ASSUME claims' = claims, NEW o, o # "open",
         outcome' = IF outcome = "open" THEN o ELSE outcome
  PROVE  Queue!Close(Attempts, o) = Attempts'
<1> DEFINE Row(c, w) == [attempt |-> c, outcome |-> IF c = claims THEN w ELSE "interrupted"]
<1>1. /\ Attempts = {Row(c, outcome) : c \in 1 .. claims}
      /\ Attempts' = {Row(c, outcome') : c \in 1 .. claims}
  BY DEF Attempts
<1>2. ASSUME NEW c \in 1 .. claims
      PROVE  Row(c, outcome) \in Attempts /\ Row(c, outcome') \in Attempts'
  BY <1>1
<1>3. ASSUME NEW r \in Queue!Close(Attempts, o) PROVE r \in Attempts'
  <2>1. CASE r \in Attempts /\ r.outcome # "open"
    <3>1. PICK c \in 1 .. claims : r = Row(c, outcome)
      BY <1>1, <2>1
    <3>2. Row(c, outcome) = Row(c, outcome')
      BY <2>1, <3>1
    <3> QED
      BY <1>2, <3>1, <3>2
  <2>2. CASE \E q \in Attempts : q.outcome = "open" /\ r = [attempt |-> q.attempt, outcome |-> o]
    <3>1. PICK c \in 1 .. claims :
            Row(c, outcome).outcome = "open" /\ r = [attempt |-> c, outcome |-> o]
      BY <1>1, <2>2
    <3>2. c = claims /\ outcome = "open"
      BY <3>1
    <3>3. r = Row(c, outcome')
      BY <3>1, <3>2
    <3> QED
      BY <1>2, <3>3
  <2> QED
    BY <1>3, <2>1, <2>2 DEF Queue!Close
<1>4. ASSUME NEW c \in 1 .. claims PROVE Row(c, outcome') \in Queue!Close(Attempts, o)
  <2>1. CASE c = claims /\ outcome = "open"
    <3>1. Row(c, outcome) \in Attempts /\ Row(c, outcome).outcome = "open"
      BY <1>2, <2>1
    <3>2. Row(c, outcome') = [attempt |-> Row(c, outcome).attempt, outcome |-> o]
      BY <2>1
    <3> QED
      BY <3>1, <3>2 DEF Queue!Close
  <2>2. CASE ~ (c = claims /\ outcome = "open")
    <3>1. Row(c, outcome') = Row(c, outcome) /\ Row(c, outcome).outcome # "open"
      BY <2>2
    <3> QED
      BY <1>2, <3>1 DEF Queue!Close
  <2> QED
    BY <2>1, <2>2
<1> QED
  BY <1>1, <1>3, <1>4

\* finish is finish: the row and its open attempt get the same word.
LEMMA FinishRefines ==
  ASSUME Sound, Accounted, row = "running", NEW s \in Terminal,
         row' = s, outcome' = s, claims' = claims
  PROVE  Queue!Finish("task", s)
<1>1. outcome = "open" /\ Minted' = Minted /\ s # "absent"
  BY DEF Accounted, Minted, Terminal
<1>2. Queue!Close(Attempts, s) = Attempts'
  <2>1. s # "open"
    BY DEF Terminal
  <2> QED
    BY <1>1, <2>1, CloseLast
<1> DEFINE One(v) == [t \in {"task"} |-> v]
<1>3. /\ [One(row) EXCEPT !["task"] = IF Queue!Present("task") THEN s ELSE "absent"] = One(row')
      /\ [One(Attempts) EXCEPT !["task"] = Queue!Close(@, s)] = One(Attempts')
  BY <1>1, <1>2 DEF Queue!Present
<1> QED
  BY <1>1, <1>3 DEF Queue!Finish

LEMMA PreflightFailsRefines ==
  ASSUME Sound, Accounted, PreflightFails
  PROVE  Queue!PreflightFails("task") \/ Queue!Abandon("task")
<1>1. /\ up /\ up' = up /\ claims' = claims /\ pc \in Preflight /\ pc' = "none"
      /\ row = "running"
      /\ (row' = "failed" /\ outcome' = "failed") \/ UNCHANGED <<row, outcome>>
  BY DEF PreflightFails, FinishRow, Goto, Sound, Shape
<1>2. Queue!Become("task", "none") /\ StageOf(pc) \in {"claimed", "gated"}
  BY <1>1, StageValues, BecomeRefines DEF Preflight
<1>3. CASE UNCHANGED <<row, outcome>>
  BY <1>1, <1>2, <1>3, StoreUnseen DEF Queue!Abandon
<1>4. CASE row' = "failed" /\ outcome' = "failed"
  <2>1. Queue!Finish("task", "failed")
    BY <1>1, <1>4, FinishRefines DEF Terminal
  <2>2. Queue!KindOf("task") \in Queue!SessionKind
    BY DEF Queue!KindOf, Queue!EventOf, Queue!SessionKind
  <2> QED
    BY <1>2, <2>1, <2>2 DEF Queue!PreflightFails
<1> QED
  BY <1>1, <1>3, <1>4

LEMMA CreateCheckRefines ==
  ASSUME CreateCheck
  PROVE  Queue!StartSession("task")
<1>1. pc = "resolved" /\ pc' = "created" /\ up /\ UNCHANGED <<up, row, claims, outcome>>
  BY DEF CreateCheck, At, Goto, queueVars
<1>2. Queue!Become("task", "session")
  BY <1>1, StageValues, BecomeRefines DEF Working
<1>3. Queue!KindOf("task") \in Queue!SessionKind
  BY DEF Queue!KindOf, Queue!EventOf, Queue!SessionKind
<1> QED
  BY <1>1, <1>2, <1>3, StageValues, StoreUnseen DEF Queue!StartSession

LEMMA FinishRunRefines ==
  ASSUME Sound, Accounted, FinishRun
  PROVE  Queue!EndSession("task")
<1>1. /\ up /\ up' = up /\ claims' = claims /\ pc = "finishing" /\ pc' = "verdict"
      /\ row = "running"
      /\ (row' = TerminalState /\ outcome' = TerminalState) \/ UNCHANGED <<row, outcome>>
  BY DEF FinishRun, FinishRow, At, Goto, Sound, Shape, Working
<1>2. Queue!Become("task", "publishing") /\ StageOf(pc) = "session"
  BY <1>1, StageValues, BecomeRefines DEF Working, Surfacing
<1>3. TerminalState \in Terminal /\ (TerminalState = "superseded" => TaskKind = "review")
  <2>1. ending \in {"error", "stale", "result"}
    BY <1>1 DEF Sound, ExecutionTypeOK, Returned
  <2>2. ending = "stale" => TaskKind = "review"
    BY DEF Accounted
  <2> QED
    BY <2>1, <2>2 DEF TerminalState, Terminal
<1>4. CASE UNCHANGED <<row, outcome>>
  BY <1>1, <1>2, <1>4, StoreUnseen DEF Queue!EndSession
<1>5. CASE row' = TerminalState /\ outcome' = TerminalState
  <2>1. Queue!Finish("task", TerminalState)
    BY <1>1, <1>3, <1>5, FinishRefines
  <2>2. Queue!KindOf("task") = TaskKind
    BY DEF Queue!KindOf, Queue!EventOf
  <2> QED
    BY <1>2, <1>3, <2>1, <2>2 DEF Queue!EndSession, Terminal
<1> QED
  BY <1>1, <1>4, <1>5

LEMMA ConcludeRefines ==
  ASSUME Conclude
  PROVE  Queue!Published("task")
<1>1. pc = "concluding" /\ pc' = "none" /\ up /\ UNCHANGED <<up, row, claims, outcome>>
  BY DEF Conclude, At, Goto, queueVars
<1>2. Queue!Become("task", "none") /\ StageOf(pc) = "publishing"
  BY <1>1, StageValues, BecomeRefines DEF Surfacing
<1> QED
  BY <1>1, <1>2, StoreUnseen DEF Queue!Published

LEMMA CrashRefines ==
  ASSUME Crash
  PROVE  Queue!Crash
<1>1. up /\ up' = FALSE /\ pc' = "none" /\ UNCHANGED <<row, claims, outcome>>
  BY DEF Crash, Goto
<1> QED
  BY <1>1, StageValues, StoreUnseen DEF Queue!Crash

LEMMA RestartRefines ==
  ASSUME Sound, Accounted, Restart
  PROVE  Queue!Restart
<1>1. /\ ~ up /\ up' = TRUE /\ UNCHANGED <<claims, pc>>
      /\ row' = IF row # "running" THEN row
                ELSE IF claims >= MaxAttempts THEN "failed" ELSE "queued"
      /\ outcome' = IF outcome = "open" THEN "interrupted" ELSE outcome
  BY DEF Restart, runVars, GivesUp
<1>2. Minted' = Minted /\ StageOf(pc)' = StageOf(pc)
  BY <1>1 DEF Minted
<1>3. Queue!Close(Attempts, "interrupted") = Attempts'
  BY <1>1, CloseLast
<1>4. Queue!AfterInterruption("task") = row'
  BY <1>1 DEF Queue!AfterInterruption
<1>5. Queue!Recover
  BY <1>1, <1>2, <1>3, <1>4 DEF Queue!Recover
<1> QED
  BY <1>1, <1>2, <1>5 DEF Queue!Restart

LEMMA StepRefines ==
  ASSUME Sound, Accounted, [Next]_vars
  PROVE  [Queue!Next]_(Queue!vars)
<1> USE DEF queueVars, Seen
<1> DEFINE Exits == \E code \in ExitCodes : SessionExits(code)
<1>1. CASE Record
  BY <1>1, RecordRefines DEF Queue!Next
<1>2. CASE ClaimRow
  BY <1>2, ClaimRefines DEF Queue!Next
<1>3. CASE PassGate
  BY <1>3, PassGateRefines DEF Queue!Next, Queue!ExecutorStep
<1>4. CASE PreflightFails
  BY <1>4, PreflightFailsRefines DEF Queue!Next, Queue!ExecutorStep
<1>5. CASE CreateCheck
  BY <1>5, CreateCheckRefines DEF Queue!Next, Queue!ExecutorStep
<1>6. CASE FinishRun
  BY <1>6, FinishRunRefines DEF Queue!Next, Queue!ExecutorStep
<1>7. CASE Conclude
  BY <1>7, ConcludeRefines DEF Queue!Next, Queue!ExecutorStep
<1>8. CASE Crash
  BY <1>8, CrashRefines DEF Queue!Next
<1>9. CASE Restart
  BY <1>9, RestartRefines DEF Queue!Next
<1>10. CASE \/ Provision \/ Announce \/ MintAgentToken \/ Launch \/ LaunchFails
           \/ Timeout \/ Exits \/ StaleGate \/ OpenPullRequest \/ CleanUp
  <2>1. pc \in Working /\ pc' \in Working /\ UNCHANGED <<up, row, claims, outcome>>
    BY <1>10 DEF Provision, Announce, MintAgentToken, Launch, LaunchFails, Timeout,
       SessionExits, StaleGate, OpenPullRequest, CleanUp, RetrySafe, Fails, At, Goto, Working
  <2> QED
    BY <2>1, StageValues, UnseenStutters
<1>11. CASE SubmitVerdict \/ Comment
  <2>1. pc \in Surfacing /\ pc' \in Surfacing /\ UNCHANGED <<up, row, claims, outcome>>
    BY <1>11 DEF SubmitVerdict, Comment, At, Goto, Surfacing
  <2> QED
    BY <2>1, StageValues, UnseenStutters
<1>12. CASE ResolveTargets
  <2>1. pc = "gated" /\ pc' = "resolved" /\ UNCHANGED <<up, row, claims, outcome>>
    BY <1>12 DEF ResolveTargets, At
  <2> QED
    BY <2>1, StageValues, UnseenStutters
<1>13. CASE Push \/ (\E s \in live : WriteResult(s) \/ StrayEnds(s)) \/ UNCHANGED vars
  <2>1. UNCHANGED <<pc, up, row, claims, outcome>>
    BY <1>13 DEF Push, WriteResult, StrayEnds, runVars, vars
  <2> QED
    BY <2>1, UnseenStutters
<1> QED
  BY <1>1, <1>2, <1>3, <1>4, <1>5, <1>6, <1>7, <1>8, <1>9, <1>10, <1>11, <1>12, <1>13
  DEF Next, ExecutorStep, OwnStep

\* The executor of TaskQueue is what execute_task and run_and_publish make of
\* it: with every call that may fail, every retry and every crash, a task's row
\* and its attempts move only as the server's model says they do.
THEOREM ExecutionRefinesQueue == Spec => ImplementsExecutor
<1>1. Init => Accounted
  BY DEF Init, Accounted
<1>2. Init => Queue!Init
  <2> SUFFICES ASSUME Init PROVE Queue!Init
    OBVIOUS
  <2>1. Attempts = {} /\ Minted = 0 /\ StageOf(pc) = "none"
    BY StageValues DEF Init, Attempts, Minted
  <2> QED
    BY <2>1 DEF Init, Queue!Init, Queue!StoreInit
<1>3. Sound /\ Accounted /\ [Next]_vars => [Queue!Next]_(Queue!vars)
  BY StepRefines
<1> QED
  BY <1>1, <1>2, <1>3, SoundInit, SoundStep, AccountedStep, PTL
  DEF Spec, ImplementsExecutor, Queue!Spec
=============================================================================
