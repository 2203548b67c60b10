-------------------------- MODULE TaskQueue_proofs --------------------------
(***************************************************************************)
(* Proofs about the running server: it uses the store only through the     *)
(* store's transactions, so that it inherits every theorem about the       *)
(* store, and the discipline of its executors makes the terminal states    *)
(* final, the audit trail truthful and the permission gate effective.      *)
(***************************************************************************)
EXTENDS TaskQueue, TaskStore_proofs

-----------------------------------------------------------------------------
(* The server is a client of the store.                                    *)

LEMMA GateEffectIsStoreStep ==
  ASSUME NEW t \in Task, GateEffect(t)
  PROVE  StoreNext \/ UNCHANGED storeVars
<1>1. EventOf(t).pr \in PR
  BY EventTypes DEF EventType
<1>2. ASSUME NEW S, S = {} \/ S = {t}, SupersedeQueued(EventOf(t).pr, S)
      PROVE  StoreNext
  BY <1>1, <1>2 DEF StoreNext
<1> QED BY <1>2 DEF GateEffect

LEMMA ExecutorIsStoreStep ==
  ASSUME NEW t \in Task, ExecutorStep(t)
  PROVE  StoreNext \/ UNCHANGED storeVars
<1>1. ASSUME NEW s \in Terminal, Finish(t, s) PROVE StoreNext
  BY <1>1 DEF StoreNext
<1>2. {"completed", "failed", "superseded"} = Terminal
  BY DEF Terminal
<1> QED
  BY <1>1, <1>2, GateEffectIsStoreStep
  DEF ExecutorStep, PassGate, Decline, FinishAdapterWork, PreflightFails,
      StartSession, EndSession, Published, Abandon

LEMMA NextIsStoreStep == [Next]_vars => [StoreNext]_storeVars
<1>1. ASSUME Next PROVE StoreNext \/ UNCHANGED storeVars
  <2>1. CASE \E t \in Task : ExecutorStep(t)
    BY <2>1, ExecutorIsStoreStep
  <2>2. CASE ~ \E t \in Task : ExecutorStep(t)
    BY <1>1, <2>2
    DEF Next, StoreNext, DeliverIgnored, Deliver, Uninstall, Sweep, ClaimNext,
        ClaimNothing, WakeBySignal, WakeByTimer, Crash, Restart
  <2> QED BY <2>1, <2>2
<1> QED BY <1>1 DEF vars

\* Everything proved of the store, the durable queue included, holds of the
\* running server.
THEOREM ServerUsesStore == Spec => StoreSpec
<1>1. Init => StoreInit
  BY DEF Init
<1> QED BY <1>1, NextIsStoreStep, PTL DEF Spec, StoreSpec

\* The server implements the durable queue: every delivery becomes at most one
\* job, whatever crashes, retries, sweeps and purges happen in between.
THEOREM ServerRefinesQueue == Spec => StoreImplementsQueue
BY ServerUsesStore, StoreRefinesQueue, PTL

\* The claim loop honours the max_concurrent cap of every installation, crashes
\* and restarts included.
THEOREM ServerRespectsCap == Spec => []CapRespected
BY ServerUsesStore, CapRespectedHolds, PTL

-----------------------------------------------------------------------------
(* Type correctness.                                                       *)

\* Store, claim loop and executors always hold values of their types.
THEOREM TypeCorrect == Spec => []TypeOK
<1>1. Init => TypeOK
  BY StoreInitType DEF Init, TypeOK, Stage
<1>2. TypeOK /\ [Next]_vars => TypeOK'
  <2> SUFFICES ASSUME TypeOK, [Next]_vars PROVE TypeOK'
    OBVIOUS
  <2> USE DEF TypeOK
  <2>1. StoreTypeOK'
    BY NextIsStoreStep, StoreNextType
  <2>2. ASSUME NEW t \in Task, ExecutorStep(t) PROVE TypeOK'
    BY <2>1, <2>2
    DEF ExecutorStep, PassGate, Decline, FinishAdapterWork, PreflightFails,
        StartSession, EndSession, Published, Abandon, Become, Stage
  <2>3. CASE UNCHANGED vars
    BY <2>1, <2>3 DEF vars, procVars
  <2>4. CASE Next /\ ~ \E t \in Task : ExecutorStep(t)
    BY <2>1, <2>4
    DEF Next, DeliverIgnored, Deliver, Uninstall, Sweep, ClaimNext,
        ClaimNothing, WakeBySignal, WakeByTimer, Crash, Restart, Stage, procVars
  <2> QED BY <2>2, <2>3, <2>4
<1> QED BY <1>1, <1>2, PTL DEF Spec

-----------------------------------------------------------------------------
(* Who owns a row.                                                         *)

\* A dead process has no executors, and an executor's task was once minted:
\* the two facts that keep a queued row free of executors.
ExecInv ==
  /\ TypeOK
  /\ ExecutorOwnsRow
  /\ \A t \in Task : exec[t] # "none" => up /\ created[t] > 0

AtWork == {"claimed", "gated", "session"}

Moves(t, s) == exec' = [exec EXCEPT ![t] = s]

\* An executor of t leaves the store alone, finishes its own row while it is
\* at work on it, or withdraws queued reviews of its PR past the gate.
Idles(t)     == /\ exec[t] # "none"
                /\ UNCHANGED storeVars
                /\ \E s \in Stage : /\ s # "none" => exec[t] \in AtWork
                                    /\ Moves(t, s)
Ends(t)      == /\ exec[t] \in AtWork
                /\ \E s \in Terminal : Finish(t, s)
                /\ \E s \in {"none", "publishing"} : Moves(t, s)
Withdraws(t) == /\ exec[t] = "claimed" /\ Moves(t, "gated")
                /\ KindOf(t) \in {"review", "cancel"}
                /\ CommanderOf(t) # "reader"
                /\ \E S : SupersedeQueued(EventOf(t).pr, S)

LEMMA ExecutorStepShape ==
  ASSUME NEW t \in Task, ExecutorStep(t)
  PROVE  up /\ UNCHANGED up /\ (Idles(t) \/ Ends(t) \/ Withdraws(t))
<1> USE DEF Become, Moves, Stage, AtWork, Terminal
<1>1. CASE PassGate(t)
  <2>1. UNCHANGED storeVars \/ (/\ KindOf(t) \in {"review", "cancel"}
                               /\ \E S : SupersedeQueued(EventOf(t).pr, S))
    BY <1>1 DEF PassGate, GateEffect
  <2> QED BY <1>1, <2>1 DEF PassGate, Idles, Withdraws
<1>2. CASE Decline(t)
  BY <1>2 DEF Decline, Ends
<1>3. CASE FinishAdapterWork(t)
  BY <1>3 DEF FinishAdapterWork, Ends
<1>4. CASE PreflightFails(t)
  BY <1>4 DEF PreflightFails, Ends
<1>5. CASE StartSession(t)
  BY <1>5 DEF StartSession, Idles
<1>6. CASE EndSession(t)
  BY <1>6 DEF EndSession, Idles, Ends
<1>7. CASE Published(t)
  BY <1>7 DEF Published, Idles
<1>8. CASE Abandon(t)
  BY <1>8 DEF Abandon, Idles
<1> QED
  BY <1>1, <1>2, <1>3, <1>4, <1>5, <1>6, <1>7, <1>8 DEF ExecutorStep

LEMMA ExecInvStep ==
  ASSUME ExecInv, TypeOK', StoreInv, [Next]_vars
  PROVE  ExecInv'
<1> USE DEF ExecInv, ExecutorOwnsRow, TypeOK, StoreTypeOK
<1>1. ASSUME NEW d \in Delivery, DeliverIgnored(d) PROVE ExecInv'
  BY <1>1 DEF DeliverIgnored, RecordIgnored, procVars
<1>2. ASSUME NEW d \in Delivery, NEW t \in Task, Deliver(d, t) PROVE ExecInv'
  <2>1. /\ UNCHANGED <<up, exec>> /\ created[t] = 0 /\ state'[t] = "queued"
        /\ created' = [created EXCEPT ![t] = clock + 1]
        /\ \A u \in Task \ {t} : \/ state'[u] = state[u]
                                 \/ state[u] = "queued" /\ state'[u] = "superseded"
    BY <1>2 DEF Deliver, RecordTask, Tombstone, Displaced, QueuedReviews
  <2> QED BY <2>1
<1>3. ASSUME NEW i \in Installation, Uninstall(i) PROVE ExecInv'
  BY <1>3 DEF Uninstall, DeleteInstallation, Deleted, procVars
<1>4. ASSUME NEW S \in SUBSET Task, Sweep(S) PROVE ExecInv'
  BY <1>4 DEF Sweep, ExpireTerminal, Deleted, procVars
<1>5. ASSUME NEW t \in Task, ClaimNext(t) PROVE ExecInv'
  <2>1. Present(t)
    BY <1>5 DEF ClaimNext, Claim, Claimable, Present
  <2>2. created[t] > 0
    BY <2>1 DEF StoreInv, OneTaskPerDelivery
  <2> QED BY <1>5, <2>2 DEF ClaimNext, Claim
<1>6. CASE ClaimNothing \/ WakeBySignal \/ WakeByTimer
  BY <1>6 DEF ClaimNothing, WakeBySignal, WakeByTimer, storeVars
<1>7. ASSUME NEW t \in Task, ExecutorStep(t) PROVE ExecInv'
  <2>1. up /\ up' /\ (Idles(t) \/ Ends(t) \/ Withdraws(t))
    BY <1>7, ExecutorStepShape
  <2>2. CASE Idles(t)
    BY <2>1, <2>2 DEF Idles, Moves, AtWork, Stage, storeVars
  <2>3. CASE Ends(t)
    BY <2>1, <2>3 DEF Ends, Moves, Finish, AtWork, Terminal
  <2>4. CASE Withdraws(t)
    BY <2>1, <2>4
    DEF Withdraws, Moves, SupersedeQueued, Tombstone, QueuedReviews
  <2> QED BY <2>1, <2>2, <2>3, <2>4
<1>8. CASE Crash
  BY <1>8 DEF Crash, storeVars
<1>9. CASE Restart
  BY <1>9 DEF Restart, Recover
<1>10. CASE UNCHANGED vars
  BY <1>10 DEF vars, storeVars, procVars
<1> QED
  BY <1>1, <1>2, <1>3, <1>4, <1>5, <1>6, <1>7, <1>8, <1>9, <1>10 DEF Next

LEMMA ServerInvariant == Spec => [](StoreInv /\ ExecInv)
<1>1. Init => ExecInv
  BY StoreInitType DEF Init, ExecInv, ExecutorOwnsRow, TypeOK, Stage
<1>2. TypeOK' /\ StoreInv /\ ExecInv /\ [Next]_vars => ExecInv'
  BY ExecInvStep
<1> QED
  BY <1>1, <1>2, TypeCorrect, ServerUsesStore, StoreInvariant, PTL DEF Spec

\* claim_next never hands a row to a second executor of the same process:
\* nobody requeues, expires or finishes a row under the executor at work on it.
THEOREM ExecutorOwnsRowHolds == Spec => []ExecutorOwnsRow
BY ServerInvariant, PTL DEF ExecInv

-----------------------------------------------------------------------------
(* What one step of the server can do to one row.                          *)

\* Rewriting an attempt set with no open row changes nothing.
LEMMA CloseClosed ==
  ASSUME NEW rows, NEW o, \A r \in rows : r.outcome # "open"
  PROVE  Close(rows, o) = rows
BY DEF Close

\* Rewriting an attempt set: the closed rows stay, the open ones end with o.
LEMMA CloseOutcomes ==
  ASSUME NEW rows \in SUBSET AttemptRow, NEW o
  PROVE  /\ \A q \in Close(rows, o) :
              \/ q \in rows /\ q.outcome # "open"
              \/ q.outcome = o /\ \E r \in rows : r.outcome = "open" /\ q.attempt = r.attempt
         /\ \A r \in rows : r.outcome = "open" =>
              \E q \in Close(rows, o) : q.outcome = o /\ q.attempt = r.attempt
<1> DEFINE closed(r) == [attempt |-> r.attempt, outcome |-> o]
<1>1. \A q : q \in Close(rows, o) <=>
               \/ q \in rows /\ q.outcome # "open"
               \/ \E r \in rows : r.outcome = "open" /\ q = closed(r)
  BY DEF Close
<1>2. \A r : closed(r).attempt = r.attempt /\ closed(r).outcome = o
  OBVIOUS
<1> HIDE DEF closed
<1>3. \A q \in Close(rows, o) :
        \/ q \in rows /\ q.outcome # "open"
        \/ q.outcome = o /\ \E r \in rows : r.outcome = "open" /\ q.attempt = r.attempt
  BY <1>1, <1>2
<1>4. ASSUME NEW r \in rows, r.outcome = "open"
      PROVE  \E q \in Close(rows, o) : q.outcome = o /\ q.attempt = r.attempt
  <2>1. closed(r) \in Close(rows, o)
    BY <1>1, <1>4
  <2> QED BY <1>2, <2>1
<1> QED BY <1>3, <1>4

\* u may take the queued review t out of the queue: an event of t's PR that is
\* on record and that no commenter below write access commanded.
MayDisplace(u, t) ==
  /\ created[u] > 0
  /\ KindOf(u) \in {"review", "cancel"} /\ EventOf(u).pr = EventOf(t).pr
  /\ CommanderOf(u) # "reader"

SameAttempts(t) == attempts'[t] = attempts[t] /\ ledger'[t] = ledger[t]

RowKept(t)    == state'[t] = state[t] /\ SameAttempts(t)
RowPurged(t)  == state'[t] = "absent" /\ attempts'[t] = 0 /\ ledger'[t] = {}
RowEnters(t)  == state[t] = "absent" /\ state'[t] = "queued" /\ SameAttempts(t)
RowStarts(t)  == /\ state[t] = "queued" /\ state'[t] = "running"
                 /\ attempts'[t] = attempts[t] + 1
                 /\ ledger'[t] = ledger[t] \union
                      {[attempt |-> attempts[t] + 1, outcome |-> "open"]}
RowEnds(t)    == /\ state[t] = "running" /\ state'[t] \in Terminal
                 /\ attempts'[t] = attempts[t]
                 /\ ledger'[t] = Close(ledger[t], state'[t])
RowRecovers(t) == /\ state[t] = "running" /\ state'[t] = AfterInterruption(t)
                  /\ attempts'[t] = attempts[t]
                  /\ ledger'[t] = Close(ledger[t], "interrupted")
RowYields(t)  == /\ state[t] = "queued" /\ state'[t] = "superseded"
                 /\ SameAttempts(t)
                 /\ \E u \in Task \ {t} : MayDisplace(u, t)'

RowStep(t) == \/ RowKept(t) \/ RowPurged(t) \/ RowEnters(t) \/ RowStarts(t)
              \/ RowEnds(t) \/ RowRecovers(t) \/ RowYields(t)

\* A row that is not running has no open attempt to close.
LEMMA IdleRowIsClosed ==
  ASSUME StoreInv, NEW t \in Task, state[t] # "running", NEW o
  PROVE  Close(ledger[t], o) = ledger[t]
BY CloseClosed DEF StoreInv, AttemptLedger

LEMMA DeliverRowStep ==
  ASSUME StoreInv, NEW d \in Delivery, NEW u \in Task, Deliver(d, u), NEW t \in Task
  PROVE  RowStep(t)
<1> USE DEF StoreInv, StoreTypeOK
<1>1. RecordTask(d, u)
  BY DEF Deliver
<1>2. SameAttempts(t) /\ state[u] = "absent" /\ state'[u] = "queued" /\ created'[u] > 0
  BY <1>1 DEF RecordTask, Tombstone, SameAttempts, OneTaskPerDelivery, Present
<1>3. CASE t = u
  BY <1>2, <1>3 DEF RowStep, RowEnters
<1>4. CASE t # u /\ t \in Displaced(d)
  <2>1. /\ state[t] = "queued" /\ state'[t] = "superseded"
        /\ EventOf(u).kind = "review" /\ EventOf(u).commander = "nobody"
        /\ EventOf(u).pr = EventOf(t).pr
    BY <1>1, <1>4
    DEF RecordTask, Tombstone, Displaced, QueuedReviews, IsReviewOf, EventOf
  <2>2. MayDisplace(u, t)'
    BY <1>2, <2>1 DEF MayDisplace, KindOf, CommanderOf, EventOf
  <2> QED BY <1>2, <1>4, <2>1, <2>2 DEF RowStep, RowYields
<1>5. CASE t # u /\ t \notin Displaced(d)
  BY <1>1, <1>2, <1>5 DEF RecordTask, Tombstone, RowStep, RowKept
<1> QED BY <1>3, <1>4, <1>5

LEMMA ExecutorRowStep ==
  ASSUME StoreInv, ExecInv, NEW u \in Task, ExecutorStep(u), NEW t \in Task
  PROVE  RowStep(t)
<1> USE DEF StoreInv, StoreTypeOK, RowStep
<1>1. Idles(u) \/ Ends(u) \/ Withdraws(u)
  BY ExecutorStepShape
<1>2. CASE Idles(u)
  BY <1>2 DEF Idles, storeVars, RowKept, SameAttempts
<1>3. CASE Ends(u)
  <2>1. PICK s \in Terminal : Finish(u, s)
    BY <1>3 DEF Ends
  <2>2. state[u] \in {"running", "absent"}
    BY <1>3 DEF Ends, AtWork, ExecInv, ExecutorOwnsRow
  <2>3. CASE t = u /\ state[u] = "running"
    BY <2>1, <2>3 DEF Finish, Present, RowEnds
  <2>4. CASE t # u \/ state[u] = "absent"
    BY <2>1, <2>4, IdleRowIsClosed DEF Finish, Present, RowKept, SameAttempts
  <2> QED BY <2>2, <2>3, <2>4
<1>4. CASE Withdraws(u)
  <2>1. PICK S : SupersedeQueued(EventOf(u).pr, S)
    BY <1>4 DEF Withdraws
  <2>2. state[u] # "queued" /\ created[u] > 0
    BY <1>4 DEF Withdraws, ExecInv, ExecutorOwnsRow
  <2>3. CASE t \in QueuedReviews(EventOf(u).pr) \ S
    <3>1. /\ state[t] = "queued" /\ state'[t] = "superseded" /\ SameAttempts(t)
          /\ EventOf(u).pr = EventOf(t).pr
      BY <2>1, <2>3
      DEF SupersedeQueued, Tombstone, QueuedReviews, IsReviewOf, SameAttempts
    <3>2. MayDisplace(u, t)'
      BY <1>4, <2>1, <2>2, <3>1
      DEF MayDisplace, Withdraws, SupersedeQueued, KindOf, CommanderOf, EventOf
    <3> QED BY <2>2, <3>1, <3>2 DEF RowYields
  <2>4. CASE t \notin QueuedReviews(EventOf(u).pr) \ S
    BY <2>1, <2>4 DEF SupersedeQueued, Tombstone, RowKept, SameAttempts
  <2> QED BY <2>3, <2>4
<1> QED BY <1>1, <1>2, <1>3, <1>4

LEMMA EveryRowStep ==
  ASSUME StoreInv, ExecInv, [Next]_vars, NEW t \in Task
  PROVE  RowStep(t)
<1> USE DEF StoreInv, StoreTypeOK
<1>1. ASSUME NEW d \in Delivery, DeliverIgnored(d) PROVE RowStep(t)
  BY <1>1 DEF DeliverIgnored, RecordIgnored, RowStep, RowKept, SameAttempts
<1>2. ASSUME NEW d \in Delivery, NEW u \in Task, Deliver(d, u) PROVE RowStep(t)
  BY <1>2, DeliverRowStep
<1>3. ASSUME NEW S, Deleted(S) PROVE RowStep(t)
  BY <1>3 DEF Deleted, RowStep, RowKept, RowPurged, SameAttempts
<1>4. ASSUME NEW u \in Task, ClaimNext(u) PROVE RowStep(t)
  BY <1>4 DEF ClaimNext, Claim, Claimable, RowStep, RowKept, RowStarts, SameAttempts
<1>5. ASSUME NEW u \in Task, ExecutorStep(u) PROVE RowStep(t)
  BY <1>5, ExecutorRowStep
<1>6. CASE Restart
  <2>1. CASE state[t] = "running"
    BY <1>6, <2>1 DEF Restart, Recover, RowStep, RowRecovers
  <2>2. CASE state[t] # "running"
    BY <1>6, <2>2, IdleRowIsClosed
    DEF Restart, Recover, AfterInterruption, RowStep, RowKept, SameAttempts
  <2> QED BY <2>1, <2>2
<1>7. CASE UNCHANGED storeVars
  BY <1>7 DEF storeVars, RowStep, RowKept, SameAttempts
<1> QED
  BY <1>1, <1>2, <1>3, <1>4, <1>5, <1>6, <1>7
  DEF Next, vars, Uninstall, DeleteInstallation, Sweep, ExpireTerminal,
      ClaimNothing, WakeBySignal, WakeByTimer, Crash

-----------------------------------------------------------------------------
(* The terminal states.                                                    *)

\* A completed, failed or superseded row is never rewritten, although finish
\* looks at no state: nobody holds an executor on such a row, and the other
\* transactions write only queued or running ones.
THEOREM TerminalStatesAreFinal == Spec => TerminalIsFinal
<1>1. StoreInv /\ ExecInv /\ [Next]_vars =>
        \A t \in Task : state[t] \in Terminal => state'[t] \in {state[t], "absent"}
  BY EveryRowStep
  DEF RowStep, RowKept, RowPurged, RowEnters, RowStarts, RowEnds, RowRecovers,
      RowYields, Terminal
<1> QED BY <1>1, ServerInvariant, PTL DEF Spec, TerminalIsFinal

-----------------------------------------------------------------------------
(* The audit trail.                                                        *)

\* The audit trail of one row; AuditTrail says it of all of them.
AuditRow(t) ==
  /\ \A r \in ledger[t] : r.attempt < attempts[t] => r.outcome = "interrupted"
  /\ state[t] = "completed"  => LastAttempt(t, "completed")
  /\ state[t] = "failed"     => \/ LastAttempt(t, "failed")
                                \/ AllInterrupted(t) /\ attempts[t] = MaxAttempts
  /\ state[t] = "superseded" => LastAttempt(t, "superseded") \/ AllInterrupted(t)
  /\ state[t] = "queued"     => AllInterrupted(t)

\* A running row has one open attempt, its last, behind interrupted ones.
LEMMA RunningLedger ==
  ASSUME StoreInv, NEW t \in Task, AuditRow(t), state[t] = "running"
  PROVE  /\ attempts[t] \in Nat /\ ledger[t] \in SUBSET AttemptRow
         /\ \A r \in ledger[t] : r.attempt \in 1..attempts[t]
         /\ \A r \in ledger[t] : r.outcome = "open" <=> r.attempt = attempts[t]
         /\ \A r \in ledger[t] : r.outcome # "open" => r.outcome = "interrupted"
         /\ \E r \in ledger[t] : r.outcome = "open" /\ r.attempt = attempts[t]
<1>1. attempts[t] \in Nat /\ attempts[t] > 0 /\ ledger[t] \in SUBSET AttemptRow
  BY DEF StoreInv, StoreTypeOK, AttemptsBounded
<1>2. /\ \A n \in 1..attempts[t] : \E r \in ledger[t] : r.attempt = n
      /\ \A r \in ledger[t] : r.attempt \in 1..attempts[t]
      /\ \A r \in ledger[t] : r.outcome = "open" <=> r.attempt = attempts[t]
  BY DEF StoreInv, AttemptLedger
<1>3. \A r \in ledger[t] : r.outcome # "open" => r.outcome = "interrupted"
  BY <1>1, <1>2 DEF AuditRow
<1>4. \E r \in ledger[t] : r.attempt = attempts[t]
  BY <1>1, <1>2
<1> QED BY <1>1, <1>2, <1>3, <1>4

LEMMA AuditRowStep ==
  ASSUME StoreInv, NEW t \in Task, AuditRow(t), RowStep(t)
  PROVE  AuditRow(t)'
<1> USE DEF AuditRow, LastAttempt, AllInterrupted
<1>1. CASE RowKept(t)
  BY <1>1 DEF RowKept, SameAttempts
<1>2. CASE RowPurged(t)
  BY <1>2 DEF RowPurged
<1>3. CASE RowEnters(t)
  <2>1. ledger[t] = {}
    BY <1>3 DEF RowEnters, StoreInv, AttemptLedger, RowsWellFormed, Present
  <2> QED BY <1>3, <2>1 DEF RowEnters, SameAttempts
<1>4. CASE RowStarts(t)
  <2>1. /\ state'[t] = "running" /\ attempts'[t] = attempts[t] + 1
        /\ \A r \in ledger'[t] : r \in ledger[t] \/ r.attempt = attempts[t] + 1
    BY <1>4 DEF RowStarts
  <2>2. attempts[t] \in Nat /\ \A r \in ledger[t] : r.outcome = "interrupted"
    BY <1>4 DEF RowStarts, StoreInv, StoreTypeOK
  <2> QED BY <2>1, <2>2
<1>5. CASE RowEnds(t)
  <2> DEFINE s == state'[t]
  <2>1. /\ attempts'[t] = attempts[t]
        /\ \A r \in ledger'[t] : \/ r.outcome = "interrupted"
                                 \/ r.outcome = s /\ r.attempt = attempts[t]
        /\ \E r \in ledger'[t] : r.outcome = s /\ r.attempt = attempts[t]
    BY <1>5, RunningLedger, CloseOutcomes DEF RowEnds
  <2>2. s \in Terminal /\ attempts[t] \in Nat
    BY <1>5, RunningLedger DEF RowEnds
  <2> QED BY <2>1, <2>2 DEF Terminal
<1>6. CASE RowRecovers(t)
  <2>1. /\ attempts'[t] = attempts[t]
        /\ \A r \in ledger'[t] : r.outcome = "interrupted"
    BY <1>6, RunningLedger, CloseOutcomes DEF RowRecovers
  <2>2. state'[t] \in {"failed", "queued"}
    BY <1>6 DEF RowRecovers, AfterInterruption
  <2>3. state'[t] = "failed" => attempts[t] = MaxAttempts
    BY <1>6, StoreAssumption
    DEF RowRecovers, AfterInterruption, StoreInv, StoreTypeOK, AttemptsBounded
  <2> QED BY <2>1, <2>2, <2>3
<1>7. CASE RowYields(t)
  BY <1>7 DEF RowYields, SameAttempts
<1> QED BY <1>1, <1>2, <1>3, <1>4, <1>5, <1>6, <1>7 DEF RowStep

\* The attempt table tells what happened to a row: its last attempt carries the
\* outcome the row shows and the earlier ones were interrupted by crashes.
THEOREM AuditTrailHolds == Spec => []AuditTrail
<1>1. AuditTrail <=> \A t \in Task : AuditRow(t)
  BY DEF AuditTrail, AuditRow
<1>2. AuditTrail' <=> \A t \in Task : AuditRow(t)'
  BY DEF AuditTrail, AuditRow
<1>3. Init => AuditTrail
  BY DEF Init, StoreInit, AuditTrail
<1>4. StoreInv /\ ExecInv /\ AuditTrail /\ [Next]_vars => AuditTrail'
  BY <1>1, <1>2, EveryRowStep, AuditRowStep
<1> QED BY <1>3, <1>4, ServerInvariant, PTL DEF Spec

-----------------------------------------------------------------------------
(* The permission gate.                                                    *)

\* The time a task was recorded is never forgotten.
LEMMA RecordedForGood ==
  ASSUME StoreInv, [Next]_vars, NEW u \in Task, created[u] > 0
  PROVE  created'[u] > 0
<1>1. [StoreNext]_storeVars
  BY NextIsStoreStep
<1>2. ASSUME NEW d \in Delivery, NEW t \in Task, RecordTask(d, t)
      PROVE  created'[u] = created[u]
  BY <1>2 DEF RecordTask, StoreInv, StoreTypeOK
<1>3. CASE UNCHANGED created
  BY <1>3
<1> QED
  BY <1>1, <1>2, <1>3
  DEF StoreNext, storeVars, RecordIgnored, Claim, Finish, SupersedeQueued,
      Recover, DeleteInstallation, ExpireTerminal

\* A review withdrawn before anybody worked on it yielded to an event of its PR
\* that was automatic or came from a commenter with write access: supersession
\* at insertion is for automatic reviews, the rest waits for the gate.
THEOREM DriveByNeverDisplacesHolds == Spec => []DriveByNeverDisplaces
<1> DEFINE Withdrawn(t) == state[t] = "superseded" /\ AllInterrupted(t)
           Yielded(t)   == \E u \in Task \ {t} : MayDisplace(u, t)
<1>1. DriveByNeverDisplaces <=> \A t \in Task : Withdrawn(t) => Yielded(t)
  BY DEF DriveByNeverDisplaces, MayDisplace
<1>2. DriveByNeverDisplaces' <=> \A t \in Task : Withdrawn(t)' => Yielded(t)'
  BY DEF DriveByNeverDisplaces, MayDisplace
<1>3. Init => DriveByNeverDisplaces
  BY DEF Init, StoreInit, DriveByNeverDisplaces
<1>4. StoreInv /\ ExecInv /\ AuditTrail /\ DriveByNeverDisplaces /\ [Next]_vars
        => DriveByNeverDisplaces'
  <2> SUFFICES ASSUME StoreInv, ExecInv, AuditTrail, DriveByNeverDisplaces,
                      [Next]_vars, NEW t \in Task, Withdrawn(t)'
               PROVE  Yielded(t)'
    BY <1>2
  <2>1. RowStep(t)
    BY EveryRowStep
  <2>2. CASE RowYields(t)
    BY <2>2 DEF RowYields
  <2>3. CASE Withdrawn(t)
    <3>1. PICK u \in Task \ {t} : MayDisplace(u, t)
      BY <1>1, <2>3
    <3>2. created'[u] > 0
      BY <3>1, RecordedForGood DEF MayDisplace
    <3>3. MayDisplace(u, t)'
      BY <3>1, <3>2 DEF MayDisplace, KindOf, CommanderOf, EventOf
    <3> QED BY <3>3
  <2>4. CASE RowEnds(t)
    <3>1. \E r \in ledger'[t] : r.outcome = "superseded"
      BY <2>4, RunningLedger, CloseOutcomes DEF AuditTrail, AuditRow, RowEnds
    <3> QED BY <3>1 DEF AllInterrupted
  <2> QED
    BY <2>1, <2>2, <2>3, <2>4
    DEF RowStep, RowKept, RowPurged, RowEnters, RowStarts, RowRecovers,
        AfterInterruption, SameAttempts, AllInterrupted
<1> QED BY <1>3, <1>4, ServerInvariant, AuditTrailHolds, PTL DEF Spec

=============================================================================
