-------------------------- MODULE TaskStore_proofs --------------------------
(***************************************************************************)
(* Proofs about the durable store: its invariants, for any set of          *)
(* deliveries, tasks and installations, any caps and any attempt bound,    *)
(* and that it implements the durable queue.                               *)
(***************************************************************************)
EXTENDS TaskStoreQueue, Oversight, FiniteSetTheorems, TLAPS

-----------------------------------------------------------------------------
(* Type correctness. *)

\* Rewriting the open rows of an attempt set yields an attempt set.
LEMMA CloseType ==
  ASSUME NEW rows \in SUBSET AttemptRow, NEW o \in Outcome
  PROVE  Close(rows, o) \in SUBSET AttemptRow
BY DEF Close, AttemptRow

LEMMA EventTypes ==
  ASSUME NEW t \in Task
  PROVE  EventOf(t) \in EventType /\ InstallationOf(t) \in Installation
BY StoreAssumption DEF EventOf, InstallationOf, EventType

LEMMA StoreInitType == StoreInit => StoreTypeOK
BY DEF StoreInit, StoreTypeOK, State

\* Every column keeps its type through every transaction.
LEMMA StoreNextType == StoreTypeOK /\ [StoreNext]_storeVars => StoreTypeOK'
<1> SUFFICES ASSUME StoreTypeOK, [StoreNext]_storeVars
             PROVE  StoreTypeOK'
  OBVIOUS
<1> USE DEF StoreTypeOK
<1>1. ASSUME NEW d \in Delivery, RecordIgnored(d) PROVE StoreTypeOK'
  BY <1>1 DEF RecordIgnored
<1>2. ASSUME NEW d \in Delivery, NEW t \in Task, RecordTask(d, t) PROVE StoreTypeOK'
  BY <1>2 DEF RecordTask, Tombstone, State, Terminal
<1>3. ASSUME NEW t \in Task, Claim(t) PROVE StoreTypeOK'
  <2>1. [attempt |-> attempts[t] + 1, outcome |-> "open"] \in AttemptRow
    BY DEF AttemptRow, Outcome
  <2> QED BY <1>3, <2>1 DEF Claim, State
<1>4. ASSUME NEW t \in Task, NEW s \in Terminal, Finish(t, s) PROVE StoreTypeOK'
  BY <1>4, CloseType DEF Finish, State, Outcome
<1>5. ASSUME NEW p, NEW S, SupersedeQueued(p, S) PROVE StoreTypeOK'
  BY <1>5 DEF SupersedeQueued, Tombstone, State, Terminal
<1>6. ASSUME Recover PROVE StoreTypeOK'
  BY <1>6, CloseType DEF Recover, AfterInterruption, State, Terminal, Outcome
<1>7. ASSUME NEW i \in Installation, DeleteInstallation(i) PROVE StoreTypeOK'
  BY <1>7 DEF DeleteInstallation, Deleted, State
<1>8. ASSUME NEW S \in SUBSET Task, ExpireTerminal(S) PROVE StoreTypeOK'
  BY <1>8 DEF ExpireTerminal, Deleted, State
<1>9. CASE UNCHANGED storeVars
  BY <1>9 DEF storeVars
<1> QED
  BY <1>1, <1>2, <1>3, <1>4, <1>5, <1>6, <1>7, <1>8, <1>9 DEF StoreNext

\* The columns of the store always hold values of their types.
THEOREM StoreTypeCorrect == StoreSpec => []StoreTypeOK
BY StoreInitType, StoreNextType, PTL DEF StoreSpec

-----------------------------------------------------------------------------
(* The invariant that makes the others inductive.                          *)

\* A row that is gone leaves no attempt behind, and created_at never exceeds
\* the clock.
RowsWellFormed ==
  \A t \in Task :
    /\ created[t] <= clock
    /\ ~Present(t) => attempts[t] = 0

StoreInv ==
  /\ StoreTypeOK
  /\ RowsWellFormed
  /\ AttemptLedger
  /\ AttemptsBounded
  /\ OneTaskPerDelivery
  /\ NewerReviewWins

\* What Close does to one attempt set: the numbers stay, nothing stays open.
LEMMA CloseRows ==
  ASSUME NEW rows \in SUBSET AttemptRow, NEW o \in Outcome \ {"open"}
  PROVE  /\ \A q \in Close(rows, o) :
              /\ q.outcome # "open"
              /\ \E r \in rows : r.attempt = q.attempt
         /\ \A r \in rows : \E q \in Close(rows, o) : r.attempt = q.attempt
         /\ (\A r, q \in rows : r.attempt = q.attempt => r = q)
            => \A r, q \in Close(rows, o) : r.attempt = q.attempt => r = q
<1> DEFINE closed(r) == [attempt |-> r.attempt, outcome |-> o]
<1>1. \A q : q \in Close(rows, o) <=>
               \/ q \in rows /\ q.outcome # "open"
               \/ \E r \in rows : r.outcome = "open" /\ q = closed(r)
  BY DEF Close
<1>2. \A r : closed(r).attempt = r.attempt /\ closed(r).outcome = o
  OBVIOUS
<1>3. \A q \in Close(rows, o) :
        q.outcome # "open" /\ \E r \in rows : r.attempt = q.attempt
  BY <1>1, <1>2
<1>4. \A r \in rows : \E q \in Close(rows, o) : r.attempt = q.attempt
  BY <1>1, <1>2
<1>5. ASSUME \A r, q \in rows : r.attempt = q.attempt => r = q
      PROVE  \A r, q \in Close(rows, o) : r.attempt = q.attempt => r = q
  BY <1>1, <1>2, <1>5
<1> QED BY <1>3, <1>4, <1>5

LEMMA StoreInitInv == StoreInit => StoreInv
<1> SUFFICES ASSUME StoreInit PROVE StoreInv
  OBVIOUS
<1>1. StoreTypeOK
  BY StoreInitType
<1>2. RowsWellFormed /\ AttemptsBounded /\ OneTaskPerDelivery /\ NewerReviewWins
  BY StoreAssumption
  DEF StoreInit, RowsWellFormed, AttemptsBounded, OneTaskPerDelivery,
      NewerReviewWins, Present
<1>3. AttemptLedger
  BY DEF StoreInit, AttemptLedger
<1> QED BY <1>1, <1>2, <1>3 DEF StoreInv

LEMMA RecordTaskInv ==
  ASSUME StoreInv, StoreTypeOK', NEW d \in Delivery, NEW t \in Task, RecordTask(d, t)
  PROVE  StoreInv'
<1> USE DEF StoreInv, StoreTypeOK
<1>1. /\ ~Present(t)
      /\ state'[t] = "queued"
      /\ created'[t] = clock + 1
      /\ \A u \in Task \ {t} :
           /\ created'[u] = created[u]
           /\ state'[u] = IF u \in Displaced(d) THEN "superseded" ELSE state[u]
  BY DEF RecordTask, Tombstone, OneTaskPerDelivery
<1>2. \A u \in Displaced(d) : state[u] = "queued"
  BY DEF Displaced, QueuedReviews
<1>3. RowsWellFormed'
  BY <1>1, <1>2 DEF RowsWellFormed, RecordTask, Present
<1>4. AttemptLedger'
  BY <1>1, <1>2 DEF AttemptLedger, RecordTask, Present
<1>5. AttemptsBounded'
  BY <1>1, <1>2, StoreAssumption DEF AttemptsBounded, RecordTask, RowsWellFormed
<1>6. OneTaskPerDelivery'
  <2>1. \A u \in Task \ {t} : Present(u)' <=> Present(u)
    BY <1>1, <1>2 DEF Present
  <2>2. \A u \in Task : Present(u) => Source[u] # d
    BY StoreAssumption DEF OneTaskPerDelivery, RecordTask
  <2> QED
    BY <1>1, <2>1, <2>2, StoreAssumption DEF OneTaskPerDelivery, RecordTask
<1>7. NewerReviewWins'
  <2> SUFFICES ASSUME NEW a \in Task, NEW b \in Task,
                      EventOf(b).kind = "review", EventOf(b).commander = "nobody",
                      IsReviewOf(a, EventOf(b).pr),
                      state'[a] = "queued", attempts'[a] = 0
               PROVE  created'[b] <= created'[a]
    BY DEF NewerReviewWins
  <2>1. CASE a = t
    BY <1>1, <2>1 DEF RowsWellFormed
  <2>2. CASE a # t /\ b = t
    <3>1. state[a] = "queued" /\ a \notin Displaced(d)
      BY <1>1, <2>2
    <3>2. a \in Displaced(d)
      BY <3>1, <2>2 DEF Displaced, QueuedReviews, RecordTask, EventOf
    <3> QED BY <3>1, <3>2
  <2>3. CASE a # t /\ b # t
    BY <1>1, <2>3 DEF NewerReviewWins, RecordTask
  <2> QED BY <2>1, <2>2, <2>3
<1> QED BY <1>3, <1>4, <1>5, <1>6, <1>7

LEMMA ClaimInv ==
  ASSUME StoreInv, StoreTypeOK', NEW t \in Task, Claim(t)
  PROVE  StoreInv'
<1> USE DEF StoreInv, StoreTypeOK
<1> DEFINE row == [attempt |-> attempts[t] + 1, outcome |-> "open"]
<1>1. /\ state[t] = "queued" /\ state'[t] = "running"
      /\ attempts'[t] = attempts[t] + 1
      /\ ledger'[t] = ledger[t] \union {row}
      /\ \A u \in Task \ {t} : /\ state'[u] = state[u]
                               /\ attempts'[u] = attempts[u]
                               /\ ledger'[u] = ledger[u]
  BY DEF Claim, Claimable
<1>3. RowsWellFormed' /\ OneTaskPerDelivery'
  BY <1>1 DEF RowsWellFormed, OneTaskPerDelivery, Claim, Present
<1>4. AttemptLedger'
  <2>1. row.attempt = attempts[t] + 1 /\ row.outcome = "open"
    OBVIOUS
  <2>2. \A r \in ledger[t] : r.attempt \in 1..attempts[t] /\ r.outcome # "open"
    BY <1>1 DEF AttemptLedger
  <2>3. \A n \in 1..attempts'[t] : \E r \in ledger'[t] : r.attempt = n
    <3>1. \A n \in 1..attempts'[t] : n = attempts[t] + 1 \/ n \in 1..attempts[t]
      BY <1>1
    <3>2. row \in ledger'[t] /\ ledger[t] \subseteq ledger'[t]
      BY <1>1
    <3> HIDE DEF row
    <3> QED BY <2>1, <3>1, <3>2 DEF AttemptLedger
  <2>4. \A r \in ledger'[t] :
          /\ r.attempt \in 1..attempts'[t]
          /\ r.outcome = "open" <=> state'[t] = "running" /\ r.attempt = attempts'[t]
    BY <1>1, <2>1, <2>2
  <2>5. \A r, q \in ledger'[t] : r.attempt = q.attempt => r = q
    BY <1>1, <2>1, <2>2 DEF AttemptLedger
  <2> QED BY <1>1, <2>3, <2>4, <2>5 DEF AttemptLedger
<1>5. AttemptsBounded'
  BY <1>1, StoreAssumption DEF AttemptsBounded
<1>6. NewerReviewWins'
  BY <1>1 DEF NewerReviewWins, Claim
<1> QED BY <1>3, <1>4, <1>5, <1>6

LEMMA FinishInv ==
  ASSUME StoreInv, StoreTypeOK', NEW t \in Task, NEW s \in Terminal, Finish(t, s)
  PROVE  StoreInv'
<1> USE DEF StoreInv, StoreTypeOK
<1>1. /\ state'[t] = IF Present(t) THEN s ELSE "absent"
      /\ ledger'[t] = Close(ledger[t], s)
      /\ \A u \in Task \ {t} : state'[u] = state[u] /\ ledger'[u] = ledger[u]
  BY DEF Finish
<1>2. state'[t] \notin {"queued", "running"} /\ (state'[t] # "absent" <=> Present(t))
  BY <1>1 DEF Terminal, Present
<1>3. RowsWellFormed' /\ OneTaskPerDelivery'
  BY <1>1, <1>2 DEF RowsWellFormed, OneTaskPerDelivery, Finish, Present
<1>4. AttemptLedger'
  <2>1. s \in Outcome \ {"open"}
    BY DEF Outcome, Terminal
  <2>2. /\ \A n \in 1..attempts'[t] : \E r \in ledger'[t] : r.attempt = n
        /\ \A r \in ledger'[t] : r.attempt \in 1..attempts'[t] /\ r.outcome # "open"
        /\ \A r, q \in ledger'[t] : r.attempt = q.attempt => r = q
    BY <1>1, <2>1, CloseRows DEF AttemptLedger, Finish
  <2> QED BY <1>1, <1>2, <2>2 DEF AttemptLedger, Finish
<1>5. AttemptsBounded' /\ NewerReviewWins'
  BY <1>1, <1>2 DEF AttemptsBounded, NewerReviewWins, Finish
<1> QED BY <1>3, <1>4, <1>5

LEMMA SupersedeInv ==
  ASSUME StoreInv, StoreTypeOK', NEW p, NEW except, SupersedeQueued(p, except)
  PROVE  StoreInv'
<1> USE DEF StoreInv, StoreTypeOK
<1>1. \A t \in Task : \/ state'[t] = state[t]
                      \/ state[t] = "queued" /\ state'[t] = "superseded"
  BY DEF SupersedeQueued, Tombstone, QueuedReviews
<1>2. UNCHANGED <<routing, attempts, created, ledger, clock>>
  BY DEF SupersedeQueued
<1>3. RowsWellFormed' /\ OneTaskPerDelivery'
  BY <1>1, <1>2 DEF RowsWellFormed, OneTaskPerDelivery, Present
<1>4. AttemptLedger'
  BY <1>1, <1>2 DEF AttemptLedger
<1>5. AttemptsBounded' /\ NewerReviewWins'
  BY <1>1, <1>2 DEF AttemptsBounded, NewerReviewWins
<1> QED BY <1>3, <1>4, <1>5

LEMMA RecoverInv ==
  ASSUME StoreInv, StoreTypeOK', Recover
  PROVE  StoreInv'
<1> USE DEF StoreInv, StoreTypeOK
<1>1. \A t \in Task :
        /\ ledger'[t] = Close(ledger[t], "interrupted")
        /\ state[t] # "running" => state'[t] = state[t]
        /\ state[t] = "running" => state'[t] = IF attempts[t] >= MaxAttempts
                                               THEN "failed" ELSE "queued"
  BY DEF Recover, AfterInterruption
<1>2. RowsWellFormed' /\ OneTaskPerDelivery'
  BY <1>1 DEF RowsWellFormed, OneTaskPerDelivery, Recover, Present
<1>3. AttemptLedger'
  <2> SUFFICES ASSUME NEW t \in Task
               PROVE  /\ \A n \in 1..attempts'[t] : \E r \in ledger'[t] : r.attempt = n
                      /\ \A r \in ledger'[t] :
                           r.attempt \in 1..attempts'[t] /\ r.outcome # "open"
                      /\ \A r, q \in ledger'[t] : r.attempt = q.attempt => r = q
    BY <1>1 DEF AttemptLedger
  <2>1. "interrupted" \in Outcome \ {"open"}
    BY DEF Outcome
  <2> QED BY <1>1, <2>1, CloseRows DEF AttemptLedger, Recover
<1>4. AttemptsBounded'
  BY <1>1, StoreAssumption DEF AttemptsBounded, Recover
<1>5. NewerReviewWins'
  <2>1. \A t \in Task : state'[t] = "queued" => state[t] = "queued" \/ attempts[t] > 0
    BY <1>1 DEF AttemptsBounded
  <2> QED BY <2>1 DEF NewerReviewWins, Recover
<1> QED BY <1>2, <1>3, <1>4, <1>5

\* Deleting rows keeps the invariant as long as the delivery records of the
\* rows that stay do.
LEMMA DeletedInv ==
  ASSUME StoreInv, StoreTypeOK', NEW S \in SUBSET Task, Deleted(S),
         UNCHANGED <<created, clock>>,
         \A t \in Task \ S : routing'[Source[t]] = routing[Source[t]]
  PROVE  StoreInv'
<1> USE DEF StoreInv, StoreTypeOK
<1>1. \A t \in Task :
        /\ t \in S => state'[t] = "absent" /\ attempts'[t] = 0 /\ ledger'[t] = {}
        /\ t \notin S => /\ state'[t] = state[t]
                         /\ attempts'[t] = attempts[t]
                         /\ ledger'[t] = ledger[t]
  BY DEF Deleted
<1>2. RowsWellFormed' /\ OneTaskPerDelivery'
  BY <1>1 DEF RowsWellFormed, OneTaskPerDelivery, Present
<1>3. AttemptLedger'
  BY <1>1 DEF AttemptLedger
<1>4. AttemptsBounded' /\ NewerReviewWins'
  BY <1>1, StoreAssumption DEF AttemptsBounded, NewerReviewWins
<1> QED BY <1>2, <1>3, <1>4

LEMMA StoreNextInv == StoreInv /\ [StoreNext]_storeVars => StoreInv'
<1> SUFFICES ASSUME StoreInv, [StoreNext]_storeVars
             PROVE  StoreInv'
  OBVIOUS
<1>0. StoreTypeOK'
  BY StoreNextType DEF StoreInv
<1>1. ASSUME NEW d \in Delivery, RecordIgnored(d) PROVE StoreInv'
  BY <1>0, <1>1
  DEF RecordIgnored, StoreInv, StoreTypeOK, RowsWellFormed, AttemptLedger,
      AttemptsBounded, OneTaskPerDelivery, NewerReviewWins, Present
<1>2. ASSUME NEW d \in Delivery, NEW t \in Task, RecordTask(d, t) PROVE StoreInv'
  BY <1>0, <1>2, RecordTaskInv
<1>3. ASSUME NEW t \in Task, Claim(t) PROVE StoreInv'
  BY <1>0, <1>3, ClaimInv
<1>4. ASSUME NEW t \in Task, NEW s \in Terminal, Finish(t, s) PROVE StoreInv'
  BY <1>0, <1>4, FinishInv
<1>5. ASSUME NEW p, NEW S, SupersedeQueued(p, S) PROVE StoreInv'
  BY <1>0, <1>5, SupersedeInv
<1>6. ASSUME Recover PROVE StoreInv'
  BY <1>0, <1>6, RecoverInv
<1>7. ASSUME NEW i \in Installation, DeleteInstallation(i) PROVE StoreInv'
  <2> DEFINE S == {t \in Task : InstallationOf(t) = i}
  <2>1. \A t \in Task \ S : routing'[Source[t]] = routing[Source[t]]
    BY <1>7, StoreAssumption
    DEF DeleteInstallation, InstallationOf, EventOf, StoreInv, StoreTypeOK
  <2>2. Deleted(S) /\ UNCHANGED <<created, clock>>
    BY <1>7 DEF DeleteInstallation
  <2> HIDE DEF S
  <2>3. S \in SUBSET Task
    BY DEF S
  <2> QED BY <1>0, <2>1, <2>2, <2>3, DeletedInv
<1>8. ASSUME NEW S \in SUBSET Task, ExpireTerminal(S) PROVE StoreInv'
  BY <1>0, <1>8, DeletedInv DEF ExpireTerminal
<1>9. CASE UNCHANGED storeVars
  BY <1>0, <1>9
  DEF storeVars, StoreInv, StoreTypeOK, RowsWellFormed, AttemptLedger,
      AttemptsBounded, OneTaskPerDelivery, NewerReviewWins, Present
<1> QED
  BY <1>1, <1>2, <1>3, <1>4, <1>5, <1>6, <1>7, <1>8, <1>9 DEF StoreNext

\* Types, row shape, ledger, attempt bound, one row per delivery and the
\* supersession order hold together in every state the store can reach: the
\* inductive invariant behind the guarantees below.
THEOREM StoreInvariant == StoreSpec => []StoreInv
BY StoreInitInv, StoreNextInv, PTL DEF StoreSpec

-----------------------------------------------------------------------------
(* The named guarantees, one by one.                                       *)

\* Attempts are numbered without hole or duplicate, and the last one is open
\* exactly while the row is running.
THEOREM AttemptLedgerHolds == StoreSpec => []AttemptLedger
BY StoreInvariant, PTL DEF StoreInv

\* No task is claimed more often than worker.max_retries + 1 times.
THEOREM AttemptsBoundedHolds == StoreSpec => []AttemptsBounded
BY StoreInvariant, PTL DEF StoreInv

\* A replayed delivery never has two rows, nor a row without its record.
THEOREM OneTaskPerDeliveryHolds == StoreSpec => []OneTaskPerDelivery
BY StoreInvariant, PTL DEF StoreInv

\* The newest push's review is never queued behind an older, unstarted one.
THEOREM NewerReviewWinsHolds == StoreSpec => []NewerReviewWins
BY StoreInvariant, PTL DEF StoreInv

-----------------------------------------------------------------------------
(* The concurrency cap.                                                    *)

LEMMA RunningFinite ==
  ASSUME NEW i
  PROVE  /\ IsFiniteSet(Running(i)) /\ Cardinality(Running(i)) \in Nat
         /\ \A S \in SUBSET Running(i) :
              Cardinality(S) \in Nat /\ Cardinality(S) <= Cardinality(Running(i))
<1>1. Running(i) \in SUBSET Task
  BY DEF Running
<1>2. IsFiniteSet(Running(i))
  BY <1>1, FS_Subset, StoreAssumption
<1> QED BY <1>2, FS_Subset, FS_CardinalityType

\* A step after which no other row is running keeps every cap.
LEMMA NoMoreRunning ==
  ASSUME CapRespected,
         \A t \in Task : state'[t] = "running" => state[t] = "running"
  PROVE  CapRespected'
<1> SUFFICES ASSUME NEW i \in Installation
             PROVE  Cardinality(Running(i)') <= Cap[i]
  BY DEF CapRespected
<1>1. Running(i)' \in SUBSET Running(i)
  BY DEF Running, InstallationOf, EventOf
<1>2. /\ Cardinality(Running(i)') <= Cardinality(Running(i))
      /\ Cardinality(Running(i)') \in Nat /\ Cardinality(Running(i)) \in Nat
  BY <1>1, RunningFinite
<1> QED BY <1>2, StoreAssumption DEF CapRespected

LEMMA ClaimKeepsCap ==
  ASSUME StoreTypeOK, CapRespected, NEW t \in Task, Claim(t)
  PROVE  CapRespected'
<1> SUFFICES ASSUME NEW i \in Installation
             PROVE  Cardinality(Running(i)') <= Cap[i]
  BY DEF CapRespected
<1>1. /\ state' = [state EXCEPT ![t] = "running"]
      /\ ~AtCap(InstallationOf(t)) /\ state[t] = "queued"
  BY DEF Claim, Claimable
<1>2. /\ IsFiniteSet(Running(i)) /\ Cardinality(Running(i)) \in Nat
      /\ Cardinality(Running(i)) <= Cap[i] /\ Cap[i] \in Nat
  BY RunningFinite, StoreAssumption DEF CapRespected
<1>3. CASE InstallationOf(t) = i
  <2>1. Running(i)' = Running(i) \union {t}
    BY <1>1, <1>3 DEF Running, InstallationOf, EventOf, StoreTypeOK
  <2>2. t \notin Running(i)
    BY <1>1 DEF Running
  <2>3. Cardinality(Running(i) \union {t}) = Cardinality(Running(i)) + 1
    BY <1>2, <2>2, FS_AddElement
  <2>4. Cardinality(Running(i)) < Cap[i]
    BY <1>1, <1>2, <1>3 DEF AtCap
  <2> QED BY <1>2, <2>1, <2>3, <2>4
<1>4. CASE InstallationOf(t) # i
  <2>1. Running(i)' = Running(i)
    BY <1>1, <1>4 DEF Running, InstallationOf, EventOf, StoreTypeOK
  <2> QED BY <1>2, <2>1
<1> QED BY <1>3, <1>4

\* No installation ever runs more rows than its max_concurrent allows.
THEOREM CapRespectedHolds == StoreSpec => []CapRespected
<1>1. StoreInit => CapRespected
  <2> SUFFICES ASSUME StoreInit, NEW i \in Installation
               PROVE  Cardinality(Running(i)) <= Cap[i]
    BY DEF CapRespected
  <2>1. Running(i) = {}
    BY DEF StoreInit, Running
  <2> QED BY <2>1, FS_EmptySet, StoreAssumption
<1>2. StoreTypeOK /\ CapRespected /\ [StoreNext]_storeVars => CapRespected'
  <2> SUFFICES ASSUME StoreTypeOK, CapRespected, [StoreNext]_storeVars
               PROVE  CapRespected'
    OBVIOUS
  <2>1. ASSUME NEW d \in Delivery, RecordIgnored(d) PROVE CapRespected'
    BY <2>1, NoMoreRunning DEF RecordIgnored
  <2>2. ASSUME NEW d \in Delivery, NEW t \in Task, RecordTask(d, t)
        PROVE  CapRespected'
    BY <2>2, NoMoreRunning DEF RecordTask, Tombstone, StoreTypeOK
  <2>3. ASSUME NEW t \in Task, Claim(t) PROVE CapRespected'
    BY <2>3, ClaimKeepsCap
  <2>4. ASSUME NEW t \in Task, NEW s \in Terminal, Finish(t, s) PROVE CapRespected'
    BY <2>4, NoMoreRunning DEF Finish, Terminal, StoreTypeOK
  <2>5. ASSUME NEW p, NEW S, SupersedeQueued(p, S) PROVE CapRespected'
    BY <2>5, NoMoreRunning DEF SupersedeQueued, Tombstone
  <2>6. ASSUME Recover PROVE CapRespected'
    BY <2>6, NoMoreRunning DEF Recover, AfterInterruption
  <2>7. ASSUME NEW S, Deleted(S) PROVE CapRespected'
    BY <2>7, NoMoreRunning DEF Deleted
  <2>8. CASE UNCHANGED storeVars
    BY <2>8, NoMoreRunning DEF storeVars
  <2> QED
    BY <2>1, <2>2, <2>3, <2>4, <2>5, <2>6, <2>7, <2>8
    DEF StoreNext, DeleteInstallation, ExpireTerminal
<1> QED BY <1>1, <1>2, StoreTypeCorrect, PTL DEF StoreSpec

-----------------------------------------------------------------------------
(* The oversight endpoints, which read the tables. *)

\* Dashboard and audit stream name the same tasks as running, whatever was
\* claimed, finished, superseded, lost in a crash or recovered in between.
THEOREM DashboardAgreesWithAuditHolds == StoreSpec => []DashboardAgreesWithAudit
<1>1. StoreInv => DashboardAgreesWithAudit
  <2> SUFFICES ASSUME StoreInv, NEW i \in Installation
               PROVE  {item.task : item \in {x \in CaveList({i}) : x.status = "running"}} =
                      {event.task : event \in {e \in AttemptEvents({i}) :
                         e.kind = "running" /\ EventOf(e.task).kind # "reply"}}
    BY DEF DashboardAgreesWithAudit
  <2> DEFINE shown == {t \in Task : InScope(t, {i}) /\ EventOf(t).kind # "reply"
                                    /\ state[t] = "running"}
  <2>1. {item.task : item \in {x \in CaveList({i}) : x.status = "running"}} = shown
    <3>1. \A t : ProjectStatus(t, FALSE, FALSE) = "running" <=> state[t] = "running"
      BY DEF ProjectStatus
    <3> DEFINE line(t) == [task |-> t, status |-> ProjectStatus(t, FALSE, FALSE)]
               lines   == {x \in CaveList({i}) : x.status = "running"}
    <3>2. \A x : x \in CaveList({i}) <=>
            \E t \in Task : InScope(t, {i}) /\ EventOf(t).kind # "reply" /\ x = line(t)
      BY DEF CaveList
    <3>3. \A t : line(t).task = t /\ (line(t).status = "running" <=> state[t] = "running")
      BY <3>1
    <3> HIDE DEF line
    <3>4. ASSUME NEW x \in lines PROVE x.task \in shown
      <4>1. PICK t \in Task : InScope(t, {i}) /\ EventOf(t).kind # "reply" /\ x = line(t)
        BY <3>2
      <4>2. x.task = t /\ state[t] = "running"
        BY <3>3, <4>1
      <4> QED BY <4>1, <4>2
    <3>5. ASSUME NEW t \in shown PROVE line(t) \in lines /\ line(t).task = t
      <4>1. line(t) \in CaveList({i})
        BY <3>2
      <4> QED BY <3>3, <4>1
    <3> HIDE DEF lines, shown
    <3>6. {x.task : x \in lines} = shown
      BY <3>4, <3>5
    <3> QED BY <3>6 DEF lines
  <2>2. \A t \in Task : (\E r \in ledger[t] : r.outcome = "open") <=> state[t] = "running"
    BY DEF StoreInv, StoreTypeOK, AttemptLedger, AttemptsBounded
  <2>3. \A t \in Task : \A r \in ledger[t] : r.outcome # "running"
    BY DEF StoreInv, StoreTypeOK, AttemptRow, Outcome, Terminal
  <2>4. {event.task : event \in {e \in AttemptEvents({i}) :
           e.kind = "running" /\ EventOf(e.task).kind # "reply"}} = shown
    <3> DEFINE kind(r) == IF r.outcome = "open" THEN "running" ELSE r.outcome
               event(t, r) == [task |-> t, attempt |-> r.attempt, kind |-> kind(r)]
    <3>1. \A e : e \in AttemptEvents({i}) <=>
                   \E t \in Task : InScope(t, {i}) /\ \E r \in ledger[t] : e = event(t, r)
      BY DEF AttemptEvents
    <3>2. \A t \in Task : \A r \in ledger[t] :
            event(t, r).task = t /\ (event(t, r).kind = "running" <=> r.outcome = "open")
      BY <2>3
    <3> HIDE DEF event
    <3> QED BY <2>2, <3>1, <3>2
  <2> QED BY <2>1, <2>4
<1> QED BY <1>1, StoreInvariant, PTL

-----------------------------------------------------------------------------
(* The store implements the durable queue: every transaction of TaskStore  *)
(* is a step of DurableQueue, or leaves it unchanged, under the refinement *)
(* mapping of TaskStoreQueue.                                              *)

\* A delivery's job is read off its only row, or off the delivery record.
JobsReadRows ==
  /\ \A t \in Task : Present(t) => /\ jobs[Source[t]] = StatusOf(t)
                                   /\ claims[Source[t]] = attempts[t]
  /\ \A d \in Delivery : ~HasRow(d) =>
       /\ jobs[d] = CASE routing[d] = "unseen"  -> "new"
                      [] routing[d] = "ignored" -> "ignored"
                      [] OTHER                  -> "expired"
       /\ claims[d] = 0

LEMMA RowsDecideJobs == StoreInv => JobsReadRows
<1> SUFFICES ASSUME StoreInv PROVE JobsReadRows
  OBVIOUS
<1>1. ASSUME NEW t \in Task, Present(t)
      PROVE  jobs[Source[t]] = StatusOf(t) /\ claims[Source[t]] = attempts[t]
  <2>1. HasRow(Source[t]) /\ Source[t] \in Delivery
    BY <1>1, StoreAssumption DEF HasRow
  <2>2. RowOf(Source[t]) \in Task /\ Present(RowOf(Source[t]))
        /\ Source[RowOf(Source[t])] = Source[t]
    BY <1>1 DEF RowOf
  <2>3. RowOf(Source[t]) = t
    BY <1>1, <2>2 DEF StoreInv, OneTaskPerDelivery
  <2> QED BY <2>1, <2>3 DEF jobs, claims, JobOf
<1>2. ASSUME NEW d \in Delivery, ~HasRow(d)
      PROVE  /\ jobs[d] = CASE routing[d] = "unseen"  -> "new"
                            [] routing[d] = "ignored" -> "ignored"
                            [] OTHER                  -> "expired"
             /\ claims[d] = 0
  BY <1>2 DEF jobs, claims, JobOf
<1> QED BY <1>1, <1>2 DEF JobsReadRows

LEMMA RowsDecideJobsNext == StoreInv' => JobsReadRows'
BY RowsDecideJobs, PTL

LEMMA QueueInit == StoreInit => Queue!Init
<1> SUFFICES ASSUME StoreInit PROVE Queue!Init
  OBVIOUS
<1>1. \A d \in Delivery : ~HasRow(d) /\ routing[d] = "unseen"
  BY DEF StoreInit, HasRow, Present
<1> QED BY <1>1 DEF Queue!Init, jobs, claims, JobOf

\* When every delivery keeps its job and its claims, the queue stutters.
LEMMA Unmoved ==
  ASSUME \A d \in Delivery : jobs'[d] = jobs[d] /\ claims'[d] = claims[d]
  PROVE  UNCHANGED Queue!queueVars
BY DEF Queue!queueVars, jobs, claims

\* A delivery whose record and rows a step leaves alone keeps its job.
LEMMA SameRows ==
  ASSUME StoreInv, StoreInv', NEW e \in Delivery, routing'[e] = routing[e],
         \A t \in Task : Source[t] = e =>
           state'[t] = state[t] /\ attempts'[t] = attempts[t]
  PROVE  jobs'[e] = jobs[e] /\ claims'[e] = claims[e]
<1>1. JobsReadRows /\ JobsReadRows'
  BY RowsDecideJobs, RowsDecideJobsNext
<1>2. CASE HasRow(e)
  <2>1. PICK t \in Task : Present(t) /\ Source[t] = e
    BY <1>2 DEF HasRow
  <2>2. Present(t)'
    BY <2>1 DEF Present
  <2> QED BY <1>1, <2>1, <2>2 DEF JobsReadRows, StatusOf
<1>3. CASE ~HasRow(e)
  <2>1. ~HasRow(e)'
    BY <1>3 DEF HasRow, Present
  <2> QED BY <1>1, <1>3, <2>1 DEF JobsReadRows
<1> QED BY <1>2, <1>3

\* A delivery whose row stays keeps following that row.
LEMMA RowStays ==
  ASSUME StoreInv, StoreInv', NEW t \in Task, Present(t), state'[t] # "absent"
  PROVE  /\ jobs[Source[t]] = StatusOf(t) /\ claims[Source[t]] = attempts[t]
         /\ jobs'[Source[t]] = StatusOf(t)' /\ claims'[Source[t]] = attempts'[t]
<1>1. JobsReadRows /\ JobsReadRows'
  BY RowsDecideJobs, RowsDecideJobsNext
<1> QED BY <1>1 DEF JobsReadRows, Present

-----------------------------------------------------------------------------
(* One lemma for each transaction.                                         *)

LEMMA RecordIgnoredStep ==
  ASSUME StoreInv, StoreInv', NEW d \in Delivery, RecordIgnored(d)
  PROVE  Queue!Ignore(d)
<1>1. JobsReadRows /\ JobsReadRows'
  BY RowsDecideJobs, RowsDecideJobsNext
<1>2. ~HasRow(d) /\ ~HasRow(d)'
  BY DEF RecordIgnored, HasRow, StoreInv, OneTaskPerDelivery, Present
<1>3. jobs[d] = "new" /\ jobs'[d] = "ignored" /\ claims[d] = 0 /\ claims'[d] = 0
  BY <1>1, <1>2 DEF JobsReadRows, RecordIgnored, StoreInv, StoreTypeOK
<1>4. \A e \in Delivery \ {d} : jobs'[e] = jobs[e] /\ claims'[e] = claims[e]
  BY SameRows DEF RecordIgnored, StoreInv, StoreTypeOK
<1> QED BY <1>3, <1>4 DEF Queue!Ignore, Queue!Move, jobs, claims

LEMMA RecordTaskStep ==
  ASSUME StoreInv, StoreInv', NEW d \in Delivery, NEW t \in Task, RecordTask(d, t)
  PROVE  \E displaced \in SUBSET Delivery : Queue!Accept(d, displaced)
<1> DEFINE out == {Source[u] : u \in Displaced(d)}
<1>1. JobsReadRows /\ JobsReadRows'
  BY RowsDecideJobs, RowsDecideJobsNext
<1>2. /\ Displaced(d) \subseteq Task
      /\ \A u \in Displaced(d) : state[u] = "queued"
  BY DEF Displaced, QueuedReviews
<1>3. \A u \in Task : Source[u] = d => ~Present(u)
  BY DEF RecordTask, StoreInv, OneTaskPerDelivery
<1>4. /\ state'[t] = "queued" /\ Source[t] = d
      /\ \A u \in Task \ {t} :
           state'[u] = IF u \in Displaced(d) THEN "superseded" ELSE state[u]
      /\ UNCHANGED attempts
      /\ \A e \in Delivery \ {d} : routing'[e] = routing[e]
  BY DEF RecordTask, Tombstone, StoreInv, StoreTypeOK
<1>5. jobs[d] = "new" /\ claims[d] = 0
  BY <1>1, <1>3 DEF JobsReadRows, HasRow, RecordTask
<1>6. attempts[t] = 0
  BY <1>3, <1>4 DEF StoreInv, RowsWellFormed
<1>7. jobs'[d] = "waiting" /\ claims'[d] = 0
  BY <1>1, <1>4, <1>6 DEF JobsReadRows, Present, StatusOf
<1>8. \A e \in out : /\ e \in Delivery /\ jobs[e] = "waiting"
                     /\ jobs'[e] = "settled" /\ claims'[e] = claims[e]
  <2> SUFFICES ASSUME NEW u \in Displaced(d)
               PROVE  /\ Source[u] \in Delivery /\ jobs[Source[u]] = "waiting"
                      /\ jobs'[Source[u]] = "settled"
                      /\ claims'[Source[u]] = claims[Source[u]]
    OBVIOUS
  <2>1. u \in Task /\ state[u] = "queued" /\ Present(u)
    BY <1>2 DEF Present
  <2>2. state'[u] = "superseded"
    BY <1>3, <1>4, <2>1
  <2> QED BY <1>1, <1>4, <2>1, <2>2, StoreAssumption DEF JobsReadRows, Present, StatusOf
<1>9. \A e \in Delivery \ (out \union {d}) : jobs'[e] = jobs[e] /\ claims'[e] = claims[e]
  BY <1>4, SameRows
<1>10. d \notin out
  BY <1>2, <1>3 DEF Present
<1>11. out \in SUBSET Delivery
  BY <1>8
<1> HIDE DEF out
<1>12. Queue!Accept(d, out)
  BY <1>5, <1>7, <1>8, <1>9, <1>10 DEF Queue!Accept, jobs, claims
<1> QED BY <1>11, <1>12

LEMMA ClaimStep ==
  ASSUME StoreInv, StoreInv', NEW t \in Task, Claim(t)
  PROVE  Queue!Take(Source[t])
<1> DEFINE d == Source[t]
<1>1. /\ state[t] = "queued" /\ state'[t] = "running"
      /\ attempts'[t] = attempts[t] + 1 /\ attempts[t] < MaxAttempts
      /\ \A u \in Task \ {t} : state'[u] = state[u] /\ attempts'[u] = attempts[u]
      /\ UNCHANGED routing
  BY DEF Claim, Claimable, StoreInv, StoreTypeOK, AttemptsBounded
<1>2. /\ d \in Delivery
      /\ jobs[d] = "waiting" /\ claims[d] = attempts[t]
      /\ jobs'[d] = "taken" /\ claims'[d] = attempts[t] + 1
  BY <1>1, RowStays, StoreAssumption DEF Present, StatusOf
<1>3. \A u \in Task : Source[u] = d /\ u # t => ~Present(u)
  BY <1>1 DEF StoreInv, OneTaskPerDelivery, Present
<1>4. \A e \in Delivery \ {d} : jobs'[e] = jobs[e] /\ claims'[e] = claims[e]
  BY <1>1, SameRows
<1> HIDE DEF d
<1>5. Queue!Take(d)
  BY <1>1, <1>2, <1>4 DEF Queue!Take, Queue!Move, jobs, claims
<1> QED BY <1>5 DEF d

\* A step that ends some rows and touches nothing else settles their jobs.
LEMMA EndRows ==
  ASSUME StoreInv, StoreInv', NEW S \in SUBSET Task,
         \A t \in S : state[t] \in {"queued", "running"} /\ state'[t] \in Terminal,
         \A t \in Task \ S : \/ state'[t] = state[t]
                             \/ state[t] \in Terminal /\ state'[t] \in Terminal,
         UNCHANGED <<routing, attempts>>
  PROVE  \E ended \in SUBSET Delivery : Queue!Settle(ended)
<1> DEFINE ended == {Source[t] : t \in S}
<1>1. \A e \in ended : /\ e \in Delivery /\ jobs[e] \in {"waiting", "taken"}
                       /\ jobs'[e] = "settled" /\ claims'[e] = claims[e]
  BY RowStays, StoreAssumption DEF Present, StatusOf, Terminal
<1>2. ASSUME NEW e \in Delivery \ ended
      PROVE  jobs'[e] = jobs[e] /\ claims'[e] = claims[e]
  <2>1. CASE HasRow(e)
    <3>1. PICK t \in Task : Present(t) /\ Source[t] = e
      BY <2>1 DEF HasRow
    <3>2. t \notin S
      BY <1>2, <3>1
    <3> QED BY <3>1, <3>2, RowStays DEF Present, StatusOf, Terminal
  <2>2. CASE ~HasRow(e)
    <3>1. \A t \in Task : Source[t] = e => state[t] = "absent" /\ t \notin S
      BY <1>2, <2>2 DEF HasRow, Present
    <3>2. \A t \in Task : Source[t] = e => state'[t] = state[t]
      BY <3>1 DEF Terminal
    <3> QED BY <3>2, SameRows
  <2> QED BY <2>1, <2>2
<1>3. ended \in SUBSET Delivery
  BY <1>1
<1> HIDE DEF ended
<1>4. Queue!Settle(ended)
  BY <1>1, <1>2 DEF Queue!Settle, Queue!Move, jobs, claims
<1> QED BY <1>3, <1>4

LEMMA FinishStep ==
  ASSUME StoreInv, StoreInv', NEW t \in Task, NEW s \in Terminal, Finish(t, s)
  PROVE  \E ended \in SUBSET Delivery : Queue!Settle(ended)
<1> DEFINE S == {u \in {t} : state[u] \in {"queued", "running"}}
<1>1. /\ state'[t] = IF Present(t) THEN s ELSE "absent"
      /\ \A u \in Task \ {t} : state'[u] = state[u]
      /\ UNCHANGED <<routing, attempts>>
  BY DEF Finish, StoreInv, StoreTypeOK
<1>2. state[t] \in State
  BY DEF StoreInv, StoreTypeOK
<1>3. \A u \in S : state[u] \in {"queued", "running"} /\ state'[u] \in Terminal
  BY <1>1 DEF Present
<1>4. \A u \in Task \ S : \/ state'[u] = state[u]
                          \/ state[u] \in Terminal /\ state'[u] \in Terminal
  BY <1>1, <1>2 DEF Present, State
<1> QED BY <1>1, <1>3, <1>4, EndRows

LEMMA SupersedeStep ==
  ASSUME StoreInv, StoreInv', NEW p, NEW except, SupersedeQueued(p, except)
  PROVE  \E ended \in SUBSET Delivery : Queue!Settle(ended)
<1> DEFINE S == QueuedReviews(p) \ except
<1>1. S \in SUBSET Task /\ \A t \in S : state[t] = "queued"
  BY DEF QueuedReviews
<1>2. /\ \A t \in Task : state'[t] = IF t \in S THEN "superseded" ELSE state[t]
      /\ UNCHANGED <<routing, attempts>>
  BY DEF SupersedeQueued, Tombstone
<1> HIDE DEF S
<1> QED BY <1>1, <1>2, EndRows DEF Terminal

LEMMA RecoverStep ==
  ASSUME StoreInv, StoreInv', Recover
  PROVE  Queue!Interrupt
<1>1. /\ \A t \in Task : state'[t] = AfterInterruption(t)
      /\ UNCHANGED <<routing, attempts>>
  BY DEF Recover
<1>2. \A d \in Delivery :
        /\ jobs'[d] = IF jobs[d] # "taken" THEN jobs[d]
                      ELSE IF claims[d] < MaxAttempts THEN "waiting" ELSE "settled"
        /\ claims'[d] = claims[d]
  <2> SUFFICES ASSUME NEW d \in Delivery
               PROVE  /\ jobs'[d] = IF jobs[d] # "taken" THEN jobs[d]
                        ELSE IF claims[d] < MaxAttempts THEN "waiting" ELSE "settled"
                      /\ claims'[d] = claims[d]
    OBVIOUS
  <2>1. CASE HasRow(d)
    <3>1. PICK t \in Task : Present(t) /\ Source[t] = d
      BY <2>1 DEF HasRow
    <3>2. attempts[t] \in Nat /\ MaxAttempts \in Nat
      BY StoreAssumption DEF StoreInv, StoreTypeOK
    <3>3. state'[t] = IF state[t] # "running" THEN state[t]
                      ELSE IF attempts[t] < MaxAttempts THEN "queued" ELSE "failed"
      BY <1>1, <3>2 DEF AfterInterruption
    <3> QED BY <1>1, <3>1, <3>3, RowStays DEF Present, StatusOf
  <2>2. CASE ~HasRow(d)
    <3>1. \A t \in Task : Source[t] = d => state'[t] = state[t]
      BY <1>1, <2>2 DEF HasRow, Present, AfterInterruption
    <3>2. jobs'[d] = jobs[d] /\ claims'[d] = claims[d]
      BY <1>1, <3>1, SameRows
    <3>3. jobs[d] # "taken"
      BY <2>2, RowsDecideJobs DEF JobsReadRows
    <3> QED BY <3>2, <3>3
  <2> QED BY <2>1, <2>2
<1> QED BY <1>2 DEF Queue!Interrupt, jobs, claims

LEMMA DeleteInstallationStep ==
  ASSUME StoreInv, StoreInv', NEW i \in Installation, DeleteInstallation(i)
  PROVE  Queue!RemoveTenant(i)
<1> DEFINE gone == {t \in Task : InstallationOf(t) = i}
<1>1. /\ \A t \in Task : t \in gone => state'[t] = "absent"
      /\ \A t \in Task \ gone : state'[t] = state[t] /\ attempts'[t] = attempts[t]
      /\ \A d \in Delivery : routing'[d] = IF Event[d].installation = i
                                           THEN "unseen" ELSE routing[d]
  BY DEF DeleteInstallation, Deleted
<1>2. \A t \in Task : t \in gone <=> Event[Source[t]].installation = i
  BY DEF InstallationOf, EventOf
<1>3. \A d \in Delivery : tenant[d] = Event[d].installation
  BY DEF tenant
<1> HIDE DEF gone
<1>4. ASSUME NEW d \in Delivery, tenant[d] = i
      PROVE  jobs'[d] = "new" /\ claims'[d] = 0
  <2>1. ~HasRow(d)' /\ routing'[d] = "unseen"
    BY <1>1, <1>2, <1>3, <1>4 DEF HasRow, Present
  <2> QED BY <2>1, RowsDecideJobsNext DEF JobsReadRows
<1>5. ASSUME NEW d \in Delivery, tenant[d] # i
      PROVE  jobs'[d] = jobs[d] /\ claims'[d] = claims[d]
  BY <1>1, <1>2, <1>3, <1>5, SameRows
<1> QED BY <1>4, <1>5 DEF Queue!RemoveTenant, Queue!Move, jobs, claims

LEMMA ExpireTerminalStep ==
  ASSUME StoreInv, StoreInv', NEW S \in SUBSET Task, ExpireTerminal(S)
  PROVE  \E old \in SUBSET Delivery : Queue!Expire(old)
<1> DEFINE old == {Source[t] : t \in S}
<1>1. JobsReadRows /\ JobsReadRows'
  BY RowsDecideJobs, RowsDecideJobsNext
<1>2. /\ \A t \in S : state[t] \in Terminal /\ state'[t] = "absent"
      /\ \A t \in Task \ S : state'[t] = state[t] /\ attempts'[t] = attempts[t]
      /\ UNCHANGED routing
  BY DEF ExpireTerminal, Deleted
<1>3. ASSUME NEW t \in S
      PROVE  /\ Source[t] \in Delivery /\ jobs[Source[t]] = "settled"
             /\ jobs'[Source[t]] = "expired" /\ claims'[Source[t]] = 0
  <2>1. Present(t) /\ routing[Source[t]] = "task" /\ Source[t] \in Delivery
    BY <1>2, StoreAssumption DEF Present, Terminal, StoreInv, OneTaskPerDelivery
  <2>2. jobs[Source[t]] = "settled"
    BY <1>1, <1>2, <2>1 DEF JobsReadRows, StatusOf, Terminal
  <2>3. ~HasRow(Source[t])'
    BY <1>2, <2>1 DEF HasRow, Present, StoreInv, OneTaskPerDelivery
  <2> QED BY <1>1, <1>2, <2>1, <2>2, <2>3 DEF JobsReadRows
<1>4. \A e \in old : /\ e \in Delivery /\ jobs[e] = "settled"
                     /\ jobs'[e] = "expired" /\ claims'[e] = 0
  BY <1>3
<1>5. \A e \in Delivery \ old : jobs'[e] = jobs[e] /\ claims'[e] = claims[e]
  BY <1>2, SameRows
<1>6. old \in SUBSET Delivery
  BY <1>4
<1> HIDE DEF old
<1>7. Queue!Expire(old)
  BY <1>4, <1>5 DEF Queue!Expire, Queue!Move, jobs, claims
<1> QED BY <1>6, <1>7

-----------------------------------------------------------------------------

LEMMA QueueStep ==
  ASSUME StoreInv, StoreInv', [StoreNext]_storeVars
  PROVE  [Queue!Next]_(Queue!queueVars)
<1> USE DEF Queue!Next
<1>1. ASSUME NEW d \in Delivery, RecordIgnored(d) PROVE Queue!Next
  BY <1>1, RecordIgnoredStep
<1>2. ASSUME NEW d \in Delivery, NEW t \in Task, RecordTask(d, t) PROVE Queue!Next
  BY <1>2, RecordTaskStep
<1>3. ASSUME NEW t \in Task, Claim(t) PROVE Queue!Next
  BY <1>3, ClaimStep, StoreAssumption
<1>4. ASSUME NEW t \in Task, NEW s \in Terminal, Finish(t, s) PROVE Queue!Next
  BY <1>4, FinishStep
<1>5. ASSUME NEW p, NEW S, SupersedeQueued(p, S) PROVE Queue!Next
  BY <1>5, SupersedeStep
<1>6. ASSUME Recover PROVE Queue!Next
  BY <1>6, RecoverStep
<1>7. ASSUME NEW i \in Installation, DeleteInstallation(i)
      PROVE  Queue!Next \/ UNCHANGED Queue!queueVars
  <2>1. Queue!RemoveTenant(i)
    BY <1>7, DeleteInstallationStep
  <2>2. CASE \E d \in Delivery : tenant[d] = i
    BY <2>1, <2>2
  <2>3. CASE \A d \in Delivery : tenant[d] # i
    BY <2>1, <2>3, Unmoved DEF Queue!RemoveTenant, Queue!Move, jobs, claims
  <2> QED BY <2>2, <2>3
<1>8. ASSUME NEW S \in SUBSET Task, ExpireTerminal(S) PROVE Queue!Next
  BY <1>8, ExpireTerminalStep
<1>9. ASSUME UNCHANGED storeVars PROVE UNCHANGED Queue!queueVars
  <2>1. \A d \in Delivery : jobs'[d] = jobs[d] /\ claims'[d] = claims[d]
    BY <1>9, SameRows DEF storeVars
  <2> QED BY <2>1, Unmoved
<1> QED
  BY <1>1, <1>2, <1>3, <1>4, <1>5, <1>6, <1>7, <1>8, <1>9 DEF StoreNext

\* The store implements the durable queue: a delivery is dispatched once unless
\* its tenant is removed, no accepted job is lost or taken again once settled,
\* and none is taken more than MaxAttempts times.
THEOREM StoreRefinesQueue == StoreSpec => StoreImplementsQueue
<1>1. StoreInv /\ StoreInv' /\ [StoreNext]_storeVars => [Queue!Next]_(Queue!queueVars)
  BY QueueStep
<1> QED
  BY <1>1, QueueInit, StoreInvariant, PTL
  DEF StoreSpec, StoreImplementsQueue, Queue!Spec
=============================================================================
