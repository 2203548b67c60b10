--------------------------- MODULE Governance_proofs ---------------------------
(***************************************************************************)
(* Proofs about memory governance and the tenant API, for any number of    *)
(* sessions, installations, repositories, revocations and requests.        *)
(***************************************************************************)
EXTENDS Governance, SequenceTheorems, FiniteSetTheorems, WellFoundedInduction, TLAPS

LEMMA PolicyHasType ==
  ASSUME NEW i \in Installation, NEW repo \in Repo, NEW fork \in BOOLEAN,
         NEW commander \in BOOLEAN, NEW on \in BOOLEAN, NEW approval \in BOOLEAN,
         NEW denied \in SUBSET RevocableKey
  PROVE  Policy(on, i, repo, DeriveTrust(fork, commander), approval, denied) \in PolicyType
<1>1. DeriveTrust(fork, commander) \in Trust
  BY DEF DeriveTrust, Trust
<1>2. \A t \in Trust : Readable(t) \subseteq Scope /\ Writable(t) \subseteq Scope
  BY DEF Readable, Writable, Scope
<1> DEFINE trust == DeriveTrust(fork, commander)
           asks  == approval \/ trust = "collaborator"
<1>3. asks \in BOOLEAN
  OBVIOUS
<1>4. Policy(on, i, repo, trust, approval, denied) =
        IF ~on THEN NoPolicy
        ELSE [enabled |-> TRUE, installation |-> i, repo |-> repo, trust |-> trust,
              granted |-> [read |-> Readable(trust), write |-> Writable(trust)],
              approval |-> asks, denied |-> denied]
  BY DEF Policy
<1> HIDE DEF trust, asks
<1>5. trust \in Trust
  BY <1>1 DEF trust
<1>6. CASE ~on
  BY <1>4, <1>6 DEF PolicyType, trust
<1>7. CASE on
  BY <1>2, <1>3, <1>4, <1>5, <1>7 DEF PolicyType, trust
<1> QED BY <1>6, <1>7

LEMMA RowsHaveType ==
  ASSUME NEW s \in Session, NEW report \in Reports, NEW i \in Installation, NEW repo \in Repo,
         NEW policy, policy.installation = i, policy.repo = repo, NEW judged
  PROVE  /\ Rows(policy, s, report.used, judged) \in SUBSET RowType
         /\ Cited(report.used, judged) \in SUBSET {e.key : e \in Listed}
<1>1. report.used.entries \subseteq Listed
  BY DEF Listed
<1> QED BY <1>1 DEF Rows, Cited, RowType

\* The rows that are recorded are those of before, fewer of them, or those of
\* before and a report's.
LEMMA RecordedSteps ==
  ASSUME GovernanceTypeOK
  PROVE  /\ \A rows : activity' = Append(activity, rows) => Recorded' = Recorded \union rows
         /\ \A n \in DOMAIN activity : activity' = SubSeq(activity, n + 1, Len(activity)) =>
              Recorded' \subseteq Recorded
         /\ \A i : activity' = [k \in DOMAIN activity |->
                                  {r \in activity[k] : r.installation # i}] =>
              Recorded' = {r \in Recorded : r.installation # i}
<1>1. activity \in Seq(SUBSET RowType) /\ DOMAIN activity = 1..Len(activity)
      /\ Len(activity) \in Nat
  BY LenProperties DEF GovernanceTypeOK
<1>2. ASSUME NEW rows, activity' = Append(activity, rows)
      PROVE  Recorded' = Recorded \union rows
  <2> DEFINE n == Len(activity)
  <2>1. /\ DOMAIN activity' = 1..(n + 1)
        /\ \A k \in 1..n : activity'[k] = activity[k]
        /\ activity'[n + 1] = rows
    BY <1>1, <1>2
  <2>2. n \in Nat /\ DOMAIN activity = 1..n
    BY <1>1
  <2> HIDE DEF n
  <2>3. \A k \in 1..(n + 1) : k \in 1..n \/ k = n + 1
    BY <2>2
  <2>4. \A k \in 1..n : k \in 1..(n + 1)
    BY <2>2
  <2>5. n + 1 \in 1..(n + 1)
    BY <2>2
  <2> QED BY <2>1, <2>2, <2>3, <2>4, <2>5 DEF Recorded
<1>3. ASSUME NEW n \in DOMAIN activity, activity' = SubSeq(activity, n + 1, Len(activity))
      PROVE  Recorded' \subseteq Recorded
  <2>1. n \in Nat /\ n >= 1 /\ \A k \in n + 1 .. Len(activity) : activity[k] \in SUBSET RowType
    BY <1>1, <1>3
  <2>2. \A k \in DOMAIN activity' : \E m \in DOMAIN activity : activity'[k] = activity[m]
    <3>1. /\ activity' \in Seq(SUBSET RowType)
          /\ Len(activity') = IF n + 1 <= Len(activity) THEN Len(activity) - n ELSE 0
          /\ \A k \in 1 .. Len(activity) - n : activity'[k] = activity[n + k]
      BY <1>1, <1>3, <2>1, SubSeqProperties
    <3>2. DOMAIN activity' = 1..Len(activity')
      BY <3>1, LenProperties
    <3> QED BY <1>1, <2>1, <3>1, <3>2
  <2> QED BY <2>2 DEF Recorded
<1>4. ASSUME NEW i, activity' = [k \in DOMAIN activity |->
                                   {r \in activity[k] : r.installation # i}]
      PROVE  Recorded' = {r \in Recorded : r.installation # i}
  BY <1>4 DEF Recorded
<1> QED BY <1>2, <1>3, <1>4

-----------------------------------------------------------------------------
(* Types.                                                                  *)

LEMMA NoRunType == NoRun \in RunType /\ [NoRun EXCEPT !.at = "done"] \in RunType
  BY DEF NoRun, RunType, PolicyType

LEMMA SetRunType ==
  ASSUME GovernanceTypeOK, NEW s \in Session, NEW q \in RunType
  PROVE  [session EXCEPT ![s] = q] \in [Session -> RunType]
BY DEF GovernanceTypeOK

LEMMA PolicyEnabled ==
  ASSUME NEW p \in PolicyType, p.enabled
  PROVE  p.installation \in Installation /\ p.repo \in Repo
<1>1. p # NoPolicy
  BY DEF NoPolicy
<1> QED BY <1>1 DEF PolicyType

LEMMA VisibleRows == ASSUME NEW scope, NEW rows PROVE Visible(scope, rows) \subseteq rows
BY DEF Visible

LEMMA RecordedType == GovernanceTypeOK => Recorded \subseteq RowType
<1> SUFFICES ASSUME GovernanceTypeOK PROVE \A k \in DOMAIN activity : activity[k] \subseteq RowType
  BY DEF Recorded
<1>1. activity \in Seq(SUBSET RowType) /\ DOMAIN activity = 1..Len(activity)
  BY LenProperties DEF GovernanceTypeOK
<1> QED BY <1>1

LEMMA InitType == Init => GovernanceTypeOK
<1> SUFFICES ASSUME Init PROVE GovernanceTypeOK
  OBVIOUS
<1>1. session \in [Session -> RunType]
  BY NoRunType DEF Init
<1>2. activity \in Seq(SUBSET RowType)
  BY DEF Init
<1>3. 0 \in 0..MaxRequests /\ 0 \in 0..MaxRuns /\ 0 \in 0..MaxFaults
  BY GovernanceAssumption
<1> QED BY <1>1, <1>2, <1>3 DEF Init, GovernanceTypeOK, NoAnswer

\* The parts of the report of a session, as ReportBack judges it.
Judged(s, report) ==
  IF session[s].policy.enabled THEN Rejections(session[s].policy, report.used) ELSE {}
RowsOf(s, report) ==
  IF session[s].policy.enabled THEN Rows(session[s].policy, s, report.used, Judged(s, report))
  ELSE {}
CitedOf(s, report) ==
  IF session[s].policy.enabled THEN Cited(report.used, Judged(s, report)) ELSE {}

LEMMA ReportParts ==
  ASSUME NEW s, ReportBack(s)
  PROVE  \E report \in Reports :
    /\ session[s].at = "briefed"
    /\ \/ activity' = (IF RowsOf(s, report) = {} THEN activity
                       ELSE Append(activity, RowsOf(s, report))) /\ UNCHANGED faults
       \/ faults < MaxFaults /\ faults' = faults + 1 /\ UNCHANGED activity
    /\ session' = [session EXCEPT
         ![s].at = "reported", ![s].rows = RowsOf(s, report), ![s].cited = CitedOf(s, report),
         ![s].findings = report.findings]
    /\ unjudged' = IF report.used.enabled THEN unjudged ELSE unjudged \union {s}
    /\ UNCHANGED <<revoked, audit, answer, requests, runs>>
BY DEF ReportBack, RowsOf, CitedOf, Judged

LEMMA NextType == GovernanceTypeOK /\ [Next]_vars => GovernanceTypeOK'
<1> SUFFICES ASSUME GovernanceTypeOK, [Next]_vars PROVE GovernanceTypeOK'
  OBVIOUS
<1>0. MaxRequests \in Nat /\ MaxRuns \in Nat /\ MaxFaults \in Nat
  BY GovernanceAssumption
<1>1. ASSUME NEW s \in Session, Claim(s) PROVE GovernanceTypeOK'
  <2>1. RevocationsFor(SessionOf[s].installation, SessionOf[s].repo) \subseteq RevocationType
    BY DEF RevocationsFor, GovernanceTypeOK
  <2>2. session' \in [Session -> RunType]
    <3> DEFINE kept == RevocationsFor(SessionOf[s].installation, SessionOf[s].repo)
               q    == [session[s] EXCEPT !.at = "claimed", !.standing = kept]
    <3>1. session[s] \in RunType
      BY DEF GovernanceTypeOK
    <3>2. session' = [session EXCEPT ![s] = q]
      BY <1>1 DEF Claim
    <3> HIDE DEF kept
    <3>3. q \in RunType
      BY <2>1, <3>1 DEF RunType, kept
    <3> QED BY <3>2, <3>3, SetRunType
  <2>3. runs' \in 0..MaxRuns
    BY <1>0, <1>1 DEF Claim, GovernanceTypeOK
  <2> QED BY <1>1, <2>2, <2>3 DEF Claim, GovernanceTypeOK, tables
<1>2. ASSUME NEW s \in Session, Brief(s) PROVE GovernanceTypeOK'
  <2> DEFINE self == SessionOf[s]
             P(denied) == Policy(self.repo \in MemoryOn, self.installation, self.repo,
                                 DeriveTrust(self.fork, self.commander),
                                 self.repo \in ApprovalOn, denied)
  <2>1. \A denied \in SUBSET RevocableKey : P(denied) \in PolicyType
    <3> DEFINE on   == self.repo \in MemoryOn
               asks == self.repo \in ApprovalOn
    <3>1. /\ self.installation \in Installation /\ self.repo \in Repo
          /\ self.fork \in BOOLEAN /\ self.commander \in BOOLEAN
      BY GovernanceAssumption DEF SessionType
    <3>2. on \in BOOLEAN /\ asks \in BOOLEAN
      OBVIOUS
    <3>3. \A denied : P(denied) = Policy(on, self.installation, self.repo,
                                         DeriveTrust(self.fork, self.commander), asks, denied)
      OBVIOUS
    <3> HIDE DEF on, asks, self, P
    <3> QED BY <3>1, <3>2, <3>3, PolicyHasType
  <2>2. {v.key : v \in RevocationsFor(self.installation, self.repo)} \subseteq RevocableKey
    BY DEF RevocationsFor, GovernanceTypeOK, RevocationType
  <2>3. \E denied \in SUBSET RevocableKey, loaded \in BOOLEAN :
          session' = [session EXCEPT ![s].at = "briefed", ![s].loaded = loaded,
                        ![s].policy = P(denied)]
    BY <1>2, <2>2 DEF Brief
  <2> HIDE DEF P
  <2>4. session' \in [Session -> RunType]
    <3>1. PICK denied \in SUBSET RevocableKey, loaded \in BOOLEAN :
            session' = [session EXCEPT ![s].at = "briefed", ![s].loaded = loaded,
                          ![s].policy = P(denied)]
      BY <2>3
    <3> DEFINE p == P(denied)
               q == [session[s] EXCEPT !.at = "briefed", !.loaded = loaded, !.policy = p]
    <3>2. p \in PolicyType /\ session[s] \in RunType
      BY <2>1 DEF GovernanceTypeOK
    <3>3. session' = [session EXCEPT ![s] = q]
      BY <3>1
    <3> HIDE DEF p
    <3>4. q \in RunType
      BY <3>2 DEF RunType
    <3> QED BY <3>3, <3>4, SetRunType
  <2>5. faults' \in 0..MaxFaults
    BY <1>0, <1>2 DEF Brief, GovernanceTypeOK
  <2> QED BY <1>2, <2>4, <2>5 DEF Brief, GovernanceTypeOK, tables
<1>3. ASSUME NEW s \in Session, ReportBack(s) PROVE GovernanceTypeOK'
  <2>1. PICK report \in Reports :
    /\ \/ activity' = (IF RowsOf(s, report) = {} THEN activity
                       ELSE Append(activity, RowsOf(s, report))) /\ UNCHANGED faults
       \/ faults < MaxFaults /\ faults' = faults + 1 /\ UNCHANGED activity
    /\ session' = [session EXCEPT
         ![s].at = "reported", ![s].rows = RowsOf(s, report), ![s].cited = CitedOf(s, report),
         ![s].findings = report.findings]
    /\ unjudged' = IF report.used.enabled THEN unjudged ELSE unjudged \union {s}
    /\ UNCHANGED <<revoked, audit, answer, requests, runs>>
    BY <1>3, ReportParts
  <2>2. RowsOf(s, report) \in SUBSET RowType
        /\ CitedOf(s, report) \in SUBSET {e.key : e \in Listed}
    <3> DEFINE p == session[s].policy
    <3>1. p \in PolicyType
      BY DEF GovernanceTypeOK, RunType
    <3>2. p.enabled => p.installation \in Installation /\ p.repo \in Repo
      BY <3>1, PolicyEnabled
    <3> HIDE DEF p
    <3>3. CASE p.enabled
      BY <3>2, <3>3, RowsHaveType DEF RowsOf, CitedOf, p
    <3>4. CASE ~p.enabled
      BY <3>4 DEF RowsOf, CitedOf, p
    <3> QED BY <3>3, <3>4
  <2>3. session' \in [Session -> RunType]
    <3> DEFINE rows  == RowsOf(s, report)
               cited == CitedOf(s, report)
               q == [session[s] EXCEPT !.at = "reported", !.rows = rows, !.cited = cited,
                       !.findings = report.findings]
    <3>1. session[s] \in RunType
      BY DEF GovernanceTypeOK
    <3>2. session' = [session EXCEPT ![s] = q]
      BY <2>1
    <3> HIDE DEF rows, cited
    <3>3. q \in RunType
      BY <2>2, <3>1 DEF RunType, rows, cited
    <3> QED BY <3>2, <3>3, SetRunType
  <2>4. activity' \in Seq(SUBSET RowType)
    BY <2>1, <2>2, AppendProperties DEF GovernanceTypeOK
  <2>5. faults' \in 0..MaxFaults /\ unjudged' \subseteq Session
    BY <1>0, <2>1 DEF GovernanceTypeOK
  <2> QED BY <2>1, <2>3, <2>4, <2>5 DEF GovernanceTypeOK
<1>4. ASSUME NEW s \in Session, Publish(s) PROVE GovernanceTypeOK'
  BY <1>4, NoRunType DEF Publish, GovernanceTypeOK, tables
<1>5. CASE Crash
  <2>1. session' \in [Session -> RunType]
    BY <1>5, NoRunType DEF Crash, GovernanceTypeOK
  <2>2. faults' \in 0..MaxFaults
    BY <1>0, <1>5 DEF Crash, GovernanceTypeOK
  <2> QED BY <1>5, <2>1, <2>2 DEF Crash, GovernanceTypeOK, tables, NoAnswer
<1>6. ASSUME NEW b \in Bearer,
             \/ \E action \in {"list_memory", "revoke_memory"} : Deny(b, action)
             \/ \E repo \in Repo : ForbidRevocation(b, repo)
      PROVE  GovernanceTypeOK'
  <2>1. audit' \subseteq AuditType
    BY <1>6 DEF Deny, ForbidRevocation, Audited, AuditType, Caller, GovernanceTypeOK
  <2>2. requests' \in 0..MaxRequests
    BY <1>0, <1>6 DEF Deny, ForbidRevocation, TakeRequest, GovernanceTypeOK
  <2> QED BY <1>6, <2>1, <2>2 DEF Deny, ForbidRevocation, TakeRequest, GovernanceTypeOK
<1>7. ASSUME NEW b \in Bearer, ListMemory(b) PROVE GovernanceTypeOK'
  <2>1. Visible(ScopeOf(Api, b), Recorded) \subseteq RowType
    BY RecordedType, VisibleRows
  <2>2. requests' \in 0..MaxRequests
    BY <1>0, <1>7 DEF ListMemory, TakeRequest, GovernanceTypeOK
  <2> QED BY <1>7, <2>1, <2>2 DEF ListMemory, TakeRequest, GovernanceTypeOK, tables
<1>8. ASSUME NEW b \in Bearer, NEW i \in Installation, NEW repo \in Repo, NEW key \in RevocableKey,
             RevokeMemory(b, {i}, repo, key)
      PROVE  GovernanceTypeOK'
  <2>1. RevocationTarget(Api, b, {i}, repo) \subseteq Installation
    <3>1. CASE Caller(Api, b) = "tenant"
      <4>1. b \in DOMAIN Api.tenants
        BY <3>1 DEF Caller
      <4>2. ScopeOf(Api, b).installation \in Installation
        BY <3>1, <4>1, GovernanceAssumption DEF ScopeOf, TenantScope
      <4> QED BY <3>1, <4>2 DEF RevocationTarget
    <3>2. CASE Caller(Api, b) # "tenant"
      BY <3>2 DEF RevocationTarget
    <3> QED BY <3>1, <3>2
  <2>2. revoked' \subseteq RevocationType
    <3> DEFINE where == RevocationTarget(Api, b, {i}, repo)
               new   == {[installation |-> j, repo |-> repo, key |-> key] : j \in where}
    <3>1. new \subseteq RevocationType
      BY <2>1 DEF RevocationType
    <3>2. revoked' = revoked \union new
      BY <1>8 DEF RevokeMemory
    <3> HIDE DEF new
    <3> QED BY <3>1, <3>2 DEF GovernanceTypeOK
  <2>3. requests' \in 0..MaxRequests
    BY <1>0, <1>8 DEF RevokeMemory, TakeRequest, GovernanceTypeOK
  <2> QED BY <1>8, <2>2, <2>3 DEF RevokeMemory, TakeRequest, GovernanceTypeOK
<1>9. CASE Answer
  <2>1. audit' \subseteq AuditType
    <3>1. answer.action \in {"list_memory", "revoke_memory"}
      BY <1>9 DEF Answer, GovernanceTypeOK
    <3>2. Caller(Api, answer.bearer) \in {"open", "service", "tenant", "denied"}
      BY DEF Caller
    <3> QED BY <1>9, <3>1, <3>2 DEF Answer, Audited, AuditType, GovernanceTypeOK
  <2>2. faults' \in 0..MaxFaults
    BY <1>0, <1>9 DEF Answer, GovernanceTypeOK
  <2> QED BY <1>9, <2>1, <2>2 DEF Answer, Audited, GovernanceTypeOK, NoAnswer
<1>10. ASSUME NEW n \in DOMAIN activity, Sweep(n) PROVE GovernanceTypeOK'
  <2>1. activity' \in Seq(SUBSET RowType)
    <3>1. activity \in Seq(SUBSET RowType) /\ DOMAIN activity = 1..Len(activity)
          /\ Len(activity) \in Nat
      BY LenProperties DEF GovernanceTypeOK
    <3>2. n + 1 \in Int /\ \A k \in n + 1 .. Len(activity) : activity[k] \in SUBSET RowType
      BY <3>1
    <3> QED BY <1>10, <3>1, <3>2, SubSeqProperties DEF Sweep
  <2> QED BY <1>10, <2>1 DEF Sweep, GovernanceTypeOK
<1>11. ASSUME NEW i \in Installation, Purge(i) PROVE GovernanceTypeOK'
  <2>1. session' \in [Session -> RunType]
    <3>1. ASSUME NEW s \in Session
          PROVE  [session[s] EXCEPT !.standing = {v \in @ : v.installation # i}] \in RunType
      <4> DEFINE kept == {v \in session[s].standing : v.installation # i}
      <4>1. session[s] \in RunType /\ kept \subseteq session[s].standing
        BY DEF GovernanceTypeOK
      <4>2. kept \subseteq RevocationType
        BY <4>1 DEF RunType
      <4> HIDE DEF kept
      <4>3. [session[s] EXCEPT !.standing = kept] \in RunType
        BY <4>1, <4>2 DEF RunType
      <4> QED BY <4>3 DEF kept
    <3> QED BY <1>11, <3>1 DEF Purge
  <2>2. activity' \in Seq(SUBSET RowType)
    <3>1. activity \in Seq(SUBSET RowType) /\ DOMAIN activity = 1..Len(activity)
          /\ Len(activity) \in Nat
      BY LenProperties DEF GovernanceTypeOK
    <3> QED BY <1>11, <3>1 DEF Purge
  <2> QED BY <1>11, <2>1, <2>2 DEF Purge, GovernanceTypeOK
<1>12. CASE UNCHANGED vars
  BY <1>12 DEF vars, tables, GovernanceTypeOK
<1> QED
  BY <1>1, <1>2, <1>3, <1>4, <1>5, <1>6, <1>7, <1>8, <1>9, <1>10, <1>11, <1>12 DEF Next

\* Tables, sessions and answers always hold values of their types.
THEOREM GovernanceTypeCorrect == Spec => []GovernanceTypeOK
BY InitType, NextType, PTL DEF Spec

-----------------------------------------------------------------------------
(* What binds a session: its revocations, its policy, its verdicts.        *)

\* The policy that a session of s is given when denied is denied.
PolicyFor(s, denied) ==
  Policy(SessionOf[s].repo \in MemoryOn, SessionOf[s].installation, SessionOf[s].repo,
         DeriveTrust(SessionOf[s].fork, SessionOf[s].commander),
         SessionOf[s].repo \in ApprovalOn, denied)

\* What stands was recorded for the session's repository.
StandsFor(s, r) ==
  \A v \in r.standing : /\ v \in revoked
                        /\ v.installation = SessionOf[s].installation
                        /\ v.repo = SessionOf[s].repo

Briefed(s, r) ==
  \E denied : /\ r.policy = PolicyFor(s, denied)
              /\ r.loaded => \A v \in r.standing : v.key \in denied

Honoured(r) ==
  \A v \in r.standing :
    /\ \A row \in r.rows : IsPrefix(v.key, row.key) => row.outcome = "rejected"
    /\ \A key \in r.cited : ~IsPrefix(v.key, key)

CitesAccepted(r) ==
  r.cited = {row.key : row \in {q \in r.rows : q.op = "read" /\ q.outcome = "accepted"}}

Governed(s, r) ==
  /\ StandsFor(s, r)
  /\ r.at = "briefed" => Briefed(s, r)
  /\ r.at = "reported" => CitesAccepted(r)
  /\ r.at = "reported" /\ r.loaded /\ s \notin unjudged => Honoured(r)

SessionsGoverned == \A s \in Session : Governed(s, session[s])

\* An entry under a denied prefix is refused, so its row says rejected and its
\* key is not cited.
LEMMA RevokedIsRejected ==
  ASSUME NEW policy, NEW used, used.enabled, NEW prefix \in policy.denied, NEW task
  PROVE  /\ \A row \in Rows(policy, task, used, Rejections(policy, used)) :
              IsPrefix(prefix, row.key) => row.outcome = "rejected"
         /\ \A key \in Cited(used, Rejections(policy, used)) : ~IsPrefix(prefix, key)
<1>1. ASSUME NEW e \in used.entries, IsPrefix(prefix, e.key)
      PROVE  IsRejected(Rejections(policy, used), e)
  BY <1>1 DEF IsRejected, Rejections, Refused, Revoked
<1> QED BY <1>1 DEF Rows, Cited

\* The comment and the record go by the same verdicts.
LEMMA CitedAreReads ==
  ASSUME NEW policy, NEW used, NEW task, NEW judged
  PROVE  Cited(used, judged) =
           {row.key : row \in {q \in Rows(policy, task, used, judged) :
                                 q.op = "read" /\ q.outcome = "accepted"}}
<1> DEFINE row(e) == [installation |-> policy.installation, repo |-> policy.repo, task |-> task,
                      op |-> e.op, key |-> e.key, scope |-> e.scope,
                      outcome |-> IF IsRejected(judged, e) THEN "rejected" ELSE "accepted"]
<1>1. Rows(policy, task, used, judged) = {row(e) : e \in used.entries}
  BY DEF Rows
<1>2. \A e : /\ row(e).op = e.op /\ row(e).key = e.key
             /\ row(e).outcome = "accepted" <=> ~IsRejected(judged, e)
  OBVIOUS
<1> HIDE DEF row
<1> QED BY <1>1, <1>2 DEF Cited

LEMMA GovernedKept == GovernanceTypeOK /\ SessionsGoverned /\ [Next]_vars => SessionsGoverned'
<1> SUFFICES ASSUME GovernanceTypeOK, SessionsGoverned, [Next]_vars, NEW t \in Session
             PROVE  Governed(t, session[t])'
  BY DEF SessionsGoverned
<1>0. Governed(t, session[t]) /\ session[t] \in RunType
  BY DEF SessionsGoverned, GovernanceTypeOK
<1>1. CASE /\ session'[t] = session[t] /\ revoked \subseteq revoked' /\ unjudged \subseteq unjudged'
  BY <1>0, <1>1 DEF Governed, StandsFor, Briefed, Honoured, CitesAccepted
<1>2. ASSUME session'[t] = NoRun \/ session'[t] = [NoRun EXCEPT !.at = "done"]
      PROVE  Governed(t, session[t])'
  BY <1>2 DEF Governed, StandsFor, NoRun
<1>3. ASSUME NEW s \in Session, s # t, Claim(s) \/ Brief(s) \/ ReportBack(s) \/ Publish(s)
      PROVE  Governed(t, session[t])'
  <2>1. \E q : session' = [session EXCEPT ![s] = q]
    BY <1>3 DEF Claim, Brief, ReportBack, Publish
  <2>2. revoked' = revoked /\ unjudged \subseteq unjudged'
    BY <1>3 DEF Claim, Brief, ReportBack, Publish, tables
  <2> QED BY <1>1, <1>3, <2>1, <2>2 DEF GovernanceTypeOK
<1>4. CASE Claim(t)
  <2> DEFINE kept == RevocationsFor(SessionOf[t].installation, SessionOf[t].repo)
             q    == [session[t] EXCEPT !.at = "claimed", !.standing = kept]
  <2>1. session'[t] = q /\ revoked' = revoked
    BY <1>4 DEF Claim, GovernanceTypeOK, tables
  <2>2. q.at = "claimed" /\ q.standing = kept
    BY <1>0 DEF RunType
  <2>3. \A v \in kept : /\ v \in revoked /\ v.installation = SessionOf[t].installation
                        /\ v.repo = SessionOf[t].repo
    BY DEF RevocationsFor
  <2> HIDE DEF kept, q
  <2> QED BY <2>1, <2>2, <2>3 DEF Governed, StandsFor
<1>5. CASE Brief(t)
  <2> DEFINE keys == {v.key : v \in RevocationsFor(SessionOf[t].installation, SessionOf[t].repo)}
  <2>1. PICK denied \in {keys, {}}, loaded \in BOOLEAN :
          /\ session' = [session EXCEPT ![t].at = "briefed", ![t].loaded = loaded,
                           ![t].policy = PolicyFor(t, denied)]
          /\ loaded => denied = keys
    BY <1>5 DEF Brief, PolicyFor
  <2> DEFINE q == [session[t] EXCEPT !.at = "briefed", !.loaded = loaded,
                     !.policy = PolicyFor(t, denied)]
  <2>2. session'[t] = q /\ revoked' = revoked
    BY <1>5, <2>1 DEF Brief, GovernanceTypeOK, tables
  <2>3. q.at = "briefed" /\ q.standing = session[t].standing /\ q.loaded = loaded
        /\ q.policy = PolicyFor(t, denied)
    BY <1>0 DEF RunType
  <2>4. StandsFor(t, session[t])
    BY <1>0 DEF Governed
  <2>5. \A v \in session[t].standing : v.key \in keys
    BY <2>4 DEF StandsFor, RevocationsFor
  <2> HIDE DEF q, keys
  <2>6. StandsFor(t, session[t])'
    BY <2>2, <2>3, <2>4 DEF StandsFor
  <2>7. Briefed(t, session'[t])
    BY <2>1, <2>2, <2>3, <2>5 DEF Briefed
  <2> QED BY <2>2, <2>3, <2>6, <2>7 DEF Governed, Briefed
<1>6. CASE ReportBack(t)
  <2>1. PICK report \in Reports :
          /\ session[t].at = "briefed"
          /\ session' = [session EXCEPT
               ![t].at = "reported", ![t].rows = RowsOf(t, report),
               ![t].cited = CitedOf(t, report), ![t].findings = report.findings]
          /\ unjudged' = IF report.used.enabled THEN unjudged ELSE unjudged \union {t}
          /\ revoked' = revoked
    BY <1>6, ReportParts
  <2> DEFINE rows  == RowsOf(t, report)
             cited == CitedOf(t, report)
             q == [session[t] EXCEPT !.at = "reported", !.rows = rows, !.cited = cited,
                     !.findings = report.findings]
             p == session[t].policy
  <2>2. session'[t] = q
    BY <2>1 DEF GovernanceTypeOK
  <2>3. q.at = "reported" /\ q.standing = session[t].standing /\ q.loaded = session[t].loaded
        /\ q.rows = rows /\ q.cited = cited
    BY <1>0 DEF RunType
  <2>4. StandsFor(t, session[t]) /\ Briefed(t, session[t])
    BY <1>0, <2>1 DEF Governed
  <2> HIDE DEF q
  <2>5. StandsFor(t, session[t])'
    BY <2>1, <2>2, <2>3, <2>4 DEF StandsFor
  <2>6. CitesAccepted(session'[t])
    <3>1. CASE p.enabled
      <4>1. cited = Cited(report.used, Judged(t, report))
            /\ rows = Rows(p, t, report.used, Judged(t, report))
        BY <3>1 DEF RowsOf, CitedOf
      <4> HIDE DEF cited, rows, p
      <4> QED BY <2>2, <2>3, <4>1, CitedAreReads DEF CitesAccepted
    <3>2. CASE ~p.enabled
      <4>1. cited = {} /\ rows = {}
        BY <3>2 DEF RowsOf, CitedOf
      <4> QED BY <2>2, <2>3, <4>1 DEF CitesAccepted
    <3> QED BY <3>1, <3>2
  <2>7. session[t].loaded /\ t \notin unjudged' => Honoured(session'[t])
    <3> SUFFICES ASSUME session[t].loaded, report.used.enabled, NEW v \in session[t].standing
                 PROVE  /\ \A row \in rows : IsPrefix(v.key, row.key) => row.outcome = "rejected"
                        /\ \A key \in cited : ~IsPrefix(v.key, key)
      BY <2>1, <2>2, <2>3 DEF Honoured
    <3>1. PICK denied : p = PolicyFor(t, denied) /\ v.key \in denied
      BY <2>4 DEF Briefed
    <3>2. CASE p.enabled
      <4>1. p.denied = denied
        BY <3>1, <3>2 DEF PolicyFor, Policy, NoPolicy
      <4>2. /\ cited = Cited(report.used, Rejections(p, report.used))
            /\ rows = Rows(p, t, report.used, Rejections(p, report.used))
        BY <3>2 DEF RowsOf, CitedOf, Judged
      <4> HIDE DEF p, rows, cited
      <4> QED BY <3>1, <4>1, <4>2, RevokedIsRejected
    <3>3. CASE ~p.enabled
      BY <3>3 DEF RowsOf, CitedOf
    <3> QED BY <3>2, <3>3
  <2> QED BY <2>2, <2>3, <2>5, <2>6, <2>7 DEF Governed, Honoured, CitesAccepted
<1>7. CASE Publish(t)
  BY <1>2, <1>7 DEF Publish, GovernanceTypeOK
<1>8. CASE Crash
  <2>1. session'[t] = session[t] \/ session'[t] = NoRun
    BY <1>8 DEF Crash
  <2>2. revoked' = revoked /\ unjudged' = unjudged
    BY <1>8 DEF Crash, tables
  <2> QED BY <1>1, <1>2, <2>1, <2>2
<1>9. ASSUME NEW i \in Installation, Purge(i) PROVE Governed(t, session[t])'
  <2> DEFINE kept == {v \in session[t].standing : v.installation # i}
             q    == [session[t] EXCEPT !.standing = kept]
  <2>1. session'[t] = q /\ revoked' = {v \in revoked : v.installation # i}
        /\ unjudged' = unjudged
    BY <1>9 DEF Purge
  <2>2. /\ q.at = session[t].at /\ q.standing = kept /\ q.policy = session[t].policy
        /\ q.loaded = session[t].loaded /\ q.rows = session[t].rows
        /\ q.cited = session[t].cited
    BY <1>0 DEF RunType
  <2> HIDE DEF q
  <2> QED BY <1>0, <2>1, <2>2 DEF Governed, StandsFor, Briefed, Honoured, CitesAccepted
<1>10. CASE \/ \E b \in Bearer :
                 \/ \E action \in {"list_memory", "revoke_memory"} : Deny(b, action)
                 \/ ListMemory(b)
                 \/ \E repo \in Repo :
                      \/ ForbidRevocation(b, repo)
                      \/ \E i \in Installation, key \in RevocableKey :
                           RevokeMemory(b, {i}, repo, key)
            \/ Answer
            \/ \E n \in DOMAIN activity : Sweep(n)
            \/ UNCHANGED vars
  <2>1. session' = session /\ unjudged' = unjudged /\ revoked \subseteq revoked'
    BY <1>10 DEF Deny, ListMemory, ForbidRevocation, RevokeMemory, Answer, Sweep, vars, tables
  <2> QED BY <1>1, <2>1
<1> QED BY <1>3, <1>4, <1>5, <1>6, <1>7, <1>8, <1>9, <1>10 DEF Next

LEMMA GovernedHolds == Spec => [](GovernanceTypeOK /\ SessionsGoverned)
<1>1. Init => SessionsGoverned
  BY DEF Init, SessionsGoverned, Governed, StandsFor, NoRun
<1> QED BY <1>1, GovernanceTypeCorrect, GovernedKept, PTL DEF Spec

\* What stood revoked since a run was claimed is neither accepted from its
\* report nor cited.
THEOREM RevocationsHoldThroughout == Spec => []RevocationsHold
<1>1. SessionsGoverned => RevocationsHold
  BY DEF SessionsGoverned, Governed, Honoured, RevocationsHold
<1> QED BY <1>1, GovernedHolds, PTL

\* The status comment cites exactly the reads recorded as accepted.
THEOREM CitedWasAcceptedHolds == Spec => []CitedWasAccepted
<1>1. SessionsGoverned => CitedWasAccepted
  BY DEF SessionsGoverned, Governed, CitesAccepted, CitedWasAccepted
<1> QED BY <1>1, GovernedHolds, PTL

-----------------------------------------------------------------------------
(* The record, and who is shown it.                                        *)

\* A row is of the installation and the repository of its session.
InPlace(r) == /\ r.installation = SessionOf[r.task].installation
              /\ r.repo = SessionOf[r.task].repo

RecordInPlace == (\A r \in Recorded : InPlace(r)) /\ (\A r \in answer.rows : InPlace(r))

OwnWrite(r) ==
  r.op = "write" /\ r.outcome = "accepted" =>
    /\ ~SessionOf[r.task].fork
    /\ IsPrefix(<<"repo/", SessionOf[r.task].repo, "/">>, r.key)

\* The rows a report adds are in place and, when it was judged, its accepted
\* writes are those of a trusted session in its own repository.
LEMMA NewRows ==
  ASSUME NEW s \in Session, NEW report, Briefed(s, session[s]), NEW r \in RowsOf(s, report)
  PROVE  /\ r.task = s /\ InPlace(r)
         /\ report.used.enabled => OwnWrite(r)
<1> DEFINE p == session[s].policy
<1>1. PICK denied : p = PolicyFor(s, denied)
  BY DEF Briefed
<1>2. p.enabled /\ r \in Rows(p, s, report.used, Judged(s, report))
  BY DEF RowsOf
<1>3. /\ p.installation = SessionOf[s].installation /\ p.repo = SessionOf[s].repo
      /\ p.granted.write = Writable(DeriveTrust(SessionOf[s].fork, SessionOf[s].commander))
  BY <1>1, <1>2 DEF PolicyFor, Policy, NoPolicy
<1>4. PICK e \in report.used.entries :
        /\ r.installation = p.installation /\ r.repo = p.repo /\ r.task = s
        /\ r.op = e.op /\ r.key = e.key
        /\ r.outcome = "accepted" => ~IsRejected(Judged(s, report), e)
  BY <1>2 DEF Rows
<1>5. InPlace(r)
  BY <1>3, <1>4 DEF InPlace
<1>6. ASSUME report.used.enabled, r.op = "write", r.outcome = "accepted"
      PROVE  /\ ~SessionOf[s].fork
             /\ IsPrefix(<<"repo/", SessionOf[s].repo, "/">>, r.key)
  <2>1. ~Refused(p, e)
    BY <1>2, <1>4, <1>6 DEF IsRejected, Judged, Rejections
  <2>2. /\ e.scope \in p.granted["write"]
        /\ IsPrefix(RequiredPrefix(p, e.scope), e.key)
    BY <1>4, <1>6, <2>1 DEF Refused, Accessible
  <2>3. e.scope = "repo" /\ ~SessionOf[s].fork
    BY <1>3, <2>2 DEF Writable, DeriveTrust
  <2>4. RequiredPrefix(p, e.scope) = <<"repo/", p.repo, "/">>
    BY <2>3 DEF RequiredPrefix
  <2> QED BY <1>3, <1>4, <2>2, <2>3, <2>4
<1> QED BY <1>4, <1>5, <1>6 DEF OwnWrite

\* What a step does to the record.
LEMMA RecordSteps ==
  ASSUME GovernanceTypeOK, SessionsGoverned, [Next]_vars
  PROVE  /\ unjudged \subseteq unjudged'
         /\ \/ Recorded' \subseteq Recorded
            \/ \E s \in Session, report \in Reports :
                 /\ Briefed(s, session[s])
                 /\ Recorded' = Recorded \union RowsOf(s, report)
                 /\ answer' = answer
                 /\ ~report.used.enabled => s \in unjudged'
<1>1. ASSUME activity' = activity PROVE Recorded' \subseteq Recorded
  BY <1>1 DEF Recorded
<1>2. ASSUME NEW s \in Session, ReportBack(s)
      PROVE  /\ unjudged \subseteq unjudged'
             /\ \/ Recorded' \subseteq Recorded
                \/ \E report \in Reports :
                     /\ Briefed(s, session[s])
                     /\ Recorded' = Recorded \union RowsOf(s, report)
                     /\ answer' = answer
                     /\ ~report.used.enabled => s \in unjudged'
  <2>1. PICK report \in Reports :
          /\ session[s].at = "briefed"
          /\ activity' = activity \/ activity' = Append(activity, RowsOf(s, report))
          /\ unjudged' = IF report.used.enabled THEN unjudged ELSE unjudged \union {s}
          /\ answer' = answer
    BY <1>2, ReportParts
  <2>2. Briefed(s, session[s])
    BY <2>1 DEF SessionsGoverned, Governed
  <2>3. activity' = Append(activity, RowsOf(s, report)) =>
          Recorded' = Recorded \union RowsOf(s, report)
    BY RecordedSteps
  <2> QED BY <1>1, <2>1, <2>2, <2>3
<1>3. ASSUME NEW n \in DOMAIN activity, Sweep(n)
      PROVE  unjudged \subseteq unjudged' /\ Recorded' \subseteq Recorded
  BY <1>3, RecordedSteps DEF Sweep
<1>4. ASSUME NEW i \in Installation, Purge(i)
      PROVE  unjudged \subseteq unjudged' /\ Recorded' \subseteq Recorded
  <2>1. Recorded' = {r \in Recorded : r.installation # i}
    BY <1>4, RecordedSteps DEF Purge
  <2> QED BY <1>4, <2>1 DEF Purge
<1>5. ASSUME \/ UNCHANGED vars
             \/ \E s \in Session : Claim(s) \/ Brief(s) \/ Publish(s)
             \/ Crash \/ Answer
             \/ \E b \in Bearer :
                  \/ \E action \in {"list_memory", "revoke_memory"} : Deny(b, action)
                  \/ ListMemory(b)
                  \/ \E repo \in Repo :
                       \/ ForbidRevocation(b, repo)
                       \/ \E i \in Installation, key \in RevocableKey :
                            RevokeMemory(b, {i}, repo, key)
      PROVE  unjudged \subseteq unjudged' /\ Recorded' \subseteq Recorded
  <2>1. activity' = activity /\ unjudged' = unjudged
    BY <1>5
    DEF vars, tables, Claim, Brief, Publish, Crash, Answer, Deny, ListMemory, ForbidRevocation,
        RevokeMemory
  <2> QED BY <1>1, <2>1
<1> QED BY <1>2, <1>3, <1>4, <1>5 DEF Next

\* What a step does to the answer under way.
LEMMA AnswerSteps ==
  ASSUME [Next]_vars
  PROVE  \/ answer' = answer
         \/ answer'.rows = {}
         \/ \E b \in Bearer :
              /\ Caller(Api, b) # "denied" /\ Recorded' = Recorded
              /\ answer' = [bearer |-> b, action |-> "list_memory",
                            rows |-> Visible(ScopeOf(Api, b), Recorded)]
<1>1. ASSUME NEW b \in Bearer, ListMemory(b)
      PROVE  /\ Caller(Api, b) # "denied" /\ Recorded' = Recorded
             /\ answer' = [bearer |-> b, action |-> "list_memory",
                           rows |-> Visible(ScopeOf(Api, b), Recorded)]
  BY <1>1 DEF ListMemory, tables, Recorded
<1>2. CASE Crash \/ Answer
  BY <1>2 DEF Crash, Answer, NoAnswer
<1>3. CASE \/ UNCHANGED vars
           \/ \E s \in Session : Claim(s) \/ Brief(s) \/ ReportBack(s) \/ Publish(s)
           \/ \E n \in DOMAIN activity : Sweep(n)
           \/ \E i \in Installation : Purge(i)
           \/ \E b \in Bearer :
                \/ \E action \in {"list_memory", "revoke_memory"} : Deny(b, action)
                \/ \E repo \in Repo : ForbidRevocation(b, repo)
  BY <1>3
  DEF vars, Claim, Brief, ReportBack, Publish, Sweep, Purge, Deny, ForbidRevocation
<1>4. ASSUME NEW b, NEW i, NEW repo, NEW key, RevokeMemory(b, {i}, repo, key)
      PROVE  answer'.rows = {}
  BY <1>4 DEF RevokeMemory
<1> QED BY <1>1, <1>2, <1>3, <1>4 DEF Next

LEMMA RecordKept ==
  GovernanceTypeOK /\ SessionsGoverned /\ RecordInPlace /\ [Next]_vars => RecordInPlace'
<1> SUFFICES ASSUME GovernanceTypeOK, SessionsGoverned, RecordInPlace, [Next]_vars
             PROVE  RecordInPlace'
  OBVIOUS
<1>1. \A r \in Recorded' : InPlace(r)
  BY RecordSteps, NewRows DEF RecordInPlace
<1>2. \A r \in answer'.rows : InPlace(r)
  BY AnswerSteps, VisibleRows DEF RecordInPlace
<1>3. \A r : InPlace(r)' <=> InPlace(r)
  BY DEF InPlace
<1> QED BY <1>1, <1>2 DEF RecordInPlace, InPlace

LEMMA RecordInPlaceHolds == Spec => [](GovernanceTypeOK /\ SessionsGoverned /\ RecordInPlace)
<1>1. Init => RecordInPlace
  BY DEF Init, RecordInPlace, Recorded, NoAnswer
<1> QED BY <1>1, GovernedHolds, RecordKept, PTL DEF Spec

\* Memory is written only by trusted sessions and only in their repository.
THEOREM UntrustedNeverWritesHolds == Spec => []UntrustedNeverWrites
<1>1. Init => UntrustedNeverWrites
  BY DEF Init, UntrustedNeverWrites, Recorded
<1>2. GovernanceTypeOK /\ SessionsGoverned /\ UntrustedNeverWrites /\ [Next]_vars =>
        UntrustedNeverWrites'
  <2> SUFFICES ASSUME GovernanceTypeOK, SessionsGoverned, UntrustedNeverWrites, [Next]_vars,
                      NEW r \in Recorded', r.op = "write", r.outcome = "accepted",
                      r.task \notin unjudged'
               PROVE  /\ ~SessionOf[r.task].fork
                      /\ IsPrefix(<<"repo/", SessionOf[r.task].repo, "/">>, r.key)
    BY DEF UntrustedNeverWrites
  <2>1. CASE r \in Recorded
    BY <2>1, RecordSteps DEF UntrustedNeverWrites
  <2>2. CASE r \notin Recorded
    BY <2>2, RecordSteps, NewRows DEF OwnWrite
  <2> QED BY <2>1, <2>2
<1> QED BY <1>1, <1>2, GovernedHolds, PTL DEF Spec

\* A tenant is shown what is of its installation and repositories, for any
\* tokens, rows and interleaving.
THEOREM TenantBoundaryHolds == Spec => []TenantBoundary
<1>1. Init => TenantBoundary
  BY DEF Init, TenantBoundary, NoAnswer
<1>2. RecordInPlace /\ TenantBoundary /\ [Next]_vars => TenantBoundary'
  <2> SUFFICES ASSUME RecordInPlace, TenantBoundary, [Next]_vars, ~Api.open,
                      answer'.bearer \in DOMAIN Api.tenants, NEW r \in answer'.rows
               PROVE  LET tenant == Api.tenants[answer'.bearer] IN
                      /\ SessionOf[r.task].installation = tenant.installation
                      /\ tenant.repos # {} => SessionOf[r.task].repo \in tenant.repos
    BY DEF TenantBoundary
  <2>1. CASE answer' = answer
    BY <2>1 DEF TenantBoundary
  <2>2. ASSUME NEW b \in Bearer, Caller(Api, b) # "denied",
               answer' = [bearer |-> b, action |-> "list_memory",
                          rows |-> Visible(ScopeOf(Api, b), Recorded)]
        PROVE  LET tenant == Api.tenants[b] IN
               /\ SessionOf[r.task].installation = tenant.installation
               /\ tenant.repos # {} => SessionOf[r.task].repo \in tenant.repos
    <3>1. b \in DOMAIN Api.tenants /\ r \in Visible(ScopeOf(Api, b), Recorded)
      BY <2>2
    <3>2. Caller(Api, b) = "tenant"
      BY <3>1, GovernanceAssumption DEF Caller
    <3>3. ScopeOf(Api, b) = TenantScope(Api.tenants[b])
      BY <3>2 DEF ScopeOf
    <3>4. r \in Recorded /\ r.installation = Api.tenants[b].installation
          /\ (Api.tenants[b].repos # {} => r.repo \in Api.tenants[b].repos)
      <4> DEFINE scope == ScopeOf(Api, b)
      <4>1. /\ scope.all = FALSE /\ scope.installation = Api.tenants[b].installation
            /\ scope.repos = Api.tenants[b].repos
            /\ scope.narrowed = (Api.tenants[b].repos # {})
        <5> DEFINE narrow == Api.tenants[b].repos # {}
        <5>1. scope = [all |-> FALSE, installation |-> Api.tenants[b].installation,
                       repos |-> Api.tenants[b].repos, narrowed |-> narrow]
          BY <3>3 DEF TenantScope
        <5> HIDE DEF narrow, scope
        <5>2. scope.all = FALSE /\ scope.installation = Api.tenants[b].installation
              /\ scope.repos = Api.tenants[b].repos /\ scope.narrowed = narrow
          BY <5>1
        <5> QED BY <5>2 DEF narrow
      <4>2. r \in Visible(scope, Recorded)
        BY <3>1
      <4> HIDE DEF scope
      <4>3. r \in Recorded /\ r.installation = scope.installation
            /\ (scope.narrowed => r.repo \in scope.repos)
        BY <4>1, <4>2 DEF Visible
      <4> QED BY <4>1, <4>3
    <3> QED BY <3>4 DEF RecordInPlace, InPlace
  <2> QED BY <2>1, <2>2, AnswerSteps
<1> QED BY <1>1, <1>2, RecordInPlaceHolds, PTL DEF Spec

\* A revocation goes only with the rest of an installation that departs.
THEOREM RevocationsOutliveRows == Spec => RevocationsOutlive
<1>1. ASSUME GovernanceTypeOK, [Next]_vars, NEW v \in revoked \ revoked'
      PROVE  /\ \A w \in revoked' : w.installation # v.installation
             /\ \A k \in DOMAIN activity' : \A r \in activity'[k] :
                  r.installation # v.installation
  <2>1. PICK i \in Installation : Purge(i)
    BY <1>1
    DEF Next, vars, tables, Claim, Brief, ReportBack, Publish, Crash, Answer, Deny, ListMemory,
        ForbidRevocation, RevokeMemory, Sweep
  <2> QED BY <1>1, <2>1 DEF Purge
<1>2. GovernanceTypeOK /\ [Next]_vars =>
        [\A v \in revoked \ revoked' :
           /\ \A w \in revoked' : w.installation # v.installation
           /\ \A k \in DOMAIN activity' : \A r \in activity'[k] :
                r.installation # v.installation]_vars
  BY <1>1
<1> QED BY <1>2, GovernanceTypeCorrect, PTL DEF Spec, RevocationsOutlive

-----------------------------------------------------------------------------
(* The publication gate.                                                   *)

\* Ranking by the number of places before it puts every place at one rank, and
\* the ranks in order.
LEMMA RankedSorts ==
  ASSUME NEW findings, NEW places \in SUBSET Nat, IsFiniteSet(places),
         \A k \in places : findings[k].severity \in Nat
  PROVE  /\ DOMAIN Ranked(findings, places) = 1..Cardinality(places)
         /\ \A n \in 1..Cardinality(places) : Ranked(findings, places)[n] \in places
         /\ \A k \in places : \E n \in 1..Cardinality(places) : Ranked(findings, places)[n] = k
         /\ \A m, n \in 1..Cardinality(places) : m < n =>
              Before(findings, Ranked(findings, places)[m], Ranked(findings, places)[n])
<1> DEFINE N     == Cardinality(places)
           P(k)  == {j \in places : Before(findings, j, k)}
           order == Ranked(findings, places)
           rank  == [k \in places |-> Cardinality(P(k)) + 1]
<1>1. N \in Nat /\ \A k \in places : IsFiniteSet(P(k)) /\ Cardinality(P(k)) \in Nat
  BY FS_CardinalityType, FS_Subset
<1>2. ASSUME NEW j \in places, NEW k \in places
      PROVE  /\ j # k => Before(findings, j, k) \/ Before(findings, k, j)
             /\ ~(Before(findings, j, k) /\ Before(findings, k, j))
             /\ \A i \in places : Before(findings, i, j) /\ Before(findings, j, k) =>
                                    Before(findings, i, k)
  BY DEF Before
<1>3. ASSUME NEW j \in places, NEW k \in places, Before(findings, j, k)
      PROVE  Cardinality(P(j)) < Cardinality(P(k))
  <2>1. P(j) \subseteq P(k) /\ j \in P(k) /\ j \notin P(j)
    BY <1>2, <1>3
  <2>2. P(j) \in SUBSET P(k) /\ P(j) # P(k)
    BY <2>1
  <2>3. Cardinality(P(j)) <= Cardinality(P(k)) /\ Cardinality(P(j)) # Cardinality(P(k))
    <3> HIDE DEF P
    <3> QED BY <1>1, <2>2, FS_Subset
  <2>4. Cardinality(P(j)) \in Nat /\ Cardinality(P(k)) \in Nat
    BY <1>1
  <2> HIDE DEF P
  <2> QED BY <2>3, <2>4
<1>4. ASSUME NEW k \in places PROVE Cardinality(P(k)) < N
  <2>1. P(k) \in SUBSET places /\ P(k) # places
    <3>1. k \notin P(k)
      BY <1>2
    <3> QED BY <3>1
  <2>2. Cardinality(P(k)) <= N /\ Cardinality(P(k)) # N
    <3> HIDE DEF P
    <3> QED BY <2>1, FS_Subset
  <2> QED BY <1>1, <2>2
<1>5. rank \in [places -> 1..N]
  <2> HIDE DEF P, N
  <2> QED BY <1>1, <1>4
<1>6. \A j, k \in places : rank[j] = rank[k] => j = k
  <2> SUFFICES ASSUME NEW j \in places, NEW k \in places, j # k PROVE rank[j] # rank[k]
    OBVIOUS
  <2>1. Cardinality(P(j)) # Cardinality(P(k))
    <3>1. Cardinality(P(j)) \in Nat /\ Cardinality(P(k)) \in Nat
      BY <1>1
    <3> HIDE DEF P
    <3> QED BY <1>2, <1>3, <3>1
  <2> HIDE DEF P
  <2> QED BY <1>1, <2>1
<1>7. rank \in Surjection(places, 1..N)
  <2>1. rank \in Injection(places, 1..N)
    <3> HIDE DEF rank, N
    <3> QED BY <1>5, <1>6 DEF Injection, IsInjective
  <2>2. IsFiniteSet(1..N) /\ Cardinality(1..N) = N
    <3> HIDE DEF N
    <3> QED BY <1>1, FS_Interval
  <2> HIDE DEF rank
  <2> QED BY <2>1, <2>2, FS_Injection DEF N
<1>8. \A n \in 1..N : \E k \in places : Cardinality(P(k)) = n - 1
  <2>1. \A n \in 1..N : \E k \in places : rank[k] = n
    <3> HIDE DEF rank, N
    <3> QED BY <1>7 DEF Surjection
  <2>2. \A k \in places : rank[k] = Cardinality(P(k)) + 1 /\ Cardinality(P(k)) \in Nat
    BY <1>1
  <2> HIDE DEF P, N, rank
  <2> QED BY <2>1, <2>2
<1>9. DOMAIN order = 1..N /\ \A n \in 1..N : order[n] = CHOOSE k \in places : Cardinality(P(k)) = n - 1
  BY DEF Ranked
<1>10. \A n \in 1..N : order[n] \in places /\ Cardinality(P(order[n])) = n - 1
  <2> HIDE DEF P, N, order
  <2> QED BY <1>8, <1>9
<1>11. \A k \in places : order[rank[k]] = k
  <2> SUFFICES ASSUME NEW k \in places PROVE order[rank[k]] = k
    OBVIOUS
  <2>1. rank[k] \in 1..N /\ rank[k] = Cardinality(P(k)) + 1
    BY <1>5
  <2> DEFINE o == order[rank[k]]
  <2>2. o \in places /\ rank[o] = rank[k]
    <3> HIDE DEF P, N, order
    <3> QED BY <1>1, <1>10, <2>1
  <2> HIDE DEF rank, order
  <2> QED BY <1>6, <2>2
<1>12. ASSUME NEW m \in 1..N, NEW n \in 1..N, m < n
       PROVE  Before(findings, order[m], order[n])
  <2> HIDE DEF P, N, order, rank
  <2>1. /\ order[m] \in places /\ order[n] \in places
        /\ Cardinality(P(order[m])) = m - 1 /\ Cardinality(P(order[n])) = n - 1
    BY <1>10
  <2>2. order[m] # order[n]
    BY <1>1, <1>12, <2>1
  <2>3. ~Before(findings, order[n], order[m])
    BY <1>1, <1>3, <1>12, <2>1
  <2> QED BY <1>2, <2>1, <2>2, <2>3
<1>13. \A k \in places : \E n \in 1..N : order[n] = k
  <2> HIDE DEF order, rank, N
  <2> QED BY <1>5, <1>11
<1> QED BY <1>9, <1>10, <1>12, <1>13

Less == {pair \in Nat \X Nat : pair[1] < pair[2]}

LEMMA LeastOf ==
  ASSUME NEW S \in SUBSET Nat, S # {}
  PROVE  \E n \in S : \A m \in S : n <= m
<1>1. IsWellFoundedOn(Less, Nat)
  BY NatLessThanWellFounded DEF OpToRel, Less
<1>2. PICK n \in S : \A m \in S : <<m, n>> \notin Less
  BY <1>1, WFMin, Zenon
<1>3. ASSUME NEW m \in S, m < n PROVE FALSE
  <2>1. m \in Nat /\ n \in Nat
    OBVIOUS
  <2>2. <<m, n>> \in Less
    BY <1>3, <2>1 DEF Less
  <2> QED BY <1>2, <2>2
<1> QED BY <1>3

\* Something of the key of every loud finding publishes, and nothing else of it.
LEMMA FirstOfEachKey ==
  ASSUME NEW findings, NEW inside \in SUBSET Nat, NEW minimum
  PROVE  /\ FirstOfEach(findings, inside, minimum) \subseteq Loud(findings, inside, minimum)
         /\ \A k \in Loud(findings, inside, minimum) :
              \E j \in FirstOfEach(findings, inside, minimum) : Key(findings[j]) = Key(findings[k])
         /\ \A j, k \in FirstOfEach(findings, inside, minimum) :
              Key(findings[j]) = Key(findings[k]) => j = k
<1> DEFINE loud  == Loud(findings, inside, minimum)
           first == FirstOfEach(findings, inside, minimum)
<1>1. loud \subseteq Nat
  BY DEF Loud
<1>2. first = {k \in loud : \A j \in loud : j < k => Key(findings[j]) # Key(findings[k])}
  BY DEF FirstOfEach
<1> HIDE DEF loud, first
<1>3. ASSUME NEW k \in loud PROVE \E j \in first : Key(findings[j]) = Key(findings[k])
  <2> DEFINE same == {j \in loud : Key(findings[j]) = Key(findings[k])}
  <2>1. same \in SUBSET Nat /\ same # {}
    BY <1>1, <1>3
  <2>2. PICK j \in same : \A i \in same : j <= i
    <3> HIDE DEF same
    <3> QED BY <2>1, LeastOf
  <2>3. \A i \in loud : i < j => Key(findings[i]) # Key(findings[j])
    BY <1>1, <2>2
  <2> QED BY <1>2, <2>2, <2>3
<1>4. ASSUME NEW j \in first, NEW k \in first, Key(findings[j]) = Key(findings[k]) PROVE j = k
  BY <1>1, <1>2, <1>4
<1>5. first \subseteq loud
  BY <1>2
<1> QED BY <1>3, <1>4, <1>5 DEF loud, first

\* Redaction leaves no credential, and file, line and severity as they were.
LEMMA SanitizedFindings ==
  ASSUME NEW findings \in Seq(FindingType), NEW live, Redacted \notin live
  PROVE  /\ DOMAIN Sanitized(findings, live) = DOMAIN findings
         /\ \A k \in DOMAIN findings :
              /\ Sanitized(findings, live)[k].file = findings[k].file
              /\ Sanitized(findings, live)[k].severity = findings[k].severity
              /\ findings[k].severity \in 0..4
              /\ \A n \in DOMAIN Sanitized(findings, live)[k].title :
                   Sanitized(findings, live)[k].title[n] \notin live \union Credential
<1> DEFINE clean == Sanitized(findings, live)
<1>1. /\ DOMAIN clean = DOMAIN findings
      /\ \A k \in DOMAIN findings :
           clean[k] = [findings[k] EXCEPT !.title = Redact(findings[k].title, live)]
  BY DEF Sanitized
<1>2. \A k \in DOMAIN findings : findings[k] \in FindingType
  OBVIOUS
<1>3. \A text : \A n \in DOMAIN Redact(text, live) :
        Redact(text, live)[n] \notin live \union Credential
  BY DEF Redact, Redacted, Credential
<1> HIDE DEF clean
<1>4. ASSUME NEW k \in DOMAIN findings
      PROVE  /\ clean[k].file = findings[k].file
             /\ clean[k].severity = findings[k].severity
             /\ findings[k].severity \in 0..4
             /\ clean[k].title = Redact(findings[k].title, live)
  BY <1>1, <1>2 DEF FindingType
<1> QED BY <1>1, <1>3, <1>4 DEF clean

\* Every finding is published or withheld by one gate.
LEMMA FourParts ==
  ASSUME NEW S, IsFiniteSet(S), NEW A \in SUBSET S, NEW B \in SUBSET A, NEW C \in SUBSET B
  PROVE  Cardinality(C) + Cardinality(S \ A) + Cardinality(A \ B) + Cardinality(B \ C)
           = Cardinality(S)
<1>1. IsFiniteSet(A) /\ IsFiniteSet(B) /\ IsFiniteSet(C)
  BY FS_Subset
<1>2. /\ Cardinality(S) \in Nat /\ Cardinality(A) \in Nat /\ Cardinality(B) \in Nat
      /\ Cardinality(C) \in Nat
  BY <1>1, FS_CardinalityType
<1>3. S \intersect A = A /\ A \intersect B = B /\ B \intersect C = C
  OBVIOUS
<1>4. /\ Cardinality(S \ A) = Cardinality(S) - Cardinality(A)
      /\ Cardinality(A \ B) = Cardinality(A) - Cardinality(B)
      /\ Cardinality(B \ C) = Cardinality(B) - Cardinality(C)
  <2>1. /\ Cardinality(S \ A) = Cardinality(S) - Cardinality(S \intersect A)
        /\ Cardinality(A \ B) = Cardinality(A) - Cardinality(A \intersect B)
        /\ Cardinality(B \ C) = Cardinality(B) - Cardinality(B \intersect C)
    BY <1>1, FS_Difference, Zenon
  <2> QED BY <1>3, <2>1, Zenon
<1> QED BY <1>2, <1>4

\* Whatever a runtime reports, the gate accounts for every finding, publishes
\* one of each key that is in scope and loud enough, in order, and no
\* credential.
THEOREM GateIsHonestHolds == Spec => []GateIsHonest
<1>1. ASSUME GovernanceTypeOK, NEW s \in Session
      PROVE  LET all == session[s].findings
                 out == Published(s)
             IN /\ Len(out.published) + out.scope + out.threshold + out.duplicates = Len(all)
                /\ \A j, k \in DOMAIN out.published :
                     /\ j < k => out.published[j].severity >= out.published[k].severity
                     /\ Key(out.published[j]) = Key(out.published[k]) => j = k
                /\ \A k \in DOMAIN all :
                     /\ all[k].file \in Files /\ ~Below(all[k], MinSeverity)
                     => \E n \in DOMAIN out.published :
                          Key(out.published[n]) = Key(Sanitized(all, LiveTokens)[k])
                /\ \A n \in DOMAIN out.published : \A k \in DOMAIN out.published[n].title :
                     out.published[n].title[k] \notin LiveTokens \union Credential
  <2> DEFINE all    == session[s].findings
             clean  == Sanitized(all, LiveTokens)
             inside == InScope(clean, Files)
             loud   == Loud(clean, inside, MinSeverity)
             places == FirstOfEach(clean, inside, MinSeverity)
             order  == Ranked(clean, places)
             out    == Published(s)
             N      == Cardinality(places)
  <2>1. all \in Seq(FindingType)
    <3>1. session[s] \in RunType
      BY <1>1 DEF GovernanceTypeOK
    <3>2. all \in {<<>>} \union {report.findings : report \in Reports}
      BY <3>1 DEF RunType
    <3>3. <<>> \in Seq(FindingType)
      OBVIOUS
    <3> QED BY <3>2, <3>3, GovernanceAssumption
  <2>2. out = [published  |-> [n \in DOMAIN order |-> clean[order[n]]],
               scope      |-> Cardinality(DOMAIN clean \ inside),
               threshold  |-> Cardinality(inside \ loud),
               duplicates |-> Cardinality(loud \ places)]
    BY DEF Published, Gate
  <2>3. DOMAIN all = 1..Len(all) /\ Len(all) \in Nat
    BY <2>1, LenProperties
  <2> HIDE DEF all
  <2>4. /\ DOMAIN clean = DOMAIN all
        /\ \A k \in DOMAIN all :
             /\ clean[k].file = all[k].file /\ clean[k].severity = all[k].severity
             /\ clean[k].severity \in Nat
             /\ \A n \in DOMAIN clean[k].title :
                  clean[k].title[n] \notin LiveTokens \union Credential
    BY <2>1, SanitizedFindings, GovernanceAssumption
  <2> HIDE DEF clean
  <2>5. inside = {k \in DOMAIN all : all[k].file \in Files}
    BY <2>4 DEF InScope
  <2>6. inside \in SUBSET (DOMAIN all) /\ inside \in SUBSET Nat
    BY <2>3, <2>5
  <2> HIDE DEF inside
  <2>7. loud = {k \in inside : ~Below(all[k], MinSeverity)}
    BY <2>4, <2>6 DEF Loud, Below
  <2>8. /\ places \in SUBSET loud
        /\ \A k \in loud : \E j \in places : Key(clean[j]) = Key(clean[k])
        /\ \A j, k \in places : Key(clean[j]) = Key(clean[k]) => j = k
    BY <2>6, FirstOfEachKey
  <2> HIDE DEF loud, places
  <2>9. IsFiniteSet(DOMAIN all) /\ Cardinality(DOMAIN all) = Len(all)
    <3> DEFINE n == Len(all)
    <3>1. n \in Nat /\ DOMAIN all = 1..n
      BY <2>3
    <3> HIDE DEF n
    <3>2. IsFiniteSet(1..n) /\ Cardinality(1..n) = n
      BY <3>1, FS_Interval
    <3> QED BY <3>1, <3>2 DEF n
  <2>10. /\ loud \in SUBSET inside /\ places \in SUBSET Nat /\ IsFiniteSet(places)
         /\ \A k \in places : clean[k].severity \in Nat
    <3>1. loud \in SUBSET inside /\ places \in SUBSET (DOMAIN all)
      BY <2>6, <2>7, <2>8
    <3> QED BY <2>4, <2>6, <2>8, <2>9, <3>1, FS_Subset
  <2>11. N \in Nat
    BY <2>10, FS_CardinalityType
  <2>12. /\ DOMAIN order = 1..N
         /\ \A n \in 1..N : order[n] \in places
         /\ \A k \in places : \E n \in 1..N : order[n] = k
         /\ \A m, n \in 1..N : m < n => Before(clean, order[m], order[n])
    BY <2>10, RankedSorts
  <2> HIDE DEF order, N, out
  <2> DEFINE published == [n \in 1..N |-> clean[order[n]]]
  <2>13. out.published = published
    BY <2>2, <2>12
  <2>14. DOMAIN out.published = 1..N /\ Len(out.published) = N
         /\ \A n \in 1..N : out.published[n] = clean[order[n]]
    BY <2>11, <2>13
  <2>15. Len(out.published) + out.scope + out.threshold + out.duplicates = Len(all)
    <3>1. N + Cardinality(DOMAIN all \ inside) + Cardinality(inside \ loud)
            + Cardinality(loud \ places) = Len(all)
      <4>1. Cardinality(places) + Cardinality(DOMAIN all \ inside)
              + Cardinality(inside \ loud) + Cardinality(loud \ places)
              = Cardinality(DOMAIN all)
        <5> DEFINE D == DOMAIN all
        <5>1. /\ IsFiniteSet(D) /\ inside \in SUBSET D /\ loud \in SUBSET inside
              /\ places \in SUBSET loud
          BY <2>6, <2>8, <2>9, <2>10
        <5> HIDE DEF D
        <5> QED BY <5>1, FourParts DEF D
      <4> QED BY <2>9, <4>1 DEF N
    <3> QED BY <2>2, <2>4, <2>14, <3>1
  <2>16. \A j, k \in 1..N :
           /\ j < k => clean[order[j]].severity >= clean[order[k]].severity
           /\ Key(clean[order[j]]) = Key(clean[order[k]]) => j = k
    <3> SUFFICES ASSUME NEW j \in 1..N, NEW k \in 1..N
                 PROVE  /\ j < k => clean[order[j]].severity >= clean[order[k]].severity
                        /\ Key(clean[order[j]]) = Key(clean[order[k]]) => j = k
      OBVIOUS
    <3>1. \A m, n \in 1..N : m < n => clean[order[m]].severity >= clean[order[n]].severity
                                      /\ order[m] # order[n]
      <4> SUFFICES ASSUME NEW m \in 1..N, NEW n \in 1..N, m < n
                   PROVE  /\ clean[order[m]].severity >= clean[order[n]].severity
                          /\ order[m] # order[n]
        OBVIOUS
      <4>1. Before(clean, order[m], order[n]) /\ order[m] \in Nat /\ order[n] \in Nat
            /\ clean[order[m]].severity \in Nat /\ clean[order[n]].severity \in Nat
        BY <2>10, <2>12
      <4> QED BY <4>1 DEF Before
    <3>2. Key(clean[order[j]]) = Key(clean[order[k]]) => order[j] = order[k]
      BY <2>8, <2>12
    <3>3. order[j] = order[k] => j = k
      BY <2>11, <3>1
    <3> QED BY <3>1, <3>2, <3>3
  <2>17. ASSUME NEW k \in DOMAIN all, all[k].file \in Files, ~Below(all[k], MinSeverity)
         PROVE  \E n \in 1..N : Key(clean[order[n]]) = Key(clean[k])
    <3>1. k \in loud
      BY <2>5, <2>7, <2>17
    <3>2. PICK j \in places : Key(clean[j]) = Key(clean[k])
      BY <2>8, <3>1
    <3> QED BY <2>12, <3>2
  <2>18. \A n \in 1..N : \A k \in DOMAIN clean[order[n]].title :
           clean[order[n]].title[k] \notin LiveTokens \union Credential
    <3>1. \A n \in 1..N : order[n] \in DOMAIN all
      BY <2>6, <2>8, <2>10, <2>12
    <3> QED BY <2>4, <3>1
  <2>19. clean = Sanitized(all, LiveTokens)
    BY DEF clean
  <2>20. \A j, k \in DOMAIN out.published :
           /\ j < k => out.published[j].severity >= out.published[k].severity
           /\ Key(out.published[j]) = Key(out.published[k]) => j = k
    BY <2>14, <2>16
  <2>21. \A k \in DOMAIN all :
           /\ all[k].file \in Files /\ ~Below(all[k], MinSeverity)
           => \E n \in DOMAIN out.published :
                Key(out.published[n]) = Key(Sanitized(all, LiveTokens)[k])
    BY <2>14, <2>17, <2>19
  <2>22. \A n \in DOMAIN out.published : \A k \in DOMAIN out.published[n].title :
           out.published[n].title[k] \notin LiveTokens \union Credential
    BY <2>14, <2>18
  <2> QED BY <2>15, <2>20, <2>21, <2>22 DEF all, out
<1>2. GovernanceTypeOK => GateIsHonest
  BY <1>1 DEF GateIsHonest
<1> QED BY <1>2, GovernanceTypeCorrect, PTL DEF Spec
=============================================================================
