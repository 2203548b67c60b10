------------------------------ MODULE Governance ------------------------------
(***************************************************************************)
(* Memory governance and the tenant API at work together: sessions that    *)
(* are given a memory policy and judged by it, tenants and operators who   *)
(* revoke memory and read what was recorded, the retention sweep, and the  *)
(* purge of a departed installation.  Every action is one transaction of   *)
(* the store or the step between two of them.                              *)
(*                                                                         *)
(* Tables: memory_revocations (`revoked`), memory_activity (`activity`, a  *)
(* sequence of the row sets that were recorded together), api_audit.       *)
(***************************************************************************)
EXTENDS MemoryPolicy, Findings, TaskApi

CONSTANTS
  Session,       \* tasks that run a session
  SessionOf,     \* SessionOf[s]: [installation, repo, fork, commander]
  Installation, Repo,
  MemoryOn,      \* the repositories opted in to memory
  ApprovalOn,    \* the repositories whose writes need approval
  Reports,       \* what a runtime may report: [used, findings]
  Files,         \* the reviewed, supporting and changed files
  MinSeverity,   \* the publication threshold, a set of at most one rank
  LiveTokens,    \* the tokens minted for a session
  Api,           \* who may call the API, see TaskApi
  Bearer,        \* the credentials that callers present
  RevocableKey,  \* keys and prefixes that anybody asks to revoke
  MaxRequests, MaxRuns, MaxFaults  \* bounds: API requests, runs, failures

SessionType == [installation : Installation, repo : Repo, fork : BOOLEAN, commander : BOOLEAN]

\* The entries of the reports.
Listed == UNION {report.used.entries : report \in Reports}

\* Config::check refuses two equal API tokens; no token looks like the mark that
\* redaction leaves.
ASSUME GovernanceAssumption ==
  /\ SessionOf \in [Session -> SessionType]
  /\ MemoryOn \subseteq Repo /\ ApprovalOn \subseteq Repo
  /\ \A report \in Reports : report.used.enabled \in BOOLEAN
                             /\ report.findings \in Seq(FindingType)
  /\ MinSeverity \subseteq 0..4 /\ Redacted \notin LiveTokens
  /\ \A b \in DOMAIN Api.tenants : Api.tenants[b].installation \in Installation
  /\ DOMAIN Api.tenants \intersect Api.service = {}
  /\ MaxRequests \in Nat /\ MaxRuns \in Nat /\ MaxFaults \in Nat

VARIABLES
  revoked, activity, audit,
  session,   \* session[s]: the run of s
  answer,    \* the data an API request has read and not yet answered
  requests, runs, faults,
  unjudged   \* observed only: the sessions whose report was not looked at

tables == <<revoked, activity, audit>>
vars   == <<tables, session, answer, requests, runs, faults, unjudged>>

\* standing: the revocations in force ever since the run was claimed.  The
\* code keeps no such record.
NoRun == [at |-> "waiting", policy |-> NoPolicy, standing |-> {}, loaded |-> FALSE,
          rows |-> {}, cited |-> {}, findings |-> <<>>]
NoAnswer == [bearer |-> "nobody", action |-> "none", rows |-> {}]

RevocationType == [installation : Installation, repo : Repo, key : RevocableKey]

RowType == [installation : Installation, repo : Repo, task : Session,
            op : {e.op : e \in Listed}, key : {e.key : e \in Listed},
            scope : {e.scope : e \in Listed}, outcome : {"accepted", "rejected"}]

AuditType == [caller : {"open", "service", "tenant", "denied"},
              action : {"list_memory", "revoke_memory"}, result : {"ok", "denied", "forbidden"}]

PolicyType ==
  {NoPolicy} \union
  [enabled : {TRUE}, installation : Installation, repo : Repo, trust : Trust,
   granted : [read : SUBSET Scope, write : SUBSET Scope],
   approval : BOOLEAN, denied : SUBSET RevocableKey]

RunType ==
  [at : {"waiting", "claimed", "briefed", "reported", "done"}, policy : PolicyType,
   standing : SUBSET RevocationType, loaded : BOOLEAN, rows : SUBSET RowType,
   cited : SUBSET {e.key : e \in Listed},
   findings : {<<>>} \union {report.findings : report \in Reports}]

GovernanceTypeOK ==
  /\ revoked \subseteq RevocationType
  /\ activity \in Seq(SUBSET RowType)
  /\ audit \subseteq AuditType
  /\ session \in [Session -> RunType]
  /\ answer \in {NoAnswer} \union
                [bearer : Bearer, action : {"list_memory", "revoke_memory"}, rows : SUBSET RowType]
  /\ requests \in 0..MaxRequests /\ runs \in 0..MaxRuns /\ faults \in 0..MaxFaults
  /\ unjudged \subseteq Session

-----------------------------------------------------------------------------

RevocationsFor(i, repo) == {v \in revoked : v.installation = i /\ v.repo = repo}

Recorded == UNION {activity[k] : k \in DOMAIN activity}

Init ==
  /\ revoked = {} /\ activity = <<>> /\ audit = {}
  /\ session = [s \in Session |-> NoRun]
  /\ answer = NoAnswer
  /\ requests = 0 /\ runs = 0 /\ faults = 0
  /\ unjudged = {}

(* A session. *)

Claim(s) ==
  /\ session[s].at = "waiting" /\ runs < MaxRuns
  /\ session' = [session EXCEPT ![s].at = "claimed",
                   ![s].standing = RevocationsFor(SessionOf[s].installation, SessionOf[s].repo)]
  /\ runs' = runs + 1
  /\ UNCHANGED <<tables, answer, requests, faults, unjudged>>

\* The policy is computed for the brief.  The denial list is that of the
\* repository, empty when it cannot be read.
Brief(s) ==
  LET self == SessionOf[s]
      With(denied, loaded) ==
        session' = [session EXCEPT ![s].at = "briefed", ![s].loaded = loaded,
                      ![s].policy = Policy(self.repo \in MemoryOn, self.installation, self.repo,
                                           DeriveTrust(self.fork, self.commander),
                                           self.repo \in ApprovalOn, denied)]
  IN /\ session[s].at = "claimed"
     /\ \/ /\ With({v.key : v \in RevocationsFor(self.installation, self.repo)}, TRUE)
           /\ UNCHANGED faults
        \/ /\ faults < MaxFaults /\ self.repo \in MemoryOn
           /\ With({}, FALSE)
           /\ faults' = faults + 1
     /\ UNCHANGED <<tables, answer, requests, runs, unjudged>>

\* The runtime's report is sanitized and judged, and every entry recorded with
\* its verdict, as best it can.
ReportBack(s) ==
  \E report \in Reports :
    LET policy == session[s].policy
        judged == IF policy.enabled THEN Rejections(policy, report.used) ELSE {}
        rows   == IF policy.enabled THEN Rows(policy, s, report.used, judged) ELSE {}
    IN /\ session[s].at = "briefed"
       /\ \/ /\ activity' = IF rows = {} THEN activity ELSE Append(activity, rows)
             /\ UNCHANGED faults
          \/ /\ faults < MaxFaults /\ rows # {}
             /\ faults' = faults + 1
             /\ UNCHANGED activity
       /\ session' = [session EXCEPT
            ![s].at = "reported", ![s].rows = rows,
            ![s].cited = IF policy.enabled THEN Cited(report.used, judged) ELSE {},
            ![s].findings = report.findings]
       /\ unjudged' = IF report.used.enabled THEN unjudged ELSE unjudged \union {s}
       /\ UNCHANGED <<revoked, audit, answer, requests, runs>>

\* What the review publishes, see Published; the run is over.
Publish(s) ==
  /\ session[s].at = "reported"
  /\ session' = [session EXCEPT ![s] = [NoRun EXCEPT !.at = "done"]]
  /\ UNCHANGED <<tables, answer, requests, runs, faults, unjudged>>

\* The process dies; the tasks at work are queued again, what was recorded
\* stays recorded, a request is never answered.
Crash ==
  /\ faults < MaxFaults
  /\ faults' = faults + 1
  /\ session' = [s \in Session |-> IF session[s].at = "done" THEN session[s] ELSE NoRun]
  /\ answer' = NoAnswer
  /\ UNCHANGED <<tables, requests, runs, unjudged>>

(* The API.  A request reads or revokes in one transaction and is audited in *)
(* the next, before it is answered; a failed audit is only logged.           *)

Audited(bearer, action, result) ==
  audit' = audit \union {[caller |-> Caller(Api, bearer), action |-> action, result |-> result]}

TakeRequest ==
  /\ answer = NoAnswer
  /\ requests < MaxRequests
  /\ requests' = requests + 1

Deny(b, action) ==
  /\ TakeRequest
  /\ Caller(Api, b) = "denied"
  /\ Audited(b, action, "denied")
  /\ UNCHANGED <<revoked, activity, session, answer, runs, faults, unjudged>>

ListMemory(b) ==
  /\ TakeRequest
  /\ Caller(Api, b) # "denied"
  /\ answer' = [bearer |-> b, action |-> "list_memory",
                rows |-> Visible(ScopeOf(Api, b), Recorded)]
  /\ UNCHANGED <<tables, session, runs, faults, unjudged>>

\* named: the installation of the body, {} when it names none; then an
\* operator's request is a bad one.
RevokeMemory(b, named, repo, key) ==
  LET where == RevocationTarget(Api, b, named, repo) IN
    /\ TakeRequest
    /\ where # {}
    /\ revoked' = revoked \union {[installation |-> i, repo |-> repo, key |-> key] : i \in where}
    /\ answer' = [bearer |-> b, action |-> "revoke_memory", rows |-> {}]
    /\ UNCHANGED <<activity, audit, session, runs, faults, unjudged>>

ForbidRevocation(b, repo) ==
  /\ TakeRequest
  /\ Caller(Api, b) = "tenant" /\ RevocationTarget(Api, b, {}, repo) = {}
  /\ Audited(b, "revoke_memory", "forbidden")
  /\ UNCHANGED <<revoked, activity, session, answer, runs, faults, unjudged>>

Answer ==
  /\ answer # NoAnswer
  /\ \/ Audited(answer.bearer, answer.action, "ok") /\ UNCHANGED faults
     \/ faults < MaxFaults /\ faults' = faults + 1 /\ UNCHANGED audit
  /\ answer' = NoAnswer
  /\ UNCHANGED <<revoked, activity, session, requests, runs, unjudged>>

(* Retention and departure. *)

\* expire_memory_activity: the oldest rows; revocations are never expired.
Sweep(n) ==
  /\ n \in DOMAIN activity
  /\ activity' = SubSeq(activity, n + 1, Len(activity))
  /\ UNCHANGED <<revoked, audit, session, answer, requests, runs, faults, unjudged>>

\* delete_memory_for_installation, when installation i uninstalls.
Purge(i) ==
  /\ revoked' = {v \in revoked : v.installation # i}
  /\ activity' = [k \in DOMAIN activity |-> {r \in activity[k] : r.installation # i}]
  /\ session' = [s \in Session |->
                   [session[s] EXCEPT !.standing = {v \in @ : v.installation # i}]]
  /\ UNCHANGED <<audit, answer, requests, runs, faults, unjudged>>

Next ==
  \/ \E s \in Session : Claim(s) \/ Brief(s) \/ ReportBack(s) \/ Publish(s)
  \/ Crash
  \/ \E b \in Bearer :
       \/ \E action \in {"list_memory", "revoke_memory"} : Deny(b, action)
       \/ ListMemory(b)
       \/ \E repo \in Repo :
            \/ ForbidRevocation(b, repo)
            \/ \E i \in Installation, key \in RevocableKey : RevokeMemory(b, {i}, repo, key)
  \/ Answer
  \/ \E n \in DOMAIN activity : Sweep(n)
  \/ \E i \in Installation : Purge(i)

Spec == Init /\ [][Next]_vars

-----------------------------------------------------------------------------
(* What governance guarantees. *)

\* What was revoked when a run was claimed, and ever since, is neither read nor
\* written in that run as far as the record says, nor cited on GitHub: nothing
\* under a revoked prefix of the repository is accepted from a report that says
\* memory was used, however old the revocation and whatever has been swept
\* since.  Except when the denial list could not be read, which the code takes
\* for an empty one.  (A revocation that comes while the session is running
\* does not bind its report.)
RevocationsHold ==
  \A s \in Session \ unjudged :
    session[s].at = "reported" /\ session[s].loaded =>
      \A v \in session[s].standing :
        /\ \A r \in session[s].rows : IsPrefix(v.key, r.key) => r.outcome = "rejected"
        /\ \A key \in session[s].cited : ~IsPrefix(v.key, key)

\* Durable memory is not poisoned: a session of a fork never has a write
\* accepted, and no session has one accepted for another repository or
\* installation than its own, not even after a crash, by a second run.  (A
\* report that says memory was not used is not judged, see Rejections, and what
\* it lists is recorded as accepted.)
UntrustedNeverWrites ==
  \A r \in Recorded :
    r.op = "write" /\ r.outcome = "accepted" /\ r.task \notin unjudged =>
      /\ ~SessionOf[r.task].fork
      /\ IsPrefix(<<"repo/", SessionOf[r.task].repo, "/">>, r.key)

\* What the status comment cites as memory used is what the record says was
\* read and accepted, no more and no less.
CitedWasAccepted ==
  \A s \in Session :
    session[s].at = "reported" =>
      session[s].cited = {r.key : r \in {q \in session[s].rows : q.op = "read"
                                                               /\ q.outcome = "accepted"}}

\* Revoked memory does not come back by ageing: a revocation that was recorded
\* is dropped only with everything else of an installation that departs.
RevocationsOutlive ==
  [][\A v \in revoked \ revoked' :
       /\ \A w \in revoked' : w.installation # v.installation
       /\ \A k \in DOMAIN activity' : \A r \in activity'[k] : r.installation # v.installation]_vars

\* Where the API asks for tokens, a tenant is shown the activity of its own
\* installation and repositories only, whatever is recorded, swept and revoked
\* meanwhile.
TenantBoundary ==
  LET own == IF ~Api.open /\ answer.bearer \in DOMAIN Api.tenants
               THEN {Api.tenants[answer.bearer]} ELSE {}
  IN \A tenant \in own, r \in answer.rows :
       /\ SessionOf[r.task].installation = tenant.installation
       /\ tenant.repos # {} => SessionOf[r.task].repo \in tenant.repos

Published(s) == Gate(Sanitized(session[s].findings, LiveTokens), Files, MinSeverity)

\* A quiet report can be told from a filtered one, and filtering loses no
\* place: every finding is published or counted as withheld, none published
\* twice, the most severe first; every finding of the review's files that is
\* severe enough is published itself or by one of the same file, line and
\* title; and no published title carries a credential.
GateIsHonest ==
  \A s \in Session :
    session[s].at = "reported" =>
      LET all == session[s].findings
          out == Published(s)
      IN /\ Len(out.published) + out.scope + out.threshold + out.duplicates = Len(all)
         /\ \A j, k \in DOMAIN out.published :
              /\ j < k => out.published[j].severity >= out.published[k].severity
              /\ Key(out.published[j]) = Key(out.published[k]) => j = k
         /\ \A k \in DOMAIN all :
              /\ all[k].file \in Files /\ ~Below(all[k], MinSeverity)
              => \E n \in DOMAIN out.published :
                   Key(out.published[n]) = Key(Sanitized(all, LiveTokens)[k])
         /\ \A n \in DOMAIN out.published :
              \A k \in DOMAIN out.published[n].title :
                out.published[n].title[k] \notin LiveTokens \union Credential
=============================================================================
