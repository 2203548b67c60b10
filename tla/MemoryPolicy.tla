----------------------------- MODULE MemoryPolicy -----------------------------
(***************************************************************************)
(* What a session may read from and write to the durable memory of a       *)
(* repository, and how the adapter judges what the runtime says it did     *)
(* (crates/worker/memory.rs and memory_activity_rows of crates/worker).    *)
(* A key is the sequence of the pieces it is put together from, so that    *)
(* string prefixes are sequence prefixes: <<"repo/", "acme/app", "/", k>>. *)
(***************************************************************************)
EXTENDS Sequences, SequencesExt

Scope == {"repo", "tenant_shared", "familiar_global"}
Trust == {"maintainer", "collaborator", "fork_pr"}
NoPolicy == [enabled |-> FALSE]

\* Wrong on purpose: a maintainer's command vouches for a fork.
DeriveTrustOfActor(fork, commander) ==
  CASE commander          -> "maintainer"
    [] ~commander /\ fork -> "fork_pr"
    [] OTHER              -> "collaborator"

\* derive_trust: a fork is untrusted content, whoever asked for the session.
DeriveTrust(fork, commander) ==
  CASE fork               -> "fork_pr"
    [] ~fork /\ commander -> "maintainer"
    [] OTHER              -> "collaborator"

Readable(trust) == IF trust = "maintainer" THEN {"repo", "tenant_shared"} ELSE {"repo"}
Writable(trust) == IF trust = "fork_pr" THEN {} ELSE {"repo"}

\* compute_policy: no policy unless the repository opted in; approval is
\* forced for collaborators whatever the configuration says.
Policy(enabled, installation, repo, trust, approval, denied) ==
  IF ~enabled THEN NoPolicy
  ELSE [enabled |-> TRUE, installation |-> installation, repo |-> repo, trust |-> trust,
        granted |-> [read |-> Readable(trust), write |-> Writable(trust)],
        approval |-> approval \/ trust = "collaborator",
        denied |-> denied]

\* Wrong on purpose: a revoked key stands for itself only.
RevokedExactly(policy, key) == key \in policy.denied

\* is_revoked: a revoked key stands for everything that begins with it.
Revoked(policy, key) == \E prefix \in policy.denied : IsPrefix(prefix, key)

RequiredPrefix(policy, scope) ==
  CASE scope = "repo"            -> <<"repo/", policy.repo, "/">>
    [] scope = "tenant_shared"   -> <<"tenant/", policy.installation, "/">>
    [] scope = "familiar_global" -> <<"familiar/">>

\* check_access, of an entry [op, scope, key, ...].
Accessible(policy, entry) ==
  /\ entry.scope \in Scope
  /\ entry.scope \in policy.granted[entry.op]
  /\ IsPrefix(RequiredPrefix(policy, entry.scope), entry.key)

\* An entry the adapter refuses; only writes are held to the last two.
Refused(policy, entry) ==
  \/ Revoked(policy, entry.key)
  \/ ~Accessible(policy, entry)
  \/ entry.op = "write" /\ (entry.secret \/ (policy.approval /\ entry.approval # "pending"))

\* validate_memory_used: a report that says memory was not used is not looked
\* at.  A rejection names operation and key only.
Rejections(policy, used) ==
  IF ~used.enabled THEN {}
  ELSE {[op |-> e.op, key |-> e.key] : e \in {f \in used.entries : Refused(policy, f)}}

IsRejected(rejections, entry) == [op |-> entry.op, key |-> entry.key] \in rejections

\* memory_activity_rows, all of one session's report.
Rows(policy, task, used, rejections) ==
  {[installation |-> policy.installation, repo |-> policy.repo, task |-> task,
    op |-> e.op, key |-> e.key, scope |-> e.scope,
    outcome |-> IF IsRejected(rejections, e) THEN "rejected" ELSE "accepted"] :
   e \in used.entries}

\* The reads that the status comment discloses.
Cited(used, rejections) ==
  {e.key : e \in {f \in used.entries : f.op = "read" /\ ~IsRejected(rejections, f)}}
=============================================================================
