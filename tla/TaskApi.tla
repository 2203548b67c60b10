-------------------------------- MODULE TaskApi --------------------------------
(***************************************************************************)
(* Who a caller of the task API is and what of the store he is shown       *)
(* (authorize_api and the handlers of crates/webhook/routes.rs, ApiScope   *)
(* of crates/store).  A row is any record with its installation and repo.  *)
(***************************************************************************)

\* api: [open, service, tenants]: the mode, the set of at most one service
\* token, and per tenant token an installation and the repositories it is
\* narrowed to, none for all of them.
Everything == [all |-> TRUE]
Nothing    == [all |-> FALSE, installation |-> "none", repos |-> {}, narrowed |-> TRUE]

TenantScope(tenant) ==
  [all |-> FALSE, installation |-> tenant.installation, repos |-> tenant.repos,
   narrowed |-> tenant.repos # {}]

\* authorize_api: the mode, then the service token, then the tenants'; in token
\* mode whoever presents none of them is denied.
Caller(api, bearer) ==
  CASE api.open -> "open"
    [] ~api.open /\ bearer \in api.service -> "service"
    [] ~api.open /\ bearer \notin api.service /\ bearer \in DOMAIN api.tenants -> "tenant"
    [] OTHER -> "denied"

ScopeOf(api, bearer) ==
  CASE Caller(api, bearer) \in {"open", "service"} -> Everything
    [] Caller(api, bearer) = "tenant" -> TenantScope(api.tenants[bearer])
    [] OTHER -> Nothing

\* Wrong on purpose: the narrowing to repositories is not applied.
VisibleOfInstallation(scope, rows) ==
  {r \in rows : scope.all \/ r.installation = scope.installation}

\* The filter of every list: by installation in the query, by repository after.
Visible(scope, rows) ==
  {r \in rows : scope.all \/ (/\ r.installation = scope.installation
                              /\ scope.narrowed => r.repo \in scope.repos)}

\* revoke_memory: a tenant revokes in its own installation whatever the body
\* names, an operator where the body says; {} when the request is refused.
RevocationTarget(api, bearer, named, repo) ==
  LET scope == ScopeOf(api, bearer)
  IN CASE Caller(api, bearer) = "denied" -> {}
       [] Caller(api, bearer) = "tenant" ->
            IF scope.narrowed /\ repo \notin scope.repos THEN {} ELSE {scope.installation}
       [] OTHER -> named
=============================================================================
