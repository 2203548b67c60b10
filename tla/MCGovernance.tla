---------------------------- MODULE MCGovernance ----------------------------
(***************************************************************************)
(* A maintainer's session on "app", a fork's on "lib" and an automatic one *)
(* of another installation; a tenant narrowed to "app", one that is        *)
(* not, an operator and a stranger; two keys to revoke, one of them the    *)
(* prefix of all keys of its repository.                                   *)
(***************************************************************************)
EXTENDS Governance

Run(installation, repo, fork, commander) ==
  [installation |-> installation, repo |-> repo, fork |-> fork, commander |-> commander]

MCSessionOf == [asked  |-> Run("acme", "app", FALSE, TRUE),
                forked |-> Run("acme", "lib", TRUE, TRUE),
                pushed |-> Run("other", "lib", FALSE, FALSE)]
MCSession == DOMAIN MCSessionOf

MCApi == [open |-> FALSE, service |-> {"root"},
          tenants |-> [ten  |-> [installation |-> "acme", repos |-> {"app"}],
                       wide |-> [installation |-> "acme", repos |-> {}]]]

Style(repo) == <<"repo/", repo, "/", "style">>
MCRevocableKey == {Style("app"), <<"repo/", "app">>}

Entry(op, scope, key) ==
  [op |-> op, scope |-> scope, key |-> key, secret |-> FALSE, approval |-> "pending"]

Learned == Entry("write", "repo", Style("app"))

Entries == {Entry("read", "repo", Style("app")), Entry("read", "junk", Style("app")),
            Entry("read", "tenant_shared", <<"tenant/", "acme", "/", "tone">>),
            Learned, Entry("write", "repo", Style("lib")),
            [Learned EXCEPT !.approval = "approved"], [Learned EXCEPT !.secret = TRUE]}

Finding(line, title, severity) ==
  [file |-> IF line = 9 THEN "elsewhere" ELSE "main", line |-> line, title |-> title,
   severity |-> severity]

SomeFindings == {Finding(1, <<"bug">>, 1), Finding(1, <<"bug">>, 3),
                 Finding(1, <<"key", "ghs_token">>, 4), Finding(1, <<"key", "live">>, 2),
                 Finding(9, <<"bug">>, 4)}

Unused == [enabled |-> FALSE, entries |-> {}]

Used(entries) == [used |-> [enabled |-> TRUE, entries |-> entries], findings |-> <<>>]

\* One entry, the same key read under two scopes, a good and a bad write; an
\* entry of a report that says memory was not used; a finding
\* followed by a loud one.
MCReports ==
  {Used({e}) : e \in Entries}
  \union {Used({e \in Entries : e.op = "read"}), Used({Learned, Entry("write", "repo", Style("lib"))})}
  \union {[used |-> [enabled |-> FALSE, entries |-> {Learned}], findings |-> <<>>]}
  \union {[used |-> Unused, findings |-> <<f, g>>] :
          f \in SomeFindings, g \in {Finding(1, <<"bug">>, 3), Finding(1, <<"key", "live">>, 2)}}
=============================================================================
