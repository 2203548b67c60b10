-------------------------- MODULE MCTaskExecution --------------------------
(***************************************************************************)
(* Instances of TaskExecution: what a session may report is cut down to    *)
(* what a run's question tells apart.                                      *)
(***************************************************************************)
EXTENDS TaskExecutionQueue

Says(status, changes) == [status |-> status, changes |-> changes]

\* Reviews, that change nothing; and fixes, with or without commits.
ReviewReports == {Says("success", FALSE), Says("failure", FALSE)}
FixReports    == {Says("success", TRUE), Says("failure", TRUE)}
EveryReport   == {Says(s, TRUE) : s \in Status} \union
                 {Says("success", FALSE), Says("unusable", FALSE)}
=============================================================================
