------------------------------- MODULE Findings -------------------------------
(***************************************************************************)
(* What becomes of the text of a session's result before anything of it is *)
(* published: redaction (crates/worker/redact.rs) and the publication      *)
(* gates of review findings (crates/worker/findings.rs).                   *)
(*                                                                         *)
(* A text is a sequence of pieces: words, and pieces that redaction knows. *)
(* A finding is [file, line, title, severity]; a severity is its rank, and *)
(* the line is -1 when there is none.                                      *)
(***************************************************************************)
EXTENDS Integers, Sequences, FiniteSets

FindingType == [file : STRING, line : Int, title : Seq(STRING), severity : 0..4]

\* Token-shaped strings and credentialed URLs; a prefix with a short body is
\* prose.
Credential == {"ghs_token", "url userinfo"}
Redacted   == "[redacted-token]"

Redact(text, live) ==
  [k \in DOMAIN text |-> IF text[k] \in live \union Credential THEN Redacted ELSE text[k]]

\* sanitize_result, of the findings.
Sanitized(findings, live) ==
  [k \in DOMAIN findings |-> [findings[k] EXCEPT !.title = Redact(@, live)]]

\* Severities below the policy's minimum; an absent or unreadable one filters
\* nothing.
Below(finding, minimum) == \E rank \in minimum : finding.severity < rank

Key(finding) == <<finding.file, finding.line, finding.title>>

\* The places of the findings about files of the review.
InScope(findings, files) == {k \in DOMAIN findings : findings[k].file \in files}

Loud(findings, inside, minimum) == {k \in inside : ~Below(findings[k], minimum)}

\* Wrong on purpose: duplicates are looked for before the threshold.
FirstOfEachTooEarly(findings, inside, minimum) ==
  LET firsts == {k \in inside : \A j \in inside : j < k => Key(findings[j]) # Key(findings[k])}
  IN Loud(findings, firsts, minimum)

\* The places of the findings that publish: loud enough, and the first loud
\* enough of their key.
FirstOfEach(findings, inside, minimum) ==
  LET loud == Loud(findings, inside, minimum)
  IN {k \in loud : \A j \in loud : j < k => Key(findings[j]) # Key(findings[k])}

\* sort_by_key: the most severe first, otherwise in the order of the report.
Before(findings, j, k) ==
  \/ findings[j].severity > findings[k].severity
  \/ findings[j].severity = findings[k].severity /\ j < k

Ranked(findings, places) ==
  [n \in 1..Cardinality(places) |->
     CHOOSE k \in places : Cardinality({j \in places : Before(findings, j, k)}) = n - 1]

\* gate: what publishes, and how many findings each gate withheld.
Gate(findings, files, minimum) ==
  LET inside == InScope(findings, files)
      loud   == Loud(findings, inside, minimum)
      places == FirstOfEach(findings, inside, minimum)
      order  == Ranked(findings, places)
  IN [published  |-> [n \in DOMAIN order |-> findings[order[n]]],
      scope      |-> Cardinality(DOMAIN findings \ inside),
      threshold  |-> Cardinality(inside \ loud),
      duplicates |-> Cardinality(loud \ places)]
=============================================================================
