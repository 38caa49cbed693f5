-------------------------------- MODULE Reports --------------------------------
(***************************************************************************)
(* What is made of the results of a session: the JUnit report, its split by  *)
(* module, the summaries and the exit code; and which result directories     *)
(* LogManager removes.                                                     *)
(*                                                                         *)
(* A JUnit report is a function from its test cases to their outcomes; the   *)
(* module of a test case is the base name of its file.                      *)
(***************************************************************************)
EXTENDS Naturals, Sequences, FiniteSetsExt

Outcomes == {"passed", "failed", "error", "skipped"}

-----------------------------------------------------------------------------
(* Reporter and MultiSessionRunner._parse_session_counts. *)

CasesWith(xml, outcome) == {t \in DOMAIN xml : xml[t] = outcome}

\* The attributes of a testsuite element.
Suite(xml) ==
    [tests |-> Cardinality(DOMAIN xml),
     failures |-> Cardinality(CasesWith(xml, "failed")),
     errors |-> Cardinality(CasesWith(xml, "error")),
     skipped |-> Cardinality(CasesWith(xml, "skipped"))]

\* Mutant: modules whose report has no failure are not written.
SplitFailedOnly(xml, module) ==
    [m \in {module[t] : t \in CasesWith(xml, "failed")} |->
       Suite([t \in {u \in DOMAIN xml : module[u] = m} |-> xml[t]])]

\* _split_xml_by_module: one testsuite for each module.
SplitByModule(xml, module) ==
    [m \in {module[t] : t \in DOMAIN xml} |->
       Suite([t \in {u \in DOMAIN xml : module[u] = m} |-> xml[t]])]

\* What the HTML report of one module calls passed.
HtmlPassed(suite) ==
    suite.tests - suite.failures - suite.errors - suite.skipped

Total(split, field) == MapThenSumSet(LAMBDA m : split[m][field], DOMAIN split)

(* The totals of generate_result_summary and _parse_session_counts: errors   *)
(* are not taken off the passes.                                           *)
Counts(split) ==
    LET total == Total(split, "tests")
        failures == Total(split, "failures")
        skipped == Total(split, "skipped")
    IN [total |-> total, passes |-> total - failures - skipped,
        failures |-> failures, errors |-> Total(split, "errors"),
        skipped |-> skipped]

\* The exit status of pytest: 5 when nothing was collected counts as failed.
PytestPassed(xml) ==
    DOMAIN xml # {} /\ CasesWith(xml, "failed") \cup CasesWith(xml, "error") = {}

(* A result directory: the report.xml of pytest, if it has one, and by        *)
(* module the split reports and the number of passed tests on the HTML pages. *)
NoReport == [has |-> FALSE, xml |-> <<>>, split |-> <<>>, pages |-> <<>>]
PytestReport(xml) == [NoReport EXCEPT !.has = TRUE, !.xml = xml]

\* generate_result_summary: split report.xml, when it is there, and remove it.
ResultSummary(report, module) ==
    LET split == SplitByModule(report.xml, module)
    IN IF report.has
         THEN [NoReport EXCEPT
                 !.split = split,
                 !.pages = [m \in DOMAIN split |-> HtmlPassed(split[m])]]
         ELSE report

\* Counts of a session, from the split reports or else from report.xml.
SessionCounts(report) ==
    IF DOMAIN report.split = {} /\ report.has
      THEN Counts([all \in {"report"} |-> Suite(report.xml)])
      ELSE Counts(report.split)

(* _merge_session_reports: the test cases of every report.xml that is still  *)
(* there, under the name of their session, which is their module from now.  *)
MergedReport(reports) ==
    LET cases == UNION {{<<s, t>> : t \in DOMAIN reports[s].xml} :
                          s \in {r \in DOMAIN reports : reports[r].has}}
    IN PytestReport([c \in cases |-> reports[c[1]].xml[c[2]]])

SessionOf(merged) == [c \in DOMAIN merged.xml |-> c[1]]

-----------------------------------------------------------------------------
(* LogManager: result directories in order of age, oldest first, as records  *)
(* of their name id, their size, and whether they are older than max_age.    *)
(* A limit of Unlimited is one that is not configured.                      *)

Unlimited == 1000000

TotalSize(dirs) == MapThenSumSet(LAMBDA i : dirs[i].size, DOMAIN dirs)

\* Indices each rule removes.
AgeRemovals(dirs)        == {i \in DOMAIN dirs : dirs[i].old}
CountRemovals(dirs, max) == {i \in DOMAIN dirs : Len(dirs) - i >= max}

\* The loop of the size rule: i goes when what is left from i on is too much.
SizeRemovals(dirs, max) ==
    {i \in DOMAIN dirs : TotalSize(SubSeq(dirs, i, Len(dirs))) > max}

\* Mutant: the size is checked against what the other rules leave.
RemovalsOneRule(dirs, log) ==
    IF CountRemovals(dirs, log.maxCount) # {}
      THEN CountRemovals(dirs, log.maxCount)
      ELSE SizeRemovals(dirs, log.maxSize)

\* _compute_removals: the union of the rules.
Removals(dirs, log) ==
    (IF log.byAge THEN AgeRemovals(dirs) ELSE {})
      \cup CountRemovals(dirs, log.maxCount)
      \cup SizeRemovals(dirs, log.maxSize)

\* The directories left, in their order.
Kept(dirs, gone) ==
    LET left == DOMAIN dirs \ gone
    IN [k \in 1..Cardinality(left) |->
          dirs[CHOOSE i \in left : Cardinality({j \in left : j <= i}) = k]]
=============================================================================
