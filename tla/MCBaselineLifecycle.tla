------------------------ MODULE MCBaselineLifecycle ------------------------
(* Two issues, a critical and a high one; a scan reports either, both or     *)
(* none.  The critical must be fixed within a day, the high on the same day.*)
EXTENDS BaselineLifecycle, TLC

CONSTANTS h1

MCFinding(fp, sev) ==
    [fp |-> fp, at |-> h1, sev |-> sev, conf |-> None, cves |-> {},
     cvss |-> None, epss |-> None, kev |-> FALSE]

MCPlace == {h1}
MCHostOf == <<h1, h1>>
MCPluginOf == <<"nse", "nse">>
MCCriticalityOf == [fp \in 1..2 |-> 2]
MCReport == SUBSET {MCFinding(1, 4), MCFinding(2, 3)}
MCDeadlineOf == [s \in Severity |-> IF s = 4 THEN 1 ELSE IF s = 3 THEN 0 ELSE None]
MCSymmetry == Permutations(Job)

\* Two commands at work: the critical is there to stay, the high comes and goes.
\* history is read by no action, and by no invariant of that run.
MCFewReports == {{MCFinding(1, 4)}, {MCFinding(1, 4), MCFinding(2, 3)}}
MCView == <<day, report, file, job, exit, accepted, sighted>>

=============================================================================
