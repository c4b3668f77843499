------------------------- MODULE BaselineLifecycle -------------------------
(***************************************************************************)
(* The files of a continuous-integration project over its days: the         *)
(* findings JSON of the latest scan, the baseline file, and the commands    *)
(* that read and write them: `baseline` (ci/baseline.py), which reads, then *)
(* truncates and rewrites the baseline in place and may be killed anywhere  *)
(* in between, and `gate` and `sla` (ci/policy.py, ci/sla.py), which judge  *)
(* the latest findings against it.                                          *)
(***************************************************************************)
EXTENDS Findings

CONSTANTS Report,    \* the findings a scan may report
          Job,       \* the baseline commands that may be at work
          Parallel,  \* how many of them the project runs at the same time
          MaxDay,    \* bound on the days
          Threshold, \* of the gate
          DeadlineOf \* the SLA policy: days for each severity, or None

Day == 1..MaxDay

ASSUME LifecycleAssumption ==
    /\ \A r \in Report : r \subseteq Finding /\ \A f, g \in r : f.fp = g.fp => f = g
    /\ \A r \in Report : IsFiniteSet(r)
    /\ IsFiniteSet(Job)
    /\ Parallel \in Nat
    /\ MaxDay \in Nat \ {0}
    /\ Threshold \in Severity
    /\ DeadlineOf \in [Severity -> Nat \cup {None}]

VARIABLES day,
          report,   \* the findings JSON of the latest scan
          file,     \* the baseline file: its state and, when whole, its entries
          job,      \* the baseline commands
          exit,     \* the command that has just ended, and how
          accepted, \* history: what baseline commands that completed were given
          history,  \* history: the entries, each with the day it was entered
          sighted   \* history: the day a fingerprint was first reported

vars == <<day, report, file, job, exit, accepted, history, sighted>>

Entries == UNION {[S -> Day \cup {None}] : S \in SUBSET Fingerprint}
NoEntries == [fp \in {} |-> None]
FpsOf(S) == {f.fp : f \in S}

Running == [cmd |-> "none", code |-> 0]
Idle == [pc |-> "idle", fps |-> {}, stamp |-> None, built |-> FALSE,
         result |-> NoEntries]

TypeOK ==
    /\ day \in Day
    /\ report \in Report
    /\ file.state \in {"absent", "torn", "whole"}
    /\ file.entries \in Entries
    /\ \A fp \in DOMAIN file.entries : file.entries[fp] <= day
    /\ \A j \in Job : /\ job[j].pc \in {"idle", "loaded", "writing", "overlaid"}
                      /\ job[j].fps \subseteq Fingerprint
                      /\ job[j].stamp \in 1..day \cup {None}
                      /\ job[j].result \in Entries
    /\ exit \in {Running} \cup [cmd : {"baseline", "gate", "sla"}, code : 0..2]
    /\ accepted \subseteq Fingerprint
    /\ history \in Entries
    /\ sighted \in [Fingerprint -> Day \cup {None}]

Ended(cmd, code) == [cmd |-> cmd, code |-> code]
File(state, entries) == [state |-> state, entries |-> entries]

Init ==
    /\ day = 1
    /\ report \in Report
    /\ file = File("absent", NoEntries)
    /\ job = [j \in Job |-> Idle]
    /\ exit = Running
    /\ accepted = {}
    /\ history = NoEntries
    /\ sighted = [fp \in Fingerprint |-> IF fp \in FpsOf(report) THEN 1 ELSE None]

AtWork == {j \in Job : job[j].pc # "idle"}

-----------------------------------------------------------------------------
(***************************************************************************)
(* The project: days pass, scans report, the operator may remove a baseline *)
(* that no command is writing.                                              *)
(***************************************************************************)
Tomorrow ==
    /\ day < MaxDay
    /\ day' = day + 1
    /\ exit' = Running
    /\ UNCHANGED <<report, file, job, accepted, history, sighted>>

Scan ==
    /\ report' \in Report
    /\ sighted' = [fp \in Fingerprint |->
          IF sighted[fp] = None /\ fp \in FpsOf(report') THEN day ELSE sighted[fp]]
    /\ exit' = Running
    /\ UNCHANGED <<day, file, job, accepted, history>>

Remove ==
    /\ AtWork = {}
    /\ file.state # "absent"
    /\ file' = File("absent", NoEntries)
    /\ exit' = Running
    /\ UNCHANGED <<day, report, job, accepted, history, sighted>>

-----------------------------------------------------------------------------
(***************************************************************************)
(* vulnpipe baseline [--update] [--track-age]                               *)
(***************************************************************************)
\* build_baseline
BuildBaseline(fps, stamp) == [fp \in fps |-> stamp]

\* Mutant: the later dict wins, so that what is accepted again is dated anew.
MergeRestamping(entries, fps, stamp) ==
    [fp \in DOMAIN entries \cup fps |-> IF fp \in fps THEN stamp ELSE entries[fp]]

\* merge_baseline
MergeBaseline(entries, fps, stamp) ==
    [fp \in DOMAIN entries \cup fps |->
        IF fp \in DOMAIN entries THEN entries[fp] ELSE stamp]

\* Mutant: the day is computed in a time zone in which it is already tomorrow.
StampAhead(trackAge) == IF trackAge THEN day + 1 ELSE None

Stamp(trackAge) == IF trackAge THEN day ELSE None

Load(j, update, trackAge) ==
    /\ job[j].pc = "idle"
    /\ Cardinality(AtWork) < Parallel
    /\ LET fps   == FpsOf(report)
           stamp == Stamp(trackAge)
           merge == update /\ file.state # "absent"
       IN  IF merge /\ file.state = "torn"
           THEN exit' = Ended("baseline", 2) /\ UNCHANGED job
           ELSE /\ job' = [job EXCEPT ![j] =
                      [pc |-> "loaded", fps |-> fps, stamp |-> stamp,
                       built |-> ~merge,
                       result |-> IF merge THEN MergeBaseline(file.entries, fps, stamp)
                                           ELSE BuildBaseline(fps, stamp)]]
                /\ exit' = Running
    /\ UNCHANGED <<day, report, file, accepted, history, sighted>>

\* write_text opens the file, which empties it ...
Truncate(j) ==
    /\ job[j].pc = "loaded"
    /\ job' = [k \in Job |-> IF k = j \/ job[k].pc = "overlaid"
                             THEN [job[k] EXCEPT !.pc = "writing"] ELSE job[k]]
    /\ file' = File("torn", NoEntries)
    /\ exit' = Running
    /\ UNCHANGED <<day, report, accepted, history, sighted>>

\* ... and writes from its start; over what another command wrote meanwhile,
\* whose end shows when it was longer.
Save(j) ==
    /\ job[j].pc \in {"writing", "overlaid"}
    /\ \E shows \in {FALSE} \cup {job[j].pc = "overlaid"} :
          file' = IF shows THEN File("torn", NoEntries)
                           ELSE File("whole", job[j].result)
    /\ job' = [k \in Job |->
          IF k = j THEN Idle
          ELSE IF job[k].pc = "writing" THEN [job[k] EXCEPT !.pc = "overlaid"]
          ELSE job[k]]
    /\ history' = IF job[j].built
                  THEN BuildBaseline(job[j].fps, job[j].stamp)
                  ELSE [fp \in DOMAIN history \cup job[j].fps |->
                           IF fp \in DOMAIN history THEN history[fp] ELSE job[j].stamp]
    /\ accepted' = accepted \cup job[j].fps
    /\ exit' = Ended("baseline", 0)
    /\ UNCHANGED <<day, report, sighted>>

\* The command is killed, or the disk is full.
Kill(j) ==
    /\ job[j].pc # "idle"
    /\ job' = [job EXCEPT ![j] = Idle]
    /\ exit' = Running
    /\ UNCHANGED <<day, report, file, accepted, history, sighted>>

-----------------------------------------------------------------------------
(***************************************************************************)
(* vulnpipe gate, vulnpipe sla.  They only read; a file that is missing or  *)
(* torn does not load, and the exit code is 2.                              *)
(***************************************************************************)
\* Mutant: a baseline that does not load is an empty one.
LoadsAlways == TRUE

Loads == file.state = "whole"

Judgement(cmd, passed) ==
    exit' = Ended(cmd, IF ~Loads THEN 2 ELSE IF passed THEN 0 ELSE 1)

Gate ==
    /\ LET new == New(report, DOMAIN file.entries)
       IN  Judgement("gate", Violations(new, PolicyFromThreshold(Threshold, None)) = {})
    /\ UNCHANGED <<day, report, file, job, accepted, history, sighted>>

FirstSeen(fp) == IF fp \in DOMAIN file.entries THEN file.entries[fp] ELSE None

\* Mutant: a finding is in breach on the day of its deadline.
BreachesOnTheDay(f, first) ==
    /\ DeadlineOf[f.sev] # None
    /\ first # None
    /\ day - first >= DeadlineOf[f.sev]

Breaches(f, first) ==
    /\ DeadlineOf[f.sev] # None
    /\ first # None
    /\ day - first > DeadlineOf[f.sev]

Sla ==
    /\ Judgement("sla", \A f \in report : ~Breaches(f, FirstSeen(f.fp)))
    /\ UNCHANGED <<day, report, file, job, accepted, history, sighted>>

-----------------------------------------------------------------------------
Next ==
    \/ Tomorrow \/ Scan \/ Remove
    \/ \E j \in Job : \/ \E update, trackAge \in BOOLEAN : Load(j, update, trackAge)
                      \/ Truncate(j) \/ Save(j) \/ Kill(j)
    \/ Gate \/ Sla

Spec == Init /\ [][Next]_vars

-----------------------------------------------------------------------------
(***************************************************************************)
(* Properties                                                               *)
(***************************************************************************)
\* A gate that passes has seen a whole file, and every severe finding of the
\* report was given to a baseline command that completed, however the commands
\* overlapped and wherever they were killed.
GatePassIsTrue ==
    exit = Ended("gate", 0) =>
        /\ file.state = "whole"
        /\ \A f \in report : f.sev >= Threshold => f.fp \in accepted

\* The findings of the report that, by the days in first, are past a deadline.
Overdue(first) ==
    {f \in report : /\ f.fp \in DOMAIN first
                    /\ first[f.fp] # None
                    /\ DeadlineOf[f.sev] \in 0..(day - first[f.fp] - 1)}

\* An SLA check that passes has not forgotten an age: no update, no kill and no
\* torn file makes a finding younger than when it was entered with its date.
SlaPassIsTrue == exit = Ended("sla", 0) => Overdue(history) = {}

\* An SLA check that fails names a finding that was indeed first reported more
\* days ago than its severity is given.
SlaFailIsTrue == exit = Ended("sla", 1) => Overdue(sighted) # {}

\* Commands that do not overlap keep a ledger: the write takes effect as the
\* file is opened, an update leaves every entry as it was, and a kill can lose
\* the ledger but never a part of it.
Writing == {j \in Job : job[j].pc = "writing"}

Ledger == INSTANCE AcceptanceLedger WITH
    Issue  <- Fingerprint,
    ledger <- IF Writing # {} THEN job[CHOOSE j \in Writing : TRUE].result
                              ELSE file.entries,
    open   <- Writing # {} \/ file.state = "whole"

ImplementsLedger == Ledger!LedgerSpec

=============================================================================
