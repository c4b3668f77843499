----------------------------- MODULE ReportDesk -----------------------------
(***************************************************************************)
(* The commands that work on findings reports as files: sbom, convert,      *)
(* merge and filter write one; report, stats, explain, remediate, badge,    *)
(* notify, diff, gate and trend read them; serve answers from one.  They    *)
(* run one at a time, while a scan may rewrite its own report at any time.  *)
(* A file is written in place: it is emptied, then filled, and a kill or a  *)
(* write that fails in between leaves it Torn.                              *)
(***************************************************************************)
EXTENDS Formats, SupplyChain, ReportServer

CONSTANTS Path,        \* the report files
          Latest,      \* results/latest.json, which a scan writes
          Command,     \* the command lines that are entered
          ScanResult,  \* the sets of entries a scan may come to
          OwnerFor,    \* the configured owner of a host, or Absent
          TagsFor,     \* its tags
          Missing, Torn,
          Unreadable   \* a document or policy that cannot be read

ReadsDocument(cmd) == cmd.name \in {"sbom", "convert"}
Writes(cmd) == cmd.out # Absent

(***************************************************************************)
(* A command is a record: name, the reports it reads in order (ins), the    *)
(* report it writes (out, or Absent), whether the format it is asked for    *)
(* exists (known), and arg, what else it is given.                          *)
(***************************************************************************)
IsCommand(cmd) ==
    /\ cmd.ins \in Seq(Path)
    /\ Writes(cmd) => cmd.out \in Path
    /\ Writes(cmd) <=> cmd.name \in {"sbom", "convert", "merge", "filter"}
    /\ cmd.name \in {"filter", "report", "explain", "remediate"} => Len(cmd.ins) = 1
    /\ cmd.name = "remediate" => cmd.arg \in Int
    /\ cmd.name = "gate" =>
          Len(cmd.ins) \in {1, 2} /\ cmd.arg \in Policy \cup {Unreadable}
    /\ cmd.name = "sbom" /\ cmd.arg # Unreadable =>
          Analyzable(cmd.arg.sbom, cmd.arg.osv) /\ cmd.arg.intel \in Intel
    /\ cmd.name = "convert" /\ cmd.arg # Unreadable => Importable(cmd.arg)

\* A scan comes to findings that are merged already.
ASSUME ReportDeskAssumption ==
    /\ Latest \in Path
    /\ \A S \in ScanResult :
          /\ IsFiniteSet(S)
          /\ \A f \in S : IsEntry(f)
          /\ \A f, g \in S : f.fp = g.fp => f = g
    /\ \A fp \in Fingerprint : OwnerFor[HostOf[fp]] \in Nat \cup {Absent}
    /\ \A cmd \in Command : IsCommand(cmd)
    /\ Unreadable \notin Policy

VARIABLES file,      \* what is at a path
          scanning,  \* a scan has begun to write its report
          job,       \* the command that runs, or NoJob
          last       \* how the last command ended, until the next is entered

deskVars == <<file, scanning, job, last>>
vars == <<file, scanning, job, last, up, queue, serving, asked, gone>>

NoJob == [name |-> "none"]

Whole(p) == file[p] \notin {Missing, Torn}

Reading(cmd, loaded) == [name |-> "reading", cmd |-> cmd, loaded |-> loaded]
Ended(cmd, loaded, exit) ==
    [name |-> cmd.name, exit |-> exit, loaded |-> loaded, arg |-> cmd.arg]

DeskTypeOK ==
    /\ DOMAIN file = Path
    /\ \A p \in Path : Whole(p) => IsReport(file[p])
    /\ scanning \in BOOLEAN
    /\ job.name \in {"none", "reading", "emptied", "serving"}
    /\ job # NoJob => job.cmd \in Command /\ last = NoJob
    /\ last = NoJob \/ last.exit \in 0..2

\* A finding keeps its type through every command; the server keeps its own.
TypeOK == DeskTypeOK /\ ServerTypeOK

Init ==
    /\ file = [p \in Path |-> Missing]
    /\ scanning = FALSE
    /\ job = NoJob
    /\ last = NoJob
    /\ ServerDown

-----------------------------------------------------------------------------
(***************************************************************************)
(* The scan.                                                                *)
(***************************************************************************)
ScanReport(S) ==
    LET ranked == SortedBy(S, [f \in S |-> SortKey(f)])
    IN  [i \in DOMAIN ranked |->
            Stamped(ranked[i], OwnerFor[HostOf[ranked[i].fp]], TagsFor[HostOf[ranked[i].fp]])]

ScanEmpties ==
    /\ ~scanning
    /\ file' = [file EXCEPT ![Latest] = Torn]
    /\ scanning' = TRUE
    /\ UNCHANGED <<job, last, serverVars>>

ScanWrites ==
    /\ scanning
    /\ \E S \in ScanResult : file' = [file EXCEPT ![Latest] = ScanReport(S)]
    /\ scanning' = FALSE
    /\ UNCHANGED <<job, last, serverVars>>

ScanKilled ==
    /\ scanning
    /\ scanning' = FALSE
    /\ UNCHANGED <<file, job, last, serverVars>>

-----------------------------------------------------------------------------
(***************************************************************************)
(* What a command writes and how it ends, once its inputs are loaded.       *)
(***************************************************************************)
\* Before any report is read: the format exists, notify has its URL, files that
\* must exist do, and the document of sbom and convert is one.
Refused(cmd) ==
    \/ ~cmd.known
    \/ \E i \in DOMAIN cmd.ins : file[cmd.ins[i]] = Missing
    \/ cmd.name = "notify" /\ cmd.arg = "no url"
    \/ ReadsDocument(cmd) /\ cmd.arg = Unreadable
    \/ cmd.name = "convert" /\ cmd.arg # Unreadable /\ cmd.arg.source # cmd.arg.from
    \/ cmd.name = "trend" /\ cmd.ins = <<>>

Output(cmd, loaded) ==
    CASE cmd.name = "sbom"    -> SbomReport(cmd.arg.sbom, cmd.arg.osv, cmd.arg.intel,
                                            cmd.arg.enrich)
      [] cmd.name = "convert" -> ImportReport(cmd.arg)
      [] cmd.name = "merge"   -> Combined(FlattenSeq(loaded))
      [] cmd.name = "filter"  -> Filtered(loaded[1], cmd.arg)

\* gate: the current report, and a baseline when one is given.
GateDiff(loaded) ==
    Diff(loaded[1], IF Len(loaded) = 1 THEN {} ELSE FpsIn(loaded[2]))

GateViolations(loaded, policy) == Violations(ToSet(GateDiff(loaded).new), policy)

\* The exit codes with which a command that writes no report may end.
ExitCodes(cmd, loaded) ==
    CASE cmd.name = "gate" ->
             IF cmd.arg = Unreadable THEN {2}
             ELSE IF GateViolations(loaded, cmd.arg) = {} THEN {0} ELSE {1}
      [] cmd.name = "explain" ->
             IF Selected(loaded[1], cmd.arg.by, cmd.arg.of) = {} THEN {2} ELSE {0}
      [] cmd.name = "notify" -> {0, 1}  \* the webhook accepts the message, or not
      [] OTHER -> {0}

-----------------------------------------------------------------------------
(***************************************************************************)
(* The commands.                                                            *)
(***************************************************************************)
Enter(cmd) ==
    /\ job = NoJob
    /\ IF Refused(cmd)
       THEN /\ last' = Ended(cmd, <<>>, 2)
            /\ UNCHANGED job
       ELSE /\ job' = Reading(cmd, <<>>)
            /\ last' = NoJob
    /\ UNCHANGED <<file, scanning, serverVars>>

\* One report after the other; one that is not whole ends the command.
Read ==
    /\ job.name = "reading"
    /\ Len(job.loaded) < Len(job.cmd.ins)
    /\ LET p == job.cmd.ins[Len(job.loaded) + 1]
       IN  IF Whole(p)
           THEN /\ job' = [job EXCEPT !.loaded = Append(@, file[p])]
                /\ UNCHANGED last
           ELSE /\ job' = NoJob
                /\ last' = Ended(job.cmd, <<>>, 2)
    /\ UNCHANGED <<file, scanning, serverVars>>

ReadAll ==
    /\ job.name = "reading"
    /\ Len(job.loaded) = Len(job.cmd.ins)

Empty ==
    /\ ReadAll
    /\ Writes(job.cmd)
    /\ file' = [file EXCEPT ![job.cmd.out] = Torn]
    /\ job' = [job EXCEPT !.name = "emptied"]
    /\ UNCHANGED <<scanning, last, serverVars>>

Fill ==
    /\ job.name = "emptied"
    /\ file' = [file EXCEPT ![job.cmd.out] = Output(job.cmd, job.loaded)]
    /\ job' = NoJob
    /\ last' = Ended(job.cmd, <<>>, 0)
    /\ UNCHANGED <<scanning, serverVars>>

\* The file cannot be opened, and stays as it is, or cannot be filled, and stays
\* Torn: nobody catches the error, and the interpreter ends with 1.
WriteFails ==
    /\ \/ ReadAll /\ Writes(job.cmd)
       \/ job.name = "emptied"
    /\ job' = NoJob
    /\ last' = Ended(job.cmd, <<>>, 1)
    /\ UNCHANGED <<file, scanning, serverVars>>

Show ==
    /\ ReadAll
    /\ ~Writes(job.cmd)
    /\ job.cmd.name # "serve"
    /\ job' = NoJob
    /\ \E exit \in ExitCodes(job.cmd, job.loaded) :
          last' = Ended(job.cmd, job.loaded, exit)
    /\ UNCHANGED <<file, scanning, serverVars>>

\* serve: the port is bound, or is in use.
Serve ==
    /\ ReadAll
    /\ job.cmd.name = "serve"
    /\ \/ /\ Bind
          /\ job' = [name |-> "serving", cmd |-> job.cmd]
          /\ UNCHANGED last
       \/ /\ job' = NoJob
          /\ last' = Ended(job.cmd, <<>>, 1)
          /\ UNCHANGED serverVars
    /\ UNCHANGED <<file, scanning>>

StopServing ==
    /\ job.name = "serving"
    /\ Interrupt
    /\ job' = NoJob
    /\ last' = Ended(job.cmd, <<>>, 0)
    /\ UNCHANGED <<file, scanning>>

Kill ==
    /\ job.name \in {"reading", "emptied"}
    /\ job' = NoJob
    /\ UNCHANGED <<file, scanning, last, serverVars>>

DeskStep ==
    \/ \E cmd \in Command : Enter(cmd)
    \/ Read \/ Empty \/ Fill \/ WriteFails \/ Show \/ Serve \/ StopServing \/ Kill

Next ==
    \/ ScanEmpties \/ ScanWrites \/ ScanKilled
    \/ DeskStep
    \/ (ClientStep \/ ServerStep) /\ UNCHANGED deskVars

Spec == Init /\ [][Next]_vars

-----------------------------------------------------------------------------
(***************************************************************************)
(* Properties.                                                              *)
(***************************************************************************)
\* Whatever was merged, filtered, imported or rewritten, a whole report has one
\* entry for a fingerprint, as the differ expects of it, and none before one that
\* is more actionable.
ReportsCanonical == \A p \in Path : Whole(p) => Canonical(file[p])

Done(name) == last.name = name /\ last.exit = 0

\* The step with which a merge has written its report.
Merges == job.name = "emptied" /\ Done("merge")'

\* A merge reports what it has read: every fingerprint, none besides, and of each
\* the worst that a sighting says of it, also of reports that a scan rewrote while
\* the command was at it.
MergeLosesNothing ==
    [][Merges => LET read == FlattenSeq(job.loaded)
                     merged == file'[job.cmd.out]
                 IN  /\ FpsIn(merged) = FpsIn(read)
                     /\ \A n \in DOMAIN merged : KeepsTheWorst(read, merged[n])]_vars

\* A merge that is run again, over the report it has written and any of those it
\* had read, writes the same report: a pipeline may retry it, and may merge into
\* one of its inputs.
MergeTwiceIsOnce ==
    [][Merges => LET merged == file'[job.cmd.out]
                 IN  \A i \in DOMAIN job.loaded :
                         Combined(merged \o job.loaded[i]) = merged]_vars

OwnersIn(s) == {s[i].meta.owner : i \in DOMAIN s} \ {Absent}

OwnerSlice(s, owner) == Filtered(s, [NoQuery EXCEPT !.owners = {owner}])
GapSlice(s) == Filtered(s, [NoQuery EXCEPT !.unassigned = TRUE])
Slices(s) == {OwnerSlice(s, o) : o \in OwnersIn(s)} \cup {GapSlice(s)}

BlockedBySeverity(s, threshold) ==
    Violations(ToSet(s), PolicyFromThreshold(threshold, None)) # {}

\* A report that is split among its owners and the gap loses no entry and shows
\* none twice, one owner together with the gap are just the two slices, and the
\* severity gate stops the whole exactly if it stops one of the slices.
OwnerSlicesPartition ==
    Done("report") =>
        LET s == last.loaded[1]
        IN  /\ ToSet(s) = UNION {ToSet(slice) : slice \in Slices(s)}
            /\ \A o \in OwnersIn(s) :
                  LET both == Filtered(s, [NoQuery EXCEPT !.owners = {o}, !.unassigned = TRUE])
                  IN  Len(both) = Len(OwnerSlice(s, o)) + Len(GapSlice(s))
            /\ Len(s) = SumFunction([o \in OwnersIn(s) |-> Len(OwnerSlice(s, o))])
                        + Len(GapSlice(s))
            /\ \A t \in Severity : BlockedBySeverity(s, t)
                  <=> \E slice \in Slices(s) : BlockedBySeverity(slice, t)

\* The totals of a trend follow from what it says was introduced and resolved,
\* also over reports that were merged or filtered in between.
TrendAddsUp ==
    Done("trend") =>
        LET trend == Trend(last.loaded)
        IN  \A i \in DOMAIN trend :
                trend[i].total = (IF i = 1 THEN 0 ELSE trend[i - 1].total)
                                 + trend[i].introduced - trend[i].resolved

\* The JUnit report of a policy's verdict, as a scan writes it, tells what the exit
\* code of the gate command tells for the same reports: as many failing cases as
\* failures are declared, none if and only if the gate passed.
JUnitTellsTheVerdict ==
    last.name = "gate" /\ last.exit # 2 =>
        LET diff   == GateDiff(last.loaded)
            junit  == JUnit(diff, PolicyTriggering(ToSet(diff.new), last.arg))
            failed == {i \in DOMAIN junit.cases : junit.cases[i].failed}
        IN  /\ Cardinality(failed) = junit.failures
            /\ Len(junit.cases) = junit.tests
            /\ junit.tests = Len(last.loaded[1])
            /\ last.exit = 0 <=> failed = {}

\* Of the same report, OpenVEX and CycloneDX name the same vulnerabilities on the
\* same products, and agree on which are known to be exploited.
ExchangeFormatsAgree(s) ==
    /\ UNION {{x.vuln} \X x.products : x \in Vex(s)}
       = UNION {{y.vuln} \X y.affects : y \in CycloneDx(s)}
    /\ \A x \in Vex(s) : \E y \in CycloneDx(s) : y.vuln = x.vuln /\ y.kev = x.kev

\* No SARIF rule is rated below one of its results, and every result is there.
SarifIsWorstCase(s) ==
    \A i \in DOMAIN s :
        LET rule == Sarif(s).rules[Sarif(s).results[i].rule]
        IN  rule.id = RuleOf(s[i]) /\ rule.severity >= SecuritySeverity(s[i])

\* The numbers of the metrics, the statistics, the message and the badge agree.
CountsAgree(s) ==
    LET m == Prometheus(s)
    IN  /\ SumFunction(m.bands) = Stats(s).total
        /\ SumFunction(m.sources) = Len(Csv(s))
        /\ m.bands = WebhookMessage(s).bands
        /\ m.maxRisk = IF s = <<>> THEN 0 ELSE RiskScore(Stats(s).top[1])
        /\ Badge(s).bands = <<>> <=> s = <<>>
        /\ Badge(s).exploited <=> m.kev > 0
        /\ SumFunction(m.owners) + Len(GapSlice(s)) = Len(GitLab(s))

DocumentsAgree ==
    Done("report") => LET s == last.loaded[1]
                      IN  ExchangeFormatsAgree(s) /\ SarifIsWorstCase(s) /\ CountsAgree(s)

\* The plan resolves every finding by one action and conserves the risk, and no
\* cut by --top drops an action for a known exploited finding while it shows one
\* without.
PlanCoversReport ==
    Done("remediate") =>
        LET s    == last.loaded[1]
            plan == Plan(s)
            top  == Limited(plan, last.arg)
            planned == FlattenSeq([i \in DOMAIN plan |-> plan[i].members])
        IN  /\ Len(planned) = Len(s) /\ ToSet(planned) = ToSet(s)
            /\ TotalRisk(s) = SumFunction([i \in DOMAIN plan |-> TotalRisk(plan[i].members)])
            /\ (\E i \in DOMAIN top : ~ActionKev(top[i])) =>
                  \A i \in DOMAIN s : s[i].kev =>
                      \E a \in DOMAIN top : \E j \in DOMAIN top[a].members :
                          top[a].members[j] = s[i]

=============================================================================
