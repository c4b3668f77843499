# vulnpipe in TLA+

`vulnpipe` scans the hosts and web applications it is authorized to scan (Nmap,
ZAP, Nuclei, an SBOM, imported reports), enriches the findings with advisories
(NVD, EPSS, KEV, OSV), deduplicates, suppresses and ranks them, compares them
with a committed baseline and ends with an exit code that passes or fails a
build. This directory holds TLA+ models of the parts of it whose correctness
depends on the order of things (threads, shared files and caches, failures,
retries, days that pass, the order in which pure functions are composed) and of
the analyses that several documents and commands have to agree on.
TLC checks them on small instances and TLAPS proves theorems about them for
every value of the constants.

    tlc -config WebLayer.cfg MCWebLayer     # a run: see "Runs"
    tlapm WebLayerProofs.tla                # the proofs of a module

`PROJECT.json` lists components, runs, theorems, hazards and findings, and maps
every definition to the lines it models; paths in it start at the root of the
repository (`src/`).

## Inventory

| Part of the system | State | Operations | What is hard | What makes it correct | Here |
|---|---|---|---|---|---|
| Configuration, scope and planner: `core/config.py`, `core/planner.py` | none | load and interpolate, validate, match hosts, networks and URL prefixes, plan | two implementations of one question (`validate`, the scanners' selection); a name is resolved between two checks | the plan is what a scan does; no URL outside the scope is reported | `Scope`, run by `ScanLayers` |
| Nmap and Nuclei scanners | a subprocess and its output | select, run, time out, parse, filter by scope | output that is cut off; a result without URL; several sightings of one CVE | what is open is reported; a stated score reaches the finding | `ScannerOutput`, run by `ScanLayers` |
| ZAP authentication: `auth/auth_contexts.py`, `_ensure_context`, `_configure_auth` | contexts, users and header rules of the daemon; secrets in the environment | create, include, resolve secrets, attach, scan as a user | tasks share a daemon in which contexts go by the hostname; any call may fail half way | a target is scanned as its own complete user, or as nobody | `ZapContexts` |
| Scan run: `cli/main.py` `scan`, `core/orchestrator.py` `run_pipeline` | command line, findings so far, reports on disk, exit code | preflight; five layers; enrich; deduplicate; suppress; rank; diff; gate; write reports | a failure or a signal anywhere; layers that degrade to nothing; web targets that nmap discovers; composition of filters | nothing is probed that is not permitted; a verdict follows complete reports; the verdict is about what was sighted | `Pipeline` |
| Web layer: `_default_web_scan`, `scanners/zap_scanner.py` | thread pool, semaphore, phase of every target; daemon: scans and alerts | pick up, acquire, context, spider, active scan, poll, collect, normalize, hand over | threads that share a daemon; polls that time out; a target that raises while others run | permits are conserved; results are ordered; what a complete scan found is reported; nothing is started after an abort; only a call that hangs keeps the layer | `WebLayer`, `BoundedMap` |
| Advisory clients: `enrichment/_http.py`, NVD, EPSS, KEV; `sbom/osv_client.py` | cache on disk, KEV memo, throttle clock, batch in progress | look up, batch, throttle, send, retry, store, expire | several runs share a cache; retries and rate limits; failures that must not be remembered | the cache holds answers; one catalog per run; a lookup returns | `AdvisoryLookup` |
| Finding model, enricher, deduplicator, false positives, prioritizer, differ, gate, policy | none (pure) | merge, fill in, suppress, order, diff, judge | each function is right, the composition may not be | no severe sighting is hidden or invented; gate and policy agree; the order is total | `Findings`, run by `Pipeline` |
| Baseline and SLA: `ci/baseline.py`, `ci/sla.py`, commands `baseline`, `gate`, `sla` | baseline file, latest findings JSON | build, update, save in place, load, judge | read-merge-rewrite without a lock; a kill between truncation and write; dates that must survive updates | nobody passes what was not accepted; ages are kept and never overstated | `BaselineLifecycle`, `AcceptanceLedger` |
| SBOM analysis and imports: `sbom/`, `ingest/` | none | parse, query, build findings, rank | aliases, missing versions, several ids of one issue; scores or a label | a finding names CVEs only; the report is canonical | `SupplyChain`, run by `ReportDesk` |
| Report commands: `merge`, `filter`, `convert`, `sbom`, `report`, `stats`, `explain`, `remediate`, `badge`, `notify`, `diff`, `gate`, `trend` | report files, written in place | read, combine, select, render, judge | one command's output is another's input, in any order, while a scan rewrites a file between two reads; merges that are run again; many documents of one report | reports stay canonical; a merge loses nothing and may be repeated; documents made of one report tell the same | `Reports`, `Formats`, `ReportDesk` |
| Report server: `server/http_server.py` | a snapshot, one thread, open connections | bind, accept, answer, close, interrupt | one thread and connections that stay open | one connection at a time; the server ends with its command | `ReportServer`, composed by `ReportDesk` |
| Plugins and registry; CVSS vectors; HTML and Markdown pages; logging | a table of names; none | load entry points; compute; lay out | wording and formats | - | not modelled |

How they interact: `scan` loads a configuration and calls `run_pipeline`, which
calls the layers one after the other; the web layer fans out to threads that
share one ZAP daemon; the enricher and the SBOM layer call the advisory clients,
which share a cache directory with every other run on the machine; the findings
then pass through pure functions; the JSON report and the baseline file are how
runs of different days, and the commands of a desk, meet.

## Modules

| Module | Models | Extends or instantiates |
|---|---|---|
| `Scope` | configuration, scope, plan, selection (pure) | |
| `ScannerOutput` | findings from the output of Nmap, Nuclei and ZAP (pure) | extends `Scope` |
| `ZapContexts` | authentication of tasks that share a daemon | extends `Scope` |
| `ScanLayers` | the network, web and nuclei layers of a scan, from the file to the findings | extends `ScannerOutput`, `ZapContexts` |
| `MCScanLayers`, `ScanProofs`, `ZapContextsProofs` | instances; proofs | extend `ScanLayers`; `ScanLayers` and `ZapContextsProofs`; `ZapContexts` |
| `BoundedMap` | abstract: an ordered, bounded map over a list of tasks | |
| `WebLayer` | the web layer and the daemon | instantiates `BoundedMap` |
| `MCWebLayer`, `WebLayerProofs` | instances; proofs | extend `WebLayer` |
| `AdvisoryLookup` | the four advisory clients, the HTTP engine, the cache | |
| `MCAdvisoryLookup`, `AdvisoryProofs` | instances; proofs | extend `AdvisoryLookup` |
| `Findings` | findings and the pure functions on them | |
| `Pipeline` | one run of `scan` | extends `Findings` |
| `MCPipeline`, `PipelineProofs` | instance; proofs | extend `Pipeline` |
| `AcceptanceLedger` | abstract: what a baseline promises | |
| `BaselineLifecycle` | the files of a project over its days | extends `Findings`, instantiates `AcceptanceLedger` |
| `MCBaselineLifecycle`, `BaselineProofs` | instance; proofs | extend `BaselineLifecycle` |
| `Reports` | merge, query, groups, counts, plan, trend (pure) | extends `Findings` |
| `Formats` | VEX, CycloneDX, SARIF, GitLab, CSV, Prometheus, badge, message, diff, JUnit (pure) | extends `Reports` |
| `SupplyChain` | SBOM and imports (pure) | extends `Reports` |
| `ReportServer` | the dashboard's single thread and its clients | |
| `ReportDesk` | the commands over report files, beside a scan | extends `Formats`, `SupplyChain`, `ReportServer` |
| `MCReportDesk`, `ReportDeskProofs`, `ReportsProofs` | instance; proofs | extend `ReportDesk`; `ReportDesk` and `ReportsProofs`; `Reports` |

Definitions that a comment calls `Mutant:` are wrong on purpose: each is a
plausible bug in the definition that follows it. `PROJECT.json` names the run
and the property that reject it. No specification uses them.

### Scope, ScannerOutput, ZapContexts, ScanLayers

Texts are taken apart: an address or network is the set of its addresses, a
hostname the sequence of its labels, a URL its origin (scheme, hostname, port as
written) and path. `Loaded` is `load_config`: `InterpolatedConfig` replaces
`${var}` and `${var:-default}` (the hosts and the targets' hosts stand for all
texts of the file), then validation. `ScanPlan` is what `validate` prints, by the
planner's code; `SelectedHosts`, `SelectedUrls` and `CollectedWebTargets` are what
the scanners and the orchestrator select, by theirs.

`ScannerOutput` turns an XML document, result lines and alerts into findings. An
XML document may be cut: libnmap repairs one that was cut between two hosts and
gives up one that was cut inside a host. The names of services are the ones that tell
apart what the code looks for inside a name (`WebServices`, `HttpsServices`). A CVE that only the text of a script
mentions is harvested without a score, also where the text says NOT VULNERABLE.

In `ZapContexts` a task creates a context named by the hostname, includes its
URL, resolves its secrets, makes the calls of its auth block in order
(`Calls`), then spiders and attacks; `Send` is a request of the daemon in either
phase, with the user of the task and every header rule there is by then. Each
call may fail before or after its effect, and nothing is undone. `sent` is the
history the properties are about. That `new_context` refuses a name twice is an
assumption about the daemon, which the code relies on too: a target whose name is
taken is scanned without a context. Of several URLs on one hostname therefore only
the first gets one. `Env` is the set of variables that are set, to an empty text
too.

`ScanLayers` runs it all: `Load`, `Preflight`, `NmapScan`, `StartWeb`, `RunTask`
(the steps of `ZapContexts`), `EndWeb`, `NucleiScan`. Nmap may find a declared
site again under its address; nuclei may be cut in the middle of a line (a torn
line is no JSON and is skipped); a target whose scan raised on the way leaves no alerts
(`Answered`). The host that a nuclei result without URL names is not checked against
the scope, nor the host of one whose URL is; `EverythingReportedInScope` says of the
first that it is excused, and of the second that its URL is in scope.

### WebLayer

`pc[t]` is where `scan_one` and `ZapScanner.scan` are for target `t`: queued in
the executor, blocked on the semaphore, in one of the phases of a scan, done,
raised or cancelled. `permits` is the semaphore, `cursor` and `collected` the
loop over `pool.map`, `main` the thread of the pipeline, `raw[t]` what
`core.alerts` returned. `running` and `alerts` belong to the daemon, which is
external: it runs a scan until it is done with it, whether or not anybody polls
it, adds alerts meanwhile, and any call to it may fail. `Below[t]` is the set of
targets whose URL has that of `t` as a prefix, as `core.alerts(baseurl=...)`
filters by prefix, and as an active scan recurses into what is below its target.
`polled[t]` says how the poll of the active scan ended (complete, deadline,
exception). An alert is named by the target whose scan raised it and the target it
is on (`by`, `on`); one that cannot be normalized makes the task raise. The scan of
`t` may raise an alert on a target below `t` after that target has read its own;
`CompleteScanFullyReported` therefore asks that `t` itself reports it. It does not
speak of the alerts of a scan that was given up, which run on after the last read,
nor of those of the passive scanner, which the code does not wait for.

The client is built without a timeout, and the deadline of a poll is looked at
between two calls only. So any call may also hang for good (`CallHangs`): the task
then keeps its thread and its permit, the other targets go on as long as there is
one of each left, and the layer does not return.

Cancellation follows `concurrent.futures`: an exception surfaces when its turn
in the order comes, `pool.map` then cancels the futures still queued, and
leaving the `with` block waits for those that run.

### AdvisoryLookup

A process is a run of vulnpipe. `Lookup` takes what the cache holds and leaves
the rest to requests; `PickChunk` makes the next request (a batch for EPSS, one
item otherwise); `Answered`, `Refused` and `Transient` are the outcomes of an
attempt, with the retry policy of `_http.py`; `Store` writes to the cache and to
the KEV memo and returns to the caller. `Restart` ends a process anywhere. `truth`
is what a source would answer now, and changes at will; `said`, a history, is
what it ever answered. Time is discrete: `Tick` ages cache entries and the
throttle clocks. `Stores` keeps the one difference between the clients: OSV
caches every outcome, the others only answers that hold something.

### Findings and Pipeline

A finding is the record of the fields that identity, merge, suppression, order
and verdict depend on. The fingerprint is an identity of which host, plugin and
criticality are functions, because it is a hash over host, port, source, plugin
and title; `at`, the page of an alert or the matched URL, is not part of it, so
one fingerprint may be sighted in several places. Severities and confidences are
ranks, CVSS is in tenths and EPSS in percent, so that `RiskScore` is integer
arithmetic with Python's rounding of halves to even. (The program computes with
floats. Over all arguments of the model the two differ only on exact halves that
a float misses, six of them, by one point; no property of a run depends on
which side they fall.)

`Pipeline` runs the functions in the order of `run_pipeline`, which the
properties are about: enrichment before deduplication, suppression before the
diff, the diff before the verdict. `Command` is a set of command lines together
with the files they name (which load and which do not, baseline, allowlist,
policy, requested reports). What a layer comes back with is any sequence of up
to `MaxSighted` elements of its set: a layer that fails degrades to fewer
findings; how it comes to them is the subject of `ScanLayers` and `WebLayer`.
Reports are truncated and then written one by one, in order.

Preflight is modelled in its order: configuration, authorization, scope,
allowlist, baseline, policy. Everything that is wrong exits with 2, except a YAML
syntax error in the allowlist, which nobody catches and which therefore ends the
process as an exception does.

### BaselineLifecycle

`day` passes, `Scan` replaces the findings JSON, and `baseline`, `gate` and `sla`
work on it. A baseline command is three steps: `Load` reads and merges (or
builds), `Truncate` is the opening of the file by `write_text`, `Save` the write.
`Kill` ends it in between. Two commands may overlap: a write goes to the start of
the file, so that what another wrote meanwhile shows behind it when that was
longer (`overlaid`). `gate` and `sla` read in one step: their input is small and
they hold nothing over time. `Remove` is the operator's `rm`, done when no command
is at work.

An entry is its first-seen day, or `None` when the command did not track ages.
`history`, `accepted` and `sighted` are histories, which no action reads into
another variable: they are what the properties compare verdicts with.

A JSON object that is neither a baseline nor a report reads as an empty report in
the code; the model has no such file.

`Parallel` is an assumption about the project, not a lock in the code: a CI
workflow that serializes its jobs has 1. With 1 the file implements
`AcceptanceLedger`; with 2 updates can be lost (the code has no lock), and the
properties checked are those that still hold.

What "resolved" means in a diff: in the baseline and not in the report. A finding
that was suppressed, or whose layer degraded, looks resolved like one that was
fixed; the code documents it, and the models keep it without a property. An issue
that comes back is judged by the day it was first accepted, since a baseline never
loses an entry by an update.

### Reports, Formats, SupplyChain, ReportServer, ReportDesk

A report is a sequence of entries: findings with the fields these commands look
at. A solution text is its length (the merge keeps the longer), "product" stands
for product and version, and names are numbers in the order of the alphabet.
A sort is stated by its result (`SortedBy`: what is at place n has n - 1 keys before
its own), so that it can be proved about. `Combined` is `merge`: one entry for a fingerprint, with the KEV flag of the first
and, of every metadata key, the first value there is. `Filtered` is the query of `filter`,
`Plan` the remediation plan (whose text is the first solution of its entries),
`Trend` the series, `SegmentY` and `LabelY` the geometry of its chart. `Formats`
says of each document which entry ends where, under which identifiers and
severity. An owner who is called "unassigned" falls into the bucket of what nobody
owns.

`SupplyChain` makes findings of components and advisories, and of Trivy and Grype
reports, through the same `make_finding`. The identity of an imported or SBOM
finding does not contain the package, so one CVE in two packages is one finding.

`ReportDesk` runs commands one at a time (one terminal) over `Path`, the report
files, while a scan rewrites `Latest` at any moment. A command is entered and
checked (`Enter`), reads its reports one by one (`Read`), then empties and fills
its output (`Empty`, `Fill`) or shows what it makes of them (`Show`), with its exit
code. A kill, of a command or of the scan, leaves a file `Torn`, which the next
reader refuses. `WriteFails` is an `OSError` when the output is opened or written:
the file stays as it was or is torn, and the command ends with 1. `gate` writes no JUnit itself; `JUnit` is the document that `scan`
writes for the same kind of diff, which is what `JUnitTellsTheVerdict` compares.

`ReportServer` is Python's `HTTPServer` under HTTP/1.1: it accepts a connection,
stays with it until it is closed, then accepts the next. The pages are a function
of the snapshot taken at start and are left out. The composition is `Serve` (which
binds), the server's and its clients' steps, and `StopServing`.

## Runs

Every run checks deadlock, except `scan_layers` and `nmap_hostname`, in which the
scan is over: the other specifications never end, or stutter explicitly when the
program has ended (`Terminated`, `Done`).

| Run | Asks | Instance and why it is enough |
|---|---|---|
| `scan_layers` | `validate` and `scan` agree; declared means authenticated; what is reported is in scope and what is open is reported; scores are not lost; users are own and complete; missing secrets leave nothing; refinement of `ZapContexts` | fourteen configurations, one for each way to declare a target (network, address, name, URL, URL prefix, environment, default, unset), in and out of scope, one URL under two targets, two URLs on one hostname, every kind of auth block with and without its secrets, and a file that is no mapping; three hosts of which one is out of scope; every cut of the XML and of the lines; every call to the daemon may fail |
| `nmap_hostname` (violation) | a declared hostname is reported | two configurations |
| `web_layer` | permits conserved, pool bounded, nothing left behind by other paths, complete scans fully reported, nothing started after an abort, refinement of `BoundedMap`, only hung calls keep the layer | three targets, two permits, three threads: tasks can run, block and queue at the same time; target 2 raises, so that there is one before it and one after it in the order; the URL of 1 is a prefix of that of 2; the daemon may never finish a scan, and any call may fail or hang |
| `web_layer_cap` (violation) | at most `zap.max_concurrency` active scans | two targets, one permit suffice |
| `advisory_shared` | outages are not remembered; one catalog per run | two runs, one CVE and the catalog: reads and writes of an entry interleave, with expiry between them; sources change and fail; no interval between requests (NVD keeps one): what the caches hold does not depend on it |
| `advisory_epss` | nothing is made up; a lookup returns | two CVEs in two batches, two attempts, an interval of two ticks, so that a retry has to wait; answers leave one out or add one; the source may always fail |
| `advisory_osv` (violation) | OSV failures are not cached | one package |
| `pipeline` | permitted probes, verdict after reports, just verdicts, agreement of gate and policy | every refusal; all five layers; hosts and services in and out of scope; an alert seen on two pages with different severities; acceptances that expire on the first of two days; a confidence floor; three reports of which any may fail |
| `pipeline_kev` (violation) | `block_kev` refuses every known-exploited finding | one command line |
| `baseline_serial` | no age is forgotten; the file is a ledger | two issues of different severity that come and go, three days (deadlines of 0 and 1 day, so that both sides of each are reached and an issue can come back), one command at a time |
| `baseline_parallel` | a gate that passes and an SLA that fails are right although commands overlap | two commands, three days; the critical issue stays and the high one comes and goes |
| `report_desk` | canonical reports; owner slices; trends that add up; JUnit and verdict; documents that agree; plans that cover; merges that lose nothing and may be repeated | two files, one of which a scan rewrites with five different results (none, escalations, changed solutions among them); twenty command lines, which read what others wrote in any order; six fingerprints, three of them of one CVE (two hosts, and Trivy's), an advisory by SBOM and by Grype; two clients, so that one waits behind the other |

The bounds that cut something off: `MaxSighted` (findings of one layer; two make
a duplicate), `MaxDay` (days), and the constants above. No variable grows without
bound in a run; `said`, `answers`, `sent` and the histories are sets over the
constants.

`baseline_parallel` uses a view and a symmetry. The view drops `history`, which no
guard, no other variable and neither of the run's two invariants reads. The
symmetry permutes the two jobs, which nothing tells apart. `advisory_shared`
permutes its two runs of vulnpipe; no liveness is checked under a symmetry.

Each property is also checked against a mutant of the code (`PROJECT.json`,
"mutants") that it rejects.

### Fairness

`WebLayer!FairSpec` has weak fairness of every thread's progress and of the
pipeline's thread: the interpreter schedules them, and the deadline of a poll
passes. That a call to the daemon ends is not assumed: nothing in the code bounds
one, and `CallHangs` is always possible for a task that waits on a call. Fairness
says only that a call which does not hang ends. The daemon's scans may run for
ever. `EventuallyOver` therefore says: the layer ends; or every target is over or
hung; or as many calls hang as there are permits or threads, so that none is left for
the others. Without a hung call it is the deadline alone that ends a poll. A thread blocked on the
semaphore may lose a permit to another; weak fairness is enough because a permit
is taken at most once per target.

`AdvisoryLookup!FairSpec` has weak fairness of time and of the steps of a lookup.
Nothing is assumed of the sources: `LookupsReturn` holds since attempts are
bounded. A run may be ended at any time, which also ends the lookup.

The other specifications have no fairness. `ReportServer` states no liveness: a
client that stays connected without a request holds the only thread, the code has no
timeout that would end it, and whoever connects later waits for as long.

## Proofs

TLAPS proves these for all values of the constants that the `ASSUME`s of the
modules allow; TLC evaluates the assumptions on every instance.

Every invariant of a passing run, and each of its action properties and refinements,
is stated by a theorem; the premise of two of them is that commands do not overlap.

**WebLayerProofs.** `TypeCorrect`, `PoolIsBounded`, `NoForgottenScan`,
`NothingFoundIsLost`, `NothingStartsAfterAbort`, `ImplementsMap`. The invariant `IInv` adds two facts to the
properties: before the active scan has been polled `polled` is "no", and a scan
polled to its end is not running (`PolledMatchesPlace`), a target whose scan was
polled to its end has read every alert of it once it is past the reading
(`AlertsRead`), and the results handed over are those before the cursor
(`CursorMatches`). The first is needed as the scan of a target that was polled to
its end must not raise further alerts after they were read. The refinement maps a task to "active" while it holds a permit; acquiring
is the abstract start, and the pool's bound gives its guard.

**AdvisoryProofs.** `TypeCorrect`, `OutageNotRemembered`, `AnswersAreGenuine`,
`CatalogIsStable`. `Bookkeeping` says what is left over
between lookups; `Soundness`, that every copy of an answer on its way (reply,
lookup in progress, memo, cache) is something the source said or the empty answer of
a failure, and, in the cache, the latter for OSV only; `MemoAgrees`, that a run
was answered nothing else about the catalog than what it memoized.

**PipelineProofs.** `TypeCorrect`, `ProbesArePermitted`, `VerdictReachesDisk`,
`VerdictSound`, `PolicyAgreement`, `PriorityIsTotal`. `Inv` adds to the types what
holds at each stage (`Staged`: who got past preflight was permitted, what is
discovered is in scope, nothing is written before the verdict) and that the report
is what the functions make of the sightings (`Judged`). `VerdictSound` then rests
on two lemmas about the functions: a merge keeps the greatest severity and
confidence (`MergedKeepsTheWorst`), and a merged finding is suppressed exactly
when the operator excused it (`SuppressedIffExcused`). `PolicyAgreement` rests on
`ZeroBudgetsAreTheThreshold`: a budget of nought is exceeded by one finding.

**ZapContextsProofs.** `TypeCorrect`, `NoForeignOrHalfUser`, `SetUpIsUsed`,
`MissingSecretIsHarmless`, `NothingElseCrossesOver`, for any targets, auth blocks
and environment. `IInv` says of each task how much of its plan it has set up, as a
function of where it is (`TaskInv`): a task that has a context owns the name, a
user is complete as the last call gave it, and what is configured in the daemon was
configured by a task with its secrets. Two of the theorems are about properties no
run lists (`SetUpMeansAuthenticated`, `OnlyHeadersCrossOver`).

**BaselineProofs.** `TypeCorrect`, `PassingGate`, `FailingSla` for any number of
overlapping commands; `PassingSla` and `FilesAreALedger` for `Parallel <= 1`.
`TypeOK` is not inductive, since what a command writes was dated when it read:
`IInv` carries the type of all that a command holds (`Shape`), that what is
reported was first reported some day (`Sighted`), that no entry, in the file or in
a command's hands, is dated before its issue was first reported (`AllHonest`), and
that every entry was given to a command that completed or to the one that holds it
(`Accounted`). An exit code is set by the step of its own command only, so a
verdict is proved at that step. `Serial` is what commands one at a time add: the
file, when whole, is the history, and the command at work will write what the
history becomes. The refinement takes the ledger to be that result from the moment
the file is opened; the command at work being the only one makes it well defined.

**ScanProofs.** `ScanTypeCorrect`, `ScanRefinesZapContexts`,
`ScanAuthenticatesSafely`, `NothingOutsideIsReported`, `ValidationIsHonest`,
`DeclaredIsAuthenticated`, `DeclaredIsReported`, `StatedScoreIsKept`
(`NothingOutsideIsReported` with the exception its property states: the host of a
nuclei result that matched no URL), for any files,
environment, hosts, alerts and nuclei results that `ScanLayersAssumption`,
`WorldAssumption` and `ResultsAssumption` allow: a file that is a mapping has the
fields of the schema, nmap lists a host once and by its address, and a nuclei result
has one of its severities. The refinement makes the invariant of `ZapContexts` hold of
a scan, since the layers around it only choose the tasks.

None of the other properties is inductive, as each relates the end of a scan to
its beginning. `ScanInv` adds what links them: what is loaded is a valid file, and
the plan is its plan (`LoadedInv`); no scanner runs before the configuration is
cleared (`ClearedInv`); what has not run has left nothing (`EmptyInv`); the network
findings are those of the XML, of the hosts nmap was given (`NetworkInv`); each
scanner was given what `validate` listed, and beyond that only what nmap led to
(`HandedInv`); and a declared URL is scanned under the auth of the first target that
lists it (`AuthInv`). That the planner's code and the scanners' code answer the same
question alike are lemmas about the operators of `Scope`.

**ReportsProofs.** `CombinedIsCanonical`: a merge of any reports has one entry for a
fingerprint and puts none before one that is more actionable.
`CombinedKeepsTheWorst`: that entry is as severe, sure and well referenced as the worst
of its sightings and says nothing that none of them says; the KEV flag is not among
what is kept (see `pipeline_kev`). `MergedAgain`: merging a merged report with any of
the reports it was made of gives the same report. `RiskIsScore`: the
risk of any entry is in 0..100. `ChartFits`: although each segment of a bar is rounded
for itself, a bar with its label stays on the page, since the sum of five roundings
is bounded by half a pixel each (`RoundedDivBound`). The lemmas are what the documents
of a report rest on. Keys are in a total order and a finite set is ranked by it, so
`SortedBy` lists each member once (`Ranks`, `Sorted`). A count over a report is the
sum of the counts over classes (`SumIs`, `CountByClass`), where a sum of risks is a
number of pairs of a place and a point (`PairsCount`). A remediation plan has the
entry of every finding in exactly one action (`PlanIs`). Induction, which would need
an operator as a parameter, is done as the absence of a least counterexample.

**ReportDeskProofs.** `DeskTypeCorrect`, `ReportsStayCanonical`, `TrendsAddUp`,
`JUnitIsTheVerdict`, `OwnersShareTheReport`, `PlanCovers`, `DocumentsDoAgree`,
`MergesLoseNothing`, `MergingTwiceIsOnce`, `OneConnectionEach`, for
any paths, results of scans, command lines, SBOMs, imports and clients that
`ReportDeskAssumption`, `SupplyChainAssumption` and `ReportsAssumption` allow (a scan
comes to finitely many merged findings, a command line has what its parser asks
for, names are numbers). `DeskInv` says that what is whole was written whole
(`FilesInv`), that a command that runs was accepted and that what it has read so far
is whole and canonical, although the files may have been rewritten since
(`JobInv`), and that the exit code of a command follows from what it had loaded
(`LastInv`). A `merge` of what a `filter` made of a `convert` is canonical by the
same step as the first: each output is (`OutputIsWhole`). `JUnitIsTheVerdict`,
`OwnersShareTheReport` and `DocumentsDoAgree` are then statements about one
canonical report: the failures of the JUnit document are what the gate counted; every
entry is in the slice of one owner or in the gap; VEX and CycloneDX name the same
vulnerabilities, SARIF tells the worst case of its rules, and CSV, GitLab, the gauges,
the statistics, the badge and the message count the same findings.

`MergesLoseNothing` and `MergingTwiceIsOnce` are about the step with which a merge
fills its file. What that step writes is `Combined` of all that was read
(`MergeWrites`), and every report read is whole and canonical (`JobInv`), whatever has
become of its file. The first theorem is then `CombinedKeepsTheWorst` for the entries
read, and the second `MergedAgain`: to fold a folded entry with some of the sightings
it was made of changes none of its fields (`FoldedAgain`), as each is a maximum, a union, the
first value there is, or of the first sighting, and a rank depends on the entries only.

`OneConnectionEach` is about the dashboard and a property no run lists (`QueueInv`): a
connection waits once or is with the thread. That `NoClient` is no client is
`ReportServerAssumption`.

Only model-checked: `EventuallyOver` and `LookupsReturn`, as the
prover supports neither liveness nor ENABLED; and what the runs that expect a
violation refute, which is false.

## Where the code and its documents disagree

Each is a run that ends in a counterexample; the quotations are in `PROJECT.json`.

* `web_layer_cap`: a scan whose polling timed out or failed goes on in the daemon
  while its permit is handed on, so more than `zap.max_concurrency` scans run.
* `advisory_osv`: a failed OSV lookup is cached as "no advisories" for the life of
  the entry.
* `pipeline_kev`: the merge of duplicates keeps the KEV flag of the first, so a
  known-exploited finding can pass `block_kev`.
* `nmap_hostname`: a target declared by its hostname is scanned, and everything
  nmap reports of it is dropped, because the reported address is compared with an
  allowlist that holds the name only.

Behaviours that look odd and that the models keep: a finding that escalates keeps
its fingerprint and stays accepted; a header rule is put on every request of the
daemon and never taken back; a site that nmap finds again under another text is
scanned twice, once without auth; a request with a method other than GET or HEAD
is refused without its body being read.

## Plan

Done: all parts of the inventory except the last row; proofs of every safety
property, action property and refinement of the runs.

Next, in this order:

1. `Reports`: that the severities a merge comes to do not depend on the order of the
   reports.
2. `ReportDesk`: that a `filter` loses what its query excludes only.
3. `Findings`: what the diff says of a finding follows from the two reports alone,
   for reports of any length.

## Not modelled

Parsing (XML, JSON, YAML, CPE, versions), rendering, logging and wording; the
CVSS arithmetic and the tables of standards; the POST of the webhook; TLS and HTTP
below the level of "answered, refused, or failed"; the registry of plugins, a
table of names that is filled once; the routes and pages of the dashboard; the
`badge` (an SVG) beyond its numbers; `schema` and `version`, which read nothing;
a Trivy report whose `CweIDs` is no list, and a syntax error in an allowlist,
which end a command by an exception. `PROJECT.json` lists each component with its
reason.
