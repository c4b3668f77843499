------------------------------ MODULE Pipeline ------------------------------
(***************************************************************************)
(* One run of `vulnpipe scan`, from its command line to its exit code:      *)
(* cli/main.py scan around core/orchestrator.py run_pipeline.  The layers   *)
(* report findings, one layer after the other; the findings are enriched,   *)
(* deduplicated, filtered and judged; the reports are written; the process  *)
(* exits.  Anywhere in between an exception, or a signal, can end it.       *)
(*                                                                         *)
(* WebLayer models the inside of the web stage, AdvisoryLookup what the     *)
(* enrichment is answered.                                                  *)
(***************************************************************************)
EXTENDS Findings

CONSTANTS Command,    \* the command lines, with the files they name
          Sighted,    \* for each layer, the findings it may come back with
          MaxSighted, \* bound on the findings of one layer
          Url,        \* the places that are URLs
          WebUrl,     \* the URL of the web service an nmap finding denotes
          NoUrl,      \* an nmap finding that denotes none
          Answers,    \* what the advisory sources may answer
          Day,        \* the days on which the run may end
          Artifacts   \* the reports, in the order in which they are written

Layer == {"network", "web", "nuclei", "sbom", "imports"}
Artifact == {Artifacts[i] : i \in DOMAIN Artifacts}
Input == {"config", "allowlist", "allowlist syntax", "baseline", "policy"}
Allowlist == [rules : SUBSET Rule, floor : Confidence \cup {None}]

\* scope is what the allowlist of hosts and URL prefixes covers; hosts and
\* urls are the declared targets; broken, the files that do not load.
CommandLine ==
    [authorized : BOOLEAN, scope : SUBSET Place, hosts : SUBSET Place,
     urls : SUBSET Url, layers : SUBSET Layer, broken : SUBSET Input,
     baseline : SUBSET Fingerprint, allowlist : Allowlist,
     threshold : Severity, minRisk : Score \cup {None},
     hasPolicy : BOOLEAN, policy : Policy, gating : BOOLEAN,
     requested : SUBSET Artifact]

ASSUME PipelineAssumption ==
    /\ Command \subseteq CommandLine
    /\ Sighted \in [Layer -> SUBSET Finding]
    /\ MaxSighted \in Nat
    /\ Url \subseteq Place
    /\ WebUrl \in [Fingerprint -> Url \cup {NoUrl}]
    /\ NoUrl \notin Place
    /\ Answers \subseteq Intel
    /\ Day \subseteq Nat
    /\ Artifacts \in Seq(STRING) /\ Artifacts # <<>>
    /\ \A i, j \in DOMAIN Artifacts : Artifacts[i] = Artifacts[j] => i = j
    /\ \A c \in Command : Artifacts[1] \in c.requested

VARIABLES cmd,        \* the command line
          stage,      \* where the run is
          probed,     \* history: the places that were sent a request
          discovered, \* URLs of web services the network layer found
          raw,        \* the findings of the layers, in order
          today,      \* the day on which the run applied the allowlist
          kept,       \* the findings that are reported
          verdict,    \* of the gate or the policy
          disk,       \* each report: of an earlier run, half written, of this
          outcome     \* how the process ended

vars == <<cmd, stage, probed, discovered, raw, today, kept, verdict, disk,
          outcome>>

Stage == {"preflight", "enrich", "judge", "write", "over"} \cup Layer

\* The type invariant; the report holds one finding for each fingerprint.
TypeOK ==
    /\ cmd \in Command
    /\ stage \in Stage
    /\ probed \subseteq Place
    /\ discovered \subseteq Place
    /\ raw \in Seq(Finding)
    /\ today \in Day \cup {None}
    /\ kept \subseteq Finding
    /\ \A f, g \in kept : f.fp = g.fp => f = g
    /\ verdict \in {"none", "pass", "fail"}
    /\ disk \in [Artifact -> {"old", "torn", "new"}]
    /\ outcome \in {"none", "refused", "raised", "passed", "failed"}

Init ==
    /\ cmd \in Command
    /\ stage = "preflight"
    /\ probed = {} /\ discovered = {} /\ raw = <<>> /\ kept = {}
    /\ today = None
    /\ verdict = "none"
    /\ disk = [a \in Artifact |-> "old"]
    /\ outcome = "none"

-----------------------------------------------------------------------------
(***************************************************************************)
(* Preflight.  The inputs are read in a fixed order and the first that will *)
(* not do ends the run with exit code 2; a YAML syntax error in the         *)
(* allowlist is not among the exceptions that are caught.                   *)
(***************************************************************************)
\* Mutant: run_pipeline is told authorized=True; the CLI forgets to ask first.
PermittedByScope == /\ cmd.scope # {}
                    /\ cmd.hosts \cup cmd.urls \subseteq cmd.scope

Permitted == /\ cmd.authorized
             /\ cmd.scope # {}
             /\ cmd.hosts \cup cmd.urls \subseteq cmd.scope

Over(how) == stage' = "over" /\ outcome' = how

Refuse ==
    /\ stage = "preflight"
    /\ \/ "config" \in cmd.broken
       \/ ~Permitted
       \/ cmd.broken \cap {"allowlist", "baseline", "policy"} # {} /\
          "allowlist syntax" \notin cmd.broken
    /\ Over("refused")
    /\ UNCHANGED <<cmd, probed, discovered, raw, today, kept, verdict, disk>>

Start ==
    /\ stage = "preflight"
    /\ cmd.broken = {}
    /\ Permitted
    /\ stage' = "network"
    /\ UNCHANGED <<cmd, probed, discovered, raw, today, kept, verdict, disk,
                   outcome>>

-----------------------------------------------------------------------------
(***************************************************************************)
(* The layers.  A scanner that fails degrades to fewer findings; findings   *)
(* of a place out of scope are dropped as the output is parsed (a nuclei    *)
(* result that matched no URL has none to check).  sbom and imports read    *)
(* local files, which have no scope.                                        *)
(***************************************************************************)
Reportable(l) ==
    {f \in Sighted[l] : \/ l \in {"sbom", "imports"}
                        \/ f.at \in cmd.scope
                        \/ l = "nuclei" /\ f.at \notin Url}

Sightable(l) == IF l \in cmd.layers
                THEN UNION {[1..n -> Reportable(l)] : n \in 0..MaxSighted}
                ELSE {<<>>}

Reports(l, places) == IF places # {} THEN Sightable(l) ELSE {<<>>}

Probe(l, places) == IF l \in cmd.layers THEN probed \cup places ELSE probed

\* derive_web_targets
WebServices(s) == {WebUrl[s[i].fp] : i \in DOMAIN s} \cap cmd.scope

NetworkScan ==
    /\ stage = "network"
    /\ \E s \in Reports("network", cmd.hosts) :
          /\ raw' = s
          /\ discovered' = WebServices(s)
    /\ probed' = Probe("network", cmd.hosts)
    /\ stage' = "web"
    /\ UNCHANGED <<cmd, today, kept, verdict, disk, outcome>>

\* _collect_web_targets
WebTargets == cmd.urls \cup (discovered \cap cmd.scope)

ScanUrls(l, next) ==
    /\ stage = l
    /\ \E s \in Reports(l, WebTargets) : raw' = raw \o s
    /\ probed' = Probe(l, WebTargets)
    /\ stage' = next
    /\ UNCHANGED <<cmd, discovered, today, kept, verdict, disk, outcome>>

WebScan == ScanUrls("web", "nuclei")
NucleiScan == ScanUrls("nuclei", "sbom")

ReadFiles(l, next) ==
    /\ stage = l
    /\ \E s \in Sightable(l) : raw' = raw \o s
    /\ stage' = next
    /\ UNCHANGED <<cmd, probed, discovered, today, kept, verdict, disk, outcome>>

SbomScan == ReadFiles("sbom", "imports")
ImportsScan == ReadFiles("imports", "enrich")

-----------------------------------------------------------------------------
(***************************************************************************)
(* Processing and the verdict.  A policy, when there is one, decides in     *)
(* the place of the threshold.                                              *)
(***************************************************************************)
Enrich ==
    /\ stage = "enrich"
    /\ \E intel \in Answers :
          raw' = [i \in DOMAIN raw |-> Enriched(raw[i], intel)]
    /\ stage' = "judge"
    /\ UNCHANGED <<cmd, probed, discovered, today, kept, verdict, disk, outcome>>

Fails(new) ==
    IF cmd.hasPolicy
    THEN Violations(new, cmd.policy) # {}
    ELSE GateTriggering(new, cmd.threshold, cmd.minRisk) # {}

Judge ==
    /\ stage = "judge"
    /\ \E d \in Day :
          LET S == Kept(Deduplicated(raw), cmd.allowlist, d)
          IN  /\ today' = d
              /\ kept' = S
              /\ verdict' = IF Fails(New(S, cmd.baseline)) THEN "fail" ELSE "pass"
    /\ stage' = "write"
    /\ UNCHANGED <<cmd, probed, discovered, raw, disk, outcome>>

-----------------------------------------------------------------------------
(***************************************************************************)
(* The reports are written one by one; each is truncated, then written.     *)
(***************************************************************************)
Pending == {i \in DOMAIN Artifacts : /\ Artifacts[i] \in cmd.requested
                                     /\ disk[Artifacts[i]] # "new"}

Write ==
    /\ stage = "write"
    /\ Pending # {}
    /\ disk' = [disk EXCEPT ![Artifacts[Min(Pending)]] = "new"]
    /\ UNCHANGED <<cmd, stage, probed, discovered, raw, today, kept, verdict,
                   outcome>>

\* Mutant: a report that cannot be written is logged and the run goes on.
WriteFailsQuietly ==
    /\ stage = "write"
    /\ Pending # {}
    /\ \E left \in {"old", "torn"} :
          disk' = [disk EXCEPT ![Artifacts[Min(Pending)]] = left]
    /\ Over(IF verdict = "fail" /\ cmd.gating THEN "failed" ELSE "passed")
    /\ UNCHANGED <<cmd, probed, discovered, raw, today, kept, verdict>>

WriteFails ==
    /\ stage = "write"
    /\ Pending # {}
    /\ \E left \in {"old", "torn"} :
          disk' = [disk EXCEPT ![Artifacts[Min(Pending)]] = left]
    /\ Over("raised")
    /\ UNCHANGED <<cmd, probed, discovered, raw, today, kept, verdict>>

Exit ==
    /\ stage = "write"
    /\ Pending = {}
    /\ Over(IF verdict = "fail" /\ cmd.gating THEN "failed" ELSE "passed")
    /\ UNCHANGED <<cmd, probed, discovered, raw, today, kept, verdict, disk>>

(***************************************************************************)
(* An exception nobody catches, or a signal.  A layer may have sent some of *)
(* its requests by then.                                                    *)
(***************************************************************************)
MayProbe == CASE stage = "network"          -> cmd.hosts
              [] stage \in {"web", "nuclei"} -> WebTargets
              [] OTHER                       -> {}

Abort ==
    /\ \/ stage \notin {"preflight", "over"}
       \/ /\ stage = "preflight"
          /\ "config" \notin cmd.broken
          /\ Permitted
          /\ "allowlist syntax" \in cmd.broken
    /\ \E P \in SUBSET MayProbe : probed' = Probe(stage, P)
    /\ Over("raised")
    /\ UNCHANGED <<cmd, discovered, raw, today, kept, verdict, disk>>

\* The process is gone.
Done == stage = "over" /\ UNCHANGED vars

Next ==
    \/ Refuse \/ Start
    \/ NetworkScan \/ WebScan \/ NucleiScan \/ SbomScan \/ ImportsScan
    \/ Enrich \/ Judge
    \/ Write \/ WriteFails \/ Exit
    \/ Abort
    \/ Done

Spec == Init /\ [][Next]_vars

-----------------------------------------------------------------------------
(***************************************************************************)
(* Properties                                                               *)
(***************************************************************************)
\* Nothing is probed without the acknowledged authorization and outside the
\* allowlist, whatever nmap discovers; a run that refused has touched nothing.
ProbesPermitted ==
    /\ probed # {} => cmd.authorized /\ probed \subseteq cmd.scope
    /\ outcome = "refused" => probed = {} /\ \A a \in Artifact : disk[a] = "old"

\* Whoever reads the exit code of a verdict finds every requested report on
\* disk, complete and of this run; and no report is of this run when the ones
\* written before it, the findings JSON first, are not.
VerdictOnDisk ==
    /\ outcome \in {"passed", "failed"} =>
          \A a \in cmd.requested : disk[a] = "new"
    /\ \A i, j \in DOMAIN Artifacts :
          (i < j /\ disk[Artifacts[j]] = "new" /\ Artifacts[i] \in cmd.requested)
             => disk[Artifacts[i]] = "new"

\* A finding the operator has accepted, or whose every known confidence is
\* below the floor.
Excused(fp) ==
    \/ fp \in cmd.baseline
    \/ Accepted(fp, cmd.allowlist, today)
    \/ LET known == {raw[i].conf : i \in Sightings(raw, fp)} \ {None}
       IN  known # {} /\ \A c \in known : c < cmd.allowlist.floor

\* The threshold gate fails a run exactly when a layer sighted something at or
\* above the threshold that is not excused: no merge, filter or enrichment in
\* between hides a severe sighting or invents one.
VerdictIsJust ==
    (verdict # "none" /\ ~cmd.hasPolicy /\ cmd.minRisk = None) =>
        ((verdict = "fail") <=> \E i \in DOMAIN raw : /\ raw[i].sev >= cmd.threshold
                                                      /\ ~Excused(raw[i].fp))

\* The threshold gate of `scan` and the policy that `gate` builds from the same
\* options agree on every report: on the verdict, and on the findings to blame.
PolicyAgrees ==
    LET new    == New(kept, cmd.baseline)
        policy == PolicyFromThreshold(cmd.threshold, cmd.minRisk)
        gate   == GateTriggering(new, cmd.threshold, cmd.minRisk)
    IN  /\ PolicyTriggering(new, policy) = gate
        /\ Violations(new, policy) = {} <=> gate = {}

\* README: "block_kev: true # refuse any new known-exploited (KEV) finding".
KnownExploitedBlocked ==
    (outcome = "passed" /\ cmd.gating /\ cmd.hasPolicy /\ cmd.policy.blockKev) =>
        \A i \in DOMAIN raw : raw[i].kev => Excused(raw[i].fp)

=============================================================================
