----------------------------- MODULE ScanLayers -----------------------------
(***************************************************************************)
(* The inside of the network, web and nuclei layers of one scan, from the   *)
(* configuration file to the findings: `vulnpipe validate` looks at the     *)
(* file, then `vulnpipe scan` loads it, checks it (core/config.py) and runs *)
(* the scanners over what it selects from it.                               *)
(*                                                                         *)
(* nmap and nuclei are external processes: they may be missing, fail or be  *)
(* cut off by their timeout, with whatever they have written until then.    *)
(* The tasks of the web layer are those of ZapContexts.  Pipeline models    *)
(* what becomes of the findings.                                            *)
(***************************************************************************)
EXTENDS ScannerOutput, ZapContexts

CONSTANTS File,        \* the configuration files
          Environment, \* the values of the environment variables
          World,       \* the hosts that nmap can see, in order of address
          Resolves,    \* the address of each hostname
          Alerts,      \* the alerts that ZAP raises, each for a target
          Results      \* the lines that nuclei writes, each for a target

\* The fields of a file and its targets; Url and Auth are all there can be.
Declares(c) ==
    /\ {"scope", "targets"} \subseteq DOMAIN c
    /\ DOMAIN c.targets \subseteq Nat
    /\ \A t \in Range(c.targets) :
          /\ DOMAIN t = {"host", "urls", "auth"}
          /\ Range(t.urls) \subseteq Url
          /\ t.auth \in Auth \cup {Absent}

ASSUME ScanLayersAssumption ==
    /\ Env = DOMAIN Environment
    /\ \A f \in File : f.doc = "mapping" => Declares(f.config)

\* nmap reports a host once and by its address, and what it says is a web server
\* is at one of the URLs.
ASSUME WorldAssumption ==
    /\ World \in Seq(Range(World))
    /\ \A i, j \in DOMAIN World : World[i].host = World[j].host => i = j
    /\ \A h \in Range(World) :
          /\ h.host.kind = "net"
          /\ \A s \in h.services : s.open /\ IsWebFinding(s) =>
                Web(SchemeFor(s), h.host, s.port, <<>>) \in Url
          /\ \A script \in h.scripts \cup UNION {s.scripts : s \in h.services} :
                script.rows \in Seq(Range(script.rows))

ASSUME ResultsAssumption ==
    /\ Results \in Seq(Range(Results))
    /\ \A r \in Range(Results) : r.severity \in DOMAIN NucleiSeverity

VARIABLES file, acknowledged, \* the command line
          config,   \* the configuration, once it is loaded
          plan,     \* what validate said about it
          stage,    \* where the scan is
          handed,   \* history: the hosts and URLs given to each scanner
          xml,      \* what nmap wrote
          network, web, template, \* the findings of the layers
          outcome   \* how the scan ended

scanVars == <<file, acknowledged, config, plan, stage, handed, xml, network,
              web, template, outcome>>
vars == <<scanVars, zapVars>>

NmapXml == [hosts : SUBSET Range(World),
            cut : {"nowhere", "between hosts", "inside a host"}]

\* The type invariant.
TypeOK ==
    /\ file \in File
    /\ acknowledged \in BOOLEAN
    /\ config = Absent \/ ValidConfig(config)
    /\ plan = Absent <=> config = Absent
    /\ stage \in {"load", "preflight", "network", "web", "zap", "nuclei", "over"}
    /\ DOMAIN handed = {"nmap", "zap", "nuclei"}
    /\ handed["zap"] \cup handed["nuclei"] \subseteq Url
    /\ xml = Absent \/ xml \in NmapXml
    /\ \A f \in network \cup web \cup template :
          /\ f.sev \in 0..4 /\ f.conf \in -1..4 /\ f.cvss \in -1..100
    /\ outcome \in {"none", "refused", "raised", "done"}
    /\ ZapTypeOK

Init ==
    /\ file \in File /\ acknowledged \in BOOLEAN
    /\ config = Absent /\ plan = Absent
    /\ stage = "load"
    /\ handed = [s \in {"nmap", "zap", "nuclei"} |-> {}]
    /\ xml = Absent
    /\ network = {} /\ web = {} /\ template = {}
    /\ outcome = "none"
    /\ ZapInit

-----------------------------------------------------------------------------
Over(how) == stage' = "over" /\ outcome' = how

Load ==
    /\ stage = "load"
    /\ config' = Loaded(file, Environment)
    /\ IF config' = Absent
       THEN Over("refused") /\ UNCHANGED plan
       ELSE stage' = "preflight" /\ plan' = ScanPlan(config') /\ UNCHANGED outcome
    /\ UNCHANGED <<file, acknowledged, handed, xml, network, web, template,
                   zapVars>>

Preflight ==
    /\ stage = "preflight"
    /\ IF Authorized(acknowledged, config.scope) /\ ConfigInScope(config)
       THEN stage' = "network" /\ UNCHANGED outcome
       ELSE Over("refused")
    /\ UNCHANGED <<file, acknowledged, config, plan, handed, xml, network, web,
                   template, zapVars>>

-----------------------------------------------------------------------------
\* The addresses that nmap scans for a target.
Covers(target, h) ==
    IF target.kind = "net" THEN h.host.addrs \subseteq target.addrs
    ELSE h.host = Resolves[target.labels]

\* The hosts in its output when it is past the first n of them.
Visible(targets, n) ==
    {World[i] : i \in {i \in 1..n : \E t \in targets : Covers(t, World[i])}}

\* All of it, or what a timeout leaves of it.
Written(targets) ==
    {[hosts |-> Visible(targets, Len(World)), cut |-> "nowhere"]}
    \cup [hosts : {Visible(targets, n) : n \in 0..Len(World)},
          cut : {"between hosts", "inside a host"}]

NmapScan ==
    /\ stage = "network"
    /\ LET selected == SelectedHosts(config) IN
       IF ~config.nmap \/ selected.hosts = {}
       THEN stage' = "web" /\ UNCHANGED <<handed, xml, network, outcome>>
       ELSE IF selected.raised
       THEN Over("raised") /\ UNCHANGED <<handed, xml, network>>
       ELSE /\ handed' = [handed EXCEPT !["nmap"] = selected.hosts]
            /\ xml' \in Written(selected.hosts) \cup {Absent}
            /\ network' = NmapFindings(xml', config.scope.hosts)
            /\ stage' = "web"
            /\ UNCHANGED outcome
    /\ UNCHANGED <<file, acknowledged, config, plan, web, template, zapVars>>

-----------------------------------------------------------------------------
WebTargets == CollectedWebTargets(config, DiscoveredUrls(network, config.scope))

\* select_web_targets_with_auth runs before a target is handed to ZAP.
StartWeb ==
    /\ stage = "web"
    /\ IF ~config.zap \/ DOMAIN WebTargets = {}
       THEN stage' = "nuclei" /\ UNCHANGED <<handed, outcome, zapVars>>
       ELSE IF SelectedUrls(config).raised
       THEN Over("raised") /\ UNCHANGED <<handed, zapVars>>
       ELSE /\ Collect(WebTargets)
            /\ handed' = [handed EXCEPT !["zap"] = DOMAIN WebTargets]
            /\ stage' = "zap"
            /\ UNCHANGED outcome
    /\ UNCHANGED <<file, acknowledged, config, plan, xml, network, web, template>>

RunTask ==
    /\ stage = "zap"
    /\ \E t \in DOMAIN auth : TaskStep(t)
    /\ UNCHANGED scanVars

\* The targets whose alerts were got: a scan that raised on the way, which any
\* of its calls may, leaves none.
Answered == SUBSET DOMAIN auth

\* Mutant: a web layer without findings is started over, on the same daemon.
EndWebRetried ==
    /\ stage = "zap"
    /\ \A t \in DOMAIN auth : pc[t] = "done"
    /\ \E ts \in Answered :
          web' = ZapFindings({a \in Alerts : a.base \in ts}, config.scope)
    /\ stage' = IF web' = {} THEN "web" ELSE "nuclei"
    /\ UNCHANGED <<file, acknowledged, config, plan, handed, xml, network,
                   template, outcome, zapVars>>

EndWeb ==
    /\ stage = "zap"
    /\ \A t \in DOMAIN auth : pc[t] = "done"
    /\ \E ts \in Answered :
          web' = ZapFindings({a \in Alerts : a.base \in ts}, config.scope)
    /\ stage' = "nuclei"
    /\ UNCHANGED <<file, acknowledged, config, plan, handed, xml, network,
                   template, outcome, zapVars>>

TornLine == [base |-> None, json |-> FALSE]

\* The lines nuclei has written for the targets, the last one torn perhaps.
Lines(targets) ==
    {{Results[i] : i \in {i \in 1..n : Results[i].base \in targets}} \cup torn :
        n \in 0..Len(Results), torn \in {{}, {TornLine}}}

NucleiScan ==
    /\ stage = "nuclei"
    /\ IF ~config.nuclei \/ DOMAIN WebTargets = {}
       THEN Over("done") /\ UNCHANGED <<handed, template>>
       ELSE IF SelectedUrls(config).raised
       THEN Over("raised") /\ UNCHANGED <<handed, template>>
       ELSE /\ handed' = [handed EXCEPT !["nuclei"] = DOMAIN WebTargets]
            /\ \E lines \in Lines(DOMAIN WebTargets) :
                  template' = NucleiFindings(lines, config.scope)
            /\ Over("done")
    /\ UNCHANGED <<file, acknowledged, config, plan, xml, network, web,
                   zapVars>>

Next == \/ Load \/ Preflight \/ NmapScan \/ StartWeb \/ RunTask \/ EndWeb
        \/ NucleiScan

Spec == Init /\ [][Next]_vars

-----------------------------------------------------------------------------
\* The tasks and the daemon behave as ZapContexts says, whatever the layers
\* before and after them do.
ImplementsZapContexts == ZapSpec

\* validate and scan agree, though each checks the scope by its own code: what
\* validate finds fault with is never scanned; what it finds good is scanned
\* once it is acknowledged, and the scanners get the targets it lists, besides
\* those the network layer discovers.
ValidatedMeansScanned ==
    /\ UNION Range(handed) # {} => plan.valid /\ acknowledged
    /\ outcome \in {"refused", "raised"} /\ plan # Absent =>
          ~plan.valid \/ ~acknowledged
    /\ outcome = "done" =>
          /\ config.nmap => handed["nmap"] = plan.network
          /\ config.zap => plan.web \subseteq handed["zap"]
          /\ config.nuclei => plan.web \subseteq handed["nuclei"]
          /\ \A u \in handed["zap"] \cup handed["nuclei"] :
                u \in plan.web \/ HostOfUrl(u) \in {f.host : f \in network}

\* With the variables set that validate asks for, every request to a declared
\* URL is authenticated the way its first target says, unless a call to the
\* daemon failed; a URL that nmap finds again does not lose its auth.
DeclaredMeansAuthenticated ==
    plan # Absent /\ plan.secrets \subseteq Env =>
        \A r \in sent :
            LET a == FirstListing(config, r.target).auth
            IN  r.target \in plan.web /\ a # Absent /\ ~failed[r.target] =>
                  /\ Credentialed(a) => r.user = HostOfUrl(r.target)
                  /\ a.kind = "header" => r.target \in r.headers

\* What is reported lies in the scope, wherever a scanner was led to: the URL
\* of a finding, or its host if it has none.  Only the host of a nuclei result
\* that names no URL is not checked.
EverythingReportedInScope ==
    \A f \in network \cup web \cup template :
        IF f.url # Absent THEN UrlInScope(f.url, config.scope)
        ELSE f.source = "nuclei" \/ HostInScope(f.host, config.scope.hosts)

Reported(h) == \E f \in network : f.host = h.host
Open(h) == h.up /\ \E s \in h.services : s.open
Finished == xml # Absent /\ xml.cut = "nowhere"

\* When nmap runs to its end, every host that is up and has an open port is
\* reported, if an address or a range of the configuration covers it.
DeclaredAddressReported ==
    Finished => \A h \in Range(World) : \A t \in handed["nmap"] :
        t.kind = "net" /\ Covers(t, h) /\ Open(h) => Reported(h)

\* The same of every declared target, a hostname too: "nmap scans the host and
\* reports the open HTTP service" (docs/case-study.md).
DeclaredHostReported ==
    Finished => \A h \in Range(World) : \A t \in handed["nmap"] :
        Covers(t, h) /\ Open(h) => Reported(h)

\* A score that a script states for a CVE reaches the finding, and with it the
\* severity, wherever in its output the script states it.
ScoreNotLost ==
    \A h \in ParsedHosts(xml) : \A s \in h.services : \A script \in s.scripts :
        \A row \in Range(script.rows) :
            Reported(h) /\ s.open /\ row.cvss \in 0..100 =>
                \E f \in network :
                    /\ f.host = h.host /\ f.port = s.port
                    /\ f.title = <<script.id, row.cve>>
                    /\ f.cvss # Unknown /\ f.sev = SeverityFromCvss(f.cvss)

=============================================================================
