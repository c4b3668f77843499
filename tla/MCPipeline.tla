----------------------------- MODULE MCPipeline -----------------------------
(* A small network for Pipeline: host h1 is in scope, h2 is not; nmap finds  *)
(* the web service u1 on h1 and u2 on h2; the declared application is app.   *)
(* Fingerprint 3 is a ZAP alert that is raised on two pages of the           *)
(* application, with different risk and CVEs.                                *)
EXTENDS Pipeline

CONSTANTS h1, h2, u1, u2, app, page, c1

MCPlace == {h1, h2, u1, u2, app, page}
MCUrl == {u1, u2, app, page}
MCHostOf == <<h1, h1, app, app, h2>>
MCPluginOf == <<"ports", "vulners", "xss", "trivy", "cve">>
MCCriticalityOf == [fp \in 1..5 |-> 2]
MCWebUrl == [fp \in 1..5 |-> CASE fp = 1 -> u1 [] fp = 5 -> u2 [] OTHER -> NoUrl]
MCArtifacts == <<"json", "sarif", "junit">>

F(fp, at, sev, conf, cves) ==
    [fp |-> fp, at |-> at, sev |-> sev, conf |-> conf, cves |-> cves,
     cvss |-> None, epss |-> None, kev |-> FALSE]

MCSighted ==
    [network |-> {F(1, h1, 0, None, {}), F(2, h1, 3, 1, {c1}), F(5, h2, 2, 2, {})},
     web     |-> {F(3, app, 1, None, {}), F(3, page, 3, 1, {c1}), F(3, u2, 4, 4, {})},
     nuclei  |-> {F(5, h2, 2, 2, {})},
     sbom    |-> {},
     imports |-> {[F(4, app, 4, None, {}) EXCEPT !.cvss = 95]}]

NoIntel == [nvd |-> [c \in {c1} |-> None], epss |-> [c \in {c1} |-> None], kev |-> {}]
MCAnswers == {NoIntel, [NoIntel EXCEPT !.nvd[c1] = 98, !.kev = {c1}]}

Scan ==
    [authorized |-> TRUE, scope |-> {h1, u1, app, page}, hosts |-> {h1}, urls |-> {app},
     layers |-> Layer, broken |-> {}, baseline |-> {},
     allowlist |-> [rules |-> {}, floor |-> None],
     threshold |-> 3, minRisk |-> None, hasPolicy |-> FALSE,
     policy |-> PolicyFromThreshold(4, None), gating |-> TRUE,
     requested |-> {"json", "junit"}]

\* Every way in which a run may be refused, or not start.
Refusals ==
    {[Scan EXCEPT !.authorized = FALSE], [Scan EXCEPT !.scope = {}],
     [Scan EXCEPT !.hosts = {h1, h2}],
     [Scan EXCEPT !.broken = {"allowlist syntax", "policy"}]}
    \cup {[Scan EXCEPT !.broken = {b}] : b \in Input}

\* Runs with a baseline, acceptances that expire, and a confidence floor.
Verdicts ==
    {Scan, [Scan EXCEPT !.minRisk = 67, !.threshold = 4, !.layers = {"web", "imports"}],
     [Scan EXCEPT !.gating = FALSE, !.requested = Artifact],
     [Scan EXCEPT !.baseline = {3}, !.layers = {"network", "web"}],
     [Scan EXCEPT !.allowlist = [rules |-> {PluginRule("xss", {app}, 1)}, floor |-> 2]],
     [Scan EXCEPT !.allowlist.rules = {FingerprintRule(2, 1), HostRule(app, Never)}]}

MCCommand == Refusals \cup Verdicts
MCKevCommand == {[Scan EXCEPT !.hasPolicy = TRUE, !.policy.blockKev = TRUE]}
MCAcceptCommand ==
    {[Scan EXCEPT !.baseline = {2}, !.allowlist.rules = {FingerprintRule(2, Never)}]}

=============================================================================
