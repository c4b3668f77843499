--------------------------- MODULE ScannerOutput ---------------------------
(***************************************************************************)
(* From the output of a scanner to findings: what nmap_scanner.py makes of  *)
(* nmap's XML, nuclei_scanner.py of nuclei's JSON lines and zap_scanner.py  *)
(* of the alerts of ZAP, all through make_finding (processing/normalizer).  *)
(* No state.                                                               *)
(*                                                                         *)
(* Severities and confidences are ranks, CVSS scores are in tenths, Unknown *)
(* is below all of them.  The words of a finding are left out, except that  *)
(* it has a title.                                                          *)
(***************************************************************************)
EXTENDS Scope

Unknown == -1

SeverityFromCvss(tenths) ==
    CASE tenths = 0 -> 0 [] tenths \in 1..39 -> 1 [] tenths \in 40..69 -> 2
      [] tenths \in 70..89 -> 3 [] tenths \in 90..100 -> 4

\* parse_cvss: out of range is unknown, not clamped.
ParsedCvss(tenths) == IF tenths \in 0..100 THEN tenths ELSE Unknown

\* make_finding: a severity that is not given follows from the score.
MakeFinding(f) ==
    LET cvss == ParsedCvss(f.cvss)
    IN  [f EXCEPT !.cvss = cvss,
                  !.sev = IF @ # Unknown THEN @
                          ELSE IF cvss = Unknown THEN 0 ELSE SeverityFromCvss(cvss)]

-----------------------------------------------------------------------------
(* Nmap.  A script result is the sequence of the sightings of CVEs in its   *)
(* structured output, and the set of those its text mentions.  libnmap      *)
(* repairs a document that was cut off between two hosts, and gives one up  *)
(* that was cut off inside a host.                                          *)

Sightings(script, cve) == {i \in DOMAIN script.rows : script.rows[i].cve = cve}

\* Mutant: the first sighting of a CVE is kept as it is.
FirstOnly(values) ==
    IF DOMAIN values = {} THEN Unknown ELSE values[Min(DOMAIN values)]

\* _merge_hit: of a field, whose value each sighting gives, the first known one.
FirstKnown(values) ==
    LET known == {i \in DOMAIN values : values[i] # Unknown}
    IN  IF known = {} THEN Unknown ELSE values[Min(known)]

HitCvss(script, cve) ==
    FirstKnown([i \in Sightings(script, cve) |-> ParsedCvss(script.rows[i].cvss)])

HitState(script, cve) ==
    FirstKnown([i \in Sightings(script, cve) |-> script.rows[i].state])

Vulnerable == 1  \* a state that starts with VULNERABLE; another is 0

CveConfidence(script, cve) ==
    IF HitState(script, cve) = Vulnerable THEN 3
    ELSE IF HitCvss(script, cve) # Unknown THEN 2 ELSE 1

HarvestedCves(script) == {r.cve : r \in Range(script.rows)} \cup script.mentions

CveFindings(host, port, service, script) ==
    {MakeFinding([source |-> "nmap", host |-> host, port |-> port,
                  url |-> Absent, service |-> service,
                  title |-> <<script.id, cve>>, sev |-> Unknown,
                  conf |-> CveConfidence(script, cve),
                  cvss |-> HitCvss(script, cve)]) :
        cve \in HarvestedCves(script)}

ConfidenceFromConf(conf) ==
    IF conf >= 9 THEN 4 ELSE IF conf >= 7 THEN 3 ELSE IF conf >= 4 THEN 2
    ELSE IF conf >= 1 THEN 1 ELSE Unknown

\* The inventory finding of an open port, and one for each CVE of each script.
ServiceFindings(host, s) ==
    {MakeFinding([source |-> "nmap", host |-> host, port |-> s.port,
                  url |-> Absent, service |-> s.service,
                  title |-> <<"open port">>, sev |-> 0,
                  conf |-> ConfidenceFromConf(s.conf), cvss |-> Unknown])}
    \cup UNION {CveFindings(host, s.port, s.service, script) : script \in s.scripts}

HostFindings(h) ==
    (UNION {ServiceFindings(h.host, s) : s \in {s \in h.services : s.open}})
    \cup UNION {CveFindings(h.host, Unknown, "", script) : script \in h.scripts}

\* _parse_report
ParsedHosts(xml) ==
    IF xml = Absent \/ xml.cut = "inside a host" THEN {} ELSE xml.hosts

\* parse_nmap_xml checks the address that nmap reports against the allowlist,
\* whatever name it was given.
NmapFindings(xml, allowed) ==
    UNION {HostFindings(h) : h \in
              {h \in ParsedHosts(xml) : h.up /\ HostInScope(h.host, allowed)}}

\* derive_web_targets looks for hints inside the name of a service: these names
\* stand for all with "http" or "www" in them, and with "https" or "ssl".
WebServices   == {"http", "https", "ssl/http", "www"}
HttpsServices == {"https", "ssl/http", "ssl/vpn"}

WebPorts   == {80, 443, 8000, 8008, 8080, 8443, 8888}
HttpsPorts == {443, 8443}

\* A service that says it is web, or one that is not known on a port of the web.
IsWebFinding(f) ==
    /\ f.port # Unknown
    /\ f.service \in WebServices \/ (f.service = "" /\ f.port \in WebPorts)

SchemeFor(f) ==
    IF f.service \in HttpsServices \/ f.port \in HttpsPorts THEN "https" ELSE "http"

DiscoveredUrls(findings, scope) ==
    {u \in {Web(SchemeFor(f), f.host, f.port, <<>>) :
               f \in {f \in findings : IsWebFinding(f)}} : UrlInScope(u, scope)}

-----------------------------------------------------------------------------
(* Nuclei.  One result to a line; a line that is no JSON is skipped.        *)

NucleiSeverity ==
    [s \in {"info", "low", "medium", "high", "critical", "unknown", "else"} |->
        CASE s = "low" -> 1 [] s = "medium" -> 2 [] s = "high" -> 3
          [] s = "critical" -> 4 [] OTHER -> 0]

DefaultPort == [http |-> 80, https |-> 443]

PortOfUrl(u) ==
    IF u.origin[3] # Unknown THEN u.origin[3] ELSE DefaultPort[u.origin[1]]

\* _host_port: of the host that the result names, or of where it matched.
ResultHost(r) == IF r.host # Absent \/ r.matched = Absent THEN r.host
                 ELSE HostOfUrl(r.matched)
ResultPort(r) == IF r.host # Absent \/ r.matched = Absent THEN r.port
                 ELSE PortOfUrl(r.matched)

\* Mutant: where a result matched is not checked.
UsableAnywhere(r, scope) == r.json /\ r.title /\ ResultHost(r) # Absent

\* Only the URL is checked: a result that matched none is not.
Usable(r, scope) ==
    /\ r.json /\ r.title /\ ResultHost(r) # Absent
    /\ r.matched = Absent \/ UrlInScope(r.matched, scope)

NucleiFindings(lines, scope) ==
    {MakeFinding([source |-> "nuclei", host |-> ResultHost(r),
                  port |-> ResultPort(r), url |-> r.matched, service |-> "",
                  title |-> <<"template">>, sev |-> NucleiSeverity[r.severity],
                  conf |-> 2, cvss |-> r.cvss]) :
        r \in {r \in lines : Usable(r, scope)}}

-----------------------------------------------------------------------------
(* ZAP.  The label of the risk goes before its code, and neither is guessed.*)

RiskLabel == [informational |-> 0, low |-> 1, medium |-> 2, high |-> 3]

SeverityFromRisk(alert) ==
    IF alert.risk \in DOMAIN RiskLabel THEN RiskLabel[alert.risk]
    ELSE IF alert.riskcode \in 0..3 THEN alert.riskcode ELSE 0

\* Mutant: the code of a confidence is taken as it is.
ConfidenceAsGiven(alert) == alert.conf

\* 0 is ZAP's false positive, 4 confirmed; the label and the code agree.
ConfidenceFromZap(alert) == IF alert.conf \in 0..4 THEN alert.conf ELSE Unknown

ZapFindings(alerts, scope) ==
    {MakeFinding([source |-> "zap", host |-> HostOfUrl(a.url),
                  port |-> PortOfUrl(a.url), url |-> a.url, service |-> "",
                  title |-> <<"alert">>, sev |-> SeverityFromRisk(a),
                  conf |-> ConfidenceFromZap(a), cvss |-> Unknown]) :
        a \in {a \in alerts : a.title /\ a.url # Absent /\ UrlInScope(a.url, scope)}}
=============================================================================
