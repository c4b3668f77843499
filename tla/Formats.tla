------------------------------ MODULE Formats ------------------------------
(***************************************************************************)
(* The documents that are made of a report for other tools: OpenVEX,        *)
(* CycloneDX, SARIF, GitLab, CSV, Prometheus, the badge, the statistics,    *)
(* the webhook message, the diff and JUnit.  Layout, wording and timestamps *)
(* are left out; what is kept is which entry ends where, under which        *)
(* identifiers, and with which severity.                                    *)
(***************************************************************************)
EXTENDS Reports

(***************************************************************************)
(* OpenVEX and CycloneDX speak of vulnerabilities, each under the CVEs of   *)
(* the entry or, without any, its OSV id, and of the products they affect.  *)
(***************************************************************************)
VulnIds(f) ==
    IF f.cves # {} THEN f.cves
    ELSE IF f.meta.osv # Absent THEN {f.meta.osv} ELSE {}

Asset(f) == <<HostOf[f.fp], PortOf[f.fp]>>

Product(f) == IF f.meta.purl # Absent THEN <<f.meta.purl>> ELSE Asset(f)

Citing(s, vuln) == {i \in DOMAIN s : vuln \in VulnIds(s[i])}

Vulns(s) == UNION {VulnIds(s[i]) : i \in DOMAIN s}

KnownExploited(s, vuln) == \E i \in Citing(s, vuln) : s[i].kev

\* One statement for each vulnerability and remediation text.
Vex(s) ==
    UNION {{[vuln |-> v, action |-> s[i].fix,
             products |-> {Product(s[j]) : j \in {j \in Citing(s, v) : s[j].fix = s[i].fix}},
             kev |-> KnownExploited(s, v)] : i \in Citing(s, v)} : v \in Vulns(s)}

\* The entry of most risk describes the vulnerability.
Representative(s, vuln) ==
    CHOOSE i \in Citing(s, vuln) : \A j \in Citing(s, vuln) :
        ~ Before(<<RiskScore(s[i]), s[i].fp>>, <<RiskScore(s[j]), s[j].fp>>)

\* Mutant: the flag is read off the entry that describes the vulnerability.
KevOfRepresentative(s, vuln) == s[Representative(s, vuln)].kev

KevProperty(s, vuln) == \E i \in Citing(s, vuln) : s[i].kev

CycloneDx(s) ==
    {LET rep == s[Representative(s, v)]
     IN  [vuln |-> v, severity |-> rep.sev, score |-> rep.cvss, fix |-> rep.fix,
          cwes |-> UNION {s[i].cwes : i \in Citing(s, v)},
          affects |-> {Product(s[i]) : i \in Citing(s, v)},
          risk |-> Max({RiskScore(s[i]) : i \in Citing(s, v)}),
          kev |-> KevProperty(s, v)] : v \in Vulns(s)}

(***************************************************************************)
(* SARIF and GitLab speak of rules: what a scanner checks for.              *)
(***************************************************************************)
RuleOf(f) == <<SourceOf[f.fp], PluginOf[f.fp]>>

\* The score, or the floor of the severity band, in tenths.
SecuritySeverity(f) ==
    IF f.cvss # None THEN f.cvss ELSE <<0, 1, 40, 70, 90>>[f.sev + 1]

\* Rules in the order they are first seen, each with its worst severity.
SarifRules(s) ==
    LET firsts == {i \in DOMAIN s : \A j \in 1..(i - 1) : RuleOf(s[j]) # RuleOf(s[i])}
        Entry(i) == [id |-> RuleOf(s[i]),
                    severity |-> Max({SecuritySeverity(s[j]) :
                        j \in {j \in DOMAIN s : RuleOf(s[j]) = RuleOf(s[i])}})]
        order   == InOrder(firsts)
    IN  [n \in DOMAIN order |-> Entry(order[n])]

RuleIndex(s, f) ==
    LET rules == SarifRules(s) IN CHOOSE n \in DOMAIN rules : rules[n].id = RuleOf(f)

SarifLevel(sev) == <<"none", "note", "warning", "error", "error">>[sev + 1]

Sarif(s) ==
    [rules |-> SarifRules(s),
     results |-> [i \in DOMAIN s |->
        [rule |-> RuleIndex(s, s[i]), level |-> SarifLevel(s[i].sev), fp |-> s[i].fp,
         kev |-> s[i].kev, risk |-> RiskScore(s[i]), owner |-> s[i].meta.owner]]]

GitLab(s) ==
    [i \in DOMAIN s |->
        [id |-> s[i].fp, severity |-> s[i].sev,
         identifiers |-> [cves |-> s[i].cves, cwes |-> s[i].cwes, rule |-> RuleOf(s[i])]]]

(***************************************************************************)
(* Rows and numbers.                                                        *)
(***************************************************************************)
Csv(s) ==
    [i \in DOMAIN s |->
        [fp |-> s[i].fp, severity |-> s[i].sev, risk |-> RiskScore(s[i]), kev |-> s[i].kev,
         cves |-> s[i].cves, owasp |-> Categories(s[i]), owner |-> s[i].meta.owner,
         tags |-> TagsOf(s[i])]]

CountBy(s, Key(_)) ==
    [k \in {Key(s[i]) : i \in DOMAIN s} |-> Cardinality({i \in DOMAIN s : Key(s[i]) = k})]

Prometheus(s) ==
    [bands |-> BandCounts(s), sources |-> CountBy(s, LAMBDA f : SourceOf[f.fp]),
     kev |-> KevCount(s), standards |-> Standards(s), hosts |-> Cardinality(HostsIn(s)),
     maxRisk |-> Max({0} \cup {RiskScore(s[i]) : i \in DOMAIN s}),
     owners |-> CountBy(At(s, {i \in DOMAIN s : s[i].meta.owner # Absent}), OwnerBucket)]

\* The two worst bands that are not empty; none is "clean".
Badge(s) ==
    LET bands == {v \in Severity : OfBand(s, v) # {}}
        shown == {v \in bands : Cardinality({w \in bands : w > v}) < 2}
    IN  [bands |-> [v \in shown |-> BandCounts(s)[v]], more |-> bands # shown,
         exploited |-> bands # {} /\ KevCount(s) > 0]

Stats(s) ==
    [total |-> Len(s), hosts |-> Cardinality(HostsIn(s)), kev |-> KevCount(s),
     bands |-> BandCounts(s), standards |-> Standards(s), top |-> TopRisks(s, 10),
     worstHosts |-> SubSeq(ByHost(s), 1, Min({10, Len(ByHost(s))})),
     owners |-> IF \E i \in DOMAIN s : s[i].meta.owner # Absent THEN ByOwner(s) ELSE <<>>,
     actions |-> Len(Plan(s))]

WebhookMessage(s) ==
    [total |-> Len(s), hosts |-> Cardinality(HostsIn(s)), kev |-> KevCount(s),
     bands |-> BandCounts(s), top |-> TopRisks(s, 5)]

(***************************************************************************)
(* The diff with a baseline, and the JUnit report of a verdict on it.       *)
(***************************************************************************)
Diff(s, baseline) ==
    [new        |-> At(s, {i \in DOMAIN s : s[i].fp \notin baseline}),
     persisting |-> At(s, {i \in DOMAIN s : s[i].fp \in baseline}),
     resolved   |-> Resolved(ToSet(s), baseline)]

\* Mutant: every new finding is a failure.
FailingAllNew(diff, triggering) == ToSet(diff.new)

Failing(diff, triggering) ==
    {f \in ToSet(diff.new) : f.fp \in {g.fp : g \in triggering}}

JUnit(diff, triggering) ==
    [tests    |-> Len(diff.new) + Len(diff.persisting),
     failures |-> Cardinality(triggering),
     cases    |-> [i \in DOMAIN diff.new |->
                      [fp |-> diff.new[i].fp,
                       failed |-> diff.new[i] \in Failing(diff, triggering)]]
                  \o [i \in DOMAIN diff.persisting |->
                         [fp |-> diff.persisting[i].fp, failed |-> FALSE]]]

(***************************************************************************)
(* explain: the one entry that a fingerprint, a position or a piece of a    *)
(* title selects.  A prefix is given as the fingerprints that begin with    *)
(* it, a piece of title as those whose title contains it.                   *)
(***************************************************************************)
Only(S) == IF Cardinality(S) = 1 THEN S ELSE {}

Selected(s, by, arg) ==
    CASE by = "fingerprint" -> {i \in DOMAIN s : s[i].fp = arg /\ \A j \in 1..(i - 1) : s[j].fp # arg}
      [] by \in {"prefix", "title"} -> Only({i \in DOMAIN s : s[i].fp \in arg})
      [] by = "index" -> DOMAIN s \cap {arg}

=============================================================================
