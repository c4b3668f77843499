---------------------------- MODULE SupplyChain ----------------------------
(***************************************************************************)
(* Findings about dependencies: the analysis of a CycloneDX SBOM against    *)
(* OSV (sbom/) and the import of Trivy and Grype reports (ingest/).  The    *)
(* OSV client's requests and cache are AdvisoryLookup's; here its answers   *)
(* are given.                                                               *)
(*                                                                         *)
(* A vulnerability id is a CVE or another id, such as GHSA's.  A document   *)
(* that is cut short or of the wrong kind is Unreadable to its reader.      *)
(***************************************************************************)
EXTENDS Reports

CONSTANTS VulnId,      \* advisory ids; those in Cve are CVEs
          SbomSource,  \* the names of the scanners a finding may come from
          TrivySource,
          GrypeSource,
          Asset0       \* where a dependency is: nothing probes it

ASSUME SupplyChainAssumption ==
    /\ Cve \subseteq VulnId
    /\ VulnId \subseteq Nat
    /\ Asset0 \in Place

\* What a finding without a port has for its fingerprint.
Identifies(fp, host, source, plugin, title) ==
    /\ HostOf[fp] = host
    /\ PortOf[fp] = Absent
    /\ SourceOf[fp] = source
    /\ PluginOf[fp] = plugin
    /\ TitleOf[fp] = title

Identifiable(host, source, plugin, title) ==
    \E fp \in Fingerprint : Identifies(fp, host, source, plugin, title)

FingerprintOf(host, source, plugin, title) ==
    CHOOSE fp \in Fingerprint : Identifies(fp, host, source, plugin, title)

SeverityOfScore(tenths) ==
    IF tenths <= 0 THEN 0 ELSE IF tenths < 40 THEN 1 ELSE IF tenths < 70 THEN 2
    ELSE IF tenths < 90 THEN 3 ELSE 4

NoMeta == [key \in MetaKey |-> Absent]

\* Mutant: ids of every kind pass for CVEs.
MadeFindingWithAnyId(fp, sev, vulns, cvss, fix, cwes, meta) ==
    [fp |-> fp, at |-> Asset0, sev |-> IF sev # None THEN sev ELSE SeverityOfScore(cvss),
     conf |-> None, cves |-> vulns, cvss |-> cvss, epss |-> None, kev |-> FALSE,
     fix |-> fix, cwes |-> cwes, meta |-> meta]

\* make_finding, as the three readers call it: ids that are no CVE are dropped,
\* and a severity that is not given (None) follows from the score.
MadeFinding(fp, sev, vulns, cvss, fix, cwes, meta) ==
    [fp |-> fp, at |-> Asset0, sev |-> IF sev # None THEN sev ELSE SeverityOfScore(cvss),
     conf |-> None, cves |-> vulns \cap Cve, cvss |-> cvss, epss |-> None, kev |-> FALSE,
     fix |-> fix, cwes |-> cwes, meta |-> meta]

(***************************************************************************)
(* SBOM.  A component is queried by its purl and version; an advisory has   *)
(* an id, aliases, the scores of its CVSS vectors (None is one that cannot  *)
(* be read), and the fixed versions it declares for each package.          *)
(***************************************************************************)
ComponentKey(c) == IF c.purl # Absent THEN <<c.purl>> ELSE <<c.name, c.version>>

Components(sbom) ==
    LET all == sbom.components
        named == {i \in DOMAIN all : all[i].name # Absent}
        firsts == {i \in named : \A j \in named :
                      j < i => ComponentKey(all[j]) # ComponentKey(all[i])}
    IN  At(all, firsts)

Queryable(c) == c.purl # Absent /\ c.version # Absent

Label(c) == IF c.version = Absent THEN <<c.name>> ELSE <<c.name, c.version>>

BestOf(scores) == Max({None} \cup scores)

SbomFinding(subject, c, advisory) ==
    MadeFinding(
        FingerprintOf(subject, SbomSource, advisory.id, <<advisory.id>> \o Label(c)),
        None, advisory.aliases, BestOf(advisory.scores),
        advisory.fixes[c.purl], {},
        [NoMeta EXCEPT !.package = c.name, !.osv = advisory.id, !.purl = c.purl])

\* An SBOM and the answers of OSV as their parsers return them.
Analyzable(sbom, osv) ==
    /\ sbom.components \in Seq(Range(sbom.components))
    /\ \A c \in Range(Components(sbom)) : Queryable(c) =>
          /\ c.name \in Nat
          /\ IsFiniteSet(osv[c.purl])
          /\ \A a, b \in osv[c.purl] : a.id = b.id => a = b
          /\ \A a \in osv[c.purl] :
                /\ a.id \in VulnId
                /\ a.scores \subseteq Score \cup {None}
                /\ a.fixes[c.purl] \in Nat
                /\ Identifiable(sbom.subject, SbomSource, a.id, <<a.id>> \o Label(c))

\* Components in the order of the SBOM, advisories in that of their ids.
SbomFindings(sbom, osv) ==
    LET Of(c) == LET advisories == SortedBy(osv[c.purl], [a \in osv[c.purl] |-> <<a.id>>])
                 IN  [n \in DOMAIN advisories |-> SbomFinding(sbom.subject, c, advisories[n])]
        queried == LET all == Components(sbom)
                   IN  At(all, {i \in DOMAIN all : Queryable(all[i])})
    IN  FlattenSeq([n \in DOMAIN queried |-> Of(queried[n])])

\* Only EPSS and KEV are asked; then duplicates are merged and ranked.
SbomReport(sbom, osv, intel, enrich) ==
    LET findings == SbomFindings(sbom, osv)
        unscored == [intel EXCEPT !.nvd = [c \in Cve |-> None]]
    IN  Combined(IF enrich THEN [i \in DOMAIN findings |-> Enriched(findings[i], unscored)]
                 ELSE findings)

(***************************************************************************)
(* Imports.  Trivy lists results with vulnerabilities, Grype matches; both  *)
(* come to a sequence of records with an id, a severity label (as its rank, *)
(* None for a label that is not known), scores, a package and a fix.        *)
(***************************************************************************)
Importable(doc) ==
    /\ doc.vulns \in Seq(Range(doc.vulns))
    /\ \A v \in Range(doc.vulns) : v.id # Absent =>
          /\ v.id \in VulnId
          /\ v.label \in Severity \cup {None}
          /\ v.scores \subseteq Score \cup {None}
          /\ v.package \in Nat \cup {Absent}
          /\ v.fix \in Nat
          /\ v.cwes \subseteq Cwe
          /\ Identifiable(doc.host, doc.source, v.id, <<v.id>>)

SeverityFromLabel(label) == IF label = None THEN Informational ELSE label

ImportedFinding(doc, v) ==
    MadeFinding(
        FingerprintOf(doc.host, doc.source, v.id, <<v.id>>),
        SeverityFromLabel(v.label), {v.id}, BestOf(v.scores),
        IF v.package # Absent THEN v.fix ELSE 0,
        IF doc.source = TrivySource THEN v.cwes ELSE {},
        [NoMeta EXCEPT !.package = v.package, !.purl = v.purl])

Identified(doc) == At(doc.vulns, {i \in DOMAIN doc.vulns : doc.vulns[i].id # Absent})

NameOrNone(name) == IF name = Absent THEN -1 ELSE name

\* By package, then by id; entries that agree in both stay in their order.
Imported(doc) ==
    LET vulns == Identified(doc)
        order == SortedBy(DOMAIN vulns,
            [i \in DOMAIN vulns |-> <<NameOrNone(vulns[i].package), vulns[i].id, i>>])
    IN  [n \in DOMAIN order |-> ImportedFinding(doc, vulns[order[n]])]

\* The command ranks without the criticality of hosts.
ImportReport(doc) == Combined(Imported(doc))

=============================================================================
