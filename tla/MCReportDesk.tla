---------------------------- MODULE MCReportDesk ----------------------------
(* Two hosts and a deployed artifact.  Fingerprint 1 is a ZAP alert, 2 and 5 *)
(* are CVE 1 on a service, 3 is the same CVE as Trivy reports it for a       *)
(* package, and 4 is the OSV advisory 2 for a component of an SBOM, which     *)
(* Grype reports as 6.                                                       *)
EXTENDS ReportDesk

CONSTANTS site, artifact, lib

Nmap == 1
Zap  == 2
MCTrivySource == 3
MCSbomSource  == 4
MCGrypeSource == 5

MCPlace == {site, artifact}
MCHostOf   == <<1, 1, 3, 3, 2, 3>>
MCSourceOf == <<Zap, Nmap, MCTrivySource, MCSbomSource, Nmap, MCGrypeSource>>
MCPluginOf == <<40, 10, 1, 2, 10, 2>>
MCTitleOf  == <<<<7>>, <<1>>, <<1>>, <<2, 1, 1>>, <<1>>, <<2>>>>
MCPortOf   == <<443, 80, Absent, Absent, 80, Absent>>
MCCriticalityOf == <<2, 2, 2, 2, 3, 2>>
MCCategoryOf == [c \in Cwe |-> 3]
MCOwnerFor == <<6, Absent, Absent>>
MCTagsFor  == <<{"web"}, {}, {}>>

E(fp, sev, cves, cvss, kev, fix, cwes, product) ==
    [fp |-> fp, at |-> site, sev |-> sev, conf |-> None, cves |-> cves, cvss |-> cvss,
     epss |-> None, kev |-> kev, fix |-> fix, cwes |-> cwes,
     meta |-> [NoMeta EXCEPT !.product = product]]

Xss     == E(1, 3, {}, None, FALSE, 9, {79}, Absent)
Service == E(2, 2, {1}, 50, TRUE, 0, {}, 8)
Other   == E(5, 2, {1}, 50, TRUE, 0, {}, 8)
\* Scans that reached one host or both, and one that found nothing.
MCScanResult == {{Xss, Service}, {[Service EXCEPT !.fix = 3], Other},
                 {[Xss EXCEPT !.sev = 4], Other}, {}}

Trivy ==
    [source |-> MCTrivySource, from |-> MCTrivySource, host |-> 3,
     vulns |-> <<[id |-> 1, label |-> 4, scores |-> {98, None}, package |-> 1, fix |-> 5,
                  cwes |-> {79}, purl |-> lib],
                 [id |-> 1, label |-> None, scores |-> {}, package |-> Absent, fix |-> 5,
                  cwes |-> {}, purl |-> Absent],
                 [id |-> Absent, label |-> 3, scores |-> {}, package |-> 1, fix |-> 0,
                  cwes |-> {}, purl |-> lib]>>]

Grype ==
    [source |-> MCGrypeSource, from |-> MCGrypeSource, host |-> 3,
     vulns |-> <<[id |-> 2, label |-> None, scores |-> {}, package |-> 1, fix |-> 0,
                  cwes |-> {79}, purl |-> lib]>>]

Component(name, version, purl) == [name |-> name, version |-> version, purl |-> purl]
Sbom(aliases, enrich) ==
    [sbom |-> [subject |-> 3,
               components |-> <<Component(1, 1, lib), Component(1, 2, lib),
                                Component(2, Absent, Absent)>>],
     osv |-> [p \in {lib} |-> {[id |-> 2, aliases |-> aliases, scores |-> {None, 40},
                                fixes |-> [q \in {lib} |-> 4]]}],
     intel |-> [nvd |-> [c \in Cve |-> None], epss |-> [c \in Cve |-> 10], kev |-> {1}],
     enrich |-> enrich]

Cmd(name, ins, out, arg) ==
    [name |-> name, ins |-> ins, out |-> out, known |-> TRUE, arg |-> arg]

CONSTANTS All, NoArg

MCPath == {Latest, All}
MCCommand ==
    {Cmd("sbom", <<>>, All, Sbom({}, FALSE)), Cmd("sbom", <<>>, All, Sbom({1}, TRUE)),
     Cmd("sbom", <<>>, All, Unreadable),
     Cmd("convert", <<>>, All, Trivy),
     Cmd("convert", <<>>, All, [Trivy EXCEPT !.from = MCGrypeSource]),
     Cmd("convert", <<>>, All, Grype),
     Cmd("merge", <<All, Latest>>, All, NoArg),
     Cmd("merge", <<Latest, All, Latest>>, All, NoArg),
     Cmd("filter", <<All>>, All, [NoQuery EXCEPT !.minSev = 3]),
     Cmd("filter", <<Latest>>, All, [NoQuery EXCEPT !.owners = {6}, !.unassigned = TRUE,
                                                    !.hosts = {{1}, {2}}]),
     [Cmd("report", <<Latest>>, Absent, NoArg) EXCEPT !.known = FALSE],
     Cmd("report", <<All>>, Absent, NoArg),
     Cmd("explain", <<All>>, Absent, [by |-> "title", of |-> {1, 2}]),
     Cmd("remediate", <<All>>, Absent, 1), Cmd("remediate", <<All>>, Absent, 0),
     Cmd("notify", <<Latest>>, Absent, NoArg),
     Cmd("gate", <<Latest, All>>, Absent, PolicyFromThreshold(3, None)),
     Cmd("gate", <<All>>, Absent, [PolicyFromThreshold(4, 60) EXCEPT !.maxTotal = 2]),
     Cmd("trend", <<All, Latest, All>>, Absent, NoArg), Cmd("trend", <<>>, Absent, NoArg),
     Cmd("serve", <<Latest>>, Absent, NoArg)}
=============================================================================
