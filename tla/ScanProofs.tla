----------------------------- MODULE ScanProofs -----------------------------
(***************************************************************************)
(* Proofs about ScanLayers for any configuration files, environment, hosts,*)
(* alerts and nuclei results.                                               *)
(***************************************************************************)
EXTENDS ScanLayers, ZapContextsProofs, NaturalsInduction, WellFoundedInduction

-----------------------------------------------------------------------------
(* Least elements and what is found with them                              *)

\* Min returns the least element of a set of naturals.
LEMMA LeastNatural ==
  ASSUME NEW S \in SUBSET Nat, S # {}
  PROVE  Min(S) \in S /\ \A y \in S : Min(S) <= y
<1> DEFINE R == {ss \in Nat \X Nat : ss[1] < ss[2]}
<1>1. IsWellFoundedOn(R, Nat)
  BY NatLessThanWellFounded DEF OpToRel
<1>2. PICK x \in S : \A y \in S : ~(<<y, x>> \in R)
  <2> HIDE DEF R
  <2> QED
    BY <1>1, WFMin
<1>3. \A y \in S : x <= y
  <2> TAKE y \in S
  <2>1. ~(<<y, x>> \in R) /\ x \in Nat /\ y \in Nat
    BY <1>2
  <2> QED
    BY <2>1
<1> QED
  BY <1>3 DEF Min

\* The first known value of a field is one that a sighting gives.
LEMMA FirstKnownIsGiven ==
  ASSUME NEW values, DOMAIN values \subseteq Nat,
         NEW i \in DOMAIN values, values[i] # Unknown
  PROVE  \E j \in DOMAIN values : FirstKnown(values) = values[j] /\ values[j] # Unknown
<1> DEFINE known == {j \in DOMAIN values : values[j] # Unknown}
<1>1. known \in SUBSET Nat /\ known # {}
  OBVIOUS
<1>2. Min(known) \in known
  <2> HIDE DEF known
  <2> QED
    BY <1>1, LeastNatural
<1>3. FirstKnown(values) = values[Min(known)]
  BY <1>1 DEF FirstKnown
<1>4. QED
  BY <1>2, <1>3

\* A URL that is declared is listed by the target whose auth it gets.
LEMMA FirstListingLists ==
  ASSUME NEW c, DOMAIN c.targets \subseteq Nat, NEW u \in UrlsOf(c)
  PROVE  /\ FirstListing(c, u) \in Range(c.targets)
         /\ u \in Range(FirstListing(c, u).urls)
<1> DEFINE I == {i \in DOMAIN c.targets : u \in Range(c.targets[i].urls)}
<1>1. I \in SUBSET Nat /\ I # {}
  BY DEF UrlsOf, Range
<1>2. Min(I) \in I
  <2> HIDE DEF I
  <2> QED
    BY <1>1, LeastNatural
<1>3. FirstListing(c, u) = c.targets[Min(I)]
  BY DEF FirstListing
<1> HIDE DEF I
<1>4. QED
  BY <1>2, <1>3 DEF I, Range

-----------------------------------------------------------------------------
(* The scope                                                               *)

\* The check before a scan and the plan of validate are about the same places.
LEMMA ScopeOfPlaces ==
  ASSUME NEW c
  PROVE  ConfigInScope(c) <=>
           /\ \A h \in HostsOf(c) : HostInScope(h, c.scope.hosts)
           /\ \A u \in UrlsOf(c) : UrlInScope(u, c.scope)
BY DEF ConfigInScope, TargetInScope, HostsOf, UrlsOf

\* What validate finds good passes the check before a scan, and the other way
\* round, though the two are different code.
LEMMA PlanAgrees ==
  ASSUME NEW c
  PROVE  /\ ConfigInScope(c) <=> ScanPlan(c).out = {}
         /\ ScanPlan(c).valid <=>
              ConfigInScope(c) /\ c.scope.hosts \cup c.scope.urls # {}
         /\ ConfigInScope(c) => ScanPlan(c).network = HostsOf(c)
         /\ ConfigInScope(c) => ScanPlan(c).web = UrlsOf(c)
         /\ ScanPlan(c).web \subseteq UrlsOf(c)
<1> DEFINE good == {u \in UrlsOf(c) : UrlInScope(u, c.scope)}
           bad == {h \in HostsOf(c) : ~HostInScope(h, c.scope.hosts)}
                  \cup (UrlsOf(c) \ good)
<1>1. /\ ScanPlan(c).out = bad
      /\ ScanPlan(c).web = good
      /\ ScanPlan(c).network = HostsOf(c) \ bad
      /\ ScanPlan(c).valid = (bad = {} /\ c.scope.hosts \cup c.scope.urls # {})
  BY DEF ScanPlan
<1>2. bad = {} <=> ConfigInScope(c)
  BY ScopeOfPlaces
<1>3. bad = {} => good = UrlsOf(c)
  OBVIOUS
<1> HIDE DEF good, bad
<1>4. good \subseteq UrlsOf(c)
  BY DEF good
<1>5. QED
  BY <1>1, <1>2, <1>3, <1>4

\* A network lies in what it is allowed by, so what it covers does too.
LEMMA CoveredIsInScope ==
  ASSUME NEW t, NEW h, NEW allowed, t.kind = "net", h.kind = "net",
         h.addrs \subseteq t.addrs, HostInScope(t, allowed)
  PROVE  HostInScope(h, allowed)
BY DEF HostInScope

\* A plan is not the absence of one.
LEMMA PlanIsPresent == \A c : ScanPlan(c) # Absent
<1> SUFFICES ASSUME NEW c, ScanPlan(c) = Absent PROVE FALSE
  OBVIOUS
<1>1. "out" \in DOMAIN ScanPlan(c)
  BY DEF ScanPlan
<1>2. "out" \notin DOMAIN Absent
  BY DEF Absent
<1>3. QED
  BY <1>1, <1>2

-----------------------------------------------------------------------------
(* Findings                                                                *)

Fields == {"source", "host", "port", "url", "service", "title", "sev", "conf", "cvss"}

\* make_finding keeps where a finding is, and a severity that is given.
LEMMA MakeFindingKeeps ==
  ASSUME NEW f, DOMAIN f = Fields
  PROVE  /\ MakeFinding(f).source = f.source
         /\ MakeFinding(f).host = f.host
         /\ MakeFinding(f).port = f.port
         /\ MakeFinding(f).url = f.url
         /\ MakeFinding(f).service = f.service
         /\ MakeFinding(f).title = f.title
         /\ MakeFinding(f).conf = f.conf
         /\ MakeFinding(f).cvss = ParsedCvss(f.cvss)
         /\ MakeFinding(f).sev =
              IF f.sev # Unknown THEN f.sev
              ELSE IF ParsedCvss(f.cvss) = Unknown THEN 0
              ELSE SeverityFromCvss(ParsedCvss(f.cvss))
BY DEF MakeFinding, Fields

\* The ranges of the numbers of a finding, as TypeOK gives them.
Graded(f) == f.sev \in 0..4 /\ f.conf \in -1..4 /\ f.cvss \in -1..100

LEMMA SeverityOfScore ==
  ASSUME NEW n \in 0..100
  PROVE  SeverityFromCvss(n) \in 0..4
<1>1. n = 0 \/ n \in 1..39 \/ n \in 40..69 \/ n \in 70..89 \/ n \in 90..100
  OBVIOUS
<1>2. QED
  BY <1>1 DEF SeverityFromCvss

\* Whatever a scanner gives as a score, the finding's numbers are in range.
LEMMA MakeFindingGrades ==
  ASSUME NEW f, DOMAIN f = Fields, f.sev \in -1..4, f.conf \in -1..4
  PROVE  Graded(MakeFinding(f))
<1>1. ParsedCvss(f.cvss) \in 0..100 \/ ParsedCvss(f.cvss) = Unknown
  BY DEF ParsedCvss
<1>2. MakeFinding(f).cvss \in -1..100
  BY <1>1, MakeFindingKeeps DEF Unknown
<1>3. MakeFinding(f).sev \in 0..4
  <2>1. CASE f.sev # Unknown
    BY <2>1, MakeFindingKeeps DEF Unknown
  <2>2. CASE f.sev = Unknown /\ ParsedCvss(f.cvss) = Unknown
    BY <2>2, MakeFindingKeeps
  <2>3. CASE f.sev = Unknown /\ ParsedCvss(f.cvss) # Unknown
    BY <1>1, <2>3, MakeFindingKeeps, SeverityOfScore
  <2>4. QED
    BY <2>1, <2>2, <2>3
<1>4. QED
  BY <1>2, <1>3, MakeFindingKeeps DEF Graded

\* A finding of nmap is at the host and the port that its output names.
At(f, host, port, service) ==
  /\ f.source = "nmap" /\ f.url = Absent
  /\ f.host = host /\ f.port = port /\ f.service = service

LEMMA CveFindingAt ==
  ASSUME NEW host, NEW port, NEW service, NEW script,
         NEW f \in CveFindings(host, port, service, script)
  PROVE  At(f, host, port, service) /\ Graded(f)
<1> DEFINE Made1(cve) ==
             [source |-> "nmap", host |-> host, port |-> port,
              url |-> Absent, service |-> service,
              title |-> <<script.id, cve>>, sev |-> Unknown,
              conf |-> CveConfidence(script, cve), cvss |-> HitCvss(script, cve)]
<1>1. PICK cve \in HarvestedCves(script) : f = MakeFinding(Made1(cve))
  BY DEF CveFindings
<1>2. DOMAIN Made1(cve) = Fields
  BY DEF Fields
<1>3. Made1(cve).sev \in -1..4 /\ Made1(cve).conf \in -1..4
  BY DEF CveConfidence, Unknown
<1>4. /\ Made1(cve).source = "nmap" /\ Made1(cve).url = Absent
      /\ Made1(cve).host = host /\ Made1(cve).port = port
      /\ Made1(cve).service = service
  OBVIOUS
<1> HIDE DEF Made1
<1>5. QED
  BY <1>1, <1>2, <1>3, <1>4, MakeFindingKeeps, MakeFindingGrades DEF At

\* The inventory finding of a service.
LEMMA OpenPortAt ==
  ASSUME NEW host, NEW s
  PROVE  /\ \A f \in ServiceFindings(host, s) :
              At(f, host, s.port, s.service) /\ Graded(f)
         /\ \E f \in ServiceFindings(host, s) : f.host = host
<1> DEFINE raw == [source |-> "nmap", host |-> host, port |-> s.port,
                   url |-> Absent, service |-> s.service,
                   title |-> <<"open port">>, sev |-> 0,
                   conf |-> ConfidenceFromConf(s.conf), cvss |-> Unknown]
<1>1. DOMAIN raw = Fields
  BY DEF Fields
<1>2. raw.sev \in -1..4 /\ raw.conf \in -1..4
  BY DEF ConfidenceFromConf, Unknown
<1>3. /\ raw.source = "nmap" /\ raw.url = Absent /\ raw.host = host
      /\ raw.port = s.port /\ raw.service = s.service
  OBVIOUS
<1>4. ServiceFindings(host, s) =
        {MakeFinding(raw)}
        \cup UNION {CveFindings(host, s.port, s.service, script) : script \in s.scripts}
  BY DEF ServiceFindings
<1> HIDE DEF raw
<1>5. At(MakeFinding(raw), host, s.port, s.service) /\ Graded(MakeFinding(raw))
  BY <1>1, <1>2, <1>3, MakeFindingKeeps, MakeFindingGrades DEF At
<1>6. QED
  BY <1>4, <1>5, CveFindingAt DEF At

\* The findings of a host are at that host, and those that name a port are of
\* an open service of it.
LEMMA HostFindingAt ==
  ASSUME NEW h, NEW f \in HostFindings(h)
  PROVE  /\ Graded(f)
         /\ f.source = "nmap" /\ f.url = Absent /\ f.host = h.host
         /\ f.port = Unknown \/
              \E s \in h.services : s.open /\ f.port = s.port /\ f.service = s.service
<1>1. \/ \E s \in h.services : s.open /\ f \in ServiceFindings(h.host, s)
      \/ \E script \in h.scripts : f \in CveFindings(h.host, Unknown, "", script)
  BY Zenon DEF HostFindings
<1>2. ASSUME NEW s \in h.services, s.open, f \in ServiceFindings(h.host, s)
      PROVE  Graded(f) /\ At(f, h.host, s.port, s.service)
  BY <1>2, OpenPortAt, Zenon
<1>3. ASSUME NEW script \in h.scripts, f \in CveFindings(h.host, Unknown, "", script)
      PROVE  Graded(f) /\ At(f, h.host, Unknown, "")
  BY <1>3, CveFindingAt, Zenon
<1>4. QED
  BY <1>1, <1>2, <1>3 DEF At

\* Every finding of nmap is of a host it has written, that is up and in scope.
LEMMA NmapFindingOf ==
  ASSUME NEW x, NEW allowed, NEW f \in NmapFindings(x, allowed)
  PROVE  \E h \in ParsedHosts(x) :
           h.up /\ HostInScope(h.host, allowed) /\ f \in HostFindings(h)
BY DEF NmapFindings

\* A host with an open port that is up and in scope is reported.
LEMMA OpenHostFound ==
  ASSUME NEW x, NEW allowed, NEW h \in ParsedHosts(x), Open(h),
         HostInScope(h.host, allowed)
  PROVE  \E f \in NmapFindings(x, allowed) : f.host = h.host
<1>1. PICK s \in h.services : s.open
  BY DEF Open
<1>2. PICK f \in ServiceFindings(h.host, s) : f.host = h.host
  BY OpenPortAt
<1>3. f \in HostFindings(h)
  BY <1>1, <1>2 DEF HostFindings
<1>4. QED
  BY <1>2, <1>3 DEF NmapFindings, Open

\* Of a script's rows that state a score for a CVE, one reaches the finding.
LEMMA StatedScoreIsHit ==
  ASSUME NEW script, DOMAIN script.rows \subseteq Nat,
         NEW row \in Range(script.rows), row.cvss \in 0..100
  PROVE  HitCvss(script, row.cve) \in 0..100
<1> DEFINE values == [i \in Sightings(script, row.cve) |-> ParsedCvss(script.rows[i].cvss)]
<1>1. PICK i \in DOMAIN script.rows : script.rows[i] = row
  BY DEF Range
<1>2. DOMAIN values \subseteq Nat /\ i \in DOMAIN values
  BY <1>1 DEF Sightings
<1>3. values[i] = row.cvss
  BY <1>1, <1>2 DEF ParsedCvss
<1>4. values[i] # Unknown
  BY <1>3 DEF Unknown
<1>5. \A j \in DOMAIN values : values[j] # Unknown => values[j] \in 0..100
  BY DEF ParsedCvss
<1>6. HitCvss(script, row.cve) = FirstKnown(values)
  BY DEF HitCvss
<1> HIDE DEF values
<1>7. \E j \in DOMAIN values : FirstKnown(values) = values[j] /\ values[j] # Unknown
  BY <1>2, <1>4, FirstKnownIsGiven
<1>8. QED
  BY <1>5, <1>6, <1>7

\* The finding of a CVE of a script, with a score and its severity.
Scored(f, host, port, script, cve) ==
  /\ f.host = host /\ f.port = port
  /\ f.title = <<script.id, cve>>
  /\ f.cvss # Unknown /\ f.sev = SeverityFromCvss(f.cvss)

LEMMA ScoredCveFound ==
  ASSUME NEW host, NEW port, NEW service,
         NEW script, DOMAIN script.rows \subseteq Nat,
         NEW row \in Range(script.rows), row.cvss \in 0..100
  PROVE  \E f \in CveFindings(host, port, service, script) :
           Scored(f, host, port, script, row.cve)
<1> DEFINE raw == [source |-> "nmap", host |-> host, port |-> port,
                   url |-> Absent, service |-> service,
                   title |-> <<script.id, row.cve>>, sev |-> Unknown,
                   conf |-> CveConfidence(script, row.cve),
                   cvss |-> HitCvss(script, row.cve)]
<1>1. DOMAIN raw = Fields
  BY DEF Fields
<1>2. /\ raw.host = host /\ raw.port = port /\ raw.title = <<script.id, row.cve>>
      /\ raw.sev = Unknown /\ raw.cvss = HitCvss(script, row.cve)
  OBVIOUS
<1>3. row.cve \in HarvestedCves(script)
  BY DEF HarvestedCves
<1>4. MakeFinding(raw) \in CveFindings(host, port, service, script)
  BY <1>3 DEF CveFindings
<1> HIDE DEF raw
<1>5. ParsedCvss(raw.cvss) = raw.cvss /\ raw.cvss # Unknown
  BY <1>2, StatedScoreIsHit DEF ParsedCvss, Unknown
<1>6. Scored(MakeFinding(raw), host, port, script, row.cve)
  BY <1>1, <1>2, <1>5, MakeFindingKeeps DEF Scored
<1>7. QED
  BY <1>4, <1>6

\* What the network layer discovers is where a finding says a web server is.
LEMMA DiscoveredIsAt ==
  ASSUME NEW x, ParsedHosts(x) \subseteq Range(World), NEW allowed, NEW scope,
         NEW u \in DiscoveredUrls(NmapFindings(x, allowed), scope)
  PROVE  /\ u \in Url
         /\ \E f \in NmapFindings(x, allowed) : HostOfUrl(u) = f.host
<1>1. PICK f \in NmapFindings(x, allowed) :
        IsWebFinding(f) /\ u = Web(SchemeFor(f), f.host, f.port, <<>>)
  BY DEF DiscoveredUrls
<1>2. PICK h \in ParsedHosts(x) : f \in HostFindings(h)
  BY NmapFindingOf
<1>3. PICK s \in h.services : s.open /\ f.port = s.port /\ f.service = s.service
  <2>1. f.port # Unknown
    BY <1>1, Zenon DEF IsWebFinding
  <2>2. QED
    BY <1>2, <2>1, HostFindingAt, Zenon
<1>4. IsWebFinding(s) /\ SchemeFor(f) = SchemeFor(s)
  <2>1. /\ s.port # Unknown
        /\ s.service \in WebServices \/ (s.service = "" /\ s.port \in WebPorts)
    BY <1>1, <1>3, Zenon DEF IsWebFinding
  <2>2. SchemeFor(f) = SchemeFor(s)
    BY <1>3, Zenon DEF SchemeFor
  <2>3. QED
    BY <2>1, <2>2 DEF IsWebFinding
<1>5. f.host = h.host
  BY <1>2, HostFindingAt
<1>6. Web(SchemeFor(s), h.host, s.port, <<>>) \in Url
  BY <1>3, <1>4, WorldAssumption
<1>7. HostOfUrl(u) = f.host
  BY <1>1 DEF HostOfUrl, Web
<1>8. QED
  BY <1>1, <1>3, <1>4, <1>5, <1>6, <1>7

\* A nuclei result that is kept is whole, and the URL it matched is in scope.
LEMMA NucleiFindingOf ==
  ASSUME NEW lines \in SUBSET (Range(Results) \cup {TornLine}), NEW scope,
         NEW f \in NucleiFindings(lines, scope)
  PROVE  /\ Graded(f) /\ f.source = "nuclei"
         /\ f.url = Absent \/ UrlInScope(f.url, scope)
<1> DEFINE Raw(r) == [source |-> "nuclei", host |-> ResultHost(r),
                      port |-> ResultPort(r), url |-> r.matched, service |-> "",
                      title |-> <<"template">>, sev |-> NucleiSeverity[r.severity],
                      conf |-> 2, cvss |-> r.cvss]
<1>1. PICK r \in lines : Usable(r, scope) /\ f = MakeFinding(Raw(r))
  BY DEF NucleiFindings
<1>2. r \in Range(Results)
  <2>1. TornLine.json = FALSE
    BY DEF TornLine
  <2>2. r.json
    BY <1>1, Zenon DEF Usable
  <2>3. r # TornLine
    BY <2>1, <2>2, Zenon
  <2>4. QED
    BY <2>3
<1>3. NucleiSeverity[r.severity] \in 0..4
  BY <1>2, ResultsAssumption DEF NucleiSeverity
<1>4. /\ DOMAIN Raw(r) = Fields /\ Raw(r).source = "nuclei"
      /\ Raw(r).url = r.matched
      /\ Raw(r).sev = NucleiSeverity[r.severity] /\ Raw(r).conf = 2
  BY DEF Fields
<1> HIDE DEF Raw
<1>5. Raw(r).sev \in -1..4 /\ Raw(r).conf \in -1..4
  BY <1>3, <1>4
<1>6. Graded(f)
  BY <1>1, <1>4, <1>5, MakeFindingGrades
<1>7. QED
  BY <1>1, <1>4, <1>6, MakeFindingKeeps DEF Usable

\* An alert that is kept has a URL in scope.
LEMMA ZapFindingOf ==
  ASSUME NEW alerts, NEW scope, NEW f \in ZapFindings(alerts, scope)
  PROVE  /\ Graded(f)
         /\ f.url # Absent /\ UrlInScope(f.url, scope)
<1> DEFINE Raw(a) == [source |-> "zap", host |-> HostOfUrl(a.url),
                      port |-> PortOfUrl(a.url), url |-> a.url, service |-> "",
                      title |-> <<"alert">>, sev |-> SeverityFromRisk(a),
                      conf |-> ConfidenceFromZap(a), cvss |-> Unknown]
<1>1. PICK a \in alerts :
        a.url # Absent /\ UrlInScope(a.url, scope) /\ f = MakeFinding(Raw(a))
  BY DEF ZapFindings
<1>2. SeverityFromRisk(a) \in 0..4
  BY DEF SeverityFromRisk, RiskLabel
<1>3. ConfidenceFromZap(a) \in -1..4
  BY DEF ConfidenceFromZap, Unknown
<1>4. /\ DOMAIN Raw(a) = Fields /\ Raw(a).url = a.url
      /\ Raw(a).sev = SeverityFromRisk(a) /\ Raw(a).conf = ConfidenceFromZap(a)
  BY DEF Fields
<1> HIDE DEF Raw
<1>5. Raw(a).sev \in -1..4 /\ Raw(a).conf \in -1..4
  BY <1>2, <1>3, <1>4
<1>6. Graded(f)
  BY <1>1, <1>4, <1>5, MakeFindingGrades
<1>7. QED
  BY <1>1, <1>4, <1>6, MakeFindingKeeps

-----------------------------------------------------------------------------
(* The inductive invariant                                                 *)

Cleared == config # Absent /\ plan.valid /\ acknowledged /\ ConfigInScope(config)

\* What is loaded is a valid file, and the plan is of what is loaded.
LoadedInv ==
  /\ config # Absent => Declares(config) /\ plan = ScanPlan(config)
  /\ stage = "load" => config = Absent
  /\ stage = "preflight" => config # Absent

\* No scanner runs before the configuration is cleared, and none of those that
\* run finds a place out of scope.
ClearedInv ==
  /\ stage \in {"network", "web", "zap", "nuclei"} \/ outcome = "done" => Cleared
  /\ outcome = "refused" => plan = Absent \/ ~plan.valid \/ ~acknowledged
  /\ outcome # "raised"
  /\ outcome # "none" <=> stage = "over"

\* What is still empty.
EmptyInv ==
  /\ stage \in {"load", "preflight", "network"} \/ outcome = "refused" =>
       xml = Absent /\ network = {} /\ handed["nmap"] = {}
  /\ stage \in {"load", "preflight", "network", "web"} \/ outcome = "refused" =>
       DOMAIN auth = {} /\ handed["zap"] = {} /\ web = {}
  /\ outcome # "done" => handed["nuclei"] = {} /\ template = {}

\* The findings of the network layer are those of what nmap has written, of the
\* targets it was given.
NetworkInv ==
  /\ config # Absent => network = NmapFindings(xml, config.scope.hosts)
  /\ xml # Absent =>
       \E n \in 0..Len(World) :
         /\ xml.hosts = Visible(handed["nmap"], n)
         /\ xml.cut = "nowhere" => n = Len(World)
  /\ handed["nmap"] # {} => Cleared /\ handed["nmap"] = HostsOf(config)

\* The scanners are given what validate lists, and what nmap led to.
HandedInv ==
  /\ stage \in {"web", "zap", "nuclei"} \/ outcome = "done" =>
       (config.nmap => handed["nmap"] = plan.network)
  /\ stage \in {"zap", "nuclei"} \/ outcome = "done" =>
       (config.zap => plan.web \subseteq handed["zap"])
  /\ outcome = "done" => (config.nuclei => plan.web \subseteq handed["nuclei"])
  /\ \A u \in handed["zap"] \cup handed["nuclei"] :
       u \in plan.web \/ HostOfUrl(u) \in {f.host : f \in network}

\* A declared URL is scanned under the auth of the first target that lists it.
AuthInv ==
  \A t \in DOMAIN auth : t \in UrlsOf(config) => auth[t] = FirstListing(config, t).auth

ScanInv ==
  /\ TypeOK /\ IInv
  /\ LoadedInv /\ ClearedInv /\ EmptyInv /\ NetworkInv /\ HandedInv /\ AuthInv
  /\ EverythingReportedInScope

-----------------------------------------------------------------------------
(* What the steps compute                                                  *)

\* The type invariant, in parts.
FindingsTypeOK == \A f \in network \cup web \cup template : Graded(f)

HandedTypeOK ==
  /\ DOMAIN handed = {"nmap", "zap", "nuclei"}
  /\ handed["zap"] \cup handed["nuclei"] \subseteq Url

RestTypeOK ==
  /\ file \in File
  /\ acknowledged \in BOOLEAN
  /\ config = Absent \/ ValidConfig(config)
  /\ plan = Absent <=> config = Absent
  /\ stage \in {"load", "preflight", "network", "web", "zap", "nuclei", "over"}
  /\ xml = Absent \/ xml \in NmapXml
  /\ outcome \in {"none", "refused", "raised", "done"}

LEMMA TypeParts == TypeOK <=> FindingsTypeOK /\ HandedTypeOK /\ RestTypeOK /\ ZapTypeOK
BY DEF TypeOK, FindingsTypeOK, HandedTypeOK, RestTypeOK, Graded

\* Interpolation changes hosts only, so what is loaded declares what the file does.
LEMMA InterpolatedTargets ==
  ASSUME NEW d, NEW env, {"scope", "targets"} \subseteq DOMAIN d
  PROVE  /\ DOMAIN InterpolatedConfig(d, env) = DOMAIN d
         /\ InterpolatedConfig(d, env).targets =
              [i \in DOMAIN d.targets |-> InterpolatedTarget(d.targets[i], env)]
BY DEF InterpolatedConfig

LEMMA InterpolatedDeclares ==
  ASSUME NEW d, NEW env, Declares(d)
  PROVE  Declares(InterpolatedConfig(d, env))
<1> DEFINE c == InterpolatedConfig(d, env)
<1>1. {"scope", "targets"} \subseteq DOMAIN d
  BY DEF Declares
<1>2. /\ DOMAIN c = DOMAIN d
      /\ c.targets = [i \in DOMAIN d.targets |-> InterpolatedTarget(d.targets[i], env)]
  BY <1>1, InterpolatedTargets
<1> HIDE DEF c
<1>3. ASSUME NEW t \in Range(c.targets)
      PROVE  /\ DOMAIN t = {"host", "urls", "auth"}
             /\ Range(t.urls) \subseteq Url
             /\ t.auth \in Auth \cup {Absent}
  <2>1. PICK i \in DOMAIN d.targets : t = InterpolatedTarget(d.targets[i], env)
    BY <1>2 DEF Range
  <2> DEFINE r == d.targets[i]
  <2>2. r \in Range(d.targets)
    BY DEF Range
  <2>3. /\ DOMAIN r = {"host", "urls", "auth"}
        /\ Range(r.urls) \subseteq Url
        /\ r.auth \in Auth \cup {Absent}
    BY <2>2 DEF Declares
  <2>4. t = [r EXCEPT !.host = Interpolated(@, env)]
    BY <2>1 DEF InterpolatedTarget
  <2> HIDE DEF r
  <2>5. DOMAIN t = {"host", "urls", "auth"} /\ t.urls = r.urls /\ t.auth = r.auth
    BY <2>3, <2>4
  <2>6. QED
    BY <2>3, <2>5
<1>4. {"scope", "targets"} \subseteq DOMAIN c /\ DOMAIN c.targets \subseteq Nat
  BY <1>1, <1>2 DEF Declares
<1>5. QED
  BY <1>3, <1>4 DEF Declares, c

LEMMA LoadedDeclares ==
  ASSUME NEW f \in File, Loaded(f, Environment) # Absent
  PROVE  Declares(Loaded(f, Environment)) /\ ValidConfig(Loaded(f, Environment))
<1>1. /\ Loaded(f, Environment) = InterpolatedConfig(f.config, Environment)
      /\ f.doc = "mapping" /\ ValidConfig(InterpolatedConfig(f.config, Environment))
  BY DEF Loaded
<1>2. Declares(f.config)
  BY <1>1, ScanLayersAssumption
<1>3. QED
  BY <1>1, <1>2, InterpolatedDeclares

\* The declared URLs of a configuration.
LEMMA DeclaredUrls ==
  ASSUME NEW c, Declares(c)
  PROVE  /\ UrlsOf(c) \subseteq Url
         /\ \A u \in UrlsOf(c) : FirstListing(c, u).auth \in Auth \cup {Absent}
<1>1. UrlsOf(c) \subseteq Url
  BY DEF UrlsOf, Declares
<1>2. DOMAIN c.targets \subseteq Nat
  BY DEF Declares
<1>3. ASSUME NEW u \in UrlsOf(c)
      PROVE  FirstListing(c, u).auth \in Auth \cup {Absent}
  <2>1. FirstListing(c, u) \in Range(c.targets)
    BY <1>2, FirstListingLists
  <2>2. QED
    BY <2>1 DEF Declares
<1>4. QED
  BY <1>1, <1>3

\* The web targets are those that are declared, each with its auth, and those
\* that were discovered.
LEMMA TargetsCollected ==
  ASSUME NEW c, Declares(c), NEW D \in SUBSET Url
  PROVE  /\ CollectedWebTargets(c, D) \in Jobs
         /\ DOMAIN CollectedWebTargets(c, D) \subseteq Url
         /\ UrlsOf(c) \subseteq DOMAIN CollectedWebTargets(c, D)
         /\ DOMAIN CollectedWebTargets(c, D) \subseteq UrlsOf(c) \cup D
         /\ \A u \in UrlsOf(c) : CollectedWebTargets(c, D)[u] = FirstListing(c, u).auth
<1> DEFINE found == {u \in D : UrlInScope(u, c.scope)}
           all   == found \cup UrlsOf(c)
           f     == CollectedWebTargets(c, D)
<1>1. f = [u \in all |-> IF u \in UrlsOf(c) THEN FirstListing(c, u).auth ELSE Absent]
  BY DEF CollectedWebTargets, SelectedUrls
<1>2. all \in SUBSET Url
  BY DeclaredUrls
<1>3. \A u \in all : f[u] \in Auth \cup {Absent}
  BY <1>1, DeclaredUrls
<1> HIDE DEF f
<1>4. f \in [all -> Auth \cup {Absent}]
  BY <1>1, <1>3
<1>5. f \in Jobs
  BY <1>2, <1>4 DEF Jobs
<1>6. DOMAIN f = all /\ \A u \in UrlsOf(c) : f[u] = FirstListing(c, u).auth
  BY <1>1
<1>7. QED
  BY <1>2, <1>5, <1>6 DEF f

LEMMA WorldIsSequence == Len(World) \in Nat /\ DOMAIN World = 1..Len(World)
BY WorldAssumption

LEMMA VisibleInWorld ==
  ASSUME NEW targets, NEW n \in 0..Len(World)
  PROVE  Visible(targets, n) \subseteq Range(World)
<1>1. 1..n \subseteq DOMAIN World
  BY WorldIsSequence
<1>2. QED
  BY <1>1 DEF Visible, Range

LEMMA WrittenIsXml ==
  ASSUME NEW targets, NEW x \in Written(targets)
  PROVE  /\ x \in NmapXml
         /\ \E n \in 0..Len(World) :
              /\ x.hosts = Visible(targets, n)
              /\ x.cut = "nowhere" => n = Len(World)
<1>1. CASE x = [hosts |-> Visible(targets, Len(World)), cut |-> "nowhere"]
  <2>1. Len(World) \in 0..Len(World)
    BY WorldIsSequence
  <2>2. Visible(targets, Len(World)) \subseteq Range(World)
    BY <2>1, VisibleInWorld
  <2>3. QED
    BY <1>1, <2>1, <2>2 DEF NmapXml
<1>2. CASE x \in [hosts : {Visible(targets, n) : n \in 0..Len(World)},
                  cut : {"between hosts", "inside a host"}]
  <2>1. PICK n \in 0..Len(World) : x.hosts = Visible(targets, n)
    BY <1>2
  <2>2. Visible(targets, n) \subseteq Range(World)
    BY VisibleInWorld
  <2>3. QED
    BY <1>2, <2>1, <2>2 DEF NmapXml
<1>3. QED
  BY <1>1, <1>2 DEF Written

LEMMA ParsedInWorld ==
  ASSUME NEW x, x = Absent \/ x \in NmapXml
  PROVE  ParsedHosts(x) \subseteq Range(World)
BY DEF ParsedHosts, NmapXml

\* The web targets of a state.
LEMMA WebTargetsCollected ==
  ASSUME RestTypeOK, LoadedInv, NetworkInv, config # Absent
  PROVE  /\ WebTargets \in Jobs
         /\ DOMAIN WebTargets \subseteq Url
         /\ UrlsOf(config) \subseteq DOMAIN WebTargets
         /\ \A u \in DOMAIN WebTargets :
              u \in UrlsOf(config) \/ HostOfUrl(u) \in {f.host : f \in network}
         /\ \A u \in UrlsOf(config) : WebTargets[u] = FirstListing(config, u).auth
<1> DEFINE D == DiscoveredUrls(network, config.scope)
<1>1. Declares(config) /\ network = NmapFindings(xml, config.scope.hosts)
  BY DEF LoadedInv, NetworkInv
<1>2. ParsedHosts(xml) \subseteq Range(World)
  BY ParsedInWorld DEF RestTypeOK
<1>3. \A u \in D : u \in Url /\ \E f \in network : HostOfUrl(u) = f.host
  BY <1>1, <1>2, DiscoveredIsAt
<1>4. WebTargets = CollectedWebTargets(config, D)
  BY DEF WebTargets
<1> HIDE DEF D
<1>5. D \in SUBSET Url
  BY <1>3
<1>6. /\ WebTargets \in Jobs
      /\ DOMAIN WebTargets \subseteq Url
      /\ UrlsOf(config) \subseteq DOMAIN WebTargets
      /\ DOMAIN WebTargets \subseteq UrlsOf(config) \cup D
      /\ \A u \in UrlsOf(config) : WebTargets[u] = FirstListing(config, u).auth
  BY <1>1, <1>4, <1>5, TargetsCollected
<1>7. QED
  BY <1>3, <1>6

-----------------------------------------------------------------------------
(* The refinement of ZapContexts: every step of the scan is one of its steps*)
(* or changes nothing of it.                                                *)

LEMMA StepRefines ==
  ScanInv /\ [Next]_vars => [ZapNext]_zapVars
<1> SUFFICES ASSUME ScanInv, [Next]_vars
             PROVE  [ZapNext]_zapVars
  OBVIOUS
<1>1. CASE StartWeb
  <2>1. CASE UNCHANGED zapVars
    BY <2>1
  <2>2. CASE Collect(WebTargets)
    <3>1. stage = "web"
      BY <1>1 DEF StartWeb
    <3>2. DOMAIN auth = {}
      BY <3>1 DEF ScanInv, EmptyInv
    <3>3. config # Absent
      BY <3>1 DEF ScanInv, ClearedInv, Cleared
    <3>4. WebTargets \in Jobs
      BY <3>3, WebTargetsCollected, TypeParts DEF ScanInv
    <3>5. QED
      BY <2>2, <3>2, <3>4 DEF ZapNext
  <2>3. QED
    BY <1>1, <2>1, <2>2 DEF StartWeb
<1>2. CASE RunTask
  <2>1. PICK t \in DOMAIN auth : TaskStep(t)
    BY <1>2 DEF RunTask
  <2>2. t \in Url
    BY DEF ScanInv, IInv, ZapTypeOK
  <2>3. QED
    BY <2>1, <2>2 DEF ZapNext
<1>3. CASE UNCHANGED zapVars
  BY <1>3
<1>4. QED
  BY <1>1, <1>2, <1>3 DEF Next, Load, Preflight, NmapScan, EndWeb, NucleiScan, vars

-----------------------------------------------------------------------------
(* Every step keeps the invariant.                                         *)

\* What the layers know, without the tasks of ZapContexts.
LayersInv ==
  /\ FindingsTypeOK /\ HandedTypeOK /\ RestTypeOK
  /\ LoadedInv /\ ClearedInv /\ EmptyInv /\ NetworkInv /\ HandedInv /\ AuthInv
  /\ EverythingReportedInScope

LEMMA ScanInvParts == ScanInv <=> LayersInv /\ IInv
BY TypeParts DEF ScanInv, LayersInv, IInv

LEMMA LoadKeeps == LayersInv /\ Load => LayersInv'
<1> SUFFICES ASSUME LayersInv, Load PROVE LayersInv'
  OBVIOUS
<1> DEFINE c == Loaded(file, Environment)
<1>1. /\ stage = "load" /\ outcome = "none"
      /\ config = Absent /\ plan = Absent
      /\ xml = Absent /\ network = {} /\ web = {} /\ template = {}
      /\ handed["nmap"] = {} /\ handed["zap"] = {} /\ handed["nuclei"] = {}
      /\ DOMAIN auth = {}
  BY DEF Load, LayersInv, LoadedInv, ClearedInv, EmptyInv, RestTypeOK
<1>2. /\ config' = c
      /\ UNCHANGED <<file, acknowledged, handed, xml, network, web, template, auth>>
      /\ \/ c = Absent /\ stage' = "over" /\ outcome' = "refused" /\ plan' = Absent
         \/ c # Absent /\ stage' = "preflight" /\ plan' = ScanPlan(c) /\ outcome' = "none"
  BY <1>1 DEF Load, Over, zapVars
<1>3. c # Absent => Declares(c) /\ ValidConfig(c)
  BY LoadedDeclares DEF LayersInv, RestTypeOK
<1> HIDE DEF c
<1>4. FindingsTypeOK' /\ HandedTypeOK' /\ RestTypeOK'
  BY <1>1, <1>2, <1>3, PlanIsPresent DEF LayersInv, FindingsTypeOK, HandedTypeOK, RestTypeOK
<1>5. LoadedInv' /\ ClearedInv' /\ EmptyInv'
  BY <1>1, <1>2, <1>3 DEF LoadedInv, ClearedInv, EmptyInv
<1>6. NetworkInv'
  <2>1. \A a : NmapFindings(Absent, a) = {}
    BY DEF NmapFindings, ParsedHosts
  <2>2. QED
    BY <1>1, <1>2, <2>1 DEF NetworkInv
<1>7. HandedInv' /\ AuthInv' /\ EverythingReportedInScope'
  BY <1>1, <1>2 DEF HandedInv, AuthInv, EverythingReportedInScope
<1>8. QED
  BY <1>4, <1>5, <1>6, <1>7 DEF LayersInv

LEMMA PreflightKeeps == LayersInv /\ Preflight => LayersInv'
<1> SUFFICES ASSUME LayersInv, Preflight PROVE LayersInv'
  OBVIOUS
<1>1. /\ stage = "preflight" /\ outcome = "none"
      /\ config # Absent /\ plan = ScanPlan(config)
      /\ xml = Absent /\ network = {} /\ web = {} /\ template = {}
      /\ handed["nmap"] = {} /\ handed["zap"] = {} /\ handed["nuclei"] = {}
      /\ DOMAIN auth = {}
  BY DEF Preflight, LayersInv, LoadedInv, ClearedInv, EmptyInv, RestTypeOK
<1> DEFINE good == Authorized(acknowledged, config.scope) /\ ConfigInScope(config)
<1>2. /\ UNCHANGED <<file, acknowledged, config, plan, handed, xml, network, web,
                     template, auth>>
      /\ \/ good /\ stage' = "network" /\ outcome' = "none"
         \/ ~good /\ stage' = "over" /\ outcome' = "refused"
  BY <1>1 DEF Preflight, Over, zapVars
<1>3. good <=> plan.valid /\ acknowledged /\ ConfigInScope(config)
  BY <1>1, PlanAgrees DEF Authorized
<1>4. plan.valid => ConfigInScope(config)
  BY <1>1, PlanAgrees
<1> HIDE DEF good
<1>5. FindingsTypeOK' /\ HandedTypeOK' /\ RestTypeOK'
  BY <1>1, <1>2 DEF LayersInv, FindingsTypeOK, HandedTypeOK, RestTypeOK
<1>6. LoadedInv' /\ EmptyInv'
  BY <1>1, <1>2 DEF LayersInv, LoadedInv, EmptyInv
<1>7. ClearedInv'
  BY <1>1, <1>2, <1>3, <1>4 DEF ClearedInv, Cleared
<1>8. NetworkInv'
  BY <1>1, <1>2 DEF LayersInv, NetworkInv
<1>9. HandedInv' /\ AuthInv' /\ EverythingReportedInScope'
  BY <1>1, <1>2 DEF HandedInv, AuthInv, EverythingReportedInScope
<1>10. QED
  BY <1>5, <1>6, <1>7, <1>8, <1>9 DEF LayersInv

\* nmap is given every declared host, none of which is out of scope.
LEMMA HostsSelected ==
  ASSUME NEW c, ConfigInScope(c)
  PROVE  /\ ~SelectedHosts(c).raised /\ ~SelectedUrls(c).raised
         /\ SelectedHosts(c).hosts = HostsOf(c)
         /\ ScanPlan(c).network = HostsOf(c)
         /\ ScanPlan(c).web = UrlsOf(c)
BY ScopeOfPlaces, PlanAgrees DEF SelectedHosts, SelectedUrls

LEMMA NmapKeeps == LayersInv /\ NmapScan => LayersInv'
<1> SUFFICES ASSUME LayersInv, NmapScan PROVE LayersInv'
  OBVIOUS
<1>1. /\ stage = "network" /\ outcome = "none" /\ Cleared
      /\ plan = ScanPlan(config) /\ Declares(config)
      /\ xml = Absent /\ network = {} /\ web = {} /\ template = {}
      /\ handed["nmap"] = {} /\ handed["zap"] = {} /\ handed["nuclei"] = {}
      /\ DOMAIN auth = {}
  BY DEF NmapScan, LayersInv, LoadedInv, ClearedInv, Cleared, EmptyInv, RestTypeOK
<1>2. /\ ~SelectedHosts(config).raised
      /\ SelectedHosts(config).hosts = HostsOf(config)
      /\ plan.network = HostsOf(config)
  BY <1>1, HostsSelected DEF Cleared
<1>3. /\ UNCHANGED <<file, acknowledged, config, plan, web, template, auth>>
      /\ stage' = "web" /\ outcome' = "none"
      /\ \/ /\ UNCHANGED <<handed, xml, network>>
            /\ ~config.nmap \/ HostsOf(config) = {}
         \/ /\ handed' = [handed EXCEPT !["nmap"] = HostsOf(config)]
            /\ xml' \in Written(HostsOf(config)) \cup {Absent}
            /\ network' = NmapFindings(xml', config.scope.hosts)
  BY <1>1, <1>2 DEF NmapScan, Over, zapVars
<1>4. /\ DOMAIN handed' = {"nmap", "zap", "nuclei"}
      /\ handed'["zap"] = {} /\ handed'["nuclei"] = {}
      /\ \/ handed'["nmap"] = {} /\ (~config.nmap \/ HostsOf(config) = {})
         \/ handed'["nmap"] = HostsOf(config)
  BY <1>1, <1>3 DEF LayersInv, HandedTypeOK
<1>5. /\ xml' = Absent \/ xml' \in NmapXml
      /\ xml' # Absent =>
           \E n \in 0..Len(World) :
             /\ xml'.hosts = Visible(handed'["nmap"], n)
             /\ xml'.cut = "nowhere" => n = Len(World)
  <2>1. CASE UNCHANGED xml
    BY <1>1, <2>1
  <2>2. CASE /\ handed' = [handed EXCEPT !["nmap"] = HostsOf(config)]
             /\ xml' \in Written(HostsOf(config)) \cup {Absent}
    <3>1. handed'["nmap"] = HostsOf(config)
      BY <2>2 DEF LayersInv, HandedTypeOK
    <3>2. CASE xml' = Absent
      BY <3>2
    <3>3. CASE xml' \in Written(HostsOf(config))
      BY <3>1, <3>3, WrittenIsXml
    <3>4. QED
      BY <2>2, <3>2, <3>3
  <2>3. QED
    BY <1>3, <2>1, <2>2
<1>6. network' = NmapFindings(xml', config.scope.hosts)
  <2>1. NmapFindings(Absent, config.scope.hosts) = {}
    BY DEF NmapFindings, ParsedHosts
  <2>2. QED
    BY <1>1, <1>3, <2>1
<1>7. \A f \in network' :
        Graded(f) /\ f.url = Absent /\ HostInScope(f.host, config.scope.hosts)
  BY <1>6, NmapFindingOf, HostFindingAt
<1>8. FindingsTypeOK'
  BY <1>1, <1>3, <1>7 DEF FindingsTypeOK
<1>9. HandedTypeOK'
  BY <1>4 DEF HandedTypeOK
<1>10. RestTypeOK'
  BY <1>3, <1>5 DEF LayersInv, RestTypeOK
<1>11. LoadedInv' /\ ClearedInv' /\ EmptyInv'
  BY <1>1, <1>3, <1>4 DEF LoadedInv, ClearedInv, Cleared, EmptyInv
<1>12. NetworkInv'
  BY <1>1, <1>3, <1>4, <1>5, <1>6 DEF NetworkInv, Cleared
<1>13. HandedInv'
  BY <1>2, <1>3, <1>4 DEF HandedInv
<1>14. AuthInv'
  BY <1>1, <1>3 DEF AuthInv
<1>15. EverythingReportedInScope'
  BY <1>1, <1>3, <1>7 DEF EverythingReportedInScope
<1>16. QED
  BY <1>8, <1>9, <1>10, <1>11, <1>12, <1>13, <1>14, <1>15 DEF LayersInv

LEMMA StartWebKeeps == LayersInv /\ StartWeb => LayersInv'
<1> SUFFICES ASSUME LayersInv, StartWeb PROVE LayersInv'
  OBVIOUS
<1>1. /\ stage = "web" /\ outcome = "none" /\ Cleared
      /\ plan = ScanPlan(config) /\ DOMAIN auth = {}
      /\ handed["zap"] = {} /\ handed["nuclei"] = {} /\ template = {}
      /\ config.nmap => handed["nmap"] = plan.network
  BY DEF StartWeb, LayersInv, LoadedInv, ClearedInv, Cleared, EmptyInv, HandedInv, RestTypeOK
<1>2. ~SelectedUrls(config).raised /\ plan.web = UrlsOf(config)
  BY <1>1, HostsSelected DEF Cleared
<1> DEFINE ts == WebTargets
<1>3. /\ DOMAIN ts \subseteq Url
      /\ UrlsOf(config) \subseteq DOMAIN ts
      /\ \A u \in DOMAIN ts :
           u \in UrlsOf(config) \/ HostOfUrl(u) \in {f.host : f \in network}
      /\ \A u \in UrlsOf(config) : ts[u] = FirstListing(config, u).auth
  BY <1>1, WebTargetsCollected DEF LayersInv, Cleared
<1>4. /\ UNCHANGED <<file, acknowledged, config, plan, xml, network, web, template>>
      /\ outcome' = "none"
      /\ \/ /\ stage' = "nuclei" /\ UNCHANGED <<handed, auth>>
            /\ ~config.zap \/ DOMAIN ts = {}
         \/ /\ stage' = "zap" /\ auth' = ts
            /\ handed' = [handed EXCEPT !["zap"] = DOMAIN ts]
  BY <1>1, <1>2 DEF StartWeb, Over, zapVars, Collect
<1> HIDE DEF ts
<1>5. /\ DOMAIN handed' = {"nmap", "zap", "nuclei"}
      /\ handed'["nmap"] = handed["nmap"] /\ handed'["nuclei"] = {}
      /\ handed'["zap"] \subseteq DOMAIN ts
      /\ config.zap => handed'["zap"] = DOMAIN ts
  BY <1>1, <1>4 DEF LayersInv, HandedTypeOK
<1>6. FindingsTypeOK' /\ RestTypeOK' /\ EverythingReportedInScope'
  BY <1>4 DEF LayersInv, FindingsTypeOK, RestTypeOK, EverythingReportedInScope
<1>7. HandedTypeOK'
  BY <1>3, <1>5 DEF HandedTypeOK
<1>8. LoadedInv' /\ ClearedInv' /\ EmptyInv'
  BY <1>1, <1>4, <1>5 DEF LayersInv, LoadedInv, ClearedInv, Cleared, EmptyInv
<1>9. NetworkInv'
  BY <1>4, <1>5 DEF LayersInv, NetworkInv, Cleared
<1>10. HandedInv'
  BY <1>1, <1>2, <1>3, <1>4, <1>5 DEF HandedInv
<1>11. AuthInv'
  BY <1>1, <1>3, <1>4 DEF AuthInv
<1>12. QED
  BY <1>6, <1>7, <1>8, <1>9, <1>10, <1>11 DEF LayersInv

LEMMA RunTaskKeeps == LayersInv /\ IInv /\ RunTask => LayersInv'
<1> SUFFICES ASSUME LayersInv, IInv, RunTask PROVE LayersInv'
  OBVIOUS
<1>1. PICK t \in DOMAIN auth : TaskStep(t)
  BY DEF RunTask
<1>2. auth' = auth
  BY <1>1, Frame DEF IInv, ZapTypeOK
<1>3. UNCHANGED scanVars
  BY DEF RunTask
<1>4. FindingsTypeOK' /\ HandedTypeOK' /\ RestTypeOK' /\ EverythingReportedInScope'
  BY <1>3 DEF scanVars, LayersInv, FindingsTypeOK, HandedTypeOK, RestTypeOK,
              EverythingReportedInScope
<1>5. LoadedInv' /\ ClearedInv' /\ EmptyInv'
  BY <1>2, <1>3 DEF scanVars, LayersInv, LoadedInv, ClearedInv, Cleared, EmptyInv
<1>6. NetworkInv' /\ HandedInv' /\ AuthInv'
  BY <1>2, <1>3 DEF scanVars, LayersInv, NetworkInv, Cleared, HandedInv, AuthInv
<1>7. QED
  BY <1>4, <1>5, <1>6 DEF LayersInv

LEMMA EndWebKeeps == LayersInv /\ EndWeb => LayersInv'
<1> SUFFICES ASSUME LayersInv, EndWeb PROVE LayersInv'
  OBVIOUS
<1>1. /\ stage = "zap" /\ stage' = "nuclei"
      /\ UNCHANGED <<file, acknowledged, config, plan, handed, xml, network,
                     template, outcome, auth>>
  BY DEF EndWeb, zapVars
<1>2. \A f \in web' : Graded(f) /\ f.url # Absent /\ UrlInScope(f.url, config.scope)
  BY ZapFindingOf DEF EndWeb
<1>3. FindingsTypeOK'
  BY <1>1, <1>2 DEF LayersInv, FindingsTypeOK
<1>4. HandedTypeOK' /\ RestTypeOK'
  BY <1>1 DEF LayersInv, HandedTypeOK, RestTypeOK
<1>5. EverythingReportedInScope'
  BY <1>1, <1>2 DEF LayersInv, EverythingReportedInScope
<1>6. LoadedInv' /\ ClearedInv' /\ EmptyInv'
  BY <1>1 DEF LayersInv, LoadedInv, ClearedInv, Cleared, EmptyInv
<1>7. NetworkInv' /\ HandedInv' /\ AuthInv'
  BY <1>1 DEF LayersInv, NetworkInv, Cleared, HandedInv, AuthInv
<1>8. QED
  BY <1>3, <1>4, <1>5, <1>6, <1>7 DEF LayersInv

LEMMA NucleiKeeps == LayersInv /\ NucleiScan => LayersInv'
<1> SUFFICES ASSUME LayersInv, NucleiScan PROVE LayersInv'
  OBVIOUS
<1>1. /\ stage = "nuclei" /\ outcome = "none" /\ Cleared
      /\ plan = ScanPlan(config)
      /\ handed["nuclei"] = {} /\ template = {}
  BY DEF NucleiScan, LayersInv, LoadedInv, ClearedInv, Cleared, EmptyInv, RestTypeOK
<1>2. ~SelectedUrls(config).raised /\ plan.web = UrlsOf(config)
  BY <1>1, HostsSelected DEF Cleared
<1> DEFINE ts == DOMAIN WebTargets
<1>3. /\ ts \subseteq Url /\ UrlsOf(config) \subseteq ts
      /\ \A u \in ts :
           u \in UrlsOf(config) \/ HostOfUrl(u) \in {f.host : f \in network}
  BY <1>1, WebTargetsCollected DEF LayersInv, Cleared
<1>4. /\ UNCHANGED <<file, acknowledged, config, plan, xml, network, web, auth>>
      /\ outcome' = "done" /\ stage' = "over"
      /\ \/ /\ UNCHANGED <<handed, template>>
            /\ ~config.nuclei \/ ts = {}
         \/ /\ handed' = [handed EXCEPT !["nuclei"] = ts]
            /\ \E lines \in Lines(ts) : template' = NucleiFindings(lines, config.scope)
  BY <1>1, <1>2 DEF NucleiScan, Over, zapVars
<1> HIDE DEF ts
<1>5. /\ DOMAIN handed' = {"nmap", "zap", "nuclei"}
      /\ handed'["nmap"] = handed["nmap"] /\ handed'["zap"] = handed["zap"]
      /\ handed'["nuclei"] \subseteq ts
      /\ config.nuclei => handed'["nuclei"] = ts
  BY <1>1, <1>4 DEF LayersInv, HandedTypeOK
<1>6. \A f \in template' :
        /\ Graded(f) /\ f.source = "nuclei"
        /\ f.url = Absent \/ UrlInScope(f.url, config.scope)
  <2>1. CASE UNCHANGED template
    BY <1>1, <2>1
  <2>2. CASE \E lines \in Lines(ts) : template' = NucleiFindings(lines, config.scope)
    <3>1. PICK lines \in Lines(ts) : template' = NucleiFindings(lines, config.scope)
      BY <2>2
    <3>2. DOMAIN Results = 1..Len(Results) /\ Len(Results) \in Nat
      BY ResultsAssumption
    <3>3. lines \in SUBSET (Range(Results) \cup {TornLine})
      BY <3>2 DEF Lines, Range
    <3>4. QED
      BY <3>1, <3>3, NucleiFindingOf
  <2>3. QED
    BY <1>4, <2>1, <2>2
<1>7. FindingsTypeOK'
  BY <1>4, <1>6 DEF LayersInv, FindingsTypeOK
<1>8. HandedTypeOK'
  BY <1>3, <1>5 DEF LayersInv, HandedTypeOK
<1>9. RestTypeOK'
  BY <1>4 DEF LayersInv, RestTypeOK
<1>10. EverythingReportedInScope'
  BY <1>4, <1>6 DEF LayersInv, EverythingReportedInScope
<1>11. LoadedInv' /\ ClearedInv' /\ EmptyInv'
  BY <1>1, <1>4, <1>5 DEF LayersInv, LoadedInv, ClearedInv, Cleared, EmptyInv
<1>12. NetworkInv' /\ AuthInv'
  BY <1>4, <1>5 DEF LayersInv, NetworkInv, Cleared, AuthInv
<1>13. HandedInv'
  BY <1>1, <1>2, <1>3, <1>4, <1>5 DEF LayersInv, HandedInv
<1>14. QED
  BY <1>7, <1>8, <1>9, <1>10, <1>11, <1>12, <1>13 DEF LayersInv

LEMMA ScanInit == Init => ScanInv
<1> SUFFICES ASSUME Init PROVE ScanInv
  OBVIOUS
<1>1. IInv
  BY IInvInit DEF Init
<1>2. /\ file \in File /\ acknowledged \in BOOLEAN
      /\ stage = "load" /\ outcome = "none" /\ config = Absent /\ plan = Absent
      /\ xml = Absent /\ network = {} /\ web = {} /\ template = {}
      /\ DOMAIN handed = {"nmap", "zap", "nuclei"}
      /\ handed["nmap"] = {} /\ handed["zap"] = {} /\ handed["nuclei"] = {}
      /\ DOMAIN auth = {}
  BY DEF Init, ZapInit
<1>3. FindingsTypeOK /\ HandedTypeOK /\ RestTypeOK /\ EverythingReportedInScope
  BY <1>2 DEF FindingsTypeOK, HandedTypeOK, RestTypeOK, EverythingReportedInScope
<1>4. LoadedInv /\ ClearedInv /\ EmptyInv /\ NetworkInv /\ HandedInv /\ AuthInv
  BY <1>2 DEF LoadedInv, ClearedInv, EmptyInv, NetworkInv, HandedInv, AuthInv
<1>5. QED
  BY <1>1, <1>3, <1>4, ScanInvParts DEF LayersInv

LEMMA ScanNext == ScanInv /\ [Next]_vars => ScanInv'
<1> SUFFICES ASSUME ScanInv, [Next]_vars
             PROVE  ScanInv'
  OBVIOUS
<1>1. LayersInv /\ IInv
  BY ScanInvParts
<1>2. IInv'
  BY <1>1, StepRefines, IInvNext
<1>3. LayersInv'
  <2>1. CASE UNCHANGED vars
    <3>1. FindingsTypeOK' /\ HandedTypeOK' /\ RestTypeOK' /\ EverythingReportedInScope'
      BY <1>1, <2>1 DEF vars, scanVars, LayersInv, FindingsTypeOK, HandedTypeOK, RestTypeOK,
                  EverythingReportedInScope
    <3>2. LoadedInv' /\ ClearedInv' /\ EmptyInv'
      BY <1>1, <2>1 DEF vars, scanVars, zapVars, LayersInv, LoadedInv, ClearedInv, Cleared,
                        EmptyInv
    <3>3. NetworkInv' /\ HandedInv' /\ AuthInv'
      BY <1>1, <2>1 DEF vars, scanVars, zapVars, LayersInv, NetworkInv, Cleared, HandedInv,
                        AuthInv
    <3>4. QED
      BY <3>1, <3>2, <3>3 DEF LayersInv
  <2>2. QED
    BY <1>1, <2>1, LoadKeeps, PreflightKeeps, NmapKeeps, StartWebKeeps, RunTaskKeeps,
       EndWebKeeps, NucleiKeeps DEF Next
<1>4. QED
  BY <1>2, <1>3, ScanInvParts, PTL

LEMMA ScanInductive == Spec => []ScanInv
BY ScanInit, ScanNext, PTL DEF Spec

-----------------------------------------------------------------------------
(* The theorems                                                            *)

\* The type invariant: whatever the scanners write, severities, confidences
\* and scores of the findings are in their ranges.
THEOREM ScanTypeCorrect == Spec => []TypeOK
BY ScanInductive, PTL DEF ScanInv

\* Inside a scan, whatever the layers before and after them do, the tasks and
\* the daemon behave as ZapContexts says.
THEOREM ScanRefinesZapContexts == Spec => ImplementsZapContexts
<1>1. Init => ZapInit
  BY DEF Init
<1>2. QED
  BY <1>1, ScanInductive, StepRefines, PTL DEF Spec, ImplementsZapContexts, ZapSpec

\* What is proved of the tasks alone holds of the scan.
THEOREM ScanAuthenticatesSafely ==
  Spec => [](UserIsOwnAndComplete /\ MissingSecretLeavesNoTrace)
<1>1. ScanInv => UserIsOwnAndComplete /\ MissingSecretLeavesNoTrace
  BY OwnAndComplete, NoTrace DEF ScanInv
<1>2. QED
  BY <1>1, ScanInductive, PTL

\* Whatever the configuration and wherever a scanner is led to, the URL of a
\* finding lies in the scope, and so does the host of one without a URL, unless
\* nuclei reports it: of a result that matched no URL nothing is looked at.
THEOREM NothingOutsideIsReported == Spec => []EverythingReportedInScope
BY ScanInductive, PTL DEF ScanInv

LEMMA Validated == ScanInv => ValidatedMeansScanned
<1> SUFFICES ASSUME ScanInv PROVE ValidatedMeansScanned
  OBVIOUS
<1>1. DOMAIN handed = {"nmap", "zap", "nuclei"}
  BY DEF ScanInv, TypeOK
<1>2. UNION Range(handed) # {} => plan.valid /\ acknowledged
  <2>1. CASE outcome = "done" \/ stage \in {"network", "web", "zap", "nuclei"}
    BY <2>1 DEF ScanInv, ClearedInv, Cleared
  <2>2. CASE outcome = "refused" \/ stage \in {"load", "preflight"}
    <3>1. handed["nmap"] = {} /\ handed["zap"] = {} /\ handed["nuclei"] = {}
      BY <2>2 DEF ScanInv, EmptyInv, ClearedInv
    <3>2. UNION Range(handed) = {}
      BY <1>1, <3>1 DEF Range
    <3>3. QED
      BY <3>2
  <2>3. QED
    BY <2>1, <2>2 DEF ScanInv, TypeOK, ClearedInv
<1>3. outcome \in {"refused", "raised"} /\ plan # Absent => ~plan.valid \/ ~acknowledged
  BY DEF ScanInv, ClearedInv
<1>4. outcome = "done" =>
        /\ config.nmap => handed["nmap"] = plan.network
        /\ config.zap => plan.web \subseteq handed["zap"]
        /\ config.nuclei => plan.web \subseteq handed["nuclei"]
        /\ \A u \in handed["zap"] \cup handed["nuclei"] :
              u \in plan.web \/ HostOfUrl(u) \in {f.host : f \in network}
  BY DEF ScanInv, HandedInv
<1>5. QED
  BY <1>2, <1>3, <1>4 DEF ValidatedMeansScanned

\* What validate finds fault with is never scanned, what it finds good is not
\* refused, and the scanners get what it lists and what nmap leads to.
THEOREM ValidationIsHonest == Spec => []ValidatedMeansScanned
BY Validated, ScanInductive, PTL

\* The variables that validate asks for are those the set-up of the auth reads.
LEMMA SecretsAreNamed ==
  ASSUME NEW c, NEW t \in Range(c.targets), t.auth \in Auth
  PROVE  Secrets(t.auth) \subseteq ScanPlan(c).secrets
<1>1. Secrets(t.auth) \subseteq AuthSecretNames(t.auth)
  BY ZapContextsAssumption DEF Secrets, AuthSecretNames, AuthBlock
<1>2. t.auth # Absent
  BY ZapContextsAssumption
<1> DEFINE asked == UNION {AuthSecretNames(r.auth) :
                             r \in {r \in Range(c.targets) : r.auth # Absent}}
<1>3. AuthSecretNames(t.auth) \subseteq asked
  BY <1>2
<1>4. asked \subseteq ScanPlan(c).secrets
  BY DEF ScanPlan
<1> HIDE DEF asked
<1>5. QED
  BY <1>1, <1>3, <1>4

LEMMA DeclaredAuthenticated == ScanInv => DeclaredMeansAuthenticated
<1> SUFFICES ASSUME ScanInv, plan # Absent, plan.secrets \subseteq Env,
                    NEW r \in sent, r.target \in plan.web,
                    FirstListing(config, r.target).auth # Absent,
                    ~failed[r.target]
             PROVE  LET a == FirstListing(config, r.target).auth
                    IN  /\ Credentialed(a) => r.user = HostOfUrl(r.target)
                        /\ a.kind = "header" => r.target \in r.headers
  BY DEF DeclaredMeansAuthenticated
<1> DEFINE a == FirstListing(config, r.target).auth
<1>1. config # Absent /\ Declares(config) /\ plan = ScanPlan(config)
  BY DEF ScanInv, TypeOK, LoadedInv
<1>2. r.target \in UrlsOf(config)
  BY <1>1, PlanAgrees
<1>3. /\ FirstListing(config, r.target) \in Range(config.targets)
      /\ a \in Auth
  BY <1>1, <1>2, FirstListingLists, DeclaredUrls DEF Declares
<1>4. r.target \in DOMAIN auth
  <2>1. r.target \in Url /\ pc[r.target] # "idle"
    BY DEF ScanInv, IInv, ZapTypeOK, Request, SentInv
  <2>2. QED
    BY <2>1 DEF ScanInv, IInv, TaskInv
<1>5. auth[r.target] = a
  BY <1>2, <1>4 DEF ScanInv, AuthInv
<1>6. Resolved(a)
  <2>1. Secrets(a) \subseteq ScanPlan(config).secrets
    BY <1>3, SecretsAreNamed
  <2>2. QED
    BY <1>1, <2>1 DEF Resolved
<1> HIDE DEF a
<1>7. a # Absent
  BY <1>3, ZapContextsAssumption
<1>8. SetUpMeansAuthenticated
  BY Authenticated DEF ScanInv
<1>9. (CASE Credentialed(a) -> r.user = HostOfUrl(r.target)
         [] a.kind = "header" -> r.target \in r.headers
         [] OTHER -> r.user = None /\ Mine(r.target))
  BY <1>5, <1>6, <1>7, <1>8 DEF SetUpMeansAuthenticated
<1>10. a.kind = "header" => ~Credentialed(a)
  BY DEF Credentialed
<1>11. /\ Credentialed(a) => r.user = HostOfUrl(r.target)
       /\ a.kind = "header" => r.target \in r.headers
  BY <1>9, <1>10
<1>12. QED
  BY <1>11 DEF a

\* With the variables set that validate asks for, every request to a declared
\* URL is authenticated the way its first target says, unless a call failed.
THEOREM DeclaredIsAuthenticated == Spec => []DeclaredMeansAuthenticated
BY DeclaredAuthenticated, ScanInductive, PTL

LEMMA DeclaredReported == ScanInv => DeclaredAddressReported
<1> SUFFICES ASSUME ScanInv, Finished, NEW h \in Range(World),
                    NEW t \in handed["nmap"],
                    t.kind = "net", Covers(t, h), Open(h)
             PROVE  Reported(h)
  BY DEF DeclaredAddressReported
<1>1. Cleared /\ handed["nmap"] = HostsOf(config) /\ config # Absent
  BY DEF ScanInv, NetworkInv, Cleared
<1>2. HostInScope(t, config.scope.hosts)
  BY <1>1, ScopeOfPlaces DEF Cleared
<1>3. HostInScope(h.host, config.scope.hosts)
  <2>1. h.host.kind = "net"
    BY WorldAssumption
  <2>2. h.host.addrs \subseteq t.addrs
    BY DEF Covers
  <2>3. QED
    BY <1>2, <2>1, <2>2, CoveredIsInScope
<1>4. h \in ParsedHosts(xml)
  <2>1. xml # Absent /\ xml.cut = "nowhere" /\ xml.hosts = Visible(handed["nmap"], Len(World))
    BY DEF ScanInv, NetworkInv, Finished
  <2>2. PICK i \in DOMAIN World : World[i] = h
    BY DEF Range
  <2>3. i \in 1..Len(World)
    BY WorldIsSequence
  <2>4. h \in Visible(handed["nmap"], Len(World))
    BY <2>2, <2>3 DEF Visible
  <2>5. QED
    BY <2>1, <2>4 DEF ParsedHosts
<1>5. network = NmapFindings(xml, config.scope.hosts)
  BY <1>1 DEF ScanInv, NetworkInv
<1>6. QED
  BY <1>3, <1>4, <1>5, OpenHostFound DEF Reported

\* When nmap runs to its end, every open host that a declared address or range
\* covers is reported: no check of the scope drops it on the way.
THEOREM DeclaredIsReported == Spec => []DeclaredAddressReported
BY DeclaredReported, ScanInductive, PTL

LEMMA ScoreKept == ScanInv => ScoreNotLost
<1> SUFFICES ASSUME ScanInv, NEW h \in ParsedHosts(xml), NEW s \in h.services,
                    NEW script \in s.scripts, NEW row \in Range(script.rows),
                    Reported(h), s.open, row.cvss \in 0..100
             PROVE  \E f \in network :
                      /\ f.host = h.host /\ f.port = s.port
                      /\ f.title = <<script.id, row.cve>>
                      /\ f.cvss # Unknown /\ f.sev = SeverityFromCvss(f.cvss)
  BY DEF ScoreNotLost
<1>1. ParsedHosts(xml) \subseteq Range(World)
  BY ParsedInWorld DEF ScanInv, TypeOK
<1>2. config # Absent /\ network = NmapFindings(xml, config.scope.hosts)
  <2>1. network # {}
    BY DEF Reported
  <2>2. config # Absent
    BY <2>1 DEF ScanInv, ClearedInv, Cleared, EmptyInv, TypeOK
  <2>3. QED
    BY <2>2 DEF ScanInv, NetworkInv
<1>3. h.up /\ HostInScope(h.host, config.scope.hosts)
  <2>1. PICK f \in network : f.host = h.host
    BY DEF Reported
  <2>2. PICK g \in ParsedHosts(xml) :
          g.up /\ HostInScope(g.host, config.scope.hosts) /\ f \in HostFindings(g)
    BY <1>2, NmapFindingOf
  <2>3. g.host = h.host
    BY <2>1, <2>2, HostFindingAt
  <2>4. g = h
    BY <1>1, <2>3, WorldAssumption DEF Range
  <2>5. QED
    BY <2>2, <2>4
<1>4. DOMAIN script.rows \subseteq Nat
  <2>1. h \in Range(World)
    BY <1>1
  <2>2. script \in h.scripts \cup UNION {r.scripts : r \in h.services}
    OBVIOUS
  <2>3. script.rows \in Seq(Range(script.rows))
    BY <2>1, <2>2, WorldAssumption
  <2>4. QED
    BY <2>3
<1>5. PICK f \in CveFindings(h.host, s.port, s.service, script) :
        Scored(f, h.host, s.port, script, row.cve)
  BY <1>4, ScoredCveFound
<1>6. f \in ServiceFindings(h.host, s)
  BY <1>5 DEF ServiceFindings
<1>7. f \in HostFindings(h)
  BY <1>6 DEF HostFindings
<1>8. f \in network
  BY <1>2, <1>3, <1>7 DEF NmapFindings
<1>9. QED
  BY <1>5, <1>8 DEF Scored

\* A score that a script states for a CVE reaches the finding, wherever among
\* the sightings of that CVE it stands.
THEOREM StatedScoreIsKept == Spec => []ScoreNotLost
BY ScoreKept, ScanInductive, PTL

=============================================================================
