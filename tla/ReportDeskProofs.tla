-------------------------- MODULE ReportDeskProofs --------------------------
(***************************************************************************)
(* Proofs about ReportDesk, for any files, command lines and clients: every *)
(* report that is whole is canonical whatever was written how often, a      *)
(* merge keeps what it read and may be run again, and from that what the    *)
(* trend, the split among owners, the JUnit report of a gate, the           *)
(* remediation plan and the other documents say.                            *)
(***************************************************************************)
EXTENDS ReportDesk, ReportsProofs

-----------------------------------------------------------------------------
(***************************************************************************)
(* What the readers of other documents make is entries                      *)
(***************************************************************************)
\* The best of some scores is one of them or unknown.
LEMMA BestIsScore ==
    ASSUME NEW scores \in SUBSET (Score \cup {None})
    PROVE  BestOf(scores) \in Score \cup {None}
<1> DEFINE V == {None} \cup scores
<1>1. V \in SUBSET Int /\ V # {} /\ (\A x \in V : x <= 100) /\ V \in SUBSET (Score \cup {None})
  BY DEF Score, None
<1>2. BestOf(scores) = Max(V)
  BY DEF BestOf
<1> HIDE DEF V
<1>3. 100 \in Int
  OBVIOUS
<1>4. Max(V) \in V
  BY <1>1, <1>3, MaxOf
<1>5. QED
  BY <1>1, <1>2, <1>4

LEMMA MadeIsEntry ==
    ASSUME NEW fp \in Fingerprint, NEW sev \in Severity \cup {None}, NEW vulns,
           NEW cvss \in Score \cup {None}, NEW fix \in Nat, NEW cwes \in SUBSET Cwe,
           NEW meta, IsMeta(meta)
    PROVE  IsEntry(MadeFinding(fp, sev, vulns, cvss, fix, cwes, meta))
<1> DEFINE m == MadeFinding(fp, sev, vulns, cvss, fix, cwes, meta)
<1>1. SeverityOfScore(cvss) \in Severity
  <2>1. cvss \in Int
    BY DEF Score, None
  <2>2. QED
    BY <2>1 DEF SeverityOfScore, Severity
<1>2. (IF sev # None THEN sev ELSE SeverityOfScore(cvss)) \in Severity
  BY <1>1
<1>3. /\ DOMAIN m = EntryDomain
      /\ m.fp = fp /\ m.at = Asset0 /\ m.conf = None /\ m.cves = vulns \cap Cve
      /\ m.sev = (IF sev # None THEN sev ELSE SeverityOfScore(cvss))
      /\ m.cvss = cvss /\ m.epss = None /\ m.kev = FALSE
      /\ m.fix = fix /\ m.cwes = cwes /\ m.meta = meta
  BY DEF MadeFinding, EntryDomain
<1>4. Asset0 \in Place
  BY SupplyChainAssumption
<1> HIDE DEF m
<1>5. EntryFields(m)
  BY <1>2, <1>3, <1>4 DEF EntryFields
<1>6. IsEntry(m)
  BY <1>3, <1>5, EntryIs
<1>7. QED
  BY <1>6 DEF m

LEMMA IdentifiedExists ==
    ASSUME NEW host, NEW source, NEW plugin, NEW title,
           Identifiable(host, source, plugin, title)
    PROVE  FingerprintOf(host, source, plugin, title) \in Fingerprint
BY DEF Identifiable, FingerprintOf

\* The component of an SBOM and an advisory for it come to an entry.
LEMMA SbomFindingIsEntry ==
    ASSUME NEW sbom, NEW osv, Analyzable(sbom, osv),
           NEW c \in Range(Components(sbom)), Queryable(c), NEW a \in osv[c.purl]
    PROVE  IsEntry(SbomFinding(sbom.subject, c, a))
<1> DEFINE fp == FingerprintOf(sbom.subject, SbomSource, a.id, <<a.id>> \o Label(c))
           meta == [NoMeta EXCEPT !.package = c.name, !.osv = a.id, !.purl = c.purl]
<1>1. /\ a.scores \subseteq Score \cup {None} /\ a.fixes[c.purl] \in Nat
      /\ Identifiable(sbom.subject, SbomSource, a.id, <<a.id>> \o Label(c))
  BY DEF Analyzable
<1>2. fp \in Fingerprint
  BY <1>1, IdentifiedExists
<1>3. BestOf(a.scores) \in Score \cup {None}
  BY <1>1, BestIsScore
<1>4. IsMeta(meta)
  <2>1. c.name \in Nat
    BY DEF Analyzable
  <2>2. QED
    BY <2>1 DEF NoMeta, IsMeta, MetaKey
<1>5. SbomFinding(sbom.subject, c, a)
        = MadeFinding(fp, None, a.aliases, BestOf(a.scores), a.fixes[c.purl], {}, meta)
  BY DEF SbomFinding
<1>6. {} \in SUBSET Cwe /\ None \in Severity \cup {None}
  OBVIOUS
<1> HIDE DEF fp, meta
<1>7. QED
  BY <1>1, <1>2, <1>3, <1>4, <1>5, <1>6, MadeIsEntry

LEMMA SbomFindingsAreEntries ==
    ASSUME NEW sbom, NEW osv, Analyzable(sbom, osv)
    PROVE  IsList(SbomFindings(sbom, osv)) /\ IsReport(SbomFindings(sbom, osv))
<1> DEFINE all == Components(sbom)
           queried == At(all, {i \in DOMAIN all : Queryable(all[i])})
           advisories(c) == SortedBy(osv[c.purl], [a \in osv[c.purl] |-> <<a.id>>])
           Of(c) == [n \in DOMAIN advisories(c) |-> SbomFinding(sbom.subject, c, advisories(c)[n])]
           lists == [n \in DOMAIN queried |-> Of(queried[n])]
<1>1. IsList(all)
  <2> DEFINE listed == sbom.components
             named == {i \in DOMAIN listed : listed[i].name # Absent}
             firsts == {i \in named : \A j \in named :
                           j < i => ComponentKey(listed[j]) # ComponentKey(listed[i])}
  <2>1. IsList(listed)
    BY SeqIsList DEF Analyzable
  <2>2. firsts \in SUBSET DOMAIN listed
    OBVIOUS
  <2>3. all = At(listed, firsts)
    BY DEF Components
  <2> HIDE DEF listed, firsts, all
  <2>4. QED
    BY <2>1, <2>2, <2>3, Picked
<1>2. /\ IsList(queried)
      /\ \A n \in DOMAIN queried : queried[n] \in Range(all) /\ Queryable(queried[n])
  <2> DEFINE I == {i \in DOMAIN all : Queryable(all[i])}
  <2>1. I \in SUBSET DOMAIN all
    OBVIOUS
  <2>2. \A i \in I : all[i] \in Range(all) /\ Queryable(all[i])
    BY DEF Range
  <2> HIDE DEF I, all
  <2>3. /\ IsList(At(all, I))
        /\ \A n \in DOMAIN At(all, I) : InOrder(I)[n] \in I /\ At(all, I)[n] = all[InOrder(I)[n]]
    BY <1>1, <2>1, Picked
  <2>4. IsList(At(all, I)) /\ \A n \in DOMAIN At(all, I) :
          At(all, I)[n] \in Range(all) /\ Queryable(At(all, I)[n])
    BY <2>2, <2>3
  <2>5. QED
    BY <2>4 DEF I
<1>3. ASSUME NEW c \in Range(all), Queryable(c)
      PROVE  IsList(Of(c)) /\ IsReport(Of(c))
  <2> DEFINE A == osv[c.purl]
             key == [a \in A |-> <<a.id>>]
  <2>1. IsFiniteSet(A) /\ (\A a, b \in A : a.id = b.id => a = b) /\ \A a \in A : a.id \in VulnId
    BY <1>3 DEF Analyzable
  <2>2. \A a \in A : key[a] \in Seq(Int)
    <3>1. \A x \in VulnId : x \in Int
      BY SupplyChainAssumption
    <3> HIDE DEF A
    <3>2. \A a \in A : a.id \in Int
      BY <2>1, <3>1
    <3>3. QED
      BY <3>2
  <2>3. \A a, b \in A : key[a] = key[b] => a = b
    BY <2>1
  <2>4. advisories(c) = SortedBy(A, key)
    OBVIOUS
  <2> HIDE DEF A, key
  <2>5. Cardinality(A) \in Nat /\ advisories(c) \in [1..Cardinality(A) -> A]
    <3>1. Cardinality(A) \in Nat /\ SortedBy(A, key) \in [1..Cardinality(A) -> A]
      BY <2>1, <2>2, <2>3, Sorted
    <3> HIDE DEF advisories
    <3>2. QED
      BY <2>4, <3>1
  <2> HIDE DEF advisories
  <2>6. \A n \in 1..Cardinality(A) : IsEntry(SbomFinding(sbom.subject, c, advisories(c)[n]))
    <3>1. \A a \in A : IsEntry(SbomFinding(sbom.subject, c, a))
      BY <1>3, SbomFindingIsEntry DEF A
    <3>2. QED
      BY <2>5, <3>1
  <2>7. Of(c) = [n \in 1..Cardinality(A) |-> SbomFinding(sbom.subject, c, advisories(c)[n])]
    BY <2>5
  <2>8. IsList(Of(c)) /\ Len(Of(c)) = Cardinality(A)
    <3>1. \A n \in Nat : \A q : q = [i \in 1..n |-> SbomFinding(sbom.subject, c, advisories(c)[i])]
            => IsList(q) /\ Len(q) = n
      BY DEF IsList
    <3>2. QED
      BY <2>5, <2>7, <3>1
  <2>9. IsReport(Of(c))
    BY <2>6, <2>7, <2>8 DEF IsReport
  <2>10. QED
    BY <2>8, <2>9
<1>4. SbomFindings(sbom, osv) = FlattenSeq(lists)
  BY DEF SbomFindings
<1> HIDE DEF all, queried, Of
<1>5. DOMAIN queried = 1..Len(queried) /\ Len(queried) \in Nat
  BY <1>2, ListIs
<1>6. IsList(lists) /\ DOMAIN lists = 1..Len(queried)
  <2>1. \A n \in Nat : \A q : q = [i \in 1..n |-> Of(queried[i])]
          => IsList(q) /\ DOMAIN q = 1..n
    BY DEF IsList
  <2>2. QED
    BY <1>5, <2>1
<1>7. \A n \in DOMAIN lists : IsList(lists[n]) /\ IsReport(lists[n])
  BY <1>2, <1>3, <1>5
<1> HIDE DEF lists
<1>8. QED
  BY <1>4, <1>6, <1>7, JoinedIsReport

\* Enrichment fills in scores and leaves an entry an entry.
LEMMA EnrichedIsEntry ==
    ASSUME NEW f, IsEntry(f), NEW intel \in Intel
    PROVE  IsEntry(Enriched(f, intel))
<1> DEFINE m == Enriched(f, intel)
<1>1. EntryFields(f) /\ DOMAIN f = EntryDomain
  BY EntryIs
<1>2. ASSUME NEW scores \in [Cve -> Score \cup {None}]
      PROVE  Best(scores, f.cves) \in Score \cup {None}
  <2> DEFINE V == {scores[c] : c \in f.cves}
  <2>1. V \in SUBSET (Score \cup {None})
    BY <1>1 DEF EntryFields
  <2>2. Best(scores, f.cves) = BestOf(V)
    BY DEF Best, BestOf
  <2> HIDE DEF V
  <2>3. QED
    BY <2>1, <2>2, BestIsScore
<1>3. /\ intel.nvd \in [Cve -> Score \cup {None}] /\ intel.epss \in [Cve -> Score \cup {None}]
  BY DEF Intel
<1>4. /\ DOMAIN m = EntryDomain
      /\ m.fp = f.fp /\ m.at = f.at /\ m.sev = f.sev /\ m.conf = f.conf /\ m.cves = f.cves
      /\ m.fix = f.fix /\ m.cwes = f.cwes /\ m.meta = f.meta
      /\ m.cvss = (IF f.cvss # None THEN f.cvss ELSE Best(intel.nvd, f.cves))
      /\ m.epss = (IF f.epss # None THEN f.epss ELSE Best(intel.epss, f.cves))
      /\ m.kev = (f.kev \/ f.cves \cap intel.kev # {})
  BY <1>1 DEF Enriched, EntryDomain
<1>5. Best(intel.nvd, f.cves) \in Score \cup {None} /\ Best(intel.epss, f.cves) \in Score \cup {None}
  BY <1>2, <1>3
<1> HIDE DEF m
<1>6. /\ m.cvss \in Score \cup {None} /\ m.epss \in Score \cup {None} /\ m.kev \in BOOLEAN
  <2>1. EntryFields(f)
    BY <1>1
  <2>2. f.cvss \in Score \cup {None} /\ f.epss \in Score \cup {None}
    BY <2>1 DEF EntryFields
  <2>3. QED
    BY <1>4, <1>5, <2>2
<1>7. EntryFields(m)
  BY <1>1, <1>4, <1>6 DEF EntryFields
<1>8. IsEntry(m)
  BY <1>4, <1>7, EntryIs
<1>9. QED
  BY <1>8 DEF m

LEMMA SbomReportIsCanonical ==
    ASSUME NEW sbom, NEW osv, Analyzable(sbom, osv), NEW intel \in Intel, NEW enrich
    PROVE  /\ IsList(SbomReport(sbom, osv, intel, enrich))
           /\ IsReport(SbomReport(sbom, osv, intel, enrich))
           /\ Canonical(SbomReport(sbom, osv, intel, enrich))
<1> DEFINE findings == SbomFindings(sbom, osv)
           unscored == [intel EXCEPT !.nvd = [c \in Cve |-> None]]
           enriched == [i \in DOMAIN findings |-> Enriched(findings[i], unscored)]
<1>1. IsList(findings) /\ IsReport(findings)
  BY SbomFindingsAreEntries
<1>2. unscored \in Intel
  BY DEF Intel
<1>3. SbomReport(sbom, osv, intel, enrich) = Combined(IF enrich THEN enriched ELSE findings)
  BY DEF SbomReport
<1> HIDE DEF findings, unscored
<1>4. DOMAIN findings = 1..Len(findings) /\ Len(findings) \in Nat
  BY <1>1, ListIs
<1>5. IsList(enriched) /\ Len(enriched) = Len(findings)
  <2>1. \A n \in Nat : \A q : q = [i \in 1..n |-> Enriched(findings[i], unscored)]
          => IsList(q) /\ Len(q) = n
    BY DEF IsList
  <2>2. QED
    BY <1>4, <2>1
<1>6. IsReport(enriched)
  <2>1. \A i \in 1..Len(findings) : IsEntry(Enriched(findings[i], unscored))
    BY <1>1, <1>2, EnrichedIsEntry DEF IsReport
  <2>2. QED
    BY <1>4, <1>5, <2>1 DEF IsReport
<1> HIDE DEF enriched
<1>7. CASE enrich
  BY <1>3, <1>5, <1>6, <1>7, CombinedIsCanonical
<1>8. CASE ~enrich
  BY <1>1, <1>3, <1>8, CombinedIsCanonical
<1>9. QED
  BY <1>7, <1>8

\* What a vulnerability of a Trivy or Grype report comes to is an entry.
LEMMA ImportReportIsCanonical ==
    ASSUME NEW doc, Importable(doc)
    PROVE  /\ IsList(ImportReport(doc)) /\ IsReport(ImportReport(doc))
           /\ Canonical(ImportReport(doc))
<1> DEFINE vulns == Identified(doc)
           key == [i \in DOMAIN vulns |->
                      <<NameOrNone(vulns[i].package), vulns[i].id, i>>]
           order == SortedBy(DOMAIN vulns, key)
           imported == [n \in DOMAIN order |-> ImportedFinding(doc, vulns[order[n]])]
<1>1. IsList(vulns) /\ \A i \in DOMAIN vulns : vulns[i] \in Range(doc.vulns)
                                               /\ vulns[i].id # Absent
  <2> DEFINE all == doc.vulns
             I == {i \in DOMAIN all : all[i].id # Absent}
  <2>1. IsList(all)
    BY SeqIsList DEF Importable
  <2>2. I \in SUBSET DOMAIN all /\ \A i \in I : all[i] \in Range(all) /\ all[i].id # Absent
    BY DEF Range
  <2>3. vulns = At(all, I)
    BY DEF Identified
  <2> HIDE DEF all, I, vulns
  <2>4. /\ IsList(At(all, I))
        /\ \A n \in DOMAIN At(all, I) : InOrder(I)[n] \in I /\ At(all, I)[n] = all[InOrder(I)[n]]
    BY <2>1, <2>2, Picked
  <2>5. IsList(vulns) /\ \A i \in DOMAIN vulns : vulns[i] \in Range(all) /\ vulns[i].id # Absent
    BY <2>2, <2>3, <2>4
  <2>6. QED
    BY <2>5 DEF all
<1>2. \A v \in Range(doc.vulns) : v.id # Absent =>
        /\ v.id \in VulnId /\ v.label \in Severity \cup {None}
        /\ v.scores \subseteq Score \cup {None} /\ v.package \in Nat \cup {Absent}
        /\ v.fix \in Nat /\ v.cwes \subseteq Cwe
        /\ Identifiable(doc.host, doc.source, v.id, <<v.id>>)
  BY DEF Importable
<1>3. ASSUME NEW v \in Range(doc.vulns), v.id # Absent
      PROVE  IsEntry(ImportedFinding(doc, v)) /\ v.id \in Int /\ NameOrNone(v.package) \in Int
  <2> DEFINE fp == FingerprintOf(doc.host, doc.source, v.id, <<v.id>>)
             meta == [NoMeta EXCEPT !.package = v.package, !.purl = v.purl]
             fix == IF v.package # Absent THEN v.fix ELSE 0
             cwes == IF doc.source = TrivySource THEN v.cwes ELSE {}
  <2>1. fp \in Fingerprint
    BY <1>2, <1>3, IdentifiedExists
  <2>2. SeverityFromLabel(v.label) \in Severity
    <3>1. v.label \in Severity \cup {None}
      BY <1>2, <1>3
    <3>2. Informational \in Severity
      BY DEF Informational, Severity
    <3>3. QED
      BY <3>1, <3>2 DEF SeverityFromLabel
  <2>3. BestOf(v.scores) \in Score \cup {None}
    BY <1>2, <1>3, BestIsScore
  <2>4. fix \in Nat /\ cwes \in SUBSET Cwe
    BY <1>2, <1>3
  <2>5. IsMeta(meta)
    <3>1. v.package \in Nat \cup {Absent}
      BY <1>2, <1>3
    <3>2. QED
      BY <3>1 DEF NoMeta, IsMeta, MetaKey
  <2>6. ImportedFinding(doc, v) = MadeFinding(fp, SeverityFromLabel(v.label), {v.id},
                                              BestOf(v.scores), fix, cwes, meta)
    BY DEF ImportedFinding
  <2>7. v.id \in Int /\ NameOrNone(v.package) \in Int
    <3>1. v.id \in VulnId /\ v.package \in Nat \cup {Absent}
      BY <1>2, <1>3
    <3>2. \A x \in VulnId : x \in Int
      BY SupplyChainAssumption
    <3>3. NameOrNone(v.package) \in Int
      BY <3>1 DEF NameOrNone
    <3>4. QED
      BY <3>1, <3>2, <3>3
  <2> HIDE DEF fp, meta, fix, cwes
  <2>8. IsEntry(ImportedFinding(doc, v))
    BY <2>1, <2>2, <2>3, <2>4, <2>5, <2>6, MadeIsEntry
  <2>9. QED
    BY <2>7, <2>8
<1>4. ImportReport(doc) = Combined(imported)
  BY DEF ImportReport, Imported
<1> HIDE DEF vulns
<1>5. DOMAIN vulns = 1..Len(vulns) /\ Len(vulns) \in Nat
  BY <1>1, ListIs
<1>6. \A i \in DOMAIN vulns : key[i] \in Seq(Int)
  BY <1>1, <1>3, <1>5
<1>7. \A i, j \in DOMAIN vulns : key[i] = key[j] => i = j
  OBVIOUS
<1> HIDE DEF key
<1>8. Cardinality(DOMAIN vulns) \in Nat /\ order \in [1..Cardinality(DOMAIN vulns) -> DOMAIN vulns]
  <2>1. IsFiniteSet(DOMAIN vulns)
    BY <1>1, ListPlaces
  <2>2. QED
    BY <1>6, <1>7, <2>1, Sorted
<1> HIDE DEF order
<1> DEFINE m == Cardinality(DOMAIN vulns)
<1>9. imported = [n \in 1..m |-> ImportedFinding(doc, vulns[order[n]])]
  BY <1>8
<1>10. \A n \in 1..m : IsEntry(ImportedFinding(doc, vulns[order[n]]))
  <2>1. \A n \in 1..m : order[n] \in DOMAIN vulns
    BY <1>8
  <2>2. QED
    BY <1>1, <1>3, <2>1
<1> HIDE DEF imported
<1>11. IsList(imported) /\ Len(imported) = m
  <2>1. \A k \in Nat : \A q : q = [n \in 1..k |-> ImportedFinding(doc, vulns[order[n]])]
          => IsList(q) /\ Len(q) = k
    BY DEF IsList
  <2>2. QED
    BY <1>8, <1>9, <2>1
<1>12. IsReport(imported)
  BY <1>9, <1>10, <1>11 DEF IsReport
<1>13. QED
  BY <1>4, <1>11, <1>12, CombinedIsCanonical
-----------------------------------------------------------------------------
(***************************************************************************)
(* What a scan and a command write                                          *)
(***************************************************************************)
\* The owner and the tags of its host change neither an entry's type nor its key.
LEMMA StampedIsEntry ==
    ASSUME NEW f, IsEntry(f), NEW owner \in Nat \cup {Absent}, NEW tags
    PROVE  /\ IsEntry(Stamped(f, owner, tags))
           /\ Stamped(f, owner, tags).fp = f.fp
           /\ FlatKey(Stamped(f, owner, tags)) = FlatKey(f)
<1> DEFINE m == Stamped(f, owner, tags)
<1>1. EntryFields(f) /\ DOMAIN f = EntryDomain
  BY EntryIs
<1>2. /\ DOMAIN m = EntryDomain
      /\ m.fp = f.fp /\ m.at = f.at /\ m.sev = f.sev /\ m.conf = f.conf /\ m.cves = f.cves
      /\ m.cvss = f.cvss /\ m.epss = f.epss /\ m.kev = f.kev /\ m.fix = f.fix
      /\ m.cwes = f.cwes
  BY <1>1 DEF Stamped, EntryDomain, EntryFields
<1>3. IsMeta(m.meta)
  <2>1. IsMeta(f.meta)
    BY <1>1 DEF EntryFields
  <2>2. m.meta = [[f.meta EXCEPT !.owner = IF owner # Absent THEN owner ELSE @]
                  EXCEPT !.tags = IF tags # {} THEN tags ELSE @]
    BY <1>1 DEF Stamped, EntryDomain
  <2>3. QED
    BY <2>1, <2>2 DEF IsMeta, MetaKey
<1> HIDE DEF m
<1>4. EntryFields(m)
  BY <1>1, <1>2, <1>3 DEF EntryFields
<1>5. IsEntry(m)
  BY <1>2, <1>4, EntryIs
<1>6. FlatKey(m) = FlatKey(f)
  BY <1>2 DEF FlatKey
<1>7. QED
  BY <1>2, <1>5, <1>6 DEF m

\* Sequences that begin alike have the same beginning.
LEMMA SameStart ==
    ASSUME NEW a \in Seq(Int), NEW b \in Seq(Int), NEW n \in Nat, n <= Len(a), n <= Len(b),
           \A i \in 1..n : a[i] = b[i]
    PROVE  SubSeq(a, 1, n) = SubSeq(b, 1, n)
<1>1. /\ SubSeq(a, 1, n) \in Seq(Int) /\ Len(SubSeq(a, 1, n)) = n
      /\ \A i \in 1..n : SubSeq(a, 1, n)[i] = a[i]
      /\ SubSeq(b, 1, n) \in Seq(Int) /\ Len(SubSeq(b, 1, n)) = n
      /\ \A i \in 1..n : SubSeq(b, 1, n)[i] = b[i]
  OBVIOUS
<1> DEFINE p == SubSeq(a, 1, n)
           q == SubSeq(b, 1, n)
<1>2. /\ p \in Seq(Int) /\ q \in Seq(Int) /\ Len(p) = n /\ Len(q) = n
      /\ \A i \in 1..n : p[i] = q[i]
  BY <1>1
<1> HIDE DEF p, q
<1>3. p = q
  BY <1>2, SeqEqual
<1>4. QED
  BY <1>3 DEF p, q

LEMMA SortKeyIs ==
    ASSUME NEW f, IsEntry(f)
    PROVE  /\ SortKey(f) \in Seq(Int) /\ Len(SortKey(f)) = 6
           /\ SortKey(f)[6] = f.fp
           /\ SubSeq(SortKey(f), 1, 4) = SubSeq(FlatKey(f), 1, 4)
<1> DEFINE a == -f.sev
           b == IF f.kev THEN -1 ELSE 0
           c == -f.cvss
           d == -f.epss
           e == -CriticalityOf[f.fp]
<1>1. f.sev \in Int /\ f.cvss \in Int /\ f.epss \in Int /\ f.fp \in Int
  BY EntryNumbers
<1>2. CriticalityOf[f.fp] \in Int
  <2>1. f.fp \in Fingerprint
    BY EntryIs DEF EntryFields
  <2>2. CriticalityOf \in [Fingerprint -> 0..3]
    BY FindingsAssumption
  <2>3. CriticalityOf[f.fp] \in 0..3
    BY <2>1, <2>2
  <2>4. QED
    BY <2>3
<1>3. a \in Int /\ c \in Int /\ d \in Int /\ e \in Int
  <2>1. \A n \in Int : -n \in Int
    OBVIOUS
  <2>2. QED
    BY <1>1, <1>2, <2>1
<1>4. b \in Int
  OBVIOUS
<1>5. SortKey(f) = <<a, b, c, d, e, f.fp>> /\ FlatKey(f) = <<a, b, c, d, f.fp>>
  BY DEF SortKey, FlatKey
<1> HIDE DEF a, b, c, d, e
<1>6. /\ SortKey(f) \in Seq(Int) /\ Len(SortKey(f)) = 6 /\ SortKey(f)[6] = f.fp
      /\ FlatKey(f) \in Seq(Int) /\ Len(FlatKey(f)) = 5
  BY <1>1, <1>3, <1>4, <1>5
<1>7. \A i \in 1..4 : SortKey(f)[i] = FlatKey(f)[i]
  BY <1>5
<1>8. SubSeq(SortKey(f), 1, 4) = SubSeq(FlatKey(f), 1, 4)
  <2>1. 4 \in Nat /\ 4 <= Len(SortKey(f)) /\ 4 <= Len(FlatKey(f))
    BY <1>6
  <2>2. QED
    BY <1>6, <1>7, <2>1, SameStart
<1>9. QED
  BY <1>6, <1>8

LEMMA ScanReportIsCanonical ==
    ASSUME NEW S \in ScanResult
    PROVE  /\ IsList(ScanReport(S)) /\ IsReport(ScanReport(S)) /\ Canonical(ScanReport(S))
<1> DEFINE key == [f \in S |-> SortKey(f)]
           q == SortedBy(S, key)
           St(f) == Stamped(f, OwnerFor[HostOf[f.fp]], TagsFor[HostOf[f.fp]])
           r == [i \in DOMAIN q |-> St(q[i])]
<1>1. IsFiniteSet(S) /\ (\A f \in S : IsEntry(f)) /\ \A f, g \in S : f.fp = g.fp => f = g
  BY ReportDeskAssumption
<1>2. \A f \in S : key[f] \in Seq(Int) /\ Len(key[f]) = 6 /\ key[f][6] = f.fp
                   /\ SubSeq(key[f], 1, 4) = SubSeq(FlatKey(f), 1, 4)
  BY <1>1, SortKeyIs
<1> HIDE DEF key
<1>3. /\ \A f \in S : /\ key[f] \in Seq(Int) /\ Len(key[f]) >= 5
                      /\ SubSeq(key[f], 1, 4) = SubSeq(FlatKey(f), 1, 4)
                      /\ key[f][Len(key[f])] = f.fp
      /\ \A f, g \in S : Len(key[f]) = Len(key[g])
  <2>1. 6 >= 5
    OBVIOUS
  <2>2. QED
    BY <1>2, <2>1, Zenon
<1>4. /\ IsList(q) /\ IsReport(q) /\ Canonical(q)
  BY <1>1, <1>3, RankedIsCanonical
<1>5. ScanReport(S) = r
  BY DEF ScanReport, key
<1> HIDE DEF q
<1>6. DOMAIN q = 1..Len(q) /\ Len(q) \in Nat
  BY <1>4, ListIs
<1>7. \A i \in DOMAIN q : IsEntry(St(q[i])) /\ St(q[i]).fp = q[i].fp
                          /\ FlatKey(St(q[i])) = FlatKey(q[i])
  <2>1. \A fp \in Fingerprint : OwnerFor[HostOf[fp]] \in Nat \cup {Absent}
    BY ReportDeskAssumption
  <2>2. \A i \in DOMAIN q : IsEntry(q[i]) /\ q[i].fp \in Fingerprint
    BY <1>4, <1>6, EntryIs DEF IsReport, EntryFields
  <2>3. SUFFICES ASSUME NEW f, IsEntry(f), f.fp \in Fingerprint
                 PROVE  /\ IsEntry(St(f)) /\ St(f).fp = f.fp
                        /\ FlatKey(St(f)) = FlatKey(f)
    BY <2>2, Zenon
  <2> DEFINE owner == OwnerFor[HostOf[f.fp]]
             tags == TagsFor[HostOf[f.fp]]
  <2>4. owner \in Nat \cup {Absent} /\ St(f) = Stamped(f, owner, tags)
    BY <2>1, <2>3
  <2> HIDE DEF owner, tags, St
  <2>5. /\ IsEntry(Stamped(f, owner, tags)) /\ Stamped(f, owner, tags).fp = f.fp
        /\ FlatKey(Stamped(f, owner, tags)) = FlatKey(f)
    BY <2>3, <2>4, StampedIsEntry
  <2>6. QED
    BY <2>4, <2>5, Zenon
<1> HIDE DEF St
<1>8. IsList(r) /\ DOMAIN r = DOMAIN q /\ \A i \in DOMAIN q : r[i] = St(q[i])
  <2>1. r = [i \in 1..Len(q) |-> St(q[i])] /\ Len(q) \in Nat
    BY <1>6, Zenon
  <2> HIDE DEF q, r
  <2>2. Len(r) = Len(q) /\ DOMAIN r = 1..Len(q) /\ \A i \in 1..Len(q) : r[i] = St(q[i])
    BY <2>1
  <2>3. r = [i \in 1..Len(r) |-> r[i]]
    <3>1. r = [i \in DOMAIN r |-> r[i]]
      BY <2>1
    <3>2. DOMAIN r = 1..Len(r)
      BY <2>2, Zenon
    <3>3. QED
      BY <3>1, <3>2, Zenon
  <2>4. QED
    BY <1>6, <2>1, <2>2, <2>3, Zenon DEF IsList
<1> HIDE DEF r
<1>9. IsReport(r)
  <2>1. DOMAIN r = 1..Len(r)
    BY <1>8, ListIs
  <2>2. QED
    BY <1>7, <1>8, <2>1 DEF IsReport
<1>10. Canonical(r)
  BY <1>4, <1>7, <1>8 DEF Canonical, MoreActionable
<1>11. QED
  BY <1>5, <1>8, <1>9, <1>10

IsWhole(s) == IsList(s) /\ IsReport(s) /\ Canonical(s)

\* What a command loads: reports that were whole, no more than it names.
LoadedBy(cmd, loaded) ==
    /\ IsList(loaded) /\ Len(loaded) <= Len(cmd.ins)
    /\ \A i \in DOMAIN loaded : IsWhole(loaded[i])

LEMMA OutputIsWhole ==
    ASSUME NEW cmd \in Command, Writes(cmd), ReadsDocument(cmd) => cmd.arg # Unreadable,
           NEW loaded, LoadedBy(cmd, loaded), Len(loaded) = Len(cmd.ins)
    PROVE  IsWhole(Output(cmd, loaded))
<1>1. IsCommand(cmd)
  BY ReportDeskAssumption
<1>2. cmd.name \in {"sbom", "convert", "merge", "filter"}
  BY <1>1 DEF IsCommand
<1>3. DOMAIN loaded = 1..Len(loaded) /\ Len(loaded) \in Nat
  BY ListIs DEF LoadedBy
<1>4. CASE cmd.name = "sbom"
  <2>1. cmd.arg # Unreadable
    BY <1>4 DEF ReadsDocument
  <2>2. Analyzable(cmd.arg.sbom, cmd.arg.osv) /\ cmd.arg.intel \in Intel
    BY <1>1, <1>4, <2>1 DEF IsCommand
  <2>3. Output(cmd, loaded) = SbomReport(cmd.arg.sbom, cmd.arg.osv, cmd.arg.intel, cmd.arg.enrich)
    BY <1>4 DEF Output
  <2>4. QED
    BY <2>2, <2>3, SbomReportIsCanonical DEF IsWhole
<1>5. CASE cmd.name = "convert"
  <2>1. cmd.arg # Unreadable
    BY <1>5 DEF ReadsDocument
  <2>2. Importable(cmd.arg)
    BY <1>1, <1>5, <2>1 DEF IsCommand
  <2>3. Output(cmd, loaded) = ImportReport(cmd.arg)
    BY <1>5 DEF Output
  <2>4. QED
    BY <2>2, <2>3, ImportReportIsCanonical DEF IsWhole
<1>6. CASE cmd.name = "merge"
  <2>1. Output(cmd, loaded) = Combined(FlattenSeq(loaded))
    BY <1>6 DEF Output
  <2>2. IsList(loaded) /\ \A i \in DOMAIN loaded : IsList(loaded[i]) /\ IsReport(loaded[i])
    BY DEF LoadedBy, IsWhole
  <2>3. IsList(FlattenSeq(loaded)) /\ IsReport(FlattenSeq(loaded))
    BY <2>2, JoinedIsReport
  <2>4. QED
    BY <2>1, <2>3, CombinedIsCanonical DEF IsWhole
<1>7. CASE cmd.name = "filter"
  <2>1. Output(cmd, loaded) = Filtered(loaded[1], cmd.arg)
    BY <1>7 DEF Output
  <2>2. 1 \in DOMAIN loaded
    <3>1. Len(cmd.ins) = 1
      BY <1>1, <1>7 DEF IsCommand
    <3>2. QED
      BY <1>3, <3>1
  <2>3. IsList(loaded[1]) /\ IsReport(loaded[1]) /\ Canonical(loaded[1])
    BY <2>2 DEF LoadedBy, IsWhole
  <2>4. {i \in DOMAIN loaded[1] : Matches(loaded[1][i], cmd.arg)} \in SUBSET DOMAIN loaded[1]
    OBVIOUS
  <2>5. QED
    BY <2>1, <2>3, <2>4, PickedIsCanonical DEF IsWhole, Filtered
<1>8. QED
  BY <1>2, <1>4, <1>5, <1>6, <1>7

LEMMA ExitCodesAre ==
    ASSUME NEW cmd, NEW loaded
    PROVE  ExitCodes(cmd, loaded) \subseteq 0..2
<1>1. CASE cmd.name = "gate"
  BY <1>1 DEF ExitCodes
<1>2. CASE cmd.name = "explain"
  BY <1>2 DEF ExitCodes
<1>3. CASE cmd.name = "notify"
  BY <1>3 DEF ExitCodes
<1>4. CASE cmd.name \notin {"gate", "explain", "notify"}
  BY <1>4 DEF ExitCodes
<1>5. QED
  BY <1>1, <1>2, <1>3, <1>4

-----------------------------------------------------------------------------
(***************************************************************************)
(* The inductive invariant                                                 *)
(***************************************************************************)
\* What is whole was written whole.
FilesInv == DOMAIN file = Path /\ \A p \in Path : Whole(p) => IsWhole(file[p])

\* A command that runs was accepted, and holds what it has read so far.
JobInv ==
    \/ job = NoJob
    \/ /\ job.name \in {"reading", "emptied"}
       /\ job = [name |-> job.name, cmd |-> job.cmd, loaded |-> job.loaded]
       /\ job.cmd \in Command /\ last = NoJob
       /\ ReadsDocument(job.cmd) => job.cmd.arg # Unreadable
       /\ LoadedBy(job.cmd, job.loaded)
       /\ job.name = "emptied" => Writes(job.cmd) /\ Len(job.loaded) = Len(job.cmd.ins)
    \/ /\ job.name = "serving"
       /\ job.cmd \in Command /\ job.cmd.name = "serve" /\ last = NoJob

\* A command that has ended well has ended as it should on what it had loaded.
EndedWell(cmd, loaded, exit) ==
    /\ LoadedBy(cmd, loaded) /\ exit \in 0..2
    /\ exit # 2 /\ ~Writes(cmd) /\ cmd.name # "serve" =>
          Len(loaded) = Len(cmd.ins) /\ exit \in ExitCodes(cmd, loaded)

LastInv ==
    last = NoJob \/ \E cmd \in Command : /\ last = Ended(cmd, last.loaded, last.exit)
                                         /\ EndedWell(cmd, last.loaded, last.exit)

DeskInv ==
    /\ FilesInv /\ JobInv /\ LastInv /\ ServerTypeOK
    /\ scanning \in BOOLEAN
    /\ up <=> job.name = "serving"

\* One more whole report may be added to what a command has loaded.
LEMMA LoadedMore ==
    ASSUME NEW cmd, NEW loaded, LoadedBy(cmd, loaded), Len(cmd.ins) \in Nat,
           Len(loaded) < Len(cmd.ins), NEW s, IsWhole(s)
    PROVE  LoadedBy(cmd, Append(loaded, s))
<1> DEFINE T == Elements(loaded) \cup {s}
           more == Append(loaded, s)
<1>1. DOMAIN loaded = 1..Len(loaded) /\ Len(loaded) \in Nat /\ loaded \in Seq(Elements(loaded))
  BY ListIs DEF LoadedBy
<1>2. loaded \in Seq(T) /\ s \in T
  BY <1>1
<1> HIDE DEF T
<1>3. /\ more \in Seq(T) /\ Len(more) = Len(loaded) + 1
      /\ \A i \in 1..Len(loaded) : more[i] = loaded[i]
      /\ more[Len(loaded) + 1] = s
  BY <1>2
<1> HIDE DEF more
<1>4. IsList(more) /\ DOMAIN more = 1..Len(more)
  BY <1>3, SeqIsList
<1>5. \A i \in DOMAIN more : IsWhole(more[i])
  <2>1. \A i \in DOMAIN more : i \in 1..Len(loaded) \/ i = Len(loaded) + 1
    BY <1>1, <1>3, <1>4
  <2>2. QED
    BY <1>1, <1>3, <2>1 DEF LoadedBy
<1>6. Len(more) <= Len(cmd.ins)
  BY <1>1, <1>3
<1>7. QED
  BY <1>4, <1>5, <1>6 DEF LoadedBy, more

LEMMA LoadedNothing ==
    ASSUME NEW cmd, Len(cmd.ins) \in Nat
    PROVE  LoadedBy(cmd, <<>>)
BY DEF LoadedBy, IsList

LEMMA InsAre ==
    ASSUME NEW cmd \in Command
    PROVE  /\ IsCommand(cmd) /\ Len(cmd.ins) \in Nat
           /\ \A i \in 1..Len(cmd.ins) : cmd.ins[i] \in Path
<1>1. IsCommand(cmd)
  BY ReportDeskAssumption
<1>2. cmd.ins \in Seq(Path)
  BY <1>1 DEF IsCommand
<1>3. QED
  BY <1>1, <1>2

\* A file is written as a whole, or is torn.
LEMMA FilesKept ==
    ASSUME FilesInv, NEW p \in Path, NEW s, s = Torn \/ IsWhole(s),
           file' = [file EXCEPT ![p] = s]
    PROVE  FilesInv'
<1>1. DOMAIN file' = Path
  BY DEF FilesInv
<1>2. ASSUME NEW q \in Path, Whole(q)'
      PROVE  IsWhole(file'[q])
  <2>1. CASE q = p
    <3>1. file'[q] = s
      BY <2>1 DEF FilesInv
    <3>2. QED
      BY <1>2, <3>1 DEF Whole
  <2>2. CASE q # p
    <3>1. file'[q] = file[q]
      BY <2>2 DEF FilesInv
    <3>2. QED
      BY <1>2, <3>1 DEF Whole, FilesInv
  <2>3. QED
    BY <2>1, <2>2
<1>3. QED
  BY <1>1, <1>2 DEF FilesInv

LEMMA ServerTypeNext ==
    ASSUME ServerTypeOK, ClientStep \/ ServerStep \/ Bind \/ Interrupt \/ UNCHANGED serverVars
    PROVE  ServerTypeOK'
<1> USE DEF ServerTypeOK
<1>1. CASE ClientStep
  <2>1. PICK c \in Client : Connect(c) \/ Ask(c) \/ HangUp(c)
    BY <1>1 DEF ClientStep
  <2>2. CASE Connect(c)
    BY <2>2 DEF Connect
  <2>3. CASE Ask(c)
    BY <2>3 DEF Ask
  <2>4. CASE HangUp(c)
    BY <2>4 DEF HangUp
  <2>5. QED
    BY <2>1, <2>2, <2>3, <2>4
<1>2. CASE ServerStep
  <2>1. CASE Accept
    BY <2>1 DEF Accept
  <2>2. ASSUME NEW c \in Client, Answer(c) \/ Close(c)
        PROVE  ServerTypeOK'
    BY <2>2 DEF Answer, Close
  <2>3. QED
    BY <1>2, <2>1, <2>2 DEF ServerStep
<1>3. CASE Bind
  BY <1>3 DEF Bind
<1>4. CASE Interrupt
  <2>1. <<>> \in Seq(Client)
    OBVIOUS
  <2>2. /\ up' = FALSE /\ queue' = <<>> /\ serving' = NoClient /\ asked' = {} /\ gone' = {}
    BY <1>4 DEF Interrupt
  <2>3. QED
    BY <2>1, <2>2
<1>5. CASE UNCHANGED serverVars
  BY <1>5 DEF serverVars
<1>6. QED
  BY <1>1, <1>2, <1>3, <1>4, <1>5

LEMMA DeskInit == Init => DeskInv
<1> SUFFICES ASSUME Init
             PROVE  DeskInv
  OBVIOUS
<1>1. FilesInv
  BY DEF Init, FilesInv, Whole
<1>2. JobInv /\ LastInv
  BY DEF Init, JobInv, LastInv
<1>3. ServerTypeOK /\ ~up
  <2>1. <<>> \in Seq(Client)
    OBVIOUS
  <2>2. /\ up = FALSE /\ queue = <<>> /\ serving = NoClient /\ asked = {} /\ gone = {}
    BY DEF Init, ServerDown
  <2>3. QED
    BY <2>1, <2>2 DEF ServerTypeOK
<1>4. job.name # "serving" /\ scanning \in BOOLEAN
  BY DEF Init, NoJob
<1>5. QED
  BY <1>1, <1>2, <1>3, <1>4 DEF DeskInv

\* A scan rewrites its own report, whatever the desk does.
LEMMA ScanKeepsInv ==
    ASSUME DeskInv, ScanEmpties \/ ScanWrites \/ ScanKilled
    PROVE  DeskInv'
<1>1. UNCHANGED <<job, last, up, queue, serving, asked, gone>> /\ scanning' \in BOOLEAN
  BY DEF ScanEmpties, ScanWrites, ScanKilled, serverVars
<1>2. FilesInv'
  <2>1. Latest \in Path
    BY ReportDeskAssumption
  <2>2. CASE ScanEmpties
    BY <2>1, <2>2, FilesKept DEF ScanEmpties, DeskInv
  <2>3. CASE ScanWrites
    <3>1. PICK S \in ScanResult : file' = [file EXCEPT ![Latest] = ScanReport(S)]
      BY <2>3 DEF ScanWrites
    <3>2. IsWhole(ScanReport(S))
      BY ScanReportIsCanonical DEF IsWhole
    <3>3. QED
      BY <2>1, <3>1, <3>2, FilesKept DEF DeskInv
  <2>4. CASE ScanKilled
    BY <2>4 DEF ScanKilled, DeskInv, FilesInv, Whole
  <2>5. QED
    BY <2>2, <2>3, <2>4
<1>3. QED
  BY <1>1, <1>2 DEF DeskInv, JobInv, LastInv, ServerTypeOK

\* Clients and the server leave the desk alone.
LEMMA ServerKeepsInv ==
    ASSUME DeskInv, ClientStep \/ ServerStep, UNCHANGED deskVars
    PROVE  DeskInv'
<1>1. ServerTypeOK'
  BY ServerTypeNext DEF DeskInv
<1>2. up' = up
  BY DEF ClientStep, ServerStep, Connect, Ask, HangUp, Accept, Answer, Close
<1>3. QED
  BY <1>1, <1>2 DEF DeskInv, deskVars, FilesInv, Whole, JobInv, LastInv

LEMMA EnterKeepsInv ==
    ASSUME DeskInv, NEW cmd \in Command, Enter(cmd)
    PROVE  DeskInv'
<1>1. UNCHANGED <<file, scanning, up, queue, serving, asked, gone>> /\ job = NoJob
  BY DEF Enter, serverVars
<1>2. FilesInv' /\ ServerTypeOK' /\ scanning' \in BOOLEAN /\ ~up'
  BY <1>1 DEF DeskInv, FilesInv, Whole, ServerTypeOK, NoJob
<1>3. LoadedBy(cmd, <<>>)
  BY InsAre, LoadedNothing
<1>4. CASE Refused(cmd)
  <2>1. last' = Ended(cmd, <<>>, 2) /\ job' = NoJob
    BY <1>1, <1>4 DEF Enter
  <2>2. EndedWell(cmd, last'.loaded, last'.exit) /\ last' = Ended(cmd, last'.loaded, last'.exit)
    BY <1>3, <2>1 DEF EndedWell, Ended
  <2>3. LastInv' /\ JobInv' /\ job'.name # "serving"
    BY <2>1, <2>2 DEF LastInv, JobInv, NoJob
  <2>4. QED
    BY <1>2, <2>3 DEF DeskInv
<1>5. CASE ~Refused(cmd)
  <2>1. job' = Reading(cmd, <<>>) /\ last' = NoJob
    BY <1>5 DEF Enter
  <2>2. ReadsDocument(cmd) => cmd.arg # Unreadable
    BY <1>5 DEF Refused
  <2>3. job'.name = "reading" /\ job'.cmd = cmd /\ job'.loaded = <<>>
        /\ job' = [name |-> job'.name, cmd |-> job'.cmd, loaded |-> job'.loaded]
    BY <2>1 DEF Reading
  <2>4. JobInv' /\ LastInv'
    BY <1>3, <2>1, <2>2, <2>3 DEF LastInv, JobInv
  <2>5. QED
    BY <1>2, <2>3, <2>4 DEF DeskInv
<1>6. QED
  BY <1>4, <1>5

\* The job of a command that is under way.
LEMMA JobIs ==
    ASSUME DeskInv, job.name \in {"reading", "emptied"}
    PROVE  /\ job = [name |-> job.name, cmd |-> job.cmd, loaded |-> job.loaded]
           /\ job.cmd \in Command /\ last = NoJob /\ ~up
           /\ ReadsDocument(job.cmd) => job.cmd.arg # Unreadable
           /\ LoadedBy(job.cmd, job.loaded)
           /\ job.name = "emptied" => Writes(job.cmd) /\ Len(job.loaded) = Len(job.cmd.ins)
BY DEF DeskInv, JobInv, NoJob

LEMMA ReadKeepsInv ==
    ASSUME DeskInv, Read
    PROVE  DeskInv'
<1> DEFINE cmd == job.cmd
           p == cmd.ins[Len(job.loaded) + 1]
<1>1. /\ UNCHANGED <<file, scanning, up, queue, serving, asked, gone>>
      /\ job.name = "reading" /\ Len(job.loaded) < Len(cmd.ins)
  BY DEF Read, serverVars
<1>2. /\ cmd \in Command /\ last = NoJob /\ ~up /\ LoadedBy(cmd, job.loaded)
      /\ ReadsDocument(cmd) => cmd.arg # Unreadable
      /\ job = [name |-> "reading", cmd |-> cmd, loaded |-> job.loaded]
  BY <1>1, JobIs
<1>3. FilesInv' /\ ServerTypeOK' /\ scanning' \in BOOLEAN /\ ~up'
  BY <1>1, <1>2 DEF DeskInv, FilesInv, Whole, ServerTypeOK
<1>4. Len(cmd.ins) \in Nat /\ \A i \in 1..Len(cmd.ins) : cmd.ins[i] \in Path
  BY <1>2, InsAre
<1>5. p \in Path
  <2>1. Len(job.loaded) \in Nat
    BY <1>2, ListIs DEF LoadedBy
  <2>2. Len(job.loaded) + 1 \in 1..Len(cmd.ins)
    BY <1>1, <1>4, <2>1
  <2>3. QED
    BY <1>4, <2>2
<1>6. CASE Whole(p)
  <2>1. job' = [job EXCEPT !.loaded = Append(@, file[p])] /\ last' = last
    BY <1>6 DEF Read
  <2>2. job' = [name |-> "reading", cmd |-> cmd, loaded |-> Append(job.loaded, file[p])]
    <3> DEFINE loaded == job.loaded
               more == Append(loaded, file[p])
    <3>1. job = [name |-> "reading", cmd |-> cmd, loaded |-> loaded]
      BY <1>2
    <3>2. job' = [job EXCEPT !.loaded = more]
      BY <2>1
    <3> HIDE DEF cmd, p, loaded, more
    <3>3. job' = [name |-> "reading", cmd |-> cmd, loaded |-> more]
      BY <3>1, <3>2
    <3>4. QED
      BY <3>3 DEF more, loaded
  <2>3. IsWhole(file[p])
    BY <1>5, <1>6 DEF DeskInv, FilesInv
  <2>4. LoadedBy(cmd, Append(job.loaded, file[p]))
    BY <1>1, <1>2, <1>4, <2>3, LoadedMore
  <2> HIDE DEF cmd, p
  <2>5. job'.name = "reading" /\ job'.cmd = cmd /\ job'.loaded = Append(job.loaded, file[p])
        /\ job' = [name |-> job'.name, cmd |-> job'.cmd, loaded |-> job'.loaded]
    BY <2>2
  <2>6. JobInv' /\ LastInv'
    BY <1>2, <2>1, <2>4, <2>5 DEF LastInv, JobInv
  <2>7. QED
    BY <1>3, <2>5, <2>6 DEF DeskInv
<1>7. CASE ~Whole(p)
  <2>1. job' = NoJob /\ last' = Ended(cmd, <<>>, 2)
    BY <1>7 DEF Read
  <2>2. LoadedBy(cmd, <<>>)
    BY <1>4, LoadedNothing
  <2> HIDE DEF cmd, p
  <2>3. EndedWell(cmd, last'.loaded, last'.exit) /\ last' = Ended(cmd, last'.loaded, last'.exit)
    BY <2>1, <2>2 DEF EndedWell, Ended
  <2>4. LastInv' /\ JobInv' /\ job'.name # "serving"
    BY <1>2, <2>1, <2>3 DEF LastInv, JobInv, NoJob
  <2>5. QED
    BY <1>3, <2>4 DEF DeskInv
<1>8. QED
  BY <1>6, <1>7

LEMMA EmptyKeepsInv ==
    ASSUME DeskInv, Empty
    PROVE  DeskInv'
<1>1. /\ UNCHANGED <<scanning, last, up, queue, serving, asked, gone>>
      /\ job.name = "reading" /\ Len(job.loaded) = Len(job.cmd.ins) /\ Writes(job.cmd)
      /\ file' = [file EXCEPT ![job.cmd.out] = Torn]
      /\ job' = [job EXCEPT !.name = "emptied"]
  BY DEF Empty, ReadAll, serverVars
<1>2. /\ job.cmd \in Command /\ last = NoJob /\ ~up /\ LoadedBy(job.cmd, job.loaded)
      /\ ReadsDocument(job.cmd) => job.cmd.arg # Unreadable
      /\ job = [name |-> "reading", cmd |-> job.cmd, loaded |-> job.loaded]
  BY <1>1, JobIs
<1>3. ServerTypeOK' /\ scanning' \in BOOLEAN /\ ~up'
  BY <1>1, <1>2 DEF DeskInv, ServerTypeOK
<1>4. FilesInv'
  <2>1. job.cmd.out \in Path
    BY <1>1, <1>2, InsAre DEF IsCommand
  <2>2. QED
    BY <1>1, <2>1, FilesKept DEF DeskInv
<1>5. job' = [name |-> "emptied", cmd |-> job.cmd, loaded |-> job.loaded]
  BY <1>1, <1>2
<1>6. job'.name = "emptied" /\ job'.cmd = job.cmd /\ job'.loaded = job.loaded
      /\ job' = [name |-> job'.name, cmd |-> job'.cmd, loaded |-> job'.loaded]
  BY <1>5
<1>7. JobInv' /\ LastInv'
  BY <1>1, <1>2, <1>6 DEF LastInv, JobInv
<1>8. QED
  BY <1>3, <1>4, <1>6, <1>7 DEF DeskInv

LEMMA FillKeepsInv ==
    ASSUME DeskInv, Fill
    PROVE  DeskInv'
<1> DEFINE cmd == job.cmd
<1>1. /\ UNCHANGED <<scanning, up, queue, serving, asked, gone>>
      /\ job.name = "emptied"
      /\ file' = [file EXCEPT ![cmd.out] = Output(cmd, job.loaded)]
      /\ job' = NoJob
      /\ last' = Ended(cmd, <<>>, 0)
  BY DEF Fill, serverVars
<1>2. /\ cmd \in Command /\ ~up /\ LoadedBy(cmd, job.loaded)
      /\ ReadsDocument(cmd) => cmd.arg # Unreadable
      /\ Writes(cmd) /\ Len(job.loaded) = Len(cmd.ins)
  BY <1>1, JobIs
<1>3. ServerTypeOK' /\ scanning' \in BOOLEAN /\ ~up'
  BY <1>1, <1>2 DEF DeskInv, ServerTypeOK
<1>4. FilesInv'
  <2>1. cmd.out \in Path
    BY <1>2, InsAre DEF IsCommand
  <2>2. IsWhole(Output(cmd, job.loaded))
    BY <1>2, OutputIsWhole
  <2>3. QED
    BY <1>1, <2>1, <2>2, FilesKept DEF DeskInv
<1>5. LoadedBy(cmd, <<>>)
  BY <1>2, InsAre, LoadedNothing
<1> HIDE DEF cmd
<1>6. EndedWell(cmd, last'.loaded, last'.exit) /\ last' = Ended(cmd, last'.loaded, last'.exit)
  BY <1>1, <1>2, <1>5 DEF EndedWell, Ended
<1>7. LastInv' /\ JobInv' /\ job'.name # "serving"
  BY <1>1, <1>2, <1>6 DEF LastInv, JobInv, NoJob
<1>8. QED
  BY <1>3, <1>4, <1>7 DEF DeskInv

LEMMA WriteFailsKeepsInv ==
    ASSUME DeskInv, WriteFails
    PROVE  DeskInv'
<1> DEFINE cmd == job.cmd
<1>1. /\ UNCHANGED <<file, scanning, up, queue, serving, asked, gone>>
      /\ job.name \in {"reading", "emptied"}
      /\ job.name = "reading" => Writes(cmd)
      /\ job' = NoJob
      /\ last' = Ended(cmd, <<>>, 1)
  BY DEF WriteFails, ReadAll, serverVars
<1>2. cmd \in Command /\ ~up /\ Writes(cmd)
  BY <1>1, JobIs
<1>3. FilesInv' /\ ServerTypeOK' /\ scanning' \in BOOLEAN /\ ~up'
  BY <1>1, <1>2 DEF DeskInv, FilesInv, Whole, ServerTypeOK
<1>4. LoadedBy(cmd, <<>>)
  BY <1>2, InsAre, LoadedNothing
<1> HIDE DEF cmd
<1>5. EndedWell(cmd, last'.loaded, last'.exit) /\ last' = Ended(cmd, last'.loaded, last'.exit)
  BY <1>1, <1>2, <1>4 DEF EndedWell, Ended
<1>6. LastInv' /\ JobInv' /\ job'.name # "serving"
  BY <1>1, <1>2, <1>5 DEF LastInv, JobInv, NoJob
<1>7. QED
  BY <1>3, <1>6 DEF DeskInv

LEMMA ShowKeepsInv ==
    ASSUME DeskInv, Show
    PROVE  DeskInv'
<1> DEFINE cmd == job.cmd
<1>1. /\ UNCHANGED <<file, scanning, up, queue, serving, asked, gone>>
      /\ job.name = "reading" /\ Len(job.loaded) = Len(cmd.ins)
      /\ ~Writes(cmd) /\ job' = NoJob
  BY DEF Show, ReadAll, serverVars
<1>2. PICK exit \in ExitCodes(cmd, job.loaded) : last' = Ended(cmd, job.loaded, exit)
  BY DEF Show
<1>3. /\ cmd \in Command /\ ~up /\ LoadedBy(cmd, job.loaded)
  BY <1>1, JobIs
<1>4. FilesInv' /\ ServerTypeOK' /\ scanning' \in BOOLEAN /\ ~up'
  BY <1>1, <1>3 DEF DeskInv, FilesInv, Whole, ServerTypeOK
<1> HIDE DEF cmd
<1>5. exit \in 0..2
  BY <1>2, ExitCodesAre
<1>6. EndedWell(cmd, last'.loaded, last'.exit) /\ last' = Ended(cmd, last'.loaded, last'.exit)
  BY <1>1, <1>2, <1>3, <1>5 DEF EndedWell, Ended
<1>7. LastInv' /\ JobInv' /\ job'.name # "serving"
  BY <1>1, <1>3, <1>6 DEF LastInv, JobInv, NoJob
<1>8. QED
  BY <1>4, <1>7 DEF DeskInv

LEMMA ServeKeepsInv ==
    ASSUME DeskInv, Serve
    PROVE  DeskInv'
<1> DEFINE cmd == job.cmd
<1>1. UNCHANGED <<file, scanning>> /\ job.name = "reading" /\ cmd.name = "serve"
  BY DEF Serve, ReadAll
<1>2. cmd \in Command /\ last = NoJob /\ ~up
  BY <1>1, JobIs
<1>3. FilesInv' /\ scanning' \in BOOLEAN
  BY <1>1 DEF DeskInv, FilesInv, Whole
<1>4. CASE Bind /\ job' = [name |-> "serving", cmd |-> cmd] /\ last' = last
  <2>1. ServerTypeOK' /\ up'
    BY <1>4, ServerTypeNext DEF DeskInv, Bind
  <2> HIDE DEF cmd
  <2>2. job'.name = "serving" /\ job'.cmd = cmd
    BY <1>4
  <2>3. JobInv' /\ LastInv'
    BY <1>1, <1>2, <1>4, <2>2 DEF JobInv, LastInv
  <2>4. QED
    BY <1>3, <2>1, <2>2, <2>3 DEF DeskInv
<1>5. CASE job' = NoJob /\ last' = Ended(cmd, <<>>, 1) /\ UNCHANGED serverVars
  <2>1. ServerTypeOK' /\ ~up'
    BY <1>2, <1>5, ServerTypeNext DEF DeskInv, serverVars
  <2>2. LoadedBy(cmd, <<>>)
    BY <1>2, InsAre, LoadedNothing
  <2> HIDE DEF cmd
  <2>3. EndedWell(cmd, last'.loaded, last'.exit) /\ last' = Ended(cmd, last'.loaded, last'.exit)
    BY <1>1, <1>5, <2>2 DEF EndedWell, Ended
  <2>4. LastInv' /\ JobInv' /\ job'.name # "serving"
    BY <1>2, <1>5, <2>3 DEF LastInv, JobInv, NoJob
  <2>5. QED
    BY <1>3, <2>1, <2>4 DEF DeskInv
<1>6. QED
  BY <1>4, <1>5 DEF Serve

LEMMA StopKeepsInv ==
    ASSUME DeskInv, StopServing
    PROVE  DeskInv'
<1> DEFINE cmd == job.cmd
<1>1. /\ UNCHANGED <<file, scanning>> /\ job.name = "serving" /\ Interrupt
      /\ job' = NoJob /\ last' = Ended(cmd, <<>>, 0)
  BY DEF StopServing
<1>2. cmd \in Command /\ cmd.name = "serve"
  BY <1>1 DEF DeskInv, JobInv, NoJob
<1>3. FilesInv' /\ scanning' \in BOOLEAN
  BY <1>1 DEF DeskInv, FilesInv, Whole
<1>4. ServerTypeOK' /\ ~up'
  BY <1>1, ServerTypeNext DEF DeskInv, Interrupt
<1>5. LoadedBy(cmd, <<>>)
  BY <1>2, InsAre, LoadedNothing
<1> HIDE DEF cmd
<1>6. EndedWell(cmd, last'.loaded, last'.exit) /\ last' = Ended(cmd, last'.loaded, last'.exit)
  BY <1>1, <1>2, <1>5 DEF EndedWell, Ended
<1>7. LastInv' /\ JobInv' /\ job'.name # "serving"
  BY <1>1, <1>2, <1>6 DEF LastInv, JobInv, NoJob
<1>8. QED
  BY <1>3, <1>4, <1>7 DEF DeskInv

LEMMA DeskNext == DeskInv /\ [Next]_vars => DeskInv'
<1> SUFFICES ASSUME DeskInv, [Next]_vars
             PROVE  DeskInv'
  OBVIOUS
<1>1. CASE ScanEmpties \/ ScanWrites \/ ScanKilled
  BY <1>1, ScanKeepsInv
<1>2. CASE \E cmd \in Command : Enter(cmd)
  BY <1>2, EnterKeepsInv
<1>3. CASE Read
  BY <1>3, ReadKeepsInv
<1>4. CASE Empty
  BY <1>4, EmptyKeepsInv
<1>5. CASE Fill
  BY <1>5, FillKeepsInv
<1>6. CASE Show
  BY <1>6, ShowKeepsInv
<1>7. CASE Serve
  BY <1>7, ServeKeepsInv
<1>8. CASE StopServing
  BY <1>8, StopKeepsInv
<1>9. CASE Kill
  <2>1. /\ UNCHANGED <<file, scanning, last, up, queue, serving, asked, gone>>
        /\ job.name \in {"reading", "emptied"} /\ job' = NoJob
    BY <1>9 DEF Kill, serverVars
  <2>2. ~up
    BY <2>1, JobIs
  <2>3. FilesInv' /\ ServerTypeOK' /\ scanning' \in BOOLEAN /\ ~up' /\ LastInv'
    BY <2>1, <2>2 DEF DeskInv, FilesInv, Whole, ServerTypeOK, LastInv
  <2>4. JobInv' /\ job'.name # "serving"
    BY <2>1 DEF JobInv, NoJob
  <2>5. QED
    BY <2>3, <2>4 DEF DeskInv
<1>10. CASE (ClientStep \/ ServerStep) /\ UNCHANGED deskVars
  BY <1>10, ServerKeepsInv
<1>11. CASE WriteFails
  BY <1>11, WriteFailsKeepsInv
<1>12. CASE UNCHANGED vars
  BY <1>12 DEF vars, DeskInv, FilesInv, Whole, JobInv, LastInv, ServerTypeOK
<1>13. QED
  BY <1>1, <1>2, <1>3, <1>4, <1>5, <1>6, <1>7, <1>8, <1>9, <1>10, <1>11, <1>12
     DEF Next, DeskStep

LEMMA DeskInvHolds == Spec => []DeskInv
  BY DeskInit, DeskNext, PTL DEF Spec
-----------------------------------------------------------------------------
(***************************************************************************)
(* The dashboard's queue                                                    *)
(***************************************************************************)
\* A connection is in one place, and only a connection asks or hangs up; a
\* request of a client that has hung up is forgotten.
QueueInv ==
    /\ \A i, j \in DOMAIN queue : queue[i] = queue[j] => i = j
    /\ serving # NoClient => ~Waiting(serving)
    /\ \A c \in asked \cup gone : Connected(c)
    /\ asked \cap gone = {}
    /\ up \/ ServerDown

LEMMA ConnectKeepsQueue ==
    ASSUME ServerTypeOK, QueueInv, NEW c \in Client, Connect(c)
    PROVE  QueueInv'
<1>1. /\ up /\ ~Connected(c) /\ queue' = Append(queue, c)
      /\ up' = up /\ serving' = serving /\ asked' = asked /\ gone' = gone
  BY DEF Connect
<1>2. /\ DOMAIN queue = 1..Len(queue) /\ Len(queue) \in Nat
      /\ DOMAIN queue' = 1..(Len(queue) + 1)
      /\ \A i \in DOMAIN queue : queue'[i] = queue[i]
      /\ queue'[Len(queue) + 1] = c
  BY <1>1 DEF ServerTypeOK
<1>3. \A i \in DOMAIN queue' : i \in DOMAIN queue \/ i = Len(queue) + 1
  BY <1>2
<1>4. DOMAIN queue \subseteq DOMAIN queue' /\ Len(queue) + 1 \in DOMAIN queue'
  BY <1>2
<1> HIDE <1>1
<1>5. \A d : Waiting(d)' <=> Waiting(d) \/ d = c
  BY <1>2, <1>3, <1>4 DEF Waiting
<1>6. \A i, j \in DOMAIN queue' : queue'[i] = queue'[j] => i = j
  BY <1>1, <1>2, <1>3 DEF QueueInv, Connected, Waiting
<1>7. \A d : Connected(d) => Connected(d)'
  BY <1>1, <1>5 DEF Connected
<1>8. QED
  BY <1>1, <1>5, <1>6, <1>7 DEF QueueInv, Connected

LEMMA AcceptKeepsQueue ==
    ASSUME ServerTypeOK, QueueInv, Accept
    PROVE  QueueInv'
<1>1. /\ up /\ serving = NoClient /\ queue # <<>>
      /\ serving' = Head(queue) /\ queue' = Tail(queue)
      /\ up' = up /\ asked' = asked /\ gone' = gone
  BY DEF Accept
<1>2. /\ DOMAIN queue = 1..Len(queue) /\ Len(queue) \in Nat /\ 1 \in DOMAIN queue
      /\ serving' = queue[1]
      /\ DOMAIN queue' = 1..(Len(queue) - 1)
      /\ \A i \in DOMAIN queue' : queue'[i] = queue[i + 1] /\ i + 1 \in DOMAIN queue /\ i + 1 # 1
  BY <1>1 DEF ServerTypeOK
<1>3. \A i \in DOMAIN queue : i = 1 \/ (i - 1 \in DOMAIN queue' /\ queue'[i - 1] = queue[i])
  <2> TAKE i \in DOMAIN queue
  <2>1. CASE i # 1
    <3>1. i - 1 \in DOMAIN queue' /\ (i - 1) + 1 = i
      BY <1>2, <2>1
    <3>2. QED
      BY <1>2, <3>1
  <2>2. QED
    BY <2>1
<1>4. \A d : Waiting(d) <=> Waiting(d)' \/ d = serving'
  BY <1>2, <1>3 DEF Waiting
<1>5. ~Waiting(serving)'
  BY <1>2 DEF Waiting, QueueInv
<1>6. \A i, j \in DOMAIN queue' : queue'[i] = queue'[j] => i = j
  <2> TAKE i, j \in DOMAIN queue'
  <2>1. queue'[i] = queue'[j] => i + 1 = j + 1
    BY <1>2 DEF QueueInv
  <2>2. i \in Nat /\ j \in Nat
    BY <1>2
  <2>3. QED
    BY <2>1, <2>2
<1>7. \A c \in Client : Connected(c) => Connected(c)'
  BY <1>1, <1>4, ReportServerAssumption DEF Connected
<1>8. QED
  BY <1>1, <1>5, <1>6, <1>7 DEF QueueInv, ServerTypeOK

LEMMA ServerKeepsQueue ==
    ASSUME ServerTypeOK, QueueInv,
           ClientStep \/ ServerStep \/ Bind \/ Interrupt \/ UNCHANGED serverVars
    PROVE  QueueInv'
<1>1. ASSUME NEW c \in Client, Connect(c) PROVE QueueInv'
  BY <1>1, ConnectKeepsQueue
<1>2. ASSUME NEW c \in Client, Ask(c) PROVE QueueInv'
  <2>1. /\ Connected(c) /\ c \notin asked \cup gone /\ asked' = asked \cup {c}
        /\ up' = up /\ queue' = queue /\ serving' = serving /\ gone' = gone
    BY <1>2 DEF Ask
  <2>2. up
    BY <2>1, ReportServerAssumption DEF QueueInv, ServerDown, Connected, Waiting
  <2>3. QED
    BY <2>1, <2>2 DEF QueueInv, Connected, Waiting
<1>3. ASSUME NEW c \in Client, HangUp(c) PROVE QueueInv'
  <2>1. /\ Connected(c) /\ gone' = gone \cup {c} /\ asked' = asked \ {c}
        /\ up' = up /\ queue' = queue /\ serving' = serving
    BY <1>3 DEF HangUp
  <2>2. up
    BY <2>1, ReportServerAssumption DEF QueueInv, ServerDown, Connected, Waiting
  <2>3. QED
    BY <2>1, <2>2 DEF QueueInv, Connected, Waiting
<1>4. CASE Accept
  BY <1>4, AcceptKeepsQueue
<1>5. ASSUME NEW c \in Client, Answer(c) PROVE QueueInv'
  <2>1. /\ serving = c /\ c \in asked /\ asked' = asked \ {c}
        /\ serving' \in {c, NoClient}
        /\ up' = up /\ queue' = queue /\ gone' = gone
    BY <1>5 DEF Answer
  <2>2. up /\ c \notin gone
    BY <2>1, ReportServerAssumption DEF QueueInv, ServerDown
  <2>3. \A d \in Client \ {c} : Connected(d) => Connected(d)'
    BY <2>1 DEF Connected, Waiting
  <2>4. QED
    BY <2>1, <2>2, <2>3 DEF QueueInv, Waiting, ServerTypeOK
<1>6. ASSUME NEW c \in Client, Close(c) PROVE QueueInv'
  <2>1. /\ serving = c /\ c \in gone /\ gone' = gone \ {c} /\ serving' = NoClient
        /\ up' = up /\ queue' = queue /\ asked' = asked
    BY <1>6 DEF Close
  <2>2. up /\ c \notin asked
    BY <2>1, ReportServerAssumption DEF QueueInv, ServerDown
  <2>3. \A d \in Client \ {c} : Connected(d) => Connected(d)'
    BY <2>1 DEF Connected, Waiting
  <2>4. QED
    BY <2>1, <2>2, <2>3 DEF QueueInv, Waiting, ServerTypeOK
<1>7. CASE Bind
  BY <1>7 DEF Bind, QueueInv, Connected, Waiting
<1>8. CASE Interrupt
  BY <1>8 DEF Interrupt, QueueInv, ServerDown
<1>9. CASE UNCHANGED serverVars
  BY <1>9 DEF serverVars, QueueInv, ServerDown, Connected, Waiting
<1>10. QED
  BY <1>1, <1>2, <1>3, <1>4, <1>5, <1>6, <1>7, <1>8, <1>9 DEF ClientStep, ServerStep

LEMMA StepOfServer ==
    ASSUME [Next]_vars
    PROVE  ClientStep \/ ServerStep \/ Bind \/ Interrupt \/ UNCHANGED serverVars
BY DEF Next, DeskStep, vars, serverVars, ScanEmpties, ScanWrites, ScanKilled, Enter,
       Read, Empty, Fill, WriteFails, Show, Serve, StopServing, Kill

\* Whoever waits, waits once, and not while the thread is with him; a request or a
\* hang-up is that of a connection there is.
THEOREM OneConnectionEach == Spec => []QueueInv
<1>1. Init => QueueInv
  BY DEF Init, QueueInv, ServerDown
<1>2. ServerTypeOK /\ QueueInv /\ [Next]_vars => QueueInv'
  BY ServerKeepsQueue, StepOfServer
<1>3. DeskInv => ServerTypeOK
  BY DEF DeskInv
<1>4. QED
  BY <1>1, <1>2, <1>3, DeskInvHolds, PTL DEF Spec

-----------------------------------------------------------------------------
(***************************************************************************)
(* Types, canonical reports and trends                                      *)
(***************************************************************************)
\* Every report that is whole holds entries, every job is a command's, every
\* command ends with an exit code of the program's.
THEOREM DeskTypeCorrect == Spec => []TypeOK
<1>1. DeskInv => TypeOK
  <2> SUFFICES ASSUME DeskInv
               PROVE  TypeOK
    OBVIOUS
  <2>1. DOMAIN file = Path /\ \A p \in Path : Whole(p) => IsReport(file[p])
    BY DEF DeskInv, FilesInv, IsWhole
  <2>2. /\ job.name \in {"none", "reading", "emptied", "serving"}
        /\ job # NoJob => job.cmd \in Command /\ last = NoJob
    BY DEF DeskInv, JobInv, NoJob
  <2>3. last = NoJob \/ last.exit \in 0..2
    BY DEF DeskInv, LastInv, EndedWell
  <2>4. QED
    BY <2>1, <2>2, <2>3 DEF DeskInv, TypeOK, DeskTypeOK
<1>2. QED
  BY <1>1, DeskInvHolds, PTL

\* Whatever was merged, filtered, imported or rewritten by a scan, however often
\* and whenever either was killed, a report that is whole lists no fingerprint
\* twice and nothing before what is more actionable.
THEOREM ReportsStayCanonical == Spec => []ReportsCanonical
<1>1. DeskInv => ReportsCanonical
  BY DEF DeskInv, FilesInv, IsWhole, ReportsCanonical
<1>2. QED
  BY <1>1, DeskInvHolds, PTL

\* The report a merge writes when it fills the file.
LEMMA MergeWrites ==
    ASSUME DeskInv, Fill, job.cmd.name = "merge"
    PROVE  LET read == FlattenSeq(job.loaded)
           IN  /\ IsList(read) /\ IsReport(read) /\ file'[job.cmd.out] = Combined(read)
               /\ \A i \in DOMAIN job.loaded :
                     /\ IsList(job.loaded[i]) /\ IsReport(job.loaded[i])
                     /\ \A k \in DOMAIN job.loaded[i] :
                           \E j \in DOMAIN read : job.loaded[i][k] = read[j]
<1> DEFINE cmd == job.cmd
           read == FlattenSeq(job.loaded)
<1>1. /\ job.name = "emptied"
      /\ file' = [file EXCEPT ![cmd.out] = Output(cmd, job.loaded)]
  BY DEF Fill
<1>2. cmd \in Command /\ Writes(cmd) /\ LoadedBy(cmd, job.loaded)
  BY <1>1, JobIs
<1>3. cmd.out \in Path /\ DOMAIN file = Path
  BY <1>2, InsAre DEF IsCommand, DeskInv, FilesInv
<1>4. Output(cmd, job.loaded) = Combined(read)
  BY DEF Output
<1>5. IsList(job.loaded)
      /\ \A i \in DOMAIN job.loaded : IsList(job.loaded[i]) /\ IsReport(job.loaded[i])
  BY <1>2 DEF LoadedBy, IsWhole
<1>6. IsList(read) /\ IsReport(read)
  BY <1>5, JoinedIsReport
<1>7. ASSUME NEW i \in DOMAIN job.loaded, NEW k \in DOMAIN job.loaded[i]
      PROVE  \E j \in DOMAIN read : job.loaded[i][k] = read[j]
  <2> DEFINE ss == job.loaded
             T == UNION {Elements(ss[l]) : l \in DOMAIN ss}
  <2>1. \A l \in DOMAIN ss : IsList(ss[l])
    BY <1>5
  <2>2. ss \in Seq(Seq(T))
    BY <1>5, <2>1, ListsAre
  <2>3. i \in DOMAIN ss /\ k \in DOMAIN ss[i]
    OBVIOUS
  <2> HIDE DEF ss, T
  <2>4. \E j \in DOMAIN FlattenSeq(ss) : FlattenSeq(ss)[j] = ss[i][k]
    BY <2>2, <2>3, JoinedHas
  <2>5. \E j \in DOMAIN FlattenSeq(ss) : ss[i][k] = FlattenSeq(ss)[j]
    BY <2>4, Zenon
  <2>6. QED
    BY <2>5 DEF ss
<1> HIDE DEF cmd, read
<1>8. file'[cmd.out] = Combined(read)
  BY <1>1, <1>3, <1>4
<1>9. QED
  BY <1>5, <1>6, <1>7, <1>8 DEF cmd, read

\* A command that was under way and is done with exit code 0 has filled its file.
LEMMA MergesFill ==
    ASSUME DeskInv, [Next]_vars, Merges
    PROVE  Fill /\ job.cmd.name = "merge"
<1>1. job.name = "emptied" /\ last'.name = "merge" /\ last'.exit = 0
  BY DEF Merges, Done
<1>2. last = NoJob /\ ~up /\ job # NoJob
  BY <1>1, JobIs DEF NoJob
<1>3. last' # NoJob
  BY <1>1 DEF NoJob
<1>4. last' # last
  BY <1>2, <1>3
<1>5. ~WriteFails
  <2>1. ASSUME WriteFails
        PROVE  last'.exit = 1
    BY <2>1 DEF WriteFails, Ended
  <2>2. QED
    BY <1>1, <2>1
<1>6. Fill
  BY <1>1, <1>2, <1>4, <1>5
     DEF Next, DeskStep, vars, deskVars, ScanEmpties, ScanWrites, ScanKilled, Enter, Read,
         Empty, Show, Serve, StopServing, Kill, ReadAll
<1>7. last'.name = job.cmd.name
  BY <1>6 DEF Fill, Ended
<1>8. QED
  BY <1>1, <1>6, <1>7

\* However many reports are merged, and whatever a scan wrote between two of them,
\* the merge has every fingerprint it read, no other, and of each the worst.
THEOREM MergesLoseNothing == Spec => MergeLosesNothing
<1>1. ASSUME DeskInv, [Next]_vars, Merges
      PROVE  LET read == FlattenSeq(job.loaded)
                 merged == file'[job.cmd.out]
             IN  /\ FpsIn(merged) = FpsIn(read)
                 /\ \A n \in DOMAIN merged : KeepsTheWorst(read, merged[n])
  <2> DEFINE read == FlattenSeq(job.loaded)
             merged == file'[job.cmd.out]
  <2>1. IsList(read) /\ IsReport(read) /\ merged = Combined(read)
    BY <1>1, MergesFill, MergeWrites
  <2> HIDE DEF read, merged
  <2>2. FpsIn(Combined(read)) = FpsIn(read)
    BY <2>1, CombinedIsCanonical
  <2>3. \A n \in DOMAIN Combined(read) : KeepsTheWorst(read, Combined(read)[n])
    BY <2>1, CombinedKeepsTheWorst
  <2>4. FpsIn(merged) = FpsIn(read) /\ \A n \in DOMAIN merged : KeepsTheWorst(read, merged[n])
    BY <2>1, <2>2, <2>3, Zenon
  <2>5. QED
    BY <2>4 DEF read, merged
<1>2. DeskInv /\ [Next]_vars =>
        [Merges => LET read == FlattenSeq(job.loaded)
                       merged == file'[job.cmd.out]
                   IN  /\ FpsIn(merged) = FpsIn(read)
                       /\ \A n \in DOMAIN merged : KeepsTheWorst(read, merged[n])]_vars
  BY <1>1
<1>3. QED
  BY <1>2, DeskInvHolds, PTL DEF Spec, MergeLosesNothing

\* A merge that is run again, over its own report and any of those it had read,
\* changes nothing: it may be retried, and may be written over one of its inputs.
THEOREM MergingTwiceIsOnce == Spec => MergeTwiceIsOnce
<1>1. ASSUME DeskInv, [Next]_vars, Merges
      PROVE  LET merged == file'[job.cmd.out]
             IN  \A i \in DOMAIN job.loaded :
                     Combined(merged \o job.loaded[i]) = merged
  <2> DEFINE read == FlattenSeq(job.loaded)
             merged == file'[job.cmd.out]
  <2>1. /\ IsList(read) /\ IsReport(read) /\ merged = Combined(read)
        /\ \A i \in DOMAIN job.loaded :
              /\ IsList(job.loaded[i]) /\ IsReport(job.loaded[i])
              /\ \A k \in DOMAIN job.loaded[i] :
                    \E j \in DOMAIN read : job.loaded[i][k] = read[j]
    BY <1>1, MergesFill, MergeWrites
  <2> HIDE DEF read, merged
  <2>2. ASSUME NEW i \in DOMAIN job.loaded
        PROVE  Combined(merged \o job.loaded[i]) = merged
    <3> DEFINE l == job.loaded[i]
    <3>1. IsList(l) /\ IsReport(l) /\ \A k \in DOMAIN l : \E j \in DOMAIN read : l[k] = read[j]
      BY <2>1
    <3> HIDE DEF l
    <3>2. Combined(Combined(read) \o l) = Combined(read)
      BY <2>1, <3>1, MergedAgain
    <3>3. Combined(merged \o l) = merged
      BY <2>1, <3>2, Zenon
    <3>4. QED
      BY <3>3 DEF l
  <2>3. QED
    BY <2>2 DEF merged
<1>2. DeskInv /\ [Next]_vars =>
        [Merges => LET merged == file'[job.cmd.out]
                   IN  \A i \in DOMAIN job.loaded :
                           Combined(merged \o job.loaded[i]) = merged]_vars
  BY <1>1
<1>3. QED
  BY <1>2, DeskInvHolds, PTL DEF Spec, MergeTwiceIsOnce

\* What a command that has ended had loaded.
LEMMA EndedIs ==
    ASSUME DeskInv, last # NoJob
    PROVE  \E cmd \in Command : /\ IsCommand(cmd)
                                /\ last.name = cmd.name /\ last.arg = cmd.arg
                                /\ EndedWell(cmd, last.loaded, last.exit)
<1>1. PICK cmd \in Command : /\ last = Ended(cmd, last.loaded, last.exit)
                             /\ EndedWell(cmd, last.loaded, last.exit)
  BY DEF DeskInv, LastInv
<1>2. last.name = cmd.name /\ last.arg = cmd.arg
  BY <1>1 DEF Ended
<1>3. QED
  BY <1>1, <1>2, InsAre

\* A command that reads one report and is done had loaded a whole one.
LEMMA OneLoaded ==
    ASSUME DeskInv, last # NoJob, last.name \in {"report", "remediate"}, last.exit = 0
    PROVE  IsWhole(last.loaded[1])
<1>1. PICK cmd \in Command : /\ IsCommand(cmd) /\ last.name = cmd.name
                             /\ EndedWell(cmd, last.loaded, last.exit)
  BY EndedIs
<1>2. Len(cmd.ins) = 1 /\ ~Writes(cmd)
  BY <1>1 DEF IsCommand
<1>3. Len(last.loaded) = 1 /\ LoadedBy(cmd, last.loaded)
  BY <1>1, <1>2 DEF EndedWell
<1>4. 1 \in DOMAIN last.loaded
  <2>1. DOMAIN last.loaded = 1..Len(last.loaded)
    BY <1>3, ListIs DEF LoadedBy
  <2>2. 1 \in 1..1
    OBVIOUS
  <2>3. QED
    BY <1>3, <2>1, <2>2, Zenon
<1>5. QED
  BY <1>3, <1>4 DEF LoadedBy

\* What "introduced" and "resolved" say of a series of reports adds up to its totals.
THEOREM TrendsAddUp == Spec => []TrendAddsUp
<1>1. DeskInv => TrendAddsUp
  <2> SUFFICES ASSUME DeskInv, Done("trend")
               PROVE  \A i \in DOMAIN Trend(last.loaded) :
                        Trend(last.loaded)[i].total
                          = (IF i = 1 THEN 0 ELSE Trend(last.loaded)[i - 1].total)
                            + Trend(last.loaded)[i].introduced - Trend(last.loaded)[i].resolved
    BY DEF TrendAddsUp
  <2> DEFINE series == last.loaded
             trend == Trend(series)
  <2>1. last # NoJob
    BY DEF Done, NoJob
  <2>2. IsList(series) /\ \A i \in DOMAIN series : IsList(series[i]) /\ Canonical(series[i])
    BY <2>1, EndedIs DEF EndedWell, LoadedBy, IsWhole
  <2> HIDE DEF series
  <2>3. DOMAIN series = 1..Len(series) /\ Len(series) \in Nat
    BY <2>2, ListIs
  <2>4. /\ DOMAIN trend = DOMAIN series
        /\ \A i \in DOMAIN series :
              /\ trend[i].total = Len(series[i])
              /\ trend[i].introduced = Cardinality(Introduced(series, i))
              /\ trend[i].resolved = Cardinality(ResolvedSince(series, i))
    BY DEF Trend
  <2> HIDE DEF trend
  <2>5. ASSUME NEW i \in DOMAIN trend
        PROVE  trend[i].total = (IF i = 1 THEN 0 ELSE trend[i - 1].total)
                                + trend[i].introduced - trend[i].resolved
    <3>1. i \in DOMAIN series
      BY <2>4, <2>5
    <3>2. Len(series[i]) = (IF i = 1 THEN 0 ELSE Len(series[i - 1]))
                           + Cardinality(Introduced(series, i))
                           - Cardinality(ResolvedSince(series, i))
      BY <2>2, <3>1, TrendStep
    <3>3. i # 1 => trend[i - 1].total = Len(series[i - 1])
      BY <2>3, <2>4, <3>1
    <3>4. QED
      BY <2>4, <3>1, <3>2, <3>3
  <2>6. QED
    BY <2>5 DEF trend, series
<1>2. QED
  BY <1>1, DeskInvHolds, PTL

-----------------------------------------------------------------------------
(***************************************************************************)
(* The gate and its JUnit report                                            *)
(***************************************************************************)
\* A policy blames new findings only, and some whenever it is violated.
LEMMA ViolationsAre ==
    ASSUME NEW new, NEW policy \in Policy
    PROVE  /\ PolicyTriggering(new, policy) \subseteq new
           /\ PolicyTriggering(new, policy) = {} <=> Violations(new, policy) = {}
<1>1. \A t \in Severity : policy.maxNew[t] \in Nat \cup {None}
  BY DEF Policy
<1>2. policy.maxTotal \in Nat \cup {None}
  BY DEF Policy
<1>3. \A S, budget : budget \in Nat \cup {None} /\ Exceeds(S, budget) => S # {}
  <2>1. SUFFICES ASSUME NEW budget \in Nat, Cardinality({}) > budget
                 PROVE  FALSE
    BY DEF Exceeds
  <2>2. Cardinality({}) = 0
    BY FS_EmptySet
  <2>3. QED
    BY <2>1, <2>2
<1>4. ASSUME NEW V \in Violations(new, policy)
      PROVE  V # {} /\ V \subseteq new
  <2>1. \/ \E t \in Severity : V = OfSeverity(new, t) /\ Exceeds(OfSeverity(new, t), policy.maxNew[t])
        \/ V = new /\ Exceeds(new, policy.maxTotal)
        \/ V # {} /\ V = {f \in new : policy.minRisk # None /\ RiskScore(f) >= policy.minRisk}
        \/ V # {} /\ V = {f \in new : policy.blockKev /\ f.kev}
    BY <1>4, Zenon DEF Violations
  <2>2. QED
    BY <1>1, <1>2, <1>3, <2>1 DEF OfSeverity
<1>5. QED
  BY <1>4 DEF PolicyTriggering

\* A diff splits a report into two lists with none of its places in both.
LEMMA DiffIs ==
    ASSUME NEW s, IsWhole(s), NEW baseline
    PROVE  /\ IsWhole(Diff(s, baseline).new) /\ IsWhole(Diff(s, baseline).persisting)
           /\ Len(Diff(s, baseline).new) + Len(Diff(s, baseline).persisting) = Len(s)
<1> DEFINE I == {i \in DOMAIN s : s[i].fp \notin baseline}
           J == {i \in DOMAIN s : s[i].fp \in baseline}
<1>1. I \in SUBSET DOMAIN s /\ J \in SUBSET DOMAIN s
  OBVIOUS
<1>2. Diff(s, baseline).new = At(s, I) /\ Diff(s, baseline).persisting = At(s, J)
  BY DEF Diff
<1>3. I \cup J = DOMAIN s /\ I \cap J = {}
  OBVIOUS
<1> HIDE DEF I, J
<1>4. IsWhole(At(s, I)) /\ IsWhole(At(s, J))
  BY <1>1, PickedIsCanonical DEF IsWhole
<1>5. Len(At(s, I)) = Cardinality(I) /\ Len(At(s, J)) = Cardinality(J)
  BY <1>1, Picked DEF IsWhole
<1>6. Cardinality(I) + Cardinality(J) = Len(s)
  BY <1>1, <1>3, SplitPlaces DEF IsWhole
<1>7. QED
  BY <1>2, <1>4, <1>5, <1>6

\* The JUnit report of a policy's verdict, and its failing cases.
VerdictReport(diff, policy) == JUnit(diff, PolicyTriggering(ToSet(diff.new), policy))
FailedCases(junit) == {i \in DOMAIN junit.cases : junit.cases[i].failed}

\* A case of the JUnit report fails for every finding the policy blames, and no
\* other does; with none the gate passes.
LEMMA JUnitIs ==
    ASSUME NEW diff, IsWhole(diff.new), IsWhole(diff.persisting), NEW policy \in Policy
    PROVE  /\ Cardinality(FailedCases(VerdictReport(diff, policy)))
                = VerdictReport(diff, policy).failures
           /\ Len(VerdictReport(diff, policy).cases) = VerdictReport(diff, policy).tests
           /\ VerdictReport(diff, policy).tests = Len(diff.new) + Len(diff.persisting)
           /\ FailedCases(VerdictReport(diff, policy)) = {}
                <=> Violations(ToSet(diff.new), policy) = {}
<1> SUFFICES ASSUME NEW triggering, triggering = PolicyTriggering(ToSet(diff.new), policy),
                    NEW junit, junit = JUnit(diff, triggering),
                    NEW failed, failed = {i \in DOMAIN junit.cases : junit.cases[i].failed}
             PROVE  /\ Cardinality(failed) = junit.failures
                    /\ Len(junit.cases) = junit.tests
                    /\ junit.tests = Len(diff.new) + Len(diff.persisting)
                    /\ failed = {} <=> Violations(ToSet(diff.new), policy) = {}
  BY DEF VerdictReport, FailedCases
<1> DEFINE new == diff.new
           old == diff.persisting
           A == [i \in DOMAIN new |-> [fp |-> new[i].fp,
                                       failed |-> new[i] \in Failing(diff, triggering)]]
           B == [i \in DOMAIN old |-> [fp |-> old[i].fp, failed |-> FALSE]]
<1>1. /\ DOMAIN new = 1..Len(new) /\ Len(new) \in Nat
      /\ DOMAIN old = 1..Len(old) /\ Len(old) \in Nat
  BY ListIs DEF IsWhole
<1>2. /\ junit.cases = A \o B /\ junit.failures = Cardinality(triggering)
      /\ junit.tests = Len(new) + Len(old)
  BY DEF JUnit
<1>3. triggering \subseteq ToSet(new)
      /\ (triggering = {} <=> Violations(ToSet(new), policy) = {})
  BY ViolationsAre
<1>4. \A i, j \in DOMAIN new : new[i].fp = new[j].fp => i = j
  <2>1. \A i, j \in DOMAIN new : i < j => new[i].fp # new[j].fp
    BY DEF IsWhole, Canonical
  <2>2. \A i, j \in DOMAIN new : i = j \/ i < j \/ j < i
    BY <1>1
  <2>3. QED
    BY <2>1, <2>2
<1>5. \A i \in DOMAIN new : new[i] \in Failing(diff, triggering) <=> new[i] \in triggering
  <2>1. ToSet(new) = {new[i] : i \in DOMAIN new}
    BY DEF ToSet
  <2>2. \A i \in DOMAIN new : new[i].fp \in {g.fp : g \in triggering} => new[i] \in triggering
    BY <1>3, <1>4, <2>1
  <2>3. QED
    BY <2>1, <2>2 DEF Failing
<1>6. /\ IsList(A) /\ Len(A) = Len(new) /\ IsList(B) /\ Len(B) = Len(old)
      /\ \A i \in 1..Len(new) : A[i].failed <=> new[i] \in triggering
      /\ \A i \in DOMAIN B : ~B[i].failed
  <2>1. IsList(A) /\ Len(A) = Len(new)
    BY <1>1 DEF IsList
  <2>2. IsList(B) /\ Len(B) = Len(old)
    BY <1>1 DEF IsList
  <2>3. \A i \in 1..Len(new) : A[i].failed <=> new[i] \in triggering
    BY <1>1, <1>5
  <2>4. \A i \in DOMAIN B : ~B[i].failed
    OBVIOUS
  <2>5. QED
    BY <2>1, <2>2, <2>3, <2>4
<1> HIDE DEF A, B
<1>7. /\ Len(junit.cases) = junit.tests
      /\ failed = {i \in DOMAIN new : new[i] \in triggering}
  <2>1. /\ IsList(A \o B) /\ Len(A \o B) = Len(new) + Len(old)
        /\ \A i \in 1..Len(new) : (A \o B)[i] = A[i]
        /\ \A i \in DOMAIN (A \o B) : i \notin 1..Len(new) =>
              i - Len(new) \in DOMAIN B /\ (A \o B)[i] = B[i - Len(new)]
    <3>1. /\ IsList(A \o B) /\ Len(A \o B) = Len(A) + Len(B)
          /\ \A i \in 1..Len(A) : (A \o B)[i] = A[i]
          /\ \A i \in DOMAIN (A \o B) : i \notin 1..Len(A) =>
                i - Len(A) \in DOMAIN B /\ (A \o B)[i] = B[i - Len(A)]
      BY <1>6, TwoJoined
    <3>2. QED
      BY <1>6, <3>1
  <2>2. \A i \in DOMAIN (A \o B) :
          (A \o B)[i].failed <=> i \in 1..Len(new) /\ new[i] \in triggering
    BY <1>6, <2>1
  <2>3. 1..Len(new) \subseteq DOMAIN (A \o B)
    <3>1. DOMAIN (A \o B) = 1..(Len(new) + Len(old))
      BY <2>1, ListIs
    <3>2. \A i \in 1..Len(new) : i \in 1..(Len(new) + Len(old))
      <4>1. \A m, n \in Nat : \A i \in 1..m : i \in 1..(m + n)
        OBVIOUS
      <4>2. QED
        BY <1>1, <4>1, Zenon
    <3>3. QED
      BY <3>1, <3>2
  <2>4. QED
    BY <1>1, <1>2, <2>1, <2>2, <2>3
<1>8. Cardinality(failed) = Cardinality(triggering)
  <2> DEFINE g == [i \in failed |-> new[i]]
  <2>1. g \in Surjection(failed, triggering)
    <3>1. \A f \in triggering : \E i \in DOMAIN new : new[i] = f
      BY <1>3 DEF ToSet
    <3>2. QED
      BY <1>7, <3>1 DEF Surjection
  <2>2. g \in Injection(failed, triggering)
    BY <1>4, <1>7 DEF Injection, IsInjective
  <2>3. IsFiniteSet(failed)
    <3>1. failed \in SUBSET DOMAIN new
      BY <1>7
    <3>2. QED
      BY <3>1, ListPlaces DEF IsWhole
  <2>4. ExistsBijection(failed, triggering)
    BY <2>1, <2>2 DEF ExistsBijection, Bijection
  <2>5. QED
    BY <2>3, <2>4, FS_Bijection
<1>9. failed = {} <=> triggering = {}
  <2>1. \A f \in triggering : \E i \in DOMAIN new : new[i] = f
    BY <1>3 DEF ToSet
  <2>2. QED
    BY <1>7, <2>1
<1>10. QED
  BY <1>2, <1>3, <1>7, <1>8, <1>9

\* The JUnit report of a policy's verdict fails as many cases as it declares
\* failures, and none if and only if the gate command ends with 0.
THEOREM JUnitIsTheVerdict == Spec => []JUnitTellsTheVerdict
<1>1. DeskInv => JUnitTellsTheVerdict
  <2> DEFINE diff == GateDiff(last.loaded)
             junit == VerdictReport(diff, last.arg)
             failed == FailedCases(junit)
  <2> SUFFICES ASSUME DeskInv, last.name = "gate", last.exit # 2
               PROVE  /\ Cardinality(failed) = junit.failures
                      /\ Len(junit.cases) = junit.tests
                      /\ junit.tests = Len(last.loaded[1])
                      /\ last.exit = 0 <=> failed = {}
    BY DEF JUnitTellsTheVerdict, VerdictReport, FailedCases
  <2>1. PICK cmd \in Command : /\ IsCommand(cmd)
                               /\ last.name = cmd.name /\ last.arg = cmd.arg
                               /\ EndedWell(cmd, last.loaded, last.exit)
    <3>1. last # NoJob
      BY DEF NoJob
    <3>2. QED
      BY <3>1, EndedIs
  <2>2. /\ Len(cmd.ins) \in {1, 2} /\ cmd.arg \in Policy \cup {Unreadable} /\ ~Writes(cmd)
    BY <2>1 DEF IsCommand
  <2>3. /\ Len(last.loaded) = Len(cmd.ins) /\ LoadedBy(cmd, last.loaded)
        /\ last.exit \in ExitCodes(cmd, last.loaded)
    BY <2>1, <2>2 DEF EndedWell
  <2>4. last.exit \in (IF cmd.arg = Unreadable THEN {2}
                       ELSE IF GateViolations(last.loaded, cmd.arg) = {} THEN {0} ELSE {1})
    BY <2>1, <2>3 DEF ExitCodes
  <2>5. /\ last.arg \in Policy
        /\ last.exit = 0 <=> GateViolations(last.loaded, last.arg) = {}
    BY <2>1, <2>2, <2>4
  <2>6. IsWhole(last.loaded[1])
    <3>1. 1 \in DOMAIN last.loaded
      <4>1. IsList(last.loaded)
        BY <2>3 DEF LoadedBy
      <4>2. DOMAIN last.loaded = 1..Len(last.loaded)
        BY <4>1, ListIs
      <4>3. Len(last.loaded) \in {1, 2}
        BY <2>2, <2>3
      <4>4. \A n \in {1, 2} : 1 \in 1..n
        OBVIOUS
      <4>5. QED
        BY <4>2, <4>3, <4>4, Zenon
    <3>2. QED
      BY <2>3, <3>1 DEF LoadedBy
  <2>7. /\ IsWhole(diff.new) /\ IsWhole(diff.persisting)
        /\ Len(diff.new) + Len(diff.persisting) = Len(last.loaded[1])
    BY <2>6, DiffIs DEF GateDiff
  <2>8. GateViolations(last.loaded, last.arg) = Violations(ToSet(diff.new), last.arg)
    BY DEF GateViolations
  <2> HIDE DEF diff
  <2>9. /\ Cardinality(failed) = junit.failures
        /\ Len(junit.cases) = junit.tests
        /\ junit.tests = Len(diff.new) + Len(diff.persisting)
        /\ failed = {} <=> Violations(ToSet(diff.new), last.arg) = {}
    BY <2>5, <2>7, JUnitIs
  <2>10. QED
    BY <2>5, <2>7, <2>8, <2>9
<1>2. QED
  BY <1>1, DeskInvHolds, PTL

-----------------------------------------------------------------------------
(***************************************************************************)
(* The split of a report among its owners                                   *)
(***************************************************************************)
\* What a query keeps of a report: as many entries as match, and just those.
LEMMA FilteredIs ==
    ASSUME NEW s, IsWhole(s), NEW q
    PROVE  /\ Len(Filtered(s, q)) = Cardinality({i \in DOMAIN s : Matches(s[i], q)})
           /\ ToSet(Filtered(s, q)) = {s[i] : i \in {i \in DOMAIN s : Matches(s[i], q)}}
<1> DEFINE I == {i \in DOMAIN s : Matches(s[i], q)}
<1>1. I \in SUBSET DOMAIN s
  OBVIOUS
<1>2. Filtered(s, q) = At(s, I)
  BY DEF Filtered
<1> HIDE DEF I
<1>3. /\ Len(At(s, I)) = Cardinality(I)
      /\ \A n \in DOMAIN At(s, I) : InOrder(I)[n] \in I /\ At(s, I)[n] = s[InOrder(I)[n]]
      /\ \A i \in I : \E n \in DOMAIN At(s, I) : InOrder(I)[n] = i
  BY <1>1, Picked DEF IsWhole
<1>4. ToSet(At(s, I)) = {At(s, I)[n] : n \in DOMAIN At(s, I)}
  BY DEF ToSet
<1>5. ToSet(At(s, I)) = {s[i] : i \in I}
  BY <1>3, <1>4
<1>6. QED
  BY <1>2, <1>3, <1>5 DEF I

\* The three queries of a split: one owner, the gap, and both of them.
LEMMA SlicesMatch ==
    ASSUME NEW f, IsEntry(f), NEW o
    PROVE  /\ Matches(f, [NoQuery EXCEPT !.owners = {o}])
                <=> f.meta.owner # Absent /\ f.meta.owner = o
           /\ Matches(f, [NoQuery EXCEPT !.unassigned = TRUE]) <=> f.meta.owner = Absent
           /\ Matches(f, [NoQuery EXCEPT !.owners = {o}, !.unassigned = TRUE])
                <=> f.meta.owner \in {o, Absent}
<1>1. f.sev >= None
  <2>1. f.sev \in 0..4
    BY EntryNumbers
  <2>2. QED
    BY <2>1 DEF None
<1>2. \A q : /\ q.minSev = None /\ q.minRisk = None /\ q.kevOnly = FALSE
             /\ q.sources = {} /\ q.hosts = {} /\ q.tags = {} /\ q.cves = {}
             => (Matches(f, q) <=> MatchesOwner(f, q))
  BY <1>1 DEF Matches
<1> DEFINE q1 == [NoQuery EXCEPT !.owners = {o}]
           q2 == [NoQuery EXCEPT !.unassigned = TRUE]
           q3 == [NoQuery EXCEPT !.owners = {o}, !.unassigned = TRUE]
<1>3. \A q \in {q1, q2, q3} :
          /\ q.minSev = None /\ q.minRisk = None /\ q.kevOnly = FALSE
          /\ q.sources = {} /\ q.hosts = {} /\ q.tags = {} /\ q.cves = {}
  BY DEF NoQuery
<1>4. /\ q1.owners = {o} /\ q1.unassigned = FALSE
      /\ q2.owners = {} /\ q2.unassigned = TRUE
      /\ q3.owners = {o} /\ q3.unassigned = TRUE
  BY DEF NoQuery
<1> HIDE DEF q1, q2, q3
<1>5. /\ MatchesOwner(f, q1) <=> f.meta.owner # Absent /\ f.meta.owner = o
      /\ MatchesOwner(f, q2) <=> f.meta.owner = Absent
      /\ MatchesOwner(f, q3) <=> f.meta.owner \in {o, Absent}
  BY <1>4 DEF MatchesOwner
<1>6. \A q \in {q1, q2, q3} : Matches(f, q) <=> MatchesOwner(f, q)
  BY <1>2, <1>3
<1>7. QED
  BY <1>5, <1>6 DEF q1, q2, q3

\* The places of an owner's entries, and of those nobody owns.
Owned(s, o) == {i \in DOMAIN s : s[i].meta.owner = o}

LEMMA SlicesAre ==
    ASSUME NEW s, IsWhole(s)
    PROVE  /\ Owned(s, Absent) \in SUBSET DOMAIN s
           /\ Len(GapSlice(s)) = Cardinality(Owned(s, Absent))
           /\ ToSet(GapSlice(s)) = {s[i] : i \in Owned(s, Absent)}
           /\ \A o \in OwnersIn(s) :
                 /\ o # Absent /\ Owned(s, o) \in SUBSET DOMAIN s
                 /\ Len(OwnerSlice(s, o)) = Cardinality(Owned(s, o))
                 /\ ToSet(OwnerSlice(s, o)) = {s[i] : i \in Owned(s, o)}
                 /\ Len(Filtered(s, [NoQuery EXCEPT !.owners = {o}, !.unassigned = TRUE]))
                      = Cardinality(Owned(s, o) \cup Owned(s, Absent))
<1> DEFINE q1(o) == [NoQuery EXCEPT !.owners = {o}]
           q2 == [NoQuery EXCEPT !.unassigned = TRUE]
           q3(o) == [NoQuery EXCEPT !.owners = {o}, !.unassigned = TRUE]
           M(q) == {i \in DOMAIN s : Matches(s[i], q)}
<1>1. \A i \in DOMAIN s : IsEntry(s[i])
  <2>1. DOMAIN s = 1..Len(s)
    BY ListIs DEF IsWhole
  <2>2. QED
    BY <2>1 DEF IsWhole, IsReport
<1>2. ASSUME NEW i \in DOMAIN s, NEW o
      PROVE  /\ Matches(s[i], q1(o)) <=> s[i].meta.owner # Absent /\ s[i].meta.owner = o
             /\ Matches(s[i], q2) <=> s[i].meta.owner = Absent
             /\ Matches(s[i], q3(o)) <=> s[i].meta.owner \in {o, Absent}
  BY <1>1, SlicesMatch
<1>3. \A q : Len(Filtered(s, q)) = Cardinality(M(q)) /\ ToSet(Filtered(s, q)) = {s[i] : i \in M(q)}
  BY FilteredIs
<1>4. GapSlice(s) = Filtered(s, q2) /\ \A o : OwnerSlice(s, o) = Filtered(s, q1(o))
  BY DEF GapSlice, OwnerSlice
<1> HIDE DEF q1, q2, q3
<1>5. M(q2) = Owned(s, Absent)
  BY <1>2 DEF Owned
<1>6. ASSUME NEW o, o # Absent
      PROVE  M(q1(o)) = Owned(s, o) /\ M(q3(o)) = Owned(s, o) \cup Owned(s, Absent)
  BY <1>2, <1>6 DEF Owned
<1>7. \A o \in OwnersIn(s) : o # Absent
  BY DEF OwnersIn
<1>8. \A o : Owned(s, o) \in SUBSET DOMAIN s
  BY DEF Owned
<1> HIDE DEF M
<1>9. Len(GapSlice(s)) = Cardinality(Owned(s, Absent))
      /\ ToSet(GapSlice(s)) = {s[i] : i \in Owned(s, Absent)}
  BY <1>3, <1>4, <1>5, Zenon
<1>10. ASSUME NEW o \in OwnersIn(s)
       PROVE  /\ Len(OwnerSlice(s, o)) = Cardinality(Owned(s, o))
              /\ ToSet(OwnerSlice(s, o)) = {s[i] : i \in Owned(s, o)}
              /\ Len(Filtered(s, q3(o))) = Cardinality(Owned(s, o) \cup Owned(s, Absent))
  BY <1>3, <1>4, <1>6, <1>7, Zenon
<1>11. QED
  BY <1>7, <1>8, <1>9, <1>10 DEF q3

\* A severity threshold stops a report exactly for an entry at or above it.
LEMMA BlockedIs ==
    ASSUME NEW s, IsFiniteSet(ToSet(s)), \A f \in ToSet(s) : IsEntry(f), NEW t \in Severity
    PROVE  BlockedBySeverity(s, t) <=> \E f \in ToSet(s) : f.sev >= t
<1> DEFINE S == ToSet(s)
           p == PolicyFromThreshold(t, None)
<1>1. /\ \A v \in Severity : p.maxNew[v] = IF v >= t THEN 0 ELSE None
      /\ p.maxTotal = None /\ p.minRisk = None /\ p.blockKev = FALSE
  BY DEF PolicyFromThreshold
<1>2. \A f \in S : f.sev \in Severity
  <2>1. \A f \in S : f.sev \in 0..4
    BY EntryNumbers
  <2>2. QED
    BY <2>1 DEF Severity
<1>3. \A v \in Severity : Exceeds(OfSeverity(S, v), p.maxNew[v])
                            <=> v >= t /\ OfSeverity(S, v) # {}
  <2> SUFFICES ASSUME NEW v \in Severity
               PROVE  Exceeds(OfSeverity(S, v), p.maxNew[v])
                        <=> v >= t /\ OfSeverity(S, v) # {}
    OBVIOUS
  <2>1. IsFiniteSet(OfSeverity(S, v))
    BY FS_Subset DEF OfSeverity
  <2>2. Cardinality(OfSeverity(S, v)) \in Nat
        /\ (Cardinality(OfSeverity(S, v)) = 0 <=> OfSeverity(S, v) = {})
    BY <2>1, FS_CardinalityType, FS_EmptySet
  <2> HIDE DEF p
  <2>3. CASE v >= t
    <3>1. p.maxNew[v] = 0
      BY <1>1, <2>3
    <3>2. QED
      BY <2>2, <2>3, <3>1 DEF Exceeds, None
  <2>4. CASE ~(v >= t)
    <3>1. p.maxNew[v] = None
      BY <1>1, <2>4
    <3>2. QED
      BY <2>4, <3>1 DEF Exceeds
  <2>5. QED
    BY <2>3, <2>4
<1> HIDE DEF p
<1>4. Violations(S, p) # {} <=> \E v \in Severity : Exceeds(OfSeverity(S, v), p.maxNew[v])
  <2>1. ~Exceeds(S, p.maxTotal)
    BY <1>1 DEF Exceeds
  <2>2. /\ {f \in S : p.minRisk # None /\ RiskScore(f) >= p.minRisk} = {}
        /\ {f \in S : p.blockKev /\ f.kev} = {}
    BY <1>1
  <2>3. Violations(S, p)
          = {OfSeverity(S, v) : v \in {u \in Severity : Exceeds(OfSeverity(S, u), p.maxNew[u])}}
    BY <2>1, <2>2 DEF Violations
  <2>4. QED
    BY <2>3
<1>5. (\E v \in Severity : v >= t /\ OfSeverity(S, v) # {}) <=> \E f \in S : f.sev >= t
  BY <1>2 DEF OfSeverity
<1>6. QED
  BY <1>3, <1>4, <1>5 DEF BlockedBySeverity, p

\* The slices of a report hold its entries and no others.
LEMMA SlicesCover ==
    ASSUME NEW s, IsWhole(s)
    PROVE  /\ ToSet(s) = UNION {ToSet(slice) : slice \in Slices(s)}
           /\ \A slice \in Slices(s) : ToSet(slice) \subseteq ToSet(s)
<1>1. ToSet(s) = {s[i] : i \in DOMAIN s}
  BY DEF ToSet
<1>2. \A slice \in Slices(s) : ToSet(slice) \subseteq ToSet(s)
  <2>1. ToSet(GapSlice(s)) \subseteq ToSet(s)
    <3>1. \A f \in {s[i] : i \in Owned(s, Absent)} : f \in {s[i] : i \in DOMAIN s}
      BY DEF Owned
    <3>2. ToSet(GapSlice(s)) = {s[i] : i \in Owned(s, Absent)}
      BY SlicesAre
    <3>3. QED
      BY <1>1, <3>1, <3>2, Zenon
  <2>2. ASSUME NEW o \in OwnersIn(s)
        PROVE  ToSet(OwnerSlice(s, o)) \subseteq ToSet(s)
    <3>1. \A f \in {s[i] : i \in Owned(s, o)} : f \in {s[i] : i \in DOMAIN s}
      BY DEF Owned
    <3>2. ToSet(OwnerSlice(s, o)) = {s[i] : i \in Owned(s, o)}
      BY SlicesAre
    <3>3. QED
      BY <1>1, <3>1, <3>2, Zenon
  <2>3. QED
    BY <2>1, <2>2 DEF Slices
<1>3. ASSUME NEW i \in DOMAIN s
      PROVE  \E slice \in Slices(s) : s[i] \in ToSet(slice)
  <2>1. CASE s[i].meta.owner = Absent
    <3>1. i \in Owned(s, Absent)
      BY <2>1 DEF Owned
    <3>2. s[i] \in ToSet(GapSlice(s))
      BY <3>1, SlicesAre
    <3>3. QED
      BY <3>2 DEF Slices
  <2>2. CASE s[i].meta.owner # Absent
    <3> DEFINE o == s[i].meta.owner
    <3>1. o \in OwnersIn(s) /\ i \in Owned(s, o)
      BY <2>2 DEF Owned, OwnersIn
    <3>2. s[i] \in ToSet(OwnerSlice(s, o))
      <4>1. ToSet(OwnerSlice(s, o)) = {s[j] : j \in Owned(s, o)}
        BY <3>1, SlicesAre
      <4>2. s[i] \in {s[j] : j \in Owned(s, o)}
        BY <3>1
      <4>3. QED
        BY <4>1, <4>2, Zenon
    <3>3. QED
      BY <3>1, <3>2 DEF Slices
  <2>3. QED
    BY <2>1, <2>2
<1>4. \A f \in ToSet(s) : \E slice \in Slices(s) : f \in ToSet(slice)
  BY <1>1, <1>3
<1>5. ToSet(s) \subseteq UNION {ToSet(slice) : slice \in Slices(s)}
  BY <1>4
<1>6. UNION {ToSet(slice) : slice \in Slices(s)} \subseteq ToSet(s)
  BY <1>2
<1>7. QED
  BY <1>2, <1>5, <1>6

\* The slices of the owners and the gap count every entry once.
LEMMA SlicesCount ==
    ASSUME NEW s, IsWhole(s)
    PROVE  /\ \A o \in OwnersIn(s) :
                 Len(Filtered(s, [NoQuery EXCEPT !.owners = {o}, !.unassigned = TRUE]))
                   = Len(OwnerSlice(s, o)) + Len(GapSlice(s))
           /\ Len(s) = SumFunction([o \in OwnersIn(s) |-> Len(OwnerSlice(s, o))])
                       + Len(GapSlice(s))
<1> DEFINE P == DOMAIN s
           D == OwnersIn(s)
           gap == Owned(s, Absent)
           class == [i \in P |-> s[i].meta.owner]
           size == [o \in D |-> Len(OwnerSlice(s, o))]
           others == {i \in P : class[i] \in D}
<1>1. /\ Len(GapSlice(s)) = Cardinality(gap)
      /\ \A o \in D : Len(OwnerSlice(s, o)) = Cardinality(Owned(s, o))
  BY SlicesAre
<1>2. IsFiniteSet(P) /\ \A I \in SUBSET P : IsFiniteSet(I)
  BY ListPlaces DEF IsWhole
<1>3. ASSUME NEW o \in D
      PROVE  Len(Filtered(s, [NoQuery EXCEPT !.owners = {o}, !.unassigned = TRUE]))
               = Len(OwnerSlice(s, o)) + Len(GapSlice(s))
  <2>1. o # Absent /\ Owned(s, o) \in SUBSET P /\ gap \in SUBSET P
    BY SlicesAre
  <2>2. Owned(s, o) \cap gap = {}
    BY <2>1 DEF Owned
  <2>3. IsFiniteSet(Owned(s, o)) /\ IsFiniteSet(gap)
    BY <1>2, <2>1
  <2>4. Cardinality(Owned(s, o) \cup gap) = Cardinality(Owned(s, o)) + Cardinality(gap)
    BY <2>2, <2>3, DisjointCount
  <2>5. Len(Filtered(s, [NoQuery EXCEPT !.owners = {o}, !.unassigned = TRUE]))
          = Cardinality(Owned(s, o) \cup gap)
    BY SlicesAre
  <2>6. QED
    BY <1>1, <2>4, <2>5, Zenon
<1>4. IsFiniteSet(D)
  <2> DEFINE holders == {i \in P : s[i].meta.owner # Absent}
             g == [i \in holders |-> s[i].meta.owner]
  <2>1. g \in Surjection(holders, D)
    BY DEF OwnersIn, Surjection
  <2>2. IsFiniteSet(holders)
    BY <1>2
  <2> HIDE DEF g, holders, D
  <2>3. QED
    BY <2>1, <2>2, FS_Surjection
<1>5. SumFunction(size) = Cardinality(others)
  <2>1. \A o \in D : {i \in P : class[i] = o} = Owned(s, o)
    BY DEF Owned
  <2>2. DOMAIN size = D /\ \A o \in D : size[o] = Cardinality(Owned(s, o))
    BY <1>1
  <2> HIDE DEF P, D, class, size
  <2>3. \A o \in D : size[o] = Cardinality({i \in P : class[i] = o})
    BY <2>1, <2>2, Zenon
  <2>4. SumFunction(size) = Cardinality({i \in P : class[i] \in D})
    BY <1>2, <1>4, <2>2, <2>3, CountByClass
  <2>5. QED
    BY <2>4
<1>6. Cardinality(others) + Cardinality(gap) = Len(s)
  <2>1. others \in SUBSET P /\ gap \in SUBSET P
    BY DEF Owned
  <2>2. others \cup gap = P /\ others \cap gap = {}
    BY DEF Owned, OwnersIn
  <2> HIDE DEF others, gap
  <2>3. QED
    BY <2>1, <2>2, SplitPlaces DEF IsWhole
<1>7. Cardinality(others) \in Nat /\ Cardinality(gap) \in Nat
  <2>1. others \in SUBSET P /\ gap \in SUBSET P
    BY DEF Owned
  <2> HIDE DEF others, gap
  <2>2. QED
    BY <2>1, ListPlaces DEF IsWhole
<1> HIDE DEF others, gap
<1>8. Len(s) = SumFunction(size) + Len(GapSlice(s))
  BY <1>1, <1>5, <1>6, <1>7
<1>9. QED
  BY <1>3, <1>8

\* A report that is split among its owners and the gap loses nothing, shows nothing
\* twice, and is stopped by the severity gate exactly if one of its slices is.
THEOREM OwnersShareTheReport == Spec => []OwnerSlicesPartition
<1>1. DeskInv => OwnerSlicesPartition
  <2> SUFFICES ASSUME DeskInv, Done("report")
               PROVE  LET s == last.loaded[1]
                      IN  /\ ToSet(s) = UNION {ToSet(slice) : slice \in Slices(s)}
                          /\ \A o \in OwnersIn(s) :
                                Len(Filtered(s, [NoQuery EXCEPT !.owners = {o}, !.unassigned = TRUE]))
                                  = Len(OwnerSlice(s, o)) + Len(GapSlice(s))
                          /\ Len(s) = SumFunction([o \in OwnersIn(s) |-> Len(OwnerSlice(s, o))])
                                      + Len(GapSlice(s))
                          /\ \A t \in Severity : BlockedBySeverity(s, t)
                                <=> \E slice \in Slices(s) : BlockedBySeverity(slice, t)
    BY DEF OwnerSlicesPartition
  <2> DEFINE s == last.loaded[1]
  <2>1. IsWhole(s)
    <3>1. last # NoJob /\ last.name = "report" /\ last.exit = 0
      BY DEF Done, NoJob
    <3>2. QED
      BY <3>1, OneLoaded
  <2> HIDE DEF s
  <2>2. IsFiniteSet(ToSet(s)) /\ \A f \in ToSet(s) : IsEntry(f)
    <3>1. DOMAIN s = 1..Len(s) /\ IsFiniteSet(DOMAIN s)
      BY <2>1, ListIs, ListPlaces DEF IsWhole
    <3>2. ToSet(s) = {s[i] : i \in DOMAIN s}
      BY DEF ToSet
    <3>3. IsFiniteSet(ToSet(s))
      <4> DEFINE g == [i \in DOMAIN s |-> s[i]]
      <4>1. g \in Surjection(DOMAIN s, ToSet(s))
        BY <3>2 DEF Surjection
      <4>2. QED
        BY <3>1, <4>1, FS_Surjection
    <3>4. QED
      BY <2>1, <3>1, <3>2, <3>3 DEF IsWhole, IsReport
  <2>3. ASSUME NEW t \in Severity
        PROVE  BlockedBySeverity(s, t) <=> \E slice \in Slices(s) : BlockedBySeverity(slice, t)
    <3>1. \A slice \in Slices(s) : IsFiniteSet(ToSet(slice)) /\ \A f \in ToSet(slice) : IsEntry(f)
      BY <2>1, <2>2, SlicesCover, FS_Subset
    <3>2. BlockedBySeverity(s, t) <=> \E f \in ToSet(s) : f.sev >= t
      BY <2>2, BlockedIs
    <3>3. \A slice \in Slices(s) :
             BlockedBySeverity(slice, t) <=> \E f \in ToSet(slice) : f.sev >= t
      BY <3>1, BlockedIs
    <3>4. /\ \A f \in ToSet(s) : \E slice \in Slices(s) : f \in ToSet(slice)
          /\ \A slice \in Slices(s) : \A f \in ToSet(slice) : f \in ToSet(s)
      <4>1. /\ ToSet(s) = UNION {ToSet(slice) : slice \in Slices(s)}
            /\ \A slice \in Slices(s) : ToSet(slice) \subseteq ToSet(s)
        BY <2>1, SlicesCover
      <4>2. QED
        BY <4>1
    <3>5. QED
      BY <3>2, <3>3, <3>4
  <2>4. QED
    BY <2>1, <2>3, SlicesCover, SlicesCount DEF s
<1>2. QED
  BY <1>1, DeskInvHolds, PTL

-----------------------------------------------------------------------------
(***************************************************************************)
(* The remediation plan                                                     *)
(***************************************************************************)
\* Of any report that remediate reads, however it was made: the plan clears every
\* entry by one action and conserves the risk, and a cut by --top shows all that
\* is known to be exploited before anything that is not.
THEOREM PlanCovers == Spec => []PlanCoversReport
<1>1. DeskInv => PlanCoversReport
  <2> DEFINE s == last.loaded[1]
             top == last.arg
  <2> SUFFICES ASSUME DeskInv, Done("remediate")
               PROVE  /\ Len(Planned(s)) = Len(s) /\ ToSet(Planned(s)) = ToSet(s)
                      /\ TotalRisk(s) = SumFunction(PlannedRisks(s))
                      /\ (\E i \in DOMAIN Limited(Plan(s), top) :
                             ~ActionKev(Limited(Plan(s), top)[i])) =>
                            \A i \in DOMAIN s : s[i].kev =>
                                \E a \in DOMAIN Limited(Plan(s), top) :
                                    \E j \in DOMAIN Limited(Plan(s), top)[a].members :
                                        Limited(Plan(s), top)[a].members[j] = s[i]
    BY DEF PlanCoversReport, Planned, PlannedRisks
  <2>1. IsWhole(s) /\ top \in Int
    <3>1. last # NoJob /\ last.name = "remediate" /\ last.exit = 0
      BY DEF Done, NoJob
    <3>2. IsWhole(s)
      BY <3>1, OneLoaded
    <3>3. PICK cmd \in Command : IsCommand(cmd) /\ last.name = cmd.name /\ last.arg = cmd.arg
      BY <3>1, EndedIs
    <3>4. QED
      BY <3>1, <3>2, <3>3 DEF IsCommand
  <2> HIDE DEF s, top
  <2>2. IsList(s) /\ IsReport(s) /\ Canonical(s)
    BY <2>1 DEF IsWhole
  <2>3. QED
    BY <2>1, <2>2, PlannedIs, PlanCounts, TopKeepsExploited
<1>2. QED
  BY <1>1, DeskInvHolds, PTL

-----------------------------------------------------------------------------
(***************************************************************************)
(* The documents made of one report                                         *)
(***************************************************************************)
VexStatement(s, v, i) ==
    [vuln |-> v, action |-> s[i].fix,
     products |-> {Product(s[j]) : j \in {j \in Citing(s, v) : s[j].fix = s[i].fix}},
     kev |-> KnownExploited(s, v)]

Exposures(s) == UNION {{<<v, Product(s[i])>> : i \in Citing(s, v)} : v \in Vulns(s)}

\* OpenVEX says of every vulnerability which products it is on.
LEMMA VexIs ==
    ASSUME NEW s
    PROVE  /\ UNION {{x.vuln} \X x.products : x \in Vex(s)} = Exposures(s)
           /\ \A x \in Vex(s) : x.vuln \in Vulns(s) /\ x.kev = KnownExploited(s, x.vuln)
<1>1. \A x : x \in Vex(s) <=>
                \E v \in Vulns(s) : \E i \in Citing(s, v) : x = VexStatement(s, v, i)
  BY DEF Vex, VexStatement
<1>2. \A v, i : /\ VexStatement(s, v, i).vuln = v
                /\ VexStatement(s, v, i).kev = KnownExploited(s, v)
                /\ VexStatement(s, v, i).products
                     = {Product(s[j]) : j \in {j \in Citing(s, v) : s[j].fix = s[i].fix}}
  BY DEF VexStatement
<1>3. ASSUME NEW x \in Vex(s), NEW p \in x.products
      PROVE  <<x.vuln, p>> \in Exposures(s)
  <2>1. PICK v \in Vulns(s) : \E i \in Citing(s, v) : x = VexStatement(s, v, i)
    BY <1>1
  <2>2. x.vuln = v /\ \E j \in Citing(s, v) : p = Product(s[j])
    BY <1>2, <2>1
  <2>3. QED
    BY <2>2 DEF Exposures
<1>4. ASSUME NEW v \in Vulns(s), NEW i \in Citing(s, v)
      PROVE  \E x \in Vex(s) : x.vuln = v /\ Product(s[i]) \in x.products
  <2>1. VexStatement(s, v, i) \in Vex(s)
    BY <1>1
  <2>2. Product(s[i]) \in VexStatement(s, v, i).products
    BY <1>2
  <2>3. QED
    BY <1>2, <2>1, <2>2
<1>5. \A e : e \in UNION {{x.vuln} \X x.products : x \in Vex(s)}
             <=> \E x \in Vex(s) : \E p \in x.products : e = <<x.vuln, p>>
  OBVIOUS
<1>6. \A e : e \in Exposures(s) <=>
                \E v \in Vulns(s) : \E i \in Citing(s, v) : e = <<v, Product(s[i])>>
  BY DEF Exposures
<1>7. UNION {{x.vuln} \X x.products : x \in Vex(s)} = Exposures(s)
  <2>1. \A e : (\E x \in Vex(s) : \E p \in x.products : e = <<x.vuln, p>>)
               => e \in Exposures(s)
    BY <1>3
  <2>2. \A e : e \in Exposures(s) =>
                  \E x \in Vex(s) : \E p \in x.products : e = <<x.vuln, p>>
    BY <1>4, <1>6
  <2>3. QED
    BY <1>5, <2>1, <2>2
<1>8. QED
  BY <1>1, <1>2, <1>7

CycloneDxEntry(s, v) ==
    LET rep == s[Representative(s, v)]
    IN  [vuln |-> v, severity |-> rep.sev, score |-> rep.cvss, fix |-> rep.fix,
         cwes |-> UNION {s[i].cwes : i \in Citing(s, v)},
         affects |-> {Product(s[i]) : i \in Citing(s, v)},
         risk |-> Max({RiskScore(s[i]) : i \in Citing(s, v)}),
         kev |-> KevProperty(s, v)]

LEMMA CycloneDxIs ==
    ASSUME NEW s
    PROVE  /\ UNION {{y.vuln} \X y.affects : y \in CycloneDx(s)} = Exposures(s)
           /\ \A v \in Vulns(s) : \E y \in CycloneDx(s) :
                 y.vuln = v /\ y.kev = KnownExploited(s, v)
<1>1. \A y : y \in CycloneDx(s) <=> \E v \in Vulns(s) : y = CycloneDxEntry(s, v)
  BY DEF CycloneDx, CycloneDxEntry
<1>2. \A v : /\ CycloneDxEntry(s, v).vuln = v
             /\ CycloneDxEntry(s, v).affects = {Product(s[i]) : i \in Citing(s, v)}
             /\ CycloneDxEntry(s, v).kev = KnownExploited(s, v)
  BY DEF CycloneDxEntry, KevProperty, KnownExploited
<1>3. \A e : e \in UNION {{y.vuln} \X y.affects : y \in CycloneDx(s)}
             <=> \E y \in CycloneDx(s) : \E p \in y.affects : e = <<y.vuln, p>>
  OBVIOUS
<1>4. \A e : e \in Exposures(s) <=>
                \E v \in Vulns(s) : \E i \in Citing(s, v) : e = <<v, Product(s[i])>>
  BY DEF Exposures
<1>5. \A e : (\E y \in CycloneDx(s) : \E p \in y.affects : e = <<y.vuln, p>>)
             <=> \E v \in Vulns(s) : \E i \in Citing(s, v) : e = <<v, Product(s[i])>>
  BY <1>1, <1>2
<1>6. UNION {{y.vuln} \X y.affects : y \in CycloneDx(s)} = Exposures(s)
  BY <1>3, <1>4, <1>5
<1>7. QED
  BY <1>1, <1>2, <1>6

LEMMA FormatsAgree ==
    ASSUME NEW s
    PROVE  ExchangeFormatsAgree(s)
BY VexIs, CycloneDxIs DEF ExchangeFormatsAgree

LEMMA SecuritySeverityIs ==
    ASSUME NEW f, IsEntry(f)
    PROVE  SecuritySeverity(f) \in Int /\ SecuritySeverity(f) <= 100
<1>1. f.sev \in 0..4 /\ f.cvss \in -1..100
  BY EntryNumbers
<1>2. \A v \in 0..4 : /\ <<0, 1, 40, 70, 90>>[v + 1] \in Int
                      /\ <<0, 1, 40, 70, 90>>[v + 1] <= 100
  OBVIOUS
<1>3. CASE f.cvss # None
  BY <1>1, <1>3 DEF SecuritySeverity
<1>4. CASE f.cvss = None
  BY <1>1, <1>2, <1>4 DEF SecuritySeverity
<1>5. QED
  BY <1>3, <1>4

FirstOfRule(s) == {i \in DOMAIN s : \A j \in 1..(i - 1) : RuleOf(s[j]) # RuleOf(s[i])}
OfRule(s, r) == {j \in DOMAIN s : RuleOf(s[j]) = r}
RuleEntry(s, i) ==
    [id |-> RuleOf(s[i]),
     severity |-> Max({SecuritySeverity(s[j]) : j \in OfRule(s, RuleOf(s[i]))})]

\* Every result of a SARIF document finds its rule, and the rule is rated at least
\* as severe as each of its results.
LEMMA SarifIs ==
    ASSUME NEW s, IsList(s), IsReport(s)
    PROVE  SarifIsWorstCase(s)
<1> DEFINE firsts == FirstOfRule(s)
           order == InOrder(firsts)
           rules == SarifRules(s)
<1>1. DOMAIN s = 1..Len(s) /\ Len(s) \in Nat
  BY ListIs
<1>2. rules = [n \in DOMAIN order |-> RuleEntry(s, order[n])]
  BY DEF SarifRules, FirstOfRule, RuleEntry, OfRule
<1>3. firsts \in SUBSET DOMAIN s
  BY DEF FirstOfRule
<1>4. firsts \in SUBSET Nat /\ IsFiniteSet(firsts)
  BY <1>3, ListPlaces
<1>5. /\ \A n \in DOMAIN order : order[n] \in firsts
      /\ \A i \in firsts : \E n \in DOMAIN order : order[n] = i
  <2> HIDE DEF firsts
  <2>1. /\ order \in [1..Cardinality(firsts) -> firsts]
        /\ \A i \in firsts : \E n \in 1..Cardinality(firsts) : order[n] = i
    BY <1>4, Ordered
  <2> HIDE DEF order
  <2>2. QED
    BY <2>1
<1> HIDE DEF rules, order
<1>6. ASSUME NEW i \in DOMAIN s
      PROVE  \E n \in DOMAIN rules : rules[n].id = RuleOf(s[i])
  <2> DEFINE S == OfRule(s, RuleOf(s[i]))
  <2>1. S \in SUBSET Nat /\ i \in S
    BY <1>1 DEF OfRule
  <2>2. PICK j \in S : \A k \in S : j <= k
    <3> HIDE DEF S
    <3>1. QED
      BY <2>1, LeastOf
  <2>3. j \in DOMAIN s /\ RuleOf(s[j]) = RuleOf(s[i])
    BY DEF OfRule
  <2>4. j \in firsts
    <3>1. SUFFICES ASSUME NEW k \in 1..(j - 1), RuleOf(s[k]) = RuleOf(s[j])
                   PROVE  FALSE
      BY <2>3 DEF FirstOfRule
    <3>2. k \in DOMAIN s /\ k < j
      BY <1>1, <2>3
    <3>3. k \in S
      BY <2>3, <3>1, <3>2 DEF OfRule
    <3>4. j \in Nat /\ k \in Nat
      BY <1>1, <2>3
    <3> HIDE DEF S
    <3>5. QED
      BY <2>2, <3>2, <3>3, <3>4
  <2>5. PICK n \in DOMAIN order : order[n] = j
    BY <1>5, <2>4
  <2>6. n \in DOMAIN rules /\ rules[n] = RuleEntry(s, j)
    BY <1>2, <2>5
  <2>7. QED
    BY <2>3, <2>6 DEF RuleEntry
<1>7. ASSUME NEW i \in DOMAIN s, NEW n \in DOMAIN rules, rules[n].id = RuleOf(s[i])
      PROVE  rules[n].severity >= SecuritySeverity(s[i])
  <2> DEFINE S == OfRule(s, RuleOf(s[i]))
             ratings == {SecuritySeverity(s[j]) : j \in S}
  <2>1. rules[n] = RuleEntry(s, order[n])
    BY <1>2
  <2>2. RuleOf(s[order[n]]) = RuleOf(s[i])
    BY <1>7, <2>1 DEF RuleEntry
  <2>3. rules[n].severity = Max(ratings)
    BY <2>1, <2>2 DEF RuleEntry
  <2>4. \A j \in S : IsEntry(s[j])
    BY <1>1 DEF OfRule, IsReport
  <2>5. i \in S
    BY DEF OfRule
  <2> HIDE DEF S
  <2>6. ratings \in SUBSET Int /\ \A x \in ratings : x <= 100
    BY <2>4, SecuritySeverityIs
  <2>7. SecuritySeverity(s[i]) \in ratings
    BY <2>5
  <2> HIDE DEF ratings
  <2>8. 100 \in Int
    OBVIOUS
  <2>9. Max(ratings) \in ratings /\ \A x \in ratings : x <= Max(ratings)
    BY <2>6, <2>7, <2>8, MaxOf
  <2>10. Max(ratings) >= SecuritySeverity(s[i])
    BY <2>6, <2>7, <2>9
  <2>11. QED
    BY <2>3, <2>10
<1>8. ASSUME NEW i \in DOMAIN s
      PROVE  /\ Sarif(s).results[i].rule \in DOMAIN rules
             /\ Sarif(s).rules = rules
             /\ rules[Sarif(s).results[i].rule].id = RuleOf(s[i])
  <2>1. Sarif(s).results[i].rule = RuleIndex(s, s[i]) /\ Sarif(s).rules = rules
    BY DEF Sarif, rules
  <2>2. RuleIndex(s, s[i]) = CHOOSE n \in DOMAIN rules : rules[n].id = RuleOf(s[i])
    BY DEF RuleIndex, rules
  <2>3. RuleIndex(s, s[i]) \in DOMAIN rules /\ rules[RuleIndex(s, s[i])].id = RuleOf(s[i])
    BY <1>6, <2>2
  <2>4. QED
    BY <2>1, <2>3
<1>9. QED
  BY <1>7, <1>8 DEF SarifIsWorstCase
LEMMA ImageIsFinite ==
    ASSUME NEW D, IsFiniteSet(D), NEW g
    PROVE  IsFiniteSet({g[i] : i \in D})
<1> DEFINE E == {g[i] : i \in D}
           h == [i \in D |-> g[i]]
<1>1. h \in Surjection(D, E)
  BY DEF Surjection
<1> HIDE DEF E
<1>2. QED
  BY <1>1, FS_Surjection DEF E

\* Counts of the entries by class add up to the number of entries.
LEMMA ClassesSum ==
    ASSUME NEW s, IsList(s), NEW class, NEW D, IsFiniteSet(D),
           \A i \in DOMAIN s : class[i] \in D,
           NEW size, DOMAIN size = D,
           \A k \in D : size[k] = Cardinality({i \in DOMAIN s : class[i] = k})
    PROVE  SumFunction(size) = Len(s)
<1>1. DOMAIN s = 1..Len(s) /\ Len(s) \in Nat /\ IsFiniteSet(DOMAIN s)
  BY ListIs, ListPlaces
<1>2. SumFunction(size) = Cardinality({i \in DOMAIN s : class[i] \in D})
  <2>1. IsFiniteSet(DOMAIN s)
    BY <1>1
  <2>2. QED
    BY <2>1, CountByClass
<1>3. {i \in DOMAIN s : class[i] \in D} = 1..Len(s)
  BY <1>1
<1>4. Cardinality(1..Len(s)) = Len(s)
  BY <1>1, CountTo
<1>5. QED
  BY <1>2, <1>3, <1>4, Zenon

LEMMA CountsBySum ==
    ASSUME NEW s, IsList(s), NEW key
    PROVE  SumFunction([k \in {key[i] : i \in DOMAIN s} |->
                            Cardinality({i \in DOMAIN s : key[i] = k})]) = Len(s)
<1> DEFINE E == {key[i] : i \in DOMAIN s}
           count == [k \in E |-> Cardinality({i \in DOMAIN s : key[i] = k})]
<1>1. IsFiniteSet(E)
  <2>1. IsFiniteSet(DOMAIN s)
    BY ListPlaces
  <2>2. QED
    BY <2>1, ImageIsFinite
<1>2. DOMAIN count = E /\ \A k \in E : count[k] = Cardinality({i \in DOMAIN s : key[i] = k})
  OBVIOUS
<1>3. \A i \in DOMAIN s : key[i] \in E
  OBVIOUS
<1> HIDE DEF E, count
<1>4. SumFunction(count) = Len(s)
  BY <1>1, <1>2, <1>3, ClassesSum
<1>5. QED
  BY <1>4 DEF count, E

LEMMA RowsAre ==
    ASSUME NEW s, IsList(s)
    PROVE  Len(Csv(s)) = Len(s) /\ Len(GitLab(s)) = Len(s)
<1>1. DOMAIN s = 1..Len(s) /\ Len(s) \in Nat
  BY ListIs
<1>2. DOMAIN Csv(s) = 1..Len(s) /\ DOMAIN GitLab(s) = 1..Len(s)
  BY <1>1 DEF Csv, GitLab
<1>3. \A n \in Nat : \A q : DOMAIN q = 1..n => Len(q) = n
  OBVIOUS
<1>4. QED
  BY <1>1, <1>2, <1>3

LEMMA BandsSum ==
    ASSUME NEW s, IsList(s), IsReport(s)
    PROVE  SumFunction(BandCounts(s)) = Len(s)
<1> DEFINE class == [i \in DOMAIN s |-> s[i].sev]
           size == BandCounts(s)
<1>1. DOMAIN s = 1..Len(s)
  BY ListIs
<1>2. \A i \in DOMAIN s : class[i] = s[i].sev /\ class[i] \in Severity
  BY <1>1, EntryNumbers DEF IsReport, Severity
<1>3. IsFiniteSet(Severity)
  <2>1. 0 \in Int /\ 4 \in Int
    OBVIOUS
  <2>2. QED
    BY <2>1, FS_Interval DEF Severity
<1>4. DOMAIN size = Severity /\ \A k \in Severity : size[k] = Cardinality(OfBand(s, k))
  BY DEF BandCounts
<1>5. \A k \in Severity : OfBand(s, k) = {i \in DOMAIN s : class[i] = k}
  BY DEF OfBand
<1> HIDE DEF class, size
<1>6. \A k \in Severity : size[k] = Cardinality({i \in DOMAIN s : class[i] = k})
  BY <1>4, <1>5, Zenon
<1>7. SumFunction(size) = Len(s)
  <2>1. \A i \in DOMAIN s : class[i] \in Severity
    BY <1>2
  <2>2. DOMAIN size = Severity
    BY <1>4
  <2>3. QED
    BY <1>3, <1>6, <2>1, <2>2, ClassesSum
<1>8. QED
  BY <1>7 DEF size

LEMMA SourcesSum ==
    ASSUME NEW s, IsList(s)
    PROVE  SumFunction(Prometheus(s).sources) = Len(s)
<1> DEFINE key == [i \in DOMAIN s |-> SourceOf[s[i].fp]]
<1>1. Prometheus(s).sources = [k \in {SourceOf[s[i].fp] : i \in DOMAIN s} |->
                                  Cardinality({i \in DOMAIN s : SourceOf[s[i].fp] = k})]
  BY DEF Prometheus, CountBy
<1>2. {SourceOf[s[i].fp] : i \in DOMAIN s} = {key[i] : i \in DOMAIN s}
  OBVIOUS
<1>3. \A k : {i \in DOMAIN s : SourceOf[s[i].fp] = k} = {i \in DOMAIN s : key[i] = k}
  OBVIOUS
<1> HIDE DEF key
<1>4. Prometheus(s).sources = [k \in {key[i] : i \in DOMAIN s} |->
                                  Cardinality({i \in DOMAIN s : key[i] = k})]
  BY <1>1, <1>2, <1>3, Zenon
<1>5. SumFunction([k \in {key[i] : i \in DOMAIN s} |->
                       Cardinality({i \in DOMAIN s : key[i] = k})]) = Len(s)
  BY CountsBySum, Zenon
<1>6. QED
  BY <1>4, <1>5, Zenon

LEMMA OwnersSum ==
    ASSUME NEW s, IsWhole(s)
    PROVE  SumFunction(Prometheus(s).owners) + Len(GapSlice(s)) = Len(s)
<1> DEFINE I == {i \in DOMAIN s : s[i].meta.owner # Absent}
           J == Owned(s, Absent)
           q == At(s, I)
           key == [i \in DOMAIN q |-> OwnerBucket(q[i])]
<1>1. I \in SUBSET DOMAIN s /\ J \in SUBSET DOMAIN s /\ I \cup J = DOMAIN s /\ I \cap J = {}
  BY DEF Owned
<1>2. IsList(s)
  BY DEF IsWhole
<1>3. Cardinality(I) + Cardinality(J) = Len(s)
  <2> HIDE DEF I, J
  <2>1. QED
    BY <1>1, <1>2, SplitPlaces
<1>4. IsList(q) /\ Len(q) = Cardinality(I)
  <2> HIDE DEF I
  <2>1. QED
    BY <1>1, <1>2, Picked
<1>5. Len(GapSlice(s)) = Cardinality(J)
  BY SlicesAre
<1>6. Prometheus(s).owners = [k \in {OwnerBucket(q[i]) : i \in DOMAIN q} |->
                                 Cardinality({i \in DOMAIN q : OwnerBucket(q[i]) = k})]
  BY DEF Prometheus, CountBy
<1> HIDE DEF q, I, J
<1>7. {OwnerBucket(q[i]) : i \in DOMAIN q} = {key[i] : i \in DOMAIN q}
  OBVIOUS
<1>8. \A k : {i \in DOMAIN q : OwnerBucket(q[i]) = k} = {i \in DOMAIN q : key[i] = k}
  OBVIOUS
<1> HIDE DEF key
<1>9. Prometheus(s).owners = [k \in {key[i] : i \in DOMAIN q} |->
                                 Cardinality({i \in DOMAIN q : key[i] = k})]
  BY <1>6, <1>7, <1>8, Zenon
<1>10. SumFunction(Prometheus(s).owners) = Cardinality(I)
  <2>1. SumFunction([k \in {key[i] : i \in DOMAIN q} |->
                         Cardinality({i \in DOMAIN q : key[i] = k})]) = Len(q)
    BY <1>4, CountsBySum, Zenon
  <2>2. QED
    BY <1>4, <1>9, <2>1, Zenon
<1>11. QED
  BY <1>3, <1>5, <1>10
LEMMA BeforeFirst ==
    ASSUME NEW a \in Seq(Int), NEW b \in Seq(Int), Len(a) >= 1, Len(b) >= 1, Before(a, b)
    PROVE  a[1] <= b[1]
<1>1. Len(a) \in Nat /\ Len(b) \in Nat /\ a[1] \in Int /\ b[1] \in Int
  <2>1. Len(a) \in Nat /\ Len(b) \in Nat
    OBVIOUS
  <2>2. 1 \in 1..Len(a) /\ 1 \in 1..Len(b)
    BY <2>1
  <2>3. QED
    BY <2>1, <2>2
<1>2. PICK k \in 1..Len(b) : /\ \A j \in 1..(k - 1) : j <= Len(a) /\ a[j] = b[j]
                             /\ k > Len(a) \/ a[k] < b[k]
  BY DEF Before
<1>3. k = 1 \/ 1 \in 1..(k - 1)
  OBVIOUS
<1>4. QED
  BY <1>1, <1>2, <1>3

\* The first of the entries of most risk has the most risk.
LEMMA TopRiskIs ==
    ASSUME NEW s, IsWhole(s), Len(s) # 0
    PROVE  \E i \in DOMAIN s : /\ TopRisks(s, 10)[1] = s[i]
                               /\ \A j \in DOMAIN s : RiskScore(s[j]) <= RiskScore(s[i])
<1> DEFINE S == DOMAIN s
           key == [i \in S |-> <<-RiskScore(s[i]), s[i].fp, i>>]
           q == SortedBy(S, key)
           N == Cardinality(S)
<1>1. S = 1..Len(s) /\ Len(s) \in Nat /\ IsFiniteSet(S)
  BY ListIs, ListPlaces DEF IsWhole
<1>2. N = Len(s)
  BY <1>1, CountTo
<1>3. \A i \in S : RiskScore(s[i]) \in 0..100 /\ s[i].fp \in Nat /\ i \in Nat
  BY <1>1, RiskIsScore, EntryNumbers DEF IsWhole, IsReport, Score
<1>4. \A i \in S : /\ key[i] \in Seq(Int) /\ Len(key[i]) = 3
                   /\ key[i][1] = -RiskScore(s[i]) /\ key[i][3] = i
  <2>1. \A r \in 0..100 : \A fp, i \in Nat :
           /\ <<-r, fp, i>> \in Seq(Int) /\ Len(<<-r, fp, i>>) = 3
           /\ <<-r, fp, i>>[1] = -r /\ <<-r, fp, i>>[3] = i
    OBVIOUS
  <2> HIDE DEF S
  <2>2. SUFFICES ASSUME NEW i \in S
                 PROVE  /\ key[i] \in Seq(Int) /\ Len(key[i]) = 3
                        /\ key[i][1] = -RiskScore(s[i]) /\ key[i][3] = i
    OBVIOUS
  <2> DEFINE a == RiskScore(s[i])
             b == s[i].fp
             k == key[i]
  <2>3. k = <<-a, b, i>>
    OBVIOUS
  <2>4. a \in 0..100 /\ b \in Nat /\ i \in Nat
    BY <1>3
  <2> HIDE DEF key, a, b, k
  <2>5. k \in Seq(Int) /\ Len(k) = 3 /\ k[1] = -a /\ k[3] = i
    BY <2>1, <2>3, <2>4
  <2>6. QED
    BY <2>5 DEF a, k
<1>5. TopRisks(s, 10)[1] = s[q[1]]
  <2> DEFINE l == Min({10, Len(s)})
  <2>1. TopRisks(s, 10) = [k \in 1..l |-> s[q[k]]]
    BY DEF TopRisks
  <2>2. 1 \in 1..l
    <3>1. {10, Len(s)} \in SUBSET Nat /\ {10, Len(s)} # {}
      BY <1>1
    <3>2. l \in {10, Len(s)}
      BY <3>1, MinOf
    <3> HIDE DEF l
    <3>3. Len(s) \in Nat /\ Len(s) >= 1
      BY <1>1
    <3>4. l \in Nat /\ l >= 1
      BY <3>2, <3>3
    <3>5. QED
      BY <3>4
  <2> HIDE DEF l, q
  <2>3. QED
    BY <2>1, <2>2
<1> HIDE DEF S, key
<1>6. \A i, j \in S : key[i] = key[j] => i = j
  BY <1>4
<1>7. /\ q \in [1..N -> S]
      /\ \A x \in S : \E n \in 1..N : q[n] = x
      /\ \A i, j \in 1..N : i < j => Before(key[q[i]], key[q[j]])
  <2>1. IsFiniteSet(S) /\ \A i \in S : key[i] \in Seq(Int)
    BY <1>1, <1>4
  <2>2. QED
    BY <1>6, <2>1, Sorted
<1> HIDE DEF q, N
<1>8. 1 \in 1..N /\ q[1] \in S
  BY <1>1, <1>2, <1>7
<1>9. ASSUME NEW j \in S
      PROVE  RiskScore(s[j]) <= RiskScore(s[q[1]])
  <2>1. PICK n \in 1..N : q[n] = j
    BY <1>7
  <2> DEFINE risk(i) == RiskScore(s[i])
  <2>5. risk(j) \in Int /\ risk(q[1]) \in Int
    <3>1. \A i \in S : risk(i) \in Int
      <4>1. \A v \in 0..100 : v \in Int
        OBVIOUS
      <4>2. QED
        BY <1>3, <4>1, Zenon
    <3> HIDE DEF risk
    <3>2. QED
      BY <1>8, <3>1
  <2>2. CASE n = 1
    <3>1. risk(j) = risk(q[1])
      BY <2>1, <2>2
    <3> HIDE DEF risk
    <3>2. risk(j) <= risk(q[1])
      BY <2>5, <3>1
    <3>3. QED
      BY <3>2 DEF risk
  <2>3. CASE n # 1
    <3>1. 1 < n
      BY <1>1, <1>2, <2>3
    <3>2. Before(key[q[1]], key[j])
      BY <1>7, <1>8, <2>1, <3>1
    <3>3. key[q[1]][1] <= key[j][1]
      <4> DEFINE a == key[q[1]]
                 b == key[j]
      <4>1. a \in Seq(Int) /\ b \in Seq(Int) /\ Len(a) = 3 /\ Len(b) = 3
        BY <1>4, <1>8
      <4> HIDE DEF a, b
      <4>2. Len(a) >= 1 /\ Len(b) >= 1
        BY <4>1
      <4>3. Before(a, b)
        BY <3>2 DEF a, b
      <4>4. a[1] <= b[1]
        BY <4>1, <4>2, <4>3, BeforeFirst
      <4>5. QED
        BY <4>4 DEF a, b
    <3>4. key[q[1]][1] = -risk(q[1]) /\ key[j][1] = -risk(j)
      BY <1>4, <1>8
    <3> HIDE DEF risk
    <3>5. risk(j) <= risk(q[1])
      BY <2>5, <3>3, <3>4
    <3>6. QED
      BY <3>5 DEF risk
  <2>4. QED
    BY <2>2, <2>3
<1>10. QED
  BY <1>5, <1>8, <1>9 DEF S

LEMMA NothingIsEmpty ==
    ASSUME NEW s, IsList(s)
    PROVE  s = <<>> <=> Len(s) = 0
<1>1. Len(s) = 0 => s = <<>>
  BY DEF IsList
<1>2. QED
  BY <1>1

LEMMA MaxRiskIs ==
    ASSUME NEW s, IsWhole(s)
    PROVE  Prometheus(s).maxRisk
             = IF s = <<>> THEN 0 ELSE RiskScore(Stats(s).top[1])
<1> DEFINE R == {RiskScore(s[i]) : i \in DOMAIN s}
           all == {0} \cup R
<1>1. Prometheus(s).maxRisk = Max(all)
  BY DEF Prometheus
<1>2. Stats(s).top = TopRisks(s, 10)
  BY DEF Stats
<1>3. DOMAIN s = 1..Len(s) /\ Len(s) \in Nat /\ (s = <<>> <=> Len(s) = 0)
  BY ListIs, NothingIsEmpty DEF IsWhole
<1>4. \A i \in DOMAIN s : RiskScore(s[i]) \in 0..100
  BY <1>3, RiskIsScore DEF IsWhole, IsReport, Score
<1>5. all \in SUBSET Int /\ all # {} /\ \A x \in all : x <= 100 /\ x >= 0
  BY <1>4
<1>6. Max(all) \in all /\ \A x \in all : x <= Max(all)
  <2> HIDE DEF all
  <2>1. 100 \in Int
    OBVIOUS
  <2>2. \A x \in all : x <= 100
    BY <1>5
  <2>3. QED
    BY <1>5, <2>1, <2>2, MaxOf
<1>7. CASE s = <<>>
  <2>1. DOMAIN s = {}
    BY <1>3, <1>7
  <2>2. all = {0}
    BY <2>1
  <2> HIDE DEF all
  <2>3. Max(all) = 0
    BY <1>6, <2>2
  <2>4. QED
    BY <1>1, <1>7, <2>3
<1>8. CASE s # <<>>
  <2>1. PICK i \in DOMAIN s : /\ TopRisks(s, 10)[1] = s[i]
                              /\ \A j \in DOMAIN s : RiskScore(s[j]) <= RiskScore(s[i])
    BY <1>3, <1>8, TopRiskIs
  <2>2. \A x \in all : x <= RiskScore(s[i])
    BY <1>4, <2>1
  <2>3. RiskScore(s[i]) \in all
    OBVIOUS
  <2>4. RiskScore(s[i]) \in Int
    BY <1>4
  <2> DEFINE m == Max(all)
             r == RiskScore(s[i])
  <2>5. m = r
    <3>1. m \in Int
      BY <1>5, <1>6, Zenon
    <3>2. m <= r /\ r <= m
      BY <1>6, <2>2, <2>3, Zenon
    <3>3. r \in Int
      BY <2>4
    <3> HIDE DEF m, r
    <3>4. QED
      BY <3>1, <3>2, <3>3
  <2>6. QED
    BY <1>1, <1>2, <1>8, <2>1, <2>5
<1>9. QED
  BY <1>7, <1>8

\* A badge is clean for a report without entries, and for no other.
LEMMA BadgeIs ==
    ASSUME NEW s, IsWhole(s)
    PROVE  /\ Badge(s).bands = <<>> <=> s = <<>>
           /\ Badge(s).exploited <=> KevCount(s) > 0
<1> DEFINE bands == {v \in Severity : OfBand(s, v) # {}}
           shown == {v \in bands : Cardinality({w \in bands : w > v}) < 2}
<1>1. /\ Badge(s).bands = [v \in shown |-> BandCounts(s)[v]]
      /\ Badge(s).exploited = (bands # {} /\ KevCount(s) > 0)
  BY DEF Badge
<1>2. DOMAIN s = 1..Len(s) /\ Len(s) \in Nat /\ (s = <<>> <=> Len(s) = 0)
  BY ListIs, NothingIsEmpty DEF IsWhole
<1>3. \A i \in DOMAIN s : s[i].sev \in Severity
  BY <1>2, EntryIs DEF IsWhole, IsReport, EntryFields
<1>4. bands # {} <=> DOMAIN s # {}
  BY <1>3 DEF OfBand
<1>5. bands # {} => shown # {}
  <2>1. SUFFICES ASSUME bands # {}
                 PROVE  \E v \in bands : Cardinality({w \in bands : w > v}) < 2
    OBVIOUS
  <2>2. bands \in SUBSET Int /\ \A v \in bands : v <= 4
    BY DEF Severity
  <2> HIDE DEF bands
  <2>3. 4 \in Int
    OBVIOUS
  <2>4. Max(bands) \in bands /\ \A v \in bands : v <= Max(bands)
    BY <2>1, <2>2, <2>3, MaxOf
  <2> DEFINE m == Max(bands)
  <2>5. {w \in bands : w > m} = {}
    <3>1. m \in Int /\ \A w \in bands : w \in Int /\ w <= m
      BY <2>2, <2>4
    <3> HIDE DEF m
    <3>2. \A w \in bands : ~(w > m)
      BY <3>1
    <3>3. QED
      BY <3>2
  <2>6. Cardinality({w \in bands : w > m}) = 0
    BY <2>5, FS_EmptySet, Zenon
  <2>7. Cardinality({w \in bands : w > m}) < 2
    BY <2>6
  <2>8. QED
    BY <2>4, <2>7, Zenon
<1>6. Badge(s).bands = <<>> <=> shown = {}
  <2> HIDE DEF shown
  <2>1. \A S : \A f : S = {} => [v \in S |-> f[v]] = <<>>
    OBVIOUS
  <2>2. DOMAIN <<>> = {} /\ DOMAIN [v \in shown |-> BandCounts(s)[v]] = shown
    OBVIOUS
  <2>3. QED
    BY <1>1, <2>1, <2>2, Zenon
<1>7. Badge(s).bands = <<>> <=> s = <<>>
  <2>1. DOMAIN s = {} <=> Len(s) = 0
    BY <1>2
  <2>2. shown \subseteq bands
    OBVIOUS
  <2> HIDE DEF bands, shown
  <2>3. QED
    BY <1>2, <1>4, <1>5, <1>6, <2>1, <2>2
<1>8. KevCount(s) > 0 => DOMAIN s # {}
  <2>1. CASE DOMAIN s = {}
    <3>1. {i \in DOMAIN s : s[i].kev} = {}
      BY <2>1
    <3>2. KevCount(s) = 0
      BY <3>1, FS_EmptySet, Zenon DEF KevCount
    <3>3. ~(KevCount(s) > 0)
      BY <3>2
    <3>4. QED
      BY <3>3
  <2>2. CASE DOMAIN s # {}
    BY <2>2
  <2>3. QED
    BY <2>1, <2>2
<1> HIDE DEF bands
<1>9. QED
  BY <1>1, <1>4, <1>7, <1>8

LEMMA CountsDo ==
    ASSUME NEW s, IsWhole(s)
    PROVE  CountsAgree(s)
<1>1. IsList(s) /\ IsReport(s)
  BY DEF IsWhole
<1>2. /\ Prometheus(s).bands = BandCounts(s) /\ WebhookMessage(s).bands = BandCounts(s)
      /\ Prometheus(s).kev = KevCount(s) /\ Stats(s).total = Len(s)
  BY DEF Prometheus, WebhookMessage, Stats
<1>3. /\ SumFunction(Prometheus(s).bands) = Stats(s).total
      /\ SumFunction(Prometheus(s).sources) = Len(Csv(s))
      /\ SumFunction(Prometheus(s).owners) + Len(GapSlice(s)) = Len(GitLab(s))
  BY <1>1, <1>2, BandsSum, SourcesSum, OwnersSum, RowsAre
<1>4. QED
  BY <1>2, <1>3, MaxRiskIs, BadgeIs DEF CountsAgree

\* Whatever the report was made of, the documents made of it agree: OpenVEX with
\* CycloneDX, every SARIF rule with its results, and all that counts with the rest.
THEOREM DocumentsDoAgree == Spec => []DocumentsAgree
<1>1. DeskInv => DocumentsAgree
  <2> DEFINE s == last.loaded[1]
  <2> SUFFICES ASSUME DeskInv, Done("report")
               PROVE  ExchangeFormatsAgree(s) /\ SarifIsWorstCase(s) /\ CountsAgree(s)
    BY DEF DocumentsAgree
  <2>1. IsWhole(s)
    <3>1. last # NoJob /\ last.name = "report" /\ last.exit = 0
      BY DEF Done, NoJob
    <3>2. QED
      BY <3>1, OneLoaded
  <2> HIDE DEF s
  <2>2. QED
    BY <2>1, FormatsAgree, SarifIs, CountsDo DEF IsWhole
<1>2. QED
  BY <1>1, DeskInvHolds, PTL

=============================================================================
