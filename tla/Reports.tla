------------------------------ MODULE Reports ------------------------------
(***************************************************************************)
(* What the commands make of a findings report once it is written: merge,   *)
(* filter, the groupings and counts of summary.py, the remediation plan and *)
(* the trend.  No state: ReportDesk runs the commands over files.           *)
(*                                                                         *)
(* A report is a sequence of entries.  An entry is a finding (Findings.tla) *)
(* with the fields these commands look at:                                  *)
(*   fix   the solution text, as its length: 0 is no text, and of two texts *)
(*         the longer is the greater                                       *)
(*   cwes  its weaknesses                                                  *)
(*   meta  its metadata, in which a key may be Absent; "product" stands for *)
(*         the product together with its version                           *)
(* Names are numbered in the order of the alphabet.                         *)
(***************************************************************************)
EXTENDS Findings, SequencesExt

CONSTANTS SourceOf,   \* the scanner of a fingerprint
          TitleOf,    \* its title
          PortOf,     \* its port, or Absent
          Cwe,        \* the weaknesses a finding may cite
          CategoryOf, \* their OWASP Top 10 category, 0 when they have none
          Top25,      \* those of the CWE Top 25
          Absent,     \* no value
          Unassigned  \* the name of the bucket of what nobody owns

ASSUME ReportsAssumption ==
    /\ HostOf \in [Fingerprint -> Nat]
    /\ SourceOf \in [Fingerprint -> Nat]
    /\ TitleOf \in [Fingerprint -> Seq(Nat)]
    /\ CategoryOf \in [Cwe -> 0..10]
    /\ Top25 \subseteq Cwe
    /\ Absent \notin Nat
    /\ Unassigned \in Nat

MetaKey == {"owner", "tags", "package", "product", "purl", "osv"}

IsMeta(meta) ==
    /\ DOMAIN meta = MetaKey
    /\ \A key \in {"owner", "package", "product"} : meta[key] \in Nat \cup {Absent}

IsEntry(f) ==
    /\ DOMAIN f = {"fp", "at", "sev", "conf", "cves", "cvss", "epss", "kev",
                   "fix", "cwes", "meta"}
    /\ [k \in DOMAIN f \ {"fix", "cwes", "meta"} |-> f[k]] \in Finding
    /\ f.fix \in Nat
    /\ f.cwes \subseteq Cwe
    /\ IsMeta(f.meta)

IsReport(s) == \A i \in 1..Len(s) : IsEntry(s[i])

FpsIn(s) == {s[i].fp : i \in DOMAIN s}

\* The alphabetical order of keys that are sequences of numbers.
Before(a, b) ==
    \E k \in 1..Len(b) :
        /\ \A j \in 1..(k - 1) : j <= Len(a) /\ a[j] = b[j]
        /\ k > Len(a) \/ a[k] < b[k]

\* sorted(S, key = key), for keys that differ.
SortedBy(S, key) ==
    [n \in 1..Cardinality(S) |->
        CHOOSE x \in S : Cardinality({y \in S : Before(key[y], key[x])}) = n - 1]

InOrder(I) == SortedBy(I, [i \in I |-> <<i>>])

\* What is at the places I of s, in the order of s.
At(s, I) ==
    LET places == InOrder(I)
    IN  [n \in 1..Cardinality(I) |-> s[places[n]]]

(***************************************************************************)
(* Merging reports: entries of one fingerprint become one, and the result   *)
(* is ranked as if all hosts were equally critical.                        *)
(***************************************************************************)
\* _merge_metadata: of every key the first value there is.
FirstPresent(s, I, key) ==
    LET having == {i \in I : s[i].meta[key] # Absent}
    IN  IF having = {} THEN Absent ELSE s[Min(having)].meta[key]

\* Mutant: the texts are folded, the ratings are those of the first sighting.
FoldedEntryOfFirst(s, I) ==
    [s[Min(I)] EXCEPT !.fix  = Max({s[i].fix : i \in I}),
                      !.cwes = UNION {s[i].cwes : i \in I},
                      !.meta = [key \in MetaKey |-> FirstPresent(s, I, key)]]

\* Mutant: the solution of the last sighting is kept.
FoldedEntryLastFix(s, I) ==
    [Folded(s, I) EXCEPT !.fix  = s[Max(I)].fix,
                         !.cwes = UNION {s[i].cwes : i \in I},
                         !.meta = [key \in MetaKey |-> FirstPresent(s, I, key)]]

FoldedEntry(s, I) ==
    [Folded(s, I) EXCEPT !.fix  = Max({s[i].fix : i \in I}),
                         !.cwes = UNION {s[i].cwes : i \in I},
                         !.meta = [key \in MetaKey |-> FirstPresent(s, I, key)]]

MergedEntries(s) == {FoldedEntry(s, Sightings(s, fp)) : fp \in FpsIn(s)}

FlatKey(f) == <<-f.sev, IF f.kev THEN -1 ELSE 0, -f.cvss, -f.epss, f.fp>>

\* Mutant: the reports are put one behind the other and ranked, as they are.
CombinedUnmerged(s) ==
    LET places == SortedBy(DOMAIN s, [i \in DOMAIN s |-> Append(FlatKey(s[i]), i)])
    IN  [n \in DOMAIN s |-> s[places[n]]]

Combined(s) ==
    SortedBy(MergedEntries(s), [f \in MergedEntries(s) |-> FlatKey(f)])

\* Nothing that a sighting says of an entry weighs more than what the entry says,
\* and what it says is what one of them says.  (Whether it is known to be exploited
\* is left to the first sighting.)
KeepsTheWorst(s, f) ==
    /\ \A i \in Sightings(s, f.fp) :
          /\ s[i].sev <= f.sev /\ s[i].conf <= f.conf
          /\ s[i].cvss <= f.cvss /\ s[i].epss <= f.epss /\ s[i].fix <= f.fix
          /\ s[i].cves \subseteq f.cves /\ s[i].cwes \subseteq f.cwes
    /\ \E i \in Sightings(s, f.fp) : s[i].sev = f.sev
    /\ \E i \in Sightings(s, f.fp) : s[i].conf = f.conf
    /\ \E i \in Sightings(s, f.fp) : s[i].cvss = f.cvss
    /\ \E i \in Sightings(s, f.fp) : s[i].epss = f.epss
    /\ \E i \in Sightings(s, f.fp) : s[i].fix = f.fix
    /\ f.cves \subseteq UNION {s[i].cves : i \in Sightings(s, f.fp)}
    /\ f.cwes \subseteq UNION {s[i].cwes : i \in Sightings(s, f.fp)}

\* One entry for a fingerprint, and none before one that is more actionable.
MoreActionable(f, g) == Before(SubSeq(FlatKey(f), 1, 4), SubSeq(FlatKey(g), 1, 4))

Canonical(s) ==
    \A i, j \in DOMAIN s : i < j =>
        /\ s[i].fp # s[j].fp
        /\ ~MoreActionable(s[j], s[i])

(***************************************************************************)
(* Owners.  A scan stamps the configured owner and tags of a host on its    *)
(* entries; a host without either keeps its entries as they are.            *)
(***************************************************************************)
Stamped(f, owner, tags) ==
    [f EXCEPT !.meta.owner = IF owner # Absent THEN owner ELSE @,
              !.meta.tags  = IF tags # {} THEN tags ELSE @]

OwnerBucket(f) == IF f.meta.owner = Absent THEN Unassigned ELSE f.meta.owner

TagsOf(f) == IF f.meta.tags = Absent THEN {} ELSE f.meta.tags

(***************************************************************************)
(* The query of the filter command: AND across its criteria, OR within one. *)
(* A host criterion is a piece of text, given as the hosts that contain it. *)
(***************************************************************************)
NoQuery == [minSev |-> None, minRisk |-> None, kevOnly |-> FALSE, owners |-> {},
            unassigned |-> FALSE, sources |-> {}, hosts |-> {}, tags |-> {}, cves |-> {}]

\* Mutant: to ask for the unassigned is one more criterion to meet.
MatchesOwnerAndGap(f, q) ==
    /\ q.owners = {} \/ f.meta.owner \in q.owners
    /\ ~q.unassigned

MatchesOwner(f, q) ==
    \/ q.owners = {} /\ ~q.unassigned
    \/ f.meta.owner # Absent /\ f.meta.owner \in q.owners
    \/ q.unassigned /\ f.meta.owner = Absent

Matches(f, q) ==
    /\ f.sev >= q.minSev
    /\ q.minRisk # None => RiskScore(f) >= q.minRisk
    /\ q.kevOnly => f.kev
    /\ q.sources # {} => SourceOf[f.fp] \in q.sources
    /\ q.hosts # {} => HostOf[f.fp] \in UNION q.hosts
    /\ MatchesOwner(f, q)
    /\ q.tags # {} => TagsOf(f) \cap q.tags # {}
    /\ q.cves # {} => f.cves \cap q.cves # {}

Filtered(s, q) == At(s, {i \in DOMAIN s : Matches(s[i], q)})

(***************************************************************************)
(* Counts and groups (summary.py, standards.py).                            *)
(***************************************************************************)
OfBand(s, sev) == {i \in DOMAIN s : s[i].sev = sev}

BandCounts(s) == [sev \in Severity |-> Cardinality(OfBand(s, sev))]

KevCount(s) == Cardinality({i \in DOMAIN s : s[i].kev})

HostsIn(s) == {HostOf[fp] : fp \in FpsIn(s)}

Worst(s) == Max({s[i].sev : i \in DOMAIN s})

TotalRisk(s) == SumFunction([i \in DOMAIN s |-> RiskScore(s[i])])

Grouped(s, Key(_)) ==
    {[key |-> k, members |-> At(s, {i \in DOMAIN s : Key(s[i]) = k})] :
        k \in {Key(s[i]) : i \in DOMAIN s}}

\* Worst host first; the owners before the gap, worst first.
ByHost(s) ==
    LET groups == Grouped(s, LAMBDA f : HostOf[f.fp])
    IN  SortedBy(groups, [g \in groups |-> <<-Worst(g.members), g.key>>])

OwnerRank(g) ==
    <<IF g.key = Unassigned THEN 1 ELSE 0, -Worst(g.members), g.key>>

ByOwner(s) ==
    LET groups == Grouped(s, OwnerBucket)
    IN  SortedBy(groups, [g \in groups |-> OwnerRank(g)])

Categories(f) == {CategoryOf[c] : c \in f.cwes} \ {0}

Standards(s) ==
    [owasp |-> [c \in 1..10 |-> Cardinality({i \in DOMAIN s : c \in Categories(s[i])})],
     uncategorized |-> Cardinality({i \in DOMAIN s : Categories(s[i]) = {}}),
     top25 |-> Cardinality({i \in DOMAIN s : s[i].cwes \cap Top25 # {}})]

\* The n entries of most risk, as stats and the webhook message list them.
TopRisks(s, n) ==
    LET places == SortedBy(DOMAIN s, [i \in DOMAIN s |-> <<-RiskScore(s[i]), s[i].fp, i>>])
    IN  [k \in 1..Min({n, Len(s)}) |-> s[places[k]]]

(***************************************************************************)
(* The remediation plan: one action for what one upgrade, one patch or one  *)
(* kind of fix clears, known exploited first, then by the risk it removes.  *)
(***************************************************************************)
PlanKey(f) ==
    IF f.meta.package # Absent THEN <<1, f.meta.package>>
    ELSE IF f.meta.product # Absent THEN <<2, HostOf[f.fp], f.meta.product>>
    ELSE <<0, SourceOf[f.fp]>> \o TitleOf[f.fp]

ActionKev(a) == KevCount(a.members) > 0

\* The text of the action: the first solution of its entries, 0 is a template.
ActionFix(a) ==
    LET having == {i \in DOMAIN a.members : a.members[i].fix # 0}
    IN  IF having = {} THEN 0 ELSE a.members[Min(having)].fix

\* Mutant: the actions that remove most risk come first.
ActionRankByRisk(a) ==
    <<-TotalRisk(a.members), -Worst(a.members), -Len(a.members)>> \o a.key

ActionRank(a) ==
    <<IF ActionKev(a) THEN -1 ELSE 0, -Worst(a.members), -TotalRisk(a.members),
      -Len(a.members)>> \o a.key

Plan(s) ==
    LET actions == Grouped(s, PlanKey)
    IN  SortedBy(actions, [a \in actions |-> ActionRank(a)])

\* --top: None or no positive number is all of them.
Limited(plan, top) ==
    IF top <= 0 THEN plan ELSE SubSeq(plan, 1, Min({top, Len(plan)}))

(***************************************************************************)
(* The trend over a series of reports (ci/trends.py).                       *)
(***************************************************************************)
\* Mutant: a scan is compared with the first one, not with the one before it.
IntroducedSinceFirst(series, i) ==
    FpsIn(series[i]) \ (IF i = 1 THEN {} ELSE FpsIn(series[1]))

Introduced(series, i) ==
    FpsIn(series[i]) \ (IF i = 1 THEN {} ELSE FpsIn(series[i - 1]))

ResolvedSince(series, i) == IF i = 1 THEN {} ELSE FpsIn(series[i - 1]) \ FpsIn(series[i])

Trend(series) ==
    [i \in DOMAIN series |->
        [total |-> Len(series[i]), bands |-> BandCounts(series[i]),
         kev |-> KevCount(series[i]),
         introduced |-> Cardinality(Introduced(series, i)),
         resolved |-> Cardinality(ResolvedSince(series, i))]]

Serious(point) == point.bands[4] + point.bands[3]

NetSeriousChange(trend) ==
    IF trend = <<>> THEN 0 ELSE Serious(trend[Len(trend)]) - Serious(trend[1])

\* The chart of the HTML page: bars of stacked segments, least severe lowest,
\* on one scale; y grows downwards.
PlotHeight == 220
TopPad == 12
BaselineY == TopPad + PlotHeight

SegmentHeight(count, maxTotal) == RoundedDiv(PlotHeight * count, maxTotal)

MaxTotal(trend) == Max({1} \cup {trend[i].total : i \in DOMAIN trend})

\* Where the segment of a band ends: its own height and those of the bands below.
SegmentY(bands, sev, maxTotal) ==
    LET Up(v) == IF v <= sev THEN SegmentHeight(bands[v], maxTotal) ELSE 0
    IN  BaselineY - (Up(0) + Up(1) + Up(2) + Up(3) + Up(4))

LabelY(bands, maxTotal) == SegmentY(bands, 4, maxTotal) - 6

=============================================================================
