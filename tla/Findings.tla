------------------------------ MODULE Findings ------------------------------
(***************************************************************************)
(* The findings of a scan and the pure functions that processing/ and ci/   *)
(* apply to them: enrichment, deduplication, suppression, priority, diff,   *)
(* gate and policy.  No state: Pipeline runs them in order.                 *)
(*                                                                         *)
(* A finding is identified by its fingerprint, a hash of host, port,        *)
(* source, plugin and title, so host and plugin are functions of it, and    *)
(* the order of the hashes is the order of Nat.  Severities, confidences    *)
(* and criticalities are their ranks; CVSS is in tenths, EPSS in percent.   *)
(* None, an unknown number, is below all of them, as in the sort key.       *)
(***************************************************************************)
EXTENDS Integers, Sequences, FiniteSets, FiniteSetsExt

CONSTANTS Fingerprint,  \* the identities of findings
          Cve,          \* the CVE ids a finding may cite
          Place,        \* hosts and URLs: what may be probed
          HostOf,       \* the host of a fingerprint
          PluginOf,     \* the NSE script or alert of a fingerprint
          CriticalityOf \* the configured criticality of a fingerprint's host

ASSUME FindingsAssumption ==
    /\ Fingerprint \subseteq Nat
    /\ CriticalityOf \in [Fingerprint -> 0..3]

None == -1
Never == -2  \* the expiry of a rule without a date

Severity == 0..4
Informational == 0
Confidence == 0..4
Score == 0..100  \* tenths of CVSS, percents of EPSS, risk

Finding == [fp : Fingerprint, at : Place, sev : Severity,
            conf : Confidence \cup {None}, cves : SUBSET Cve,
            cvss : Score \cup {None}, epss : Score \cup {None}, kev : BOOLEAN]

(***************************************************************************)
(* The composite risk score.  round(impact * (0.7 + 0.3 * likelihood) *     *)
(* 100) with Python's rounding of halves to even.                           *)
(***************************************************************************)
SeverityImpact == [s \in Severity |-> <<0, 20, 50, 80, 95>>[s + 1]]

RoundedDiv(n, d) ==
    LET q == n \div d
        r == n % d
    IN  IF 2 * r > d \/ (2 * r = d /\ q % 2 = 1) THEN q + 1 ELSE q

RiskScore(f) ==
    LET impact     == IF f.cvss # None THEN f.cvss ELSE SeverityImpact[f.sev]
        likelihood == IF f.kev THEN 100 ELSE IF f.epss # None THEN f.epss ELSE 0
    IN  RoundedDiv(impact * (700 + 3 * likelihood), 1000)

(***************************************************************************)
(* Enrichment.  intel is what the sources answered in this run: a score or  *)
(* None for each CVE, and the CVEs known to be exploited.  Only what is     *)
(* unknown is filled in; the severity is left as the scanner gave it.       *)
(***************************************************************************)
Intel == [nvd : [Cve -> Score \cup {None}], epss : [Cve -> Score \cup {None}],
          kev : SUBSET Cve]

Best(scores, cves) == Max({None} \cup {scores[c] : c \in cves})

Enriched(f, intel) ==
    [f EXCEPT !.cvss = IF @ # None THEN @ ELSE Best(intel.nvd, f.cves),
              !.epss = IF @ # None THEN @ ELSE Best(intel.epss, f.cves),
              !.kev  = @ \/ f.cves \cap intel.kev # {}]

(***************************************************************************)
(* Deduplication.  The findings of one fingerprint become one: the first    *)
(* supplies all that the merge does not fold.                               *)
(***************************************************************************)
Sightings(s, fp) == {i \in DOMAIN s : s[i].fp = fp}

Folded(s, I) ==
    [s[Min(I)] EXCEPT !.sev  = Max({s[i].sev : i \in I}),
                      !.conf = Max({s[i].conf : i \in I}),
                      !.cves = UNION {s[i].cves : i \in I},
                      !.cvss = Max({s[i].cvss : i \in I}),
                      !.epss = Max({s[i].epss : i \in I})]

\* Mutant: the severity of the first sighting is kept, as its other fields are.
MergedAsFirst(s, fp) ==
    LET I == Sightings(s, fp)
    IN  [Folded(s, I) EXCEPT !.sev = s[Min(I)].sev]

Merged(s, fp) == Folded(s, Sightings(s, fp))

\* Mutant: alerts on different pages are told apart, as scanners report them.
DeduplicatedByPlace(s) ==
    {Folded(s, {j \in Sightings(s, s[i].fp) : s[j].at = s[i].at}) : i \in DOMAIN s}

Deduplicated(s) == {Merged(s, fp) : fp \in {s[i].fp : i \in DOMAIN s}}

(***************************************************************************)
(* Suppression.  A rule of the allowlist covers one fingerprint, a host, or *)
(* a plugin (on one host, or on all of them) until the end of a day.        *)
(***************************************************************************)
FingerprintRule(fp, expires) == [covers |-> {fp}, expires |-> expires]
HostRule(h, expires) ==
    [covers |-> {fp \in Fingerprint : HostOf[fp] = h}, expires |-> expires]
PluginRule(p, hosts, expires) ==
    [covers |-> {fp \in Fingerprint : PluginOf[fp] = p /\ HostOf[fp] \in hosts},
     expires |-> expires]

Rule == [covers : SUBSET Fingerprint, expires : Nat \cup {Never}]

IsActive(rule, today) == rule.expires = Never \/ today <= rule.expires

Accepted(fp, allowlist, today) ==
    \E rule \in allowlist.rules : fp \in rule.covers /\ IsActive(rule, today)

IsFalsePositive(f, allowlist, today) ==
    \/ Accepted(f.fp, allowlist, today)
    \/ /\ allowlist.floor # None
       /\ f.conf # None
       /\ f.conf < allowlist.floor

Kept(S, allowlist, today) == {f \in S : ~IsFalsePositive(f, allowlist, today)}

(***************************************************************************)
(* Priority.  The report lists g after f when f Precedes it.                *)
(***************************************************************************)
SortKey(f) == <<-f.sev, IF f.kev THEN -1 ELSE 0, -f.cvss, -f.epss,
                -CriticalityOf[f.fp], f.fp>>

Precedes(f, g) ==
    \E k \in 1..6 : /\ SortKey(f)[k] < SortKey(g)[k]
                    /\ \A j \in 1..(k - 1) : SortKey(f)[j] = SortKey(g)[j]

(***************************************************************************)
(* Diff against the fingerprints of a baseline.                             *)
(***************************************************************************)
\* Mutant: a finding on a host that has an accepted one is not new.
NewByHost(S, baseline) == {f \in S : HostOf[f.fp] \notin {HostOf[fp] : fp \in baseline}}

New(S, baseline) == {f \in S : f.fp \notin baseline}
Resolved(S, baseline) == baseline \ {f.fp : f \in S}

(***************************************************************************)
(* The two verdicts on new findings: the threshold gate, and a policy of    *)
(* budgets and blocks, in which a severity may have None.                   *)
(***************************************************************************)
Triggers(f, threshold, minRisk) ==
    \/ f.sev >= threshold
    \/ minRisk # None /\ RiskScore(f) >= minRisk

GateTriggering(new, threshold, minRisk) ==
    {f \in new : Triggers(f, threshold, minRisk)}

Policy == [maxNew : [Severity -> Nat \cup {None}], maxTotal : Nat \cup {None},
           minRisk : Score \cup {None}, blockKev : BOOLEAN]

\* Mutant: a budget of n is spent by the n-th finding, not by the one after it.
ExceedsAtBudget(S, budget) == budget # None /\ Cardinality(S) >= budget

Exceeds(S, budget) == budget # None /\ Cardinality(S) > budget

OfSeverity(new, s) == {f \in new : f.sev = s}

\* The findings of every violated rule, one set for each.
Violations(new, policy) ==
    {OfSeverity(new, s) : s \in {t \in Severity :
        Exceeds(OfSeverity(new, t), policy.maxNew[t])}}
    \cup (IF Exceeds(new, policy.maxTotal) THEN {new} ELSE {})
    \cup ({{f \in new : policy.minRisk # None /\ RiskScore(f) >= policy.minRisk},
           {f \in new : policy.blockKev /\ f.kev}} \ {{}})

PolicyTriggering(new, policy) == UNION Violations(new, policy)

\* The threshold gate, put as a policy.
PolicyFromThreshold(threshold, minRisk) ==
    [maxNew   |-> [s \in Severity |-> IF s >= threshold THEN 0 ELSE None],
     maxTotal |-> None,
     minRisk  |-> minRisk,
     blockKev |-> FALSE]

=============================================================================
