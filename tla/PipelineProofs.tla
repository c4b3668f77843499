--------------------------- MODULE PipelineProofs ---------------------------
(***************************************************************************)
(* Proofs about Findings and Pipeline, for any places, findings, command    *)
(* lines and answers.                                                       *)
(***************************************************************************)
EXTENDS Pipeline, FiniteSetTheorems, NaturalsInduction, SequenceTheorems,
        WellFoundedInduction, TLAPS

-----------------------------------------------------------------------------
(***************************************************************************)
(* Extrema                                                                  *)
(***************************************************************************)
\* Min returns the least element of a set of naturals.
LEMMA MinOfNaturals ==
    ASSUME NEW S \in SUBSET Nat, S # {}
    PROVE  Min(S) \in S /\ \A y \in S : Min(S) <= y
<1> DEFINE R == {ss \in Nat \X Nat : ss[1] < ss[2]}
<1>1. IsWellFoundedOn(R, Nat)
  BY NatLessThanWellFounded DEF OpToRel
<1>2. PICK x \in S : \A y \in S : ~(<<y, x>> \in R)
  <2> HIDE DEF R
  <2> QED
    BY <1>1, WFMin
<1>3. \A y \in S : x <= y
  <2> TAKE y \in S
  <2>1. ~(<<y, x>> \in R) /\ x \in Nat /\ y \in Nat
    BY <1>2
  <2> QED
    BY <2>1
<1> QED
  BY <1>3 DEF Min

\* Max returns the greatest element of a set of scores or ranks, None included.
LEMMA MaxOfScores ==
    ASSUME NEW S \in SUBSET (-1..100), S # {}
    PROVE  Max(S) \in S /\ \A y \in S : y <= Max(S)
<1> DEFINE T == {n \in Nat : 100 - n \in S}
<1>1. T \in SUBSET Nat /\ T # {}
  <2>1. PICK x : x \in S
    OBVIOUS
  <2>2. 100 - x \in Nat /\ 100 - (100 - x) = x
    BY <2>1
  <2> QED
    BY <2>1, <2>2
<1>2. PICK n \in T : \A k \in T : n <= k
  <2> HIDE DEF T
  <2> QED
    BY <1>1, MinOfNaturals
<1>3. \A y \in S : y <= 100 - n
  <2> TAKE y \in S
  <2>1. 100 - y \in Nat /\ 100 - (100 - y) = y
    OBVIOUS
  <2>2. 100 - y \in T
    BY <2>1
  <2>3. n \in Nat /\ y \in Int
    BY <1>2
  <2> HIDE DEF T
  <2>4. n <= 100 - y
    BY <2>2, <1>2
  <2> QED
    BY <2>3, <2>4
<1>4. n \in Nat /\ 100 - n \in S
  BY <1>2
<1> HIDE DEF T
<1>5. \E x \in S : \A y \in S : x >= y
  <2>1. \A y \in S : 100 - n >= y
    <3>1. \A y \in S : y \in Int
      OBVIOUS
    <3> QED
      BY <1>3, <1>4, <3>1
  <2> QED
    BY <2>1, <1>4
<1>6. Max(S) \in S /\ \A y \in S : Max(S) >= y
  BY <1>5 DEF Max
<1> QED
  BY <1>6

-----------------------------------------------------------------------------
(***************************************************************************)
(* Findings                                                                 *)
(***************************************************************************)
\* Enrichment changes neither the identity nor the severity of a finding.
LEMMA EnrichedIsFinding ==
    ASSUME NEW f \in Finding, NEW intel \in Intel
    PROVE  /\ Enriched(f, intel) \in Finding
           /\ Enriched(f, intel).fp = f.fp
           /\ Enriched(f, intel).sev = f.sev
<1>1. ASSUME NEW scores \in [Cve -> Score \cup {None}]
      PROVE  Best(scores, f.cves) \in Score \cup {None}
  <2>1. f.cves \subseteq Cve
    BY DEF Finding
  <2> DEFINE S == {None} \cup {scores[c] : c \in f.cves}
  <2>2. S \in SUBSET (-1..100) /\ S # {}
    BY <2>1 DEF Score, None
  <2>3. \A y \in S : y \in Score \cup {None}
    BY <2>1
  <2>4. Max(S) \in S
    <3> HIDE DEF S
    <3> QED
      BY <2>2, MaxOfScores
  <2> QED
    BY <2>3, <2>4 DEF Best
<1>2. intel.nvd \in [Cve -> Score \cup {None}] /\ intel.epss \in [Cve -> Score \cup {None}]
  BY DEF Intel
<1>3. /\ Best(intel.nvd, f.cves) \in Score \cup {None}
      /\ Best(intel.epss, f.cves) \in Score \cup {None}
  BY <1>1, <1>2
<1> QED
  BY <1>3 DEF Enriched, Finding

\* What a merge keeps: the identity, the worst severity, the best confidence.
LEMMA MergedKeepsTheWorst ==
    ASSUME NEW s \in Seq(Finding), NEW i \in DOMAIN s
    PROVE  LET m == Merged(s, s[i].fp)
               I == Sightings(s, s[i].fp)
           IN  /\ m \in Finding
               /\ m.fp = s[i].fp
               /\ \A j \in I : s[j].sev <= m.sev /\ s[j].conf <= m.conf
               /\ \E j \in I : s[j].sev = m.sev
               /\ \E j \in I : s[j].conf = m.conf
<1> DEFINE I == Sightings(s, s[i].fp)
           Sev == {s[j].sev : j \in I}
           Conf == {s[j].conf : j \in I}
           Cvss == {s[j].cvss : j \in I}
           Epss == {s[j].epss : j \in I}
           Cves == UNION {s[j].cves : j \in I}
<1>1. /\ I \in SUBSET Nat /\ i \in I
      /\ \A j \in I : s[j] \in Finding /\ s[j].fp = s[i].fp
  BY DEF Sightings
<1> HIDE DEF I
<1>2. Min(I) \in I
  BY <1>1, MinOfNaturals
<1>3. \A j \in I : /\ s[j].sev \in 0..4
                   /\ s[j].conf \in (0..4) \cup {-1}
                   /\ s[j].cvss \in (0..100) \cup {-1}
                   /\ s[j].epss \in (0..100) \cup {-1}
                   /\ s[j].cves \subseteq Cve
  BY <1>1 DEF Finding, Severity, Confidence, Score, None
<1>4. /\ Sev \subseteq Severity
      /\ Conf \subseteq Confidence \cup {None}
      /\ Cvss \subseteq Score \cup {None}
      /\ Epss \subseteq Score \cup {None}
  BY <1>3 DEF Severity, Confidence, Score, None
<1>5. /\ Sev \in SUBSET (-1..100) /\ Sev # {}
      /\ Conf \in SUBSET (-1..100) /\ Conf # {}
      /\ Cvss \in SUBSET (-1..100) /\ Cvss # {}
      /\ Epss \in SUBSET (-1..100) /\ Epss # {}
  <2>1. Sev # {} /\ Conf # {} /\ Cvss # {} /\ Epss # {}
    BY <1>1
  <2> HIDE DEF Sev, Conf, Cvss, Epss
  <2>2. /\ Severity \subseteq -1..100
        /\ Confidence \cup {None} \subseteq -1..100
        /\ Score \cup {None} \subseteq -1..100
    BY DEF Severity, Confidence, Score, None
  <2> QED
    BY <1>4, <2>1, <2>2
<1>6. Cves \subseteq Cve
  BY <1>3
<1>7. /\ \A j \in I : s[j].sev \in Sev /\ s[j].conf \in Conf
      /\ \A v \in Sev : \E j \in I : s[j].sev = v
      /\ \A v \in Conf : \E j \in I : s[j].conf = v
  OBVIOUS
<1>8. Merged(s, s[i].fp) =
        [s[Min(I)] EXCEPT !.sev = Max(Sev), !.conf = Max(Conf), !.cves = Cves,
                          !.cvss = Max(Cvss), !.epss = Max(Epss)]
  BY DEF Merged, Folded, I
<1> HIDE DEF Sev, Conf, Cvss, Epss, Cves
<1>9. /\ Max(Sev) \in Sev /\ \A v \in Sev : v <= Max(Sev)
      /\ Max(Conf) \in Conf /\ \A v \in Conf : v <= Max(Conf)
      /\ Max(Cvss) \in Cvss
      /\ Max(Epss) \in Epss
  BY <1>5, MaxOfScores
<1>10. /\ Max(Sev) \in Severity /\ Max(Conf) \in Confidence \cup {None}
       /\ Max(Cvss) \in Score \cup {None} /\ Max(Epss) \in Score \cup {None}
  BY <1>4, <1>9
<1>11. s[Min(I)] \in Finding /\ s[Min(I)].fp = s[i].fp
  BY <1>1, <1>2
<1> DEFINE m == Merged(s, s[i].fp)
<1>12. m \in Finding /\ m.fp = s[i].fp /\ m.sev = Max(Sev) /\ m.conf = Max(Conf)
  BY <1>6, <1>8, <1>10, <1>11 DEF Finding
<1>13. \A j \in I : s[j].sev <= m.sev /\ s[j].conf <= m.conf
  BY <1>7, <1>9, <1>12
<1>14. (\E j \in I : s[j].sev = m.sev) /\ (\E j \in I : s[j].conf = m.conf)
  BY <1>7, <1>9, <1>12
<1> QED
  BY <1>12, <1>13, <1>14 DEF I

-----------------------------------------------------------------------------
(***************************************************************************)
(* The inductive invariant: what each stage has and has not done yet, and   *)
(* that a verdict is the one Judge computes from the findings as they are.  *)
(***************************************************************************)
Staged ==
    /\ stage = "over" <=> outcome # "none"
    /\ (stage # "preflight" /\ outcome # "refused") => Permitted
    /\ (stage = "preflight" \/ outcome = "refused") => probed = {}
    /\ (stage \notin {"write", "over"} \/ outcome = "refused") =>
          disk = [a \in Artifact |-> "old"]
    /\ verdict # "none" => stage \in {"write", "over"}

Judged ==
    verdict # "none" =>
        /\ kept = Kept(Deduplicated(raw), cmd.allowlist, today)
        /\ verdict = IF Fails(New(kept, cmd.baseline)) THEN "fail" ELSE "pass"

Inv ==
    /\ TypeOK
    /\ Staged
    /\ ProbesPermitted
    /\ VerdictOnDisk
    /\ Judged
    /\ IsFiniteSet(kept)

-----------------------------------------------------------------------------
(***************************************************************************)
(* Type correctness                                                         *)
(***************************************************************************)
\* A layer comes back with a sequence of findings.
LEMMA SightableType ==
    ASSUME NEW l \in Layer, NEW s \in Sightable(l) \cup {<<>>}
    PROVE  s \in Seq(Finding)
<1>1. Reportable(l) \subseteq Finding
  BY PipelineAssumption DEF Reportable
<1>2. CASE s = <<>>
  BY <1>2
<1>3. ASSUME NEW n \in 0..MaxSighted, s \in [1..n -> Reportable(l)]
      PROVE  s \in Seq(Finding)
  <2>1. n \in Nat
    BY PipelineAssumption
  <2>2. s \in [1..n -> Finding]
    BY <1>1, <1>3
  <2> QED
    BY <2>1, <2>2, SeqDef
<1> QED
  BY <1>2, <1>3 DEF Sightable

\* Deduplication yields findings, one for each fingerprint, finitely many.
LEMMA DeduplicatedType ==
    ASSUME NEW s \in Seq(Finding)
    PROVE  /\ Deduplicated(s) \subseteq Finding
           /\ \A f, g \in Deduplicated(s) : f.fp = g.fp => f = g
           /\ IsFiniteSet(Deduplicated(s))
<1>1. \A i \in DOMAIN s : Merged(s, s[i].fp) \in Finding /\ Merged(s, s[i].fp).fp = s[i].fp
  BY MergedKeepsTheWorst
<1>2. \A f \in Deduplicated(s) : \E i \in DOMAIN s : f = Merged(s, s[i].fp)
  BY DEF Deduplicated
<1> DEFINE M == [i \in DOMAIN s |-> Merged(s, s[i].fp)]
<1>3. M \in Surjection(DOMAIN s, Deduplicated(s))
  <2>1. \A i \in DOMAIN s : Merged(s, s[i].fp) \in Deduplicated(s)
    BY DEF Deduplicated
  <2> QED
    BY <1>2, <2>1 DEF Surjection
<1>4. IsFiniteSet(DOMAIN s)
  <2>1. DOMAIN s = 1..Len(s) /\ Len(s) \in Int
    OBVIOUS
  <2> QED
    BY <2>1, FS_Interval
<1>5. IsFiniteSet(Deduplicated(s))
  <2> HIDE DEF M
  <2> QED
    BY <1>3, <1>4, FS_Surjection
<1> QED
  BY <1>1, <1>2, <1>5

LEMMA TypeInit == Init => TypeOK
  BY DEF Init, TypeOK, Stage

LEMMA TypeNext == TypeOK /\ [Next]_vars => TypeOK'
<1> SUFFICES ASSUME TypeOK, [Next]_vars
             PROVE  TypeOK'
  OBVIOUS
<1>cmd. cmd \in CommandLine
  BY PipelineAssumption DEF TypeOK
<1>url. cmd.hosts \subseteq Place /\ cmd.scope \subseteq Place /\ WebTargets \subseteq Place
  BY <1>cmd, PipelineAssumption DEF TypeOK, CommandLine, WebTargets
<1>probe. \A l, P : P \subseteq Place => Probe(l, P) \subseteq Place
  BY DEF TypeOK, Probe
<1>1. CASE Refuse
  BY <1>1 DEF Refuse, Over, TypeOK, Stage
<1>2. CASE Start
  BY <1>2 DEF Start, TypeOK, Stage, Layer
<1>3. CASE NetworkScan
  <2>1. raw' \in Seq(Finding)
    BY <1>3, SightableType DEF NetworkScan, Reports, Layer
  <2>2. discovered' \subseteq Place
    BY <1>3, <1>url DEF NetworkScan, WebServices
  <2> QED
    BY <1>3, <1>url, <1>probe, <2>1, <2>2 DEF NetworkScan, TypeOK, Stage, Layer
<1>4. ASSUME NEW l \in Layer, NEW next \in Stage, ScanUrls(l, next)
      PROVE  TypeOK'
  <2>1. raw' \in Seq(Finding)
    <3>1. PICK s \in Sightable(l) \cup {<<>>} : raw' = raw \o s
      BY <1>4 DEF ScanUrls, Reports
    <3> QED
      BY <3>1, SightableType, ConcatProperties DEF TypeOK
  <2> QED
    BY <1>4, <1>url, <1>probe, <2>1 DEF ScanUrls, TypeOK
<1>5. CASE WebScan
  BY <1>4, <1>5 DEF WebScan, Layer, Stage
<1>6. CASE NucleiScan
  BY <1>4, <1>6 DEF NucleiScan, Layer, Stage
<1>7. ASSUME NEW l \in Layer, NEW next \in Stage, ReadFiles(l, next)
      PROVE  TypeOK'
  <2>1. raw' \in Seq(Finding)
    <3>1. PICK s \in Sightable(l) : raw' = raw \o s
      BY <1>7 DEF ReadFiles
    <3> QED
      BY <3>1, SightableType, ConcatProperties DEF TypeOK
  <2> QED
    BY <1>7, <2>1 DEF ReadFiles, TypeOK
<1>8. CASE SbomScan
  BY <1>7, <1>8 DEF SbomScan, Layer, Stage
<1>9. CASE ImportsScan
  BY <1>7, <1>9 DEF ImportsScan, Layer, Stage
<1>10. CASE Enrich
  <2>1. PICK intel \in Intel : raw' = [i \in DOMAIN raw |-> Enriched(raw[i], intel)]
    BY <1>10, PipelineAssumption DEF Enrich
  <2>2. raw \in [1..Len(raw) -> Finding] /\ Len(raw) \in Nat
    BY DEF TypeOK
  <2>3. raw' \in [1..Len(raw) -> Finding]
    BY <2>1, <2>2, EnrichedIsFinding
  <2>4. raw' \in Seq(Finding)
    BY <2>2, <2>3, SeqDef
  <2> QED
    BY <1>10, <2>4 DEF Enrich, TypeOK, Stage
<1>11. CASE Judge
  <2>1. kept' \subseteq Deduplicated(raw)
    BY <1>11 DEF Judge, Kept
  <2>2. raw \in Seq(Finding)
    BY DEF TypeOK
  <2>3. kept' \subseteq Finding /\ \A f, g \in kept' : f.fp = g.fp => f = g
    BY <2>1, <2>2, DeduplicatedType
  <2>4. today' \in Day /\ verdict' \in {"pass", "fail"}
    BY <1>11 DEF Judge
  <2> QED
    BY <1>11, <2>3, <2>4 DEF Judge, TypeOK, Stage
<1>12. CASE Write
  BY <1>12 DEF Write, TypeOK
<1>13. CASE WriteFails
  BY <1>13 DEF WriteFails, Over, TypeOK, Stage
<1>14. CASE Exit
  BY <1>14 DEF Exit, Over, TypeOK, Stage
<1>15. CASE Abort
  <2>1. MayProbe \subseteq Place
    BY <1>url DEF MayProbe
  <2>2. probed' \subseteq Place
    BY <1>15, <1>probe, <2>1 DEF Abort
  <2> QED
    BY <1>15, <2>2 DEF Abort, Over, TypeOK, Stage
<1>16. CASE UNCHANGED vars
  BY <1>16 DEF vars, TypeOK
<1> QED
  BY <1>1, <1>2, <1>3, <1>5, <1>6, <1>8, <1>9, <1>10, <1>11, <1>12, <1>13,
     <1>14, <1>15, <1>16 DEF Next, Done

-----------------------------------------------------------------------------
(***************************************************************************)
(* The rest of the inductive invariant, a part at a time                    *)
(***************************************************************************)
LEMMA StagedNext == TypeOK /\ Staged /\ [Next]_vars => Staged'
<1> SUFFICES ASSUME TypeOK, Staged, [Next]_vars
             PROVE  Staged'
  OBVIOUS
<1> USE DEF Staged, Permitted, Layer
<1>1. CASE Refuse
  BY <1>1 DEF Refuse, Over
<1>2. CASE Start
  BY <1>2 DEF Start
<1>3. CASE NetworkScan
  BY <1>3 DEF NetworkScan
<1>4. CASE WebScan \/ NucleiScan
  BY <1>4 DEF WebScan, NucleiScan, ScanUrls
<1>5. CASE SbomScan \/ ImportsScan
  BY <1>5 DEF SbomScan, ImportsScan, ReadFiles
<1>6. CASE Enrich
  BY <1>6 DEF Enrich
<1>7. CASE Judge
  BY <1>7 DEF Judge
<1>8. CASE Write
  BY <1>8 DEF Write
<1>9. CASE WriteFails
  BY <1>9 DEF WriteFails, Over
<1>10. CASE Exit
  BY <1>10 DEF Exit, Over
<1>11. CASE Abort
  BY <1>11 DEF Abort, Over
<1>12. CASE UNCHANGED vars
  BY <1>12 DEF vars
<1> QED
  BY <1>1, <1>2, <1>3, <1>4, <1>5, <1>6, <1>7, <1>8, <1>9, <1>10, <1>11, <1>12
     DEF Next, Done

\* Only the scanning stages probe, and only what the command line permits.
LEMMA ProbesNext ==
    TypeOK /\ Staged /\ ProbesPermitted /\ [Next]_vars => ProbesPermitted'
<1> SUFFICES ASSUME TypeOK, Staged, ProbesPermitted, [Next]_vars
             PROVE  ProbesPermitted'
  OBVIOUS
<1>1. ASSUME stage \in Layer
      PROVE  /\ cmd.authorized
             /\ cmd.hosts \subseteq cmd.scope
             /\ WebTargets \subseteq cmd.scope
  BY <1>1 DEF Staged, Permitted, Layer, WebTargets
<1>2. ASSUME NEW l, NEW P, P \subseteq cmd.scope, cmd.authorized,
             probed' = Probe(l, P), cmd' = cmd
      PROVE  probed' # {} => cmd'.authorized /\ probed' \subseteq cmd'.scope
  BY <1>2 DEF ProbesPermitted, Probe
<1>3. CASE Refuse
  <2>1. probed' = {} /\ disk' = disk /\ \A a \in Artifact : disk[a] = "old"
    BY <1>3 DEF Refuse, Staged
  <2> QED
    BY <2>1 DEF ProbesPermitted
<1>4. CASE NetworkScan
  BY <1>1, <1>2, <1>4 DEF NetworkScan, ProbesPermitted, Staged, Layer
<1>5. CASE WebScan \/ NucleiScan
  BY <1>1, <1>2, <1>5
     DEF WebScan, NucleiScan, ScanUrls, ProbesPermitted, Staged, Layer
<1>6. CASE Abort
  <2>1. outcome' # "refused" /\ cmd' = cmd
    BY <1>6 DEF Abort, Over
  <2>2. PICK P \in SUBSET MayProbe : probed' = Probe(stage, P)
    BY <1>6 DEF Abort
  <2>3. CASE stage \in Layer
    <3>1. P \subseteq cmd.scope
      BY <1>1, <2>3 DEF MayProbe
    <3> QED
      BY <1>1, <1>2, <2>1, <2>2, <2>3, <3>1 DEF ProbesPermitted
  <2>4. CASE stage \notin Layer
    <3>1. P = {}
      BY <2>4 DEF MayProbe, Layer
    <3>2. probed' = probed
      BY <2>2, <3>1 DEF Probe
    <3> QED
      BY <2>1, <3>2 DEF ProbesPermitted
  <2> QED
    BY <2>3, <2>4
<1>7. CASE Write \/ WriteFails \/ Exit
  BY <1>7 DEF Write, WriteFails, Exit, Over, ProbesPermitted, Staged
<1>8. CASE Start \/ SbomScan \/ ImportsScan \/ Enrich \/ Judge
  BY <1>8 DEF Start, SbomScan, ImportsScan, ReadFiles, Enrich, Judge, ProbesPermitted
<1>9. CASE UNCHANGED vars
  BY <1>9 DEF vars, ProbesPermitted
<1> QED
  BY <1>3, <1>4, <1>5, <1>6, <1>7, <1>8, <1>9 DEF Next, Done

\* Reports are written in order: the first that is pending is written next.
LEMMA DiskNext ==
    TypeOK /\ Staged /\ VerdictOnDisk /\ [Next]_vars => VerdictOnDisk'
<1> SUFFICES ASSUME TypeOK, Staged, VerdictOnDisk, [Next]_vars
             PROVE  VerdictOnDisk'
  OBVIOUS
<1>req. cmd.requested \subseteq Artifact
  BY PipelineAssumption DEF TypeOK, CommandLine
<1>art. /\ DOMAIN Artifacts \subseteq Nat
        /\ \A i \in DOMAIN Artifacts : Artifacts[i] \in Artifact
        /\ \A i, j \in DOMAIN Artifacts : Artifacts[i] = Artifacts[j] => i = j
        /\ \A a \in Artifact : \E i \in DOMAIN Artifacts : a = Artifacts[i]
  BY PipelineAssumption DEF Artifact
<1>disk. disk \in [Artifact -> {"old", "torn", "new"}]
  BY DEF TypeOK
<1>1. ASSUME Pending # {}
      PROVE  /\ Min(Pending) \in DOMAIN Artifacts
             /\ disk[Artifacts[Min(Pending)]] # "new"
             /\ \A i \in DOMAIN Artifacts :
                   (i < Min(Pending) /\ Artifacts[i] \in cmd.requested)
                      => disk[Artifacts[i]] = "new"
  <2>1. Pending \in SUBSET Nat
    BY <1>art DEF Pending
  <2>2. Min(Pending) \in Pending /\ \A i \in Pending : Min(Pending) <= i
    BY <1>1, <2>1, MinOfNaturals
  <2>3. ASSUME NEW i \in Pending
        PROVE  ~(i < Min(Pending))
    <3>1. Min(Pending) <= i /\ i \in Nat /\ Min(Pending) \in Nat
      BY <2>1, <2>2
    <3> QED
      BY ONLY <3>1
  <2> QED
    BY <2>2, <2>3 DEF Pending
<1> DEFINE m == Min(Pending)
<1>2. CASE Write
  <2>1. /\ m \in DOMAIN Artifacts
        /\ disk[Artifacts[m]] # "new"
        /\ \A i \in DOMAIN Artifacts :
              (i < m /\ Artifacts[i] \in cmd.requested) => disk[Artifacts[i]] = "new"
        /\ disk' = [disk EXCEPT ![Artifacts[m]] = "new"]
        /\ cmd' = cmd /\ outcome' = outcome
    BY <1>1, <1>2 DEF Write
  <2>2. outcome' \notin {"passed", "failed"}
    BY <1>2, <2>1 DEF Write, Staged
  <2> HIDE DEF m
  <2>3. ASSUME NEW i \in DOMAIN Artifacts, NEW j \in DOMAIN Artifacts,
               i < j, disk'[Artifacts[j]] = "new", Artifacts[i] \in cmd.requested
        PROVE  disk'[Artifacts[i]] = "new"
    <3>1. CASE j = m
      BY <1>art, <1>disk, <2>1, <2>3, <3>1
    <3>2. CASE j # m
      <4>1. disk[Artifacts[j]] = "new"
        BY <1>art, <1>disk, <2>1, <2>3, <3>2
      <4>2. disk[Artifacts[i]] = "new"
        BY <2>3, <4>1 DEF VerdictOnDisk
      <4> QED
        BY <1>art, <1>disk, <2>1, <4>2
    <3> QED
      BY <3>1, <3>2
  <2> QED
    BY <2>1, <2>2, <2>3 DEF VerdictOnDisk
<1>3. CASE WriteFails
  <2>1. PICK left \in {"old", "torn"} : disk' = [disk EXCEPT ![Artifacts[m]] = left]
    BY <1>3 DEF WriteFails
  <2>2. m \in DOMAIN Artifacts /\ disk[Artifacts[m]] # "new"
    BY <1>1, <1>3 DEF WriteFails
  <2>3. cmd' = cmd /\ outcome' = "raised"
    BY <1>3 DEF WriteFails, Over
  <2> HIDE DEF m
  <2>4. \A a \in Artifact : disk'[a] = "new" <=> disk[a] = "new"
    BY <1>disk, <1>art, <2>1, <2>2
  <2> QED
    BY <1>art, <2>3, <2>4 DEF VerdictOnDisk
<1>4. CASE Exit
  <2>1. \A a \in cmd.requested : disk[a] = "new"
    BY <1>4, <1>req, <1>art DEF Exit, Pending
  <2> QED
    BY <1>4, <2>1 DEF Exit, VerdictOnDisk
<1>5. CASE Refuse \/ Abort
  BY <1>5 DEF Refuse, Abort, Over, VerdictOnDisk
<1>6. CASE Start \/ NetworkScan \/ WebScan \/ NucleiScan \/ SbomScan
           \/ ImportsScan \/ Enrich \/ Judge
  BY <1>6 DEF Start, NetworkScan, WebScan, NucleiScan, ScanUrls, SbomScan,
              ImportsScan, ReadFiles, Enrich, Judge, VerdictOnDisk
<1>7. CASE UNCHANGED vars
  BY <1>7 DEF vars, VerdictOnDisk
<1> QED
  BY <1>2, <1>3, <1>4, <1>5, <1>6, <1>7 DEF Next, Done

\* The verdict stays the one that was computed: nothing it was computed from
\* changes afterwards.
LEMMA JudgedNext == Staged /\ Judged /\ [Next]_vars => Judged'
<1> SUFFICES ASSUME Staged, Judged, [Next]_vars
             PROVE  Judged'
  OBVIOUS
<1>1. CASE Judge
  <2>1. /\ kept' = Kept(Deduplicated(raw), cmd.allowlist, today')
        /\ verdict' = IF Fails(New(kept', cmd.baseline)) THEN "fail" ELSE "pass"
        /\ raw' = raw /\ cmd' = cmd
    BY <1>1 DEF Judge
  <2>2. Fails(New(kept, cmd.baseline))' = Fails(New(kept', cmd.baseline))
    BY <2>1 DEF Fails
  <2>3. Kept(Deduplicated(raw), cmd.allowlist, today)'
          = Kept(Deduplicated(raw), cmd.allowlist, today')
    BY <2>1
  <2> QED
    BY <2>1, <2>2, <2>3 DEF Judged
<1>2. ASSUME stage \notin {"judge", "write", "over"}, verdict' = verdict
      PROVE  Judged'
  BY <1>2 DEF Staged, Judged
<1>3. CASE Start \/ NetworkScan \/ WebScan \/ NucleiScan \/ SbomScan
           \/ ImportsScan \/ Enrich
  BY <1>2, <1>3 DEF Start, NetworkScan, WebScan, NucleiScan, ScanUrls, SbomScan,
                    ImportsScan, ReadFiles, Enrich
<1>4. ASSUME UNCHANGED <<cmd, raw, today, kept, verdict>>
      PROVE  Judged'
  BY <1>4 DEF Judged, Fails
<1>5. CASE Refuse \/ Write \/ WriteFails \/ Exit \/ Abort \/ UNCHANGED vars
  BY <1>4, <1>5 DEF Refuse, Write, WriteFails, Exit, Abort, vars
<1> QED
  BY <1>1, <1>3, <1>5 DEF Next, Done

LEMMA FiniteNext == TypeOK /\ IsFiniteSet(kept) /\ [Next]_vars => IsFiniteSet(kept')
<1> SUFFICES ASSUME TypeOK, IsFiniteSet(kept), [Next]_vars
             PROVE  IsFiniteSet(kept')
  OBVIOUS
<1>1. CASE Judge
  <2>1. kept' \in SUBSET Deduplicated(raw)
    BY <1>1 DEF Judge, Kept
  <2>2. IsFiniteSet(Deduplicated(raw))
    BY DeduplicatedType DEF TypeOK
  <2> QED
    BY <2>1, <2>2, FS_Subset
<1>2. CASE kept' = kept
  BY <1>2
<1> QED
  BY <1>1, <1>2 DEF Next, Done, vars, Refuse, Start, NetworkScan, WebScan,
     NucleiScan, ScanUrls, SbomScan, ImportsScan, ReadFiles, Enrich, Write,
     WriteFails, Exit, Abort

LEMMA InvHolds == Spec => []Inv
<1>1. Init => Inv
  <2>1. Init => TypeOK
    BY TypeInit
  <2>2. Init => Staged /\ ProbesPermitted /\ Judged
    BY DEF Init, Staged, ProbesPermitted, Judged
  <2>3. Init => VerdictOnDisk
    BY DEF Init, VerdictOnDisk, Artifact
  <2>4. Init => IsFiniteSet(kept)
    BY FS_EmptySet DEF Init
  <2> QED
    BY <2>1, <2>2, <2>3, <2>4 DEF Inv
<1>2. Inv /\ [Next]_vars => Inv'
  BY TypeNext, StagedNext, ProbesNext, DiskNext, JudgedNext, FiniteNext DEF Inv
<1> QED
  BY <1>1, <1>2, PTL DEF Spec

-----------------------------------------------------------------------------
(***************************************************************************)
(* What follows                                                             *)
(***************************************************************************)
\* Every variable of the run keeps its type, and the report has one finding for
\* each fingerprint (deduplicator.deduplicate).
THEOREM TypeCorrect == Spec => []TypeOK
  BY InvHolds, PTL DEF Inv

\* The authorization gate and the scope allowlist hold for every request of
\* every layer, the pages nmap leads the web layers to included.
THEOREM ProbesArePermitted == Spec => []ProbesPermitted
  BY InvHolds, PTL DEF Inv

\* An exit code that is a verdict comes after the reports it is about.
THEOREM VerdictReachesDisk == Spec => []VerdictOnDisk
  BY InvHolds, PTL DEF Inv

\* The confidence floor suppresses a merged finding exactly when every sighting
\* whose confidence is known is below it.
LEMMA SuppressedIffExcused ==
    ASSUME TypeOK, NEW i \in DOMAIN raw
    PROVE  LET m == Merged(raw, raw[i].fp)
           IN  Excused(m.fp) <=> \/ m.fp \in cmd.baseline
                                 \/ IsFalsePositive(m, cmd.allowlist, today)
<1> DEFINE fp == raw[i].fp
           m == Merged(raw, fp)
           I == Sightings(raw, fp)
           known == {raw[j].conf : j \in I} \ {None}
           floor == cmd.allowlist.floor
<1>1. /\ m \in Finding /\ m.fp = fp
      /\ \A j \in I : raw[j].conf <= m.conf
      /\ \E j \in I : raw[j].conf = m.conf
  BY MergedKeepsTheWorst DEF TypeOK
<1>2. \A j \in I : raw[j].conf \in Confidence \cup {None}
  <2>1. \A j \in DOMAIN raw : raw[j] \in Finding
    BY DEF TypeOK
  <2> QED
    BY <2>1 DEF Sightings, Finding
<1>3. floor \in Confidence \cup {None}
  BY PipelineAssumption DEF TypeOK, CommandLine, Allowlist
<1>4. m.conf \in Confidence \cup {None}
  BY <1>1 DEF Finding
<1>5. (known # {} /\ \A c \in known : c < floor)
        <=> (floor # None /\ m.conf # None /\ m.conf < floor)
  <2> HIDE DEF m, I, floor
  <2>1. CASE m.conf = None
    <3>1. \A j \in I : raw[j].conf = None
      BY <1>1, <1>2, <2>1 DEF Confidence, None
    <3> QED
      BY <2>1, <3>1
  <2>2. CASE m.conf # None
    <3>1. m.conf \in known
      BY <1>1, <2>2
    <3>2. \A c \in known : c \in Confidence /\ c <= m.conf
      BY <1>1, <1>2
    <3>3. m.conf \in Int /\ m.conf >= 0 /\ floor \in Int
      BY <1>3, <1>4, <2>2 DEF Confidence, None
    <3>4. \A c \in known : c \in Int
      BY <3>2 DEF Confidence
    <3> HIDE DEF known
    <3>5. (\A c \in known : c < floor) <=> m.conf < floor
      BY <3>1, <3>2, <3>3, <3>4
    <3>6. m.conf < floor => floor # None
      BY <3>3 DEF None
    <3> QED
      BY <2>2, <3>1, <3>5, <3>6
  <2> QED
    BY <2>1, <2>2
<1>6. Excused(fp) <=> \/ fp \in cmd.baseline
                      \/ Accepted(fp, cmd.allowlist, today)
                      \/ (known # {} /\ \A c \in known : c < floor)
  BY DEF Excused
<1>7. IsFalsePositive(m, cmd.allowlist, today)
        <=> \/ Accepted(fp, cmd.allowlist, today)
            \/ (floor # None /\ m.conf # None /\ m.conf < floor)
  BY <1>1 DEF IsFalsePositive
<1> QED
  <2> HIDE DEF known, floor, m
  <2> SUFFICES Excused(m.fp) <=> m.fp \in cmd.baseline
                                 \/ IsFalsePositive(m, cmd.allowlist, today)
    BY DEF m
  <2> QED
    BY <1>1, <1>5, <1>6, <1>7

\* The threshold gate of scan neither misses a severe sighting that nobody
\* excused nor fails a run without one, whatever the layers sight, in whatever
\* order and how often.
LEMMA JudgedIsJust == Inv => VerdictIsJust
<1> SUFFICES ASSUME Inv, verdict # "none", ~cmd.hasPolicy, cmd.minRisk = None
             PROVE  (verdict = "fail") <=> \E i \in DOMAIN raw :
                        raw[i].sev >= cmd.threshold /\ ~Excused(raw[i].fp)
  BY DEF VerdictIsJust
<1> USE DEF Inv
<1>1. /\ kept = Kept(Deduplicated(raw), cmd.allowlist, today)
      /\ verdict = "fail" <=> Fails(New(kept, cmd.baseline))
  BY DEF Judged
<1>2. \A f : Triggers(f, cmd.threshold, cmd.minRisk) <=> f.sev >= cmd.threshold
  BY DEF Triggers
<1>3. verdict = "fail" <=> \E f \in kept : f.fp \notin cmd.baseline /\ f.sev >= cmd.threshold
  BY <1>1, <1>2 DEF Fails, GateTriggering, New
<1>4. \A f : f \in kept <=> \E i \in DOMAIN raw :
                               /\ f = Merged(raw, raw[i].fp)
                               /\ ~IsFalsePositive(f, cmd.allowlist, today)
  BY <1>1 DEF Kept, Deduplicated
<1>5. \A i \in DOMAIN raw :
        LET m == Merged(raw, raw[i].fp)
        IN  /\ m.fp = raw[i].fp
            /\ Excused(m.fp) <=> m.fp \in cmd.baseline
                                 \/ IsFalsePositive(m, cmd.allowlist, today)
  BY SuppressedIffExcused, MergedKeepsTheWorst DEF TypeOK
<1>6. ASSUME NEW f \in kept, f.fp \notin cmd.baseline, f.sev >= cmd.threshold
      PROVE  \E i \in DOMAIN raw : raw[i].sev >= cmd.threshold /\ ~Excused(raw[i].fp)
  <2>1. PICK i \in DOMAIN raw : /\ f = Merged(raw, raw[i].fp)
                                /\ ~IsFalsePositive(f, cmd.allowlist, today)
    BY <1>4
  <2>2. ~Excused(raw[i].fp)
    BY <1>5, <1>6, <2>1
  <2>3. PICK j \in Sightings(raw, raw[i].fp) : raw[j].sev = f.sev
    BY <2>1, MergedKeepsTheWorst DEF TypeOK
  <2>4. j \in DOMAIN raw /\ raw[j].fp = raw[i].fp
    BY <2>3 DEF Sightings
  <2> QED
    BY <1>6, <2>2, <2>3, <2>4
<1>7. ASSUME NEW i \in DOMAIN raw, raw[i].sev >= cmd.threshold, ~Excused(raw[i].fp)
      PROVE  \E f \in kept : f.fp \notin cmd.baseline /\ f.sev >= cmd.threshold
  <2> DEFINE m == Merged(raw, raw[i].fp)
  <2>1. m.fp \notin cmd.baseline /\ ~IsFalsePositive(m, cmd.allowlist, today)
    BY <1>5, <1>7
  <2>2. m \in kept
    BY <1>4, <2>1
  <2>3. raw[i].sev <= m.sev /\ m \in Finding /\ raw[i] \in Finding
    <3>1. i \in Sightings(raw, raw[i].fp)
      BY DEF Sightings
    <3> QED
      BY <3>1, MergedKeepsTheWorst DEF TypeOK
  <2>4. cmd.threshold \in Severity
    BY PipelineAssumption DEF TypeOK, CommandLine
  <2>5. m.sev \in Int /\ raw[i].sev \in Int /\ cmd.threshold \in Int
    BY <2>3, <2>4 DEF Finding, Severity
  <2> HIDE DEF m
  <2>6. m.sev >= cmd.threshold
    BY ONLY <1>7, <2>3, <2>5
  <2> QED
    BY <2>1, <2>2, <2>6
<1> QED
  BY <1>3, <1>6, <1>7

\* The threshold gate fails a run exactly when something at or above the
\* threshold was sighted that is not excused.
THEOREM VerdictSound == Spec => []VerdictIsJust
  BY InvHolds, JudgedIsJust, PTL

\* A policy of zero budgets blames exactly the findings the threshold does.
LEMMA ZeroBudgetsAreTheThreshold ==
    ASSUME NEW S \in SUBSET Finding, IsFiniteSet(S), NEW threshold \in Severity,
           NEW minRisk \in Score \cup {None}
    PROVE  LET policy == PolicyFromThreshold(threshold, minRisk)
               gate   == GateTriggering(S, threshold, minRisk)
           IN  /\ PolicyTriggering(S, policy) = gate
               /\ Violations(S, policy) = {} <=> gate = {}
<1> DEFINE policy == PolicyFromThreshold(threshold, minRisk)
           gate == GateTriggering(S, threshold, minRisk)
           Severe == {OfSeverity(S, s) : s \in {t \in Severity :
                         t >= threshold /\ OfSeverity(S, t) # {}}}
           Risky == {f \in S : minRisk # None /\ RiskScore(f) >= minRisk}
<1>1. \A t \in Severity :
         Exceeds(OfSeverity(S, t), policy.maxNew[t])
            <=> t >= threshold /\ OfSeverity(S, t) # {}
  <2> TAKE t \in Severity
  <2>1. IsFiniteSet(OfSeverity(S, t))
    BY FS_Subset DEF OfSeverity
  <2>2. Cardinality(OfSeverity(S, t)) \in Nat
        /\ (Cardinality(OfSeverity(S, t)) = 0 <=> OfSeverity(S, t) = {})
    BY <2>1, FS_CardinalityType, FS_EmptySet
  <2>3. policy.maxNew[t] = IF t >= threshold THEN 0 ELSE None
    BY DEF PolicyFromThreshold
  <2> HIDE DEF policy
  <2> QED
    BY <2>2, <2>3 DEF Exceeds, None
<1>2. policy.maxTotal = None /\ policy.minRisk = minRisk /\ policy.blockKev = FALSE
  BY DEF PolicyFromThreshold
<1>3. Violations(S, policy) = Severe \cup ({Risky} \ {{}})
  <2> HIDE DEF policy
  <2>1. ~Exceeds(S, policy.maxTotal)
    BY <1>2 DEF Exceeds
  <2>2. {f \in S : policy.blockKev /\ f.kev} = {}
    BY <1>2
  <2>3. {f \in S : policy.minRisk # None /\ RiskScore(f) >= policy.minRisk} = Risky
    BY <1>2
  <2>4. {t \in Severity : Exceeds(OfSeverity(S, t), policy.maxNew[t])}
          = {t \in Severity : t >= threshold /\ OfSeverity(S, t) # {}}
    BY <1>1
  <2> HIDE DEF Risky
  <2> QED
    BY <2>1, <2>2, <2>3, <2>4 DEF Violations
<1>4. \A f \in S : f.sev \in Severity
  BY DEF Finding
<1>5. UNION (Severe \cup ({Risky} \ {{}})) = gate
  <2>1. \A f \in gate : \E V \in Severe \cup ({Risky} \ {{}}) : f \in V
    <3> TAKE f \in gate
    <3>1. CASE f.sev >= threshold
      <4>1. f \in OfSeverity(S, f.sev)
        BY DEF OfSeverity, GateTriggering
      <4> QED
        BY <1>4, <3>1, <4>1 DEF GateTriggering
    <3>2. CASE ~(f.sev >= threshold)
      BY <3>2 DEF GateTriggering, Triggers
    <3> QED
      BY <3>1, <3>2
  <2>2. \A V \in Severe \cup ({Risky} \ {{}}) : V \subseteq gate
    <3>1. Risky \subseteq gate
      BY DEF GateTriggering, Triggers
    <3>2. \A t \in Severity : t >= threshold => OfSeverity(S, t) \subseteq gate
      BY DEF GateTriggering, Triggers, OfSeverity
    <3> QED
      BY <3>1, <3>2
  <2> HIDE DEF gate, Severe, Risky
  <2> QED
    BY <2>1, <2>2
<1>6. \A V \in Severe \cup ({Risky} \ {{}}) : V # {}
  OBVIOUS
<1>7. Violations(S, policy) = {} <=> gate = {}
  <2> HIDE DEF gate, Severe, Risky, policy
  <2> QED
    BY <1>3, <1>5, <1>6
<1> QED
  BY <1>3, <1>5, <1>7 DEF PolicyTriggering

\* `scan --fail-on` and `gate --fail-on` cannot disagree on a report.
THEOREM PolicyAgreement == Spec => []PolicyAgrees
<1>1. Inv => PolicyAgrees
  <2> SUFFICES ASSUME Inv
               PROVE  PolicyAgrees
    OBVIOUS
  <2>1. New(kept, cmd.baseline) \in SUBSET Finding /\ IsFiniteSet(New(kept, cmd.baseline))
    BY FS_Subset DEF Inv, TypeOK, New
  <2>2. cmd.threshold \in Severity /\ cmd.minRisk \in Score \cup {None}
    BY PipelineAssumption DEF Inv, TypeOK, CommandLine
  <2> QED
    BY <2>1, <2>2, ZeroBudgetsAreTheThreshold DEF PolicyAgrees
<1> QED
  BY <1>1, InvHolds, PTL

-----------------------------------------------------------------------------
(***************************************************************************)
(* Priority                                                                 *)
(***************************************************************************)
LEMMA SortKeyType ==
    ASSUME NEW f \in Finding
    PROVE  \A k \in 1..6 : SortKey(f)[k] \in Int
<1>1. /\ f.sev \in Int /\ f.cvss \in Int /\ f.epss \in Int /\ f.fp \in Int
      /\ CriticalityOf[f.fp] \in Int
  <2>1. /\ f.sev \in Severity /\ f.cvss \in Score \cup {None}
        /\ f.epss \in Score \cup {None} /\ f.fp \in Fingerprint
    BY DEF Finding
  <2>2. f.fp \in Nat
    BY <2>1, FindingsAssumption
  <2>3. CriticalityOf[f.fp] \in 0..3
    BY <2>1, FindingsAssumption
  <2> QED
    BY <2>1, <2>2, <2>3 DEF Severity, Score, None
<1>2. /\ -f.sev \in Int /\ -f.cvss \in Int /\ -f.epss \in Int
      /\ -CriticalityOf[f.fp] \in Int /\ (IF f.kev THEN -1 ELSE 0) \in Int
  <2>1. \A n \in Int : -n \in Int
    OBVIOUS
  <2>2. (IF f.kev THEN -1 ELSE 0) \in Int
    <3>1. CASE f.kev
      BY <3>1
    <3>2. CASE ~f.kev
      BY <3>2
    <3> QED
      BY <3>1, <3>2
  <2> QED
    BY <1>1, <2>1, <2>2
<1>3. SortKey(f) \in Int \X Int \X Int \X Int \X Int \X Int
  BY <1>1, <1>2 DEF SortKey
<1> HIDE DEF SortKey
<1> QED
  BY <1>3

\* prioritizer._sort_key orders any findings of different fingerprints totally:
\* the order of a report does not depend on the order of the scan.
THEOREM PriorityIsTotal ==
    ASSUME NEW f \in Finding, NEW g \in Finding, NEW h \in Finding
    PROVE  /\ ~Precedes(f, f)
           /\ Precedes(f, g) => ~Precedes(g, f)
           /\ Precedes(f, g) /\ Precedes(g, h) => Precedes(f, h)
           /\ f.fp # g.fp => Precedes(f, g) \/ Precedes(g, f)
<1> DEFINE F == SortKey(f)
           G == SortKey(g)
           H == SortKey(h)
<1>1. \A k \in 1..6 : F[k] \in Int /\ G[k] \in Int /\ H[k] \in Int
  BY SortKeyType
<1>2. F[6] = f.fp /\ G[6] = g.fp
  BY DEF SortKey
<1>def. /\ Precedes(f, f) <=> \E k \in 1..6 : F[k] < F[k] /\ \A j \in 1..(k - 1) : F[j] = F[j]
        /\ Precedes(f, g) <=> \E k \in 1..6 : F[k] < G[k] /\ \A j \in 1..(k - 1) : F[j] = G[j]
        /\ Precedes(g, f) <=> \E k \in 1..6 : G[k] < F[k] /\ \A j \in 1..(k - 1) : G[j] = F[j]
        /\ Precedes(g, h) <=> \E k \in 1..6 : G[k] < H[k] /\ \A j \in 1..(k - 1) : G[j] = H[j]
        /\ Precedes(f, h) <=> \E k \in 1..6 : F[k] < H[k] /\ \A j \in 1..(k - 1) : F[j] = H[j]
  BY DEF Precedes
<1> HIDE DEF F, G, H
<1>3. ~Precedes(f, f)
  BY <1>1, <1>def
<1>4. ASSUME Precedes(f, g), Precedes(g, f)
      PROVE  FALSE
  <2>1. PICK k \in 1..6 : F[k] < G[k] /\ \A j \in 1..(k - 1) : F[j] = G[j]
    BY <1>4, <1>def
  <2>2. PICK l \in 1..6 : G[l] < F[l] /\ \A j \in 1..(l - 1) : G[j] = F[j]
    BY <1>4, <1>def
  <2>3. k = l \/ k \in 1..(l - 1) \/ l \in 1..(k - 1)
    OBVIOUS
  <2> QED
    BY <1>1, <2>1, <2>2, <2>3
<1>5. ASSUME Precedes(f, g), Precedes(g, h)
      PROVE  Precedes(f, h)
  <2>1. PICK k \in 1..6 : F[k] < G[k] /\ \A j \in 1..(k - 1) : F[j] = G[j]
    BY <1>5, <1>def
  <2>2. PICK l \in 1..6 : G[l] < H[l] /\ \A j \in 1..(l - 1) : G[j] = H[j]
    BY <1>5, <1>def
  <2>3. CASE k <= l
    <3>1. F[k] < H[k] /\ \A j \in 1..(k - 1) : F[j] = H[j]
      BY <1>1, <2>1, <2>2, <2>3
    <3> QED
      BY <1>def, <3>1
  <2>4. CASE l < k
    <3>1. F[l] < H[l] /\ \A j \in 1..(l - 1) : F[j] = H[j]
      BY <1>1, <2>1, <2>2, <2>4
    <3> QED
      BY <1>def, <3>1
  <2> QED
    BY <2>3, <2>4
<1>6. ASSUME f.fp # g.fp
      PROVE  Precedes(f, g) \/ Precedes(g, f)
  <2> DEFINE D == {k \in 1..6 : F[k] # G[k]}
  <2>1. D \in SUBSET Nat /\ 6 \in D
    BY <1>2, <1>6
  <2> HIDE DEF D
  <2>2. PICK k \in D : \A j \in D : k <= j
    BY <2>1, MinOfNaturals
  <2>3. k \in 1..6 /\ F[k] # G[k] /\ \A j \in 1..6 : F[j] # G[j] => k <= j
    BY <2>2 DEF D
  <2>4. \A j \in 1..(k - 1) : F[j] = G[j]
    BY <2>3
  <2>5. F[k] < G[k] \/ G[k] < F[k]
    BY <1>1, <2>3
  <2> QED
    BY <1>def, <2>3, <2>4, <2>5
<1> QED
  BY <1>3, <1>4, <1>5, <1>6

=============================================================================
