--------------------------- MODULE BaselineProofs ---------------------------
(***************************************************************************)
(* Proofs about BaselineLifecycle, for any findings, days, deadlines and    *)
(* baseline commands: what a verdict of gate and sla is worth.              *)
(***************************************************************************)
EXTENDS BaselineLifecycle, FiniteSetTheorems, TLAPS

-----------------------------------------------------------------------------
(***************************************************************************)
(* The maps from fingerprints to days                                       *)
(***************************************************************************)
\* The entries are the functions from some of the fingerprints to days.
LEMMA EntriesMembers ==
    ASSUME NEW S \in SUBSET Fingerprint, NEW e \in [S -> Day \cup {None}]
    PROVE  e \in Entries
BY DEF Entries

LEMMA EntriesAre ==
    ASSUME NEW e \in Entries
    PROVE  /\ DOMAIN e \subseteq Fingerprint
           /\ e \in [DOMAIN e -> Day \cup {None}]
BY DEF Entries

LEMMA NoEntriesIsEmpty == NoEntries \in Entries /\ DOMAIN NoEntries = {}
<1>1. NoEntries \in [{} -> Day \cup {None}] /\ DOMAIN NoEntries = {}
  BY DEF NoEntries
<1> QED
  BY <1>1, EntriesMembers

\* What a command writes: the fingerprints it was given, on its day, besides the
\* entries it found, which keep theirs.
LEMMA BuiltEntries ==
    ASSUME NEW fps \in SUBSET Fingerprint, NEW stamp \in Day \cup {None}
    PROVE  /\ BuildBaseline(fps, stamp) \in Entries
           /\ DOMAIN BuildBaseline(fps, stamp) = fps
           /\ \A fp \in fps : BuildBaseline(fps, stamp)[fp] = stamp
<1>1. BuildBaseline(fps, stamp) \in [fps -> Day \cup {None}]
  BY DEF BuildBaseline
<1> QED
  BY <1>1, EntriesMembers DEF BuildBaseline

LEMMA MergedEntries ==
    ASSUME NEW e \in Entries, NEW fps \in SUBSET Fingerprint,
           NEW stamp \in Day \cup {None}
    PROVE  /\ MergeBaseline(e, fps, stamp) \in Entries
           /\ DOMAIN MergeBaseline(e, fps, stamp) = DOMAIN e \cup fps
           /\ \A fp \in DOMAIN e : MergeBaseline(e, fps, stamp)[fp] = e[fp]
           /\ \A fp \in fps \ DOMAIN e : MergeBaseline(e, fps, stamp)[fp] = stamp
<1> DEFINE m == MergeBaseline(e, fps, stamp)
<1>1. e \in [DOMAIN e -> Day \cup {None}] /\ DOMAIN e \cup fps \in SUBSET Fingerprint
  BY EntriesAre
<1>2. /\ DOMAIN m = DOMAIN e \cup fps
      /\ \A fp \in DOMAIN e : m[fp] = e[fp]
      /\ \A fp \in fps \ DOMAIN e : m[fp] = stamp
  BY DEF MergeBaseline
<1>3. m \in [DOMAIN e \cup fps -> Day \cup {None}]
  BY <1>1 DEF MergeBaseline
<1>4. m \in Entries
  BY <1>1, <1>3, EntriesMembers
<1> QED
  BY <1>2, <1>4

\* The fingerprints of a report.
LEMMA FpsOfReport ==
    ASSUME NEW r \in Report
    PROVE  FpsOf(r) \subseteq Fingerprint
BY LifecycleAssumption DEF FpsOf, Finding

-----------------------------------------------------------------------------
(***************************************************************************)
(* The inductive invariant.  TypeOK alone is not inductive: what a command  *)
(* will write is dated and known only because it was when it was read.      *)
(***************************************************************************)
JobRecord == [pc : {"idle", "loaded", "writing", "overlaid"}, fps : SUBSET Fingerprint,
              stamp : Day \cup {None}, built : BOOLEAN, result : Entries]
FileRecord == [state : {"absent", "torn", "whole"}, entries : Entries]
Exit == {Running} \cup [cmd : {"baseline", "gate", "sla"}, code : 0..2]

Shape ==
    /\ day \in Day
    /\ report \in Report
    /\ file \in FileRecord
    /\ job \in [Job -> JobRecord]
    /\ exit \in Exit
    /\ accepted \subseteq Fingerprint
    /\ history \in Entries
    /\ sighted \in [Fingerprint -> Day \cup {None}]

\* What is reported was first reported some day, today at the latest.
Sighted ==
    /\ \A fp \in Fingerprint : sighted[fp] <= day
    /\ \A fp \in FpsOf(report) : sighted[fp] # None

\* No entry is dated before its finding was first reported, or after today.
Honest(e, today, seen) ==
    \A fp \in DOMAIN e : e[fp] # None =>
        e[fp] <= today /\ seen[fp] # None /\ seen[fp] <= e[fp]

AllHonest ==
    /\ Honest(file.entries, day, sighted)
    /\ \A j \in Job : Honest(job[j].result, day, sighted)
    /\ \A j \in Job : job[j].stamp <= day

\* Every entry was given to a command that completed, or to the one that is
\* about to write it.
Accounted ==
    /\ DOMAIN file.entries \subseteq accepted
    /\ \A j \in Job : DOMAIN job[j].result \subseteq accepted \cup job[j].fps

IInv == Shape /\ Sighted /\ AllHonest /\ Accounted

\* The invariant has the type invariant in it.
LEMMA IInvIsTyped == IInv => TypeOK
<1> SUFFICES ASSUME IInv PROVE TypeOK
  OBVIOUS
<1>1. day \in Nat /\ day >= 1
  BY LifecycleAssumption DEF IInv, Shape, Day
<1>2. \A fp \in DOMAIN file.entries : file.entries[fp] <= day
  <2> TAKE fp \in DOMAIN file.entries
  <2>1. CASE file.entries[fp] = None
    BY <1>1, <2>1 DEF None
  <2>2. CASE file.entries[fp] # None
    BY <2>2 DEF IInv, AllHonest, Honest
  <2> QED
    BY <2>1, <2>2
<1>3. \A j \in Job : job[j] \in JobRecord
  BY DEF IInv, Shape
<1>4. \A j \in Job : job[j].stamp \in 1..day \cup {None}
  <2> TAKE j \in Job
  <2>1. job[j].stamp \in Day \cup {None} /\ job[j].stamp <= day
    BY <1>3 DEF JobRecord, IInv, AllHonest
  <2> QED
    BY <1>1, <2>1, LifecycleAssumption DEF Day
<1>5. file \in FileRecord
  BY DEF IInv, Shape
<1> QED
  BY <1>2, <1>3, <1>4, <1>5 DEF IInv, Shape, TypeOK, JobRecord, FileRecord, Exit

\* The days are numbers, and None is before all of them.
LEMMA DaysAreNumbers ==
    /\ Day \subseteq Int /\ None \in Int /\ 1 \in Day
    /\ \A d \in Day : d >= 1 /\ d # None
BY LifecycleAssumption DEF Day, None

LEMMA IInvInit == Init => IInv
<1> SUFFICES ASSUME Init PROVE IInv
  OBVIOUS
<1>1. /\ Idle \in JobRecord /\ Idle.result = NoEntries /\ Idle.stamp = None
      /\ file \in FileRecord /\ file.entries = NoEntries
  BY NoEntriesIsEmpty DEF Init, Idle, JobRecord, FileRecord, File
<1>2. \A j \in Job : job[j] = Idle
  BY DEF Init
<1>3. Shape
  <2>1. job \in [Job -> JobRecord]
    BY <1>1 DEF Init
  <2>2. sighted \in [Fingerprint -> Day \cup {None}]
    BY DaysAreNumbers DEF Init
  <2>3. day \in Day /\ report \in Report /\ exit \in Exit /\ accepted \subseteq Fingerprint
    BY DaysAreNumbers DEF Init, Exit
  <2>4. history \in Entries
    BY NoEntriesIsEmpty DEF Init
  <2> QED
    BY <1>1, <2>1, <2>2, <2>3, <2>4 DEF Shape
<1>4. Sighted
  <2>1. FpsOf(report) \subseteq Fingerprint
    BY FpsOfReport DEF Init
  <2>2. /\ day = 1 /\ None <= 1
        /\ \A fp \in Fingerprint : sighted[fp] = IF fp \in FpsOf(report) THEN 1 ELSE None
    BY DEF Init, None
  <2> QED
    BY <2>1, <2>2 DEF Sighted, None
<1>5. AllHonest
  BY <1>1, <1>2, NoEntriesIsEmpty DEF AllHonest, Honest, Init, None
<1>6. Accounted
  BY <1>1, <1>2, NoEntriesIsEmpty DEF Accounted
<1> QED
  BY <1>3, <1>4, <1>5, <1>6 DEF IInv

-----------------------------------------------------------------------------
(***************************************************************************)
(* The steps                                                                *)
(***************************************************************************)
\* What was honest stays so as days pass and more is reported.
LEMMA HonestLater ==
    ASSUME NEW e \in Entries, NEW today \in Day, NEW later \in Day, today <= later,
           NEW seen, NEW seen2, Honest(e, today, seen),
           \A fp \in Fingerprint : seen[fp] # None => seen2[fp] = seen[fp]
    PROVE  Honest(e, later, seen2)
<1> SUFFICES ASSUME NEW fp \in DOMAIN e, e[fp] # None
             PROVE  e[fp] <= later /\ seen2[fp] # None /\ seen2[fp] <= e[fp]
  BY DEF Honest
<1>1. fp \in Fingerprint /\ e[fp] \in Day
  BY EntriesAre
<1>2. e[fp] <= today /\ seen[fp] # None /\ seen[fp] <= e[fp]
  BY DEF Honest
<1>3. today \in Int /\ later \in Int /\ e[fp] \in Int
  BY <1>1, DaysAreNumbers
<1>4. e[fp] <= later
  BY <1>2, <1>3
<1> QED
  BY <1>1, <1>2, <1>4

\* The typed parts of a state.
LEMMA JobsAreRecords ==
    ASSUME IInv
    PROVE  \A j \in Job : /\ job[j] \in JobRecord
                          /\ job[j].fps \subseteq Fingerprint
                          /\ job[j].stamp \in Day \cup {None}
                          /\ job[j].result \in Entries
BY DEF IInv, Shape, JobRecord

\* A day or a scan alone: the files and the commands keep what they hold.
LEMMA TimeKeeps ==
    ASSUME IInv, day' \in Day, day <= day',
           UNCHANGED <<file, job, accepted, history>>,
           \A fp \in Fingerprint : sighted[fp] # None => sighted'[fp] = sighted[fp]
    PROVE  AllHonest' /\ Accounted'
<1>1. day \in Day /\ file.entries \in Entries
  BY DEF IInv, Shape, FileRecord
<1>2. Honest(file.entries, day', sighted')
  BY <1>1, HonestLater DEF IInv, AllHonest
<1>3. \A j \in Job : Honest(job[j].result, day', sighted')
  BY <1>1, JobsAreRecords, HonestLater DEF IInv, AllHonest
<1>4. \A j \in Job : job[j].stamp <= day'
  <2> TAKE j \in Job
  <2>1. job[j].stamp \in Int /\ day \in Int /\ day' \in Int
    BY <1>1, JobsAreRecords, DaysAreNumbers
  <2>2. job[j].stamp <= day
    BY DEF IInv, AllHonest
  <2> QED
    BY <2>1, <2>2
<1>5. Accounted'
  BY DEF IInv, Accounted
<1> QED
  BY <1>2, <1>3, <1>4, <1>5 DEF AllHonest

LEMMA TomorrowKeeps == IInv /\ Tomorrow => IInv'
<1> SUFFICES ASSUME IInv, Tomorrow PROVE IInv'
  OBVIOUS
<1>1. day \in Int /\ MaxDay \in Int /\ day >= 1
  BY LifecycleAssumption DEF IInv, Shape, Day
<1>2. day' \in Day /\ day <= day'
  BY <1>1 DEF Tomorrow, Day
<1>3. Shape'
  BY <1>2 DEF IInv, Shape, Tomorrow, Exit
<1>4. Sighted'
  <2>1. \A fp \in Fingerprint : sighted[fp] \in Int
    BY DaysAreNumbers DEF IInv, Shape
  <2> QED
    BY <1>1, <1>2, <2>1, DaysAreNumbers DEF IInv, Sighted, Tomorrow
<1> QED
  BY <1>2, <1>3, <1>4, TimeKeeps DEF IInv, Tomorrow

LEMMA ScanKeeps == IInv /\ Scan => IInv'
<1> SUFFICES ASSUME IInv, Scan PROVE IInv'
  OBVIOUS
<1>1. day \in Day /\ day' = day /\ day <= day
  BY DaysAreNumbers DEF IInv, Shape, Scan
<1>2. report' \in Report /\ FpsOf(report') \subseteq Fingerprint
  BY FpsOfReport DEF Scan
<1>3. sighted' \in [Fingerprint -> Day \cup {None}]
  BY <1>1 DEF IInv, Shape, Scan
<1>4. Shape'
  BY <1>1, <1>2, <1>3 DEF IInv, Shape, Scan, Exit
<1>5. Sighted'
  <2>1. \A fp \in Fingerprint : sighted'[fp] <= day
    BY <1>1 DEF IInv, Sighted, Scan
  <2>2. \A fp \in FpsOf(report') : sighted'[fp] # None
    BY <1>1, <1>2, DaysAreNumbers DEF Scan
  <2> QED
    BY <1>1, <2>1, <2>2 DEF Sighted
<1>6. \A fp \in Fingerprint : sighted[fp] # None => sighted'[fp] = sighted[fp]
  BY DEF Scan
<1> QED
  BY <1>1, <1>4, <1>5, <1>6, TimeKeeps DEF IInv, Scan

\* The commands' steps: today and what was reported are as they were.
LEMMA SameDayKeeps ==
    ASSUME IInv, UNCHANGED <<day, report, sighted>>,
           file' \in FileRecord, job' \in [Job -> JobRecord], exit' \in Exit,
           accepted \subseteq accepted', accepted' \subseteq Fingerprint,
           history' \in Entries,
           Honest(file'.entries, day, sighted),
           DOMAIN file'.entries \subseteq accepted',
           \A j \in Job : /\ Honest(job'[j].result, day, sighted)
                          /\ job'[j].stamp <= day
                          /\ DOMAIN job'[j].result \subseteq accepted' \cup job'[j].fps
    PROVE  IInv'
<1>1. Shape'
  BY DEF IInv, Shape
<1>2. Sighted'
  BY DEF IInv, Sighted
<1>3. AllHonest'
  BY DEF AllHonest
<1>4. Accounted'
  BY DEF Accounted
<1> QED
  BY <1>1, <1>2, <1>3, <1>4 DEF IInv

\* An empty baseline is honest, and so is an idle command.
LEMMA NothingIsHonest ==
    ASSUME IInv
    PROVE  /\ File("absent", NoEntries) \in FileRecord
           /\ File("torn", NoEntries) \in FileRecord
           /\ Idle \in JobRecord /\ Idle.stamp <= day
           /\ Honest(NoEntries, day, sighted) /\ DOMAIN NoEntries = {}
           /\ Idle.result = NoEntries
<1>1. day \in Int /\ day >= 1
  BY LifecycleAssumption DEF IInv, Shape, Day
<1> QED
  BY <1>1, NoEntriesIsEmpty DEF FileRecord, File, Idle, JobRecord, Honest, None

\* What the commands hold, as IInv has it.
LEMMA JobsAreHonest ==
    ASSUME IInv
    PROVE  \A j \in Job : /\ Honest(job[j].result, day, sighted)
                          /\ job[j].stamp <= day
                          /\ DOMAIN job[j].result \subseteq accepted \cup job[j].fps
BY DEF IInv, AllHonest, Accounted

LEMMA RemoveKeeps == IInv /\ Remove => IInv'
<1> SUFFICES ASSUME IInv, Remove PROVE IInv'
  OBVIOUS
<1>1. /\ job' = job /\ accepted' = accepted /\ history' = history
      /\ UNCHANGED <<day, report, sighted>> /\ exit' \in Exit
      /\ file' = File("absent", NoEntries)
  BY DEF Remove, Exit
<1>2. file'.entries = NoEntries
  BY <1>1 DEF File
<1>3. job \in [Job -> JobRecord] /\ accepted \subseteq Fingerprint /\ history \in Entries
  BY DEF IInv, Shape
<1> QED
  BY <1>1, <1>2, <1>3, NothingIsHonest, JobsAreHonest, SameDayKeeps

LEMMA KillKeeps == ASSUME NEW j \in Job PROVE IInv /\ Kill(j) => IInv'
<1> SUFFICES ASSUME IInv, Kill(j) PROVE IInv'
  OBVIOUS
<1>1. /\ file' = file /\ accepted' = accepted /\ history' = history
      /\ UNCHANGED <<day, report, sighted>> /\ exit' \in Exit
      /\ job' = [job EXCEPT ![j] = Idle]
  BY DEF Kill, Exit
<1>2. /\ job \in [Job -> JobRecord] /\ accepted \subseteq Fingerprint
      /\ history \in Entries /\ file \in FileRecord
      /\ Honest(file.entries, day, sighted) /\ DOMAIN file.entries \subseteq accepted
  BY DEF IInv, Shape, AllHonest, Accounted
<1>3. job' \in [Job -> JobRecord]
  BY <1>1, <1>2, NothingIsHonest
<1>4. \A k \in Job : job'[k] = IF k = j THEN Idle ELSE job[k]
  BY <1>1, <1>2
<1> HIDE DEF IInv
<1>5. \A k \in Job : /\ Honest(job'[k].result, day, sighted)
                     /\ job'[k].stamp <= day
                     /\ DOMAIN job'[k].result \subseteq accepted' \cup job'[k].fps
  BY <1>1, <1>4, NothingIsHonest, JobsAreHonest
<1> QED
  BY <1>1, <1>2, <1>3, <1>5, SameDayKeeps

LEMMA TruncateKeeps == ASSUME NEW j \in Job PROVE IInv /\ Truncate(j) => IInv'
<1> SUFFICES ASSUME IInv, Truncate(j) PROVE IInv'
  OBVIOUS
<1>1. /\ accepted' = accepted /\ history' = history
      /\ UNCHANGED <<day, report, sighted>> /\ exit' \in Exit
      /\ file' = File("torn", NoEntries) /\ file'.entries = NoEntries
  BY DEF Truncate, Exit, File
<1>2. accepted \subseteq Fingerprint /\ history \in Entries
  BY DEF IInv, Shape
<1>3. \A k \in Job : /\ job'[k] \in JobRecord
                     /\ job'[k].result = job[k].result
                     /\ job'[k].fps = job[k].fps
                     /\ job'[k].stamp = job[k].stamp
  <2> TAKE k \in Job
  <2>1. job[k] \in JobRecord
    BY JobsAreRecords
  <2>2. job'[k] = job[k] \/ job'[k] = [job[k] EXCEPT !.pc = "writing"]
    BY DEF Truncate
  <2> QED
    BY <2>1, <2>2 DEF JobRecord
<1>4. job' \in [Job -> JobRecord]
  BY <1>3 DEF Truncate
<1> QED
  BY <1>1, <1>2, <1>3, <1>4, NothingIsHonest, JobsAreHonest, SameDayKeeps

LEMMA VerdictKeeps ==
    ASSUME IInv, UNCHANGED <<day, report, file, job, accepted, history, sighted>>,
           exit' \in Exit
    PROVE  IInv'
BY DEF IInv, Shape, Sighted, AllHonest, Accounted

LEMMA GateKeeps == IInv /\ Gate => IInv'
BY VerdictKeeps DEF Gate, Judgement, Ended, Exit

LEMMA SlaKeeps == IInv /\ Sla => IInv'
BY VerdictKeeps DEF Sla, Judgement, Ended, Exit

\* An honest baseline, merged with what is reported today, is honest.
LEMMA MergedIsHonest ==
    ASSUME NEW e \in Entries, NEW fps \in SUBSET Fingerprint,
           NEW stamp \in Day \cup {None}, NEW today \in Day, NEW seen,
           Honest(e, today, seen), stamp # None => stamp = today, stamp <= today,
           \A fp \in fps : seen[fp] # None /\ seen[fp] <= today
    PROVE  Honest(MergeBaseline(e, fps, stamp), today, seen)
<1> DEFINE m == MergeBaseline(e, fps, stamp)
<1>1. /\ DOMAIN m = DOMAIN e \cup fps
      /\ \A fp \in DOMAIN e : m[fp] = e[fp]
      /\ \A fp \in fps \ DOMAIN e : m[fp] = stamp
  BY DEF MergeBaseline
<1> HIDE DEF m
<1> SUFFICES ASSUME NEW fp \in DOMAIN m, m[fp] # None
             PROVE  m[fp] <= today /\ seen[fp] # None /\ seen[fp] <= m[fp]
  BY DEF Honest, m
<1>2. CASE fp \in DOMAIN e
  BY <1>1, <1>2 DEF Honest
<1>3. CASE fp \notin DOMAIN e
  BY <1>1, <1>3
<1> QED
  BY <1>2, <1>3

\* What a command reads of a report and a baseline is honest.
LEMMA LoadKeeps ==
    ASSUME NEW j \in Job, NEW update \in BOOLEAN, NEW trackAge \in BOOLEAN
    PROVE  IInv /\ Load(j, update, trackAge) => IInv'
<1> SUFFICES ASSUME IInv, Load(j, update, trackAge) PROVE IInv'
  OBVIOUS
<1> DEFINE fps == FpsOf(report)
           stamp == Stamp(trackAge)
           merge == update /\ file.state # "absent"
           read == [pc |-> "loaded", fps |-> fps, stamp |-> stamp, built |-> ~merge,
                    result |-> IF merge THEN MergeBaseline(file.entries, fps, stamp)
                                        ELSE BuildBaseline(fps, stamp)]
<1>1. /\ file' = file /\ accepted' = accepted /\ history' = history
      /\ UNCHANGED <<day, report, sighted>>
      /\ exit' \in Exit
      /\ job' = job \/ job' = [job EXCEPT ![j] = read]
  BY DEF Load, Exit, Ended
<1>2. /\ job \in [Job -> JobRecord] /\ accepted \subseteq Fingerprint
      /\ history \in Entries /\ file \in FileRecord /\ file.entries \in Entries
      /\ Honest(file.entries, day, sighted) /\ DOMAIN file.entries \subseteq accepted
      /\ report \in Report /\ day \in Day
  BY DEF IInv, Shape, AllHonest, Accounted, FileRecord
<1>3. fps \subseteq Fingerprint
  BY <1>2, FpsOfReport
<1>4. stamp \in Day \cup {None} /\ (stamp # None => stamp = day) /\ stamp <= day
  BY <1>2, DaysAreNumbers DEF Stamp, None
<1>5. \A fp \in fps : sighted[fp] # None /\ sighted[fp] <= day
  BY <1>3 DEF IInv, Sighted
<1> HIDE DEF fps, stamp
<1>6. LET b == BuildBaseline(fps, stamp)
      IN  b \in Entries /\ Honest(b, day, sighted) /\ DOMAIN b = fps
  BY <1>3, <1>4, <1>5, BuiltEntries DEF Honest
<1>7. LET m == MergeBaseline(file.entries, fps, stamp)
      IN  /\ m \in Entries /\ Honest(m, day, sighted)
          /\ DOMAIN m \subseteq accepted \cup fps
  <2>1. fps \in SUBSET Fingerprint
    BY <1>3
  <2>2. Honest(MergeBaseline(file.entries, fps, stamp), day, sighted)
    BY <1>2, <1>4, <1>5, <2>1, MergedIsHonest
  <2>3. MergeBaseline(file.entries, fps, stamp) \in Entries
    BY <1>2, <1>4, <2>1, MergedEntries, Zenon
  <2>4. DOMAIN MergeBaseline(file.entries, fps, stamp) = DOMAIN file.entries \cup fps
    BY DEF MergeBaseline
  <2> QED
    BY <1>2, <2>2, <2>3, <2>4
<1>8. /\ read \in JobRecord /\ Honest(read.result, day, sighted) /\ read.stamp <= day
      /\ DOMAIN read.result \subseteq accepted \cup read.fps
  <2>1. CASE merge
    BY <1>3, <1>4, <1>7, <2>1 DEF JobRecord
  <2>2. CASE ~merge
    BY <1>3, <1>4, <1>6, <2>2 DEF JobRecord
  <2> QED
    BY <2>1, <2>2
<1> HIDE DEF read
<1>9. \A k \in Job : job'[k] = job[k] \/ job'[k] = read
  BY <1>1, <1>2
<1>10. job' \in [Job -> JobRecord]
  BY <1>1, <1>2, <1>8
<1>11. \A k \in Job : /\ Honest(job'[k].result, day, sighted)
                      /\ job'[k].stamp <= day
                      /\ DOMAIN job'[k].result \subseteq accepted' \cup job'[k].fps
  BY <1>1, <1>8, <1>9, JobsAreHonest
<1> QED
  BY <1>1, <1>2, <1>10, <1>11, SameDayKeeps

LEMMA SaveKeeps == ASSUME NEW j \in Job PROVE IInv /\ Save(j) => IInv'
<1> SUFFICES ASSUME IInv, Save(j) PROVE IInv'
  OBVIOUS
<1>1. /\ UNCHANGED <<day, report, sighted>> /\ exit' \in Exit
      /\ accepted' = accepted \cup job[j].fps
  BY DEF Save, Exit, Ended
<1>2. job[j].fps \subseteq Fingerprint /\ job[j].result \in Entries
      /\ job[j].stamp \in Day \cup {None}
  BY JobsAreRecords
<1>3. /\ job \in [Job -> JobRecord] /\ accepted \subseteq Fingerprint
      /\ history \in Entries
  BY DEF IInv, Shape
<1>4. accepted \subseteq accepted' /\ accepted' \subseteq Fingerprint
  BY <1>1, <1>2, <1>3
<1>5. file' = File("torn", NoEntries) \/ file' = File("whole", job[j].result)
  BY DEF Save
<1>6. /\ file' \in FileRecord
      /\ Honest(file'.entries, day, sighted)
      /\ DOMAIN file'.entries \subseteq accepted'
  <2>1. CASE file' = File("torn", NoEntries)
    <3>1. file'.entries = NoEntries
      BY <2>1 DEF File
    <3> QED
      BY <2>1, <3>1, NothingIsHonest
  <2>2. CASE file' = File("whole", job[j].result)
    <3>1. file'.entries = job[j].result
      BY <2>2 DEF File
    <3>2. file' \in FileRecord
      BY <1>2, <2>2 DEF File, FileRecord
    <3> QED
      BY <1>1, <3>1, <3>2, JobsAreHonest
  <2> QED
    BY <1>5, <2>1, <2>2
<1>7. history' \in Entries
  <2>1. CASE job[j].built
    BY <1>2, <2>1, BuiltEntries DEF Save
  <2>2. CASE ~job[j].built
    <3>1. history' = MergeBaseline(history, job[j].fps, job[j].stamp)
      BY <2>2 DEF Save, MergeBaseline
    <3> QED
      BY <1>2, <1>3, <3>1, MergedEntries
  <2> QED
    BY <2>1, <2>2
<1>8. \A k \in Job : /\ job'[k] \in JobRecord
                     /\ Honest(job'[k].result, day, sighted)
                     /\ job'[k].stamp <= day
                     /\ DOMAIN job'[k].result \subseteq accepted' \cup job'[k].fps
  <2> TAKE k \in Job
  <2>1. job'[k] = Idle \/ job'[k] = job[k] \/ job'[k] = [job[k] EXCEPT !.pc = "overlaid"]
    BY DEF Save
  <2>2. CASE job'[k] = Idle
    BY <2>2, NothingIsHonest
  <2>3. CASE job'[k] = job[k] \/ job'[k] = [job[k] EXCEPT !.pc = "overlaid"]
    <3>1. /\ job'[k] \in JobRecord /\ job'[k].result = job[k].result
          /\ job'[k].fps = job[k].fps /\ job'[k].stamp = job[k].stamp
      <4>1. job[k] \in JobRecord
        BY JobsAreRecords
      <4> QED
        BY <2>3, <4>1 DEF JobRecord
    <3>2. /\ Honest(job[k].result, day, sighted) /\ job[k].stamp <= day
          /\ DOMAIN job[k].result \subseteq accepted \cup job[k].fps
      BY JobsAreHonest
    <3> QED
      BY <1>4, <3>1, <3>2
  <2> QED
    BY <2>1, <2>2, <2>3
<1>9. job' \in [Job -> JobRecord]
  BY <1>8 DEF Save
<1> QED
  BY <1>1, <1>4, <1>6, <1>7, <1>8, <1>9, SameDayKeeps

LEMMA IInvStep == IInv /\ [Next]_vars => IInv'
<1> SUFFICES ASSUME IInv, [Next]_vars PROVE IInv'
  OBVIOUS
<1>1. CASE UNCHANGED vars
  BY <1>1, VerdictKeeps DEF vars, IInv, Shape
<1>2. ASSUME NEW j \in Job, \E update, trackAge \in BOOLEAN : Load(j, update, trackAge)
      PROVE  IInv'
  BY <1>2, LoadKeeps
<1> QED
  BY <1>1, <1>2, TomorrowKeeps, ScanKeeps, RemoveKeeps, TruncateKeeps, SaveKeeps,
     KillKeeps, GateKeeps, SlaKeeps DEF Next

\* The inductive invariant holds.
THEOREM IInvHolds == Spec => []IInv
BY IInvInit, IInvStep, PTL DEF Spec

\* Every variable has its type; no entry is dated after today.
THEOREM TypeCorrect == Spec => []TypeOK
BY IInvHolds, IInvIsTyped, PTL

-----------------------------------------------------------------------------
(***************************************************************************)
(* The verdicts.  Only the verdict's own step sets its exit code, and any   *)
(* later step replaces it.                                                  *)
(***************************************************************************)
\* Without violations of the threshold, every severe finding is accounted for.
LEMMA NoViolationNoSevere ==
    ASSUME NEW S, S \subseteq Finding, IsFiniteSet(S),
           Violations(S, PolicyFromThreshold(Threshold, None)) = {}
    PROVE  \A f \in S : ~(f.sev >= Threshold)
<1> DEFINE policy == PolicyFromThreshold(Threshold, None)
<1> SUFFICES ASSUME NEW f \in S, f.sev >= Threshold PROVE FALSE
  OBVIOUS
<1>1. f.sev \in Severity /\ Threshold \in Severity
  BY LifecycleAssumption DEF Finding
<1>2. f \in OfSeverity(S, f.sev) /\ IsFiniteSet(OfSeverity(S, f.sev))
  BY FS_Subset DEF OfSeverity
<1>3. Cardinality(OfSeverity(S, f.sev)) \in Nat /\ Cardinality(OfSeverity(S, f.sev)) # 0
  BY <1>2, FS_CardinalityType, FS_EmptySet
<1>4. policy.maxNew[f.sev] = 0
  BY <1>1 DEF PolicyFromThreshold
<1> HIDE DEF policy
<1>5. Exceeds(OfSeverity(S, f.sev), policy.maxNew[f.sev])
  BY <1>3, <1>4 DEF Exceeds, None
<1>6. OfSeverity(S, f.sev) \in Violations(S, policy)
  BY <1>1, <1>5 DEF Violations
<1> QED
  BY <1>6 DEF policy

LEMMA PassingGateIsTrue == IInv /\ Gate => GatePassIsTrue'
<1> SUFFICES ASSUME IInv, Gate, exit' = Ended("gate", 0)
             PROVE  /\ file.state = "whole"
                    /\ \A f \in report : f.sev >= Threshold => f.fp \in accepted
  BY DEF GatePassIsTrue, Gate
<1> DEFINE new == New(report, DOMAIN file.entries)
<1>1. Loads /\ Violations(new, PolicyFromThreshold(Threshold, None)) = {}
  BY DEF Gate, Judgement, Ended
<1>2. report \subseteq Finding /\ IsFiniteSet(report)
  BY LifecycleAssumption DEF IInv, Shape
<1>3. new \subseteq Finding /\ IsFiniteSet(new)
  BY <1>2, FS_Subset DEF New
<1>4. \A f \in new : ~(f.sev >= Threshold)
  <2> HIDE DEF new
  <2> QED
    BY <1>1, <1>3, NoViolationNoSevere
<1>5. DOMAIN file.entries \subseteq accepted
  BY DEF IInv, Accounted
<1> QED
  BY <1>1, <1>4, <1>5 DEF Loads, New

LEMMA FailingSlaIsTrue == IInv /\ Sla => SlaFailIsTrue'
<1> SUFFICES ASSUME IInv, Sla, exit' = Ended("sla", 1) PROVE Overdue(sighted) # {}
  BY DEF SlaFailIsTrue, Sla, Overdue
<1>1. PICK f \in report : Breaches(f, FirstSeen(f.fp))
  BY DEF Sla, Judgement, Ended
<1>2. f \in Finding /\ f.fp \in FpsOf(report) /\ f.fp \in Fingerprint /\ f.sev \in Severity
  BY LifecycleAssumption DEF IInv, Shape, FpsOf, Finding
<1>3. /\ f.fp \in DOMAIN file.entries /\ file.entries[f.fp] # None
      /\ DeadlineOf[f.sev] # None
      /\ day - file.entries[f.fp] > DeadlineOf[f.sev]
  BY <1>1 DEF Breaches, FirstSeen
<1>4. sighted[f.fp] # None /\ sighted[f.fp] <= file.entries[f.fp]
  BY <1>3 DEF IInv, AllHonest, Honest
<1>5. /\ DeadlineOf[f.sev] \in Nat /\ sighted[f.fp] \in Int /\ day \in Int
      /\ file.entries[f.fp] \in Int
  <2>1. DeadlineOf[f.sev] \in Nat
    BY <1>2, <1>3, LifecycleAssumption
  <2>2. file.entries \in Entries /\ day \in Day /\ sighted[f.fp] \in Day \cup {None}
    BY <1>2 DEF IInv, Shape, FileRecord
  <2> QED
    BY <1>3, <2>1, <2>2, EntriesAre, DaysAreNumbers
<1>6. DeadlineOf[f.sev] \in 0..(day - sighted[f.fp] - 1)
  BY <1>3, <1>4, <1>5
<1>7. f.fp \in DOMAIN sighted
  BY <1>2 DEF IInv, Shape
<1> QED
  BY <1>4, <1>6, <1>7 DEF Overdue

\* Every step but a verdict's own leaves no verdict behind.
LEMMA OtherStepsEndNoVerdict ==
    ASSUME [Next]_vars, ~Gate, ~Sla, ~UNCHANGED vars
    PROVE  exit' = Running \/ \E code \in 0..2 : exit' = Ended("baseline", code)
<1>1. CASE Tomorrow \/ Scan \/ Remove
  BY <1>1 DEF Tomorrow, Scan, Remove
<1>2. ASSUME NEW j \in Job, NEW update \in BOOLEAN, NEW trackAge \in BOOLEAN,
             Load(j, update, trackAge)
      PROVE  exit' = Running \/ exit' = Ended("baseline", 2)
  BY <1>2 DEF Load
<1>3. ASSUME NEW j \in Job, Truncate(j) \/ Save(j) \/ Kill(j)
      PROVE  exit' = Running \/ exit' = Ended("baseline", 0)
  BY <1>3 DEF Truncate, Save, Kill
<1> QED
  BY <1>1, <1>2, <1>3 DEF Next

LEMMA VerdictsStep ==
    IInv /\ GatePassIsTrue /\ SlaFailIsTrue /\ [Next]_vars
        => GatePassIsTrue' /\ SlaFailIsTrue'
<1> SUFFICES ASSUME IInv, GatePassIsTrue, SlaFailIsTrue, [Next]_vars
             PROVE  GatePassIsTrue' /\ SlaFailIsTrue'
  OBVIOUS
<1>1. CASE UNCHANGED vars
  BY <1>1 DEF vars, GatePassIsTrue, SlaFailIsTrue, Overdue
<1>2. CASE Gate
  BY <1>2, PassingGateIsTrue DEF Gate, Judgement, Ended, SlaFailIsTrue
<1>3. CASE Sla
  BY <1>3, FailingSlaIsTrue DEF Sla, Judgement, Ended, GatePassIsTrue
<1>4. CASE ~Gate /\ ~Sla /\ ~UNCHANGED vars
  BY <1>4, OtherStepsEndNoVerdict DEF GatePassIsTrue, SlaFailIsTrue, Running, Ended
<1> QED
  BY <1>1, <1>2, <1>3, <1>4

LEMMA VerdictsInit == Init => GatePassIsTrue /\ SlaFailIsTrue
BY DEF Init, Running, Ended, GatePassIsTrue, SlaFailIsTrue

\* A gate that passes read a whole baseline, in which every severe finding of
\* the report was put by a command that completed: for any number of baseline
\* commands, however they overlap and wherever they are killed.
THEOREM PassingGate == Spec => []GatePassIsTrue
BY IInvHolds, VerdictsInit, VerdictsStep, PTL DEF Spec

\* An SLA check that fails is never unjust: some finding of the report was first
\* reported more days ago than its severity is given.
THEOREM FailingSla == Spec => []SlaFailIsTrue
BY IInvHolds, VerdictsInit, VerdictsStep, PTL DEF Spec

-----------------------------------------------------------------------------
(***************************************************************************)
(* Commands one at a time.  The history is what the file says whenever it   *)
(* says anything, and a command at work will write what the history becomes.*)
(* Two commands at work break this: the later write undoes the earlier.     *)
(***************************************************************************)
Alone == \A j, k \in AtWork : j = k

\* The command at work has read the baseline that is there, or none.
AtWorkIs(j) ==
    /\ job[j].pc \in {"loaded", "writing"}
    /\ job[j].result = IF job[j].built
                       THEN BuildBaseline(job[j].fps, job[j].stamp)
                       ELSE MergeBaseline(history, job[j].fps, job[j].stamp)
    /\ job[j].pc = "loaded" /\ ~job[j].built => file.state = "whole"
    /\ job[j].pc = "writing" => file = File("torn", NoEntries)

FileAgrees ==
    /\ file.state = "whole" => file.entries = history
    /\ file.state # "whole" => file.entries = NoEntries

Serial == Alone /\ FileAgrees /\ \A j \in AtWork : AtWorkIs(j)

LEMMA SerialInit == Init => Serial
BY DEF Init, Serial, Alone, FileAgrees, AtWork, Idle, File

LEMMA LoadStartsAlone ==
    ASSUME Parallel <= 1, Cardinality(AtWork) < Parallel
    PROVE  AtWork = {}
<1>1. IsFiniteSet(AtWork)
  BY LifecycleAssumption, FS_Subset DEF AtWork
<1>2. Cardinality(AtWork) \in Nat
  BY <1>1, FS_CardinalityType
<1>3. Cardinality(AtWork) = 0
  BY <1>2, LifecycleAssumption
<1> QED
  BY <1>1, <1>3, FS_EmptySet

\* A step that leaves the files and the commands alone.
LEMMA SerialIdle ==
    ASSUME Serial, UNCHANGED <<file, job, history>>
    PROVE  Serial'
BY DEF Serial, Alone, FileAgrees, AtWork, AtWorkIs

LEMMA SerialRemove == Serial /\ Remove => Serial'
<1> SUFFICES ASSUME Serial, Remove PROVE Serial'
  OBVIOUS
<1>1. AtWork' = {}
  BY DEF Remove, AtWork
<1>2. file'.state = "absent" /\ file'.entries = NoEntries
  BY DEF Remove, File
<1> QED
  BY <1>1, <1>2 DEF Serial, Alone, FileAgrees

LEMMA SerialLoad ==
    ASSUME Parallel <= 1, IInv, Serial,
           NEW j \in Job, NEW update \in BOOLEAN, NEW trackAge \in BOOLEAN,
           Load(j, update, trackAge)
    PROVE  Serial'
<1> DEFINE fps == FpsOf(report)
           stamp == Stamp(trackAge)
           merge == update /\ file.state # "absent"
           read == [pc |-> "loaded", fps |-> fps, stamp |-> stamp, built |-> ~merge,
                    result |-> IF merge THEN MergeBaseline(file.entries, fps, stamp)
                                        ELSE BuildBaseline(fps, stamp)]
<1>1. AtWork = {} /\ UNCHANGED <<file, history>>
  BY LoadStartsAlone DEF Load
<1>2. CASE UNCHANGED job
  BY <1>1, <1>2, SerialIdle
<1>3. CASE ~UNCHANGED job
  <2>1. job' = [job EXCEPT ![j] = read] /\ ~(merge /\ file.state = "torn")
    BY <1>3 DEF Load
  <2>2. job \in [Job -> JobRecord] /\ file \in FileRecord
    BY DEF IInv, Shape
  <2>3. job'[j] = read /\ \A k \in Job : k # j => job'[k] = job[k]
    BY <2>1, <2>2
  <2>4. AtWork' \subseteq {j}
    BY <1>1, <2>3 DEF AtWork
  <2>5. merge => file.state = "whole" /\ file.entries = history
    BY <2>1, <2>2 DEF FileRecord, Serial, FileAgrees
  <2>6. AtWorkIs(j)'
    <3>1. /\ read.pc = "loaded" /\ read.fps = fps /\ read.stamp = stamp
          /\ read.built = ~merge
          /\ read.result = IF merge THEN MergeBaseline(file.entries, fps, stamp)
                                    ELSE BuildBaseline(fps, stamp)
      OBVIOUS
    <3> HIDE DEF read, fps, stamp, merge
    <3> QED
      BY <1>1, <2>3, <2>5, <3>1 DEF AtWorkIs
  <2> QED
    BY <1>1, <2>4, <2>6 DEF Serial, Alone, FileAgrees
<1> QED
  BY <1>2, <1>3

\* The command at work is the only one.
LEMMA OneAtWork ==
    ASSUME Serial, NEW j \in Job, job[j].pc # "idle"
    PROVE  AtWorkIs(j) /\ \A k \in Job : k # j => job[k].pc = "idle"
BY DEF Serial, Alone, AtWork

LEMMA SerialTruncate ==
    ASSUME IInv, Serial, NEW j \in Job, Truncate(j)
    PROVE  Serial'
<1>1. AtWorkIs(j) /\ \A k \in Job : k # j => job[k].pc = "idle"
  BY OneAtWork DEF Truncate
<1>2. job[j] \in JobRecord
  BY JobsAreRecords
<1>3. \A k \in Job : k # j => job'[k] = job[k]
  BY <1>1 DEF Truncate
<1>4. /\ job'[j].pc = "writing" /\ job'[j].fps = job[j].fps
      /\ job'[j].stamp = job[j].stamp /\ job'[j].built = job[j].built
      /\ job'[j].result = job[j].result
  BY <1>2 DEF Truncate, JobRecord
<1>5. AtWork' \subseteq {j}
  BY <1>1, <1>3 DEF AtWork
<1>6. history' = history /\ file' = File("torn", NoEntries)
  BY DEF Truncate
<1>7. AtWorkIs(j)'
  BY <1>1, <1>4, <1>6 DEF AtWorkIs
<1>8. FileAgrees'
  BY <1>6 DEF FileAgrees, File
<1> QED
  BY <1>5, <1>7, <1>8 DEF Serial, Alone

LEMMA SerialSave ==
    ASSUME IInv, Serial, NEW j \in Job, Save(j)
    PROVE  /\ Serial' /\ AtWork' = {}
           /\ job[j].pc = "writing" /\ file' = File("whole", job[j].result)
<1>1. AtWorkIs(j) /\ \A k \in Job : k # j => job[k].pc = "idle"
  BY OneAtWork DEF Save
<1>2. job[j].pc = "writing"
  BY <1>1 DEF AtWorkIs, Save
<1>3. file' = File("whole", job[j].result)
  BY <1>2 DEF Save
<1>4. \A k \in Job : job'[k].pc = "idle"
  <2> TAKE k \in Job
  <2>1. CASE k = j
    BY <2>1 DEF Save, Idle
  <2>2. CASE k # j
    <3>1. job[k].pc = "idle"
      BY <1>1, <2>2
    <3>2. job'[k] = job[k]
      BY <2>2, <3>1 DEF Save
    <3> QED
      BY <3>1, <3>2
  <2> QED
    BY <2>1, <2>2
<1>5. AtWork' = {}
  BY <1>4 DEF AtWork
<1>6. job[j].result = history'
  BY <1>1 DEF AtWorkIs, Save, MergeBaseline
<1> QED
  BY <1>2, <1>3, <1>5, <1>6 DEF Serial, Alone, FileAgrees, File

LEMMA SerialKill ==
    ASSUME IInv, Serial, NEW j \in Job, Kill(j)
    PROVE  Serial' /\ AtWork' = {}
<1>1. \A k \in Job : k # j => job[k].pc = "idle"
  BY OneAtWork DEF Kill
<1>2. \A k \in Job : job'[k].pc = "idle"
  BY <1>1 DEF Kill, Idle, IInv, Shape
<1>3. AtWork' = {}
  BY <1>2 DEF AtWork
<1>4. FileAgrees'
  BY DEF Serial, FileAgrees, Kill
<1> QED
  BY <1>3, <1>4 DEF Serial, Alone

LEMMA SerialStep ==
    ASSUME Parallel <= 1, IInv, Serial, [Next]_vars
    PROVE  Serial'
<1>1. CASE Tomorrow \/ Scan \/ Gate \/ Sla \/ UNCHANGED vars
  BY <1>1, SerialIdle DEF Tomorrow, Scan, Gate, Sla, vars
<1>2. ASSUME NEW j \in Job, \E update, trackAge \in BOOLEAN : Load(j, update, trackAge)
      PROVE  Serial'
  BY <1>2, SerialLoad
<1> QED
  BY <1>1, <1>2, SerialRemove, SerialTruncate, SerialSave, SerialKill DEF Next

LEMMA SerialHolds == Parallel <= 1 /\ Spec => [](IInv /\ Serial)
<1> SUFFICES ASSUME Parallel <= 1 PROVE Spec => [](IInv /\ Serial)
  OBVIOUS
<1>1. IInv /\ Serial /\ [Next]_vars => Serial'
  BY SerialStep
<1> QED
  BY <1>1, IInvHolds, SerialInit, PTL DEF Spec

\* What is overdue by the history is overdue by the file that agrees with it.
LEMMA PassingSlaIsTrue == IInv /\ Serial /\ Sla => SlaPassIsTrue'
<1> SUFFICES ASSUME IInv, Serial, Sla, exit' = Ended("sla", 0)
             PROVE  Overdue(history) = {}
  BY DEF SlaPassIsTrue, Sla, Overdue
<1>1. Loads /\ \A f \in report : ~Breaches(f, FirstSeen(f.fp))
  BY DEF Sla, Judgement, Ended
<1>2. file.entries = history
  BY <1>1 DEF Loads, Serial, FileAgrees
<1> SUFFICES ASSUME NEW f \in report, f.fp \in DOMAIN history, history[f.fp] # None,
                    DeadlineOf[f.sev] \in 0..(day - history[f.fp] - 1)
             PROVE  FALSE
  BY DEF Overdue
<1>3. history[f.fp] \in Int /\ day \in Int
  BY EntriesAre, DaysAreNumbers DEF IInv, Shape
<1>4. DeadlineOf[f.sev] # None /\ day - history[f.fp] > DeadlineOf[f.sev]
  BY <1>3 DEF None
<1>5. FirstSeen(f.fp) = history[f.fp]
  BY <1>2 DEF FirstSeen
<1> QED
  BY <1>1, <1>4, <1>5 DEF Breaches

LEMMA SlaPassStep ==
    IInv /\ Serial /\ SlaPassIsTrue /\ [Next]_vars => SlaPassIsTrue'
<1> SUFFICES ASSUME IInv, Serial, SlaPassIsTrue, [Next]_vars PROVE SlaPassIsTrue'
  OBVIOUS
<1>1. CASE UNCHANGED vars
  BY <1>1 DEF vars, SlaPassIsTrue, Overdue
<1>2. CASE Gate
  BY <1>2 DEF Gate, Judgement, Ended, SlaPassIsTrue
<1>3. CASE Sla
  BY <1>3, PassingSlaIsTrue
<1>4. CASE ~Gate /\ ~Sla /\ ~UNCHANGED vars
  BY <1>4, OtherStepsEndNoVerdict DEF SlaPassIsTrue, Running, Ended
<1> QED
  BY <1>1, <1>2, <1>3, <1>4

\* Where baseline commands are run one at a time, an SLA check that passes has
\* forgotten no age: no update, kill or torn file made a finding younger.
THEOREM PassingSla == Parallel <= 1 /\ Spec => []SlaPassIsTrue
<1>1. Init => SlaPassIsTrue
  BY DEF Init, Running, Ended, SlaPassIsTrue
<1> QED
  BY <1>1, SerialHolds, SlaPassStep, PTL DEF Spec

-----------------------------------------------------------------------------
(***************************************************************************)
(* ... and the files of the project are the abstract ledger.                *)
(***************************************************************************)
\* The ledger, as the refinement mapping has it: what the command that is writing
\* will have written, and else what the file says.
Entered == IF Writing # {} THEN job[CHOOSE j \in Writing : TRUE].result
                           ELSE file.entries
Open == Writing # {} \/ file.state = "whole"

LEMMA WritingIsAtWork == Writing \subseteq AtWork
BY DEF Writing, AtWork

LEMMA EnteredByFile ==
    ASSUME Writing = {}
    PROVE  Entered = file.entries /\ (Open <=> file.state = "whole")
BY DEF Entered, Open

LEMMA EnteredByWriter ==
    ASSUME Serial, NEW j \in Job, job[j].pc = "writing"
    PROVE  Entered = job[j].result /\ Open
<1>1. Writing = {j}
  BY OneAtWork DEF Writing
<1>2. (CHOOSE k \in Writing : TRUE) = j
  BY <1>1
<1> QED
  BY <1>1, <1>2 DEF Entered, Open

LEMMA LedgerInit == Init => Ledger!LedgerInit
<1> SUFFICES ASSUME Init PROVE Ledger!LedgerInit
  OBVIOUS
<1>1. Writing = {} /\ file.entries = NoEntries /\ file.state = "absent"
  BY DEF Init, Writing, Idle, File
<1> QED
  BY <1>1 DEF Ledger!LedgerInit, Ledger!NoEntries, Ledger!Untracked, NoEntries, None

\* A step that leaves the files and the commands that are writing alone.
LEMMA LedgerStutters ==
    ASSUME Entered' = Entered, Open' = Open
    PROVE  UNCHANGED Ledger!ledgerVars
BY DEF Ledger!ledgerVars, Entered, Open

LEMMA LedgerTruncate ==
    ASSUME IInv, Serial, Serial', NEW j \in Job, Truncate(j)
    PROVE  Ledger!LedgerNext
<1> DEFINE fps == job[j].fps
           stamp == job[j].stamp
<1>1. /\ AtWorkIs(j) /\ job[j].pc = "loaded"
      /\ \A k \in Job : k # j => job[k].pc = "idle"
  BY OneAtWork DEF Truncate
<1>2. job[j] \in JobRecord /\ fps \in SUBSET Fingerprint /\ stamp \in Day \cup {None}
  BY JobsAreRecords
<1>3. job'[j].pc = "writing" /\ job'[j].result = job[j].result
  BY <1>2 DEF Truncate, JobRecord
<1>4. Entered' = job[j].result /\ Open'
  <2>1. \A k \in Job : k # j => job'[k].pc = "idle"
    BY <1>1 DEF Truncate
  <2>2. Writing' = {j}
    BY <1>3, <2>1 DEF Writing
  <2>3. (CHOOSE k \in Writing' : TRUE) = j
    BY <2>2
  <2> QED
    BY <1>3, <2>2, <2>3 DEF Entered, Open
<1>5. Writing = {}
  BY <1>1 DEF Writing
<1>6. CASE job[j].built
  <2>1. Entered' = BuildBaseline(fps, stamp)
    BY <1>1, <1>4, <1>6 DEF AtWorkIs
  <2>2. Ledger!OpenAnew(fps, stamp)
    BY <1>4, <2>1 DEF Ledger!OpenAnew, Ledger!Enter, BuildBaseline, Entered, Open
  <2> QED
    BY <1>2, <2>2 DEF Ledger!LedgerNext, Ledger!Untracked, None
<1>7. CASE ~job[j].built
  <2>1. file.state = "whole" /\ file.entries = history
    BY <1>1, <1>7 DEF AtWorkIs, Serial, FileAgrees
  <2>2. Entered = history /\ Open
    BY <1>5, <2>1, EnteredByFile
  <2>3. Entered' = MergeBaseline(history, fps, stamp)
    BY <1>1, <1>4, <1>7 DEF AtWorkIs
  <2>4. /\ DOMAIN Entered' = DOMAIN Entered \cup fps
        /\ \A fp \in DOMAIN Entered : fp \in DOMAIN Entered' /\ Entered'[fp] = Entered[fp]
        /\ \A fp \in fps \ DOMAIN Entered : Entered'[fp] = stamp
    BY <2>2, <2>3 DEF MergeBaseline
  <2>5. Ledger!Accept(fps, stamp)
    BY <1>4, <2>2, <2>4 DEF Ledger!Accept, Entered, Open
  <2> QED
    BY <1>2, <2>5 DEF Ledger!LedgerNext, Ledger!Untracked, None
<1> QED
  BY <1>6, <1>7

\* Without entries and without a file, the ledger is lost.
LEMMA LedgerLost ==
    ASSUME Entered' = NoEntries, ~Open'
    PROVE  Ledger!LedgerNext
BY DEF Ledger!LedgerNext, Ledger!Lose, Ledger!NoEntries, Ledger!Untracked, NoEntries,
       None, Entered, Open

LEMMA LedgerKill ==
    ASSUME IInv, Serial, Serial', NEW j \in Job, Kill(j)
    PROVE  [Ledger!LedgerNext]_(Ledger!ledgerVars)
<1>1. AtWorkIs(j) /\ \A k \in Job : k # j => job[k].pc = "idle"
  BY OneAtWork DEF Kill
<1>2. Writing' = {} /\ file' = file
  BY SerialKill, WritingIsAtWork DEF Kill, Writing, AtWork
<1>3. Entered' = file.entries /\ (Open' <=> file.state = "whole")
  BY <1>2 DEF Entered, Open
<1>4. CASE job[j].pc = "writing"
  BY <1>1, <1>3, <1>4, LedgerLost DEF AtWorkIs, File
<1>5. CASE job[j].pc # "writing"
  <2>1. Writing = {}
    BY <1>1, <1>5 DEF Writing
  <2>2. Entered' = Entered /\ Open' = Open
    BY <1>3, <2>1 DEF Entered, Open
  <2> QED
    BY <2>2, LedgerStutters
<1> QED
  BY <1>4, <1>5

LEMMA LedgerStep ==
    ASSUME Parallel <= 1, IInv, Serial, Serial', [Next]_vars
    PROVE  [Ledger!LedgerNext]_(Ledger!ledgerVars)
<1>1. CASE UNCHANGED <<file, job>>
  BY <1>1, LedgerStutters DEF Entered, Open, Writing
<1>2. CASE Remove
  <2>1. Writing' = {} /\ file'.entries = NoEntries /\ file'.state = "absent"
    BY <1>2 DEF Remove, Writing, AtWork, File
  <2> QED
    BY <2>1, LedgerLost DEF Entered, Open
<1>3. ASSUME NEW j \in Job, NEW update \in BOOLEAN, NEW trackAge \in BOOLEAN,
             Load(j, update, trackAge)
      PROVE  [Ledger!LedgerNext]_(Ledger!ledgerVars)
  <2>1. AtWork = {} /\ file' = file
    BY <1>3, LoadStartsAlone DEF Load
  <2>2. \A k \in Job : job'[k] = job[k] \/ job'[k].pc = "loaded"
    BY <1>3 DEF Load, IInv, Shape
  <2>3. Writing = {} /\ Writing' = {}
    BY <2>1, <2>2 DEF Writing, AtWork
  <2>4. Entered' = Entered /\ Open' = Open
    BY <2>1, <2>3 DEF Entered, Open
  <2> QED
    BY <2>4, LedgerStutters
<1>4. ASSUME NEW j \in Job, Save(j)
      PROVE  [Ledger!LedgerNext]_(Ledger!ledgerVars)
  <2>1. /\ AtWork' = {} /\ job[j].pc = "writing"
        /\ file' = File("whole", job[j].result)
    BY <1>4, SerialSave
  <2>2. Entered = job[j].result /\ Open
    BY <2>1, EnteredByWriter
  <2>3. Writing' = {} /\ file'.entries = job[j].result /\ file'.state = "whole"
    BY <2>1 DEF Writing, AtWork, File
  <2>4. Entered' = Entered /\ Open' = Open
    BY <2>2, <2>3 DEF Entered, Open
  <2> QED
    BY <2>4, LedgerStutters
<1> QED
  BY <1>1, <1>2, <1>3, <1>4, LedgerTruncate, LedgerKill
     DEF Next, Tomorrow, Scan, Gate, Sla, vars

\* Commands that are run one at a time implement the ledger, killed or not: an
\* entry, once made, keeps its day, and the ledger is lost as a whole or not at all.
THEOREM FilesAreALedger == Parallel <= 1 /\ Spec => ImplementsLedger
<1> SUFFICES ASSUME Parallel <= 1 PROVE Spec => ImplementsLedger
  OBVIOUS
<1>1. IInv /\ Serial /\ (IInv /\ Serial)' /\ [Next]_vars
         => [Ledger!LedgerNext]_(Ledger!ledgerVars)
  BY LedgerStep
<1> QED
  BY <1>1, SerialHolds, LedgerInit, PTL DEF Spec, ImplementsLedger, Ledger!LedgerSpec

=============================================================================
