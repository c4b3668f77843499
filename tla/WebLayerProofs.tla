--------------------------- MODULE WebLayerProofs ---------------------------
(***************************************************************************)
(* Proofs about WebLayer for any number of targets, threads and permits.   *)
(***************************************************************************)
EXTENDS WebLayer, FiniteSetTheorems, TLAPS

\* How the polling of a target's scan ended and where its task is.
PolledMatchesPlace ==
  \A t \in Target :
    /\ pc[t] \in {"queued", "blocked", "setup", "spider", "attack", "polling"}
         => polled[t] = "no"
    /\ polled[t] = "complete" => t \notin running

\* A target that was polled to the end of its scan and has read its alerts has
\* every alert that scan raised.
AlertsRead ==
  \A a \in alerts :
    polled[a.by] = "complete" /\ pc[a.by] \in {"normalize", "done", "raised"}
      => a \in raw[a.by]

\* The results handed over are those before the cursor.
CursorMatches == cursor = Len(collected) + 1

\* They are what the targets before the cursor, all done, have read; and the
\* layer returns only when all have been handed over.
CollectedMatches ==
  /\ \A t \in Target : t < cursor => pc[t] = "done" /\ collected[t] = raw[t]
  /\ main = "returned" => cursor = NumTargets + 1

IInv ==
  /\ TypeOK
  /\ PoolBounded
  /\ PolledMatchesPlace
  /\ OnlyAbandonedScansRunUnwatched
  /\ AlertsRead
  /\ CursorMatches
  /\ CollectedMatches

-----------------------------------------------------------------------------

LEMMA CapIsPositive == Cap \in Nat \ {0} /\ Workers \in Nat \ {0}
BY WebLayerAssumption DEF Cap, Workers, Min2, Max2

LEMMA TargetIsFinite == IsFiniteSet(Target)
BY WebLayerAssumption, FS_Interval DEF Target

\* A set of targets given by a place of the task is finite.
LEMMA HoldersFinite ==
  /\ IsFiniteSet(Holders) /\ Cardinality(Holders) \in Nat
  /\ IsFiniteSet(Busy) /\ Cardinality(Busy) \in Nat
<1>1. Holders \subseteq Target /\ Busy \subseteq Target
  BY DEF Holders, Busy
<1>2. QED
  BY <1>1, TargetIsFinite, FS_Subset, FS_CardinalityType

-----------------------------------------------------------------------------

LEMMA TypeInit == Init => TypeOK
<1>1. 1 \in 1..(NumTargets + 1)
  BY WebLayerAssumption
<1>2. <<>> \in Seq(SUBSET Alert)
  OBVIOUS
<1>3. QED
  BY <1>1, <1>2, CapIsPositive DEF Init, TypeOK

LEMMA TypeNext == TypeOK /\ [Next]_vars => TypeOK'
<1> SUFFICES ASSUME TypeOK, [Next]_vars
             PROVE  TypeOK'
  OBVIOUS
<1> USE DEF TypeOK, Occupied, Holding, Calling, Final, poolVars, daemonVars
<1>1. ASSUME NEW t \in Target, Task(t)
      PROVE  TypeOK'
  <2>1. CASE PickUp(t)
    BY <2>1 DEF PickUp
  <2>2. CASE Acquire(t)
    <3>1. permits \in Nat /\ permits > 0 /\ permits' = permits - 1
      BY <2>2 DEF Acquire
    <3>2. permits' \in Nat
      BY ONLY <3>1
    <3>3. QED
      BY <2>2, <3>2 DEF Acquire
  <2>3. CASE ClientInitFails(t) \/ EnsureContext(t) \/ RunSpider(t)
    BY <2>3 DEF ClientInitFails, EnsureContext, RunSpider
  <2>4. CASE StartActiveScan(t)
    BY <2>4 DEF StartActiveScan
  <2>5. CASE PollComplete(t) \/ PollTimeout(t)
    BY <2>5 DEF PollComplete, PollTimeout
  <2>6. CASE CallFails(t) \/ CallHangs(t)
    BY <2>6 DEF CallFails, CallHangs
  <2>7. CASE CollectAlerts(t)
    <3>1. {a \in alerts : a.on \in Below[t]} \in SUBSET Alert
      OBVIOUS
    <3>2. QED
      BY <2>7, <3>1 DEF CollectAlerts
  <2>8. CASE Normalize(t)
    <3>1. permits \in Nat /\ permits' = permits + 1
      BY <2>8 DEF Normalize
    <3>2. permits' \in Nat
      BY ONLY <3>1
    <3>3. QED
      BY <2>8, <3>2 DEF Normalize
  <2>9. QED
    BY <1>1, <2>1, <2>2, <2>3, <2>4, <2>5, <2>6, <2>7, <2>8 DEF Task, Progress
<1>2. ASSUME NEW t \in Target, RaiseAlert(t) \/ ScanEnds(t)
      PROVE  TypeOK'
  <2>1. CASE RaiseAlert(t)
    <3>1. ASSUME NEW u \in Below[t]
          PROVE  [by |-> t, on |-> u] \in Alert
      BY WebLayerAssumption DEF Alert
    <3>2. alerts' \subseteq Alert
      BY <2>1, <3>1 DEF RaiseAlert
    <3>3. QED
      BY <2>1, <3>2 DEF RaiseAlert
  <2>2. CASE ScanEnds(t)
    BY <2>2 DEF ScanEnds
  <2>3. QED
    BY <1>2, <2>1, <2>2
<1>3. CASE TakeResult
  <2>1. /\ raw[cursor] \in SUBSET Alert
        /\ collected \in Seq(SUBSET Alert)
        /\ collected' = Append(collected, raw[cursor])
        /\ cursor \in Target
        /\ cursor' = cursor + 1
    BY <1>3 DEF TakeResult
  <2>2. collected' \in Seq(SUBSET Alert)
    BY ONLY <2>1
  <2>3. cursor' \in 1..(NumTargets + 1)
    BY ONLY <2>1, WebLayerAssumption DEF Target
  <2>4. QED
    BY <1>3, <2>2, <2>3 DEF TakeResult
<1>4. CASE TakeException
  BY <1>4 DEF TakeException
<1>5. CASE Shutdown
  BY <1>5 DEF Shutdown
<1>6. CASE UNCHANGED vars
  BY <1>6 DEF vars
<1>7. QED
  BY <1>1, <1>2, <1>3, <1>4, <1>5, <1>6 DEF Next, Main, Idle

\* The state of the web layer has its type in every reachable state.
THEOREM TypeCorrect == Spec => []TypeOK
BY TypeInit, TypeNext, PTL DEF Spec

-----------------------------------------------------------------------------
(* The semaphore and the pool.                                             *)

\* A task that moves between two places that both hold a permit, or neither,
\* leaves the accounts as they are.
LEMMA PoolKept ==
  ASSUME TypeOK, PoolBounded, UNCHANGED permits,
         \A t \in Target : pc'[t] \in Holding <=> pc[t] \in Holding,
         \A t \in Target : pc'[t] \in Occupied <=> pc[t] \in Occupied
  PROVE  PoolBounded'
<1>1. Holders' = Holders /\ Busy' = Busy
  BY DEF Holders, Busy
<1>2. QED
  BY <1>1 DEF PoolBounded, Cap, Workers

LEMMA PoolInit == Init => PoolBounded
<1> SUFFICES ASSUME Init
             PROVE  PoolBounded
  OBVIOUS
<1>1. Holders = {} /\ Busy = {}
  BY DEF Init, Holders, Busy, Calling, Holding, Occupied
<1>2. Cardinality(Holders) = 0 /\ Cardinality(Busy) = 0
  BY <1>1, FS_EmptySet
<1>3. QED
  BY <1>2, CapIsPositive DEF Init, PoolBounded

LEMMA PoolTask ==
  ASSUME TypeOK, PoolBounded, NEW t \in Target, Task(t)
  PROVE  PoolBounded'
<1> USE DEF TypeOK
<1>1. CASE PickUp(t)
  <2>1. Holders' = Holders
    BY <1>1 DEF PickUp, Holders, Holding, Calling
  <2>2. Busy' = Busy \union {t} /\ t \notin Busy
    BY <1>1 DEF PickUp, Busy, Occupied, Holding, Calling
  <2>3. Cardinality(Busy') = Cardinality(Busy) + 1
    BY <2>2, HoldersFinite, FS_AddElement
  <2>4. Cardinality(Busy) < Workers /\ UNCHANGED permits
    BY <1>1 DEF PickUp, poolVars
  <2>5. Cardinality(Busy') <= Workers
    BY ONLY <2>3, <2>4, HoldersFinite, CapIsPositive
  <2>6. QED
    BY <2>1, <2>4, <2>5 DEF PoolBounded, Cap, Workers
<1>2. CASE Acquire(t)
  <2>1. Busy' = Busy
    BY <1>2 DEF Acquire, Busy, Occupied, Holding, Calling
  <2>2. Holders' = Holders \union {t} /\ t \notin Holders
    BY <1>2 DEF Acquire, Holders, Holding, Calling
  <2>3. Cardinality(Holders') = Cardinality(Holders) + 1
    BY <2>2, HoldersFinite, FS_AddElement
  <2>4. permits \in Nat /\ permits' = permits - 1
    BY <1>2 DEF Acquire
  <2>5. permits + Cardinality(Holders) = Cap /\ Cardinality(Busy') <= Workers
    BY <2>1 DEF PoolBounded
  <2>6. permits' + Cardinality(Holders') = Cap
    BY ONLY <2>3, <2>4, <2>5, HoldersFinite
  <2>7. QED
    BY <2>5, <2>6 DEF PoolBounded, Cap, Workers
<1>3. CASE Normalize(t)
  <2>1. Holders' = Holders \ {t} /\ t \in Holders
    BY <1>3 DEF Normalize, Holders, Holding, Calling
  <2>2. Busy' = Busy \ {t} /\ t \in Busy
    BY <1>3 DEF Normalize, Busy, Occupied, Holding, Calling
  <2>3. /\ Cardinality(Holders') = Cardinality(Holders) - 1
        /\ Cardinality(Busy') = Cardinality(Busy) - 1
    BY <2>1, <2>2, HoldersFinite, FS_RemoveElement
  <2>4. permits \in Nat /\ permits' = permits + 1
    BY <1>3 DEF Normalize
  <2>5. permits + Cardinality(Holders) = Cap /\ Cardinality(Busy) <= Workers
    BY DEF PoolBounded
  <2>6. permits' + Cardinality(Holders') = Cap /\ Cardinality(Busy') <= Workers
    BY ONLY <2>3, <2>4, <2>5, HoldersFinite, CapIsPositive
  <2>7. QED
    BY <2>6 DEF PoolBounded, Cap, Workers
<1>4. CASE \/ ClientInitFails(t) \/ EnsureContext(t) \/ RunSpider(t)
           \/ StartActiveScan(t) \/ PollComplete(t) \/ PollTimeout(t)
           \/ CallFails(t) \/ CallHangs(t) \/ CollectAlerts(t)
  <2>1. /\ UNCHANGED permits
        /\ \A u \in Target : pc'[u] \in Holding <=> pc[u] \in Holding
        /\ \A u \in Target : pc'[u] \in Occupied <=> pc[u] \in Occupied
    BY <1>4 DEF ClientInitFails, EnsureContext, RunSpider, StartActiveScan,
         PollComplete, PollTimeout, CallFails, CallHangs, CollectAlerts, poolVars,
         Calling, Holding, Occupied
  <2>2. QED
    BY <2>1, PoolKept
<1>5. QED
  BY <1>1, <1>2, <1>3, <1>4 DEF Task, Progress

LEMMA PoolNext == TypeOK /\ PoolBounded /\ [Next]_vars => PoolBounded'
<1> SUFFICES ASSUME TypeOK, PoolBounded, [Next]_vars
             PROVE  PoolBounded'
  OBVIOUS
<1>1. ASSUME NEW t \in Target, Task(t)
      PROVE  PoolBounded'
  BY <1>1, PoolTask
<1>2. CASE TakeException
  <2>1. /\ UNCHANGED permits
        /\ \A u \in Target : pc'[u] \in Holding <=> pc[u] \in Holding
        /\ \A u \in Target : pc'[u] \in Occupied <=> pc[u] \in Occupied
    BY <1>2 DEF TakeException, Holding, Calling, Occupied, TypeOK
  <2>2. QED
    BY <2>1, PoolKept
<1>3. ASSUME UNCHANGED <<pc, permits>>
      PROVE  PoolBounded'
  BY <1>3, PoolKept
<1>4. QED
  BY <1>1, <1>2, <1>3 DEF Next, Main, Idle, TakeResult, Shutdown,
       RaiseAlert, ScanEnds, vars, poolVars

\* For any number of targets, threads and permits: no path through a scan, a
\* failing one included, leaks a permit or lets one target too many in.
THEOREM PoolIsBounded == Spec => []PoolBounded
<1>1. Init => TypeOK /\ PoolBounded
  BY TypeInit, PoolInit
<1>2. TypeOK /\ PoolBounded /\ [Next]_vars => (TypeOK /\ PoolBounded)'
  BY TypeNext, PoolNext
<1>3. QED
  BY <1>1, <1>2, PTL DEF Spec

-----------------------------------------------------------------------------
(* Scans in the daemon and the alerts that are reported.                   *)

ScanInv ==
  PolledMatchesPlace /\ OnlyAbandonedScansRunUnwatched /\ AlertsRead

LEMMA ScanNext == TypeOK /\ ScanInv /\ [Next]_vars => ScanInv'
<1> SUFFICES ASSUME TypeOK, ScanInv, [Next]_vars
             PROVE  ScanInv'
  OBVIOUS
<1> USE DEF TypeOK, ScanInv, PolledMatchesPlace, OnlyAbandonedScansRunUnwatched,
            AlertsRead, Calling, Holding, Occupied, Final
<1> HIDE DEF Alert
<1>0. \A a \in Alert : a.by \in Target /\ a.on \in Below[a.by]
  BY DEF Alert
<1>1. ASSUME NEW t \in Target, Task(t)
      PROVE  ScanInv'
  <2>1. CASE PickUp(t) \/ Acquire(t)
    <3>1. PolledMatchesPlace'
      BY <2>1 DEF PickUp, Acquire, daemonVars
    <3>2. OnlyAbandonedScansRunUnwatched'
      BY <2>1 DEF PickUp, Acquire, daemonVars
    <3>3. AlertsRead'
      BY <1>0, <2>1 DEF PickUp, Acquire, daemonVars
    <3>4. QED
      BY <3>1, <3>2, <3>3
  <2>2. CASE ClientInitFails(t) \/ EnsureContext(t) \/ RunSpider(t)
    <3>1. PolledMatchesPlace'
      BY <2>2 DEF ClientInitFails, EnsureContext, RunSpider, daemonVars
    <3>2. OnlyAbandonedScansRunUnwatched'
      BY <2>2 DEF ClientInitFails, EnsureContext, RunSpider, daemonVars
    <3>3. AlertsRead'
      BY <1>0, <2>2 DEF ClientInitFails, EnsureContext, RunSpider, daemonVars
    <3>4. QED
      BY <3>1, <3>2, <3>3
  <2>3. CASE StartActiveScan(t)
    <3>1. PolledMatchesPlace'
      BY <2>3 DEF StartActiveScan
    <3>2. OnlyAbandonedScansRunUnwatched'
      BY <2>3 DEF StartActiveScan
    <3>3. AlertsRead'
      BY <1>0, <2>3 DEF StartActiveScan
    <3>4. QED
      BY <3>1, <3>2, <3>3
  <2>4. CASE PollComplete(t)
    BY <1>0, <2>4 DEF PollComplete, daemonVars
  <2>5. CASE PollTimeout(t)
    BY <1>0, <2>5 DEF PollTimeout, daemonVars
  <2>6. CASE CallFails(t)
    <3>1. PolledMatchesPlace'
      BY <2>6 DEF CallFails
    <3>2. OnlyAbandonedScansRunUnwatched'
      BY <2>6 DEF CallFails
    <3>3. AlertsRead'
      BY <1>0, <2>6 DEF CallFails
    <3>4. QED
      BY <3>1, <3>2, <3>3
  <2>7. CASE CollectAlerts(t)
    <3>1. PolledMatchesPlace' /\ OnlyAbandonedScansRunUnwatched'
      BY <2>7 DEF CollectAlerts, daemonVars
    <3>2. ASSUME NEW a \in alerts, polled[a.by] = "complete",
                 pc'[a.by] \in {"normalize", "done", "raised"}
          PROVE  a \in raw'[a.by]
      <4>1. CASE a.by = t
        BY <1>0, <2>7, <4>1 DEF CollectAlerts
      <4>2. CASE a.by # t
        BY <1>0, <2>7, <3>2, <4>2 DEF CollectAlerts
      <4>3. QED
        BY <4>1, <4>2
    <3>3. UNCHANGED <<alerts, polled>>
      BY <2>7 DEF CollectAlerts, daemonVars
    <3>4. QED
      BY <3>1, <3>2, <3>3
  <2>8. CASE Normalize(t)
    BY <1>0, <2>8 DEF Normalize, daemonVars
  <2>9. CASE CallHangs(t)
    <3>1. PolledMatchesPlace'
      BY <2>9 DEF CallHangs
    <3>2. OnlyAbandonedScansRunUnwatched'
      <4>1. pc'[t] = "hung" /\ running' \subseteq running \union {t} /\ polled' = polled
        BY <2>9 DEF CallHangs
      <4>2. \A u \in Target : u # t => pc'[u] = pc[u]
        BY <2>9 DEF CallHangs
      <4>3. QED
        BY <4>1, <4>2
    <3>3. AlertsRead'
      BY <1>0, <2>9 DEF CallHangs
    <3>4. QED
      BY <3>1, <3>2, <3>3
  <2>10. QED
    BY <1>1, <2>1, <2>2, <2>3, <2>4, <2>5, <2>6, <2>7, <2>8, <2>9 DEF Task, Progress
<1>2. ASSUME NEW t \in Target, RaiseAlert(t) \/ ScanEnds(t)
      PROVE  ScanInv'
  <2>1. PolledMatchesPlace' /\ OnlyAbandonedScansRunUnwatched'
    BY <1>2 DEF RaiseAlert, ScanEnds
  <2>2. polled[t] # "complete"
    BY <1>2 DEF RaiseAlert, ScanEnds
  <2>3. ASSUME NEW a \in alerts', a \notin alerts
        PROVE  a.by = t
    <3>1. PICK u \in Below[t] : alerts' = alerts \union {[by |-> t, on |-> u]}
      BY <1>2, <2>3 DEF RaiseAlert, ScanEnds
    <3>2. a = [by |-> t, on |-> u]
      BY <2>3, <3>1
    <3>3. QED
      BY ONLY <3>2
  <2>4. UNCHANGED <<pc, raw, polled>>
    BY <1>2 DEF RaiseAlert, ScanEnds
  <2>5. AlertsRead'
    BY <2>2, <2>3, <2>4
  <2>6. QED
    BY <2>1, <2>5
<1>3. CASE TakeException
  BY <1>0, <1>3 DEF TakeException, daemonVars
<1>4. ASSUME UNCHANGED <<pc, raw, polled, running, alerts>>
      PROVE  ScanInv'
  BY <1>4
<1>5. QED
  BY <1>1, <1>2, <1>3, <1>4 DEF Next, Main, Idle, TakeResult, Shutdown,
       vars, daemonVars

LEMMA CursorNext == TypeOK /\ CursorMatches /\ [Next]_vars => CursorMatches'
<1> SUFFICES ASSUME TypeOK, CursorMatches, [Next]_vars
             PROVE  CursorMatches'
  OBVIOUS
<1>1. CASE TakeResult
  <2>1. /\ collected \in Seq(SUBSET Alert)
        /\ raw[cursor] \in SUBSET Alert
        /\ collected' = Append(collected, raw[cursor])
        /\ cursor' = cursor + 1
    BY <1>1 DEF TakeResult, TypeOK
  <2>2. QED
    BY ONLY <2>1, CursorMatches DEF CursorMatches
<1>2. CASE UNCHANGED <<cursor, collected>>
  BY <1>2 DEF CursorMatches
<1>3. QED
  BY <1>1, <1>2 DEF Next, Main, Task, Progress, Idle, PickUp, Acquire, ClientInitFails,
       EnsureContext, RunSpider, StartActiveScan, PollComplete, PollTimeout,
       CallFails, CallHangs, CollectAlerts, Normalize, TakeException, Shutdown, RaiseAlert,
       ScanEnds, vars, poolVars

\* A task that is done stays done, and keeps what it has read.
LEMMA DoneStays ==
  ASSUME TypeOK, [Next]_vars, NEW u \in Target, pc[u] = "done"
  PROVE  pc'[u] = "done" /\ raw'[u] = raw[u]
<1>1. ASSUME NEW t \in Target, Task(t)
      PROVE  pc'[u] = "done" /\ raw'[u] = raw[u]
  BY <1>1 DEF Task, Progress, PickUp, Acquire, ClientInitFails, EnsureContext,
     RunSpider, StartActiveScan, PollComplete, PollTimeout, CallFails, CallHangs,
     CollectAlerts, Normalize, TypeOK, Calling
<1>2. QED
  BY <1>1 DEF Next, Main, Idle, TakeResult, TakeException, Shutdown, RaiseAlert,
     ScanEnds, vars

LEMMA CollectedNext ==
  TypeOK /\ CursorMatches /\ CollectedMatches /\ [Next]_vars => CollectedMatches'
<1> SUFFICES ASSUME TypeOK, CursorMatches, CollectedMatches, [Next]_vars
             PROVE  CollectedMatches'
  OBVIOUS
<1>1. CASE TakeResult
  <2>1. /\ collected \in Seq(SUBSET Alert)
        /\ raw[cursor] \in SUBSET Alert
        /\ collected' = Append(collected, raw[cursor])
        /\ cursor \in Target /\ cursor = Len(collected) + 1
        /\ cursor' = cursor + 1
    BY <1>1 DEF TakeResult, TypeOK, CursorMatches
  <2>2. collected'[cursor] = raw[cursor]
    BY ONLY <2>1
  <2>3. ASSUME NEW t \in Target, t < cursor
        PROVE  collected'[t] = collected[t]
    BY ONLY <2>1, <2>3, WebLayerAssumption DEF Target
  <2>4. ASSUME NEW t \in Target, t < cursor'
        PROVE  pc'[t] = "done" /\ collected'[t] = raw'[t]
    <3>1. t < cursor \/ t = cursor
      BY ONLY <2>1, <2>4, WebLayerAssumption DEF Target
    <3>2. QED
      BY <1>1, <2>2, <2>3, <3>1 DEF TakeResult, CollectedMatches
  <2>5. main' = "mapping"
    BY <1>1 DEF TakeResult
  <2>6. QED
    BY <2>4, <2>5 DEF CollectedMatches
<1>2. CASE Shutdown
  BY <1>2 DEF Shutdown, CollectedMatches
<1>3. ASSUME UNCHANGED <<cursor, collected>>, main' = main \/ main' = "aborting"
      PROVE  CollectedMatches'
  BY <1>3, DoneStays DEF CollectedMatches
<1>4. QED
  BY <1>1, <1>2, <1>3 DEF Next, Main, Task, Progress, Idle, PickUp, Acquire, ClientInitFails,
       EnsureContext, RunSpider, StartActiveScan, PollComplete, PollTimeout,
       CallFails, CallHangs, CollectAlerts, Normalize, TakeException, RaiseAlert,
       ScanEnds, vars, poolVars

LEMMA Inductive ==
  /\ Init => IInv
  /\ IInv /\ [Next]_vars => IInv'
<1>1. Init => ScanInv
  <2>1. \A a \in Alert : a.by \in Target
    BY DEF Alert
  <2>2. QED
    BY <2>1 DEF Init, ScanInv, PolledMatchesPlace, OnlyAbandonedScansRunUnwatched,
       AlertsRead
<1>2. Init => CursorMatches
  BY DEF Init, CursorMatches
<1>3. Init => CollectedMatches
  BY WebLayerAssumption DEF Init, CollectedMatches, Target
<1>4. QED
  BY <1>1, <1>2, <1>3, TypeInit, PoolInit, TypeNext, PoolNext, ScanNext, CursorNext,
     CollectedNext DEF IInv, ScanInv

\* A scan of the daemon that nobody polls is one whose polling timed out or
\* failed, and never one a finished or cancelled target forgot.
THEOREM NoForgottenScan == Spec => []OnlyAbandonedScansRunUnwatched
<1>1. IInv => OnlyAbandonedScansRunUnwatched
  BY DEF IInv
<1>2. QED
  BY <1>1, Inductive, PTL DEF Spec

\* What a scan found is reported if the scan was polled to its end and its
\* alerts were read: by its own target, also what it found on targets below, and
\* in the end among the results, for any order of targets below one another and
\* however the scans interleave.
THEOREM NothingFoundIsLost == Spec => []CompleteScanFullyReported
<1>1. ASSUME IInv
      PROVE  CompleteScanFullyReported
  <2> SUFFICES ASSUME NEW a \in alerts, polled[a.by] = "complete"
               PROVE  /\ pc[a.by] \in {"normalize", "done", "raised"} => a \in raw[a.by]
                      /\ main = "returned" => \E i \in DOMAIN collected : a \in collected[i]
    BY DEF CompleteScanFullyReported
  <2>1. a.by \in Target
    BY <1>1 DEF IInv, TypeOK, Alert
  <2>2. pc[a.by] \in {"normalize", "done", "raised"} => a \in raw[a.by]
    BY <1>1 DEF IInv, AlertsRead
  <2>3. ASSUME main = "returned"
        PROVE  \E i \in DOMAIN collected : a \in collected[i]
    <3>1. collected \in Seq(SUBSET Alert) /\ Len(collected) + 1 = NumTargets + 1
      BY <1>1, <2>3 DEF IInv, TypeOK, CursorMatches, CollectedMatches
    <3>2. a.by \in DOMAIN collected
      BY ONLY <2>1, <3>1, WebLayerAssumption DEF Target
    <3>3. a.by < cursor
      BY <1>1, <2>1, <2>3, WebLayerAssumption DEF IInv, CollectedMatches, Target
    <3>4. pc[a.by] = "done" /\ collected[a.by] = raw[a.by]
      BY <1>1, <2>1, <3>3 DEF IInv, CollectedMatches
    <3>5. QED
      BY <2>2, <3>2, <3>4
  <2>4. QED
    BY <2>2, <2>3
<1>2. QED
  BY <1>1, Inductive, PTL DEF Spec

-----------------------------------------------------------------------------
(* An exception stops the targets that have not begun.                     *)

\* Once the thread of the pipeline aborts, the queue of the pool is empty.
QueueCancelled == main = "aborting" => \A t \in Target : pc[t] # "queued"

\* A task leaves the queue for a worker and does not come back to either.
LEMMA TaskMoves ==
  ASSUME TypeOK, NEW t \in Target, Task(t), NEW u \in Target
  PROVE  /\ pc'[u] = "queued" => pc[u] = "queued"
         /\ pc'[u] \in Occupied => pc[u] \in Occupied \union {"queued"}
         /\ main' = main
BY DEF Task, Progress, PickUp, Acquire, ClientInitFails, EnsureContext, RunSpider,
       StartActiveScan, PollComplete, PollTimeout, CallFails, CallHangs, CollectAlerts,
       Normalize, TypeOK, poolVars, Occupied, Holding, Calling

LEMMA QueueNext == TypeOK /\ QueueCancelled /\ [Next]_vars => QueueCancelled'
<1> SUFFICES ASSUME TypeOK, QueueCancelled, [Next]_vars
             PROVE  QueueCancelled'
  OBVIOUS
<1>1. ASSUME NEW t \in Target, Task(t)
      PROVE  QueueCancelled'
  BY <1>1, TaskMoves DEF QueueCancelled
<1>2. CASE TakeException
  BY <1>2 DEF TakeException, QueueCancelled
<1>3. CASE Shutdown
  BY <1>3 DEF Shutdown, QueueCancelled
<1>4. CASE UNCHANGED <<pc, main>>
  BY <1>4 DEF QueueCancelled
<1>5. QED
  BY <1>1, <1>2, <1>3, <1>4 DEF Next, Main, Idle, TakeResult, RaiseAlert,
       ScanEnds, vars, poolVars

\* After the first exception has reached the pipeline's thread no target of the
\* queue is started, for any number of targets and threads.
THEOREM NothingStartsAfterAbort == Spec => AbortStartsNothing
<1>1. Init => TypeOK /\ QueueCancelled
  BY TypeInit DEF Init, QueueCancelled
<1>2. TypeOK /\ QueueCancelled /\ [Next]_vars => (TypeOK /\ QueueCancelled)'
  BY TypeNext, QueueNext
<1>3. ASSUME TypeOK, QueueCancelled, [Next]_vars, main = "aborting",
             NEW u \in Target, pc'[u] \in Occupied
      PROVE  pc[u] \in Occupied
  <2>1. pc[u] # "queued"
    BY <1>3 DEF QueueCancelled
  <2>2. ASSUME NEW t \in Target, Task(t)
        PROVE  pc[u] \in Occupied
    BY <1>3, <2>1, <2>2, TaskMoves
  <2>3. CASE UNCHANGED pc
    BY <1>3, <2>3
  <2>4. QED
    BY <1>3, <2>2, <2>3 DEF Next, Main, Idle, TakeResult, TakeException,
         Shutdown, RaiseAlert, ScanEnds, vars
<1>4. TypeOK /\ QueueCancelled /\ [Next]_vars =>
        [main = "aborting" =>
           \A t \in Target : (pc'[t] \in Occupied => pc[t] \in Occupied)]_vars
  BY <1>3
<1>5. QED
  BY <1>1, <1>2, <1>4, PTL DEF Spec, AbortStartsNothing

-----------------------------------------------------------------------------
(* The refinement of BoundedMap, step by step.                             *)

Place == {"queued"} \union Occupied \union Final

LEMMA StateOfPlace ==
  ASSUME NEW p \in Place
  PROVE  /\ StateOf(p) = "waiting" <=> p \in {"queued", "blocked"}
         /\ StateOf(p) = "active" <=> p \in Holding
         /\ StateOf(p) = "ok" <=> p = "done"
         /\ StateOf(p) = "error" <=> p = "raised"
         /\ StateOf(p) = "skipped" <=> p = "cancelled"
BY DEF StateOf, Place, Occupied, Holding, Calling, Final

\* A step that moves a task only between places of one abstract state is, for
\* the map, no step of that task.
LEMMA SameState ==
  ASSUME \A t \in Target : StateOf(pc'[t]) = StateOf(pc[t])
  PROVE  TaskState' = TaskState
BY DEF TaskState

LEMMA MoveState ==
  ASSUME TypeOK, NEW t \in Target, NEW p, pc' = [pc EXCEPT ![t] = p]
  PROVE  TaskState' = [TaskState EXCEPT ![t] = StateOf(p)]
BY DEF TaskState, TypeOK

LEMMA ActiveAreHolders ==
  TypeOK => {u \in Map!Task : TaskState[u] = "active"} = Holders
<1> SUFFICES ASSUME TypeOK
             PROVE  {u \in Map!Task : TaskState[u] = "active"} = Holders
  OBVIOUS
<1>1. ASSUME NEW u \in Target
      PROVE  TaskState[u] = "active" <=> pc[u] \in Holding
  <2>1. pc[u] \in Place
    BY DEF TypeOK, Place
  <2>2. QED
    BY <2>1, StateOfPlace DEF TaskState
<1>2. QED
  BY <1>1 DEF Map!Task, Target, Holders

\* Cardinality means the same in the instance as it does here.
LEMMA SameCardinality == \A S : Map!Cardinality(S) = Cardinality(S)
BY DEF Map!Cardinality, Cardinality

LEMMA RefineInit == Init => Map!MapInit
BY DEF Init, Map!MapInit, Map!Task, Target, TaskState, StateOf, Holding, Calling

LEMMA RefineTask ==
  ASSUME IInv, NEW t \in Target, Task(t)
  PROVE  [Map!MapNext]_(Map!mapVars)
<1> USE DEF IInv
<1>1. t \in Map!Task
  BY DEF Map!Task, Target
<1>2. CASE PickUp(t)
  <2>1. TaskState' = [TaskState EXCEPT ![t] = TaskState[t]]
    BY <1>2, MoveState DEF PickUp, TaskState, StateOf, Holding, Calling
  <2>2. TaskState' = TaskState
    BY <2>1 DEF TaskState
  <2>3. QED
    BY <1>2, <2>2 DEF PickUp, poolVars, Map!mapVars
<1>3. CASE Acquire(t)
  <2>1. TaskState' = [TaskState EXCEPT ![t] = "active"]
    BY <1>3, MoveState DEF Acquire, StateOf, Holding, Calling
  <2>2. TaskState[t] = "waiting"
    BY <1>3 DEF Acquire, TaskState, StateOf, Holding, Calling
  <2>3. permits \in Nat /\ permits > 0 /\ permits + Cardinality(Holders) = Cap
    BY <1>3 DEF Acquire, TypeOK, PoolBounded
  <2>4. Cardinality(Holders) < Cap
    BY ONLY <2>3, HoldersFinite, CapIsPositive
  <2>5. Map!Cardinality({u \in Map!Task : TaskState[u] = "active"}) < Cap
    BY <2>4, ActiveAreHolders, SameCardinality
  <2>6. UNCHANGED <<raw, collected, main>>
    BY <1>3 DEF Acquire
  <2>7. Map!Start(t)
    BY <2>1, <2>2, <2>5, <2>6 DEF Map!Start
  <2>8. QED
    BY <1>1, <2>7 DEF Map!MapNext
<1>4. CASE \/ ClientInitFails(t) \/ EnsureContext(t) \/ RunSpider(t)
           \/ StartActiveScan(t) \/ PollComplete(t) \/ PollTimeout(t)
           \/ CallFails(t) \/ CallHangs(t) \/ CollectAlerts(t)
  <2>1. /\ pc[t] \in Holding
        /\ \E p \in Holding : pc' = [pc EXCEPT ![t] = p]
        /\ UNCHANGED <<collected, main>>
    BY <1>4 DEF ClientInitFails, EnsureContext, RunSpider, StartActiveScan,
         PollComplete, PollTimeout, CallFails, CallHangs, CollectAlerts, Holding, Calling,
         poolVars
  <2>2. TaskState' = [TaskState EXCEPT ![t] = "active"]
    BY <2>1, MoveState DEF StateOf, Holding, Calling
  <2>3. TaskState[t] = "active"
    BY <2>1 DEF TaskState, StateOf, Holding, Calling
  <2>4. TaskState' = TaskState
    BY <2>2, <2>3 DEF TaskState
  <2>5. CASE CollectAlerts(t)
    <3>1. /\ {a \in alerts : a.on \in Below[t]} \in SUBSET Alert
          /\ raw' = [raw EXCEPT ![t] = {a \in alerts : a.on \in Below[t]}]
      BY <2>5 DEF CollectAlerts, TypeOK
    <3>2. Map!Work(t)
      BY <2>1, <2>3, <2>4, <3>1 DEF Map!Work
    <3>3. QED
      BY <1>1, <3>2 DEF Map!MapNext
  <2>6. CASE UNCHANGED raw
    BY <2>1, <2>4, <2>6 DEF Map!mapVars
  <2>7. QED
    BY <1>4, <2>5, <2>6 DEF ClientInitFails, EnsureContext, RunSpider,
         StartActiveScan, PollComplete, PollTimeout, CallFails, CallHangs
<1>5. CASE Normalize(t)
  <2>1. \E p \in {"done", "raised"} : pc' = [pc EXCEPT ![t] = p]
    BY <1>5 DEF Normalize
  <2>2. \E s \in {"ok", "error"} : TaskState' = [TaskState EXCEPT ![t] = s]
    BY <2>1, MoveState DEF StateOf, Holding, Calling
  <2>3. TaskState[t] = "active"
    BY <1>5 DEF Normalize, TaskState, StateOf, Holding, Calling
  <2>4. Map!End(t)
    BY <1>5, <2>2, <2>3 DEF Normalize, Map!End
  <2>5. QED
    BY <1>1, <2>4 DEF Map!MapNext
<1>6. QED
  BY <1>2, <1>3, <1>4, <1>5 DEF Task, Progress

LEMMA RefineMain ==
  ASSUME IInv, Main
  PROVE  [Map!MapNext]_(Map!mapVars)
<1> USE DEF IInv
<1>1. CASE TakeResult
  <2>1. Len(collected) + 1 = cursor /\ Len(collected) < NumTargets
    <3>1. /\ collected \in Seq(SUBSET Alert)
          /\ cursor \in Target
          /\ cursor = Len(collected) + 1
      BY <1>1 DEF TakeResult, TypeOK, CursorMatches
    <3>2. QED
      BY ONLY <3>1, WebLayerAssumption DEF Target
  <2>2. TaskState[cursor] = "ok" /\ UNCHANGED TaskState
    BY <1>1 DEF TakeResult, TaskState, StateOf, Holding, Calling
  <2>3. Map!Deliver
    BY <1>1, <2>1, <2>2 DEF TakeResult, Map!Deliver
  <2>4. QED
    BY <2>3 DEF Map!MapNext
<1>2. CASE TakeException
  <2>1. Len(collected) + 1 = cursor /\ Len(collected) < NumTargets
    <3>1. /\ collected \in Seq(SUBSET Alert)
          /\ cursor \in Target
          /\ cursor = Len(collected) + 1
      BY <1>2 DEF TakeException, TypeOK, CursorMatches
    <3>2. QED
      BY ONLY <3>1, WebLayerAssumption DEF Target
  <2>2. TaskState[cursor] = "error"
    BY <1>2 DEF TakeException, TaskState, StateOf, Holding, Calling
  <2> DEFINE drop == {t \in Target : pc[t] = "queued"}
  <2>3. drop \in SUBSET {t \in Map!Task : TaskState[t] = "waiting"}
    BY DEF Map!Task, Target, TaskState, StateOf, Holding, Calling
  <2>4. TaskState' = [t \in Target |-> IF t \in drop THEN "skipped" ELSE TaskState[t]]
    <3>1. ASSUME NEW t \in Target
          PROVE  StateOf(pc'[t]) = IF t \in drop THEN "skipped" ELSE StateOf(pc[t])
      <4>1. CASE t \in drop
        BY <1>2, <4>1 DEF TakeException, StateOf, Holding, Calling
      <4>2. CASE t \notin drop
        BY <1>2, <4>2 DEF TakeException
      <4>3. QED
        BY <4>1, <4>2
    <3>2. QED
      BY <3>1 DEF TaskState
  <2>5. Map!Abort
    BY <1>2, <2>1, <2>2, <2>3, <2>4 DEF TakeException, Map!Abort, Map!Task, Target
  <2>6. QED
    BY <2>5 DEF Map!MapNext
<1>3. CASE Shutdown
  <2>1. ASSUME NEW t \in Target
        PROVE  TaskState[t] \notin {"waiting", "active"}
    BY <1>3 DEF Shutdown, Final, TaskState, StateOf, Holding, Calling
  <2>2. UNCHANGED TaskState
    BY <1>3 DEF Shutdown, TaskState
  <2>3. cursor = NumTargets + 1 => Len(collected) = NumTargets
    <3>1. collected \in Seq(SUBSET Alert) /\ cursor = Len(collected) + 1
      BY DEF TypeOK, CursorMatches
    <3>2. QED
      BY ONLY <3>1, WebLayerAssumption
  <2>4. Map!Settle
    BY <1>3, <2>1, <2>2, <2>3 DEF Shutdown, Map!Settle, Map!Task, Target
  <2>5. QED
    BY <2>4 DEF Map!MapNext
<1>4. QED
  BY <1>1, <1>2, <1>3 DEF Main

LEMMA RefineNext == IInv /\ [Next]_vars => [Map!MapNext]_(Map!mapVars)
<1> SUFFICES ASSUME IInv, [Next]_vars
             PROVE  [Map!MapNext]_(Map!mapVars)
  OBVIOUS
<1>1. ASSUME UNCHANGED <<pc, raw, collected, main>>
      PROVE  [Map!MapNext]_(Map!mapVars)
  BY <1>1 DEF Map!mapVars, TaskState
<1>2. QED
  BY <1>1, RefineTask, RefineMain
     DEF Next, RaiseAlert, ScanEnds, Idle, vars, poolVars

\* The web layer implements the bounded, ordered map: at most Cap targets at
\* work, results in the order of the targets, the first exception in that
\* order, and nothing at work when it is over.
THEOREM ImplementsMap == Spec => ImplementsBoundedMap
BY Inductive, RefineInit, RefineNext, PTL DEF Spec, ImplementsBoundedMap, Map!MapSpec

=============================================================================
