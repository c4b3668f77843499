------------------------------ MODULE WebLayer ------------------------------
(***************************************************************************)
(* The web layer of a run: _default_web_scan (core/orchestrator.py) fans   *)
(* the web targets out over a thread pool, a semaphore admits at most      *)
(* zap.max_concurrency of them at a time, and every admitted target drives *)
(* one shared ZAP daemon through ZapScanner.scan (scanners/zap_scanner.py):*)
(* context, spider, active scan, alerts.                                   *)
(*                                                                         *)
(* The daemon is external. It runs an active scan until it is done with    *)
(* it, whether or not anybody still polls it. A scan recurses: it adds     *)
(* alerts on every target below its own. Any call to the daemon may fail,  *)
(* and any call may hang, as the client is built without a timeout.        *)
(***************************************************************************)
EXTENDS Integers, Sequences, FiniteSets

CONSTANTS
  NumTargets,      \* targets of _collect_web_targets, in order: 1..NumTargets
  MaxWorkers,      \* run.max_workers
  MaxConcurrency,  \* zap.max_concurrency
  Below,           \* Below[t]: the targets whose URL starts with the URL of t
  Malformed        \* targets whose alert cannot be normalized (it raises)

Target == 1..NumTargets

ASSUME WebLayerAssumption ==
  /\ NumTargets \in Nat
  /\ MaxWorkers \in Nat \ {0}
  /\ MaxConcurrency \in Nat \ {0}
  /\ Below \in [Target -> SUBSET Target]
  /\ \A t \in Target : t \in Below[t]
  /\ Malformed \subseteq Target

\* An alert, by the target whose active scan raised it and the target it is on.
Alert == {a \in [by : Target, on : Target] : a.on \in Below[a.by]}

VARIABLES
  pc,         \* where the task of each target is
  permits,    \* free permits of the semaphore
  raw,        \* the alerts a target collected
  polled,     \* how the polling of the active scan ended
  cursor,     \* the next result pool.map hands over
  collected,  \* the results handed over: `findings` of _default_web_scan
  main,       \* the pipeline's thread
  running,    \* daemon: the active scans in progress
  alerts      \* daemon: the alerts it holds

poolVars   == <<permits, cursor, collected, main>>
daemonVars == <<running, alerts>>
vars == <<pc, permits, raw, polled, cursor, collected, main, running, alerts>>

Min2(a, b) == IF a < b THEN a ELSE b
Max2(a, b) == IF a < b THEN b ELSE a

Cap     == Max2(1, MaxConcurrency)
Workers == Max2(1, Min2(MaxWorkers, NumTargets))

\* The places of a task that waits on a call to the daemon ("hung": one that
\* never returns), of one that holds a permit, and of one that has a worker.
Calling  == {"setup", "spider", "attack", "polling", "collect"}
Holding  == Calling \union {"hung", "normalize"}
Occupied == Holding \union {"blocked"}
Final    == {"done", "raised", "cancelled"}

Holders == {t \in Target : pc[t] \in Holding}
Busy    == {t \in Target : pc[t] \in Occupied}
Hung    == {t \in Target : pc[t] = "hung"}

-----------------------------------------------------------------------------

\* The daemon is idle but may still hold the alerts of an earlier run.
Init ==
  /\ pc = [t \in Target |-> "queued"]
  /\ permits = Cap
  /\ raw = [t \in Target |-> {}]
  /\ polled = [t \in Target |-> "no"]
  /\ cursor = 1
  /\ collected = <<>>
  /\ main = "mapping"
  /\ running = {}
  /\ alerts \in SUBSET Alert

\* A worker of the pool takes the first future of the queue.
PickUp(t) ==
  /\ pc[t] = "queued"
  /\ \A u \in Target : u < t => pc[u] # "queued"
  /\ Cardinality(Busy) < Workers
  /\ pc' = [pc EXCEPT ![t] = "blocked"]
  /\ UNCHANGED <<raw, polled, poolVars, daemonVars>>

\* Mutant: a task goes on without waiting for a permit.
AcquireWithoutPermit(t) ==
  /\ pc[t] = "blocked"
  /\ permits' = permits - 1
  /\ pc' = [pc EXCEPT ![t] = "setup"]
  /\ UNCHANGED <<raw, polled, cursor, collected, main, daemonVars>>

Acquire(t) ==
  /\ pc[t] = "blocked"
  /\ permits > 0
  /\ permits' = permits - 1
  /\ pc' = [pc EXCEPT ![t] = "setup"]
  /\ UNCHANGED <<raw, polled, cursor, collected, main, daemonVars>>

\* The API client cannot be built: scan returns no findings.
ClientInitFails(t) ==
  /\ pc[t] = "setup"
  /\ pc' = [pc EXCEPT ![t] = "normalize"]
  /\ UNCHANGED <<raw, polled, poolVars, daemonVars>>

\* Context and authentication. Every failure in here is caught and the scan
\* goes on, without the context or unauthenticated.
EnsureContext(t) ==
  /\ pc[t] = "setup"
  /\ pc' = [pc EXCEPT ![t] = "spider"]
  /\ UNCHANGED <<raw, polled, poolVars, daemonVars>>

\* The spider is off, has finished, or has used up its time.
RunSpider(t) ==
  /\ pc[t] = "spider"
  /\ pc' = [pc EXCEPT ![t] = "attack"]
  /\ UNCHANGED <<raw, polled, poolVars, daemonVars>>

\* Mutant: the scan is started and its alerts are read without polling it.
StartAndCollect(t) ==
  /\ pc[t] = "attack"
  /\ pc' = [pc EXCEPT ![t] = "collect"]
  /\ running' = running \union {t}
  /\ UNCHANGED <<raw, polled, poolVars, alerts>>

StartActiveScan(t) ==
  /\ pc[t] = "attack"
  /\ pc' = [pc EXCEPT ![t] = "polling"]
  /\ running' = running \union {t}
  /\ UNCHANGED <<raw, polled, poolVars, alerts>>

\* Mutant: any progress counts as completion.
PollCompleteEarly(t) ==
  /\ pc[t] = "polling"
  /\ pc' = [pc EXCEPT ![t] = "collect"]
  /\ polled' = [polled EXCEPT ![t] = "complete"]
  /\ UNCHANGED <<raw, poolVars, daemonVars>>

\* _poll_until_complete returns True: the daemon reported 100%.
PollComplete(t) ==
  /\ pc[t] = "polling"
  /\ t \notin running
  /\ pc' = [pc EXCEPT ![t] = "collect"]
  /\ polled' = [polled EXCEPT ![t] = "complete"]
  /\ UNCHANGED <<raw, poolVars, daemonVars>>

\* Mutant: the polling loop has no deadline.
PollWithoutDeadline(t) == FALSE /\ UNCHANGED <<vars, pc[t]>>

\* _poll_until_complete returns False: still below 100% and past the deadline.
\* The scan is left running in the daemon.
PollTimeout(t) ==
  /\ pc[t] = "polling"
  /\ t \in running
  /\ pc' = [pc EXCEPT ![t] = "collect"]
  /\ polled' = [polled EXCEPT ![t] = "timed out"]
  /\ UNCHANGED <<raw, poolVars, daemonVars>>

\* A call to the daemon raises, and scan() counts the URL as failed and goes
\* on without its alerts. The call that starts the active scan may have
\* started it before its answer was lost.
CallFails(t) ==
  /\ pc[t] \in {"spider", "attack", "polling", "collect"}
  /\ pc' = [pc EXCEPT ![t] = "normalize"]
  /\ polled' = [polled EXCEPT ![t] = "failed"]
  /\ \/ UNCHANGED running
     \/ pc[t] = "attack" /\ running' = running \union {t}
  /\ UNCHANGED <<raw, poolVars, alerts>>

\* A call to the daemon never returns: nothing bounds it, for the deadline of
\* a poll is looked at between calls only. The permit and the worker stay taken.
CallHangs(t) ==
  /\ pc[t] \in Calling
  /\ pc' = [pc EXCEPT ![t] = "hung"]
  /\ \/ UNCHANGED running
     \/ pc[t] = "attack" /\ running' = running \union {t}
  /\ UNCHANGED <<raw, polled, poolVars, alerts>>

\* Mutant: a target reads the alerts on its own URL only, and leaves those of its
\* scan on the URLs beneath it to the targets there.
CollectOwnUrlOnly(t) ==
  /\ pc[t] = "collect"
  /\ raw' = [raw EXCEPT ![t] = {a \in alerts : a.on = t}]
  /\ pc' = [pc EXCEPT ![t] = "normalize"]
  /\ UNCHANGED <<polled, poolVars, daemonVars>>

\* The daemon returns the alerts on the URL and everything beneath it,
\* whichever scan raised them.
CollectAlerts(t) ==
  /\ pc[t] = "collect"
  /\ raw' = [raw EXCEPT ![t] = {a \in alerts : a.on \in Below[t]}]
  /\ pc' = [pc EXCEPT ![t] = "normalize"]
  /\ UNCHANGED <<polled, poolVars, daemonVars>>

NormalizeRaises(t) == \E a \in raw[t] : a.on \in Malformed

\* Mutant: the permit is given back by hand, and not when normalizing raises.
NormalizeLeaking(t) ==
  /\ pc[t] = "normalize"
  /\ pc' = [pc EXCEPT ![t] = IF NormalizeRaises(t) THEN "raised" ELSE "done"]
  /\ permits' = IF NormalizeRaises(t) THEN permits ELSE permits + 1
  /\ UNCHANGED <<raw, polled, cursor, collected, main, daemonVars>>

\* normalize_alerts and the end of scan_one: the permit goes back whether the
\* normalization returns or raises.
Normalize(t) ==
  /\ pc[t] = "normalize"
  /\ pc' = [pc EXCEPT ![t] = IF NormalizeRaises(t) THEN "raised" ELSE "done"]
  /\ permits' = permits + 1
  /\ UNCHANGED <<raw, polled, cursor, collected, main, daemonVars>>

-----------------------------------------------------------------------------

\* Mutant: the results are taken as they complete, in any order.
TakeAnyResult ==
  /\ main = "mapping"
  /\ \E t \in Target : pc[t] = "done" /\ collected' = Append(collected, raw[t])
  /\ cursor \in Target
  /\ cursor' = cursor + 1
  /\ UNCHANGED <<pc, permits, raw, polled, main, daemonVars>>

\* pool.map hands the results over in the order of the targets.
TakeResult ==
  /\ main = "mapping"
  /\ cursor \in Target
  /\ pc[cursor] = "done"
  /\ collected' = Append(collected, raw[cursor])
  /\ cursor' = cursor + 1
  /\ UNCHANGED <<pc, permits, raw, polled, main, daemonVars>>

\* Mutant: the queued futures are not cancelled.
TakeExceptionOnly ==
  /\ main = "mapping"
  /\ cursor \in Target
  /\ pc[cursor] = "raised"
  /\ main' = "aborting"
  /\ UNCHANGED <<pc, permits, raw, polled, cursor, collected, daemonVars>>

\* The result is an exception: pool.map cancels the futures still queued.
TakeException ==
  /\ main = "mapping"
  /\ cursor \in Target
  /\ pc[cursor] = "raised"
  /\ pc' = [t \in Target |-> IF pc[t] = "queued" THEN "cancelled" ELSE pc[t]]
  /\ main' = "aborting"
  /\ UNCHANGED <<permits, raw, polled, cursor, collected, daemonVars>>

\* Leaving the executor's `with` block waits for the tasks that are running.
Shutdown ==
  /\ \A t \in Target : pc[t] \in Final
  /\ \/ main = "aborting" /\ main' = "failed"
     \/ main = "mapping" /\ cursor = NumTargets + 1 /\ main' = "returned"
  /\ UNCHANGED <<pc, permits, raw, polled, cursor, collected, daemonVars>>

\* The daemon, on its own: an alert on the target of a scan or on one below
\* it, and the end of a scan.
RaiseAlert(t) ==
  /\ t \in running
  /\ \E u \in Below[t] : alerts' = alerts \union {[by |-> t, on |-> u]}
  /\ UNCHANGED <<pc, raw, polled, poolVars, running>>

ScanEnds(t) ==
  /\ t \in running
  /\ running' = running \ {t}
  /\ UNCHANGED <<pc, raw, polled, poolVars, alerts>>

Over == main \in {"returned", "failed"}

\* Nothing has to happen once the layer is over, or while a call hangs.
Idle == (Over \/ Hung # {}) /\ UNCHANGED vars

Progress(t) ==
  \/ PickUp(t) \/ Acquire(t) \/ EnsureContext(t) \/ RunSpider(t)
  \/ StartActiveScan(t) \/ PollComplete(t) \/ PollTimeout(t)
  \/ CollectAlerts(t) \/ Normalize(t)

Task(t) == Progress(t) \/ ClientInitFails(t) \/ CallFails(t) \/ CallHangs(t)

Main == TakeResult \/ TakeException \/ Shutdown

Next ==
  \/ \E t \in Target : Task(t) \/ RaiseAlert(t) \/ ScanEnds(t)
  \/ Main
  \/ Idle

Spec == Init /\ [][Next]_vars

\* The interpreter schedules every thread and time passes the deadline of a
\* poll: a thread whose call has returned goes on. The daemon owes nothing: its
\* scans may run for ever, no call has to fail, and any call may hang, which
\* CallHangs does once and for all.
FairSpec == Spec /\ (\A t \in Target : WF_vars(Progress(t))) /\ WF_vars(Main)

-----------------------------------------------------------------------------

TypeOK ==
  /\ pc \in [Target -> {"queued"} \union Occupied \union Final]
  /\ permits \in Nat
  /\ raw \in [Target -> SUBSET Alert]
  /\ polled \in [Target -> {"no", "complete", "timed out", "failed"}]
  /\ cursor \in 1..(NumTargets + 1)
  /\ collected \in Seq(SUBSET Alert)
  /\ main \in {"mapping", "aborting", "returned", "failed"}
  /\ running \subseteq Target
  /\ alerts \subseteq Alert

\* The semaphore neither leaks nor invents a permit on any path through a
\* scan, the failing ones included, so at most Cap targets drive the daemon at
\* once; the pool never has more threads at work than run.max_workers.
PoolBounded ==
  /\ permits + Cardinality(Holders) = Cap
  /\ Cardinality(Busy) <= Workers

\* An active scan that runs in the daemon is one a worker is polling, or waits
\* on in a call that hangs, or one whose polling timed out or failed: no other
\* path leaves a scan behind.
OnlyAbandonedScansRunUnwatched ==
  \A t \in running :
    pc[t] \in {"polling", "hung"} \/ polled[t] \in {"timed out", "failed"}

\* What an active scan found is reported, on its own target and on every target
\* below it, if the scan was polled to its end and the alerts were read after:
\* its target has the alert, whenever other scans raised theirs and whether or
\* not the target below had read its alerts already, and when the layer returns
\* the alert is among the results.
CompleteScanFullyReported ==
  \A a \in alerts :
    polled[a.by] = "complete" =>
      /\ pc[a.by] \in {"normalize", "done", "raised"} => a \in raw[a.by]
      /\ main = "returned" => \E i \in DOMAIN collected : a \in collected[i]

\* Once one target's exception has reached the pipeline's thread, no target
\* still in the queue is ever started, while those already taken by a worker
\* run to their end.
AbortStartsNothing ==
  [][main = "aborting" =>
       \A t \in Target : (pc'[t] \in Occupied => pc[t] \in Occupied)]_vars

\* Only a call that hangs keeps the web layer from its end, and never a scan
\* that goes on in the daemon for ever. A hung call keeps no other target from
\* its own end, until as many calls hang as there are permits or threads.
EventuallyOver ==
  <>(\/ Over
     \/ Cardinality(Hung) = Min2(Cap, Workers)
     \/ Hung # {} /\ \A t \in Target : pc[t] \in Final \union {"hung"})

\* The documented cap of DECISIONS.md ADR-0007 and _default_web_scan: "a
\* semaphore caps how many ZAP active scans run at once at
\* zap.max_concurrency".
ActiveScansCapped == Cardinality(running) <= MaxConcurrency

-----------------------------------------------------------------------------
(* The web layer implements the bounded, ordered map of BoundedMap. A task *)
(* is active while it holds a permit.                                      *)

StateOf(place) ==
  CASE place \in {"queued", "blocked"} -> "waiting"
    [] place \in Holding -> "active"
    [] place = "done" -> "ok"
    [] place = "raised" -> "error"
    [] place = "cancelled" -> "skipped"

TaskState == [t \in Target |-> StateOf(pc[t])]

Map == INSTANCE BoundedMap WITH
  NumTasks <- NumTargets, Cap <- Cap, Result <- SUBSET Alert,
  state <- TaskState, value <- raw, delivered <- collected, caller <- main

\* The results come back complete and in the order of the targets, or the
\* first exception in that order does, and nothing runs when the layer ends.
ImplementsBoundedMap == Map!MapSpec

=============================================================================
