----------------------------- MODULE BoundedMap -----------------------------
(***************************************************************************)
(* What the web layer promises the pipeline (ARCHITECTURE.md, "Stages and  *)
(* concurrency"; DECISIONS.md, ADR-0007 and ADR-0008): a map over a list   *)
(* of tasks, at most Cap of them active at once, whose results come back   *)
(* in the order of the list whatever the order in which the tasks end, and *)
(* whose first error, in the order of the list, is the caller's error.     *)
(* The map is over only when no task is active any more.                   *)
(***************************************************************************)
EXTENDS Integers, Sequences, FiniteSets

CONSTANTS
  NumTasks,   \* the tasks are 1..NumTasks, in the order of the list
  Cap,        \* how many tasks may be active at once
  Result      \* the values a task may return

Task == 1..NumTasks

VARIABLES
  state,      \* [Task -> {"waiting", "active", "ok", "error", "skipped"}]
  value,      \* what a task that is "ok" returned
  delivered,  \* the results handed to the caller so far
  caller      \* "mapping", "aborting", "returned" or "failed"

mapVars == <<state, value, delivered, caller>>

MapInit ==
  /\ state = [t \in Task |-> "waiting"]
  /\ value \in [Task -> Result]
  /\ delivered = <<>>
  /\ caller = "mapping"

Start(t) ==
  /\ state[t] = "waiting"
  /\ Cardinality({u \in Task : state[u] = "active"}) < Cap
  /\ state' = [state EXCEPT ![t] = "active"]
  /\ UNCHANGED <<value, delivered, caller>>

\* A task works towards its value while it is active, and only then.
Work(t) ==
  /\ state[t] = "active"
  /\ \E v \in Result : value' = [value EXCEPT ![t] = v]
  /\ UNCHANGED <<state, delivered, caller>>

End(t) ==
  /\ state[t] = "active"
  /\ \E s \in {"ok", "error"} : state' = [state EXCEPT ![t] = s]
  /\ UNCHANGED <<value, delivered, caller>>

Deliver ==
  /\ caller = "mapping"
  /\ Len(delivered) < NumTasks
  /\ state[Len(delivered) + 1] = "ok"
  /\ delivered' = Append(delivered, value[Len(delivered) + 1])
  /\ UNCHANGED <<state, value, caller>>

\* Some of the tasks that have not started are dropped: those a worker has
\* already taken still run.
Abort ==
  /\ caller = "mapping"
  /\ Len(delivered) < NumTasks
  /\ state[Len(delivered) + 1] = "error"
  /\ caller' = "aborting"
  /\ \E drop \in SUBSET {t \in Task : state[t] = "waiting"} :
       state' = [t \in Task |-> IF t \in drop THEN "skipped" ELSE state[t]]
  /\ UNCHANGED <<value, delivered>>

Settle ==
  /\ \A t \in Task : state[t] \notin {"waiting", "active"}
  /\ \/ caller = "aborting" /\ caller' = "failed"
     \/ caller = "mapping" /\ Len(delivered) = NumTasks /\ caller' = "returned"
  /\ UNCHANGED <<state, value, delivered>>

MapNext ==
  \/ \E t \in Task : Start(t) \/ Work(t) \/ End(t)
  \/ Deliver \/ Abort \/ Settle

MapSpec == MapInit /\ [][MapNext]_mapVars

=============================================================================
