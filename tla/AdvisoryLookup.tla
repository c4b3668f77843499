--------------------------- MODULE AdvisoryLookup ---------------------------
(***************************************************************************)
(* The advisory clients: NVD, EPSS and KEV (enrichment/) and OSV (sbom/),  *)
(* over the shared HTTP engine (enrichment/_http.py) and the on-disk cache *)
(* that all runs share. A process is one run; it asks for one CVE, one     *)
(* package or the KEV catalog at a time, or for a set of EPSS scores.      *)
(*                                                                         *)
(* Time passes in ticks. An entry of the cache is dropped TTL ticks after  *)
(* it was written; two requests of one client are at least Interval ticks  *)
(* apart. What a source knows changes at any moment.                       *)
(***************************************************************************)
EXTENDS Integers, FiniteSets

CONSTANTS
  Process,      \* the runs of vulnpipe that share the cache directory
  Item,         \* what can be looked up
  Kind,         \* the client of an item: "nvd", "epss", "kev" or "osv"
  Data,         \* what a source may say about an item
  Nothing,      \* the empty answer: no detail, no score, {} or []
  Unset,        \* no entry in the cache, or no memo
  TTL,          \* life of a cache entry, in ticks
  Interval,     \* least distance of two requests of a client, in ticks
  MaxAttempts,  \* stop_after_attempt
  BatchSize     \* CVEs in one EPSS request

Client == {"nvd", "epss", "kev", "osv"}

ASSUME AdvisoryAssumption ==
  /\ Kind \in [Item -> Client]
  /\ Nothing \notin Data
  /\ Unset \notin Data \union {Nothing}
  /\ TTL \in Nat \ {0}
  /\ Interval \in Nat
  /\ MaxAttempts \in Nat \ {0}
  /\ BatchSize \in Nat \ {0}
  /\ \A i, j \in Item : Kind[i] = "kev" /\ Kind[j] = "kev" => i = j   \* one catalog

Answer == Data \union {Nothing}

VARIABLES
  truth,    \* source: what it would answer now
  said,     \* source: everything it has ever answered (a history)
  cache,    \* the on-disk cache: an answer per item, or Unset
  age,      \* ticks since the entry of the item was written
  phase,    \* of a process: "idle", "request" or "store"
  found,    \* the answers of the lookup in progress, so far
  missing,  \* items of the lookup that were not in the cache, nor requested yet
  chunk,    \* the items of the request in progress
  tries,    \* attempts of that request
  reply,    \* its outcome: an answer for every item it covers
  waited,   \* ticks since the last request of each client, up to Interval
  memo,     \* KevClient._catalog
  answers   \* everything the process was answered, per item (a history)

sourceVars == <<truth, said>>
cacheVars  == <<cache, age>>
vars == <<truth, said, cache, age, phase, found, missing, chunk, tries, reply,
          waited, memo, answers>>

OfKind(k) == {i \in Item : Kind[i] = k}

Record(p, f) ==   \* f: the items just answered, and their answers
  answers' = [answers EXCEPT ![p] =
    [i \in Item |-> IF i \in DOMAIN f THEN @[i] \union {f[i]} ELSE @[i]]]

-----------------------------------------------------------------------------

Idle(p) == phase[p] = "idle"

\* A client is created: no memo, and nothing to wait for.
Fresh ==
  [phase |-> "idle", found |-> [i \in {} |-> Nothing], missing |-> {},
   chunk |-> {}, tries |-> 0, reply |-> [i \in {} |-> Nothing],
   waited |-> [k \in Client |-> Interval], memo |-> Unset,
   answers |-> [i \in Item |-> {}]]

Init ==
  /\ truth \in [Item -> Answer]
  /\ said = [i \in Item |-> {}]
  /\ cache = [i \in Item |-> Unset]
  /\ age = [i \in Item |-> 0]
  /\ phase = [p \in Process |-> Fresh.phase]
  /\ found = [p \in Process |-> Fresh.found]
  /\ missing = [p \in Process |-> Fresh.missing]
  /\ chunk = [p \in Process |-> Fresh.chunk]
  /\ tries = [p \in Process |-> Fresh.tries]
  /\ reply = [p \in Process |-> Fresh.reply]
  /\ waited = [p \in Process |-> Fresh.waited]
  /\ memo = [p \in Process |-> Fresh.memo]
  /\ answers = [p \in Process |-> Fresh.answers]

\* get_catalog with the catalog loaded: memoized, a failed load included.
FromMemo(p, i) ==
  /\ Idle(p) /\ Kind[i] = "kev" /\ memo[p] # Unset
  /\ Record(p, [j \in {i} |-> memo[p]])
  /\ UNCHANGED <<sourceVars, cacheVars, phase, found, missing, chunk, tries,
                 reply, waited, memo>>

\* A lookup takes what the cache has and leaves the rest to requests. Only
\* EPSS looks several items up at once.
Lookup(p, S) ==
  LET hit(i)  == cache[i] # Unset
      start   == [i \in S |-> IF hit(i) THEN cache[i] ELSE Nothing]
      catalog == {i \in S : Kind[i] = "kev" /\ hit(i)}
  IN
  /\ Idle(p)
  /\ S # {} /\ (S \subseteq OfKind("epss") \/ \E i \in S : S = {i})
  /\ \A i \in S : Kind[i] = "kev" => memo[p] = Unset
  /\ memo' = [memo EXCEPT ![p] =
       IF catalog = {} THEN @ ELSE cache[CHOOSE i \in catalog : TRUE]]
  /\ missing' = [missing EXCEPT ![p] = {i \in S : ~hit(i)}]
  /\ IF \A i \in S : hit(i)
     THEN Record(p, start) /\ UNCHANGED <<phase, found>>
     ELSE /\ phase' = [phase EXCEPT ![p] = "request"]
          /\ found' = [found EXCEPT ![p] = start]
          /\ UNCHANGED answers
  /\ UNCHANGED <<sourceVars, cacheVars, chunk, tries, reply, waited>>

\* The next request: one item, or the next batch of EPSS items.
PickChunk(p, C) ==
  /\ phase[p] = "request" /\ chunk[p] = {}
  /\ C \subseteq missing[p]
  /\ Cardinality(C) =
       IF Cardinality(missing[p]) < BatchSize THEN Cardinality(missing[p]) ELSE BatchSize
  /\ chunk' = [chunk EXCEPT ![p] = C]
  /\ missing' = [missing EXCEPT ![p] = @ \ C]
  /\ UNCHANGED <<sourceVars, cacheVars, phase, found, tries, reply, waited, memo,
                 answers>>

\* _throttle has slept for long enough.
Throttled(p) == \A i \in chunk[p] : waited[p][Kind[i]] >= Interval

\* An attempt leaves the client: the clock of its interval starts again.
Send(p) ==
  /\ phase[p] = "request" /\ chunk[p] # {}
  /\ Throttled(p)
  /\ waited' = [waited EXCEPT ![p] =
       [k \in Client |-> IF \E i \in chunk[p] : Kind[i] = k THEN 0 ELSE @[k]]]

\* The source answers. EPSS may answer more than it was asked, and leaves out
\* what it knows nothing about.
Answered(p) ==
  /\ Send(p)
  /\ \E extra \in SUBSET {j \in OfKind("epss") : \E i \in chunk[p] : Kind[i] = "epss"} :
       LET covers == {i \in chunk[p] \union extra :
                        Kind[i] = "epss" => truth[i] # Nothing}
       IN  /\ reply' = [reply EXCEPT ![p] = [i \in covers |-> truth[i]]]
           /\ said' = [i \in Item |-> IF i \in chunk[p] \union extra
                                      THEN said[i] \union {truth[i]} ELSE said[i]]
  /\ phase' = [phase EXCEPT ![p] = "store"]
  /\ UNCHANGED <<truth, cacheVars, found, missing, chunk, tries, memo, answers>>

\* What a client makes of a failed request: no detail, no scores, {} or [].
FailedReply(p) ==
  [i \in {j \in chunk[p] : Kind[j] # "epss"} |-> Nothing]

\* A status that is not worth a retry, or a body that is not JSON.
Refused(p) ==
  /\ Send(p)
  /\ reply' = [reply EXCEPT ![p] = FailedReply(p)]
  /\ phase' = [phase EXCEPT ![p] = "store"]
  /\ UNCHANGED <<sourceVars, cacheVars, found, missing, chunk, tries, memo, answers>>

\* Mutant: transient failures are retried for as long as they last.
RetryForEver(p) ==
  /\ Send(p)
  /\ UNCHANGED <<sourceVars, cacheVars, phase, found, missing, chunk, tries, reply,
                 memo, answers>>

\* Mutant: one attempt too many.
TransientOneMore(p) ==
  /\ Send(p)
  /\ IF tries[p] < MaxAttempts
     THEN /\ tries' = [tries EXCEPT ![p] = @ + 1]
          /\ UNCHANGED <<phase, reply>>
     ELSE /\ phase' = [phase EXCEPT ![p] = "store"]
          /\ reply' = [reply EXCEPT ![p] = FailedReply(p)]
          /\ UNCHANGED tries
  /\ UNCHANGED <<sourceVars, cacheVars, found, missing, chunk, memo, answers>>

\* A transport error or a retryable status: another attempt, up to the limit.
Transient(p) ==
  /\ Send(p)
  /\ IF tries[p] + 1 < MaxAttempts
     THEN /\ tries' = [tries EXCEPT ![p] = @ + 1]
          /\ UNCHANGED <<phase, reply>>
     ELSE /\ phase' = [phase EXCEPT ![p] = "store"]
          /\ reply' = [reply EXCEPT ![p] = FailedReply(p)]
          /\ UNCHANGED tries
  /\ UNCHANGED <<sourceVars, cacheVars, found, missing, chunk, memo, answers>>

\* Mutant: every client caches whatever it got.
StoresAlways(i, v) == TRUE

\* Which outcomes a client writes to the cache: OSV all of them, the others
\* those that hold something.
Stores(i, v) == Kind[i] = "osv" \/ v # Nothing

\* Mutant: the scores of a batch are matched to the request by position.
SurfacedByPosition(p) ==
  [i \in DOMAIN found[p] |->
     IF i \in chunk[p] /\ DOMAIN reply[p] # {}
     THEN reply[p][CHOOSE j \in DOMAIN reply[p] : TRUE] ELSE found[p][i]]

\* The lookup with the reply in it: whatever was answered of what was asked,
\* not only of this batch.
Surfaced(p) ==
  [i \in DOMAIN found[p] |-> IF i \in DOMAIN reply[p] THEN reply[p][i] ELSE found[p][i]]

\* Mutant: only a catalog that was loaded is memoized.
MemoOfSuccess(p) ==
  LET catalog == {i \in chunk[p] : Kind[i] = "kev" /\ reply[p][i] # Nothing}
  IN  IF catalog = {} THEN memo[p] ELSE reply[p][CHOOSE i \in catalog : TRUE]

\* KevClient keeps the outcome of its request, the failed one included.
MemoAfter(p) ==
  LET catalog == {i \in chunk[p] : Kind[i] = "kev"}
  IN  IF catalog = {} THEN memo[p] ELSE reply[p][CHOOSE i \in catalog : TRUE]

\* The outcome goes to the cache and, after the last request, to the caller.
Store(p) ==
  LET written == {i \in DOMAIN reply[p] : Stores(i, reply[p][i])} IN
  /\ phase[p] = "store"
  /\ cache' = [i \in Item |-> IF i \in written THEN reply[p][i] ELSE cache[i]]
  /\ age' = [i \in Item |-> IF i \in written THEN 0 ELSE age[i]]
  /\ memo' = [memo EXCEPT ![p] = MemoAfter(p)]
  /\ chunk' = [chunk EXCEPT ![p] = {}]
  /\ tries' = [tries EXCEPT ![p] = 0]
  /\ reply' = [reply EXCEPT ![p] = Fresh.reply]
  /\ IF missing[p] = {}
     THEN /\ phase' = [phase EXCEPT ![p] = "idle"]
          /\ found' = [found EXCEPT ![p] = Fresh.found]
          /\ Record(p, Surfaced(p))
     ELSE /\ phase' = [phase EXCEPT ![p] = "request"]
          /\ found' = [found EXCEPT ![p] = Surfaced(p)]
          /\ UNCHANGED answers
  /\ UNCHANGED <<sourceVars, missing, waited>>

\* The process ends, at any moment, and another run starts in its place.
Restart(p) ==
  /\ phase' = [phase EXCEPT ![p] = Fresh.phase]
  /\ found' = [found EXCEPT ![p] = Fresh.found]
  /\ missing' = [missing EXCEPT ![p] = Fresh.missing]
  /\ chunk' = [chunk EXCEPT ![p] = Fresh.chunk]
  /\ tries' = [tries EXCEPT ![p] = Fresh.tries]
  /\ reply' = [reply EXCEPT ![p] = Fresh.reply]
  /\ waited' = [waited EXCEPT ![p] = Fresh.waited]
  /\ memo' = [memo EXCEPT ![p] = Fresh.memo]
  /\ answers' = [answers EXCEPT ![p] = Fresh.answers]
  /\ UNCHANGED <<sourceVars, cacheVars>>

-----------------------------------------------------------------------------

\* A source learns something, or withdraws it.
Publish(i) ==
  /\ \E v \in Answer \ {truth[i]} : truth' = [truth EXCEPT ![i] = v]
  /\ UNCHANGED <<said, cacheVars, phase, found, missing, chunk, tries, reply, waited,
                 memo, answers>>

Tick ==
  /\ cache' = [i \in Item |-> IF age[i] + 1 = TTL THEN Unset ELSE cache[i]]
  /\ age' = [i \in Item |-> IF cache[i] = Unset \/ age[i] + 1 = TTL THEN 0 ELSE age[i] + 1]
  /\ waited' = [p \in Process |-> [k \in Client |->
                  IF waited[p][k] < Interval THEN waited[p][k] + 1 ELSE Interval]]
  /\ UNCHANGED <<sourceVars, phase, found, missing, chunk, tries, reply, memo, answers>>

Advance(p) ==
  \/ \E C \in SUBSET Item : PickChunk(p, C)
  \/ Answered(p) \/ Refused(p) \/ Transient(p)
  \/ Store(p)

Next ==
  \/ \E p \in Process :
       \/ \E i \in Item : FromMemo(p, i)
       \/ \E S \in SUBSET Item : Lookup(p, S)
       \/ Advance(p)
       \/ Restart(p)
  \/ \E i \in Item : Publish(i)
  \/ Tick

Spec == Init /\ [][Next]_vars

\* Time passes and a process goes on; nothing is owed by the sources.
FairSpec == Spec /\ WF_vars(Tick) /\ \A p \in Process : WF_vars(Advance(p))

-----------------------------------------------------------------------------

\* Answers for some of the items.
Reply == UNION {[S -> Answer] : S \in SUBSET Item}

TypeOK ==
  /\ truth \in [Item -> Answer]
  /\ said \in [Item -> SUBSET Answer]
  /\ cache \in [Item -> Answer \union {Unset}]
  /\ age \in [Item -> 0..(TTL - 1)]
  /\ phase \in [Process -> {"idle", "request", "store"}]
  /\ found \in [Process -> Reply]
  /\ missing \in [Process -> SUBSET Item]
  /\ chunk \in [Process -> SUBSET Item]
  /\ tries \in [Process -> 0..(MaxAttempts - 1)]
  /\ reply \in [Process -> Reply]
  /\ waited \in [Process -> [Client -> 0..Interval]]
  /\ memo \in [Process -> Answer \union {Unset}]
  /\ answers \in [Process -> [Item -> SUBSET Answer]]

\* An outage is never remembered: whatever NVD, EPSS and KEV have in the
\* cache, their source did answer, whichever runs wrote and read it, in
\* whatever order, and wherever they were interrupted.
CacheHoldsWhatTheSourceSaid ==
  \A i \in Item :
    Kind[i] # "osv" /\ cache[i] # Unset => cache[i] \in said[i]

\* The same for OSV: osv_client.py says that a component whose lookup failed
\* is "unknown, not clean", and that it caches like the enrichment clients.
OsvCacheHoldsWhatTheSourceSaid ==
  \A i \in Item :
    Kind[i] = "osv" /\ cache[i] # Unset => cache[i] \in said[i]

\* Nothing is made up: an answer that is not empty is one the source gave for
\* that very item, even when it came out of a batch, a memo or the cache.
NothingFabricated ==
  \A p \in Process, i \in Item : answers[p][i] \subseteq said[i] \union {Nothing}

\* Within one run the KEV catalog never changes, so that two findings that
\* cite the same CVE never disagree, even if the catalog could not be loaded
\* at first or has been updated since.
OneCatalogPerRun ==
  \A p \in Process, i \in OfKind("kev") : \A v, w \in answers[p][i] : v = w

\* Every lookup comes back, even if its source never does, unless the run is
\* ended first.
LookupsReturn ==
  \A p \in Process : phase[p] # "idle" ~> phase[p] = "idle"

=============================================================================
