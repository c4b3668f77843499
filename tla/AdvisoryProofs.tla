--------------------------- MODULE AdvisoryProofs ---------------------------
(***************************************************************************)
(* Proofs about AdvisoryLookup, for any runs, items, sources, bounds and   *)
(* batch size: the types, that the cache and the answers hold only what a  *)
(* source said, that a run sees one KEV catalog, and that requests keep    *)
(* their distance.                                                         *)
(***************************************************************************)
EXTENDS AdvisoryLookup, TLAPS

-----------------------------------------------------------------------------
(* What the properties need to be inductive.                               *)

\* Nothing is left of a lookup when it is over.
IdleIsClean ==
  \A p \in Process : phase[p] = "idle" => chunk[p] = {} /\ DOMAIN found[p] = {}

\* A request for the catalog has an outcome.
CatalogAnswered ==
  \A p \in Process : phase[p] = "store" =>
    \A i \in chunk[p] : Kind[i] = "kev" => i \in DOMAIN reply[p]

\* The catalog is looked up on its own, and only while it is not memoized.
CatalogAlone ==
  \A p \in Process, i \in Item :
    Kind[i] = "kev" /\ i \in chunk[p] \union missing[p] \union DOMAIN found[p]
      => /\ memo[p] = Unset
         /\ \/ chunk[p] = {i} /\ missing[p] = {}
            \/ chunk[p] = {} /\ missing[p] = {i}

\* All answers a run had about the catalog are the memoized one.
MemoAgrees ==
  \A p \in Process, i \in Item :
    Kind[i] = "kev" => \A v \in answers[p][i] : v = memo[p]

Bookkeeping == TypeOK /\ IdleIsClean /\ CatalogAnswered /\ CatalogAlone

\* Every copy of an answer is something its source said, or the empty answer
\* that stands for a failure; of the cached ones, only OSV's may be that.
CacheSound ==
  \A i \in Item : cache[i] # Unset =>
    cache[i] \in said[i] \/ (Kind[i] = "osv" /\ cache[i] = Nothing)

Sound(f) == \A i \in DOMAIN f : f[i] \in said[i] \union {Nothing}

CopiesSound ==
  /\ \A p \in Process : Sound(found[p]) /\ Sound(reply[p])
  /\ \A p \in Process, i \in Item :
       Kind[i] = "kev" /\ memo[p] # Unset => memo[p] \in said[i] \union {Nothing}

-----------------------------------------------------------------------------
(* Type correctness and the bookkeeping of a lookup.                       *)

\* A function of answers on some of the items is a Reply.
LEMMA ReplyElements ==
  ASSUME NEW r
  PROVE  r \in Reply <=> DOMAIN r \subseteq Item /\ r \in [DOMAIN r -> Answer]
BY DEF Reply

LEMMA EmptyReply ==
  [i \in {} |-> Nothing] \in Reply /\ DOMAIN [i \in {} |-> Nothing] = {}
<1>1. DOMAIN [i \in {} |-> Nothing] = {}
  OBVIOUS
<1> QED
  BY <1>1, ReplyElements

\* The catalog, if there is one among some items, is what CHOOSE picks.
LEMMA OneCatalog ==
  ASSUME NEW S \in SUBSET Item, NEW c \in S, Kind[c] = "kev",
         \A i \in S : Kind[i] = "kev"
  PROVE  (CHOOSE i \in S : TRUE) = c
<1>1. (CHOOSE i \in S : TRUE) \in S
  OBVIOUS
<1> QED
  BY <1>1, AdvisoryAssumption

LEMMA TypeInit == Init => TypeOK
<1> SUFFICES ASSUME Init PROVE TypeOK
  OBVIOUS
<1>1. Fresh.found \in Reply /\ Fresh.reply \in Reply
  BY EmptyReply DEF Fresh
<1>2. /\ Fresh.phase = "idle" /\ Fresh.missing = {} /\ Fresh.chunk = {}
      /\ Fresh.tries = 0 /\ Fresh.memo = Unset
      /\ Fresh.waited = [k \in Client |-> Interval]
      /\ Fresh.answers = [i \in Item |-> {}]
  BY DEF Fresh
<1>3. 0 \in 0..(TTL - 1) /\ 0 \in 0..(MaxAttempts - 1) /\ Interval \in 0..Interval
  BY AdvisoryAssumption
<1> QED
  BY <1>1, <1>2, <1>3 DEF Init, TypeOK

LEMMA RecordType ==
  ASSUME TypeOK, NEW p \in Process, NEW f \in Reply, Record(p, f)
  PROVE  answers' \in [Process -> [Item -> SUBSET Answer]]
<1>1. /\ answers \in [Process -> [Item -> SUBSET Answer]]
      /\ DOMAIN f \subseteq Item /\ f \in [DOMAIN f -> Answer]
  BY ReplyElements DEF TypeOK
<1> DEFINE g == [i \in Item |-> IF i \in DOMAIN f THEN answers[p][i] \union {f[i]}
                                ELSE answers[p][i]]
<1>2. g \in [Item -> SUBSET Answer]
  BY <1>1
<1>3. answers' = [answers EXCEPT ![p] = g]
  BY DEF Record
<1> QED
  BY <1>1, <1>2, <1>3

LEMMA FromMemoBooks ==
  ASSUME Bookkeeping, NEW p \in Process, NEW i \in Item, FromMemo(p, i)
  PROVE  Bookkeeping'
<1> DEFINE f == [j \in {i} |-> memo[p]]
<1>1. f \in Reply
  <2>1. memo[p] \in Answer
    BY DEF Bookkeeping, TypeOK, FromMemo
  <2> QED
    BY <2>1, ReplyElements
<1>2. answers' \in [Process -> [Item -> SUBSET Answer]]
  BY <1>1, RecordType DEF FromMemo, Bookkeeping
<1>3. TypeOK'
  BY <1>2 DEF FromMemo, Bookkeeping, TypeOK, sourceVars, cacheVars
<1>4. IdleIsClean' /\ CatalogAnswered' /\ CatalogAlone'
  BY DEF FromMemo, Bookkeeping, IdleIsClean, CatalogAnswered, CatalogAlone
<1> QED
  BY <1>3, <1>4 DEF Bookkeeping

LEMMA LookupBooks ==
  ASSUME Bookkeeping, NEW p \in Process, NEW S \in SUBSET Item, Lookup(p, S)
  PROVE  Bookkeeping'
<1> DEFINE start == [i \in S |-> IF cache[i] # Unset THEN cache[i] ELSE Nothing]
           catalog == {i \in S : Kind[i] = "kev" /\ cache[i] # Unset}
<1>1. TypeOK /\ phase[p] = "idle" /\ chunk[p] = {} /\ DOMAIN found[p] = {}
  BY DEF Lookup, Idle, Bookkeeping, IdleIsClean
<1>2. \A i \in S : cache[i] \in Answer \union {Unset}
  BY <1>1 DEF TypeOK
<1>3. start \in Reply
  BY <1>2, ReplyElements DEF Answer
<1>4. answers' \in [Process -> [Item -> SUBSET Answer]]
  <2>1. CASE \A i \in S : cache[i] # Unset
    BY <2>1, <1>1, <1>3, RecordType DEF Lookup
  <2>2. CASE ~ \A i \in S : cache[i] # Unset
    BY <2>2, <1>1 DEF Lookup, TypeOK
  <2> QED
    BY <2>1, <2>2
<1>5. /\ found' \in [Process -> Reply]
      /\ phase' \in [Process -> {"idle", "request", "store"}]
  <2>1. CASE \A i \in S : cache[i] # Unset
    BY <2>1, <1>1 DEF Lookup, TypeOK
  <2>2. CASE ~ \A i \in S : cache[i] # Unset
    <3>1. /\ found' = [found EXCEPT ![p] = start]
          /\ phase' = [phase EXCEPT ![p] = "request"]
      BY <2>2 DEF Lookup
    <3>2. /\ found \in [Process -> Reply]
          /\ phase \in [Process -> {"idle", "request", "store"}]
      BY <1>1 DEF TypeOK
    <3> HIDE DEF start
    <3> QED
      BY <3>1, <3>2, <1>3
  <2> QED
    BY <2>1, <2>2
<1>6. memo' \in [Process -> Answer \union {Unset}]
  <2>1. CASE catalog = {}
    BY <2>1, <1>1 DEF Lookup, TypeOK
  <2>2. CASE catalog # {}
    <3>1. (CHOOSE i \in catalog : TRUE) \in catalog
      BY <2>2
    <3>2. memo' = [memo EXCEPT ![p] = cache[CHOOSE i \in catalog : TRUE]]
      BY <2>2 DEF Lookup
    <3> QED
      BY <3>1, <3>2, <1>1, <1>2 DEF TypeOK
  <2> QED
    BY <2>1, <2>2
<1>7. TypeOK'
  <2>1. missing' \in [Process -> SUBSET Item]
    BY <1>1 DEF Lookup, TypeOK
  <2>2. UNCHANGED <<truth, said, cache, age, chunk, tries, reply, waited>>
    BY DEF Lookup, sourceVars, cacheVars
  <2> QED
    BY <2>1, <2>2, <1>1, <1>4, <1>5, <1>6 DEF TypeOK
<1>8. IdleIsClean'
  <2>1. chunk' = chunk
    BY DEF Lookup
  <2>2. CASE \A i \in S : cache[i] # Unset
    BY <2>1, <2>2 DEF Lookup, Bookkeeping, IdleIsClean
  <2>3. CASE ~ \A i \in S : cache[i] # Unset
    BY <2>1, <2>3, <1>1 DEF Lookup, Bookkeeping, IdleIsClean, TypeOK
  <2> QED
    BY <2>2, <2>3
<1>9. CatalogAnswered'
  <2>1. UNCHANGED <<chunk, reply>>
    BY DEF Lookup
  <2>2. \A q \in Process : phase'[q] = "store" => phase[q] = "store"
    <3>1. CASE \A i \in S : cache[i] # Unset
      BY <3>1 DEF Lookup
    <3>2. CASE ~ \A i \in S : cache[i] # Unset
      BY <3>2, <1>1 DEF Lookup, TypeOK
    <3> QED
      BY <3>1, <3>2
  <2> QED
    BY <2>1, <2>2 DEF Bookkeeping, CatalogAnswered
<1>10. CatalogAlone'
  <2> SUFFICES ASSUME NEW q \in Process, NEW i \in Item, Kind[i] = "kev",
                      i \in chunk'[q] \union missing'[q] \union DOMAIN found'[q]
               PROVE  /\ memo'[q] = Unset
                      /\ \/ chunk'[q] = {i} /\ missing'[q] = {}
                         \/ chunk'[q] = {} /\ missing'[q] = {i}
    BY DEF CatalogAlone
  <2>1. chunk' = chunk
    BY DEF Lookup
  <2>2. CASE q # p
    <3>1. memo'[q] = memo[q] /\ missing'[q] = missing[q]
      BY <2>2, <1>1 DEF Lookup, TypeOK
    <3>2. found'[q] = found[q]
      <4>1. CASE \A j \in S : cache[j] # Unset
        BY <4>1 DEF Lookup
      <4>2. CASE ~ \A j \in S : cache[j] # Unset
        BY <4>2, <2>2, <1>1 DEF Lookup, TypeOK
      <4> QED
        BY <4>1, <4>2
    <3> QED
      BY <2>1, <3>1, <3>2 DEF Bookkeeping, CatalogAlone
  <2>3. CASE q = p
    <3>1. missing'[p] = {j \in S : ~(cache[j] # Unset)}
      BY <1>1 DEF Lookup, TypeOK
    <3>2. i \in S /\ ~ \A j \in S : cache[j] # Unset
      <4>1. CASE \A j \in S : cache[j] # Unset
        <5>1. found' = found /\ missing'[p] = {}
          BY <4>1, <3>1 DEF Lookup
        <5> QED
          BY <5>1, <2>1, <2>3, <1>1
      <4>2. CASE ~ \A j \in S : cache[j] # Unset
        <5>1. found'[p] = start
          BY <4>2, <1>1 DEF Lookup, TypeOK
        <5> QED
          BY <5>1, <4>2, <2>1, <2>3, <1>1, <3>1
      <4> QED
        BY <4>1, <4>2
    <3>3. S = {i}
      BY <3>2, AdvisoryAssumption DEF Lookup, OfKind
    <3>4. missing'[p] = {i} /\ catalog = {}
      BY <3>1, <3>2, <3>3
    <3>5. memo'[p] = memo[p] /\ memo[p] = Unset
      BY <3>4, <3>2, <1>1 DEF Lookup, TypeOK
    <3> QED
      BY <3>4, <3>5, <2>1, <2>3, <1>1
  <2> QED
    BY <2>2, <2>3
<1> QED
  BY <1>7, <1>8, <1>9, <1>10 DEF Bookkeeping

LEMMA PickChunkBooks ==
  ASSUME Bookkeeping, NEW p \in Process, NEW C \in SUBSET Item, PickChunk(p, C)
  PROVE  Bookkeeping'
<1>1. TypeOK /\ phase[p] = "request" /\ chunk[p] = {} /\ C \subseteq missing[p]
  BY DEF PickChunk, Bookkeeping
<1>2. /\ chunk' = [chunk EXCEPT ![p] = C]
      /\ missing' = [missing EXCEPT ![p] = missing[p] \ C]
      /\ UNCHANGED <<truth, said, cache, age, phase, found, tries, reply, waited, memo,
                     answers>>
  BY DEF PickChunk, sourceVars, cacheVars
<1>3. TypeOK'
  BY <1>1, <1>2 DEF TypeOK
<1>4. IdleIsClean' /\ CatalogAnswered'
  BY <1>1, <1>2 DEF Bookkeeping, IdleIsClean, CatalogAnswered, TypeOK
<1>5. CatalogAlone'
  <2>1. /\ chunk'[p] = C /\ missing'[p] = missing[p] \ C
        /\ \A q \in Process \ {p} : chunk'[q] = chunk[q] /\ missing'[q] = missing[q]
    BY <1>1, <1>2 DEF TypeOK
  <2>2. CatalogAlone /\ UNCHANGED <<found, memo>>
    BY <1>2 DEF Bookkeeping
  <2>3. \A i \in Item : missing[p] = {i} => C = {} \/ C = {i}
    BY <1>1
  <2> QED
    BY ONLY <1>1, <2>1, <2>2, <2>3, p \in Process DEF CatalogAlone
<1> QED
  BY <1>3, <1>4, <1>5 DEF Bookkeeping

\* What the three outcomes of an attempt have in common.
LEMMA SendType ==
  ASSUME TypeOK, NEW p \in Process, Send(p)
  PROVE  /\ phase[p] = "request"
         /\ waited' \in [Process -> [Client -> 0..Interval]]
<1>1. /\ waited \in [Process -> [Client -> 0..Interval]]
      /\ 0 \in 0..Interval
  BY AdvisoryAssumption DEF TypeOK
<1> DEFINE w == [k \in Client |-> IF \E i \in chunk[p] : Kind[i] = k THEN 0
                                  ELSE waited[p][k]]
<1>2. w \in [Client -> 0..Interval]
  BY <1>1
<1>3. waited' = [waited EXCEPT ![p] = w]
  BY DEF Send
<1>4. phase[p] = "request"
  BY DEF Send
<1> HIDE DEF w
<1> QED
  BY <1>1, <1>2, <1>3, <1>4

\* A reply arrives, or the client makes one up for a failure.
LEMMA ReplyBooks ==
  ASSUME Bookkeeping, NEW p \in Process, NEW r \in Reply,
         \A i \in chunk[p] : Kind[i] = "kev" => i \in DOMAIN r,
         phase' = [phase EXCEPT ![p] = "store"],
         reply' = [reply EXCEPT ![p] = r],
         said' \in [Item -> SUBSET Answer],
         waited' \in [Process -> [Client -> 0..Interval]],
         UNCHANGED <<truth, cache, age, found, missing, chunk, tries, memo, answers>>
  PROVE  Bookkeeping'
<1>1. TypeOK'
  BY DEF Bookkeeping, TypeOK
<1>2. IdleIsClean' /\ CatalogAnswered'
  BY DEF Bookkeeping, IdleIsClean, CatalogAnswered, TypeOK
<1>3. CatalogAlone'
  BY DEF Bookkeeping, CatalogAlone
<1> QED
  BY <1>1, <1>2, <1>3 DEF Bookkeeping

LEMMA FailedReplyType ==
  ASSUME TypeOK, NEW p \in Process
  PROVE  /\ FailedReply(p) \in Reply
         /\ \A i \in chunk[p] : Kind[i] = "kev" => i \in DOMAIN FailedReply(p)
         /\ \A i \in DOMAIN FailedReply(p) : FailedReply(p)[i] = Nothing
BY ReplyElements DEF TypeOK, FailedReply, Answer

LEMMA AnsweredBooks ==
  ASSUME Bookkeeping, NEW p \in Process, Answered(p)
  PROVE  Bookkeeping'
<1>1. TypeOK /\ Send(p)
  BY DEF Bookkeeping, Answered
<1>2. PICK extra \in SUBSET {j \in OfKind("epss") : \E i \in chunk[p] : Kind[i] = "epss"} :
        LET covers == {i \in chunk[p] \union extra : Kind[i] = "epss" => truth[i] # Nothing}
        IN  /\ reply' = [reply EXCEPT ![p] = [i \in covers |-> truth[i]]]
            /\ said' = [i \in Item |-> IF i \in chunk[p] \union extra
                                       THEN said[i] \union {truth[i]} ELSE said[i]]
  BY DEF Answered
<1> DEFINE covers == {i \in chunk[p] \union extra : Kind[i] = "epss" => truth[i] # Nothing}
           r == [i \in covers |-> truth[i]]
<1>3. covers \subseteq Item /\ \A i \in covers : truth[i] \in Answer
  BY <1>1 DEF TypeOK, OfKind
<1>4. r \in Reply
  BY <1>3, ReplyElements
<1>5. said' \in [Item -> SUBSET Answer]
  BY <1>1, <1>2 DEF TypeOK
<1>6. \A i \in chunk[p] : Kind[i] = "kev" => i \in DOMAIN r
  OBVIOUS
<1>7. /\ reply' = [reply EXCEPT ![p] = r]
      /\ phase' = [phase EXCEPT ![p] = "store"]
      /\ UNCHANGED <<truth, cache, age, found, missing, chunk, tries, memo, answers>>
  BY <1>2 DEF Answered, cacheVars
<1> HIDE DEF r
<1> QED
  BY <1>1, <1>4, <1>5, <1>6, <1>7, SendType, ReplyBooks

LEMMA RefusedBooks ==
  ASSUME Bookkeeping, NEW p \in Process, Refused(p)
  PROVE  Bookkeeping'
<1>1. /\ TypeOK /\ Send(p)
      /\ reply' = [reply EXCEPT ![p] = FailedReply(p)]
      /\ phase' = [phase EXCEPT ![p] = "store"]
      /\ UNCHANGED <<truth, said, cache, age, found, missing, chunk, tries, memo, answers>>
  BY DEF Bookkeeping, Refused, sourceVars, cacheVars
<1>2. said' \in [Item -> SUBSET Answer]
  BY <1>1 DEF TypeOK
<1> QED
  BY <1>1, <1>2, SendType, FailedReplyType, ReplyBooks

LEMMA TransientBooks ==
  ASSUME Bookkeeping, NEW p \in Process, Transient(p)
  PROVE  Bookkeeping'
<1>1. /\ TypeOK /\ Send(p)
      /\ UNCHANGED <<truth, said, cache, age, found, missing, chunk, memo, answers>>
  BY DEF Bookkeeping, Transient, sourceVars, cacheVars
<1>2. waited' \in [Process -> [Client -> 0..Interval]]
  BY <1>1, SendType
<1>3. CASE tries[p] + 1 < MaxAttempts
  <2>1. tries' = [tries EXCEPT ![p] = tries[p] + 1] /\ UNCHANGED <<phase, reply>>
    BY <1>3 DEF Transient
  <2>2. tries' \in [Process -> 0..(MaxAttempts - 1)]
    <3>1. tries \in [Process -> 0..(MaxAttempts - 1)] /\ MaxAttempts \in Nat
      BY <1>1, AdvisoryAssumption DEF TypeOK
    <3>2. tries[p] + 1 \in 0..(MaxAttempts - 1)
      BY ONLY <1>3, <3>1, p \in Process
    <3> QED
      BY <2>1, <3>1, <3>2
  <2>3. TypeOK'
    BY <1>1, <1>2, <2>1, <2>2 DEF TypeOK
  <2> QED
    BY <1>1, <2>1, <2>3 DEF Bookkeeping, IdleIsClean, CatalogAnswered, CatalogAlone
<1>4. CASE ~(tries[p] + 1 < MaxAttempts)
  <2>1. /\ phase' = [phase EXCEPT ![p] = "store"]
        /\ reply' = [reply EXCEPT ![p] = FailedReply(p)]
        /\ UNCHANGED tries
    BY <1>4 DEF Transient
  <2>2. said' \in [Item -> SUBSET Answer]
    BY <1>1 DEF TypeOK
  <2> QED
    BY <1>1, <1>2, <2>1, <2>2, FailedReplyType, ReplyBooks
<1> QED
  BY <1>3, <1>4

LEMMA SurfacedType ==
  ASSUME TypeOK, NEW p \in Process
  PROVE  /\ Surfaced(p) \in Reply
         /\ DOMAIN Surfaced(p) = DOMAIN found[p]
<1>1. /\ DOMAIN found[p] \subseteq Item /\ \A i \in DOMAIN found[p] : found[p][i] \in Answer
      /\ \A i \in DOMAIN reply[p] : reply[p][i] \in Answer
  BY ReplyElements DEF TypeOK
<1>2. Surfaced(p) \in [DOMAIN found[p] -> Answer]
  BY <1>1 DEF Surfaced
<1> QED
  BY <1>1, <1>2, ReplyElements

\* KevClient has its catalog after a request for it, and only then.
LEMMA MemoAfterValue ==
  ASSUME Bookkeeping, NEW p \in Process, phase[p] = "store"
  PROVE  \/ /\ MemoAfter(p) = memo[p]
            /\ \A i \in chunk[p] : Kind[i] # "kev"
         \/ \E i \in chunk[p] : /\ Kind[i] = "kev" /\ i \in DOMAIN reply[p]
                                /\ MemoAfter(p) = reply[p][i]
<1> DEFINE catalog == {i \in chunk[p] : Kind[i] = "kev"}
<1>1. CASE catalog = {}
  BY <1>1 DEF MemoAfter
<1>2. CASE catalog # {}
  <2>1. (CHOOSE i \in catalog : TRUE) \in catalog
    BY <1>2
  <2>2. MemoAfter(p) = reply[p][CHOOSE i \in catalog : TRUE]
    BY <1>2 DEF MemoAfter
  <2> QED
    BY <2>1, <2>2 DEF Bookkeeping, CatalogAnswered
<1> QED
  BY <1>1, <1>2

\* What Store does, after the last request of a lookup and after another.
StoreEffect(p) ==
  /\ phase[p] = "store"
  /\ memo' = [memo EXCEPT ![p] = MemoAfter(p)]
  /\ chunk' = [chunk EXCEPT ![p] = {}]
  /\ tries' = [tries EXCEPT ![p] = 0]
  /\ reply' = [reply EXCEPT ![p] = Fresh.reply]
  /\ UNCHANGED <<truth, said, missing, waited>>
  /\ \/ /\ missing[p] = {}
        /\ phase' = [phase EXCEPT ![p] = "idle"]
        /\ found' = [found EXCEPT ![p] = Fresh.found]
        /\ Record(p, Surfaced(p))
     \/ /\ missing[p] # {}
        /\ phase' = [phase EXCEPT ![p] = "request"]
        /\ found' = [found EXCEPT ![p] = Surfaced(p)]
        /\ UNCHANGED answers

LEMMA StoreParts ==
  ASSUME NEW p \in Process, Store(p)
  PROVE  StoreEffect(p)
<1>1. CASE missing[p] = {}
  BY <1>1 DEF Store, StoreEffect, sourceVars
<1>2. CASE missing[p] # {}
  BY <1>2 DEF Store, StoreEffect, sourceVars
<1> QED
  BY <1>1, <1>2

LEMMA StoreType ==
  ASSUME Bookkeeping, NEW p \in Process, Store(p)
  PROVE  TypeOK'
<1>1. TypeOK
  BY DEF Bookkeeping
<1>2. \A i \in DOMAIN reply[p] : reply[p][i] \in Answer
  BY <1>1, ReplyElements DEF TypeOK
<1>3. cache' \in [Item -> Answer \union {Unset}]
  BY <1>1, <1>2 DEF Store, TypeOK
<1>4. age' \in [Item -> 0..(TTL - 1)]
  <2>1. age \in [Item -> 0..(TTL - 1)] /\ 0 \in 0..(TTL - 1)
    BY <1>1, AdvisoryAssumption DEF TypeOK
  <2> DEFINE W == {i \in DOMAIN reply[p] : Stores(i, reply[p][i])}
  <2>2. age' = [i \in Item |-> IF i \in W THEN 0 ELSE age[i]]
    BY DEF Store
  <2> HIDE DEF W
  <2> QED
    BY <2>1, <2>2
<1>e. StoreEffect(p)
  BY StoreParts
<1>5. MemoAfter(p) \in Answer \union {Unset}
  <2>1. memo[p] \in Answer \union {Unset} /\ phase[p] = "store"
    BY <1>1, <1>e DEF TypeOK, StoreEffect
  <2> QED
    BY <2>1, <1>2, MemoAfterValue
<1>6. memo' \in [Process -> Answer \union {Unset}]
  <2>1. memo \in [Process -> Answer \union {Unset}]
    BY <1>1 DEF TypeOK
  <2> QED
    BY <2>1, <1>5, <1>e DEF StoreEffect
<1>7. found' \in [Process -> Reply]
  <2>1. Fresh.found \in Reply
    BY EmptyReply DEF Fresh
  <2>2. found \in [Process -> Reply] /\ Surfaced(p) \in Reply
    BY <1>1, SurfacedType DEF TypeOK
  <2> QED
    BY <2>1, <2>2, <1>e DEF StoreEffect
<1>8. answers' \in [Process -> [Item -> SUBSET Answer]]
  <2>1. UNCHANGED answers \/ Record(p, Surfaced(p))
    BY <1>e DEF StoreEffect
  <2>2. CASE UNCHANGED answers
    BY <2>2, <1>1 DEF TypeOK
  <2>3. CASE Record(p, Surfaced(p))
    BY <2>3, <1>1, SurfacedType, RecordType
  <2> QED
    BY <2>1, <2>2, <2>3
<1>9. /\ reply' \in [Process -> Reply]
      /\ chunk' \in [Process -> SUBSET Item]
      /\ phase' \in [Process -> {"idle", "request", "store"}]
  <2>1. Fresh.reply \in Reply
    BY EmptyReply DEF Fresh
  <2>2. /\ reply \in [Process -> Reply] /\ chunk \in [Process -> SUBSET Item]
        /\ phase \in [Process -> {"idle", "request", "store"}]
    BY <1>1 DEF TypeOK
  <2> QED
    BY <2>1, <2>2, <1>e DEF StoreEffect
<1>10. tries' \in [Process -> 0..(MaxAttempts - 1)]
  <2>1. tries \in [Process -> 0..(MaxAttempts - 1)] /\ 0 \in 0..(MaxAttempts - 1)
    BY <1>1, AdvisoryAssumption DEF TypeOK
  <2> QED
    BY <2>1, <1>e DEF StoreEffect
<1>11. UNCHANGED <<truth, said, missing, waited>>
  BY <1>e DEF StoreEffect
<1> QED
  BY <1>1, <1>3, <1>4, <1>6, <1>7, <1>8, <1>9, <1>10, <1>11 DEF TypeOK

LEMMA StoreBooks ==
  ASSUME Bookkeeping, NEW p \in Process, Store(p)
  PROVE  Bookkeeping'
<1>1. TypeOK /\ TypeOK'
  BY StoreType DEF Bookkeeping
<1>2. DOMAIN Fresh.found = {}
  BY EmptyReply DEF Fresh
<1>e. StoreEffect(p)
  BY StoreParts
<1>3. /\ DOMAIN phase = Process /\ DOMAIN found = Process /\ DOMAIN chunk = Process
      /\ DOMAIN memo = Process /\ DOMAIN reply = Process
  BY <1>1 DEF TypeOK
<1>4. IdleIsClean'
  BY <1>2, <1>3, <1>e DEF StoreEffect, Bookkeeping, IdleIsClean
<1>5. CatalogAnswered'
  BY <1>3, <1>e DEF StoreEffect, Bookkeeping, CatalogAnswered
<1>6. CatalogAlone'
  <2> SUFFICES ASSUME NEW q \in Process, NEW i \in Item, Kind[i] = "kev",
                      i \in chunk'[q] \union missing'[q] \union DOMAIN found'[q]
               PROVE  /\ memo'[q] = Unset
                      /\ \/ chunk'[q] = {i} /\ missing'[q] = {}
                         \/ chunk'[q] = {} /\ missing'[q] = {i}
    BY DEF CatalogAlone
  <2>1. CASE q # p
    <3>1. /\ chunk'[q] = chunk[q] /\ missing'[q] = missing[q]
          /\ found'[q] = found[q] /\ memo'[q] = memo[q]
      BY <2>1, <1>3, <1>e DEF StoreEffect
    <3> QED
      BY <3>1 DEF Bookkeeping, CatalogAlone
  <2>2. CASE q = p
    <3>1. chunk'[p] = {} /\ missing'[p] = missing[p]
      BY <1>3, <1>e DEF StoreEffect
    <3>2. DOMAIN found'[p] \subseteq DOMAIN found[p]
      <4>1. DOMAIN Surfaced(p) = DOMAIN found[p]
        BY <1>1, SurfacedType
      <4> QED
        BY <4>1, <1>2, <1>3, <1>e DEF StoreEffect
    <3>3. memo[p] = Unset /\ \/ chunk[p] = {i} /\ missing[p] = {}
                             \/ chunk[p] = {} /\ missing[p] = {i}
      BY <2>2, <3>1, <3>2 DEF Bookkeeping, CatalogAlone
    <3>4. missing[p] # {}
      <4>1. CASE missing[p] = {}
        <5>1. DOMAIN found'[p] = {}
          BY <4>1, <1>2, <1>3, <1>e DEF StoreEffect
        <5> QED
          BY <5>1, <4>1, <3>1, <2>2
      <4> QED
        BY <4>1
    <3>5. chunk[p] = {} /\ missing[p] = {i}
      BY <3>3, <3>4
    <3>6. memo'[p] = memo[p]
      <4>1. MemoAfter(p) = memo[p]
        BY <3>5, <1>e, MemoAfterValue DEF StoreEffect
      <4> QED
        BY <4>1, <1>3, <1>e DEF StoreEffect
    <3> QED
      BY <2>2, <3>1, <3>3, <3>5, <3>6
  <2> QED
    BY <2>1, <2>2
<1> QED
  BY <1>1, <1>4, <1>5, <1>6 DEF Bookkeeping

LEMMA RestartBooks ==
  ASSUME Bookkeeping, NEW p \in Process, Restart(p)
  PROVE  Bookkeeping'
<1>1. /\ Fresh.found \in Reply /\ Fresh.reply \in Reply /\ DOMAIN Fresh.found = {}
  BY EmptyReply DEF Fresh
<1>2. /\ Fresh.phase = "idle" /\ Fresh.missing = {} /\ Fresh.chunk = {}
      /\ Fresh.tries = 0 /\ Fresh.memo = Unset
      /\ Fresh.waited = [k \in Client |-> Interval]
      /\ Fresh.answers = [i \in Item |-> {}]
  BY DEF Fresh
<1>3. /\ 0 \in 0..(MaxAttempts - 1) /\ Fresh.waited \in [Client -> 0..Interval]
  BY <1>2, AdvisoryAssumption
<1>4. TypeOK'
  <2>1. Fresh.tries \in 0..(MaxAttempts - 1)
    BY <1>2, <1>3
  <2>2. tries' \in [Process -> 0..(MaxAttempts - 1)]
    BY <2>1 DEF Bookkeeping, TypeOK, Restart
  <2>3. waited' \in [Process -> [Client -> 0..Interval]]
    BY <1>3 DEF Bookkeeping, TypeOK, Restart
  <2>4. UNCHANGED <<truth, said, cache, age>>
    BY DEF Restart, sourceVars, cacheVars
  <2>5. found' \in [Process -> Reply] /\ reply' \in [Process -> Reply]
    BY <1>1 DEF Bookkeeping, TypeOK, Restart
  <2>6. /\ phase' \in [Process -> {"idle", "request", "store"}]
        /\ missing' \in [Process -> SUBSET Item]
        /\ chunk' \in [Process -> SUBSET Item]
        /\ memo' \in [Process -> Answer \union {Unset}]
        /\ answers' \in [Process -> [Item -> SUBSET Answer]]
    BY <1>2 DEF Bookkeeping, TypeOK, Restart
  <2> QED
    BY <2>2, <2>3, <2>4, <2>5, <2>6 DEF Bookkeeping, TypeOK
<1>5. IdleIsClean' /\ CatalogAnswered'
  BY <1>1, <1>2 DEF Restart, Bookkeeping, IdleIsClean, CatalogAnswered, TypeOK
<1>6. CatalogAlone'
  <2>1. /\ chunk'[p] = {} /\ missing'[p] = {} /\ DOMAIN found'[p] = {}
        /\ \A q \in Process : q # p =>
              /\ chunk'[q] = chunk[q] /\ missing'[q] = missing[q]
              /\ found'[q] = found[q] /\ memo'[q] = memo[q]
    BY <1>1, <1>2 DEF Restart, Bookkeeping, TypeOK
  <2>2. CatalogAlone
    BY DEF Bookkeeping
  <2> QED
    BY <2>1, <2>2, Zenon DEF CatalogAlone
<1> QED
  BY <1>4, <1>5, <1>6 DEF Bookkeeping

LEMMA PublishBooks ==
  ASSUME Bookkeeping, NEW i \in Item, Publish(i)
  PROVE  Bookkeeping'
<1>1. truth' \in [Item -> Answer]
  BY DEF Publish, Bookkeeping, TypeOK
<1> QED
  BY <1>1 DEF Publish, Bookkeeping, TypeOK, IdleIsClean, CatalogAnswered,
              CatalogAlone, cacheVars

LEMMA TickBooks ==
  ASSUME Bookkeeping, Tick
  PROVE  Bookkeeping'
<1>1. cache' \in [Item -> Answer \union {Unset}]
  BY DEF Tick, Bookkeeping, TypeOK
<1>2. age' \in [Item -> 0..(TTL - 1)]
  <2>1. age \in [Item -> 0..(TTL - 1)] /\ TTL \in Nat \ {0}
    BY AdvisoryAssumption DEF Bookkeeping, TypeOK
  <2>2. \A i \in Item : age[i] + 1 # TTL => age[i] + 1 \in 0..(TTL - 1)
    BY <2>1
  <2> QED
    BY <2>1, <2>2 DEF Tick
<1>3. waited' \in [Process -> [Client -> 0..Interval]]
  <2>1. waited \in [Process -> [Client -> 0..Interval]] /\ Interval \in Nat
    BY AdvisoryAssumption DEF Bookkeeping, TypeOK
  <2>2. \A p \in Process, k \in Client :
          waited[p][k] < Interval => waited[p][k] + 1 \in 0..Interval
    BY <2>1
  <2> QED
    BY <2>1, <2>2 DEF Tick
<1>4. UNCHANGED <<truth, said, phase, found, missing, chunk, tries, reply, memo, answers>>
  BY DEF Tick, sourceVars
<1> QED
  BY <1>1, <1>2, <1>3, <1>4
     DEF Bookkeeping, TypeOK, IdleIsClean, CatalogAnswered, CatalogAlone

LEMMA NextBooks == Bookkeeping /\ [Next]_vars => Bookkeeping'
<1> SUFFICES ASSUME Bookkeeping, [Next]_vars PROVE Bookkeeping'
  OBVIOUS
<1>1. CASE UNCHANGED vars
  BY <1>1 DEF vars, Bookkeeping, TypeOK, IdleIsClean, CatalogAnswered, CatalogAlone
<1>2. CASE Next
  BY <1>2, FromMemoBooks, LookupBooks, PickChunkBooks, AnsweredBooks, RefusedBooks,
     TransientBooks, StoreBooks, RestartBooks, PublishBooks, TickBooks DEF Next, Advance
<1> QED
  BY <1>1, <1>2

LEMMA BooksInvariant == Spec => []Bookkeeping
<1>1. Init => Bookkeeping
  <2> SUFFICES ASSUME Init PROVE IdleIsClean /\ CatalogAnswered /\ CatalogAlone
    BY TypeInit DEF Bookkeeping
  <2>1. DOMAIN Fresh.found = {} /\ Fresh.phase = "idle"
        /\ Fresh.chunk = {} /\ Fresh.missing = {}
    BY EmptyReply DEF Fresh
  <2> QED
    BY <2>1 DEF Init, IdleIsClean, CatalogAnswered, CatalogAlone
<1> QED
  BY <1>1, NextBooks, PTL DEF Spec

\* Every variable keeps its type; in particular, no request is made more than
\* MaxAttempts times and no entry of the cache outlives its TTL.
THEOREM TypeCorrect == Spec => []TypeOK
<1>1. Bookkeeping => TypeOK
  BY DEF Bookkeeping
<1> QED
  BY <1>1, BooksInvariant, PTL

-----------------------------------------------------------------------------
(* Nothing but what a source said reaches the cache or an answer. The only  *)
(* actions that matter are those that read an answer from somewhere.        *)

Soundness == CacheSound /\ CopiesSound /\ NothingFabricated

LEMMA RecordSound ==
  ASSUME TypeOK, NothingFabricated, NEW p \in Process, NEW f, Record(p, f),
         DOMAIN f \subseteq Item, Sound(f), said' = said
  PROVE  NothingFabricated'
<1>1. answers \in [Process -> [Item -> SUBSET Answer]]
  BY DEF TypeOK
<1>2. \A q \in Process, i \in Item :
        answers'[q][i] \subseteq answers[q][i] \union (IF i \in DOMAIN f THEN {f[i]} ELSE {})
  BY <1>1 DEF Record
<1> QED
  BY <1>2 DEF NothingFabricated, Sound

LEMMA FromMemoSound ==
  ASSUME Bookkeeping, Soundness, NEW p \in Process, NEW i \in Item, FromMemo(p, i)
  PROVE  Soundness'
<1> DEFINE f == [j \in {i} |-> memo[p]]
<1>1. Sound(f) /\ DOMAIN f \subseteq Item
  BY DEF FromMemo, Soundness, CopiesSound, Sound
<1>2. /\ UNCHANGED <<said, cache, found, reply, memo>>
      /\ Record(p, f)
  BY DEF FromMemo, sourceVars, cacheVars
<1>3. NothingFabricated'
  BY <1>1, <1>2, RecordSound DEF Bookkeeping, Soundness
<1> QED
  BY <1>2, <1>3 DEF Soundness, CacheSound, CopiesSound, Sound

LEMMA LookupSound ==
  ASSUME Bookkeeping, Soundness, NEW p \in Process, NEW S \in SUBSET Item, Lookup(p, S)
  PROVE  Soundness'
<1> DEFINE start == [i \in S |-> IF cache[i] # Unset THEN cache[i] ELSE Nothing]
           catalog == {i \in S : Kind[i] = "kev" /\ cache[i] # Unset}
<1>1. /\ DOMAIN start \subseteq Item /\ Sound(start)
  BY DEF Soundness, CacheSound, Sound
<1>2. /\ UNCHANGED <<said, cache, reply>>
      /\ memo' = [memo EXCEPT ![p] =
           IF catalog = {} THEN @ ELSE cache[CHOOSE i \in catalog : TRUE]]
      /\ \/ Record(p, start) /\ UNCHANGED found
         \/ found' = [found EXCEPT ![p] = start] /\ UNCHANGED answers
  <2>1. CASE \A i \in S : cache[i] # Unset
    BY <2>1 DEF Lookup, sourceVars, cacheVars
  <2>2. CASE ~ \A i \in S : cache[i] # Unset
    BY <2>2 DEF Lookup, sourceVars, cacheVars
  <2> QED
    BY <2>1, <2>2
<1>3. /\ DOMAIN memo = Process /\ DOMAIN found = Process /\ TypeOK
  BY DEF Bookkeeping, TypeOK
<1>4. \A q \in Process, i \in Item :
        Kind[i] = "kev" /\ memo'[q] # Unset => memo'[q] \in said[i] \union {Nothing}
  <2> SUFFICES ASSUME NEW q \in Process, NEW i \in Item, Kind[i] = "kev", memo'[q] # Unset
               PROVE  memo'[q] \in said[i] \union {Nothing}
    OBVIOUS
  <2>1. CASE catalog = {} \/ q # p
    BY <2>1, <1>2, <1>3 DEF Soundness, CopiesSound
  <2>2. CASE catalog # {} /\ q = p
    <3>1. (CHOOSE j \in catalog : TRUE) \in catalog
      BY <2>2
    <3>2. (CHOOSE j \in catalog : TRUE) = i
      BY <3>1, AdvisoryAssumption
    <3>3. memo'[q] = cache[i] /\ cache[i] # Unset
      BY <2>2, <3>1, <3>2, <1>2, <1>3
    <3> QED
      BY <3>3 DEF Soundness, CacheSound
  <2> QED
    BY <2>1, <2>2
<1>5. NothingFabricated'
  <2>1. CASE Record(p, start)
    BY <2>1, <1>1, <1>2, <1>3, RecordSound DEF Soundness
  <2>2. CASE UNCHANGED answers
    BY <2>2, <1>2 DEF Soundness, NothingFabricated
  <2> QED
    BY <2>1, <2>2, <1>2
<1>6. \A q \in Process : Sound(found[q])' /\ Sound(reply[q])'
  <2>1. \A q \in Process : found'[q] = found[q] \/ found'[q] = start
    BY <1>2, <1>3
  <2> HIDE DEF start
  <2> QED
    BY <2>1, <1>1, <1>2 DEF Soundness, CopiesSound, Sound
<1> QED
  BY <1>2, <1>4, <1>5, <1>6 DEF Soundness, CacheSound, CopiesSound

\* A reply that is sound with respect to what has been said by then.
LEMMA ReplySound ==
  ASSUME Bookkeeping, Soundness, NEW p \in Process, NEW r,
         reply' = [reply EXCEPT ![p] = r],
         \A i \in DOMAIN r : r[i] \in said'[i] \union {Nothing},
         \A i \in Item : said[i] \subseteq said'[i],
         UNCHANGED <<cache, found, memo, answers>>
  PROVE  Soundness'
<1>1. /\ \A q \in Process : DOMAIN found[q] \subseteq Item /\ DOMAIN reply[q] \subseteq Item
      /\ DOMAIN reply = Process
  BY ReplyElements DEF Bookkeeping, TypeOK
<1>2. CacheSound' /\ NothingFabricated'
  BY DEF Soundness, CacheSound, NothingFabricated
<1>3. \A q \in Process, i \in Item :
        Kind[i] = "kev" /\ memo'[q] # Unset => memo'[q] \in said'[i] \union {Nothing}
  BY DEF Soundness, CopiesSound
<1>4. \A q \in Process : Sound(found[q])' /\ Sound(reply[q])'
  BY <1>1 DEF Soundness, CopiesSound, Sound
<1> QED
  BY <1>2, <1>3, <1>4 DEF Soundness, CopiesSound

LEMMA AnsweredSound ==
  ASSUME Bookkeeping, Soundness, NEW p \in Process, Answered(p)
  PROVE  Soundness'
<1>1. PICK extra \in SUBSET {j \in OfKind("epss") : \E i \in chunk[p] : Kind[i] = "epss"} :
        LET covers == {i \in chunk[p] \union extra : Kind[i] = "epss" => truth[i] # Nothing}
        IN  /\ reply' = [reply EXCEPT ![p] = [i \in covers |-> truth[i]]]
            /\ said' = [i \in Item |-> IF i \in chunk[p] \union extra
                                       THEN said[i] \union {truth[i]} ELSE said[i]]
  BY DEF Answered
<1> DEFINE covers == {i \in chunk[p] \union extra : Kind[i] = "epss" => truth[i] # Nothing}
           r == [i \in covers |-> truth[i]]
<1>2. covers \subseteq Item
  BY DEF Bookkeeping, TypeOK, OfKind
<1>3. \A i \in DOMAIN r : r[i] \in said'[i] \union {Nothing}
  BY <1>1, <1>2
<1>4. \A i \in Item : said[i] \subseteq said'[i]
  BY <1>1
<1>5. /\ UNCHANGED <<cache, found, memo, answers>>
      /\ reply' = [reply EXCEPT ![p] = r]
  BY <1>1 DEF Answered, cacheVars
<1> HIDE DEF r
<1> QED
  BY <1>3, <1>4, <1>5, ReplySound

LEMMA FailedSound ==
  ASSUME Bookkeeping, Soundness, NEW p \in Process, Refused(p) \/ Transient(p)
  PROVE  Soundness'
<1>1. /\ UNCHANGED <<said, cache, found, memo, answers>>
      /\ \/ reply' = [reply EXCEPT ![p] = FailedReply(p)]
         \/ UNCHANGED reply
  <2>1. CASE Refused(p)
    BY <2>1 DEF Refused, sourceVars, cacheVars
  <2>2. CASE Transient(p)
    BY <2>2 DEF Transient, sourceVars, cacheVars
  <2> QED
    BY <2>1, <2>2
<1>2. CASE reply' = [reply EXCEPT ![p] = FailedReply(p)]
  <2>1. \A i \in DOMAIN FailedReply(p) : FailedReply(p)[i] = Nothing
    BY FailedReplyType DEF Bookkeeping
  <2> QED
    BY <2>1, <1>1, <1>2, ReplySound
<1>3. CASE UNCHANGED reply
  BY <1>1, <1>3 DEF Soundness, CacheSound, CopiesSound, NothingFabricated, Sound
<1> QED
  BY <1>1, <1>2, <1>3

LEMMA StoreSound ==
  ASSUME Bookkeeping, Soundness, NEW p \in Process, Store(p)
  PROVE  Soundness'
<1>1. TypeOK /\ StoreEffect(p) /\ said' = said
  BY StoreParts DEF Bookkeeping, StoreEffect
<1>2. /\ DOMAIN found = Process /\ DOMAIN reply = Process /\ DOMAIN memo = Process
      /\ DOMAIN found[p] \subseteq Item /\ DOMAIN reply[p] \subseteq Item
  BY <1>1, ReplyElements DEF TypeOK
<1>3. Sound(reply[p]) /\ Sound(found[p])
  BY DEF Soundness, CopiesSound
<1>4. CacheSound'
  <2>1. cache' = [i \in Item |-> IF i \in DOMAIN reply[p] /\ Stores(i, reply[p][i])
                                 THEN reply[p][i] ELSE cache[i]]
    BY DEF Store
  <2> QED
    BY <2>1, <1>1, <1>3 DEF Soundness, CacheSound, Sound, Stores
<1>5. Sound(Surfaced(p)) /\ DOMAIN Surfaced(p) \subseteq Item
  BY <1>2, <1>3 DEF Surfaced, Sound
<1>6. NothingFabricated'
  <2>1. Record(p, Surfaced(p)) \/ UNCHANGED answers
    BY <1>1 DEF StoreEffect
  <2>2. CASE Record(p, Surfaced(p))
    BY <2>2, <1>1, <1>5, RecordSound DEF Soundness
  <2>3. CASE UNCHANGED answers
    BY <2>3, <1>1 DEF Soundness, NothingFabricated
  <2> QED
    BY <2>1, <2>2, <2>3
<1>7. \A q \in Process, i \in Item :
        Kind[i] = "kev" /\ memo'[q] # Unset => memo'[q] \in said[i] \union {Nothing}
  <2>1. phase[p] = "store" /\ memo' = [memo EXCEPT ![p] = MemoAfter(p)]
    BY <1>1 DEF StoreEffect
  <2>2. \A i \in Item : Kind[i] = "kev" /\ MemoAfter(p) # Unset
                          => MemoAfter(p) \in said[i] \union {Nothing}
    <3>1. CASE MemoAfter(p) = memo[p]
      BY <3>1 DEF Soundness, CopiesSound
    <3>2. ASSUME NEW c \in chunk[p], Kind[c] = "kev", c \in DOMAIN reply[p],
                 MemoAfter(p) = reply[p][c]
          PROVE  \A i \in Item : Kind[i] = "kev" => MemoAfter(p) \in said[i] \union {Nothing}
      BY <3>2, <1>2, <1>3, AdvisoryAssumption DEF Sound
    <3> QED
      BY <2>1, <3>1, <3>2, MemoAfterValue
  <2> QED
    BY <2>1, <2>2, <1>2 DEF Soundness, CopiesSound
<1>8. \A q \in Process : Sound(found[q])' /\ Sound(reply[q])'
  <2>1. /\ Fresh.found = [i \in {} |-> Nothing] /\ Fresh.reply = [i \in {} |-> Nothing]
        /\ DOMAIN [i \in {} |-> Nothing] = {}
    BY DEF Fresh
  <2>2. \A q \in Process : /\ reply'[q] = reply[q] \/ reply'[q] = Fresh.reply
                           /\ \/ found'[q] = found[q] \/ found'[q] = Fresh.found
                              \/ found'[q] = Surfaced(p)
    BY <1>1, <1>2 DEF StoreEffect
  <2> QED
    BY <2>1, <2>2, <1>1, <1>5 DEF Soundness, CopiesSound, Sound
<1> QED
  BY <1>1, <1>4, <1>6, <1>7, <1>8 DEF Soundness, CopiesSound

LEMMA RestartSound ==
  ASSUME Bookkeeping, Soundness, NEW p \in Process, Restart(p)
  PROVE  Soundness'
<1>1. /\ DOMAIN Fresh.found = {} /\ DOMAIN Fresh.reply = {} /\ Fresh.memo = Unset
      /\ Fresh.answers = [i \in Item |-> {}]
  BY EmptyReply DEF Fresh
<1>2. /\ DOMAIN found = Process /\ DOMAIN reply = Process /\ DOMAIN memo = Process
      /\ DOMAIN answers = Process
  BY DEF Bookkeeping, TypeOK
<1>3. UNCHANGED <<said, cache>>
  BY DEF Restart, sourceVars, cacheVars
<1>4. \A q \in Process :
        /\ found'[q] = found[q] \/ found'[q] = Fresh.found
        /\ reply'[q] = reply[q] \/ reply'[q] = Fresh.reply
        /\ memo'[q] = memo[q] \/ memo'[q] = Unset
        /\ answers'[q] = answers[q] \/ answers'[q] = Fresh.answers
  BY <1>1, <1>2 DEF Restart
<1> QED
  BY <1>1, <1>3, <1>4 DEF Soundness, CacheSound, CopiesSound, NothingFabricated, Sound

LEMMA TickSound ==
  ASSUME Soundness, Tick
  PROVE  Soundness'
<1>1. /\ UNCHANGED <<said, found, reply, memo, answers>>
      /\ \A i \in Item : cache'[i] = Unset \/ cache'[i] = cache[i]
  BY DEF Tick, sourceVars
<1> QED
  BY <1>1 DEF Soundness, CacheSound, CopiesSound, NothingFabricated, Sound

LEMMA SoundInvariant == Spec => []Soundness
<1>1. Init => Soundness
  <2>1. /\ DOMAIN Fresh.found = {} /\ DOMAIN Fresh.reply = {} /\ Fresh.memo = Unset
        /\ Fresh.answers = [i \in Item |-> {}]
    BY EmptyReply DEF Fresh
  <2> QED
    BY <2>1 DEF Init, Soundness, CacheSound, CopiesSound, NothingFabricated, Sound
<1>2. Bookkeeping /\ Soundness /\ [Next]_vars => Soundness'
  <2> SUFFICES ASSUME Bookkeeping, Soundness, [Next]_vars PROVE Soundness'
    OBVIOUS
  <2>1. CASE UNCHANGED vars
    BY <2>1 DEF vars, Soundness, CacheSound, CopiesSound, NothingFabricated, Sound
  <2>2. ASSUME NEW i \in Item, Publish(i) PROVE Soundness'
    BY <2>2 DEF Publish, cacheVars, Soundness, CacheSound, CopiesSound,
                NothingFabricated, Sound
  <2>3. ASSUME NEW p \in Process, NEW C \in SUBSET Item, PickChunk(p, C) PROVE Soundness'
    BY <2>3 DEF PickChunk, sourceVars, cacheVars, Soundness, CacheSound, CopiesSound,
                NothingFabricated, Sound
  <2> QED
    BY <2>1, <2>2, <2>3, FromMemoSound, LookupSound, AnsweredSound, FailedSound,
       StoreSound, RestartSound, TickSound DEF Next, Advance
<1> QED
  BY <1>1, <1>2, BooksInvariant, PTL DEF Spec

\* An outage is never remembered: what NVD, EPSS and KEV have in the cache is
\* something their source answered, however many runs share the cache, and
\* wherever they were interrupted between request and write.
THEOREM OutageNotRemembered == Spec => []CacheHoldsWhatTheSourceSaid
<1>1. Soundness => CacheHoldsWhatTheSourceSaid
  BY DEF Soundness, CacheSound, CacheHoldsWhatTheSourceSaid
<1> QED
  BY <1>1, SoundInvariant, PTL

\* An answer that is not empty is one the source gave for that very item.
THEOREM AnswersAreGenuine == Spec => []NothingFabricated
<1>1. Soundness => NothingFabricated
  BY DEF Soundness
<1> QED
  BY <1>1, SoundInvariant, PTL

-----------------------------------------------------------------------------
(* One catalog in a run, and the distance of requests.                     *)

LEMMA MemoAgreesStep ==
  ASSUME Bookkeeping, MemoAgrees, [Next]_vars
  PROVE  MemoAgrees'
<1> SUFFICES ASSUME NEW q \in Process, NEW i \in Item, Kind[i] = "kev",
                    NEW v \in answers'[q][i]
             PROVE  v = memo'[q]
  BY DEF MemoAgrees
<1>1. /\ answers \in [Process -> [Item -> SUBSET Answer]]
      /\ DOMAIN memo = Process /\ Unset \notin Answer /\ TypeOK
  BY AdvisoryAssumption DEF Bookkeeping, TypeOK, Answer
<1>2. \A p \in Process : memo[p] = Unset => answers[p][i] = {}
  BY <1>1 DEF MemoAgrees
<1>3. \A w \in answers[q][i] : w = memo[q]
  BY DEF MemoAgrees
<1>4. CASE UNCHANGED <<memo, answers>>
  BY <1>3, <1>4
<1>5. ASSUME NEW p \in Process, NEW j \in Item, FromMemo(p, j)
      PROVE  v = memo'[q]
  <2>1. /\ memo' = memo
        /\ answers' = [answers EXCEPT ![p] =
             [k \in Item |-> IF k \in {j} THEN answers[p][k] \union {memo[p]}
                             ELSE answers[p][k]]]
    BY <1>5 DEF FromMemo, Record
  <2> QED
    BY <1>1, <1>3, <2>1
<1>6. ASSUME NEW p \in Process, NEW S \in SUBSET Item, Lookup(p, S)
      PROVE  v = memo'[q]
  <2> DEFINE start == [k \in S |-> IF cache[k] # Unset THEN cache[k] ELSE Nothing]
             catalog == {k \in S : Kind[k] = "kev" /\ cache[k] # Unset}
  <2>1. /\ memo' = [memo EXCEPT ![p] =
             IF catalog = {} THEN @ ELSE cache[CHOOSE k \in catalog : TRUE]]
        /\ \/ Record(p, start) /\ \A k \in S : cache[k] # Unset
           \/ catalog = {} /\ UNCHANGED answers
           \/ UNCHANGED answers /\ \E k \in S : Kind[k] = "kev"
    <3>1. CASE \A k \in S : cache[k] # Unset
      BY <3>1, <1>6 DEF Lookup
    <3>2. CASE ~ \A k \in S : cache[k] # Unset
      BY <3>2, <1>6 DEF Lookup
    <3> QED
      BY <3>1, <3>2
  <2>2. \A k \in S : Kind[k] = "kev" => memo[p] = Unset
    BY <1>6 DEF Lookup
  <2>3. CASE q # p
    <3>1. answers'[q] = answers[q] /\ memo'[q] = memo[q]
      BY <2>3, <2>1, <1>1 DEF Record
    <3> QED
      BY <3>1, <1>3
  <2>4. CASE q = p /\ i \in S
    <3>1. answers[p][i] = {}
      BY <2>2, <2>4, <1>2
    <3>2. Record(p, start) /\ i \in catalog /\ v = cache[i]
      BY <2>1, <2>4, <3>1, <1>1 DEF Record
    <3>3. (CHOOSE k \in catalog : TRUE) \in catalog
      BY <3>2
    <3>4. (CHOOSE k \in catalog : TRUE) = i
      BY <3>3, AdvisoryAssumption
    <3>5. memo' = [memo EXCEPT ![p] = cache[i]]
      BY <2>1, <3>2, <3>4
    <3> QED
      BY <3>5, <3>2, <2>4, <1>1
  <2>5. CASE q = p /\ i \notin S
    <3>1. answers'[p][i] = answers[p][i]
      BY <2>1, <2>5, <1>1 DEF Record
    <3>2. \A k \in S : Kind[k] # "kev"
      BY <2>5, <1>6, <3>1, <1>2, AdvisoryAssumption
    <3>3. memo'[p] = memo[p]
      BY <2>1, <3>2, <1>1
    <3> QED
      BY <2>5, <3>1, <3>3, <1>3
  <2> QED
    BY <2>3, <2>4, <2>5
<1>7. ASSUME NEW p \in Process, Store(p)
      PROVE  v = memo'[q]
  <2>1. StoreEffect(p)
    BY <1>7, StoreParts
  <2>2. CASE q # p
    <3>1. answers'[q] = answers[q] /\ memo'[q] = memo[q]
      BY <2>1, <2>2, <1>1 DEF StoreEffect, Record
    <3> QED
      BY <3>1, <1>3
  <2>3. CASE q = p /\ i \in chunk[p]
    <3>1. memo[p] = Unset /\ missing[p] = {} /\ chunk[p] = {i}
      BY <2>3 DEF Bookkeeping, CatalogAlone
    <3>2. answers[p][i] = {}
      BY <3>1, <1>2
    <3>3. /\ Record(p, Surfaced(p)) /\ phase[p] = "store"
          /\ memo' = [memo EXCEPT ![p] = MemoAfter(p)]
      BY <2>1, <3>1 DEF StoreEffect
    <3>4. i \in DOMAIN Surfaced(p) /\ v = Surfaced(p)[i]
      BY <3>2, <3>3, <2>3, <1>1 DEF Record
    <3>5. i \in DOMAIN reply[p] /\ MemoAfter(p) = reply[p][i]
      BY <3>1, <3>3, <2>3, MemoAfterValue
    <3>6. v = reply[p][i]
      BY <3>4, <3>5 DEF Surfaced
    <3> QED
      BY <3>3, <3>5, <3>6, <2>3, <1>1
  <2>4. CASE q = p /\ i \notin chunk[p]
    <3>1. answers'[p][i] = answers[p][i]
      <4>1. CASE UNCHANGED answers
        BY <4>1
      <4>2. CASE Record(p, Surfaced(p)) /\ missing[p] = {}
        <5>1. i \notin DOMAIN found[p]
          BY <4>2, <2>4 DEF Bookkeeping, CatalogAlone
        <5>2. i \notin DOMAIN Surfaced(p)
          BY <5>1, <1>1, SurfacedType
        <5> QED
          BY <4>2, <5>2, <1>1 DEF Record
      <4> QED
        BY <2>1, <4>1, <4>2 DEF StoreEffect
    <3>2. CASE memo[p] = Unset
      BY <3>1, <3>2, <2>4, <1>2
    <3>3. CASE memo[p] # Unset
      <4>1. \A k \in chunk[p] : Kind[k] # "kev"
        BY <3>3, <1>1 DEF Bookkeeping, CatalogAlone, TypeOK
      <4>2. MemoAfter(p) = memo[p]
        BY <4>1, <2>1, MemoAfterValue DEF StoreEffect
      <4> QED
        BY <4>2, <3>1, <2>1, <2>4, <1>1, <1>3 DEF StoreEffect
    <3> QED
      BY <3>2, <3>3
  <2> QED
    BY <2>2, <2>3, <2>4
<1>8. ASSUME NEW p \in Process, Restart(p)
      PROVE  v = memo'[q]
  <2>1. Fresh.answers = [k \in Item |-> {}]
    BY DEF Fresh
  <2>2. q # p /\ answers'[q] = answers[q] /\ memo'[q] = memo[q]
    BY <2>1, <1>1, <1>8 DEF Restart
  <2> QED
    BY <2>2, <1>3
<1>9. CASE ~ UNCHANGED <<memo, answers>>
  <2>1. \/ \E p \in Process : \/ \E j \in Item : FromMemo(p, j)
                              \/ \E S \in SUBSET Item : Lookup(p, S)
                              \/ Store(p) \/ Restart(p)
    BY <1>9 DEF Next, Advance, vars, PickChunk, Answered, Refused, Transient,
                Publish, Tick
  <2> QED
    BY <2>1, <1>5, <1>6, <1>7, <1>8
<1> QED
  BY <1>4, <1>9

\* Within one run the KEV catalog never changes, whether it was loaded from
\* the cache, from its source, or not at all.
THEOREM CatalogIsStable == Spec => []OneCatalogPerRun
<1>1. Init => MemoAgrees
  <2>1. Fresh.answers = [k \in Item |-> {}]
    BY DEF Fresh
  <2> QED
    BY <2>1 DEF Init, MemoAgrees
<1>2. MemoAgrees => OneCatalogPerRun
  BY DEF MemoAgrees, OneCatalogPerRun, OfKind
<1> QED
  BY <1>1, <1>2, MemoAgreesStep, BooksInvariant, PTL DEF Spec

=============================================================================
