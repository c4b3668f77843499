------------------------- MODULE ZapContextsProofs -------------------------
(***************************************************************************)
(* Proofs about ZapContexts for any targets, auth blocks and environment.  *)
(***************************************************************************)
EXTENDS ZapContexts, SequenceTheorems, TLAPS

\* The first calls of the plan of a task have been made.
Made(t, n) == \A i \in 1..n : Calls(auth[t])[i] \in configured[t]

\* What is known of a task before it has anything set up.
Fresh(t) ==
    pc[t] \in {"idle", "context", "include", "auth"} =>
        configured[t] = {} /\ user[t] = None /\ step[t] = 0 /\ ~failed[t]

\* The context a task holds, or still sets up, is its own.
Owned(t) ==
    /\ context[t] # None => context[t] = HostOfUrl(t)
    /\ pc[t] \in {"auth", "apply"} => context[t] = HostOfUrl(t)
    /\ pc[t] \in {"include", "auth", "apply"} \/ context[t] # None
         => owner[HostOfUrl(t)] = t
    /\ configured[t] # {} => context[t] # None

\* What is configured belongs to a block whose secrets are resolved.
Backed(t) ==
    /\ configured[t] # {} => auth[t] # Absent /\ Resolved(auth[t])
    /\ "rule" \in configured[t] => auth[t].kind = "header"

\* A task that applies its block has made the calls before the next one.
Applying(t) ==
    pc[t] = "apply" =>
        /\ auth[t] # Absent /\ Resolved(auth[t])
        /\ step[t] < Len(Calls(auth[t]))
        /\ Made(t, step[t])
        /\ user[t] = None /\ ~failed[t]

\* A task has a user once its block has credentials and all calls are made.
Complete(t) ==
    user[t] # None =>
        /\ user[t] = context[t] /\ context[t] # None
        /\ auth[t] # Absent /\ Credentialed(auth[t])
        /\ Mine(t)

\* A task that came through without a failure has set up what it should.
Through(t) ==
    pc[t] \in {"spider", "attack", "done"} /\ ~failed[t] /\ auth[t] # Absent
      /\ Resolved(auth[t]) =>
        /\ Mine(t)
        /\ Credentialed(auth[t]) => user[t] = HostOfUrl(t)

TaskInv(t) ==
    /\ pc[t] = "idle" <=> t \notin DOMAIN auth
    /\ Fresh(t) /\ Owned(t) /\ Backed(t) /\ Applying(t) /\ Complete(t) /\ Through(t)

\* A request tells what its task, which is past its set-up, had set up.
SentInv ==
    \A r \in sent :
        /\ pc[r.target] \in {"spider", "attack", "done"}
        /\ r.user = user[r.target]
        /\ \A u \in r.headers : "rule" \in configured[u]
        /\ "rule" \in configured[r.target] => r.target \in r.headers

\* The inductive invariant.
IInv == ZapTypeOK /\ (\A t \in Url : TaskInv(t)) /\ SentInv

-----------------------------------------------------------------------------
(* The plan of calls *)

LEMMA Concatenation ==
  ASSUME NEW S, NEW s \in Seq(S), NEW t \in Seq(S), NEW x,
         \A i \in 1..Len(s) : s[i] # x,
         \A i \in 1..Len(t) : t[i] # x
  PROVE  /\ s \o t \in Seq(S)
         /\ Len(s \o t) = Len(s) + Len(t)
         /\ \A i \in 1..Len(s \o t) : (s \o t)[i] # x
<1>1. /\ s \o t \in Seq(S)
      /\ Len(s \o t) = Len(s) + Len(t)
      /\ \A i \in 1..Len(s) + Len(t) :
            (s \o t)[i] = IF i <= Len(s) THEN s[i] ELSE t[i - Len(s)]
  BY ConcatProperties
<1>2. ASSUME NEW i \in 1..Len(s) + Len(t)
      PROVE  (s \o t)[i] # x
  <2>1. CASE i <= Len(s)
    BY <1>1, <2>1
  <2>2. CASE ~(i <= Len(s))
    <3>1. i - Len(s) \in 1..Len(t)
      BY <2>2
    <3>2. QED
      BY <1>1, <2>2, <3>1
  <2>3. QED
    BY <2>1, <2>2
<1>3. QED
  BY <1>1, <1>2

\* A sequence of calls none of which adds a rule.
Harmless(s) == s \in Seq(Call) /\ \A i \in 1..Len(s) : s[i] # "rule"

LEMMA HarmlessConcatenation ==
  ASSUME NEW s, NEW t, Harmless(s), Harmless(t)
  PROVE  Harmless(s \o t) /\ Len(s \o t) = Len(s) + Len(t)
BY Concatenation DEF Harmless

LEMMA PlanIsSequence ==
  ASSUME NEW a
  PROVE  /\ Calls(a) \in Seq(Call)
         /\ Len(Calls(a)) \in Nat \ {0}
         /\ a.kind = "header" => Calls(a)[1] = "rule"
         /\ a.kind # "header" => \A i \in 1..Len(Calls(a)) : Calls(a)[i] # "rule"
<1>1. /\ Harmless(<<>>) /\ Harmless(<<"method">>) /\ Harmless(<<"session">>)
      /\ Harmless(<<"logged in">>) /\ Harmless(<<"logged out">>)
      /\ Harmless(CreateUser)
  <2>1. ASSUME NEW c \in Call \ {"rule"}
        PROVE  Harmless(<<c>>)
    BY DEF Harmless
  <2>2. Harmless(<<>>)
    BY DEF Harmless
  <2>3. /\ "method" \in Call \ {"rule"} /\ "session" \in Call \ {"rule"}
        /\ "logged in" \in Call \ {"rule"} /\ "logged out" \in Call \ {"rule"}
        /\ "new user" \in Call \ {"rule"} /\ "credentials" \in Call \ {"rule"}
        /\ "enable" \in Call \ {"rule"}
    BY DEF Call
  <2>4. Harmless(CreateUser)
    <3>1. CreateUser \in Seq(Call) /\ Len(CreateUser) = 3
      <4>1. ASSUME NEW S, NEW c \in S, NEW d \in S, NEW e \in S
            PROVE  <<c, d, e>> \in Seq(S) /\ Len(<<c, d, e>>) = 3
        OBVIOUS
      <4>2. QED
        BY <2>3, <4>1 DEF CreateUser
    <3>2. /\ CreateUser[1] # "rule" /\ CreateUser[2] # "rule"
          /\ CreateUser[3] # "rule"
      BY DEF CreateUser
    <3>3. \A i \in 1..3 : i = 1 \/ i = 2 \/ i = 3
      OBVIOUS
    <3>4. QED
      BY <3>1, <3>2, <3>3 DEF Harmless
  <2>5. QED
    BY <2>1, <2>2, <2>3, <2>4
<1>2. Harmless(Indicators(a))
  <2>1. /\ Harmless(IF a.loggedIn THEN <<"logged in">> ELSE <<>>)
        /\ Harmless(IF a.loggedOut THEN <<"logged out">> ELSE <<>>)
    BY <1>1
  <2>2. QED
    BY <2>1, HarmlessConcatenation DEF Indicators
<1> DEFINE ind == Indicators(a)
           tail == IF Credentialed(a) THEN CreateUser ELSE <<>>
<1>3. Harmless(ind) /\ Harmless(tail)
  BY <1>1, <1>2
<1>4. Len(ind) \in Nat /\ Len(tail) \in Nat
  BY <1>3 DEF Harmless
<1> HIDE DEF ind, tail
<1>5. CASE a.kind = "header"
  <2>1. Calls(a) = <<"rule">> \o ind
    BY <1>5 DEF Calls, ind
  <2>2. <<"rule">> \in Seq(Call) /\ Len(<<"rule">>) = 1 /\ ind \in Seq(Call)
    <3>1. "rule" \in Call
      BY DEF Call
    <3>2. <<"rule">> \in Seq(Call) /\ Len(<<"rule">>) = 1
      BY <3>1
    <3>3. QED
      BY <1>3, <3>2 DEF Harmless
  <2>3. /\ Calls(a) \in Seq(Call) /\ Len(Calls(a)) = 1 + Len(ind)
        /\ Calls(a)[1] = <<"rule">>[1]
    BY <2>1, <2>2, <1>4, ConcatProperties
  <2>4. QED
    BY <1>4, <1>5, <2>3
<1>6. CASE a.kind # "header"
  <2>1. Calls(a) = ((<<"method">> \o ind) \o <<"session">>) \o tail
    BY <1>6 DEF Calls, ind, tail
  <2>2. Harmless(<<"method">> \o ind) /\ Len(<<"method">> \o ind) = 1 + Len(ind)
    <3>1. Len(<<"method">>) = 1
      OBVIOUS
    <3>2. QED
      BY <1>1, <1>3, <3>1, HarmlessConcatenation
  <2>3. /\ Harmless((<<"method">> \o ind) \o <<"session">>)
        /\ Len((<<"method">> \o ind) \o <<"session">>) = 2 + Len(ind)
    <3>1. Len(<<"session">>) = 1
      OBVIOUS
    <3> DEFINE s1 == <<"method">> \o ind
    <3>2. Harmless(s1) /\ Len(s1) = 1 + Len(ind)
      BY <2>2
    <3> HIDE DEF s1
    <3>3. /\ Harmless(s1 \o <<"session">>)
          /\ Len(s1 \o <<"session">>) = Len(s1) + Len(<<"session">>)
      BY <1>1, <3>2, HarmlessConcatenation
    <3>4. Len(s1 \o <<"session">>) = 2 + Len(ind)
      BY <1>4, <3>1, <3>2, <3>3
    <3>5. QED
      BY <3>3, <3>4 DEF s1
  <2>4. Harmless(Calls(a)) /\ Len(Calls(a)) = 2 + Len(ind) + Len(tail)
    BY <1>3, <2>1, <2>3, HarmlessConcatenation
  <2>5. QED
    BY <1>4, <1>6, <2>4 DEF Harmless
<1>7. QED
  BY <1>5, <1>6

\* Once the last call is made, all are.
LEMMA AllCallsMade ==
  ASSUME NEW t, Made(t, Len(Calls(auth[t])))
  PROVE  Mine(t)
<1>1. Calls(auth[t]) \in Seq(Call)
  BY PlanIsSequence
<1>2. DOMAIN Calls(auth[t]) = 1..Len(Calls(auth[t]))
  BY <1>1
<1>3. QED
  BY <1>2 DEF Made, Mine

LEMMA NextCallIsOnPlan ==
  ASSUME NEW t, step[t] \in Nat, step[t] < Len(Calls(auth[t]))
  PROVE  /\ NextCall(t) \in Call
         /\ Len(Calls(auth[t])) \in Nat
         /\ NextCall(t) = "rule" => auth[t].kind = "header"
<1>1. /\ Calls(auth[t]) \in Seq(Call) /\ Len(Calls(auth[t])) \in Nat
      /\ auth[t].kind # "header" =>
           \A i \in 1..Len(Calls(auth[t])) : Calls(auth[t])[i] # "rule"
  BY PlanIsSequence
<1>2. step[t] + 1 \in 1..Len(Calls(auth[t]))
  BY <1>1
<1>3. QED
  BY <1>1, <1>2 DEF NextCall

-----------------------------------------------------------------------------
(* Type correctness *)

LEMMA HostsName == \A t \in Url : HostOfUrl(t) \in Host
BY DEF Host

LEMMA TypeInit == ZapInit => ZapTypeOK
BY DEF ZapInit, ZapTypeOK, Place, Request

LEMMA TypeNext ==
  ZapTypeOK /\ (\A t \in Url : Applying(t)) /\ [ZapNext]_zapVars => ZapTypeOK'
<1> SUFFICES ASSUME ZapTypeOK, \A t \in Url : Applying(t), [ZapNext]_zapVars
             PROVE  ZapTypeOK'
  OBVIOUS
<1>1. ASSUME NEW f \in Jobs, Collect(f)
      PROVE  ZapTypeOK'
  <2>1. DOMAIN f \subseteq Url /\ \A t \in DOMAIN f : f[t] \in Auth \cup {Absent}
    BY <1>1 DEF Jobs
  <2>2. pc' \in [Url -> Place]
    BY <1>1 DEF Collect, Place
  <2>3. QED
    BY <1>1, <2>1, <2>2 DEF Collect, ZapTypeOK
<1>2. ASSUME NEW t \in Url, TaskStep(t)
      PROVE  ZapTypeOK'
  <2> USE HostsName DEF Goto, Fails
  <2>1. CASE NewContext(t)
    BY <2>1 DEF NewContext, ZapTypeOK, Place
  <2>2. CASE ContextFails(t)
    BY <2>2 DEF ContextFails, ZapTypeOK, Place
  <2>3. CASE Include(t)
    BY <2>3 DEF Include, ZapTypeOK, Place
  <2>4. CASE Build(t)
    BY <2>4 DEF Build, ZapTypeOK, Place
  <2>5. CASE Apply(t)
    <3>1. NextCall(t) \in Call
      BY <2>5, NextCallIsOnPlan DEF Apply, Applying, ZapTypeOK
    <3>2. context[t] \in Host \cup {None} /\ step[t] + 1 \in Nat
      BY DEF ZapTypeOK
    <3>3. pc' \in [Url -> Place] /\ user' \in [Url -> Host \cup {None}]
      BY <2>5, <3>2 DEF Apply, ZapTypeOK, Place
    <3>4. step' \in [Url -> Nat] /\ configured' \in [Url -> SUBSET Call]
      BY <2>5, <3>1, <3>2 DEF Apply, ZapTypeOK
    <3>5. QED
      BY <2>5, <3>3, <3>4 DEF Apply, ZapTypeOK
  <2>6. CASE ApplyFails(t)
    <3>1. NextCall(t) \in Call
      BY <2>6, NextCallIsOnPlan DEF ApplyFails, Applying, ZapTypeOK
    <3>2. QED
      BY <2>6, <3>1 DEF ApplyFails, ZapTypeOK, Place
  <2>7. CASE Send(t)
    BY <2>7 DEF Send, ZapTypeOK, Place, Request, Phase, taskVars
  <2>8. CASE EndSpider(t)
    BY <2>8 DEF EndSpider, ZapTypeOK, Place
  <2>9. CASE EndTask(t)
    BY <2>9 DEF EndTask, ZapTypeOK, Place
  <2>10. QED
    BY <1>2, <2>1, <2>2, <2>3, <2>4, <2>5, <2>6, <2>7, <2>8, <2>9 DEF TaskStep
<1>3. CASE UNCHANGED zapVars
  BY <1>3 DEF ZapTypeOK, zapVars, taskVars
<1>4. QED
  BY <1>1, <1>2, <1>3 DEF ZapNext

-----------------------------------------------------------------------------
(* The inductive invariant *)

LEMMA NoneIsNobody == \A t \in Url : t # None /\ HostOfUrl(t) # None
BY ZapContextsAssumption, HostsName

\* A step of a task leaves the other tasks alone, and no context changes hands.
LEMMA Frame ==
  ASSUME ZapTypeOK, NEW t \in Url, TaskStep(t)
  PROVE  /\ auth' = auth
         /\ \A u \in Url \ {t} :
              /\ pc'[u] = pc[u] /\ context'[u] = context[u] /\ user'[u] = user[u]
              /\ step'[u] = step[u] /\ failed'[u] = failed[u]
              /\ configured'[u] = configured[u]
         /\ \A h \in Host : owner[h] # None => owner'[h] = owner[h]
<1> USE DEF Goto, Fails, ZapTypeOK
<1>1. CASE NewContext(t)
  BY <1>1 DEF NewContext
<1>2. CASE ContextFails(t)
  BY <1>2 DEF ContextFails
<1>3. CASE Include(t)
  BY <1>3 DEF Include
<1>4. CASE Build(t)
  BY <1>4 DEF Build
<1>5. CASE Apply(t)
  BY <1>5 DEF Apply
<1>6. CASE ApplyFails(t)
  BY <1>6 DEF ApplyFails
<1>7. CASE Send(t)
  BY <1>7 DEF Send, taskVars
<1>8. CASE EndSpider(t)
  BY <1>8 DEF EndSpider
<1>9. CASE EndTask(t)
  BY <1>9 DEF EndTask
<1>10. QED
  BY <1>1, <1>2, <1>3, <1>4, <1>5, <1>6, <1>7, <1>8, <1>9 DEF TaskStep

\* What is known of a task does not depend on the others.
LEMMA OthersKeep ==
  ASSUME ZapTypeOK, NEW t \in Url, TaskStep(t), NEW u \in Url \ {t}, TaskInv(u)
  PROVE  TaskInv(u)'
<1>1. /\ auth' = auth
      /\ pc'[u] = pc[u] /\ context'[u] = context[u] /\ user'[u] = user[u]
      /\ step'[u] = step[u] /\ failed'[u] = failed[u]
      /\ configured'[u] = configured[u]
  BY Frame
<1>2. owner[HostOfUrl(u)] = u => owner'[HostOfUrl(u)] = u
  BY Frame, HostsName, NoneIsNobody
<1>3. Made(u, step[u])' <=> Made(u, step[u])
  BY <1>1 DEF Made
<1>4. Mine(u)' <=> Mine(u)
  BY <1>1 DEF Mine
<1>5. (pc[u] = "idle" <=> u \notin DOMAIN auth)' /\ Fresh(u)' /\ Backed(u)'
  BY <1>1 DEF TaskInv, Fresh, Backed
<1>6. Owned(u)'
  BY <1>1, <1>2 DEF TaskInv, Owned
<1>7. Applying(u)'
  BY <1>1, <1>3 DEF TaskInv, Applying
<1>8. Complete(u)' /\ Through(u)'
  BY <1>1, <1>4 DEF TaskInv, Complete, Through
<1>9. QED
  BY <1>5, <1>6, <1>7, <1>8 DEF TaskInv

LEMMA OwnKeeps ==
  ASSUME ZapTypeOK, NEW t \in Url, TaskStep(t), TaskInv(t)
  PROVE  TaskInv(t)'
<1> USE HostsName, NoneIsNobody DEF Goto, Fails
<1>0. auth' = auth
  BY Frame
<1> DEFINE Parts == Fresh(t) /\ Owned(t) /\ Backed(t) /\ Applying(t)
                    /\ Complete(t) /\ Through(t) /\ (pc[t] = "idle" <=> t \notin DOMAIN auth)
<1>a. Parts
  BY DEF TaskInv
<1>b. SUFFICES Parts'
  BY DEF TaskInv
<1>c. ASSUME configured'[t] = configured[t]
      PROVE  Mine(t)' <=> Mine(t)
  BY <1>0, <1>c DEF Mine
<1>1. CASE NewContext(t)
  BY <1>0, <1>1, <1>a DEF NewContext, ZapTypeOK, Fresh, Owned, Backed, Applying, Complete, Through
<1>2. CASE ContextFails(t)
  <2>1. configured'[t] = {} /\ user'[t] = None
    BY <1>a, <1>2 DEF ContextFails, Fresh
  <2>2. context'[t] = context[t] /\ failed'[t] /\ pc'[t] = "spider"
    BY <1>2 DEF ContextFails, ZapTypeOK
  <2>3. owner'[HostOfUrl(t)] = owner[HostOfUrl(t)] \/ owner[HostOfUrl(t)] = None
    BY <1>2 DEF ContextFails, ZapTypeOK
  <2>4. pc[t] # "idle"
    BY <1>2 DEF ContextFails
  <2>5. QED
    BY <1>0, <1>a, <2>1, <2>2, <2>3, <2>4
       DEF Fresh, Owned, Backed, Applying, Complete, Through
<1>3. CASE Include(t)
  BY <1>0, <1>3, <1>a DEF Include, ZapTypeOK, Fresh, Owned, Backed, Applying, Complete, Through
<1>4. CASE Build(t)
  <2>1. /\ configured'[t] = {} /\ user'[t] = None /\ ~failed'[t] /\ step'[t] = 0
        /\ context'[t] = context[t] /\ owner' = owner
    BY <1>a, <1>4 DEF Build, Fresh
  <2>2. CASE auth[t] = Absent \/ ~Resolved(auth[t])
    <3>1. pc'[t] = "spider" /\ pc[t] = "auth"
      BY <1>4, <2>2 DEF Build, ZapTypeOK
    <3>2. QED
      BY <1>0, <1>a, <2>1, <2>2, <3>1
         DEF Fresh, Owned, Backed, Applying, Complete, Through
  <2>3. CASE auth[t] # Absent /\ Resolved(auth[t])
    <3>1. pc'[t] = "apply" /\ pc[t] = "auth"
      BY <1>4, <2>3 DEF Build, ZapTypeOK
    <3>2. 0 < Len(Calls(auth[t])) /\ Made(t, 0)'
      BY PlanIsSequence DEF Made
    <3>3. QED
      BY <1>0, <1>a, <2>1, <2>3, <3>1, <3>2
         DEF Fresh, Owned, Backed, Applying, Complete, Through
  <2>4. QED
    BY <2>2, <2>3
<1>5. CASE Apply(t)
  <2>1. /\ auth[t] # Absent /\ Resolved(auth[t]) /\ Made(t, step[t])
        /\ step[t] \in Nat /\ step[t] < Len(Calls(auth[t]))
        /\ user[t] = None /\ ~failed[t] /\ pc[t] = "apply"
    BY <1>5, <1>a DEF Apply, Applying, ZapTypeOK
  <2>2. /\ configured'[t] = configured[t] \cup {NextCall(t)}
        /\ step'[t] = step[t] + 1
        /\ context' = context /\ owner' = owner /\ failed' = failed
    BY <1>5 DEF Apply, ZapTypeOK
  <2>3. Made(t, step[t])'
    <3>1. ASSUME NEW i \in 1..(step[t] + 1)
          PROVE  Calls(auth[t])[i] \in configured'[t]
      <4>1. CASE i = step[t] + 1
        BY <2>2, <4>1 DEF NextCall
      <4>2. CASE i # step[t] + 1
        BY <2>1, <2>2, <4>2 DEF Made
      <4>3. QED
        BY <4>1, <4>2
    <3>2. QED
      BY <1>0, <2>2, <3>1 DEF Made
  <2>4. /\ context'[t] = HostOfUrl(t) /\ owner'[HostOfUrl(t)] = t
        /\ Backed(t)'
    <3>1. NextCall(t) = "rule" => auth[t].kind = "header"
      BY <2>1, NextCallIsOnPlan
    <3>2. QED
      BY <1>0, <1>a, <2>1, <2>2, <3>1 DEF Backed, Owned
  <2>5. CASE step[t] + 1 < Len(Calls(auth[t]))
    <3>1. pc' = pc /\ user' = user
      BY <1>5, <2>5 DEF Apply
    <3>2. Applying(t)'
      BY <1>0, <2>1, <2>2, <2>3, <2>5, <3>1 DEF Applying
    <3>3. QED
      BY <1>0, <1>a, <2>1, <2>4, <3>1, <3>2
         DEF Fresh, Owned, Complete, Through
  <2>6. CASE ~(step[t] + 1 < Len(Calls(auth[t])))
    <3>1. /\ pc'[t] = "spider"
          /\ user'[t] = IF Credentialed(auth[t]) THEN context[t] ELSE user[t]
      BY <1>5, <2>6 DEF Apply, ZapTypeOK
    <3>2. /\ Calls(auth[t]) \in Seq(Call)
          /\ Len(Calls(auth[t])) \in Nat
      BY PlanIsSequence
    <3>3. Mine(t)'
      <4>1. /\ step'[t] = Len(Calls(auth[t]))
            /\ DOMAIN Calls(auth[t]) = 1..Len(Calls(auth[t]))
        BY <2>1, <2>2, <2>6, <3>2
      <4>2. QED
        BY <1>0, <2>3, <4>1 DEF Made, Mine
    <3>4. QED
      BY <1>0, <1>a, <2>1, <2>2, <2>4, <3>1, <3>3
         DEF Fresh, Owned, Applying, Complete, Through
  <2>7. QED
    BY <2>5, <2>6
<1>6. CASE ApplyFails(t)
  <2>1. /\ auth[t] # Absent /\ Resolved(auth[t])
        /\ step[t] \in Nat /\ step[t] < Len(Calls(auth[t]))
        /\ user[t] = None /\ pc[t] = "apply"
    BY <1>6, <1>a DEF ApplyFails, Applying, ZapTypeOK
  <2>2. /\ configured'[t] \in {configured[t], configured[t] \cup {NextCall(t)}}
        /\ context' = context /\ owner' = owner /\ user' = user
        /\ failed'[t] /\ pc'[t] = "spider"
    BY <1>6 DEF ApplyFails, ZapTypeOK
  <2>3. NextCall(t) = "rule" => auth[t].kind = "header"
    BY <2>1, NextCallIsOnPlan
  <2>4. QED
    BY <1>0, <1>a, <2>1, <2>2, <2>3
       DEF Fresh, Owned, Backed, Applying, Complete, Through
<1>7. CASE Send(t)
  BY <1>0, <1>7, <1>a, <1>c
     DEF Send, taskVars, Fresh, Owned, Backed, Applying, Complete, Through, Made
<1>8. CASE EndSpider(t)
  BY <1>0, <1>8, <1>a, <1>c
     DEF EndSpider, ZapTypeOK, Fresh, Owned, Backed, Applying, Complete, Through
<1>9. CASE EndTask(t)
  BY <1>0, <1>9, <1>a, <1>c
     DEF EndTask, Phase, ZapTypeOK, Fresh, Owned, Backed, Applying, Complete, Through
<1>10. QED
  BY <1>1, <1>2, <1>3, <1>4, <1>5, <1>6, <1>7, <1>8, <1>9 DEF TaskStep

\* A task that is past its set-up stays so, and sets nothing up any more.
LEMMA PastIsSettled ==
  ASSUME ZapTypeOK, NEW t \in Url, TaskStep(t), NEW u \in Url,
         pc[u] \in {"spider", "attack", "done"}
  PROVE  /\ pc'[u] \in {"spider", "attack", "done"}
         /\ user'[u] = user[u]
         /\ configured'[u] = configured[u]
<1>1. CASE u # t
  BY <1>1, Frame
<1>2. CASE u = t
  <2>1. Send(t) \/ EndSpider(t) \/ EndTask(t)
    BY <1>2 DEF TaskStep, NewContext, ContextFails, Include, Build, Apply, ApplyFails
  <2>2. QED
    BY <1>2, <2>1 DEF Send, EndSpider, EndTask, Goto, ZapTypeOK, taskVars
<1>3. QED
  BY <1>1, <1>2

LEMMA ConfiguredGrows ==
  ASSUME ZapTypeOK, NEW t \in Url, TaskStep(t), NEW u \in Url
  PROVE  configured[u] \subseteq configured'[u]
<1>1. CASE u # t
  BY <1>1, Frame
<1>2. CASE u = t
  BY <1>2 DEF TaskStep, NewContext, ContextFails, Include, Build, Apply,
              ApplyFails, Send, EndSpider, EndTask, ZapTypeOK
<1>3. QED
  BY <1>1, <1>2

LEMMA SentKeeps ==
  ASSUME ZapTypeOK, NEW t \in Url, TaskStep(t), SentInv
  PROVE  SentInv'
<1> DEFINE Told(r) == /\ pc[r.target] \in {"spider", "attack", "done"}
                      /\ r.user = user[r.target]
                      /\ \A u \in r.headers : "rule" \in configured[u]
                      /\ "rule" \in configured[r.target] => r.target \in r.headers
<1>1. ASSUME NEW r \in sent
      PROVE  Told(r)'
  <2>1. r.target \in Url /\ r.headers \subseteq Url
    BY DEF ZapTypeOK, Request
  <2>2. Told(r)
    BY DEF SentInv
  <2>3. QED
    BY <2>1, <2>2, PastIsSettled, ConfiguredGrows
<1>2. CASE Send(t)
  <2> DEFINE new == [target |-> t, phase |-> pc[t], user |-> user[t],
                     headers |-> {u \in Url : "rule" \in configured[u]}]
  <2>1. /\ sent' = sent \cup {new}
        /\ pc' = pc /\ user' = user /\ configured' = configured
        /\ pc[t] \in {"spider", "attack", "done"}
    BY <1>2 DEF Send, taskVars, Phase
  <2>2. \A r : r = new => Told(r)'
    BY <2>1
  <2> HIDE DEF new
  <2>3. \A r \in sent' : Told(r)'
    BY <1>1, <2>1, <2>2
  <2>4. QED
    BY <2>3 DEF SentInv
<1>3. CASE ~Send(t)
  <2>1. sent' = sent
    BY <1>3 DEF TaskStep, NewContext, ContextFails, Include, Build, Apply,
                ApplyFails, EndSpider, EndTask
  <2>2. QED
    BY <1>1, <2>1 DEF SentInv
<1>4. QED
  BY <1>2, <1>3

LEMMA IInvInit == ZapInit => IInv
<1> SUFFICES ASSUME ZapInit PROVE IInv
  OBVIOUS
<1>1. ZapTypeOK
  BY TypeInit
<1>2. ASSUME NEW t \in Url
      PROVE  TaskInv(t)
  BY <1>2 DEF ZapInit, TaskInv, Fresh, Owned, Backed, Applying, Complete, Through
<1>3. SentInv
  BY DEF ZapInit, SentInv
<1>4. QED
  BY <1>1, <1>2, <1>3 DEF IInv

LEMMA CollectKeeps ==
  ASSUME IInv, DOMAIN auth = {}, NEW f \in Jobs, Collect(f)
  PROVE  (\A t \in Url : TaskInv(t))' /\ SentInv'
<1>1. \A t \in Url : pc[t] = "idle"
  BY DEF IInv, TaskInv
<1>2. sent = {}
  BY <1>1 DEF IInv, ZapTypeOK, Request, SentInv
<1>3. SentInv'
  BY <1>2 DEF Collect, SentInv
<1>4. ASSUME NEW t \in Url
      PROVE  TaskInv(t)'
  <2>1. /\ configured[t] = {} /\ user[t] = None /\ step[t] = 0 /\ ~failed[t]
        /\ Owned(t)
    BY <1>1 DEF IInv, TaskInv, Fresh
  <2>2. /\ configured'[t] = {} /\ user'[t] = None /\ step'[t] = 0 /\ ~failed'[t]
        /\ context' = context /\ owner' = owner /\ auth' = f
        /\ pc'[t] = IF t \in DOMAIN f THEN "context" ELSE "idle"
    BY <2>1 DEF Collect
  <2>3. (pc[t] = "idle" <=> t \notin DOMAIN auth)'
    BY <2>2
  <2>4. Fresh(t)' /\ Backed(t)' /\ Applying(t)' /\ Complete(t)' /\ Through(t)'
    BY <2>2 DEF Fresh, Backed, Applying, Complete, Through
  <2>5. Owned(t)'
    BY <1>1, <2>1, <2>2 DEF Owned
  <2>6. QED
    BY <2>3, <2>4, <2>5 DEF TaskInv
<1>5. QED
  BY <1>3, <1>4

LEMMA IInvNext == IInv /\ [ZapNext]_zapVars => IInv'
<1> SUFFICES ASSUME IInv, [ZapNext]_zapVars
             PROVE  IInv'
  OBVIOUS
<1>1. ZapTypeOK'
  BY TypeNext DEF IInv, TaskInv
<1>2. CASE DOMAIN auth = {} /\ \E f \in Jobs : Collect(f)
  BY <1>1, <1>2, CollectKeeps DEF IInv
<1>3. CASE \E t \in Url : TaskStep(t)
  <2>1. PICK t \in Url : TaskStep(t)
    BY <1>3
  <2>2. ASSUME NEW u \in Url
        PROVE  TaskInv(u)'
    BY <2>1, OthersKeep, OwnKeeps DEF IInv
  <2>3. SentInv'
    BY <2>1, SentKeeps DEF IInv
  <2>4. QED
    BY <1>1, <2>2, <2>3 DEF IInv
<1>4. CASE UNCHANGED zapVars
  <2>1. ASSUME NEW u \in Url
        PROVE  TaskInv(u)'
    BY <1>4 DEF IInv, zapVars, taskVars, TaskInv, Fresh, Owned, Backed, Applying,
                Complete, Through, Made, Mine
  <2>2. SentInv'
    BY <1>4 DEF IInv, zapVars, taskVars, SentInv
  <2>3. QED
    BY <1>1, <2>1, <2>2 DEF IInv
<1>5. QED
  BY <1>2, <1>3, <1>4 DEF ZapNext

LEMMA Inductive == ZapSpec => []IInv
BY IInvInit, IInvNext, PTL DEF ZapSpec

-----------------------------------------------------------------------------
(* The theorems *)

\* The type invariant.
THEOREM TypeCorrect == ZapSpec => []ZapTypeOK
BY Inductive, PTL DEF IInv

LEMMA OwnAndComplete == IInv => UserIsOwnAndComplete
<1> SUFFICES ASSUME IInv, NEW r \in sent, r.user # None
             PROVE  /\ auth[r.target] # Absent /\ Credentialed(auth[r.target])
                    /\ r.user = HostOfUrl(r.target)
                    /\ owner[r.user] = r.target
                    /\ Mine(r.target)
  BY DEF UserIsOwnAndComplete
<1>1. r.target \in Url /\ r.user = user[r.target]
  BY DEF IInv, ZapTypeOK, Request, SentInv
<1>2. TaskInv(r.target)
  BY <1>1 DEF IInv
<1>3. QED
  BY <1>1, <1>2 DEF TaskInv, Complete, Owned

\* However the tasks of the targets interleave and whichever calls fail, a
\* request sent as a user is sent as the user of its own target, in a context
\* which that target's task created and configured to the last call.
THEOREM NoForeignOrHalfUser == ZapSpec => []UserIsOwnAndComplete
BY Inductive, OwnAndComplete, PTL

LEMMA Authenticated == IInv => SetUpMeansAuthenticated
<1> SUFFICES ASSUME IInv, NEW r \in sent,
                    auth[r.target] # Absent, Resolved(auth[r.target]),
                    ~failed[r.target]
             PROVE  CASE Credentialed(auth[r.target]) -> r.user = HostOfUrl(r.target)
                      [] auth[r.target].kind = "header" -> r.target \in r.headers
                      [] OTHER -> r.user = None /\ Mine(r.target)
  BY DEF SetUpMeansAuthenticated
<1>1. /\ r.target \in Url /\ r.user = user[r.target]
      /\ pc[r.target] \in {"spider", "attack", "done"}
      /\ "rule" \in configured[r.target] => r.target \in r.headers
  BY DEF IInv, ZapTypeOK, Request, SentInv
<1>2. TaskInv(r.target)
  BY <1>1 DEF IInv
<1>3. /\ Mine(r.target)
      /\ Credentialed(auth[r.target]) => r.user = HostOfUrl(r.target)
      /\ r.user # None => Credentialed(auth[r.target])
  BY <1>1, <1>2 DEF TaskInv, Through, Complete
<1>4. CASE Credentialed(auth[r.target])
  BY <1>3, <1>4 DEF Credentialed
<1>5. CASE auth[r.target].kind = "header"
  <2>1. Calls(auth[r.target])[1] = "rule" /\ 1 \in DOMAIN Calls(auth[r.target])
    <3>1. /\ Calls(auth[r.target]) \in Seq(Call)
          /\ Len(Calls(auth[r.target])) \in Nat \ {0}
          /\ Calls(auth[r.target])[1] = "rule"
      BY <1>5, PlanIsSequence
    <3>2. QED
      BY <3>1
  <2>2. r.target \in r.headers
    BY <1>1, <1>3, <2>1 DEF Mine
  <2>3. ~Credentialed(auth[r.target])
    BY <1>5 DEF Credentialed
  <2>4. QED
    BY <1>5, <2>2, <2>3
<1>6. CASE ~Credentialed(auth[r.target]) /\ auth[r.target].kind # "header"
  BY <1>3, <1>6
<1>7. QED
  BY <1>4, <1>5, <1>6

\* A target whose secrets are set and none of whose calls failed is scanned as
\* its user, or with its header.
THEOREM SetUpIsUsed == ZapSpec => []SetUpMeansAuthenticated
BY Inductive, Authenticated, PTL

LEMMA NoTrace == IInv => MissingSecretLeavesNoTrace
BY DEF IInv, ZapTypeOK, TaskInv, Backed, MissingSecretLeavesNoTrace

\* A target with a missing secret sets nothing up in the shared daemon.
THEOREM MissingSecretIsHarmless == ZapSpec => []MissingSecretLeavesNoTrace
BY Inductive, NoTrace, PTL

LEMMA HeadersOnly == IInv => OnlyHeadersCrossOver
<1> SUFFICES ASSUME IInv, NEW r \in sent, NEW u \in r.headers
             PROVE  /\ u \in DOMAIN auth /\ auth[u] # Absent
                    /\ auth[u].kind = "header" /\ Resolved(auth[u])
                    /\ owner[HostOfUrl(u)] = u
  BY DEF OnlyHeadersCrossOver
<1>1. u \in Url /\ "rule" \in configured[u]
  BY DEF IInv, ZapTypeOK, Request, SentInv
<1>2. TaskInv(u)
  BY <1>1 DEF IInv
<1>3. QED
  BY <1>1, <1>2 DEF TaskInv, Fresh, Owned, Backed

\* The only thing of another target that a request may carry is a header that
\* target declares, from a task that owns its context.
THEOREM NothingElseCrossesOver == ZapSpec => []OnlyHeadersCrossOver
BY Inductive, HeadersOnly, PTL

=============================================================================
