---------------------------- MODULE ZapContexts ----------------------------
(***************************************************************************)
(* Authentication in the ZAP layer: the tasks of the web targets            *)
(* (scanners/zap_scanner.py _ensure_context, _configure_auth) set contexts, *)
(* users and header rules up in one shared daemon (auth/auth_contexts.py)   *)
(* and then spider and attack their target as whoever that made them.       *)
(*                                                                         *)
(* The daemon is external: it knows a context by its name, refuses a name   *)
(* twice, puts every header rule on every request of every target, and any  *)
(* call to it may fail, with or without its effect.  WebLayer models how    *)
(* many tasks run at a time; here any of them may overlap.                  *)
(***************************************************************************)
EXTENDS Scope

CONSTANTS Url,     \* the web targets there can be
          Auth,    \* the auth blocks of the configuration
          Env,     \* the environment variables that are set
          None

Host == {HostOfUrl(u) : u \in Url}  \* names the contexts

Call == {"method", "logged in", "logged out", "session", "new user",
         "credentials", "enable", "rule"}

Phase == {"spider", "attack"}

\* The variables of a block are Unnamed where it names none; a form names
\* both a username and a password, a header a token.
AuthBlock ==
    {a \in [kind : {"form", "header", "script"}, loggedIn : BOOLEAN,
            loggedOut : BOOLEAN, username : STRING, password : STRING,
            token : STRING] :
        /\ a.kind = "form" => Unnamed \notin {a.username, a.password}
        /\ a.kind = "header" => a.token # Unnamed}

ASSUME ZapContextsAssumption ==
    /\ Auth \subseteq AuthBlock
    /\ Absent \notin Auth
    /\ None \notin Url \cup Host

VARIABLES auth,       \* the targets of the run, each with its auth
          pc,         \* where the task of each target is
          context,    \* the context the task holds, by name
          user,       \* the context whose user the task scans as
          step,       \* how many calls of the plan have been answered
          owner,      \* daemon: whose task created the context of that name
          configured, \* daemon: what each target's task has set up in it
          failed,     \* history: a call of the task has failed
          sent        \* history: the requests the daemon sent to the targets

taskVars == <<pc, context, user, step, failed>>
zapVars == <<auth, taskVars, owner, configured, sent>>

Request == [target : Url, phase : Phase, user : Host \cup {None},
            headers : SUBSET Url]

Place == {"idle", "context", "include", "auth", "apply", "spider", "attack",
          "done"}

\* The type invariant.
ZapTypeOK ==
    /\ DOMAIN auth \subseteq Url
    /\ \A t \in DOMAIN auth : auth[t] \in Auth \cup {Absent}
    /\ pc \in [Url -> Place]
    /\ context \in [Url -> Host \cup {None}]
    /\ user \in [Url -> Host \cup {None}]
    /\ step \in [Url -> Nat]
    /\ owner \in [Host -> Url \cup {None}]
    /\ configured \in [Url -> SUBSET Call]
    /\ failed \in [Url -> BOOLEAN]
    /\ sent \subseteq Request

ZapInit ==
    /\ auth = [t \in {} |-> Absent]
    /\ pc = [t \in Url |-> "idle"]
    /\ context = [t \in Url |-> None]
    /\ user = [t \in Url |-> None]
    /\ step = [t \in Url |-> 0]
    /\ owner = [h \in Host |-> None]
    /\ configured = [t \in Url |-> {}]
    /\ failed = [t \in Url |-> FALSE]
    /\ sent = {}

-----------------------------------------------------------------------------
\* The calls that attach an auth block to a context, in their order.
Indicators(a) == (IF a.loggedIn THEN <<"logged in">> ELSE <<>>)
                 \o (IF a.loggedOut THEN <<"logged out">> ELSE <<>>)

CreateUser == <<"new user", "credentials", "enable">>

\* Whether a user is created, whose id the task gets.
Credentialed(a) == a.kind # "header" /\ Unnamed \notin {a.username, a.password}

\* apply_auth_context: form and script set the context up, header a rule.
Calls(a) ==
    IF a.kind = "header"
    THEN <<"rule">> \o Indicators(a)
    ELSE <<"method">> \o Indicators(a) \o <<"session">>
         \o (IF Credentialed(a) THEN CreateUser ELSE <<>>)

\* build_auth_context: every variable is resolved before the first call.
Secrets(a) == IF a.kind = "header" THEN {a.token}
              ELSE {a.username, a.password} \ {Unnamed}

Resolved(a) == Secrets(a) \subseteq Env

Goto(t, place) == pc' = [pc EXCEPT ![t] = place]
Fails(t) == failed' = [failed EXCEPT ![t] = TRUE]

-----------------------------------------------------------------------------
\* The web targets of the run are handed to the pool.
Collect(f) ==
    /\ auth' = f
    /\ pc' = [t \in Url |-> IF t \in DOMAIN f THEN "context" ELSE "idle"]
    /\ UNCHANGED <<context, user, step, failed, owner, configured, sent>>

\* Mutant: a context of that name is used, whoever created it.
NewContextReused(t) ==
    /\ pc[t] = "context"
    /\ owner' = [owner EXCEPT ![HostOfUrl(t)] = IF @ = None THEN t ELSE @]
    /\ Goto(t, "include")
    /\ UNCHANGED <<auth, context, user, step, failed, configured, sent>>

NewContext(t) ==
    /\ pc[t] = "context"
    /\ owner[HostOfUrl(t)] = None
    /\ owner' = [owner EXCEPT ![HostOfUrl(t)] = t]
    /\ Goto(t, "include")
    /\ UNCHANGED <<auth, context, user, step, failed, configured, sent>>

\* new_context or include_in_context fails: the task goes on without context,
\* and without a try to authenticate.  Its context, if any, stays.
ContextFails(t) ==
    /\ pc[t] \in {"context", "include"}
    /\ \/ UNCHANGED owner
       \/ owner[HostOfUrl(t)] = None /\ owner' = [owner EXCEPT ![HostOfUrl(t)] = t]
    /\ Fails(t)
    /\ Goto(t, "spider")
    /\ UNCHANGED <<auth, context, user, step, configured, sent>>

Include(t) ==
    /\ pc[t] = "include"
    /\ context' = [context EXCEPT ![t] = HostOfUrl(t)]
    /\ Goto(t, "auth")
    /\ UNCHANGED <<auth, user, step, failed, owner, configured, sent>>

\* Mutant: a missing secret does not stop the set-up.
BuildUnresolved(t) ==
    /\ pc[t] = "auth"
    /\ Goto(t, IF auth[t] = Absent THEN "spider" ELSE "apply")
    /\ UNCHANGED <<auth, context, user, step, failed, owner, configured, sent>>

Build(t) ==
    /\ pc[t] = "auth"
    /\ Goto(t, IF auth[t] = Absent \/ ~Resolved(auth[t]) THEN "spider"
                                                          ELSE "apply")
    /\ UNCHANGED <<auth, context, user, step, failed, owner, configured, sent>>

NextCall(t) == Calls(auth[t])[step[t] + 1]

\* A call is answered; after the last one the task has its user, if any.
Apply(t) ==
    /\ pc[t] = "apply"
    /\ configured' = [configured EXCEPT ![t] = @ \cup {NextCall(t)}]
    /\ step' = [step EXCEPT ![t] = @ + 1]
    /\ IF step[t] + 1 < Len(Calls(auth[t]))
       THEN UNCHANGED <<pc, user>>
       ELSE /\ Goto(t, "spider")
            /\ user' = IF Credentialed(auth[t])
                       THEN [user EXCEPT ![t] = context[t]] ELSE user
    /\ UNCHANGED <<auth, context, failed, owner, sent>>

\* A call fails, after its effect or before: nothing that was set up is undone.
ApplyFails(t) ==
    /\ pc[t] = "apply"
    /\ \/ UNCHANGED configured
       \/ configured' = [configured EXCEPT ![t] = @ \cup {NextCall(t)}]
    /\ Fails(t)
    /\ Goto(t, "spider")
    /\ UNCHANGED <<auth, context, user, step, owner, sent>>

\* The daemon sends a request for the scan of t: as the user of the task, and
\* with the header of every rule there is by now.
Send(t) ==
    /\ pc[t] \in Phase
    /\ sent' = sent \cup
          {[target |-> t, phase |-> pc[t], user |-> user[t],
            headers |-> {u \in Url : "rule" \in configured[u]}]}
    /\ UNCHANGED <<auth, taskVars, owner, configured>>

\* The spider is off, done or out of time.
EndSpider(t) ==
    /\ pc[t] = "spider"
    /\ Goto(t, "attack")
    /\ UNCHANGED <<auth, context, user, step, failed, owner, configured, sent>>

\* The attack is over, or a call of either phase has raised.
EndTask(t) ==
    /\ pc[t] \in Phase
    /\ Goto(t, "done")
    /\ UNCHANGED <<auth, context, user, step, failed, owner, configured, sent>>

TaskStep(t) ==
    \/ NewContext(t) \/ ContextFails(t) \/ Include(t) \/ Build(t)
    \/ Apply(t) \/ ApplyFails(t) \/ Send(t) \/ EndSpider(t) \/ EndTask(t)

Jobs == UNION {[ts -> Auth \cup {Absent}] : ts \in SUBSET Url}

ZapNext == \/ DOMAIN auth = {} /\ \E f \in Jobs : Collect(f)
        \/ \E t \in Url : TaskStep(t)

ZapSpec == ZapInit /\ [][ZapNext]_zapVars

-----------------------------------------------------------------------------
Mine(t) == \A i \in DOMAIN Calls(auth[t]) : Calls(auth[t])[i] \in configured[t]

\* A request that is sent as a user is sent as the user of its own target, in
\* the context which that target's task created and configured to the last
\* call: never in a context another task owns or has half set up.
UserIsOwnAndComplete ==
    \A r \in sent : r.user # None =>
        /\ auth[r.target] # Absent /\ Credentialed(auth[r.target])
        /\ r.user = HostOfUrl(r.target)
        /\ owner[r.user] = r.target
        /\ Mine(r.target)

\* A target whose secrets are set and none of whose calls failed is spidered
\* and attacked authenticated: as its user, or with its header.
SetUpMeansAuthenticated ==
    \A r \in sent :
        auth[r.target] # Absent /\ Resolved(auth[r.target])
          /\ ~failed[r.target] =>
            CASE Credentialed(auth[r.target]) -> r.user = HostOfUrl(r.target)
              [] auth[r.target].kind = "header" -> r.target \in r.headers
              [] OTHER -> r.user = None /\ Mine(r.target)

\* A target one of whose secrets is not set leaves nothing behind in the
\* daemon that others share: no user, no rule, no half configured context.
MissingSecretLeavesNoTrace ==
    \A t \in DOMAIN auth :
        (auth[t] # Absent /\ ~Resolved(auth[t])) => configured[t] = {}

\* Whose credentials a request carries is known: those of its own target, and
\* the headers of targets with a header block, complete or not.
OnlyHeadersCrossOver ==
    \A r \in sent : \A u \in r.headers :
        /\ u \in DOMAIN auth /\ auth[u] # Absent
        /\ auth[u].kind = "header" /\ Resolved(auth[u])
        /\ owner[HostOfUrl(u)] = u
=============================================================================
