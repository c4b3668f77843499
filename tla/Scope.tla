------------------------------- MODULE Scope -------------------------------
(***************************************************************************)
(* The configuration of a scan and what it permits: core/config.py (loading,*)
(* validation, the allowlist of hosts and URL prefixes) and the plan that   *)
(* `vulnpipe validate` prints, core/planner.py.  No state.                  *)
(*                                                                         *)
(* An address or a CIDR is the set of its addresses, a hostname the         *)
(* sequence of its labels, a URL its origin (scheme, hostname and the port  *)
(* as it is written) and its path.  The addresses of the two IP families    *)
(* are different values, so a network of one never contains one of the      *)
(* other.                                                                   *)
(***************************************************************************)
EXTENDS Integers, Sequences, SequencesExt, FiniteSetsExt

\* No value: an optional field that is not given, a default that is not there.
Absent == [kind |-> "absent"]
Unnamed == "-"  \* a variable that is not named

Net(addrs)   == [kind |-> "net", addrs |-> addrs]
Name(labels) == [kind |-> "name", labels |-> labels]
Wild(labels) == [kind |-> "wild", labels |-> labels]   \* *.domain
Blank        == [kind |-> "blank"]                     \* the empty string

\* A text that refers to the environment: ${var} or ${var:-default}.
Ref(var, default) == [kind |-> "ref", var |-> var, default |-> default]

Web(scheme, host, port, path) ==
    [origin |-> <<scheme, host, port>>, path |-> path]
HostOfUrl(u) == u.origin[2]

-----------------------------------------------------------------------------
(* load_config *)

Interpolated(x, env) ==
    IF x.kind # "ref" THEN x
    ELSE IF x.var \in DOMAIN env THEN env[x.var] ELSE x.default

\* Every text of the file is interpolated; those of the hosts stand for all.
InterpolatedTarget(t, env) == [t EXCEPT !.host = Interpolated(@, env)]

InterpolatedConfig(c, env) ==
    [c EXCEPT !.scope.hosts = {Interpolated(h, env) : h \in @},
              !.targets = [i \in DOMAIN c.targets |->
                              InterpolatedTarget(c.targets[i], env)]]

ValidTarget(t) ==
    /\ t.host.kind \in {"net", "name", "absent"}
    /\ t.host # Absent \/ t.urls # <<>>

\* strict: no unknown key, every number in its range, every URL http(s).
ValidConfig(c) ==
    /\ \A h \in c.scope.hosts : h.kind \in {"net", "name", "wild"}
    /\ c.targets # <<>>
    /\ \A i \in DOMAIN c.targets : ValidTarget(c.targets[i])
    /\ c.strict

Texts(c) == c.scope.hosts \cup {t.host : t \in Range(c.targets)}

\* doc is what the YAML file holds: nothing, no YAML, no mapping, or a mapping.
Loaded(file, env) ==
    LET unset == {x \in Texts(file.config) : x # Absent /\ Interpolated(x, env) = Absent}
        c     == InterpolatedConfig(file.config, env)
    IN  IF file.doc = "mapping" /\ unset = {} /\ ValidConfig(c) THEN c ELSE Absent

-----------------------------------------------------------------------------
(* host_in_scope, url_in_scope *)

\* Mutant: an address is in scope only if it is listed as it is.
HostListed(h, allowed) ==
    \/ h.kind = "net" /\ h \in allowed
    \/ h.kind = "name" /\ \E e \in allowed :
           \/ e = h
           \/ e.kind = "wild" /\ IsSuffix(e.labels, h.labels)

HostInScope(h, allowed) ==
    \/ h.kind = "net" /\ \E e \in allowed :
           e.kind = "net" /\ h.addrs \subseteq e.addrs
    \/ h.kind = "name" /\ \E e \in allowed :
           \/ e = h
           \/ e.kind = "wild" /\ IsSuffix(e.labels, h.labels)

UrlInScope(u, scope) ==
    \/ \E b \in scope.urls : b.origin = u.origin /\ IsPrefix(b.path, u.path)
    \/ HostInScope(HostOfUrl(u), scope.hosts)

\* Mutant: the URLs of a target are left to the scanners.
TargetHostInScope(t, scope) == t.host = Absent \/ HostInScope(t.host, scope.hosts)

TargetInScope(t, scope) ==
    /\ t.host = Absent \/ HostInScope(t.host, scope.hosts)
    /\ \A u \in Range(t.urls) : UrlInScope(u, scope)

ConfigInScope(c) == \A t \in Range(c.targets) : TargetInScope(t, c.scope)

Authorized(acknowledged, scope) ==
    acknowledged /\ scope.hosts \cup scope.urls # {}

\* The metadata of a host: those of the first rule whose pattern covers it.
AssetRule(h, rules, default) ==
    LET covering == {i \in DOMAIN rules : HostInScope(h, {rules[i].host})}
    IN  IF covering = {} THEN default ELSE rules[Min(covering)]

-----------------------------------------------------------------------------
(* build_scan_plan *)

\* The variables an auth block names; those of a script are optional.
AuthSecretNames(a) ==
    CASE a.kind = "form"   -> {a.username, a.password}
      [] a.kind = "header" -> {a.token}
      [] a.kind = "script" -> {a.username, a.password} \ {Unnamed}

\* What is listed, each place once.
HostsOf(c) == {t.host : t \in Range(c.targets)} \ {Absent}
UrlsOf(c)  == UNION {Range(t.urls) : t \in Range(c.targets)}

ScanPlan(c) ==
    LET web == {u \in UrlsOf(c) : UrlInScope(u, c.scope)}
        out == {h \in HostsOf(c) : ~HostInScope(h, c.scope.hosts)}
               \cup (UrlsOf(c) \ web)
    IN  [network |-> HostsOf(c) \ out,
         web     |-> web,
         out     |-> out,
         secrets |-> (UNION {AuthSecretNames(t.auth) :
                               t \in {t \in Range(c.targets) : t.auth # Absent}})
                     \cup (IF c.zap /\ web # {} THEN {c.apiKey} ELSE {}),
         valid   |-> out = {} /\ c.scope.hosts \cup c.scope.urls # {}]

-----------------------------------------------------------------------------
(* What the scanners select.  Each selects the distinct places of its kind, *)
(* and none at all, but an error, if one of them is out of scope.           *)

SelectedHosts(c) ==
    [raised |-> \E h \in HostsOf(c) : ~HostInScope(h, c.scope.hosts),
     hosts  |-> HostsOf(c)]

\* A URL is scanned under the auth of the first target that lists it.
FirstListing(c, u) ==
    c.targets[Min({i \in DOMAIN c.targets : u \in Range(c.targets[i].urls)})]

SelectedUrls(c) ==
    [raised |-> \E u \in UrlsOf(c) : ~UrlInScope(u, c.scope),
     auth   |-> [u \in UrlsOf(c) |-> FirstListing(c, u).auth]]

\* Mutant: what the network layer discovered overrides what is declared.
CollectedDiscoveredFirst(c, discovered) ==
    LET found == {u \in discovered : UrlInScope(u, c.scope)}
    IN  [u \in found \cup UrlsOf(c) |->
            IF u \in found THEN Absent ELSE FirstListing(c, u).auth]

\* _collect_web_targets: the declared ones, and those the network layer found.
CollectedWebTargets(c, discovered) ==
    LET declared == SelectedUrls(c).auth
        found    == {u \in discovered : UrlInScope(u, c.scope)}
    IN  [u \in found \cup DOMAIN declared |->
            IF u \in DOMAIN declared THEN declared[u] ELSE Absent]

=============================================================================
