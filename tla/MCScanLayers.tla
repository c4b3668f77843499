---------------------------- MODULE MCScanLayers ----------------------------
(* Two hosts behind one allowed network, one of them the web server         *)
(* shop.test, and configurations that declare them in every way.            *)
EXTENDS ScanLayers, TLC

Shop == Name(<<"shop", "test">>)
Lan  == Net({1, 2})
Far  == Net({3})

Script(id, rows, mentions) == [id |-> id, rows |-> rows, mentions |-> mentions]
Row(cve, cvss, state) == [cve |-> cve, cvss |-> cvss, state |-> state]

MCWorld ==
    << [host |-> Net({1}), up |-> TRUE, scripts |-> {},
        services |-> {[port |-> 80, open |-> TRUE, service |-> "http", conf |-> 10,
                       scripts |-> {Script("vulners", <<Row("a", Unknown, 1),
                                            Row("a", 98, Unknown), Row("b", 101, 0)>>, {"c"})}]}],
       [host |-> Net({2}), up |-> TRUE, scripts |-> {Script("host", <<>>, {"a"})},
        services |-> {[port |-> 8443, open |-> TRUE, service |-> "", conf |-> 3, scripts |-> {}],
                      [port |-> 22, open |-> FALSE, service |-> "ssh", conf |-> 7, scripts |-> {}]}],
       [host |-> Net({3}), up |-> TRUE, scripts |-> {},
        services |-> {[port |-> 80, open |-> TRUE, service |-> "http", conf |-> 0, scripts |-> {}]}] >>

MCResolves == <<"shop", "test">> :> Net({1})
MCEnvironment == [USER |-> Blank, PASSWORD |-> Blank, LAN |-> Lan, EMPTY |-> Blank]
MCEnv == DOMAIN MCEnvironment

Block(kind, username, password, token) ==
    [kind |-> kind, loggedIn |-> kind = "header", loggedOut |-> FALSE,
     username |-> username, password |-> password, token |-> token]
Form   == Block("form", "USER", "PASSWORD", Unnamed)
Header == Block("header", Unnamed, Unnamed, "USER")
Missing == Block("script", "USER", "MISSING", Unnamed)
Plain == Block("script", Unnamed, Unnamed, Unnamed)
MCAuth == {Form, Header, Missing, Plain}

Site  == Web("https", Net({2}), 8443, <<>>)         \* as nmap discovers it
Store == Web("http", Shop, Unknown, <<"store">>)
Admin == Web("http", Shop, Unknown, <<"admin">>)
Found == Web("http", Net({1}), 80, <<>>)
Other == Web("http", Far, 80, <<>>)                \* found, and never in scope
MCUrl == {Site, Store, Admin, Found, Other}

Alert(base, url, risk, code, conf) ==
    [base |-> base, url |-> url, title |-> TRUE, risk |-> risk,
     riskcode |-> code, conf |-> conf]
MCAlerts == {Alert(Store, Store, "critical", 3, 2), Alert(Store, Absent, "high", 3, 2),
             Alert(Store, Web("http", Far, Unknown, <<>>), "high", 3, 2),
             Alert(Site, Site, "low", 3, 9)}

Line(base, host, matched, severity) ==
    [base |-> base, json |-> TRUE, title |-> TRUE, host |-> host, port |-> Unknown,
     matched |-> matched, severity |-> severity, cvss |-> Unknown]
MCResults == << Line(Store, Absent, Store, "critical"), Line(Site, Far, Absent, "info"),
                Line(Store, Shop, Web("http", Far, Unknown, <<>>), "high") >>

Target(host, urls, a) == [host |-> host, urls |-> urls, auth |-> a]
Scope0 == [hosts |-> {Lan, Wild(<<"test">>)}, urls |-> {}]
Config(scope, targets, zap, nuclei) ==
    [scope |-> scope, targets |-> targets, nmap |-> TRUE, zap |-> zap,
     nuclei |-> nuclei, apiKey |-> "USER", strict |-> TRUE]
Written1(c) == [doc |-> "mapping", config |-> c]

LanOnly   == Config(Scope0, <<Target(Lan, <<>>, Absent)>>, TRUE, TRUE)
TwoAuths  == Config(Scope0, <<Target(Absent, <<Store>>, Form),
                              Target(Absent, <<Store, Site>>, Header)>>, TRUE, TRUE)
OneHost   == Config(Scope0, <<Target(Absent, <<Store, Admin>>, Form)>>, TRUE, TRUE)
Again     == Config(Scope0, <<Target(Net({2}), <<Site>>, Form)>>, TRUE, FALSE)
Scripts   == Config(Scope0, <<Target(Absent, <<Store>>, Missing),
                              Target(Absent, <<Site>>, Plain)>>, TRUE, FALSE)
Outside   == Config(Scope0, <<Target(Far, <<>>, Absent)>>, TRUE, TRUE)
OutsideWeb == Config([hosts |-> {Lan}, urls |-> {Store}],
                     <<Target(Lan, <<Admin>>, Absent)>>, TRUE, TRUE)
Nothing   == Config([hosts |-> {}, urls |-> {}], <<Target(Lan, <<>>, Absent)>>, TRUE, TRUE)
ByName    == Config([Scope0 EXCEPT !.hosts = {Wild(<<"test">>)}],
                    <<Target(Shop, <<>>, Absent)>>, TRUE, FALSE)
ByUrl     == Config([hosts |-> {Net({1})}, urls |-> {Web("http", Shop, Unknown, <<>>)}],
                    <<Target(Net({1}), <<Store>>, Header)>>, TRUE, FALSE)
FromEnv(var, default) ==
    Config([Scope0 EXCEPT !.hosts = {Ref(var, default)}], <<Target(Ref("LAN", Absent), <<>>, Absent)>>,
           FALSE, FALSE)

MCFile == {Written1(c) : c \in {LanOnly, TwoAuths, OneHost, Again, Scripts, Outside,
                                OutsideWeb, Nothing, ByName, ByUrl, FromEnv("LAN", Absent),
                                FromEnv("EMPTY", Lan), FromEnv("NOT_SET", Lan),
                                FromEnv("NOT_SET", Absent)}}
          \cup {[doc |-> "list", config |-> LanOnly]}
MCNameFile == {Written1(LanOnly), Written1(ByName)}
=============================================================================
