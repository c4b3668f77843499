---------------------------- MODULE ReportServer ----------------------------
(***************************************************************************)
(* The dashboard of `vulnpipe serve`: an HTTPServer, which has one thread.  *)
(* It accepts a connection, stays with it until it is closed (HTTP/1.1      *)
(* keeps connections open, and no timeout is set), and only then accepts    *)
(* the next.  The kernel completes connections while they wait.             *)
(***************************************************************************)
EXTENDS Naturals, Sequences

CONSTANTS Client,  \* connections that are made to the server
          NoClient

ASSUME ReportServerAssumption == NoClient \notin Client

VARIABLES up,       \* the server has bound its port and runs
          queue,    \* connections that wait to be accepted
          serving,  \* the connection the thread is with, or NoClient
          asked,    \* clients with a request that is not answered
          gone      \* clients that have hung up, which the server has yet to notice

serverVars == <<up, queue, serving, asked, gone>>

ServerTypeOK ==
    /\ up \in BOOLEAN
    /\ queue \in Seq(Client)
    /\ serving \in Client \cup {NoClient}
    /\ asked \subseteq Client
    /\ gone \subseteq Client

Waiting(c) == \E i \in DOMAIN queue : queue[i] = c
Connected(c) == Waiting(c) \/ serving = c

ServerDown ==
    /\ up = FALSE
    /\ queue = <<>>
    /\ serving = NoClient
    /\ asked = {}
    /\ gone = {}

\* create_server
Bind ==
    /\ ~up
    /\ up' = TRUE
    /\ UNCHANGED <<queue, serving, asked, gone>>

(***************************************************************************)
(* Clients connect, ask, and hang up when they like.                        *)
(***************************************************************************)
Connect(c) ==
    /\ up
    /\ ~Connected(c)
    /\ queue' = Append(queue, c)
    /\ UNCHANGED <<up, serving, asked, gone>>

Ask(c) ==
    /\ Connected(c)
    /\ c \notin asked \cup gone
    /\ asked' = asked \cup {c}
    /\ UNCHANGED <<up, queue, serving, gone>>

HangUp(c) ==
    /\ Connected(c)
    /\ gone' = gone \cup {c}
    /\ asked' = asked \ {c}
    /\ UNCHANGED <<up, queue, serving>>

(***************************************************************************)
(* The server.  A request is answered from the snapshot, whatever its       *)
(* method and path; the client's header says whether the connection stays.  *)
(***************************************************************************)
Accept ==
    /\ up
    /\ serving = NoClient
    /\ queue # <<>>
    /\ serving' = Head(queue)
    /\ queue' = Tail(queue)
    /\ UNCHANGED <<up, asked, gone>>

Answer(c) ==
    /\ serving = c
    /\ c \in asked
    /\ asked' = asked \ {c}
    /\ \E keep \in BOOLEAN : serving' = IF keep THEN c ELSE NoClient
    /\ UNCHANGED <<up, queue, gone>>

\* The end of the stream, or a write that fails: the handler returns.
Close(c) ==
    /\ serving = c
    /\ c \in gone
    /\ serving' = NoClient
    /\ gone' = gone \ {c}
    /\ UNCHANGED <<up, queue, asked>>

\* Ctrl-C: server_close.
Interrupt ==
    /\ up
    /\ up' = FALSE
    /\ queue' = <<>>
    /\ serving' = NoClient
    /\ asked' = {}
    /\ gone' = {}

ClientStep == \E c \in Client : Connect(c) \/ Ask(c) \/ HangUp(c)
ServerStep == Accept \/ \E c \in Client : Answer(c) \/ Close(c)

=============================================================================
