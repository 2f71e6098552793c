----------------------------- MODULE WebServer -----------------------------
(***************************************************************************)
(* aggregator/api/gin: the web server that serves the log.  Each call of   *)
(* StartHttpServer creates an http.Server, which a goroutine makes listen  *)
(* on the one address; Close shuts down the last one created.  Servers     *)
(* are numbered in the order of their creation.                            *)
(*                                                                         *)
(* External, from net/http: a server that was shut down never listens; a   *)
(* second server cannot listen on the address; Shutdown stops listening,   *)
(* then waits for the requests at work, but not for the connections the    *)
(* websocket upgrade took away from the server.                            *)
(***************************************************************************)
EXTENDS Integers, Sequences, FiniteSets

CONSTANTS
    Connections,    \* connections clients may open
    MaxServers      \* bound: calls of StartHttpServer

ASSUME ServersAssumption == MaxServers \in Nat

VARIABLES
    servers,        \* what each http.Server does
    shutDown,       \* the servers Shutdown was called for
    httpServer,     \* ws.httpServer, or None
    closing,        \* Close holds the lock and waits in Shutdown
    requests,       \* the server of each connection with a request at work
    logSenders,     \* the connections a log sender writes to
    closedAt        \* history: the last server created when Close was last called

webServer == <<servers, shutDown, httpServer, closing, requests, logSenders, closedAt>>

None == 0
NoRequests == [c \in {} |-> None]
Listening == {i \in DOMAIN servers : servers[i] = "listening"}

WebServerInit ==
    /\ servers = << >> /\ shutDown = {}
    /\ httpServer = None /\ closing = FALSE
    /\ requests = NoRequests /\ logSenders = {} /\ closedAt = None

(***************************************************************************)
(* StartHttpServer, under the lock, unless the server is turned off.       *)
(***************************************************************************)
StartHttpServer ==
    /\ ~closing /\ Len(servers) < MaxServers
    /\ servers' = Append(servers, "created")
    /\ httpServer' = Len(servers')
    /\ UNCHANGED <<shutDown, closing, requests, logSenders, closedAt>>

(***************************************************************************)
(* The goroutine: httpServer.Start.  When ListenAndServe returns, for      *)
(* whatever reason, that is logged and no more.                            *)
(***************************************************************************)
ListenAndServe(i) ==
    /\ servers[i] = "created" /\ i \notin shutDown /\ Listening = {}
    /\ servers' = [servers EXCEPT ![i] = "listening"]
    /\ UNCHANGED <<shutDown, httpServer, closing, requests, logSenders, closedAt>>

ListenAndServeReturns(i) ==
    /\ servers[i] = "created"
    /\ servers' = [servers EXCEPT ![i] = "returned"]
    /\ UNCHANGED <<shutDown, httpServer, closing, requests, logSenders, closedAt>>

(***************************************************************************)
(* Clients.  A request for the log is upgraded, and then its handler sends *)
(* until the client goes away.                                             *)
(***************************************************************************)
Idle == Connections \ (DOMAIN requests \cup logSenders)

Without(c) == [d \in DOMAIN requests \ {c} |-> requests[d]]

AcceptRequest(c) ==
    /\ c \in Idle
    /\ \E i \in Listening : requests' = [d \in DOMAIN requests \cup {c} |->
                                            IF d = c THEN i ELSE requests[d]]
    /\ UNCHANGED <<servers, shutDown, httpServer, closing, logSenders, closedAt>>

RequestEnds(c) ==
    /\ c \in DOMAIN requests
    /\ requests' = Without(c)
    /\ UNCHANGED <<servers, shutDown, httpServer, closing, logSenders, closedAt>>

\* Faulty variant: the server goes on counting the request.
UpgradeToLogCounted(c) ==
    /\ c \in DOMAIN requests
    /\ logSenders' = logSenders \cup {c}
    /\ UNCHANGED <<servers, shutDown, httpServer, closing, requests, closedAt>>

UpgradeToLog(c) ==
    /\ c \in DOMAIN requests
    /\ requests' = Without(c) /\ logSenders' = logSenders \cup {c}
    /\ UNCHANGED <<servers, shutDown, httpServer, closing, closedAt>>

LogClientLeaves(c) ==
    /\ c \in logSenders /\ logSenders' = logSenders \ {c}
    /\ UNCHANGED <<servers, shutDown, httpServer, closing, requests, closedAt>>

(***************************************************************************)
(* Close: Shutdown under the lock, for at most a second.  A server that    *)
(* does not listen yet is shut down as well.                               *)
(***************************************************************************)
\* Faulty variant: only a server that listens is shut down.
CloseIfListening ==
    /\ ~closing /\ httpServer # None
    /\ IF httpServer \in Listening
       THEN /\ servers' = [servers EXCEPT ![httpServer] = "returned"]
            /\ shutDown' = shutDown \cup {httpServer}
            /\ closing' = TRUE
       ELSE UNCHANGED <<servers, shutDown, closing>>
    /\ closedAt' = Len(servers)
    /\ UNCHANGED <<httpServer, requests, logSenders>>

Close ==
    /\ ~closing /\ httpServer # None
    /\ servers' = [servers EXCEPT ![httpServer] = IF @ = "listening" THEN "returned" ELSE @]
    /\ shutDown' = shutDown \cup {httpServer}
    /\ closing' = TRUE
    /\ closedAt' = Len(servers)
    /\ UNCHANGED <<httpServer, requests, logSenders>>

ShutdownCompletes ==
    /\ closing /\ httpServer \notin {requests[c] : c \in DOMAIN requests}
    /\ closing' = FALSE
    /\ UNCHANGED <<servers, shutDown, httpServer, requests, logSenders, closedAt>>

\* Faulty variant: Shutdown without a deadline.
ShutdownTimesOutNever == FALSE /\ UNCHANGED webServer

ShutdownTimesOut ==
    /\ closing /\ httpServer \in {requests[c] : c \in DOMAIN requests}
    /\ closing' = FALSE
    /\ UNCHANGED <<servers, shutDown, httpServer, requests, logSenders, closedAt>>

CloseReturns == ShutdownCompletes \/ ShutdownTimesOut

Serve ==
    \/ \E i \in DOMAIN servers : ListenAndServe(i) \/ ListenAndServeReturns(i)
    \/ \E c \in Connections : \/ AcceptRequest(c) \/ RequestEnds(c)
                              \/ UpgradeToLog(c) \/ LogClientLeaves(c)
=============================================================================
