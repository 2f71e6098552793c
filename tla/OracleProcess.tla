--------------------------- MODULE OracleProcess ---------------------------
(***************************************************************************)
(* cmd/oracle/main.go: startOracle from its first statement to the end of  *)
(* the process, with the goroutines it starts and the signals that end it. *)
(* What the components do with the configured pairs is in PriceSources; a  *)
(* round of the polling, which may never return, is a single step here.    *)
(*                                                                         *)
(* External: the polling handler, whose loop runs one round after another  *)
(* until it sees that it was closed, whose Close does not wait, and whose  *)
(* calls may return an error; the runtime, which ends the process when a   *)
(* goroutine panics, when main returns, and at a signal nobody asked for.  *)
(* main starts one web server and never closes it; CallWebServer stands    *)
(* for what else its interface offers, and the tests of the web server do. *)
(***************************************************************************)
EXTENDS KeyFile, WebServer

CONSTANTS
    KeyFiles,       \* files the configuration may name as PrivateKeyFile
    MaxSignals      \* bound: signals sent to the process

ASSUME SignalsAssumption == MaxSignals \in Nat
ASSUME KeyFilesAssumption ==
    \A file \in KeyFiles :
        /\ file.blocks \in Seq({file.blocks[i] : i \in DOMAIN file.blocks})
        /\ \A i \in DOMAIN file.blocks :
              file.blocks[i].data.kind = "digits" => file.blocks[i].data.length \in Nat

VARIABLES
    keyFile,        \* the file
    restApi,        \* whether a web server is asked for: RestApiInterface
    at,             \* the next step of startOracle
    wallet,         \* oracleWallet
    loop,           \* the loop of the polling handler
    closed,         \* whether the polling handler was closed
    sigs,           \* how many signals are in the channel
    exit,           \* how the process ended
    signals,        \* history: the signals sent so far
    polled          \* history: whether a round was ever started

settings == <<keyFile, restApi>>
main     == <<at, wallet, closed>>
vars     == <<settings, main, loop, sigs, exit, signals, polled, webServer>>

Running == exit = "none"

Init ==
    /\ keyFile \in KeyFiles /\ restApi \in BOOLEAN
    /\ at = "config" /\ wallet = NoWallet("none")
    /\ loop = "none" /\ closed = FALSE
    /\ sigs = 0 /\ exit = "none"
    /\ signals = 0 /\ polled = FALSE
    /\ WebServerInit

(***************************************************************************)
(* startOracle.                                                            *)
(***************************************************************************)
\* Faulty variant: the polling starts before the rest is set up.
NextStepPollsEarly ==
    [config |-> "wallet", wallet |-> "loop", loop |-> "components",
     components |-> "server", server |-> "notify", notify |-> "receive",
     receive |-> "close", close |-> "return"]

NextStep ==
    [config |-> "wallet", wallet |-> "components", components |-> "server",
     server |-> "loop", loop |-> "notify", notify |-> "receive",
     receive |-> "close", close |-> "return"]

AtStep(step) == Running /\ at = step /\ at' = NextStep[step]

\* The logger, the configuration, the proxy, the nonce handler, the address;
\* later the fetchers, the notifee, the services, the two handlers.
SetUp ==
    /\ AtStep("config") \/ AtStep("components")
    /\ UNCHANGED <<settings, wallet, closed, loop, sigs, exit, signals, polled, webServer>>

SetUpFails ==
    /\ Running /\ at \in {"config", "components"}
    /\ exit' = "error"
    /\ UNCHANGED <<settings, main, loop, sigs, signals, polled, webServer>>

LoadWallet ==
    /\ Running /\ at = "wallet"
    /\ \E made \in NewWalletFromPEM(keyFile) :
          /\ wallet' = made
          /\ at' = IF made.err = "nil" THEN NextStep[at] ELSE at
          /\ exit' = IF made.err = "nil" THEN exit
                     ELSE IF made.err = "panic" THEN "panic" ELSE "error"
    /\ UNCHANGED <<settings, closed, loop, sigs, signals, polled, webServer>>

StartWebServer ==
    /\ AtStep("server")
    /\ IF restApi THEN StartHttpServer ELSE UNCHANGED webServer
    /\ UNCHANGED <<settings, wallet, closed, loop, sigs, exit, signals, polled>>

StartProcessingLoop ==
    /\ AtStep("loop")
    /\ loop' = "waiting"
    /\ UNCHANGED <<settings, wallet, closed, sigs, exit, signals, polled, webServer>>

StartProcessingLoopFails ==
    /\ Running /\ at = "loop"
    /\ exit' = "error"
    /\ UNCHANGED <<settings, main, loop, sigs, signals, polled, webServer>>

Notify ==
    /\ AtStep("notify")
    /\ UNCHANGED <<settings, wallet, closed, loop, sigs, exit, signals, polled, webServer>>

ReceiveSignal ==
    /\ AtStep("receive") /\ sigs > 0
    /\ sigs' = sigs - 1
    /\ UNCHANGED <<settings, wallet, closed, loop, exit, signals, polled, webServer>>

ClosePollingHandler ==
    /\ AtStep("close")
    /\ closed' = TRUE
    /\ UNCHANGED <<settings, wallet, loop, sigs, exit, signals, polled, webServer>>

\* The loop may end all the same.
ClosePollingHandlerFails ==
    /\ Running /\ at = "close"
    /\ at' = "returnError" /\ closed' \in BOOLEAN
    /\ UNCHANGED <<settings, wallet, loop, sigs, exit, signals, polled, webServer>>

\* And main: the process exits with 1 if startOracle returned an error.
Return ==
    /\ Running /\ at \in {"return", "returnError"}
    /\ exit' = IF at = "return" THEN "returned" ELSE "error"
    /\ UNCHANGED <<settings, main, loop, sigs, signals, polled, webServer>>

Main ==
    \/ SetUp \/ SetUpFails \/ LoadWallet \/ StartWebServer
    \/ StartProcessingLoop \/ StartProcessingLoopFails \/ Notify \/ ReceiveSignal
    \/ ClosePollingHandler \/ ClosePollingHandlerFails \/ Return

(***************************************************************************)
(* Signals.  Until signal.Notify a signal ends the process; then it is put *)
(* into the channel, or dropped when the channel is full.                  *)
(***************************************************************************)
Registered == at \in {"receive", "close", "return", "returnError"}

\* Faulty variant: a channel without a buffer, when nobody receives.
SignalUnbuffered ==
    /\ Running /\ signals < MaxSignals
    /\ signals' = signals + 1
    /\ IF Registered THEN sigs' \in {sigs, 1} /\ UNCHANGED exit
                     ELSE exit' = "killed" /\ UNCHANGED sigs
    /\ UNCHANGED <<settings, main, loop, polled, webServer>>

Signal ==
    /\ Running /\ signals < MaxSignals
    /\ signals' = signals + 1
    /\ IF Registered THEN sigs' = 1 /\ UNCHANGED exit
                     ELSE exit' = "killed" /\ UNCHANGED sigs
    /\ UNCHANGED <<settings, main, loop, polled, webServer>>

(***************************************************************************)
(* The loop of the polling handler.                                        *)
(***************************************************************************)
StartRound ==
    /\ Running /\ loop = "waiting"
    /\ loop' = "round" /\ polled' = TRUE
    /\ UNCHANGED <<settings, main, sigs, exit, signals, webServer>>

EndRound ==
    /\ Running /\ loop = "round"
    /\ loop' = "waiting"
    /\ UNCHANGED <<settings, main, sigs, exit, signals, polled, webServer>>

\* A fetcher that panics does so in a goroutine of its own.
RoundPanics ==
    /\ Running /\ loop = "round"
    /\ exit' = "panic"
    /\ UNCHANGED <<settings, main, loop, sigs, signals, polled, webServer>>

LoopEnds ==
    /\ Running /\ loop = "waiting" /\ closed
    /\ loop' = "ended"
    /\ UNCHANGED <<settings, main, sigs, exit, signals, polled, webServer>>

Polling == StartRound \/ EndRound \/ RoundPanics \/ LoopEnds

(***************************************************************************)
(* The web server, and its callers other than main.                        *)
(***************************************************************************)
CallWebServer == servers # << >> /\ (StartHttpServer \/ Close)

ServeLog ==
    /\ Running
    /\ Serve \/ CallWebServer \/ CloseReturns
    /\ UNCHANGED <<settings, main, loop, sigs, exit, signals, polled>>

Next == Main \/ Signal \/ Polling \/ ServeLog

(***************************************************************************)
(* main goes on, and Shutdown returns or its second passes.  Nothing is    *)
(* assumed of the rounds, the requests, or the goroutine of a server.      *)
(***************************************************************************)
Spec == Init /\ [][Next]_vars /\ WF_vars(Main)
             /\ WF_vars(ServeLog /\ CloseReturns)
-----------------------------------------------------------------------------
TypeOK ==
    /\ keyFile \in KeyFiles /\ restApi \in BOOLEAN
    /\ at \in DOMAIN NextStep \cup {"return", "returnError"}
    /\ loop \in {"none", "waiting", "round", "ended"}
    /\ closed \in BOOLEAN /\ polled \in BOOLEAN
    /\ sigs \in 0 .. 1 /\ signals \in 0 .. MaxSignals
    /\ exit \in {"none", "error", "panic", "killed", "returned"}
    /\ servers \in Seq({"created", "listening", "returned"})
    /\ shutDown \subseteq DOMAIN servers
    /\ httpServer \in DOMAIN servers \cup {None}
    /\ \A i, j \in Listening : i = j
    /\ \A c \in DOMAIN requests : requests[c] \in DOMAIN servers
    /\ logSenders \subseteq Connections \ DOMAIN requests

(***************************************************************************)
(* Whatever the file holds, an oracle polls only with the key of its first *)
(* block, which is marked as a private key and not encrypted: no later     *)
(* block, and no block that needs a password, is ever used.  Only a key    *)
(* that is too short is followed by something else.                        *)
(***************************************************************************)
PollsWithTheFirstKey ==
    loop # "none" =>
        /\ keyFile.blocks # << >>
        /\ LET first == keyFile.blocks[1]
           IN  /\ first.marked /\ first.dekInfo = "none" /\ first.data.kind = "digits"
               /\ wallet.key = first.data.key
               /\ wallet.whole \/ first.data.length < SeedSize

(***************************************************************************)
(* Once a round was started, only a panic ends the process without a       *)
(* signal: no failure of the set-up comes after the polling has begun, and *)
(* main closes the polling handler, which may fail, only when it is told   *)
(* to end.  So an oracle that fails to start has notified nothing.         *)
(***************************************************************************)
OnlySignalsStopPolling == polled /\ exit \notin {"none", "panic"} => signals > 0

(***************************************************************************)
(* A signal ends the process, however early it comes, even if a round or a *)
(* request never ends: no signal is lost between Notify and the receive.   *)
(***************************************************************************)
SignalEndsProcess == signals > 0 ~> ~Running

(***************************************************************************)
(* The server that was the last one when Close was called never listens    *)
(* again, even if its goroutine had not come to listen yet.  A server that *)
(* a second StartHttpServer had replaced may.                              *)
(***************************************************************************)
LastServerStaysClosed == closedAt \notin Listening

(***************************************************************************)
(* Close gives the lock back, even if a request never ends.                *)
(***************************************************************************)
CloseGivesUp == closing ~> ~closing \/ ~Running
=============================================================================
