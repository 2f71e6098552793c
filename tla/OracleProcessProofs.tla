------------------------ MODULE OracleProcessProofs ------------------------
(***************************************************************************)
(* Proofs about the key file, and about the process that reads it, serves  *)
(* its log and ends.                                                       *)
(***************************************************************************)
EXTENDS OracleProcess, TLAPS

(***************************************************************************)
(* The key file.                                                           *)
(***************************************************************************)
\* What is encrypted is read again with its password, and with no other.
THEOREM EncryptionRoundTrip ==
    ASSUME NEW marked \in BOOLEAN, NEW data, NEW pwd, NEW other, pwd # NoPassword, other # pwd
    PROVE  /\ ReadBlock(EncryptPEMBlock(marked, data, pwd), pwd) = Loaded(data)
           /\ ReadBlock(EncryptPEMBlock(marked, data, pwd), other).err # "nil"
BY DEF ReadBlock, EncryptPEMBlock, IsEncryptedPEMBlock, DecryptPEMBlock, Block, Sealed,
       HashOfMode, Loaded, Failed

\* A block is loaded under the index 0 only if it is the first, and marked.
LEMMA LoadedIsFirst ==
    ASSUME NEW file, NEW Blocks, file.blocks \in Seq(Blocks), NEW pwd,
           LoadSkPkFromPemFile(file, 0, pwd).err = "nil"
    PROVE  /\ file.blocks # << >> /\ file.blocks[1].marked
           /\ LoadSkPkFromPemFile(file, 0, pwd) = ReadBlock(file.blocks[1], pwd)
<1>1. Unreadable(file, 0, pwd) \subseteq {1}
  BY DEF Unreadable
<1>2. Unreadable(file, 0, pwd) = {}
  <2>1. SUFFICES ASSUME Unreadable(file, 0, pwd) = {1} PROVE FALSE
    BY <1>1
  <2>2. Min({1}) = 1
    BY DEF Min
  <2>3. 1 > Len(file.blocks) \/ ReadBlock(file.blocks[1], pwd).err # "nil"
    BY <2>1 DEF Unreadable
  <2>4. Min(Unreadable(file, 0, pwd)) = 1 /\ Unreadable(file, 0, pwd) # {}
    BY <2>1, <2>2
  <2>5. CASE 1 <= Len(file.blocks)
    BY <2>3, <2>4, <2>5 DEF LoadSkPkFromPemFile, Failed
  <2>6. CASE ~(1 <= Len(file.blocks))
    BY <2>4, <2>6 DEF LoadSkPkFromPemFile, Failed
  <2>7. QED
    BY <2>5, <2>6
<1>3. ~(1 > Len(file.blocks)) /\ file.blocks # << >>
  BY <1>2 DEF Unreadable
<1>4. QED
  BY <1>2, <1>3 DEF LoadSkPkFromPemFile, Failed

\* Without a password, no block is loaded that is encrypted.
LEMMA LoadedIsPlain ==
    ASSUME NEW block, ReadBlock(block, NoPassword).err = "nil"
    PROVE  /\ block.dekInfo = "none"
           /\ ReadBlock(block, NoPassword) = Loaded(block.data)
BY DEF ReadBlock, IsEncryptedPEMBlock, Failed

\* A wallet is made only of a key that was loaded.
LEMMA WalletOfLoaded ==
    ASSUME NEW file, NEW w \in NewWalletFromPEM(file), w.err = "nil",
           NEW loaded, loaded = LoadKey(file, 0, NoPassword)
    PROVE  /\ loaded.err = "nil"
           /\ w = [key |-> loaded.data.key, whole |-> loaded.data.length >= SeedSize, err |-> "nil"]
<1>1. ASSUME loaded.err # "nil" PROVE FALSE
  <2>1. NewWalletFromPEM(file) = {NoWallet(loaded.err)}
    BY <1>1, Zenon DEF NewWalletFromPEM
  <2>2. w = NoWallet(loaded.err)
    BY <2>1, Zenon
  <2>3. QED
    BY <1>1, <2>2 DEF NoWallet
<1>2. PICK capacity \in Capacities(loaded.data.length) :
        w = IF capacity < SeedSize THEN NoWallet("panic")
            ELSE NewWallet(loaded.data.key, SeedSize, loaded.data.length >= SeedSize)
  BY <1>1, Zenon DEF NewWalletFromPEM
<1>3. CASE capacity < SeedSize
  <2>1. w = [key |-> "", whole |-> FALSE, err |-> "panic"]
    BY <1>2, <1>3, Zenon DEF NoWallet
  <2>2. QED
    BY <2>1
<1>4. CASE ~(capacity < SeedSize)
  BY <1>1, <1>2, <1>4, Zenon DEF NewWallet
<1>5. QED
  BY <1>3, <1>4, Zenon

\* Such a key is that of the first block, which is marked and not encrypted.
LEMMA FirstKeyLoaded ==
    ASSUME NEW file \in KeyFiles,
           NEW loaded, loaded = LoadKey(file, 0, NoPassword), loaded.err = "nil"
    PROVE  /\ file.blocks # << >> /\ 1 \in DOMAIN file.blocks
           /\ file.blocks[1].marked /\ file.blocks[1].dekInfo = "none"
           /\ file.blocks[1].data.kind = "digits"
           /\ loaded.data = file.blocks[1].data
<1>1. LoadSkPkFromPemFile(file, 0, NoPassword) = loaded /\ loaded.data.kind = "digits"
  BY DEF LoadKey, Failed
<1>2. /\ file.blocks \in Seq({file.blocks[i] : i \in DOMAIN file.blocks})
      /\ LoadSkPkFromPemFile(file, 0, NoPassword).err = "nil"
  BY <1>1, KeyFilesAssumption
<1>3. /\ file.blocks # << >> /\ file.blocks[1].marked
      /\ loaded = ReadBlock(file.blocks[1], NoPassword)
  BY <1>1, <1>2, LoadedIsFirst
<1>4. /\ file.blocks[1].dekInfo = "none"
      /\ loaded.data = file.blocks[1].data
  BY <1>3, LoadedIsPlain DEF Loaded
<1>5. QED
  BY <1>1, <1>2, <1>3, <1>4

(***************************************************************************)
(* The invariants.  LoadedInv holds since the wallet was made: the wallet  *)
(* is one the file allows.  StartInv places the loop, every error and the  *)
(* first signal in the order of startOracle: what is in the channel was    *)
(* sent, and main goes past the receive only with one of these.            *)
(* ServersInv says which server Close reaches.                             *)
(***************************************************************************)
LoadedInv ==
    /\ keyFile \in KeyFiles
    /\ at \notin {"config", "wallet"} =>
          wallet \in NewWalletFromPEM(keyFile) /\ wallet.err = "nil"

StartInv ==
    /\ at \in DOMAIN NextStep \cup {"return", "returnError"}
    /\ loop # "none" => at \in {"notify", "receive", "close", "return", "returnError"}
    /\ polled => loop # "none"
    /\ signals \in Nat /\ sigs \in Nat
    /\ sigs > 0 \/ at \in {"close", "return", "returnError"} => signals > 0
    /\ exit \in {"none", "error", "panic", "killed", "returned"}
    /\ exit = "error" => at \in {"config", "wallet", "components", "loop", "returnError"}
    /\ exit = "returned" => at = "return"
    /\ exit = "killed" => signals > 0

ServersInv ==
    /\ servers \in Seq({"created", "listening", "returned"})
    /\ httpServer = Len(servers)
    /\ shutDown \subseteq DOMAIN servers
    /\ closedAt \in shutDown \cup {None}
    /\ \A i \in shutDown : servers[i] # "listening"

IInv == LoadedInv /\ StartInv /\ ServersInv

LEMMA InitInv == Init => IInv
<1> SUFFICES ASSUME Init PROVE IInv
  OBVIOUS
<1>1. LoadedInv
  BY DEF Init, LoadedInv
<1>2. StartInv
  BY DEF Init, StartInv, NextStep
<1>3. ServersInv
  BY DEF Init, WebServerInit, ServersInv, None
<1>4. QED
  BY <1>1, <1>2, <1>3 DEF IInv

\* The steps that leave the web server alone.
LEMMA MainKeepsInv ==
    ASSUME LoadedInv, StartInv, Main
    PROVE  LoadedInv' /\ StartInv'
<1>1. CASE SetUp
  BY <1>1 DEF SetUp, AtStep, Running, NextStep, LoadedInv, StartInv, settings
<1>2. CASE SetUpFails
  BY <1>2 DEF SetUpFails, Running, NextStep, LoadedInv, StartInv, settings, main
<1>3. CASE LoadWallet
  BY <1>3 DEF LoadWallet, Running, NextStep, LoadedInv, StartInv, settings
<1>4. CASE StartWebServer
  BY <1>4 DEF StartWebServer, AtStep, Running, NextStep, LoadedInv, StartInv, settings
<1>5. CASE StartProcessingLoop
  BY <1>5 DEF StartProcessingLoop, AtStep, Running, NextStep, LoadedInv, StartInv, settings
<1>6. CASE StartProcessingLoopFails
  BY <1>6 DEF StartProcessingLoopFails, Running, NextStep, LoadedInv, StartInv, settings, main
<1>7. CASE Notify
  BY <1>7 DEF Notify, AtStep, Running, NextStep, LoadedInv, StartInv, settings
<1>8. CASE ReceiveSignal
  BY <1>8 DEF ReceiveSignal, AtStep, Running, NextStep, LoadedInv, StartInv, settings
<1>9. CASE ClosePollingHandler
  BY <1>9 DEF ClosePollingHandler, AtStep, Running, NextStep, LoadedInv, StartInv, settings
<1>10. CASE ClosePollingHandlerFails
  BY <1>10 DEF ClosePollingHandlerFails, Running, NextStep, LoadedInv, StartInv, settings
<1>11. CASE Return
  BY <1>11 DEF Return, Running, NextStep, LoadedInv, StartInv, settings, main
<1>12. QED
  BY <1>1, <1>2, <1>3, <1>4, <1>5, <1>6, <1>7, <1>8, <1>9, <1>10, <1>11 DEF Main

LEMMA OthersKeepInv ==
    ASSUME LoadedInv, StartInv, Signal \/ Polling \/ ServeLog \/ UNCHANGED vars
    PROVE  LoadedInv' /\ StartInv'
<1>1. CASE Signal
  BY <1>1 DEF Signal, Running, NextStep, LoadedInv, StartInv, settings, main
<1>2. CASE Polling
  <2>1. LoadedInv'
    BY <1>2 DEF Polling, StartRound, EndRound, RoundPanics, LoopEnds, LoadedInv, settings, main
  <2>2. StartInv'
    BY <1>2 DEF Polling, StartRound, EndRound, RoundPanics, LoopEnds, Running, NextStep,
                StartInv, settings, main
  <2>3. QED
    BY <2>1, <2>2
<1>3. CASE ServeLog
  BY <1>3 DEF ServeLog, NextStep, LoadedInv, StartInv, settings, main
<1>4. CASE UNCHANGED vars
  BY <1>4 DEF vars, NextStep, LoadedInv, StartInv, settings, main
<1>5. QED
  BY <1>1, <1>2, <1>3, <1>4

(***************************************************************************)
(* The web server.                                                         *)
(***************************************************************************)
LEMMA StartKeepsServersInv == ASSUME ServersInv, StartHttpServer PROVE ServersInv'
<1>1. /\ servers' = Append(servers, "created") /\ httpServer' = Len(servers')
      /\ UNCHANGED <<shutDown, closedAt>>
  BY DEF StartHttpServer
<1>2. \A i \in DOMAIN servers : i \in DOMAIN servers' /\ servers'[i] = servers[i]
  BY <1>1 DEF ServersInv
<1>3. servers' \in Seq({"created", "listening", "returned"})
  BY <1>1 DEF ServersInv
<1>4. QED
  BY <1>1, <1>2, <1>3 DEF ServersInv

LEMMA ListenKeepsServersInv ==
    ASSUME ServersInv, NEW i \in DOMAIN servers,
           ListenAndServe(i) \/ ListenAndServeReturns(i)
    PROVE  ServersInv'
<1>1. CASE ListenAndServe(i)
  BY <1>1 DEF ListenAndServe, ServersInv
<1>2. CASE ListenAndServeReturns(i)
  BY <1>2 DEF ListenAndServeReturns, ServersInv
<1>3. QED
  BY <1>1, <1>2

LEMMA CloseKeepsServersInv == ASSUME ServersInv, Close PROVE ServersInv'
<1>1. httpServer \in DOMAIN servers
  BY DEF Close, ServersInv, None
<1>2. /\ servers' = [servers EXCEPT ![httpServer] = IF @ = "listening" THEN "returned" ELSE @]
      /\ shutDown' = shutDown \cup {httpServer} /\ closedAt' = httpServer
      /\ httpServer' = httpServer
  BY DEF Close, ServersInv
<1>3. /\ servers' \in Seq({"created", "listening", "returned"})
      /\ Len(servers') = Len(servers) /\ DOMAIN servers' = DOMAIN servers
  BY <1>1, <1>2 DEF ServersInv
<1>4. \A i \in DOMAIN servers : servers'[i] = "listening" =>
                                   i # httpServer /\ servers[i] = "listening"
  BY <1>1, <1>2 DEF ServersInv
<1>5. QED
  BY <1>1, <1>2, <1>3, <1>4 DEF ServersInv

LEMMA ServersInvKept == ASSUME ServersInv, [Next]_vars PROVE ServersInv'
<1>1. CASE UNCHANGED webServer
  BY <1>1 DEF webServer, ServersInv
<1>2. CASE StartHttpServer
  BY <1>2, StartKeepsServersInv
<1>3. CASE Close
  BY <1>3, CloseKeepsServersInv
<1>4. CASE Serve
  <2>1. CASE \E i \in DOMAIN servers : ListenAndServe(i) \/ ListenAndServeReturns(i)
    BY <2>1, ListenKeepsServersInv
  <2>2. CASE \E c \in Connections : \/ AcceptRequest(c) \/ RequestEnds(c)
                                    \/ UpgradeToLog(c) \/ LogClientLeaves(c)
    <3>1. UNCHANGED <<servers, shutDown, httpServer, closedAt>>
      BY <2>2 DEF AcceptRequest, RequestEnds, UpgradeToLog, LogClientLeaves
    <3>2. QED
      BY <3>1 DEF ServersInv
  <2>3. QED
    BY <1>4, <2>1, <2>2 DEF Serve
<1>5. CASE CloseReturns
  BY <1>5 DEF CloseReturns, ShutdownCompletes, ShutdownTimesOut, ServersInv
<1>6. CASE Main
  <2>1. UNCHANGED webServer \/ StartHttpServer
    BY <1>6 DEF Main, SetUp, SetUpFails, LoadWallet, StartWebServer, StartProcessingLoop,
                StartProcessingLoopFails, Notify, ReceiveSignal, ClosePollingHandler,
                ClosePollingHandlerFails, Return
  <2>2. QED
    BY <2>1, <1>1, <1>2
<1>7. CASE Signal \/ Polling \/ UNCHANGED vars
  BY <1>7, <1>1 DEF Signal, Polling, StartRound, EndRound, RoundPanics, LoopEnds, vars
<1>8. CASE ServeLog
  BY <1>8, <1>2, <1>3, <1>4, <1>5 DEF ServeLog, CallWebServer
<1>9. QED
  BY <1>6, <1>7, <1>8 DEF Next

LEMMA Inductive == Spec => []IInv
<1>1. IInv /\ [Next]_vars => IInv'
  BY MainKeepsInv, OthersKeepInv, ServersInvKept DEF IInv, Next
<1>2. QED
  BY InitInv, <1>1, PTL DEF Spec

(***************************************************************************)
(* What holds of the process, for every key file.                          *)
(***************************************************************************)
\* Whoever polls does so with the key of the first block of the file.
THEOREM PollsWithFirstKey == Spec => []PollsWithTheFirstKey
<1>1. ASSUME IInv PROVE PollsWithTheFirstKey
  <2>1. SUFFICES ASSUME loop # "none" PROVE PollsWithTheFirstKey
    BY DEF PollsWithTheFirstKey
  <2>2. wallet \in NewWalletFromPEM(keyFile) /\ wallet.err = "nil" /\ keyFile \in KeyFiles
    BY <1>1, <2>1 DEF IInv, StartInv, LoadedInv
  <2> DEFINE loaded == LoadKey(keyFile, 0, NoPassword)
             first  == keyFile.blocks[1]
  <2>3. /\ loaded.err = "nil" /\ wallet.key = loaded.data.key
        /\ wallet.whole = (loaded.data.length >= SeedSize)
    BY <2>2, WalletOfLoaded
  <2>4. /\ keyFile.blocks # << >> /\ 1 \in DOMAIN keyFile.blocks
        /\ first.marked /\ first.dekInfo = "none" /\ first.data.kind = "digits"
        /\ loaded.data = first.data
    BY <2>2, <2>3, FirstKeyLoaded
  <2>5. first.data.length \in Nat
    BY <2>2, <2>4, KeyFilesAssumption
  <2> HIDE DEF loaded, first
  <2>6. wallet.whole = (first.data.length >= SeedSize)
    BY <2>3, <2>4, Zenon
  <2>7. first.data.length >= SeedSize \/ first.data.length < SeedSize
    BY <2>5 DEF SeedSize
  <2>8. wallet.whole \/ first.data.length < SeedSize
    BY <2>6, <2>7, Zenon
  <2>9. QED
    BY <2>3, <2>4, <2>8, Zenon DEF PollsWithTheFirstKey, first
<1>2. QED
  BY Inductive, <1>1, PTL

\* An oracle that polls stops at a signal, or by a panic, and not otherwise.
THEOREM PollingStopsAtSignals == Spec => []OnlySignalsStopPolling
<1>1. IInv => OnlySignalsStopPolling
  BY DEF IInv, StartInv, OnlySignalsStopPolling
<1>2. QED
  BY Inductive, <1>1, PTL

\* The server that Close found never listens again.
THEOREM LastServerClosed == Spec => []LastServerStaysClosed
<1>1. IInv => LastServerStaysClosed
  BY DEF IInv, ServersInv, LastServerStaysClosed, Listening, None
<1>2. QED
  BY Inductive, <1>1, PTL

(***************************************************************************)
(* The types.  That at most one server listens, and that the connections   *)
(* at work and those of log senders are different ones, is part of them.   *)
(***************************************************************************)
ProcessTypes ==
    /\ keyFile \in KeyFiles /\ restApi \in BOOLEAN
    /\ at \in DOMAIN NextStep \cup {"return", "returnError"}
    /\ loop \in {"none", "waiting", "round", "ended"}
    /\ closed \in BOOLEAN /\ polled \in BOOLEAN
    /\ sigs \in 0 .. 1 /\ signals \in 0 .. MaxSignals
    /\ exit \in {"none", "error", "panic", "killed", "returned"}

ConnectionTypes ==
    /\ \A i, j \in Listening : i = j
    /\ \A c \in DOMAIN requests : requests[c] \in DOMAIN servers
    /\ logSenders \subseteq Connections \ DOMAIN requests

LEMMA ProcessTypesKept == ASSUME ProcessTypes, [Next]_vars PROVE ProcessTypes'
<1> USE SignalsAssumption DEF ProcessTypes, NextStep, settings, main
<1>1. CASE Main
  <2>1. CASE SetUp \/ StartWebServer
    BY <2>1 DEF SetUp, StartWebServer, AtStep
  <2>2. CASE SetUpFails \/ StartProcessingLoopFails \/ Return
    BY <2>2 DEF SetUpFails, StartProcessingLoopFails, Return
  <2>3. CASE LoadWallet
    BY <2>3 DEF LoadWallet
  <2>4. CASE StartProcessingLoop \/ Notify
    BY <2>4 DEF StartProcessingLoop, Notify, AtStep
  <2>5. CASE ReceiveSignal
    <3>1. sigs' \in 0 .. 1
      BY <2>5 DEF ReceiveSignal
    <3>2. QED
      BY <2>5, <3>1 DEF ReceiveSignal, AtStep
  <2>6. CASE ClosePollingHandler \/ ClosePollingHandlerFails
    BY <2>6 DEF ClosePollingHandler, ClosePollingHandlerFails, AtStep
  <2>7. QED
    BY <1>1, <2>1, <2>2, <2>3, <2>4, <2>5, <2>6 DEF Main
<1>2. CASE Signal
  BY <1>2 DEF Signal
<1>3. CASE Polling
  BY <1>3 DEF Polling, StartRound, EndRound, RoundPanics, LoopEnds
<1>4. CASE ServeLog \/ UNCHANGED vars
  BY <1>4 DEF ServeLog, vars
<1>5. QED
  BY <1>1, <1>2, <1>3, <1>4 DEF Next

LEMMA ConnectionTypesKept ==
    ASSUME ServersInv, ConnectionTypes, [Next]_vars PROVE ConnectionTypes'
<1>1. CASE UNCHANGED webServer
  BY <1>1 DEF webServer, ConnectionTypes, Listening
<1>2. CASE StartHttpServer
  <2>1. servers' = Append(servers, "created") /\ UNCHANGED <<requests, logSenders>>
    BY <1>2 DEF StartHttpServer
  <2>2. DOMAIN servers \subseteq DOMAIN servers'
    BY <2>1 DEF ServersInv
  <2>3. \A i \in DOMAIN servers' : servers'[i] = "listening" =>
                                      i \in DOMAIN servers /\ servers[i] = "listening"
    BY <2>1 DEF ServersInv
  <2>4. QED
    BY <2>1, <2>2, <2>3 DEF ConnectionTypes, Listening
<1>3. CASE Close
  <2>1. /\ servers' = [servers EXCEPT ![httpServer] = IF @ = "listening" THEN "returned" ELSE @]
        /\ UNCHANGED <<requests, logSenders>>
    BY <1>3 DEF Close
  <2>2. DOMAIN servers' = DOMAIN servers
    BY <2>1
  <2>3. \A i \in DOMAIN servers : servers'[i] = "listening" => servers[i] = "listening"
    BY <2>1
  <2>4. QED
    BY <2>1, <2>2, <2>3 DEF ConnectionTypes, Listening
<1>4. CASE Serve
  <2>1. ASSUME NEW i \in DOMAIN servers, ListenAndServe(i) PROVE ConnectionTypes'
    <3>1. /\ servers' = [servers EXCEPT ![i] = "listening"] /\ Listening = {}
          /\ UNCHANGED <<requests, logSenders>>
      BY <2>1 DEF ListenAndServe
    <3>2. \A j \in DOMAIN servers : servers'[j] = "listening" => j = i
      BY <3>1 DEF Listening
    <3>3. QED
      BY <3>1, <3>2 DEF ConnectionTypes, Listening
  <2>2. ASSUME NEW i \in DOMAIN servers, ListenAndServeReturns(i) PROVE ConnectionTypes'
    <3>1. /\ servers' = [servers EXCEPT ![i] = "returned"]
          /\ UNCHANGED <<requests, logSenders>>
      BY <2>2 DEF ListenAndServeReturns
    <3>2. \A j \in DOMAIN servers : servers'[j] = "listening" => servers[j] = "listening"
      BY <3>1
    <3>3. QED
      BY <3>1, <3>2 DEF ConnectionTypes, Listening
  <2>3. ASSUME NEW c \in Connections, AcceptRequest(c) PROVE ConnectionTypes'
    BY <2>3 DEF AcceptRequest, Idle, ConnectionTypes, Listening
  <2>4. ASSUME NEW c \in Connections, RequestEnds(c) \/ UpgradeToLog(c) PROVE ConnectionTypes'
    BY <2>4 DEF RequestEnds, UpgradeToLog, Without, ConnectionTypes, Listening
  <2>5. ASSUME NEW c \in Connections, LogClientLeaves(c) PROVE ConnectionTypes'
    BY <2>5 DEF LogClientLeaves, ConnectionTypes, Listening
  <2>6. QED
    BY <1>4, <2>1, <2>2, <2>3, <2>4, <2>5 DEF Serve
<1>5. CASE CloseReturns
  BY <1>5 DEF CloseReturns, ShutdownCompletes, ShutdownTimesOut, ConnectionTypes, Listening
<1>6. CASE Main
  <2>1. UNCHANGED webServer \/ StartHttpServer
    BY <1>6 DEF Main, SetUp, SetUpFails, LoadWallet, StartWebServer, StartProcessingLoop,
                StartProcessingLoopFails, Notify, ReceiveSignal, ClosePollingHandler,
                ClosePollingHandlerFails, Return
  <2>2. QED
    BY <2>1, <1>1, <1>2
<1>7. CASE Signal \/ Polling \/ UNCHANGED vars
  BY <1>7, <1>1 DEF Signal, Polling, StartRound, EndRound, RoundPanics, LoopEnds, vars
<1>8. CASE ServeLog
  BY <1>8, <1>2, <1>3, <1>4, <1>5 DEF ServeLog, CallWebServer
<1>9. QED
  BY <1>6, <1>7, <1>8 DEF Next

\* Every reachable state of the process and its web server has the types.
THEOREM TypeCorrect == Spec => []TypeOK
<1>1. ASSUME Init PROVE ProcessTypes /\ ConnectionTypes
  <2>1. ProcessTypes
    <3>1. keyFile \in KeyFiles /\ restApi \in BOOLEAN /\ closed \in BOOLEAN /\ polled \in BOOLEAN
      BY <1>1 DEF Init, NoWallet
    <3>2. at = "config" /\ loop = "none" /\ exit = "none" /\ sigs = 0 /\ signals = 0
      BY <1>1 DEF Init, NoWallet
    <3>3. QED
      BY <3>1, <3>2, SignalsAssumption DEF ProcessTypes, NextStep
  <2>2. Listening = {} /\ DOMAIN requests = {} /\ logSenders = {}
    BY <1>1 DEF Init, WebServerInit, NoRequests, Listening
  <2>3. QED
    BY <2>1, <2>2 DEF ConnectionTypes
<1>2. IInv /\ ProcessTypes /\ ConnectionTypes /\ [Next]_vars => ProcessTypes' /\ ConnectionTypes'
  BY ProcessTypesKept, ConnectionTypesKept DEF IInv
<1>3. IInv /\ ProcessTypes /\ ConnectionTypes => TypeOK
  <2>1. ASSUME ServersInv PROVE httpServer \in DOMAIN servers \cup {None}
    BY <2>1 DEF ServersInv, None
  <2>2. QED
    BY <2>1 DEF IInv, ServersInv, ProcessTypes, ConnectionTypes, TypeOK
<1>4. QED
  BY Inductive, <1>1, <1>2, <1>3, PTL DEF Spec
=============================================================================
