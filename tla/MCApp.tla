------------------------------- MODULE MCApp --------------------------------
(***************************************************************************)
(* The app for TLC: its signalling connection, a chat, recording, and what *)
(* goes over its data channels and through the server to the plugin; and   *)
(* the server's ids.  The parts share no state, so that each is explored   *)
(* by itself: part says which one it is, and x1, x2, ... are its           *)
(* variables, if it is not the ids.                                        *)
(***************************************************************************)
EXTENDS Snowflake, Sequences, FiniteSets

CONSTANTS
    MaxSock, MaxConnId, Waiters, MaxSend, MaxFinger, MaxRecorder, MaxUpload, MaxRestart,
    MaxSize, HighWater, LowWater, MaxChunks, Uis, BotSocks, Tickets, Requests, Offers,
    MaxBuffer, BatchSize, MaxLog, MaxSocket, MaxTask, MaxRetry

VARIABLES part, x1, x2, x3, x4, x5, x6, x7, x8, x9, x10, x11

ASSUME BoundsAssumption ==
    /\ MaxSock \in Nat /\ MaxConnId \in Nat /\ MaxSend \in Nat /\ MaxSize \in Nat /\ MaxRetry \in Nat
    /\ MaxLog \in Nat /\ MaxChunks \in Nat
    /\ MaxBuffer \in Nat \ {0} /\ BatchSize \in Nat \ {0} /\ LowWater \in Nat /\ HighWater \in Nat
    /\ LowWater < HighWater
    /\ Requests \cap Offers = {} /\ IsFiniteSet(BotSocks)

\* Messages of two, one, four (too many), three chunks and one.
ChunksOf == <<2, 1, 4, 3, 1>>

Signal == INSTANCE SignalClient WITH
    ws <- x1, sock <- x2, state <- x3, intentional <- x4, reconnect <- x5, beat <- x6,
    probe <- x7, waiting <- x8, conn <- x9, listens <- x10
Chat == INSTANCE ChatRun WITH
    tab <- x1, agent <- x2, told <- x3, sent <- x4, up <- x5, page <- x6, crossed <- x7
Touch == INSTANCE TouchSpeak WITH
    open <- x1, flow <- x2, finger <- x3, down <- x4, place <- x5, flags <- x6,
    aborted <- x7, timer <- x8, mic <- x9, outcome <- x10
Voice == INSTANCE VoiceRecorder WITH
    mounted <- x1, shown <- x2, current <- x3, rec <- x4
Upload == INSTANCE FileUpload WITH
    step <- x1, chUp <- x2, chDown <- x3, put <- x4, tmp <- x5, creating <- x6,
    unlink <- x7, file <- x8, create <- x9, cleaned <- x10, restarts <- x11
Download == INSTANCE FileDownload WITH
    size <- x1, st <- x2, head <- x3, got <- x4, get <- x5, body <- x6, pos <- x7,
    chan <- x8
Channel == INSTANCE DcChunking WITH
    Chunks <- ChunksOf, nextMsg <- x1, nextId <- x2, queue <- x3, wire <- x4, low <- x5,
    open <- x6, promise <- x7, pending <- x8, delivered <- x9
Relay == INSTANCE UiRelay WITH
    ui <- x1, by <- x2, admitted <- x3, ticket <- x4, botSock <- x5, botSockets <- x6,
    sender <- x7, wire <- x8, done <- x9, told <- x10
Log == INSTANCE RemoteLog WITH
    buffer <- x1, logged <- x2, sender <- x3, flushing <- x4, open <- x5, sockets <- x6,
    wire <- x7, received <- x8
Tasks == INSTANCE FileTasks WITH
    status <- x1, type <- x2, rtc <- x3, retries <- x4

\* A part that has n variables leaves the others alone.
Unused(n) ==
    /\ IF n < 1 THEN x1 = 0 ELSE TRUE
    /\ IF n < 2 THEN x2 = 0 ELSE TRUE
    /\ IF n < 3 THEN x3 = 0 ELSE TRUE
    /\ IF n < 4 THEN x4 = 0 ELSE TRUE
    /\ IF n < 5 THEN x5 = 0 ELSE TRUE
    /\ IF n < 6 THEN x6 = 0 ELSE TRUE
    /\ IF n < 7 THEN x7 = 0 ELSE TRUE
    /\ IF n < 8 THEN x8 = 0 ELSE TRUE
    /\ IF n < 9 THEN x9 = 0 ELSE TRUE
    /\ IF n < 10 THEN x10 = 0 ELSE TRUE
    /\ IF n < 11 THEN x11 = 0 ELSE TRUE
Still(n) ==
    /\ IF n < 1 THEN UNCHANGED x1 ELSE TRUE
    /\ IF n < 2 THEN UNCHANGED x2 ELSE TRUE
    /\ IF n < 3 THEN UNCHANGED x3 ELSE TRUE
    /\ IF n < 4 THEN UNCHANGED x4 ELSE TRUE
    /\ IF n < 5 THEN UNCHANGED x5 ELSE TRUE
    /\ IF n < 6 THEN UNCHANGED x6 ELSE TRUE
    /\ IF n < 7 THEN UNCHANGED x7 ELSE TRUE
    /\ IF n < 8 THEN UNCHANGED x8 ELSE TRUE
    /\ IF n < 9 THEN UNCHANGED x9 ELSE TRUE
    /\ IF n < 10 THEN UNCHANGED x10 ELSE TRUE
    /\ IF n < 11 THEN UNCHANGED x11 ELSE TRUE

AppInit ==
    /\ Init
    /\ \/ part = "ids" /\ Unused(0)
       \/ part = "signal" /\ Signal!Init /\ Unused(10)
       \/ part = "chat" /\ Chat!Init /\ Unused(7)
       \/ part = "touch" /\ Touch!Init /\ Unused(10)
       \/ part = "voice" /\ Voice!Init /\ Unused(4)
       \/ part = "upload" /\ Upload!Init /\ Unused(11)
       \/ part = "download" /\ Download!Init /\ Unused(8)
       \/ part = "channel" /\ Channel!Init /\ Unused(9)
       \/ part = "relay" /\ Relay!Init /\ Unused(10)
       \/ part = "log" /\ Log!Init /\ Unused(8)
       \/ part = "tasks" /\ Tasks!Init /\ Unused(4)

AppNext ==
    /\ UNCHANGED part
    /\ IF part = "ids" THEN Next /\ Still(0) ELSE UNCHANGED vars
    /\ \/ part = "ids"
       \/ part = "signal" /\ Signal!Next /\ Still(10)
       \/ part = "chat" /\ Chat!Next /\ Still(7)
       \/ part = "touch" /\ Touch!Next /\ Still(10)
       \/ part = "voice" /\ Voice!Next /\ Still(4)
       \/ part = "upload" /\ Upload!Next /\ Still(11)
       \/ part = "download" /\ Download!Next /\ Still(8)
       \/ part = "channel" /\ Channel!Next /\ Still(9)
       \/ part = "relay" /\ Relay!Next /\ Still(10)
       \/ part = "log" /\ Log!Next /\ Still(8)
       \/ part = "tasks" /\ Tasks!Next /\ Still(4)

allVars == <<part, vars, x1, x2, x3, x4, x5, x6, x7, x8, x9, x10, x11>>
AppSpec == AppInit /\ [][AppNext]_allVars

-----------------------------------------------------------------------------
(* Properties: each is stated and explained in the module of its part;       *)
(* IdsIncrease is that of Snowflake.                                         *)

\* See SignalClient: a connection that is wanted is on its way, whatever fails.
OnItsWay == part = "signal" => Signal!OnItsWay

\* See SignalClient: a socket is let go of unclosed only by a reconnect timer
\* that connect() has left armed.
LostOnlyByConnect == [][part = "signal" => Signal!LosesByConnect]_allVars

\* See ChatRun: a send that waits for its answer is ended by some timer.
SendIsTimed == part = "chat" => Chat!SendIsTimed

\* See ChatRun: a run that streams is let go of for a reason, and streams the
\* messages of its own send.
RunKept == [][part = "chat" => Chat!KeepsRun]_allVars

\* See ChatRun: the load after the final answer brings its result.
ResultShown == [][part = "chat" => Chat!ShowsResult]_allVars

\* See FileUpload: a file is replaced by a whole upload, and an upload that the
\* tab is told is done is the file.
FileReplaced == [][part = "upload" => Upload!ReplacesFile]_allVars

\* What is sent arrives whole, once and in order.  See FileDownload for files,
\* DcChunking for messages over a data channel, UiRelay for requests through the
\* server, RemoteLog for the log, and FileTasks for the tasks that queue.
ArrivesWhole ==
    CASE part = "download" -> Download!DownloadIsWhole
      [] part = "channel" -> Channel!DeliveredAsSent
      [] part = "relay" -> Relay!RelayKept
      [] part = "log" -> Log!LogsInOrder
      [] part = "tasks" -> Tasks!QueueGoesOn
      [] OTHER -> TRUE

\* See VoiceRecorder and TouchSpeak: the microphone is on, and a recording is
\* kept, only as the user has last asked for.
SpokenOrDropped ==
    [][IF part = "voice" THEN Voice!KeepsVoice ELSE part = "touch" => Touch!SpeaksOrDrops]_allVars
=============================================================================
