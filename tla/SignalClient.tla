---------------------------- MODULE SignalClient ----------------------------
(***************************************************************************)
(* The one signalling WebSocket of a browser tab, with its heartbeat,      *)
(* probe, reconnect timer and callers that wait for it:                    *)
(* src/ui/src/services/signaling-connection.js.                            *)
(*                                                                         *)
(* Of the times only what the code tells apart is kept: a timer is armed   *)
(* or not, and a probe has or has not seen a message since it was sent.    *)
(* The delays of the reconnects are left out.                              *)
(***************************************************************************)
EXTENDS Naturals, FiniteSets

CONSTANTS
    MaxSock,             \* bound: sockets that are not gone at one time
    MaxConnId,           \* bound: connIds made for the bot
    Waiters              \* callers of ensureConnected

Socks == 1..MaxSock
None == 0

VARIABLES
    ws,                  \* __ws
    sock,                \* the sockets; closing: its close event is to come
    state,               \* __state
    intentional,         \* __intentionalClose
    reconnect,           \* __reconnectTimer is armed
    beat,                \* None, or __hbTimer is armed after beat - 1 misses
    probe,               \* __probeTimer, and whether there was a message since
    waiting,             \* the waiters in __waitForConnected
    conn,                \* [id: the bot's connId, if any; last: made so far]
    listens              \* the handlers for foreground and network are bound

vars == <<ws, sock, state, intentional, reconnect, beat, probe, waiting, conn, listens>>

TypeOK ==
    /\ ws \in Socks \cup {None}
    /\ sock \in [Socks -> {"none", "connecting", "open", "closing"}]
    /\ state \in {"disconnected", "connecting", "connected"}
    /\ intentional \in BOOLEAN /\ reconnect \in BOOLEAN /\ listens \in BOOLEAN
    /\ beat \in 0..2
    /\ probe \in {"off", "asked", "answered"}
    /\ waiting \subseteq Waiters
    /\ conn \in [id : 0..MaxConnId, last : 0..MaxConnId]

Init ==
    /\ ws = None /\ sock = [s \in Socks |-> "none"]
    /\ state = "disconnected" /\ intentional = FALSE /\ reconnect = FALSE
    /\ beat = None /\ probe = "off" /\ waiting = {}
    /\ conn = [id |-> None, last |-> None] /\ listens = FALSE

-----------------------------------------------------------------------------
(* State, sockets and timers *)

\* __scheduleReconnect: unless closed on purpose, the timer is armed.  And one
\* that is called on a failed attempt with no effect.
NotAgain == UNCHANGED reconnect
Again == reconnect' = TRUE

\* The sockets when the current one is given up by the tab.
GivenUp == IF ws = None THEN sock ELSE [sock EXCEPT ![ws] = "closing"]

\* __doConnect, of a connection not closed on purpose, with what its caller has
\* left: who waits, the sockets, the current one and the reconnect timer.  Those
\* who wait hear of the states but go on waiting.
DoConnect(on, socks, cur, armed) ==
    /\ waiting' = on
    /\ \/ \E s \in Socks :
            /\ socks[s] = "none"
            /\ ws' = s /\ sock' = [socks EXCEPT ![s] = "connecting"]
            /\ state' = "connecting"
            /\ reconnect' = armed
       \/ /\ ws' = cur /\ sock' = socks       \* the constructor fails
          /\ state' = "disconnected"
          /\ reconnect' = TRUE

\* forceReconnect, with the caller among those who wait
ForceReconnect(on) ==
    /\ probe' = "off" /\ beat' = None
    /\ DoConnect(waiting \cup on, GivenUp, None, FALSE)
    /\ UNCHANGED <<intentional, conn, listens>>

-----------------------------------------------------------------------------
(* Calls *)

\* connect: does not look at the reconnect timer.
Connect ==
    /\ ws = None
    /\ intentional' = FALSE /\ listens' = TRUE
    /\ DoConnect(waiting, sock, None, reconnect)
    /\ UNCHANGED <<beat, probe, conn>>

\* ensureConnected when it has to wait.  With verify, a connection that has been
\* silent for a while is replaced.
EnsureVerified(w) ==
    /\ w \notin waiting /\ ~intentional /\ state = "connected"
    /\ ForceReconnect({w})

EnsureConnecting(w) ==
    /\ w \notin waiting /\ ~intentional /\ state = "connecting"
    /\ waiting' = waiting \cup {w}
    /\ UNCHANGED <<ws, sock, state, intentional, reconnect, beat, probe, conn, listens>>

EnsureDisconnected(w) ==
    /\ w \notin waiting /\ ~intentional /\ state = "disconnected"
    /\ DoConnect(waiting \cup {w}, sock, ws, FALSE)
    /\ UNCHANGED <<intentional, beat, probe, conn, listens>>

GivesUp(w) ==
    /\ waiting' = waiting \ {w}
    /\ w \in waiting
    /\ UNCHANGED <<ws, sock, state, intentional, reconnect, beat, probe, conn, listens>>

Disconnect ==
    /\ intentional' = TRUE /\ listens' = FALSE
    /\ reconnect' = FALSE
    /\ beat' = None /\ probe' = "off"
    /\ ws' = None /\ sock' = GivenUp
    \* The waiters hear of the intention by a change of state, if there is one.
    /\ state' = "disconnected"
    /\ waiting' = IF state = "disconnected" THEN waiting ELSE {}
    /\ UNCHANGED conn

\* sendSignaling makes a connId when there is none.
SendSignaling ==
    /\ conn.id = None /\ conn.last < MaxConnId
    /\ conn' = [id |-> conn.last + 1, last |-> conn.last + 1]
    /\ UNCHANGED <<ws, sock, state, intentional, reconnect, beat, probe, waiting, listens>>

ReleaseConnId ==
    /\ conn.id # None
    /\ conn' = [conn EXCEPT !.id = None]
    /\ UNCHANGED <<ws, sock, state, intentional, reconnect, beat, probe, waiting, listens>>

-----------------------------------------------------------------------------
(* Events of the sockets *)

\* Only the current socket is listened to.  And any.
AnySocket(s) == TRUE
Current(s) == ws = s

Open(s) ==
    /\ sock[s] = "connecting"
    /\ sock' = [sock EXCEPT ![s] = "open"]
    /\ IF Current(s) THEN state' = "connected" /\ waiting' = {} /\ beat' = 1
       ELSE UNCHANGED <<state, waiting, beat>>
    /\ UNCHANGED <<ws, intentional, reconnect, probe, conn, listens>>

\* Any message: it is a sign of life, and rtc:closed for the bot's own connId
\* ends it.
Message(s, c) ==
    /\ sock[s] = "open" /\ Current(s)
    /\ beat' = 1
    /\ probe' = IF probe = "off" THEN "off" ELSE "answered"
    /\ conn' = IF c # None /\ c = conn.id THEN [conn EXCEPT !.id = None] ELSE conn
    /\ UNCHANGED <<ws, sock, state, intentional, reconnect, waiting, listens>>

\* The network or the server ends a socket.
Drops(s) ==
    /\ sock[s] \in {"connecting", "open"}
    /\ sock' = [sock EXCEPT ![s] = "closing"]
    /\ UNCHANGED <<ws, state, intentional, reconnect, beat, probe, waiting, conn, listens>>

CloseEvent(s) ==
    /\ sock[s] = "closing"
    /\ sock' = [sock EXCEPT ![s] = "none"]
    /\ IF Current(s)
       THEN /\ beat' = None /\ probe' = "off" /\ ws' = None
            /\ IF intentional THEN UNCHANGED <<state, waiting, reconnect>>
               ELSE state' = "disconnected" /\ Again /\ UNCHANGED waiting
       ELSE UNCHANGED <<ws, state, reconnect, beat, probe, waiting>>
    /\ UNCHANGED <<intentional, conn, listens>>

-----------------------------------------------------------------------------
(* Timers and the page *)

\* __onHbMiss, once and the second time, when the probe is left as it is.
HbMiss ==
    /\ beat = 1
    /\ beat' = 2
    /\ UNCHANGED <<ws, sock, state, intentional, reconnect, probe, waiting, conn, listens>>

HbMaxMiss ==
    /\ beat = 2
    /\ beat' = None
    /\ ws' = None /\ sock' = GivenUp
    /\ IF intentional THEN UNCHANGED <<state, waiting, reconnect>>
       ELSE state' = "disconnected" /\ Again /\ UNCHANGED waiting
    /\ UNCHANGED <<intentional, probe, conn, listens>>

ReconnectFires ==
    /\ reconnect
    /\ IF intentional THEN reconnect' = FALSE /\ UNCHANGED <<ws, sock, state, waiting>>
       ELSE DoConnect(waiting, sock, ws, FALSE)
    /\ UNCHANGED <<intentional, beat, probe, conn, listens>>

ProbeFires ==
    /\ probe # "off"
    /\ IF probe = "answered" \/ intentional
       THEN probe' = "off" /\ UNCHANGED <<ws, sock, state, intentional, reconnect, beat, waiting, conn, listens>>
       ELSE ForceReconnect({})

\* __handleForegroundResume: the page is in front or the network is back.
ResumeDisconnected ==
    /\ listens /\ ~intentional /\ state = "disconnected"
    /\ DoConnect(waiting, sock, ws, FALSE)
    /\ UNCHANGED <<intentional, beat, probe, conn, listens>>

\* A connection that has long been silent is taken for dead.
ResumeDead ==
    /\ listens /\ ~intentional /\ state = "connected"
    /\ ForceReconnect({})

ResumeProbes ==
    /\ listens /\ ~intentional /\ state = "connected" /\ probe = "off"
    /\ IF sock[ws] = "open"
       THEN probe' = "asked" /\ UNCHANGED <<ws, sock, state, intentional, reconnect, beat, waiting, conn, listens>>
       ELSE ForceReconnect({})

Next ==
    \/ Connect \/ Disconnect \/ SendSignaling \/ ReleaseConnId
    \/ \E w \in Waiters :
         EnsureVerified(w) \/ EnsureConnecting(w) \/ EnsureDisconnected(w) \/ GivesUp(w)
    \/ \E s \in Socks : Open(s) \/ Drops(s) \/ CloseEvent(s) \/ \E c \in 0..conn.last : Message(s, c)
    \/ HbMiss \/ HbMaxMiss \/ ReconnectFires \/ ProbeFires
    \/ ResumeDisconnected \/ ResumeDead \/ ResumeProbes

Spec == Init /\ [][Next]_vars

-----------------------------------------------------------------------------
(* Properties *)

\* Whatever fails, a connection that is not given up on purpose is on its way:
\* when disconnected a reconnect is armed, when connecting there is a socket
\* whose event is to come, and when connected the heartbeat watches it.
Begun == listens \/ ws # None \/ reconnect
OnItsWay ==
    /\ TypeOK
    /\ (Begun /\ ~intentional) =>
        CASE state = "disconnected" -> reconnect
          [] state = "connecting" -> ws # None /\ sock[ws] \in {"connecting", "closing"}
          [] state = "connected" -> ws # None /\ beat # None

\* The tab lets go of a socket without closing it only when the reconnect timer
\* that connect() has left armed fires, or has led to a failed attempt: the
\* socket stays open for the server, and nobody listens.
Lost(s) == sock[s] \in {"connecting", "open"} /\ ws # s
LosesByConnect ==
    /\ \A s \in Socks : (~Lost(s) /\ Lost(s)') => reconnect /\ ~reconnect'
    /\ (~(reconnect /\ ws # None) /\ (reconnect /\ ws # None)')
         => (Connect /\ reconnect)
LostOnlyByConnect == [][LosesByConnect]_vars
=============================================================================
