------------------------------- MODULE BotHub -------------------------------
(***************************************************************************)
(* The bot side of the server's WebSocket hub, src/server/src/bot-ws-hub.js: *)
(* the upgrade of a bot connection, replacement of stale sockets, the      *)
(* protocol heartbeat, the grace period before a bot is announced offline, *)
(* the server's own RPC to a bot, and the disconnection of an unbound bot. *)
(*                                                                         *)
(* Every callback (upgrade continuation, message, pong, timer, close) runs *)
(* to completion on Node's single thread, so it is one action; what        *)
(* interleaves are callbacks.  A socket object is a member of Socks and is *)
(* used once.                                                              *)
(***************************************************************************)
EXTENDS Naturals, FiniteSets

CONSTANTS
    Bots,                \* bot ids
    Socks,               \* WebSocket objects, one per connection attempt
    NoBot,               \* the bot of a socket object not used yet
    MaxMiss              \* BOT_PING_MAX_MISS

ASSUME NoBotAssumption == NoBot \notin Bots
ASSUME MaxMissAssumption == MaxMiss \in Nat \ {0}

VARIABLES
    bound,               \* bots that have a row in the database
    leaving,             \* bots deleted, notifyAndDisconnectBot not yet called
    ready,               \* per socket: its life, see States
    botOf,               \* per socket: the bot its token belongs to
    wireUp,              \* per socket: the peer still answers
    closeCode,           \* per socket: what the server asked for on close
    alive,               \* ws.__isAlive
    missCount,           \* ws.__pingMissCount
    silent,              \* intervals since the last pong (observation only)
    botSockets,          \* botSockets: bot -> set of registered sockets
    pendingOffline,      \* bots with a grace timer
    announced,           \* bots whose last 'status' event said online
    rpcPending           \* botRpcPending: bot -> calls, named by the socket
                         \* they were sent on

dbVars     == <<bound, leaving>>
sockVars   == <<ready, botOf, wireUp, closeCode>>
beatVars   == <<alive, missCount, silent>>
hubVars    == <<botSockets, pendingOffline, announced, rpcPending>>
vars       == <<dbVars, sockVars, beatVars, hubVars>>

\* "authed": the token was found, handleUpgrade not yet run.  "closing": close
\* or terminate was called, the 'close' event has not fired.
States == {"unused", "authed", "open", "closing", "closed"}

\* The code a 'close' event carries, as far as the handler tells codes apart:
\* 4001 and 4003 are "admin".  A server that calls ws.close(4001) gets 4001
\* back from a peer that answers, and 1006 from one that does not.
Codes == {"admin", "other"}

TypeOK ==
    /\ bound \subseteq Bots
    /\ leaving \subseteq Bots
    /\ ready \in [Socks -> States]
    /\ botOf \in [Socks -> Bots \cup {NoBot}]
    /\ wireUp \in [Socks -> BOOLEAN]
    /\ closeCode \in [Socks -> Codes]
    /\ alive \in [Socks -> BOOLEAN]
    /\ missCount \in [Socks -> 0 .. MaxMiss]
    /\ silent \in [Socks -> 0 .. MaxMiss + 1]
    /\ botSockets \in [Bots -> SUBSET Socks]
    /\ pendingOffline \subseteq Bots
    /\ announced \subseteq Bots
    /\ rpcPending \in [Bots -> SUBSET Socks]

Init ==
    /\ bound = Bots
    /\ leaving = {}
    /\ ready = [s \in Socks |-> "unused"]
    /\ botOf = [s \in Socks |-> NoBot]
    /\ wireUp = [s \in Socks |-> TRUE]
    /\ closeCode = [s \in Socks |-> "other"]
    /\ alive = [s \in Socks |-> TRUE]
    /\ missCount = [s \in Socks |-> 0]
    /\ silent = [s \in Socks |-> 0]
    /\ botSockets = [b \in Bots |-> {}]
    /\ pendingOffline = {}
    /\ announced = {}
    /\ rpcPending = [b \in Bots |-> {}]

-----------------------------------------------------------------------------
(* Connecting *)

\* authenticateBotRequest: the row is found; the continuation runs later.
Authenticate(s, b) ==
    /\ ready[s] = "unused"
    /\ b \in bound
    /\ ready' = [ready EXCEPT ![s] = "authed"]
    /\ botOf' = [botOf EXCEPT ![s] = b]
    /\ UNCHANGED <<dbVars, wireUp, closeCode, beatVars, hubVars>>

\* The sockets of the bot that a new connection terminates, and a hub that
\* would leave them be.
KeepStaleSockets(b) == {}
StaleSockets(b) == botSockets[b]

TerminateAll(stale) ==
    [t \in Socks |-> IF t \in stale THEN "closing" ELSE ready[t]]

\* The handleUpgrade callback: cancel the grace timer, terminate stale
\* sockets, register, announce online, ask the bot for its name.
Connect(s) ==
    LET b == botOf[s] IN
    /\ ready[s] = "authed"
    /\ ready' = [TerminateAll(StaleSockets(b)) EXCEPT ![s] = "open"]
    /\ pendingOffline' = pendingOffline \ {b}
    /\ botSockets' = [botSockets EXCEPT ![b] = @ \cup {s}]
    /\ announced' = announced \cup {b}
    /\ rpcPending' = [rpcPending EXCEPT ![b] = @ \cup {s}]
    /\ UNCHANGED <<dbVars, botOf, wireUp, closeCode, beatVars>>

-----------------------------------------------------------------------------
(* The server's RPC to a bot *)

\* refreshBotName of a GET /bots request: sent on any open socket.
RequestBotRpc(s) ==
    /\ ready[s] = "open"
    /\ s \in botSockets[botOf[s]]
    /\ rpcPending' = [rpcPending EXCEPT ![botOf[s]] = @ \cup {s}]
    /\ UNCHANGED <<dbVars, sockVars, beatVars, botSockets, pendingOffline, announced>>

\* resolveBotRpcPending on a response, or the timer of requestBotRpc.
SettleBotRpc(b, s) ==
    /\ s \in rpcPending[b]
    /\ rpcPending' = [rpcPending EXCEPT ![b] = @ \ {s}]
    /\ UNCHANGED <<dbVars, sockVars, beatVars, botSockets, pendingOffline, announced>>

-----------------------------------------------------------------------------
(* Heartbeat *)

\* The 'pong' callback.
Pong(s) ==
    /\ ready[s] = "open" /\ wireUp[s]
    /\ alive' = [alive EXCEPT ![s] = TRUE]
    /\ missCount' = [missCount EXCEPT ![s] = 0]
    /\ silent' = [silent EXCEPT ![s] = 0]
    /\ UNCHANGED <<dbVars, sockVars, hubVars>>

\* A pong arrived since the last round: a new count begins.
PingTickOk(s) ==
    /\ alive[s]
    /\ alive' = [alive EXCEPT ![s] = FALSE]
    /\ missCount' = [missCount EXCEPT ![s] = 0]
    /\ UNCHANGED ready

\* bufferedAmount > 0: data is still leaving, so the round is not a miss.
PingTickSkip(s) ==
    /\ ~alive[s]
    /\ UNCHANGED <<alive, missCount, ready>>

\* "next < maxMiss" fails.
MissLimitReached(s) == missCount[s] + 1 >= MaxMiss

PingTickMiss(s) ==
    /\ ~alive[s]
    /\ ~MissLimitReached(s)
    /\ missCount' = [missCount EXCEPT ![s] = @ + 1]
    /\ UNCHANGED <<alive, ready>>

\* A heartbeat that counts but never gives up.
PingTickNoTerminate(s) ==
    /\ ~alive[s]
    /\ MissLimitReached(s)
    /\ UNCHANGED <<alive, missCount, ready>>

PingTickTerminate(s) ==
    /\ ~alive[s]
    /\ MissLimitReached(s)
    /\ missCount' = [missCount EXCEPT ![s] = @ + 1]
    /\ ready' = [ready EXCEPT ![s] = "closing"]
    /\ UNCHANGED alive

\* The interval callback on an open socket.  The interval runs until the
\* 'close' event, but on a closing socket it moves only counters that nobody
\* reads any more.
PingTick(s) ==
    /\ ready[s] = "open"
    /\ PingTickOk(s) \/ PingTickSkip(s) \/ PingTickMiss(s) \/ PingTickTerminate(s)
    /\ silent' = [silent EXCEPT ![s] = IF @ > MaxMiss THEN @ ELSE @ + 1]
    /\ UNCHANGED <<dbVars, botOf, wireUp, closeCode, hubVars>>

\* The peer is gone and nobody was told.
PeerVanishes(s) ==
    /\ ready[s] \in {"open", "closing"} /\ wireUp[s]
    /\ wireUp' = [wireUp EXCEPT ![s] = FALSE]
    /\ UNCHANGED <<dbVars, ready, botOf, closeCode, beatVars, hubVars>>

-----------------------------------------------------------------------------
(* Unbinding and closing *)

\* ws.close(4001 or 4003): no effect on a socket that is closing already.
AskToClose(targets) ==
    LET open == {s \in targets : ready[s] = "open"} IN
    /\ ready' = [s \in Socks |-> IF s \in open THEN "closing" ELSE ready[s]]
    /\ closeCode' = [s \in Socks |-> IF s \in open THEN "admin" ELSE closeCode[s]]

\* onBotMessage, type bot.unbound: the bot gives up its binding itself.
BotSaysUnbound(s) ==
    /\ ready[s] = "open" /\ wireUp[s]
    /\ AskToClose({s})
    /\ UNCHANGED <<dbVars, botOf, wireUp, beatVars, hubVars>>

\* The unbind routes delete the row first ...
DeleteBot(b) ==
    /\ b \in bound
    /\ bound' = bound \ {b}
    /\ leaving' = leaving \cup {b}
    /\ UNCHANGED <<sockVars, beatVars, hubVars>>

\* ... and then call notifyAndDisconnectBot.
NotifyAndDisconnect(b) ==
    /\ b \in leaving
    /\ leaving' = leaving \ {b}
    /\ pendingOffline' = pendingOffline \ {b}
    /\ AskToClose(botSockets[b])
    /\ UNCHANGED <<bound, botOf, wireUp, beatVars, botSockets, announced, rpcPending>>

\* The code the 'close' event of a socket may carry.
CloseCodes(s) == IF closeCode[s] = "admin" THEN Codes ELSE {"other"}

\* No other socket of the bot is registered; and a hub that does not look.
AssumeLastSocket(s) == TRUE
IsLastSocket(s) == botSockets[botOf[s]] \subseteq {s}

\* rejectAllBotRpcPending
RejectAllBotRpcPending(b) == [rpcPending EXCEPT ![b] = {}]

\* The 'close' event: unregister, reject the bot's calls, and, if that was its
\* last socket, announce it offline now or in BOT_OFFLINE_GRACE_MS.
CloseEvent(s, code) ==
    LET b == botOf[s]
        lastOne == IsLastSocket(s)
    IN
    /\ ready[s] \in {"open", "closing"}
    /\ code \in CloseCodes(s)
    /\ ready' = [ready EXCEPT ![s] = "closed"]
    /\ botSockets' = [botSockets EXCEPT ![b] = @ \ {s}]
    /\ rpcPending' = RejectAllBotRpcPending(b)
    /\ announced' = IF lastOne /\ code = "admin" THEN announced \ {b} ELSE announced
    /\ pendingOffline' =
         IF lastOne /\ code # "admin" THEN pendingOffline \cup {b} ELSE pendingOffline
    /\ UNCHANGED <<dbVars, botOf, wireUp, closeCode, beatVars>>

\* A grace timer that forgets to announce.
GraceExpiresSilently(b) ==
    /\ b \in pendingOffline
    /\ pendingOffline' = pendingOffline \ {b}
    /\ UNCHANGED <<dbVars, sockVars, beatVars, botSockets, announced, rpcPending>>

\* The grace timer fires and looks again whether the bot came back.
GraceExpires(b) ==
    /\ b \in pendingOffline
    /\ pendingOffline' = pendingOffline \ {b}
    /\ announced' = IF botSockets[b] = {} THEN announced \ {b} ELSE announced
    /\ UNCHANGED <<dbVars, sockVars, beatVars, botSockets, rpcPending>>

-----------------------------------------------------------------------------
SockNext(s) ==
    \/ \E b \in Bots : Authenticate(s, b)
    \/ Connect(s)
    \/ RequestBotRpc(s)
    \/ Pong(s)
    \/ PingTick(s)
    \/ PeerVanishes(s)
    \/ BotSaysUnbound(s)
    \/ \E code \in Codes : CloseEvent(s, code)

BotNext(b) ==
    \/ DeleteBot(b)
    \/ NotifyAndDisconnect(b)
    \/ GraceExpires(b)
    \/ \E s \in Socks : SettleBotRpc(b, s)

Next == (\E s \in Socks : SockNext(s)) \/ (\E b \in Bots : BotNext(b))

Spec == Init /\ [][Next]_vars

\* A timer that is armed fires and a socket that is closing closes.  A round
\* of the heartbeat is not skipped for ever: TCP gives up on data that a dead
\* peer never acknowledges.  Nothing is assumed of the bot.
Fairness ==
    /\ \A s \in Socks :
        /\ WF_vars(PingTick(s) /\ ~PingTickSkip(s))
        /\ WF_vars(ready[s] = "closing" /\ \E code \in Codes : CloseEvent(s, code))
    /\ \A b \in Bots : WF_vars(GraceExpires(b))

FairSpec == Spec /\ Fairness

-----------------------------------------------------------------------------
(* Properties *)

\* listOnlineBotIds: bots in their grace period count as online.
ListOnlineBotIds == {b \in Bots : botSockets[b] # {}} \cup pendingOffline

\* For a bot that still has its row, the last 'status' event and the list a
\* snapshot is built from agree, whatever order connects, stale closes, admin
\* closes and the grace timer come in.
AnnouncedMatchesList ==
    \A b \in bound : b \in announced <=> b \in ListOnlineBotIds

\* A new connection of a bot replaces every older one: no two sockets of one
\* bot are open together.
OneOpenSocket ==
    \A s, t \in Socks :
        (ready[s] = "open" /\ ready[t] = "open" /\ botOf[s] = botOf[t]) => s = t

\* The grace timer of a bot and a registered socket of it never coexist, so
\* a reconnecting bot is not announced offline by an old timer.
GraceOnlyWhenGone ==
    \A b \in pendingOffline : botSockets[b] = {}

\* No call of the server is left pending on a bot with no connection at all:
\* the close of its last socket has rejected it.
RpcNeedsSocket ==
    \A b \in Bots : rpcPending[b] # {} => botSockets[b] # {}

\* The heartbeat gives up on a socket only after MaxMiss rounds in a row in
\* which no pong came.
HeartbeatPatience ==
    [][\A s \in Socks :
        (missCount'[s] # missCount[s] /\ ready'[s] = "closing" /\ ready[s] = "open")
            => silent[s] >= MaxMiss]_vars

\* The hub implements the abstract presence service.
Service == INSTANCE Presence WITH
    fresh <- {},
    present <- ListOnlineBotIds

ImplementsPresence == Service!PresenceSpec

\* A half-open connection is found and closed by the heartbeat.
HalfOpenIsClosed ==
    \A s \in Socks : (ready[s] = "open" /\ ~wireUp[s]) ~> ready[s] = "closed"

\* A bot announced online whose sockets are all gone is announced offline in
\* the end, unless it comes back or is unbound.
LostBotGoesOffline ==
    \A b \in Bots :
        (b \in announced /\ botSockets[b] = {})
            ~> (b \notin announced \/ botSockets[b] # {} \/ b \notin bound)

\* Deleting the row before kicking the bot is meant to leave an unbound bot no
\* way back in (server/STATUS.md).  It does not: the token may have been looked
\* up before the deletion.
NoWayBackAfterUnbind ==
    \A s \in Socks :
        (ready[s] = "open" /\ botOf[s] \notin bound) => botOf[s] \in leaving

=============================================================================
