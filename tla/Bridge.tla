------------------------------- MODULE Bridge -------------------------------
(***************************************************************************)
(* The plugin's connection to the server:                                  *)
(* src/plugins/openclaw/src/realtime-bridge.js without the gateway side,   *)
(* and the RPC methods of index.js that stop, restart and rebind it.       *)
(*                                                                         *)
(* A bridge instance lives from new RealtimeBridge() to stop(), but stop() *)
(* does not end what the instance awaits at the time, nor the events of    *)
(* its sockets.  An await is the end of a step.                            *)
(***************************************************************************)
EXTENDS Naturals, Sequences

CONSTANTS
    MaxBots,             \* bound: bots ever created
    MaxInst,             \* bound: bridge instances ever made
    MaxSock,             \* bound: server sockets with events to come
    Rpcs,                \* bound: the RPC methods called first, second, ...
    MaxTrouble,          \* bound: RPC methods and failures of network or disk, together
    None, Whoever

Bots == 1..MaxBots
Insts == 1..MaxInst
Socks == 1..MaxSock
Ops == 1..Len(Rpcs)

ASSUME BridgeAssumption ==
    /\ MaxBots \in Nat \ {0} /\ MaxInst \in Nat \ {0} /\ MaxSock \in Nat
    /\ Rpcs \in Seq(SUBSET {"stopBridge", "refreshBridge", "bind", "unbind", "enroll"})
    /\ MaxTrouble \in Nat
    /\ None \notin Bots \cup Insts \cup Socks
    /\ Whoever \notin Bots

VARIABLES
    config,              \* the bot of bindings.json
    created,             \* bots 1..created have been created
    alive,               \* bots that have a row on the server
    singleton,
    made,                \* how many instances there have been
    started,             \* per instance
    phase,               \* per instance: "new", "preload", "read" (awaits the config) or "ready"
    ws,                  \* per instance: serverWs
    reconnectTimer,      \* per instance
    connectTimer,        \* per instance: the socket it is for
    hb,                  \* per instance: the socket whose heartbeat is watched
    intentional,         \* per instance: intentionallyClosed
    tails,               \* close handlers that await webrtcPeer.closeAll
    sock,                \* the sockets
    clearing,            \* runs of __clearTokenLocal
    op,                  \* the RPC methods, in the order of their calls
    rpcs,                \* how many RPC methods have been called
    fails,               \* how often a connection or a read of the config has failed
    overlap              \* two RPC methods have run at a time

env == <<config, created, alive>>
timers == <<reconnectTimer, connectTimer, hb>>
inst == <<started, phase, ws, timers, intentional>>
history == <<rpcs, fails, overlap>>
vars == <<env, singleton, made, inst, tails, sock, clearing, op, history>>

Codes == {"auth", "other"}                \* 4001 and 4003, or any other code
Sock == [state : {"connecting", "open", "closing"}, inst : Insts, bot : Bots, code : Codes]
Pending == [inst : Insts, code : Codes, intentional : BOOLEAN, bot : Bots]
Clear == [step : {"read", "write"}, match : Bots \cup {Whoever}, closes : Socks \cup {None}, bot : Bots]
Steps == {"stop", "stop2", "stopped", "new", "drop", "clear", "save"}

ASSUME NoneAssumption == None \notin Sock

TypeOK ==
    /\ config \in Bots \cup {None}
    /\ created \in 0..MaxBots /\ alive \subseteq 1..created
    /\ singleton \in 1..made \cup {None}
    /\ made \in 0..MaxInst
    /\ started \in [Insts -> BOOLEAN]
    /\ phase \in [Insts -> {"new", "preload", "read", "ready"}]
    /\ ws \in [Insts -> Socks \cup {None}]
    /\ reconnectTimer \in [Insts -> BOOLEAN]
    /\ connectTimer \in [Insts -> Socks \cup {None}]
    /\ hb \in [Insts -> Socks \cup {None}]
    /\ intentional \in [Insts -> BOOLEAN]
    /\ tails \subseteq Pending
    /\ sock \in [Socks -> Sock \cup {None}]
    /\ clearing \subseteq Clear
    /\ \A o \in Ops : op[o].todo \in Seq(Steps) /\ op[o].on \in Insts \cup {None}
    /\ rpcs \in 0..Len(Rpcs) /\ fails \in 0..MaxTrouble /\ overlap \in BOOLEAN

\* The plugin's service has just been started.
Init ==
    /\ \/ config = None /\ alive = {} /\ created = 0
       \/ config = 1 /\ alive = {1} /\ created = 1
    /\ singleton = 1 /\ made = 1
    /\ started = [i \in Insts |-> i = 1]
    /\ phase = [i \in Insts |-> IF i = 1 THEN "preload" ELSE "new"]
    /\ ws = [i \in Insts |-> None]
    /\ reconnectTimer = [i \in Insts |-> FALSE]
    /\ connectTimer = [i \in Insts |-> None]
    /\ hb = [i \in Insts |-> None]
    /\ intentional = [i \in Insts |-> FALSE]
    /\ tails = {} /\ clearing = {}
    /\ sock = [s \in Socks |-> None]
    /\ op = [o \in Ops |-> [todo |-> <<>>, on |-> None]]
    /\ rpcs = 0 /\ fails = 0 /\ overlap = FALSE

Idle(o) == op[o].todo = <<>>
Is(s, states) == sock[s] # None /\ sock[s].state \in states

-----------------------------------------------------------------------------
(* Connecting *)

Trouble == fails + rpcs < MaxTrouble /\ fails' = fails + 1

\* The guard of __connectIfNeeded.  And one that forgets stop().
NoSocket(i) == ws[i] = None
MayConnect(i) == started[i] /\ ws[i] = None

\* start(), once the WebRTC implementation is loaded; stop() may have run.
Preloaded(i) ==
    /\ phase[i] = "preload"
    /\ phase' = [phase EXCEPT ![i] = IF MayConnect(i) THEN "read" ELSE "ready"]
    /\ UNCHANGED <<env, singleton, made, started, ws, timers, intentional, tails, sock, clearing, op, history>>

\* The reconnect timer calls __connectIfNeeded.  Reading the config takes
\* less than RECONNECT_MS.
Reconnect(i) ==
    /\ reconnectTimer[i] /\ phase[i] # "read"
    /\ reconnectTimer' = [reconnectTimer EXCEPT ![i] = FALSE]
    /\ phase' = [phase EXCEPT ![i] = IF MayConnect(i) THEN "read" ELSE @]
    /\ UNCHANGED <<env, singleton, made, started, ws, connectTimer, hb, intentional, tails, sock, clearing, op, history>>

\* What the bridge needs to connect.
HasToken == config # None

\* The config is there: without a token the bridge gives up, with one it
\* connects, whatever has happened since it asked.
SkipConnect(i) ==
    /\ phase[i] = "read" /\ ~HasToken
    /\ phase' = [phase EXCEPT ![i] = "ready"]
    /\ UNCHANGED <<env, singleton, made, started, ws, timers, intentional, tails, sock, clearing, op, history>>

\* The file is there but cannot be read: __connectIfNeeded rejects, which the
\* reconnect timer only logs, and start() passes on to a caller that does.
ReadFails(i) ==
    /\ phase[i] = "read"
    /\ phase' = [phase EXCEPT ![i] = "ready"]
    /\ Trouble
    /\ UNCHANGED <<env, singleton, made, started, ws, timers, intentional, tails, sock, clearing, op, rpcs, overlap>>

Connect(i, s) ==
    /\ phase[i] = "read" /\ HasToken
    /\ sock[s] = None /\ \A r \in 1..s - 1 : sock[r] # None
    /\ phase' = [phase EXCEPT ![i] = "ready"]
    /\ sock' = [sock EXCEPT ![s] = [state |-> "connecting", inst |-> i, bot |-> config, code |-> "other"]]
    /\ ws' = [ws EXCEPT ![i] = s]
    /\ intentional' = [intentional EXCEPT ![i] = FALSE]
    /\ connectTimer' = [connectTimer EXCEPT ![i] = s]
    /\ UNCHANGED <<env, singleton, made, started, reconnectTimer, hb, tails, clearing, op, history>>

\* The heartbeat timer is started anew, for this socket.  And it is not.
Unwatched(s) == UNCHANGED hb
Watch(s) == hb' = [hb EXCEPT ![sock[s].inst] = s]

Opened(s) ==
    LET i == sock[s].inst IN
    /\ Is(s, {"connecting"})
    /\ sock' = [sock EXCEPT ![s].state = "open"]
    /\ connectTimer' = [connectTimer EXCEPT ![i] = None]
    /\ Watch(s)
    /\ UNCHANGED <<env, singleton, made, started, phase, ws, reconnectTimer, intentional, tails, clearing, op, history>>

CloseLocally(s, code) == [sock EXCEPT ![s].state = "closing", ![s].code = code]

\* A stopped bridge does not try again.  And one that never does.
NoReconnect(i) == UNCHANGED reconnectTimer
ScheduleReconnect(i) == reconnectTimer' = [reconnectTimer EXCEPT ![i] = @ \/ started[i]]

\* The connect timer, or the 'error' event of the current socket: forget it,
\* close it, try again later.
ConnectTimeout(i) ==
    LET s == connectTimer[i] IN
    /\ s # None
    /\ connectTimer' = [connectTimer EXCEPT ![i] = None]
    /\ IF ws[i] # s \/ intentional[i]
       THEN UNCHANGED <<ws, sock, reconnectTimer>>
       ELSE /\ ws' = [ws EXCEPT ![i] = None]
            /\ ScheduleReconnect(i)
            /\ sock' = IF ~Is(s, {"closing"}) THEN CloseLocally(s, "other") ELSE sock
    /\ Trouble
    /\ UNCHANGED <<env, singleton, made, started, phase, hb, intentional, tails, clearing, op, rpcs, overlap>>

Failed(s) ==
    LET i == sock[s].inst IN
    /\ Is(s, {"connecting", "open"})
    /\ ws[i] = s /\ ~intentional[i]
    /\ hb' = [hb EXCEPT ![i] = None]
    /\ connectTimer' = [connectTimer EXCEPT ![i] = None]
    /\ ws' = [ws EXCEPT ![i] = None]
    /\ ScheduleReconnect(i)
    /\ sock' = CloseLocally(s, "other")
    /\ Trouble
    /\ UNCHANGED <<env, singleton, made, started, phase, intentional, tails, clearing, op, rpcs, overlap>>

-----------------------------------------------------------------------------
(* Heartbeat *)

\* Any message restarts the timer, for the socket it came on.
Message(s) ==
    /\ Is(s, {"open"})
    /\ Watch(s)
    /\ UNCHANGED <<env, singleton, made, started, phase, ws, reconnectTimer, connectTimer, intentional, tails, sock, clearing, op, history>>

\* __onServerHbMiss, the SERVER_HB_MAX_MISS-th time in a row: the socket is
\* closed, but stays serverWs until its event.
HeartbeatLost(i) ==
    /\ hb[i] # None /\ Is(hb[i], {"open"})
    /\ sock' = CloseLocally(hb[i], "other")
    /\ hb' = [hb EXCEPT ![i] = None]
    /\ Trouble
    /\ UNCHANGED <<env, singleton, made, started, phase, ws, reconnectTimer, connectTimer, intentional, tails, clearing, op, rpcs, overlap>>

-----------------------------------------------------------------------------
(* bot.unbound *)

\* The server says so once: clear the token if it is that bot's, then close.
Unbound(s) ==
    /\ Is(s, {"open"}) /\ sock[s].bot \notin alive
    /\ ~\E t \in clearing : t.closes = s
    /\ clearing' = clearing \cup {[step |-> "read", match |-> sock[s].bot, closes |-> s, bot |-> sock[s].bot]}
    /\ Watch(s)
    /\ UNCHANGED <<env, singleton, made, started, phase, ws, reconnectTimer, connectTimer, intentional, tails, sock, op, history>>

-----------------------------------------------------------------------------
(* The 'close' event *)

\* With which code a socket may close: 4001 and 4003 if the server turns the
\* bot away or the bridge closed it so, and any other at any time.
MayCloseWith(s, code) == code = "auth" => sock[s].bot \notin alive \/ sock[s].code = "auth"

\* The close handler up to its await.  A socket that is no longer serverWs
\* stops the timers all the same, and changes nothing else.
CloseEvent(s, code) ==
    LET i == sock[s].inst
        stale == ws[i] \notin {None, s}
    IN
    /\ sock[s] # None /\ MayCloseWith(s, code)
    /\ IF code = "auth" \/ Is(s, {"closing"}) THEN UNCHANGED fails ELSE Trouble
    /\ sock' = [sock EXCEPT ![s] = None]
    /\ hb' = [hb EXCEPT ![i] = None]
    /\ connectTimer' = [connectTimer EXCEPT ![i] = None]
    /\ clearing' = {IF t.closes = s THEN [t EXCEPT !.closes = None] ELSE t : t \in clearing}
    /\ IF stale
       THEN UNCHANGED <<ws, intentional, tails>>
       ELSE /\ ws' = [ws EXCEPT ![i] = None]
            /\ intentional' = [intentional EXCEPT ![i] = FALSE]
            /\ tails' = tails \cup {[inst |-> i, code |-> code,
                                     intentional |-> intentional[i], bot |-> sock[s].bot]}
    /\ UNCHANGED <<env, singleton, made, started, phase, reconnectTimer, op, rpcs, overlap>>

\* Which close codes mean that the bot is gone.  And a bridge that takes all
\* of them so.
AnyClose(t) == TRUE
AuthClose(t) == t.code = "auth"

\* The close handler after its await.
CloseTail(t) ==
    /\ t \in tails
    /\ tails' = tails \ {t}
    /\ IF AuthClose(t)
       THEN /\ clearing' = clearing \cup {[step |-> "read", match |-> Whoever, closes |-> None, bot |-> t.bot]}
            /\ UNCHANGED reconnectTimer
       ELSE /\ IF t.intentional THEN UNCHANGED reconnectTimer ELSE ScheduleReconnect(t.inst)
            /\ UNCHANGED clearing
    /\ UNCHANGED <<env, singleton, made, started, phase, ws, connectTimer, hb, intentional, sock, op, history>>

-----------------------------------------------------------------------------
(* __clearTokenLocal *)

\* bot.unbound closes the socket when the token has been seen to.
ThenClose(t) ==
    sock' = IF t.closes # None /\ Is(t.closes, {"open"}) THEN CloseLocally(t.closes, "auth") ELSE sock

ClearRead(t) ==
    /\ t \in clearing /\ t.step = "read"
    /\ IF config = None \/ t.match \notin {Whoever, config}
       THEN clearing' = clearing \ {t} /\ ThenClose(t)
       ELSE clearing' = (clearing \ {t}) \cup {[t EXCEPT !.step = "write"]} /\ UNCHANGED sock
    /\ UNCHANGED <<env, singleton, made, inst, tails, op, history>>

ClearWrite(t) ==
    /\ t \in clearing /\ t.step = "write"
    /\ config' = None
    /\ clearing' = clearing \ {t}
    /\ ThenClose(t)
    /\ UNCHANGED <<created, alive, singleton, made, inst, tails, op, history>>

\* The file can be neither read nor written: bot.unbound leaves its socket open.
ClearFails(t) ==
    /\ t \in clearing
    /\ clearing' = clearing \ {t}
    /\ Trouble
    /\ UNCHANGED <<env, singleton, made, inst, tails, sock, op, rpcs, overlap>>

-----------------------------------------------------------------------------
(* The RPC methods, restartRealtimeBridge and stopRealtimeBridge *)

Stop == <<"stop", "stop2", "stopped">>
Restart == <<"stop", "stop2", "new">>
Unbind == <<"drop", "clear">> \o Stop
Method == [stopBridge    |-> Stop,
           refreshBridge |-> Restart,
           bind          |-> Stop \o <<"drop", "clear", "save">> \o Restart,
           unbind        |-> Unbind,
           enroll        |-> <<"save">> \o Restart]

\* coclaw.unbind fails without a token, and coclaw.enroll with one; what is
\* left out of enroll here is the wait for the claim.
Start(o, method) ==
    /\ o = rpcs + 1 /\ method \in Rpcs[o]
    /\ fails + rpcs < MaxTrouble
    /\ method = "unbind" => config # None
    /\ method = "enroll" => config = None
    /\ op' = [op EXCEPT ![o].todo = Method[method]]
    /\ rpcs' = o
    /\ overlap' = (overlap \/ \E q \in Ops : ~Idle(q))
    /\ UNCHANGED <<env, singleton, made, inst, tails, sock, clearing, fails>>

At(o, s) == ~Idle(o) /\ Head(op[o].todo) = s
Skip(o, n, i) == op' = [op EXCEPT ![o].todo = SubSeq(@, n + 1, Len(@)), ![o].on = i]

\* this.started = false.  And a stop() that leaves it.
StillStarted(i) == UNCHANGED started
NotStarted(i) == started' = [started EXCEPT ![i] = FALSE]

\* stop() up to the closing of the WebRTC sessions.
StopInstance(o) ==
    LET i == singleton IN
    /\ At(o, "stop") /\ i # None
    /\ NotStarted(i)
    /\ hb' = [hb EXCEPT ![i] = None]
    /\ connectTimer' = [connectTimer EXCEPT ![i] = None]
    /\ reconnectTimer' = [reconnectTimer EXCEPT ![i] = FALSE]
    /\ Skip(o, 1, i)
    /\ UNCHANGED <<env, singleton, made, phase, ws, intentional, tails, sock, clearing, history>>

\* stop() closes the socket and waits for its event, 3 s at most.
StopSocket(o) ==
    LET i == op[o].on
        s == ws[i]
    IN
    /\ At(o, "stop2")
    /\ ws' = [ws EXCEPT ![i] = None]
    /\ intentional' = [intentional EXCEPT ![i] = @ \/ s # None]
    /\ sock' = IF s # None /\ Is(s, {"connecting", "open"}) THEN CloseLocally(s, "other") ELSE sock
    /\ Skip(o, 1, i)
    /\ UNCHANGED <<env, singleton, made, started, phase, timers, tails, clearing, history>>

Stopped(o) ==
    /\ \/ At(o, "stopped") /\ singleton' = None /\ Skip(o, 1, None)
       \/ At(o, "stop") /\ singleton = None /\ op[o].todo[3] = "stopped"
          /\ UNCHANGED singleton /\ Skip(o, 3, None)
    /\ UNCHANGED <<env, made, inst, tails, sock, clearing, history>>

\* A new instance takes the place of the one stopped, if there was one.
NewInstance(o) ==
    LET i == made + 1 IN
    /\ made < MaxInst
    /\ \/ At(o, "new") /\ Skip(o, 1, None)
       \/ At(o, "stop") /\ singleton = None /\ op[o].todo[3] = "new" /\ Skip(o, 3, None)
    /\ made' = i /\ singleton' = i
    /\ started' = [started EXCEPT ![i] = TRUE]
    /\ phase' = [phase EXCEPT ![i] = "preload"]
    /\ UNCHANGED <<env, ws, timers, intentional, tails, sock, clearing, history>>

\* bindBot and unbindBot give up the old bot.  If that fails, or unbindBot
\* finds none, unbindBot ends, and bindBot goes on to restart the bridge.
Rebinding(o) == Len(op[o].todo) > Len(Unbind)
DropBot(o) ==
    /\ At(o, "drop")
    /\ \/ /\ config # None
          /\ alive' = alive \ {config}
          /\ Skip(o, 1, None)
       \/ /\ UNCHANGED alive
          /\ Skip(o, IF ~Rebinding(o) THEN Len(Unbind) ELSE IF config = None THEN 2 ELSE 3, None)
    /\ UNCHANGED <<config, created, singleton, made, inst, tails, sock, clearing, history>>

ClearConfig(o) ==
    /\ At(o, "clear")
    /\ config' = None
    /\ Skip(o, 1, None)
    /\ UNCHANGED <<created, alive, singleton, made, inst, tails, sock, clearing, history>>

\* The server creates a bot and the config gets its token, or the bind fails.
SaveConfig(o) ==
    /\ At(o, "save")
    /\ \/ created < MaxBots /\ created' = created + 1 /\ config' = created' /\ alive' = alive \cup {created'}
       \/ UNCHANGED env
    /\ Skip(o, 1, None)
    /\ UNCHANGED <<singleton, made, inst, tails, sock, clearing, history>>

\* The user unbinds the bot in the app.
UnbindByUser(b) ==
    /\ b \in alive
    /\ alive' = alive \ {b}
    /\ UNCHANGED <<config, created, singleton, made, inst, tails, sock, clearing, op, history>>

-----------------------------------------------------------------------------
Next ==
    \/ \E i \in Insts : Preloaded(i) \/ Reconnect(i) \/ SkipConnect(i) \/ ReadFails(i) \/ ConnectTimeout(i) \/ HeartbeatLost(i)
    \/ \E i \in Insts, s \in Socks : Connect(i, s)
    \/ \E s \in Socks : Opened(s) \/ Failed(s) \/ Message(s) \/ Unbound(s)
    \/ \E s \in Socks, code \in Codes : CloseEvent(s, code)
    \/ \E t \in tails : CloseTail(t)
    \/ \E t \in clearing : ClearRead(t) \/ ClearWrite(t) \/ ClearFails(t)
    \/ \E o \in Ops, method \in DOMAIN Method : Start(o, method)
    \/ \E o \in Ops : StopInstance(o) \/ StopSocket(o) \/ Stopped(o) \/ NewInstance(o)
                      \/ DropBot(o) \/ ClearConfig(o) \/ SaveConfig(o)
    \/ \E b \in Bots : UnbindByUser(b)

Spec == Init /\ [][Next]_vars

-----------------------------------------------------------------------------
(* Properties *)

\* Only the singleton runs, unless RPC methods have overlapped.
OneBridge == TypeOK /\ (~overlap => \A i \in Insts : started[i] => singleton = i)

\* Of the bridges that have been stopped, only one that was awaiting the
\* config at the time, or had a connection still to be closed, does anything:
\* a stopped bridge without either never connects again.
Dead(i) == i <= made /\ ~started[i] /\ phase[i] # "read" /\ ws[i] = None
StaysStopped == [][\A i \in Insts : Dead(i) => Dead(i)']_vars

\* A running bridge watches its socket: a connect timer until it is open, the
\* heartbeat from then on.  Only the event of an older socket ends that.
Watched(i) ==
    /\ ws[i] # None
    /\ Is(ws[i], {"connecting"}) => connectTimer[i] = ws[i]
    /\ Is(ws[i], {"open"}) => hb[i] = ws[i]
WatchEndsByOldSocket ==
    [][\A i \in Insts :
        (Watched(i) /\ ws'[i] # None /\ started'[i] /\ ~Watched(i)')
            => \E s \in Socks \ {ws[i]} : Is(s, {"connecting", "open", "closing"})
                                          /\ sock[s].inst = i /\ sock'[s] = None]_vars

\* A running bridge without a connection is about to try again, unless it has
\* just found no token, could not read the config, or has been turned away.
Stuck(i) ==
    /\ started[i] /\ ws[i] = None /\ phase[i] = "ready" /\ ~reconnectTimer[i]
    /\ ~\E t \in tails : t.inst = i
NoToken(i) == phase[i] = "read" /\ config = None
TurnedAway == \E t \in tails \ tails' : t.code = "auth"
NeverIdle ==
    [][\A i \in Insts : (~Stuck(i) /\ Stuck(i)') => NoToken(i) \/ TurnedAway \/ ReadFails(i)]_vars

\* The bridge never throws away the token of a bot that is still bound
\* because of what happened on that bot's own connection.
OwnTokenKept ==
    [][\A t \in clearing :
        (t \notin clearing' /\ t.step = "write" /\ config \in alive) => t.bot # config]_vars

=============================================================================
