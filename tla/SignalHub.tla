----------------------------- MODULE SignalHub ------------------------------
(***************************************************************************)
(* The RTC signalling endpoint of the server,                              *)
(* src/server/src/rtc-signal-hub.js, over the routing table SignalRouter,  *)
(* with the calls bot-ws-hub.js makes into the table: removeByBotId when a *)
(* bot is unbound.                                                         *)
(*                                                                         *)
(* handleMessage awaits a database lookup before it touches the table, so  *)
(* it is two actions: Receive, which runs up to the await, and Finish.     *)
(* Between them the WebSocket may close, the bot may be unbound, and other *)
(* messages of the same connId may be handled.  All WebSockets belong to   *)
(* one user, who owns every bot that has a row: what the lookup answers is *)
(* then a matter of when it reads.                                         *)
(***************************************************************************)
EXTENDS SignalRouter

CONSTANTS
    Calls,               \* bound: handleMessage calls awaiting at one time
    Idle                 \* a call slot not in use

Kinds == {"offer", "ice", "closed"}   \* rtc:ready is handled like rtc:ice

Call == [kind : Kinds, ws : Wss, conn : Conns, bot : Bots, hadRow : BOOLEAN]

ASSUME IdleAssumption == Idle \notin Call

VARIABLES
    bound,               \* bots that have a row
    leaving,             \* rows deleted, notifyAndDisconnectBot not yet called
    wsState,             \* per WebSocket: "new", "open" or "closed"
    call,                \* the handleMessage calls that await their lookup
    toBot,               \* the last message handed to forwardToBot, if any
    lateWs,              \* WebSockets closed while a call of theirs awaited
    lateBots             \* bots disconnected while a call for them awaited

hubVars == <<bound, leaving, wsState, call, toBot, lateWs, lateBots>>
vars == <<routerVars, hubVars>>

NoMessage == {}
Forwarded(k, c, b) == {[kind |-> k, conn |-> c, bot |-> b]}

TypeOK ==
    /\ RouterTypeOK
    /\ bound \subseteq Bots
    /\ leaving \subseteq Bots
    /\ wsState \in [Wss -> {"new", "open", "closed"}]
    /\ call \in [Calls -> Call \cup {Idle}]
    /\ toBot \subseteq [kind : Kinds, conn : Conns, bot : Bots]
    /\ lateWs \subseteq Wss
    /\ lateBots \subseteq Bots

Init ==
    /\ RouterInit
    /\ bound = Bots
    /\ leaving = {}
    /\ wsState = [w \in Wss |-> "new"]
    /\ call = [k \in Calls |-> Idle]
    /\ toBot = NoMessage
    /\ lateWs = {}
    /\ lateBots = {}

Awaiting == {call[k] : k \in {j \in Calls : call[j] # Idle}}

-----------------------------------------------------------------------------
(* WebSockets *)

Open(w) ==
    /\ wsState[w] = "new"
    /\ wsState' = [wsState EXCEPT ![w] = "open"]
    /\ UNCHANGED <<routerVars, bound, leaving, call, toBot, lateWs, lateBots>>

\* The 'close' event.
Close(w) ==
    /\ wsState[w] = "open"
    /\ wsState' = [wsState EXCEPT ![w] = "closed"]
    /\ RemoveByWs(w)
    /\ lateWs' = IF \E m \in Awaiting : m.ws = w THEN lateWs \cup {w} ELSE lateWs
    /\ UNCHANGED <<bound, leaving, call, toBot, lateBots>>

-----------------------------------------------------------------------------
(* handleMessage, up to the lookup *)

\* validateBotOwnership is called: the row it will look for exists now or not.
Await(k, kind, w, c, b) ==
    /\ call[k] = Idle
    /\ call' = [call EXCEPT ![k] =
         [kind |-> kind, ws |-> w, conn |-> c, bot |-> b, hadRow |-> b \in bound]]
    /\ UNCHANGED <<routerVars, bound, leaving, wsState, toBot, lateWs, lateBots>>

\* An offer always awaits; the others only for a connId without a route.
ReceiveUnrouted(k, kind, w, c, b) ==
    /\ wsState[w] = "open"
    /\ kind = "offer" \/ routes[c] = NoRoute
    /\ Await(k, kind, w, c, b)

\* rtc:ice or rtc:ready on a known connId goes to the bot of the route.
ReceiveIce(w, c) ==
    /\ wsState[w] = "open"
    /\ routes[c] # NoRoute
    /\ toBot' = Forwarded("ice", c, routes[c].bot)
    /\ UNCHANGED <<routerVars, bound, leaving, wsState, call, lateWs, lateBots>>

\* rtc:closed on a known connId is forwarded and ends the route.
ReceiveClosed(w, c) ==
    /\ wsState[w] = "open"
    /\ routes[c] # NoRoute
    /\ toBot' = Forwarded("closed", c, routes[c].bot)
    /\ Remove(c)
    /\ UNCHANGED <<bound, leaving, wsState, call, lateWs, lateBots>>

-----------------------------------------------------------------------------
(* handleMessage, after the lookup *)

\* The lookup found the row: it can only if the row was there when it began.
\* And a hub that does not look.
OwnedUnchecked(m) == TRUE
MayBeOwned(m) == m.hadRow

Return(k) ==
    /\ call' = [call EXCEPT ![k] = Idle]
    /\ UNCHANGED <<bound, leaving, wsState, lateWs, lateBots>>

\* Not owned, or the lookup failed: nothing happens, except that rtc:closed
\* removes whatever route there is by now.
FinishDenied(k) ==
    /\ call[k] # Idle
    /\ IF call[k].kind = "closed" THEN Remove(call[k].conn) ELSE UNCHANGED routerVars
    /\ toBot' = NoMessage
    /\ Return(k)

\* An offer, or an ice or ready without a route: register, then forward.
FinishRegister(k) ==
    LET m == call[k] IN
    /\ m # Idle /\ m.kind \in {"offer", "ice"}
    /\ MayBeOwned(m)
    /\ IF MayRegister(m.conn, m.ws)
       THEN /\ Register(m.conn, m.ws, m.bot)
            /\ toBot' = Forwarded(m.kind, m.conn, m.bot)
       ELSE /\ UNCHANGED routerVars
            /\ toBot' = NoMessage
    /\ Return(k)

\* rtc:closed that found no route: forward and remove all the same.
FinishClosed(k) ==
    LET m == call[k] IN
    /\ m # Idle /\ m.kind = "closed"
    /\ MayBeOwned(m)
    /\ toBot' = Forwarded("closed", m.conn, m.bot)
    /\ Remove(m.conn)
    /\ Return(k)

-----------------------------------------------------------------------------
(* Unbinding *)

DeleteBot(b) ==
    /\ b \in bound
    /\ bound' = bound \ {b}
    /\ leaving' = leaving \cup {b}
    /\ UNCHANGED <<routerVars, wsState, call, toBot, lateWs, lateBots>>

NotifyAndDisconnect(b) ==
    /\ b \in leaving
    /\ leaving' = leaving \ {b}
    /\ RemoveByBotId(b)
    /\ lateBots' = IF \E m \in Awaiting : m.bot = b /\ m.hadRow
                   THEN lateBots \cup {b} ELSE lateBots
    /\ UNCHANGED <<bound, wsState, call, toBot, lateWs>>

-----------------------------------------------------------------------------
Next ==
    \/ \E w \in Wss : Open(w) \/ Close(w)
    \/ \E k \in Calls, kind \in Kinds, w \in Wss, c \in Conns, b \in Bots :
         ReceiveUnrouted(k, kind, w, c, b)
    \/ \E w \in Wss, c \in Conns : ReceiveIce(w, c) \/ ReceiveClosed(w, c)
    \/ \E k \in Calls : FinishDenied(k) \/ FinishRegister(k) \/ FinishClosed(k)
    \/ \E b \in Bots : DeleteBot(b) \/ NotifyAndDisconnect(b)

Spec == Init /\ [][Next]_vars

-----------------------------------------------------------------------------
(* Properties *)

\* The only way to a route whose WebSocket is closed is a lookup that was
\* still awaited when the WebSocket closed.
DeadRouteOnlyByRace ==
    \A c \in Conns :
        (routes[c] # NoRoute /\ wsState[routes[c].ws] = "closed")
            => routes[c].ws \in lateWs

\* The only way to a route to a disconnected bot is a lookup that was still
\* awaited when the bot was disconnected.
UnboundRouteOnlyByRace ==
    \A c \in Conns :
        (routes[c] # NoRoute /\ routes[c].bot \notin bound \cup leaving)
            => routes[c].bot \in lateBots

\* The routing table is a live mapping: every route leads to an open WebSocket
\* (docs/designs/rtc-signaling-channel.md).  It is not.
LiveMapping ==
    \A c \in Conns : routes[c] # NoRoute => wsState[routes[c].ws] = "open"

=============================================================================
