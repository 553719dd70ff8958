---------------------------- MODULE SignalRouter ----------------------------
(***************************************************************************)
(* The routing table of RTC signalling, src/server/src/rtc-signal-router.js: *)
(* routes maps a connId to the UI WebSocket and the bot it talks to,       *)
(* wsToConnIds maps a WebSocket to its connIds.  The operators are the     *)
(* module's functions; each yields the new pair of maps.                   *)
(***************************************************************************)
EXTENDS FiniteSets

CONSTANTS
    Conns,               \* connIds, one per tab and bot
    Bots,                \* bot ids
    Wss,                 \* UI WebSocket objects
    NoRoute              \* what lookup returns for an unknown connId

VARIABLES
    routes,              \* connId -> [ws, bot], or NoRoute
    wsToConnIds          \* ws -> set of connIds

Route == [ws : Wss, bot : Bots]

ASSUME NoRouteAssumption == NoRoute \notin Route

routerVars == <<routes, wsToConnIds>>

RouterTypeOK ==
    /\ routes \in [Conns -> Route \cup {NoRoute}]
    /\ wsToConnIds \in [Wss -> SUBSET Conns]

RouterInit ==
    /\ routes = [c \in Conns |-> NoRoute]
    /\ wsToConnIds = [w \in Wss |-> {}]

\* register succeeds: the connId is free or already belongs to this WebSocket.
MayRegister(c, w) == routes[c] = NoRoute \/ routes[c].ws = w

Register(c, w, b) ==
    /\ routes' = [routes EXCEPT ![c] = [ws |-> w, bot |-> b]]
    /\ wsToConnIds' = [wsToConnIds EXCEPT ![w] = @ \cup {c}]

\* remove: no effect on an unknown connId.
Remove(c) ==
    /\ routes' = [routes EXCEPT ![c] = NoRoute]
    /\ wsToConnIds' = [w \in Wss |->
         IF routes[c] # NoRoute /\ routes[c].ws = w
         THEN wsToConnIds[w] \ {c} ELSE wsToConnIds[w]]

\* A close handler that only forgets the second map.
ForgetWs(w) ==
    /\ wsToConnIds' = [wsToConnIds EXCEPT ![w] = {}]
    /\ UNCHANGED routes

\* removeByWs: deletes whatever the second map names, unseen.
RemoveByWs(w) ==
    /\ routes' = [c \in Conns |-> IF c \in wsToConnIds[w] THEN NoRoute ELSE routes[c]]
    /\ wsToConnIds' = [wsToConnIds EXCEPT ![w] = {}]

\* removeByBotId: remove for every connId of the bot.
ConnsOf(b) == {c \in Conns : routes[c] # NoRoute /\ routes[c].bot = b}

RemoveByBotId(b) ==
    /\ routes' = [c \in Conns |-> IF c \in ConnsOf(b) THEN NoRoute ELSE routes[c]]
    /\ wsToConnIds' = [w \in Wss |->
         wsToConnIds[w] \ {c \in ConnsOf(b) : routes[c].ws = w}]

\* The two maps are inverse to each other, so that closing a WebSocket removes
\* its own routes, all of them, and nobody else's.
RouteIndexAgrees ==
    \A c \in Conns, w \in Wss :
        c \in wsToConnIds[w] <=> (routes[c] # NoRoute /\ routes[c].ws = w)

\* A connId changes its WebSocket only after its route has been removed.
NoRouteStolen ==
    [][\A c \in Conns :
        (routes[c] # NoRoute /\ routes'[c] # NoRoute) => routes'[c].ws = routes[c].ws
      ]_routerVars

=============================================================================
