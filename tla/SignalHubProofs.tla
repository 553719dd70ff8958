-------------------------- MODULE SignalHubProofs ---------------------------
(***************************************************************************)
(* Proofs about SignalRouter and SignalHub for every set of connIds, bots, *)
(* WebSockets and concurrent calls.                                        *)
(***************************************************************************)
EXTENDS SignalHub, TLAPS

\* Nobody has a route or a call before its WebSocket opened.
InUse ==
    /\ \A c \in Conns : routes[c] # NoRoute => wsState[routes[c].ws] # "new"
    /\ \A k \in Calls : call[k] # Idle => wsState[call[k].ws] # "new"

\* A call that outlived its WebSocket is what lateWs records.
LateCalls ==
    \A k \in Calls :
        (call[k] # Idle /\ wsState[call[k].ws] = "closed") => call[k].ws \in lateWs

\* A call that found the row of a bot disconnected since is what lateBots
\* records.
StaleCalls ==
    \A k \in Calls :
        (call[k] # Idle /\ call[k].hadRow /\ call[k].bot \notin bound \cup leaving)
            => call[k].bot \in lateBots

IInv ==
    /\ TypeOK
    /\ RouteIndexAgrees
    /\ InUse
    /\ LateCalls
    /\ StaleCalls
    /\ DeadRouteOnlyByRace
    /\ UnboundRouteOnlyByRace

\* The hub starts without WebSockets, routes or calls.
LEMMA InitEstablishes == Init => IInv
  BY NoRouteAssumption, IdleAssumption
  DEF Init, RouterInit, IInv, TypeOK, RouterTypeOK, RouteIndexAgrees, InUse, LateCalls,
      StaleCalls, DeadRouteOnlyByRace, UnboundRouteOnlyByRace, NoMessage, Route, Call

-----------------------------------------------------------------------------
(* The functions of the routing table keep its two maps inverse. *)

\* register, when the connId is free or the WebSocket's own.
LEMMA RegisterKeepsIndex ==
  ASSUME RouterTypeOK, RouteIndexAgrees, NEW c \in Conns, NEW w \in Wss, NEW b \in Bots,
         MayRegister(c, w), Register(c, w, b)
  PROVE  RouterTypeOK' /\ RouteIndexAgrees'
  BY NoRouteAssumption DEF RouterTypeOK, RouteIndexAgrees, MayRegister, Register, Route

\* remove.
LEMMA RemoveKeepsIndex ==
  ASSUME RouterTypeOK, RouteIndexAgrees, NEW c \in Conns, Remove(c)
  PROVE  RouterTypeOK' /\ RouteIndexAgrees'
  BY NoRouteAssumption DEF RouterTypeOK, RouteIndexAgrees, Remove, Route

\* removeByWs: what it deletes unseen is the WebSocket's own.
LEMMA RemoveByWsKeepsIndex ==
  ASSUME RouterTypeOK, RouteIndexAgrees, NEW w \in Wss, RemoveByWs(w)
  PROVE  /\ RouterTypeOK' /\ RouteIndexAgrees'
         /\ \A c \in Conns : routes'[c] # NoRoute => routes[c] = routes'[c] /\ routes[c].ws # w
  BY NoRouteAssumption DEF RouterTypeOK, RouteIndexAgrees, RemoveByWs, Route

\* removeByBotId.
LEMMA RemoveByBotIdKeepsIndex ==
  ASSUME RouterTypeOK, RouteIndexAgrees, NEW b \in Bots, RemoveByBotId(b)
  PROVE  /\ RouterTypeOK' /\ RouteIndexAgrees'
         /\ \A c \in Conns : routes'[c] # NoRoute => routes[c] = routes'[c] /\ routes[c].bot # b
  BY NoRouteAssumption DEF RouterTypeOK, RouteIndexAgrees, RemoveByBotId, ConnsOf, Route

\* A call leaves its slot, and nothing else changes but the table.
LEMMA ReturnKeeps ==
  ASSUME IInv, NEW k \in Calls, Return(k)
  PROVE  /\ call' \in [Calls -> Call \cup {Idle}]
         /\ \A j \in Calls : call'[j] # Idle => call'[j] = call[j]
         /\ bound' = bound /\ leaving' = leaving /\ wsState' = wsState
         /\ lateWs' = lateWs /\ lateBots' = lateBots
  BY DEF IInv, TypeOK, Return

\* A table that only loses routes keeps what the invariant says of routes, as
\* long as the rest of the hub stands still.
LEMMA FewerRoutes ==
  ASSUME IInv, RouterTypeOK', RouteIndexAgrees',
         \A c \in Conns : routes'[c] # NoRoute => routes'[c] = routes[c],
         UNCHANGED <<bound, leaving, wsState, lateWs, lateBots>>,
         call' \in [Calls -> Call \cup {Idle}],
         \A k \in Calls : call'[k] # Idle => call'[k] = call[k],
         toBot' \subseteq [kind : Kinds, conn : Conns, bot : Bots]
  PROVE  IInv'
<1>1. TypeOK'
  BY DEF IInv, TypeOK
<1>2. InUse'
  BY DEF IInv, InUse
<1>3. LateCalls' /\ StaleCalls'
  BY DEF IInv, LateCalls, StaleCalls
<1>4. DeadRouteOnlyByRace' /\ UnboundRouteOnlyByRace'
  BY DEF IInv, DeadRouteOnlyByRace, UnboundRouteOnlyByRace
<1>. QED BY <1>1, <1>2, <1>3, <1>4 DEF IInv

-----------------------------------------------------------------------------
(* One lemma per action. *)

\* A new WebSocket has no routes and no calls yet.
LEMMA OpenStep ==
  ASSUME IInv, NEW w \in Wss, Open(w)
  PROVE  IInv'
<1>1. TypeOK' /\ RouteIndexAgrees'
  BY DEF IInv, TypeOK, RouterTypeOK, RouteIndexAgrees, Open, routerVars
<1>2. InUse' /\ LateCalls' /\ StaleCalls'
  BY DEF IInv, TypeOK, InUse, LateCalls, StaleCalls, Open, routerVars
<1>3. DeadRouteOnlyByRace' /\ UnboundRouteOnlyByRace'
  BY DEF IInv, TypeOK, DeadRouteOnlyByRace, UnboundRouteOnlyByRace, Open, routerVars
<1>. QED BY <1>1, <1>2, <1>3 DEF IInv

\* Closing a WebSocket removes its routes; its calls are in lateWs from now on.
LEMMA CloseStep ==
  ASSUME IInv, NEW w \in Wss, Close(w)
  PROVE  IInv'
<1>1. /\ RouterTypeOK' /\ RouteIndexAgrees'
      /\ \A c \in Conns : routes'[c] # NoRoute => routes[c] = routes'[c] /\ routes[c].ws # w
  BY RemoveByWsKeepsIndex DEF IInv, TypeOK, Close
<1>2. TypeOK'
  BY <1>1 DEF IInv, TypeOK, Close
<1>3. InUse'
  BY <1>1 DEF IInv, TypeOK, InUse, Close
<1>4. LateCalls' /\ StaleCalls'
  BY DEF IInv, TypeOK, LateCalls, StaleCalls, Close, Awaiting
<1>5. DeadRouteOnlyByRace' /\ UnboundRouteOnlyByRace'
  BY <1>1 DEF IInv, TypeOK, RouterTypeOK, Route, DeadRouteOnlyByRace,
              UnboundRouteOnlyByRace, Close
<1>. QED BY <1>1, <1>2, <1>3, <1>4, <1>5 DEF IInv

\* A message that has to wait for its lookup comes from an open WebSocket.
LEMMA ReceiveUnroutedStep ==
  ASSUME IInv, NEW k \in Calls, NEW kind \in Kinds, NEW w \in Wss, NEW c \in Conns,
         NEW b \in Bots, ReceiveUnrouted(k, kind, w, c, b)
  PROVE  IInv'
<1>1. TypeOK' /\ RouteIndexAgrees'
  BY DEF IInv, TypeOK, RouterTypeOK, RouteIndexAgrees, ReceiveUnrouted, Await, Call,
         routerVars
<1>2. InUse' /\ LateCalls' /\ StaleCalls'
  BY DEF IInv, TypeOK, InUse, LateCalls, StaleCalls, ReceiveUnrouted, Await, routerVars
<1>3. DeadRouteOnlyByRace' /\ UnboundRouteOnlyByRace'
  BY DEF IInv, DeadRouteOnlyByRace, UnboundRouteOnlyByRace, ReceiveUnrouted, Await,
         routerVars
<1>. QED BY <1>1, <1>2, <1>3 DEF IInv

\* Forwarding over a route that exists changes nothing the invariant speaks of.
LEMMA ReceiveIceStep ==
  ASSUME IInv, NEW w \in Wss, NEW c \in Conns, ReceiveIce(w, c)
  PROVE  IInv'
<1>1. routes[c] \in Route
  BY DEF IInv, TypeOK, RouterTypeOK, ReceiveIce
<1>2. toBot' \subseteq [kind : Kinds, conn : Conns, bot : Bots]
  BY <1>1 DEF ReceiveIce, Forwarded, Kinds, Route
<1>3. RouterTypeOK' /\ RouteIndexAgrees'
  BY DEF IInv, TypeOK, RouterTypeOK, RouteIndexAgrees, ReceiveIce, routerVars
<1>. QED BY <1>2, <1>3, FewerRoutes DEF ReceiveIce, IInv, TypeOK, routerVars

\* rtc:closed of a connId with a route removes that one route.
LEMMA ReceiveClosedStep ==
  ASSUME IInv, NEW w \in Wss, NEW c \in Conns, ReceiveClosed(w, c)
  PROVE  IInv'
<1>1. routes[c] \in Route
  BY DEF IInv, TypeOK, RouterTypeOK, ReceiveClosed
<1>2. toBot' \subseteq [kind : Kinds, conn : Conns, bot : Bots]
  BY <1>1 DEF ReceiveClosed, Forwarded, Kinds, Route
<1>3. RouterTypeOK' /\ RouteIndexAgrees'
  BY RemoveKeepsIndex DEF IInv, TypeOK, ReceiveClosed
<1>4. \A d \in Conns : routes'[d] # NoRoute => routes'[d] = routes[d]
  BY DEF IInv, TypeOK, RouterTypeOK, ReceiveClosed, Remove
<1>. QED BY <1>2, <1>3, <1>4, FewerRoutes DEF ReceiveClosed, IInv, TypeOK

\* A lookup that finds another owner removes a route at most (rtc:closed does).
LEMMA FinishDeniedStep ==
  ASSUME IInv, NEW k \in Calls, FinishDenied(k)
  PROVE  IInv'
<1>1. call[k].conn \in Conns
  BY DEF IInv, TypeOK, Call, FinishDenied
<1>2. RouterTypeOK' /\ RouteIndexAgrees'
  <2>1. CASE Remove(call[k].conn)
    BY <1>1, <2>1, RemoveKeepsIndex DEF IInv, TypeOK
  <2>2. CASE UNCHANGED routerVars
    BY <2>2 DEF IInv, TypeOK, RouterTypeOK, RouteIndexAgrees, routerVars
  <2>. QED BY <2>1, <2>2 DEF FinishDenied
<1>3. \A d \in Conns : routes'[d] # NoRoute => routes'[d] = routes[d]
  BY DEF IInv, TypeOK, RouterTypeOK, FinishDenied, Remove, routerVars
<1>4. Return(k) /\ toBot' = {}
  BY DEF FinishDenied, NoMessage
<1>. QED BY <1>2, <1>3, <1>4, ReturnKeeps, FewerRoutes

\* rtc:closed after its lookup removes at most the route it names.
LEMMA FinishClosedStep ==
  ASSUME IInv, NEW k \in Calls, FinishClosed(k)
  PROVE  IInv'
<1>1. call[k].conn \in Conns /\ call[k].bot \in Bots
  BY DEF IInv, TypeOK, Call, FinishClosed
<1>2. RouterTypeOK' /\ RouteIndexAgrees'
  BY <1>1, RemoveKeepsIndex DEF IInv, TypeOK, FinishClosed
<1>3. \A d \in Conns : routes'[d] # NoRoute => routes'[d] = routes[d]
  BY <1>1 DEF IInv, TypeOK, RouterTypeOK, FinishClosed, Remove
<1>4. toBot' \subseteq [kind : Kinds, conn : Conns, bot : Bots]
  BY <1>1 DEF FinishClosed, Forwarded, Kinds
<1>5. Return(k)
  BY DEF FinishClosed
<1>. QED BY <1>2, <1>3, <1>4, <1>5, ReturnKeeps, FewerRoutes

\* A route made after the lookup is to a closed WebSocket, or to a bot
\* disconnected since, only if the call was counted as late.
LEMMA FinishRegisterStep ==
  ASSUME IInv, NEW k \in Calls, FinishRegister(k)
  PROVE  IInv'
<1> DEFINE m == call[k]
<1>1. m # Idle /\ m \in Call /\ m.hadRow
  BY DEF IInv, TypeOK, FinishRegister, MayBeOwned
<1>2. Return(k)
  BY DEF FinishRegister
<1>3. CASE ~MayRegister(m.conn, m.ws)
  <2>1. UNCHANGED routerVars /\ toBot' = {}
    BY <1>3 DEF FinishRegister, NoMessage
  <2>2. RouterTypeOK' /\ RouteIndexAgrees'
    BY <2>1 DEF IInv, TypeOK, RouterTypeOK, RouteIndexAgrees, routerVars
  <2>. QED BY <1>2, <2>1, <2>2, ReturnKeeps, FewerRoutes DEF routerVars
<1>4. CASE MayRegister(m.conn, m.ws)
  <2>1. Register(m.conn, m.ws, m.bot) /\ toBot' = Forwarded(m.kind, m.conn, m.bot)
    BY <1>4 DEF FinishRegister
  <2>2. m.conn \in Conns /\ m.ws \in Wss /\ m.bot \in Bots /\ m.kind \in Kinds
    BY <1>1 DEF Call
  <2>3. RouterTypeOK' /\ RouteIndexAgrees'
    BY <1>4, <2>1, <2>2, RegisterKeepsIndex DEF IInv, TypeOK
  <2>4. TypeOK'
    BY <1>2, <2>1, <2>2, <2>3, ReturnKeeps DEF IInv, TypeOK, Forwarded
  <2>5. \A d \in Conns : routes'[d] # NoRoute =>
            routes'[d] = routes[d] \/ routes'[d] = [ws |-> m.ws, bot |-> m.bot]
    BY <2>1 DEF IInv, TypeOK, RouterTypeOK, Register
  <2>6. InUse'
    BY <1>1, <1>2, <2>5, ReturnKeeps DEF IInv, InUse
  <2>7. LateCalls' /\ StaleCalls'
    BY <1>2, ReturnKeeps DEF IInv, LateCalls, StaleCalls
  <2>8. DeadRouteOnlyByRace'
    BY <1>1, <1>2, <2>5, ReturnKeeps DEF IInv, LateCalls, DeadRouteOnlyByRace
  <2>9. UnboundRouteOnlyByRace'
    BY <1>1, <1>2, <2>5, ReturnKeeps DEF IInv, StaleCalls, UnboundRouteOnlyByRace
  <2>. QED BY <2>3, <2>4, <2>6, <2>7, <2>8, <2>9 DEF IInv
<1>. QED BY <1>3, <1>4

\* Deleting the row of a bot touches neither the table nor the calls.
LEMMA DeleteBotStep ==
  ASSUME IInv, NEW b \in Bots, DeleteBot(b)
  PROVE  IInv'
<1>1. TypeOK' /\ RouteIndexAgrees'
  BY DEF IInv, TypeOK, RouterTypeOK, RouteIndexAgrees, DeleteBot, routerVars
<1>2. InUse' /\ LateCalls' /\ StaleCalls'
  BY DEF IInv, InUse, LateCalls, StaleCalls, DeleteBot, routerVars
<1>3. DeadRouteOnlyByRace' /\ UnboundRouteOnlyByRace'
  BY DEF IInv, DeadRouteOnlyByRace, UnboundRouteOnlyByRace, DeleteBot, routerVars
<1>. QED BY <1>1, <1>2, <1>3 DEF IInv

\* Disconnecting a bot removes its routes; its calls are in lateBots from now on.
LEMMA NotifyAndDisconnectStep ==
  ASSUME IInv, NEW b \in Bots, NotifyAndDisconnect(b)
  PROVE  IInv'
<1>1. /\ RouterTypeOK' /\ RouteIndexAgrees'
      /\ \A c \in Conns : routes'[c] # NoRoute => routes[c] = routes'[c] /\ routes[c].bot # b
  BY RemoveByBotIdKeepsIndex DEF IInv, TypeOK, NotifyAndDisconnect
<1>2. TypeOK'
  BY <1>1 DEF IInv, TypeOK, NotifyAndDisconnect
<1>3. InUse' /\ LateCalls'
  BY <1>1 DEF IInv, InUse, LateCalls, NotifyAndDisconnect
<1>4. StaleCalls'
  BY DEF IInv, TypeOK, StaleCalls, NotifyAndDisconnect, Awaiting
<1>5. DeadRouteOnlyByRace' /\ UnboundRouteOnlyByRace'
  BY <1>1 DEF IInv, DeadRouteOnlyByRace, UnboundRouteOnlyByRace, NotifyAndDisconnect
<1>. QED BY <1>1, <1>2, <1>3, <1>4, <1>5 DEF IInv

-----------------------------------------------------------------------------
(* The theorems. *)

\* The strengthened invariant is inductive.
LEMMA NextPreserves == IInv /\ [Next]_vars => IInv'
<1> SUFFICES ASSUME IInv, [Next]_vars PROVE IInv'
  OBVIOUS
<1>1. CASE UNCHANGED vars
  BY <1>1, FewerRoutes
  DEF vars, routerVars, hubVars, IInv, TypeOK, RouterTypeOK, RouteIndexAgrees
<1>. QED BY <1>1, OpenStep, CloseStep, ReceiveUnroutedStep, ReceiveIceStep,
            ReceiveClosedStep, FinishDeniedStep, FinishRegisterStep, FinishClosedStep,
            DeleteBotStep, NotifyAndDisconnectStep DEF Next

\* The strengthened invariant holds in every reachable state of the hub.
THEOREM Invariance == Spec => []IInv
<1>1. Init => IInv
  BY InitEstablishes
<1>2. IInv /\ [Next]_vars => IInv'
  BY NextPreserves
<1>. QED BY <1>1, <1>2, PTL DEF Spec

\* The two maps of the routing table stay inverse to each other.
THEOREM IndexAgrees == Spec => []RouteIndexAgrees
<1>1. IInv => RouteIndexAgrees
  BY DEF IInv
<1>. QED BY <1>1, Invariance, PTL

\* A dead route is the work of a lookup that outlived its WebSocket.
THEOREM DeadRoutes == Spec => []DeadRouteOnlyByRace
<1>1. IInv => DeadRouteOnlyByRace
  BY DEF IInv
<1>. QED BY <1>1, Invariance, PTL

\* A route to a disconnected bot is the work of a lookup that outlived it.
THEOREM UnboundRoutes == Spec => []UnboundRouteOnlyByRace
<1>1. IInv => UnboundRouteOnlyByRace
  BY DEF IInv
<1>. QED BY <1>1, Invariance, PTL

\* No WebSocket takes the route of another.
THEOREM NotStolen == Spec => NoRouteStolen
<1> DEFINE Kept == \A c \in Conns :
        (routes[c] # NoRoute /\ routes'[c] # NoRoute) => routes'[c].ws = routes[c].ws
<1>1. IInv /\ [Next]_vars => [Kept]_routerVars
  <2> SUFFICES ASSUME IInv, Next, ~UNCHANGED routerVars PROVE Kept
    BY DEF vars
  <2>1. ASSUME NEW k \in Calls, FinishRegister(k) PROVE Kept
    BY <2>1 DEF IInv, TypeOK, RouterTypeOK, Call, FinishRegister, MayRegister, Register
  <2>2. ASSUME NEW w \in Wss, Close(w) PROVE Kept
    BY <2>2 DEF Close, RemoveByWs
  <2>3. ASSUME NEW b \in Bots, NotifyAndDisconnect(b) PROVE Kept
    BY <2>3 DEF NotifyAndDisconnect, RemoveByBotId
  <2>4. ASSUME NEW c \in Conns, Remove(c) PROVE Kept
    BY <2>4 DEF IInv, TypeOK, RouterTypeOK, Remove
  <2>5. ASSUME NEW k \in Calls, FinishDenied(k) \/ FinishClosed(k) PROVE Kept
    BY <2>4, <2>5 DEF IInv, TypeOK, Call, FinishDenied, FinishClosed
  <2>. QED BY <2>1, <2>2, <2>3, <2>4, <2>5
           DEF Next, Open, ReceiveUnrouted, Await, ReceiveIce, ReceiveClosed, DeleteBot
<1>. QED BY <1>1, Invariance, PTL DEF Spec, NoRouteStolen

=============================================================================
